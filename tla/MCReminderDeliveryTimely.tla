---------------------- MODULE MCReminderDeliveryTimely ----------------------
(* Instances of ReminderDeliveryTimely; see MCReminderDelivery. *)
EXTENDS ReminderDeliveryTimely

TelegramOnly == {[legacy |-> TRUE, spoken |-> "alice", phones |-> {"telegram"},
                  telegram |-> TRUE, mobile |-> FALSE]}
Backoff == [k \in 1..(MaxAttempts - 1) |-> {k}]
=============================================================================
