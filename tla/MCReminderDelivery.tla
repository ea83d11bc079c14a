------------------------ MODULE MCReminderDelivery ------------------------
(* Small instances of ReminderDelivery. *)
EXTENDS ReminderDelivery, TLC

Native(spoken, phones) ==
  [legacy |-> FALSE, spoken |-> spoken, phones |-> phones,
   telegram |-> TRUE, mobile |-> FALSE]
Legacy(telegram, mobile) ==
  [legacy |-> TRUE, spoken |-> "alice", phones |-> {"telegram"},
   telegram |-> telegram, mobile |-> mobile]

\* Alice and Telegram, both required.
SpokenAndPhone == {Native("alice", {"telegram"})}
\* Telegram required, the phone optional.
LegacyOptional == {Legacy(TRUE, TRUE)}
\* Telegram only.
TelegramOnly == {Legacy(TRUE, FALSE)}

\* The owner may switch between the two, or choose a channel that is not there.
AnySettings == SpokenAndPhone \cup LegacyOptional
                \cup {Legacy(FALSE, FALSE), Native("jarvis", {"home_assistant"})}

\* A retry after one tick, the next after two.
Backoff == [k \in 1..(MaxAttempts - 1) |-> {k}]

TokenSymmetry == Permutations(Tokens)
WorkerSymmetry == Permutations(Tokens) \cup Permutations(Workers)
===========================================================================
