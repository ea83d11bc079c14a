----------------------- MODULE ReminderDeliveryTimely -----------------------
(***************************************************************************)
(* ReminderDelivery on a machine that keeps up: a tick of the clock is no  *)
(* shorter than the poll interval, so it passes only when every worker has *)
(* run since the last one and waits for nothing but a provider, whose call *)
(* ends within CallLimit ticks (the timeouts of the clients).  Under these *)
(* assumptions every due reminder is settled, which is what the scheduler  *)
(* is for.                                                                 *)
(***************************************************************************)
EXTENDS ReminderDelivery

CONSTANT CallLimit    \* ticks a provider call may take

ASSUME TimelyAssumption == CallLimit \in Nat

KeepsUp(w) ==
  \/ wk[w].pc = "idle" /\ wk[w].now = clock
  \/ wk[w].pc = "sending" /\ clock < wk[w].now + CallLimit

TimelyTick == (\A w \in Workers : KeepsUp(w)) /\ Tick

TimelyNext ==
  TimelyTick \/ Request \/ \E w \in Workers : WorkerStep(w) \/ Crash(w)

\* The event loop runs every task that can run, and time passes; requests and
\* faults are never obliged to happen.
TimelySpec ==
  /\ Init /\ [][TimelyNext]_vars
  /\ WF_vars(TimelyTick)
  /\ \A w \in Workers : WF_vars(WorkerStep(w))

Waiting(r) == rem[r].status \in OpenStatus /\ rem[r].dstate \notin Settled

\* Every reminder is delivered, given up as failed, or closed by its owner: none
\* is forgotten by a crash, a lost lease, an edit or a silent provider.
EveryReminderSettles == \A r \in Reminders : Waiting(r) ~> ~ Waiting(r)

=============================================================================
