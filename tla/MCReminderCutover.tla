------------------------- MODULE MCReminderCutover -------------------------
(* Instances of ReminderCutover for TLC.                                   *)
EXTENDS ReminderCutover, TLC

CONSTANTS r1, r2

Written(recs, on) == [recs |-> recs, on |-> on, keys |-> "known"]
Nothing == [r \in Reminders |-> NoRecord]

\* No reminder yet, or one from the release before: pending or fired.
Installed ==
    {Written(Nothing, {"telegram"}),
     Written([Nothing EXCEPT ![r1] = Pending], {"telegram"}),
     Written([Nothing EXCEPT ![r1] = Fired(Pending)], {"telegram"})}
=============================================================================
