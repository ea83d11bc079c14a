-------------------------- MODULE MCCalendarCache --------------------------
(* Instances of CalendarCache for TLC: where the resources are and the     *)
(* order of their hrefs.                                                   *)
EXTENDS CalendarCache, TLC

CONSTANTS c1, c2, r1, r2, r3

OneCalendar == (r1 :> c1)
ByName == [r \in Resources |-> CASE r = r1 -> 1 [] r = r2 -> 2 [] OTHER -> 3]
=============================================================================
