------------------------------ MODULE PlanningStore ------------------------------
(* What the planning store promises to those who ask it for changes, without    *)
(* transactions, handlers, tokens or keys: every object has a version, a request *)
(* takes effect at most once and entirely, its effect lasts, and whoever is told *)
(* that a request is done is told the effect it had.                             *)
EXTENDS Naturals

CONSTANTS Objects,   \* what is planned: reminders, tasks, events, projects
          Ids        \* what names a request: an idempotency key or an action token

VARIABLES version,   \* [Objects -> Nat]: 0 while the object does not exist
          effect,    \* [Ids -> set of changes]: what the request has changed
          heard      \* [Ids -> set of changes]: what those who asked were told

vars == <<version, effect, heard>>

Init ==
  /\ version \in [Objects -> {0, 1}]
  /\ effect = [i \in Ids |-> {}]
  /\ heard = [i \in Ids |-> {}]

(* A request takes effect, which it has not done before. *)
Carry(i, o) ==
  /\ effect[i] = {}
  /\ version' = [version EXCEPT ![o] = @ + 1]
  /\ effect' = [effect EXCEPT ![i] = {[object |-> o, version |-> version[o] + 1]}]
  /\ UNCHANGED heard

(* Somebody who uses neither keys nor tokens changes an object. *)
Interfere(o) ==
  /\ version' = [version EXCEPT ![o] = @ + 1]
  /\ UNCHANGED <<effect, heard>>

(* Somebody who asked is told what the request has done. *)
Tell(i) ==
  /\ effect[i] # {}
  /\ heard' = [heard EXCEPT ![i] = @ \cup effect[i]]
  /\ UNCHANGED <<version, effect>>

Next ==
  \/ \E i \in Ids, o \in Objects : Carry(i, o)
  \/ \E o \in Objects : Interfere(o)
  \/ \E i \in Ids : Tell(i)

Spec == Init /\ [][Next]_vars
=================================================================================
