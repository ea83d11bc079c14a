-------------------------- MODULE MCPushWardMirror --------------------------
(* Instances of PushWardMirror for TLC.                                    *)
EXTENDS PushWardMirror, TLC

CONSTANTS h1, h2, s1, s2

Bounded(features, c, e, f) ==
  [activity |-> "activity" \in features, widget |-> "widget" \in features,
   direct |-> "direct" \in features, changes |-> c, edits |-> e, faults |-> f]
Each ==
  {Bounded({"activity", "direct"}, 3, 0, 1), Bounded({"activity", "direct"}, 2, 1, 0),
   Bounded({"activity"}, 2, 1, 0),
   Bounded({"widget", "direct"}, 2, 0, 1), Bounded({"widget", "direct"}, 2, 1, 0)}
=============================================================================
