----------------------- MODULE MCCoffeeTimingPolicy ------------------------
(* Instances of CoffeeTimingPolicy for TLC.                                *)
EXTENDS CoffeeTimingPolicy, TLC

CONSTANTS a1, a2

Defaults == ("warmup" :> 2) @@ ("long" :> 2)

MaybeOld == {NoPair, Defaults}

(* One client with trouble, or two that ask at the same time.              *)
Bounds(c, e, f) == [calls |-> c, edits |-> e, faults |-> f]
Each == {Bounds(1, 1, 1), Bounds(1, 0, 2), Bounds(2, 0, 0)}
=============================================================================
