------------------------- MODULE MCProviderMutation -------------------------
(* Instances of ProviderMutation for TLC: where the resources are and the     *)
(* order of their hrefs.                                                   *)
EXTENDS ProviderMutation, TLC

CONSTANTS c1, c2, c3, r1, r2, r3, h1, h2, k1, k2

OneCalendar == (r1 :> c1)
ByName == [r \in Resources |-> CASE r = r1 -> 1 [] r = r2 -> 2 [] OTHER -> 3]
RequestSymmetry == Permutations(Handlers) \cup Permutations(Keys)
=============================================================================
