--------------------------- MODULE MCCoffeeAlerts ---------------------------
(* Instances of CoffeeAlerts for TLC.                                      *)
EXTENDS CoffeeAlerts, TLC

CONSTANTS h1, h2

WarmUp == ("warmed_up" :> 1)
=============================================================================
