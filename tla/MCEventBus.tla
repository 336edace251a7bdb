----------------------------- MODULE MCEventBus -----------------------------
(* An instance for TLC: the two ends of one connection, with every pair of   *)
(* tables over one hook and one route, and every pair of handlers.           *)
EXTENDS EventBus

CONSTANTS a, b, x1, x2, none

Pair == {a, b}
Across == [n \in Pair |-> IF n = a THEN b ELSE a]
TwoExchanges == {x1, x2}
=============================================================================
