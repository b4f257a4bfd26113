--------------------------- MODULE MCPowerControl ---------------------------
(***************************************************************************)
(* A small instance: two tasks, the custom mode and one other with a range *)
(* of PL2 of its own, and values inside and above the ranges.              *)
(***************************************************************************)
EXTENDS PowerControl, TLC

CONSTANTS perf, custom, t1, t2

R(lo, hi, s) == [min |-> lo, max |-> hi, step |-> s]
L(a, b) == [k \in Limits |-> IF k = "pl1" THEN a ELSE b]

MCCap == [m \in Modes |->
  IF m = perf THEN L(R(25, 60, 5), R(40, 65, 5)) ELSE L(R(25, 60, 5), R(40, 85, 5))]
MCDefault == [m \in Modes |-> IF m = perf THEN L(60, 65) ELSE L(60, 85)]

AnyTask == Permutations({t1, t2})

ASSUME NestedRanges == Nested
=============================================================================
