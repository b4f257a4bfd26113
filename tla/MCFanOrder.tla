----------------------------- MODULE MCFanOrder -----------------------------
(***************************************************************************)
(* Three points and tables that rise but lie across each other: the EC     *)
(* refuses some of the stores.                                             *)
(***************************************************************************)
EXTENDS FanCurve

CONSTANTS perf, custom, gui, fan

MCStock == [m \in {perf, custom} |->
  [i \in 1..3 |-> [temp |-> IF m = perf THEN <<70, 90, 96>>[i] ELSE <<75, 90, 97>>[i],
                   hyst |-> 0, speed |-> <<0, 23, 43>>[i]]]]
MCAsked == [w \in {gui, fan} |->
  {[i \in 1..3 |-> [temp |-> IF w = gui THEN <<40, 85, 87>>[i] ELSE <<92, 93, 95>>[i],
                    pwm |-> <<57, 128, 203>>[i]]]}]
MCBoot == {}

ASSUME RisingTables == Ordered /\ ~Compatible
=============================================================================
