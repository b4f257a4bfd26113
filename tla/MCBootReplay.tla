---------------------------- MODULE MCBootReplay ----------------------------
(***************************************************************************)
(* The boot script and one other task, on the machine of MCPowerControl.   *)
(* MCSnapshots: custom mode with a curve and without coupling; the other   *)
(* mode with a curve; no curve, of a driver without coupling.  MCCrossed:  *)
(* limits that cross, saved with coupling off.                             *)
(***************************************************************************)
EXTENDS BootReplay

CONSTANTS perf, custom, script, user

R(lo, hi, s) == [min |-> lo, max |-> hi, step |-> s]
L(a, b) == [k \in Limits |-> IF k = "pl1" THEN a ELSE b]

MCCap == [m \in Modes |->
  IF m = perf THEN L(R(25, 60, 5), R(40, 65, 5)) ELSE L(R(25, 60, 5), R(40, 85, 5))]
MCDefault == [m \in Modes |-> IF m = perf THEN L(60, 65) ELSE L(60, 85)]

File(m, f, a, b, c) ==
  [POWERMODE |-> m, FAN_FULLSPEED |-> f, FW_PL1 |-> a, FW_PL2 |-> b, PL_COUPLING |-> c, CURVE_PWM |-> TRUE]
NoCurve(file, keys) == [key \in keys |-> file[key]]
MCSnapshots == {
  File(custom, FALSE, 45, 85, FALSE),
  File(perf, FALSE, 60, 65, TRUE),
  NoCurve(File(custom, TRUE, 40, 50, TRUE), {"POWERMODE", "FAN_FULLSPEED", "FW_PL1", "FW_PL2"})}
MCCrossed == {File(custom, FALSE, 60, 45, FALSE)}
=============================================================================
