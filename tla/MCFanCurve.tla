----------------------------- MODULE MCFanCurve -----------------------------
(***************************************************************************)
(* A small instance: two points, two programs (one of them the boot        *)
(* script), two curves to write, the custom mode and one other, with stock *)
(* tables of their own.  The curves are pairwise compatible, so all        *)
(* interleavings of the programs must stay in order.                       *)
(***************************************************************************)
EXTENDS FanCurve

CONSTANTS perf, custom, boot, gui

P(t, h, s) == [temp |-> t, hyst |-> h, speed |-> s]
Q(t, v) == [temp |-> t, pwm |-> v]

MCStock == [m \in {perf, custom} |->
  IF m = perf THEN <<P(70, 0, 0), P(90, 60, 23)>> ELSE <<P(75, 0, 0), P(97, 75, 43)>>]
MCAsked == [w \in {boot, gui} |->
  IF w = boot THEN {<<Q(60, 57), Q(80, 203)>>} ELSE {<<Q(72, 71), Q(88, 128)>>}]
MCBoot == {boot}

ASSUME CompatibleCurves == Compatible
=============================================================================
