---------------------------- MODULE MCFanShipped ----------------------------
(***************************************************************************)
(* The curves the repository ships: the factory table of performance mode  *)
(* (docs/FINDINGS.md), in force when 83sc-fan writes its preset "gradual". *)
(***************************************************************************)
EXTENDS FanCurve

CONSTANT fan

StockTemps == <<75, 78, 80, 85, 85, 85, 85, 85, 97, 100>>
StockHysts == <<0, 60, 64, 67, 67, 67, 67, 67, 75, 94>>
StockSpeeds == <<0, 18, 23, 30, 33, 35, 40, 43, 43, 43>>
GradualTemps == <<50, 55, 60, 65, 70, 75, 80, 85, 88, 92>>
GradualRpm == <<1200, 1500, 1900, 2300, 2700, 3100, 3500, 3900, 4300, 4300>>

MCStock == [m \in {255} |->
  [i \in 1..10 |-> [temp |-> StockTemps[i], hyst |-> StockHysts[i], speed |-> StockSpeeds[i]]]]
MCAsked == [w \in {fan} |->
  {[i \in 1..10 |-> [temp |-> GradualTemps[i], pwm |-> (GradualRpm[i] * 255 + 2700) \div 5400]]}]
MCBoot == {}
=============================================================================
