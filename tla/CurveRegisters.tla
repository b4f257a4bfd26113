--------------------------- MODULE CurveRegisters ---------------------------
(***************************************************************************)
(* What the hwmon interface of the driver promises of the fan curve.       *)
(*                                                                         *)
(* Thirty sysfs nodes (trip temperature, hysteresis and duty of each point)*)
(* look like thirty independent registers: a store changes the one field   *)
(* it names.  Behind them the driver rewrites the whole table on every     *)
(* store, so the promise is an obligation on its locking.  The only other  *)
(* thing that may change the table is the firmware, which loads the stock  *)
(* table of a mode on every mode change; and a store that such a reload    *)
(* overtook (the firmware takes no lock of the driver's) is excused: it    *)
(* may put back the table it had read.                                     *)
(***************************************************************************)
EXTENDS Naturals

CONSTANTS N, Modes, Stock

VARIABLES mode, table, overtaken

regVars == <<mode, table, overtaken>>

RegInit ==
  /\ mode \in Modes
  /\ table = Stock[mode]
  /\ overtaken = FALSE

\* A store of one field of one point.
SetField ==
  /\ ~overtaken
  /\ \E i \in 1..N :
       /\ table' = [table EXCEPT ![i] = table'[i]]
       /\ \/ table'[i] = [table[i] EXCEPT !.temp  = table'[i].temp]
          \/ table'[i] = [table[i] EXCEPT !.hyst  = table'[i].hyst]
          \/ table'[i] = [table[i] EXCEPT !.speed = table'[i].speed]
  /\ UNCHANGED <<mode, overtaken>>

\* The firmware enters a mode; a store may be under way.
LoadStock ==
  /\ mode' \in Modes
  /\ table' = Stock[mode']
  /\ overtaken' \in BOOLEAN

\* A store that a reload overtook ends, with whatever effect.
OvertakenStore ==
  /\ overtaken
  /\ overtaken' = FALSE
  /\ UNCHANGED mode

RegNext == SetField \/ LoadStock \/ OvertakenStore

RegSpec == RegInit /\ [][RegNext]_regVars
=============================================================================
