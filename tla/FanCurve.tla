------------------------------ MODULE FanCurve ------------------------------
(***************************************************************************)
(* The fan curve of the 83SC: the table the embedded controller (EC) runs, *)
(* the driver's read-modify-write stores of single fields of it            *)
(* (autopoint_store), and the programs that write a whole curve one field  *)
(* at a time, highest point first (83sc-fan, the GUI's write_curve, the    *)
(* boot script's apply_curve_pwm), all at once.                            *)
(*                                                                         *)
(* The EC is outside the repository.  It is modelled from what the code    *)
(* says of it: it ignores curve writes outside the custom mode (83sc-fan,  *)
(* hw.rs), rejects a table whose trip temperatures fall (main.rs, hw.rs),  *)
(* and loads the stock table of a mode on every mode change (83sc-thermal).*)
(***************************************************************************)
EXTENDS Naturals

CONSTANTS
  N,         \* points of a curve (FANCURVESIZE_LOQ, 10)
  MaxRpm,    \* fan_max_rpm of the model (5400)
  Modes,     \* power modes the firmware can be in
  Custom,    \* the mode that takes curve writes (255)
  Stock,     \* Stock[m]: the table the EC loads on entering mode m
  Writers,   \* running programs that write curves
  Asked,     \* Asked[w]: curves program w may be asked to write
  Boot,      \* those of them that are the boot script
  None       \* no writer

Fields == {"temp", "hyst", "speed"}
Points == 1..N
Point == [temp : 0..127, hyst : 0..127, speed : 0..255]
Table == [Points -> Point]
Curve == [Points -> [temp : 0..127, pwm : 0..255]]

ASSUME SizeAssumption == N \in Nat \ {0} /\ MaxRpm \in Nat \ {0}
ASSUME ModeAssumption == Custom \in Modes /\ Stock \in [Modes -> Table]
ASSUME WriterAssumption ==
  Asked \in [Writers -> (SUBSET Curve) \ {{}}] /\ Boot \subseteq Writers /\ None \notin Writers

Curves == UNION {Asked[w] : w \in Writers}

VARIABLES
  mode,       \* power mode of the EC
  live,       \* table the EC runs
  overrides,  \* switches that make the EC disregard the table
  lock,       \* holder of priv->fancurve_mutex
  pc,         \* what each writer does next
  curve,      \* the curve each writer is writing
  pos, fld,   \* the point and the field it is at
  snap,       \* the table its running store has read
  alone       \* history: nobody disturbed the writer's curve since its start

ecVars == <<mode, live, overrides>>
vars == <<mode, live, overrides, lock, pc, curve, pos, fld, snap, alone>>

-----------------------------------------------------------------------------
(* Tables *)

\* Trip temperatures never fall from a point to the next.
Rising(t) == \A i, j \in Points : i < j => t[i].temp <= t[j].temp

\* The table the EC runs once the driver has written t and set the commit bit.
EcCommit(m, running, t) == IF m = Custom /\ Rising(t) THEN t ELSE running

\* pwm (0..255) to hundreds of rpm, rounded up, kept in a u8.
SetSpeedPwm(v) == ((v * MaxRpm + 25499) \div 25500) % 256

\* Hysteresis temperature the programs derive from a trip temperature.
Gap(w, i) == IF i = 1 /\ w \notin Boot THEN 8 ELSE 5
Hyst(w, i, t) == IF t > Gap(w, i) THEN t - Gap(w, i) ELSE 0

\* What writer w wants in field f of point i, in the units of the EC's table.
Want(w, i, f) ==
  IF f = "temp" THEN curve[w][i].temp
  ELSE IF f = "hyst" THEN Hyst(w, i, curve[w][i].temp)
  ELSE SetSpeedPwm(curve[w][i].pwm)

\* The point as writer w wants it.
Wanted(w, i) == [f \in Fields |-> Want(w, i, f)]

\* Seeded fault: the sysfs index is taken for the array index.
WithFieldShifted(t, i, f, v) == [t EXCEPT ![(i % N) + 1] = [@ EXCEPT ![f] = v]]

\* Table t with one field of one point replaced: the setters of autopoint_store.
WithField(t, i, f, v) == [t EXCEPT ![i] = [@ EXCEPT ![f] = v]]

\* An automatic variable before the store reads the table into it.
NoTable == [i \in Points |-> [temp |-> 0, hyst |-> 0, speed |-> 0]]

-----------------------------------------------------------------------------
Init ==
  /\ mode \in Modes
  /\ live = Stock[mode]
  /\ overrides \in SUBSET {"fan_fullspeed", "minifancurve"}
  /\ lock = None
  /\ pc = [w \in Writers |-> "idle"]
  /\ curve = [w \in Writers |-> CHOOSE c \in Curves : TRUE]
  /\ pos = [w \in Writers |-> N]
  /\ fld = [w \in Writers |-> "temp"]
  /\ snap = [w \in Writers |-> NoTable]
  /\ alone = [w \in Writers |-> FALSE]

(* A program writes a curve. *)

\* It is asked to write curve c.
Start(w, c) ==
  /\ pc[w] = "idle"
  /\ pc' = [pc EXCEPT ![w] = "mode"]
  /\ curve' = [curve EXCEPT ![w] = c]
  /\ pos' = [pos EXCEPT ![w] = N]
  /\ fld' = [fld EXCEPT ![w] = "temp"]
  /\ alone' = [alone EXCEPT ![w] = TRUE]
  /\ UNCHANGED <<ecVars, lock, snap>>

\* Seeded fault: the power mode is taken to be right.
CheckModeSkipped(w) ==
  /\ pc[w] = "mode"
  /\ pc' = [pc EXCEPT ![w] = "fullspeed"]
  /\ UNCHANGED <<ecVars, lock, curve, pos, fld, snap, alone>>

\* It reads the power mode: outside custom it has to be changed first.
CheckMode(w) ==
  /\ pc[w] = "mode"
  /\ pc' = [pc EXCEPT ![w] = IF mode = Custom THEN "fullspeed" ELSE "enter"]
  /\ UNCHANGED <<ecVars, lock, curve, pos, fld, snap, alone>>

\* The firmware enters mode m and loads its stock table; a curve written
\* before, or being written, by a member of S is no longer undisturbed.
EnterMode(m, S) ==
  /\ mode' = m
  /\ live' = IF m = mode THEN live ELSE Stock[m]
  /\ alone' = [w \in Writers |-> alone[w] /\ (m = mode \/ w \notin S)]

\* It stores 255 in powermode and sleeps until the EC is done.
EnterCustom(w) ==
  /\ pc[w] = "enter"
  /\ lock = None
  /\ EnterMode(Custom, Writers \ {w})
  /\ pc' = [pc EXCEPT ![w] = "fullspeed"]
  /\ UNCHANGED <<overrides, lock, curve, pos, fld, snap>>

\* The store fails; the program goes on all the same.
EnterCustomFails(w) ==
  /\ pc[w] = "enter"
  /\ lock = None
  /\ pc' = [pc EXCEPT ![w] = "fullspeed"]
  /\ alone' = [alone EXCEPT ![w] = FALSE]
  /\ UNCHANGED <<ecVars, lock, curve, pos, fld, snap>>

\* It turns off fan_fullspeed, then minifancurve: either would override the curve.
ClearFullspeed(w) ==
  /\ pc[w] = "fullspeed"
  /\ lock = None
  /\ overrides' = overrides \ {"fan_fullspeed"}
  /\ pc' = [pc EXCEPT ![w] = "minifan"]
  /\ UNCHANGED <<mode, live, lock, curve, pos, fld, snap, alone>>

\* The store fails; again the program goes on.
ClearFullspeedFails(w) ==
  /\ pc[w] = "fullspeed"
  /\ lock = None
  /\ pc' = [pc EXCEPT ![w] = "minifan"]
  /\ alone' = [alone EXCEPT ![w] = FALSE]
  /\ UNCHANGED <<ecVars, lock, curve, pos, fld, snap>>

ClearMinifan(w) ==
  /\ pc[w] = "minifan"
  /\ lock = None
  /\ overrides' = overrides \ {"minifancurve"}
  /\ pc' = [pc EXCEPT ![w] = "read"]
  /\ UNCHANGED <<mode, live, lock, curve, pos, fld, snap, alone>>

(* autopoint_store, for the field the writer is at. *)

\* Seeded fault: the table is read before the mutex is taken.
StoreReadUnlocked(w) ==
  /\ pc[w] = "read"
  /\ lock' = w
  /\ snap' = [snap EXCEPT ![w] = live]
  /\ pc' = [pc EXCEPT ![w] = "write"]
  /\ UNCHANGED <<ecVars, curve, pos, fld, alone>>

\* Take the mutex and read the whole table.
StoreRead(w) ==
  /\ pc[w] = "read"
  /\ lock = None
  /\ lock' = w
  /\ snap' = [snap EXCEPT ![w] = live]
  /\ pc' = [pc EXCEPT ![w] = "write"]
  /\ UNCHANGED <<ecVars, curve, pos, fld, alone>>

\* Seeded fault: a point is left after its first field.
NextPointTooSoon(i, f) == i - 1

\* Seeded fault: the points are written from the lowest up.
NextPointUpwards(i, f) == IF f = "speed" THEN (i % N) + 1 ELSE i

\* Field after f, and point after i, in the order the programs write them.
NextField(f) == IF f = "temp" THEN "hyst" ELSE IF f = "hyst" THEN "speed" ELSE "temp"

NextPoint(i, f) == IF f = "speed" THEN i - 1 ELSE i

\* The table the store of w is about to commit.
Pending(w) == WithField(snap[w], pos[w], fld[w], Want(w, pos[w], fld[w]))

\* Seeded fault: an exit of the store that does not drop the mutex.
UnlockForgotten == UNCHANGED lock

Unlock == lock' = None

\* Replace the field, write the whole table back, commit it, drop the mutex.
StoreWrite(w) ==
  /\ pc[w] = "write"
  /\ live' = EcCommit(mode, live, Pending(w))
  /\ Unlock
  /\ snap' = [snap EXCEPT ![w] = NoTable]
  /\ pos' = [pos EXCEPT ![w] = NextPoint(@, fld[w])]
  /\ fld' = [fld EXCEPT ![w] = NextField(@)]
  /\ pc' = [pc EXCEPT ![w] = IF pos[w] = 1 /\ fld[w] = "speed" THEN "idle" ELSE "read"]
  /\ alone' = [v \in Writers |-> alone[v] /\ v = w]
  /\ UNCHANGED <<mode, overrides, curve>>

(* Everybody else. *)

\* Another store to powermode (GUI, command line), under the mutex.
PowermodeStore(m) ==
  /\ lock = None
  /\ EnterMode(m, Writers)
  /\ UNCHANGED <<overrides, lock, pc, curve, pos, fld, snap>>

\* platform_profile (no mutex) or the Fn+Q key (firmware alone).
ModeChangesUnlocked(m) ==
  /\ EnterMode(m, Writers)
  /\ UNCHANGED <<overrides, lock, pc, curve, pos, fld, snap>>

\* The user turns an override on; fan_fullspeed only in custom mode.
OverrideStore(o) ==
  /\ lock = None
  /\ o = "fan_fullspeed" => mode = Custom
  /\ overrides' = overrides \cup {o}
  /\ alone' = [w \in Writers |-> FALSE]
  /\ UNCHANGED <<mode, live, lock, pc, curve, pos, fld, snap>>

Walk(w) ==
  \/ CheckMode(w)
  \/ EnterCustom(w)
  \/ EnterCustomFails(w)
  \/ ClearFullspeed(w)
  \/ ClearFullspeedFails(w)
  \/ ClearMinifan(w)
  \/ StoreRead(w)
  \/ StoreWrite(w)

Next ==
  \/ \E w \in Writers : Walk(w) \/ \E c \in Asked[w] : Start(w, c)
  \/ \E m \in Modes : PowermodeStore(m) \/ ModeChangesUnlocked(m)
  \/ \E o \in {"fan_fullspeed", "minifancurve"} : OverrideStore(o)

Spec == Init /\ [][Next]_vars

\* A program that runs keeps running, and the mutex is granted in turn.
Fairness == \A w \in Writers : SF_vars(Walk(w))

FairSpec == Spec /\ Fairness

-----------------------------------------------------------------------------
(* Properties *)

\* Every variable has its type, and a program that runs is at a point of the
\* curve: no store names a point outside the table.
TypeOK ==
  /\ mode \in Modes
  /\ live \in Table
  /\ overrides \subseteq {"fan_fullspeed", "minifancurve"}
  /\ lock \in Writers \cup {None}
  /\ pc \in [Writers -> {"idle", "mode", "enter", "fullspeed", "minifan", "read", "write"}]
  /\ curve \in [Writers -> Curves]
  /\ pos \in [Writers -> 0..N]
  /\ \A w \in Writers : pc[w] # "idle" => pos[w] \in Points
  /\ fld \in [Writers -> Fields]
  /\ snap \in [Writers -> Table]
  /\ alone \in [Writers -> BOOLEAN]

\* What the highest-first order of the programs is for: of a walk that nobody
\* disturbed, the EC refuses a store for one reason only, a point not yet written
\* that lies above the new trip temperature.  It never refuses one for the points
\* written already, whichever of those it refused.  Curves and stock tables are
\* any tables that rise.
HighestFirst ==
  \A w \in Writers : pc[w] = "write" /\ alone[w] /\ ~Rising(Pending(w)) =>
    /\ fld[w] = "temp"
    /\ \E i \in Points : i < pos[w] /\ live[i].temp > curve[w][pos[w]].temp

\* No store is ever rejected for its order: whatever the interleaving of
\* programs and mode changes, the table autopoint_store commits never has a trip
\* temperature below its predecessor's, and so the EC never keeps an old point
\* silently.  It holds of curves that pairwise satisfy Compatible, and not of all
\* of them.
NeverInverted ==
  /\ Rising(live)
  /\ \A w \in Writers : pc[w] = "write" => Rising(Pending(w))

\* Every table rises; or more, point i of any table lies at or above the points
\* before i of every other.
Tables == {Stock[m] : m \in Modes} \cup Curves
Ordered == \A a \in Tables : Rising(a)
Compatible == \A a, b \in Tables : \A i, j \in Points : i < j => a[i].temp <= b[j].temp

\* A curve that nobody disturbed is what the EC runs, as far as it was written:
\* the machine is in custom mode, no override is on, and every field of every
\* point from the one being written upwards is the one asked for.  After the
\* last point that is the whole curve.
CurveInEffect ==
  \A w \in Writers : alone[w] /\ pc[w] \in {"read", "write", "idle"} =>
    /\ mode = Custom
    /\ overrides = {}
    /\ \A i \in Points : i > pos[w] => live[i] = Wanted(w, i)
    /\ fld[w] \in {"hyst", "speed"} => live[pos[w]].temp = Want(w, pos[w], "temp")
    /\ fld[w] = "speed" => live[pos[w]].hyst = Want(w, pos[w], "hyst")

\* The whole-table stores of all programs behave like stores to independent
\* registers, but for a store that a mode change overtook: fancurve_mutex held
\* from read_fancurve to write_fancurve leaves no lost update.
Overtaken == \E w \in Writers : pc[w] = "write" /\ snap[w] # live
Registers == INSTANCE CurveRegisters WITH table <- live, overtaken <- Overtaken
IndependentRegisters == Registers!RegSpec

\* A program that starts to write a curve comes to the end of it, whatever the
\* other holders of the mutex do.
WalkEnds == \A w \in Writers : pc[w] = "mode" ~> pc[w] = "idle"
=============================================================================
