-------------------------- MODULE FanCurve_proofs --------------------------
(***************************************************************************)
(* Proofs about FanCurve, for any number of points, programs, curves and   *)
(* power modes.                                                            *)
(***************************************************************************)
EXTENDS FanCurve, TLAPS

-----------------------------------------------------------------------------
(* Type correctness *)

\* What a program wants in a field is a value of that field.
LEMMA WantType ==
  ASSUME NEW w \in Writers, NEW i \in Points, NEW f \in Fields, curve \in [Writers -> Curves]
  PROVE  /\ f \in {"temp", "hyst"} => Want(w, i, f) \in 0..127
         /\ f = "speed" => Want(w, i, f) \in 0..255
  <1>1. curve[w][i].temp \in 0..127 /\ curve[w][i].pwm \in 0..255
    BY WriterAssumption DEF Curves, Curve
  <1>2. Gap(w, i) \in {5, 8}
    BY DEF Gap
  <1>3. Hyst(w, i, curve[w][i].temp) \in 0..127
    BY <1>1, <1>2 DEF Hyst
  <1>4. SetSpeedPwm(curve[w][i].pwm) \in 0..255
    <2>1. ((curve[w][i].pwm * MaxRpm + 25499) \div 25500) \in Nat
      BY <1>1, SizeAssumption
    <2>2. QED BY <2>1 DEF SetSpeedPwm
  <1>5. QED BY <1>1, <1>3, <1>4 DEF Want, Fields

\* A setter of autopoint_store turns a table into a table.
LEMMA WithFieldType ==
  ASSUME NEW t \in Table, NEW i \in Points, NEW f \in Fields, NEW v,
         f \in {"temp", "hyst"} => v \in 0..127, f = "speed" => v \in 0..255
  PROVE  WithField(t, i, f, v) \in Table
  <1>1. [t[i] EXCEPT ![f] = v] \in Point
    BY DEF Table, Point, Fields
  <1>2. QED BY <1>1 DEF WithField, Table

\* The table a running store commits is a table.
LEMMA PendingType ==
  ASSUME TypeOK, NEW w \in Writers, pc[w] # "idle"
  PROVE  pos[w] \in Points /\ Pending(w) \in Table
  <1>1. pos[w] \in Points /\ fld[w] \in Fields /\ snap[w] \in Table /\ curve \in [Writers -> Curves]
    BY DEF TypeOK
  <1>2. QED BY <1>1, WantType, WithFieldType DEF Pending

\* Spec => []TypeOK: every variable keeps its type, so in particular no store
\* indexes a point outside the table or leaves a value the EC cannot hold.
THEOREM TypeCorrect == Spec => []TypeOK
  <1>1. Init => TypeOK
    <2>1. \A w \in Writers : (CHOOSE c \in Curves : TRUE) \in Curves
      <3>1. ASSUME NEW w \in Writers PROVE \E c \in Curves : TRUE
        BY WriterAssumption DEF Curves
      <3>2. QED BY <3>1
    <2>2. \A m \in Modes : Stock[m] \in Table
      BY ModeAssumption
    <2>3. NoTable \in Table
      BY DEF NoTable, Table, Point
    <2>4. QED BY <2>1, <2>2, <2>3, SizeAssumption DEF Init, TypeOK, Fields
  <1>2. TypeOK /\ [Next]_vars => TypeOK'
    <2> SUFFICES ASSUME TypeOK, [Next]_vars PROVE TypeOK'
      OBVIOUS
    <2> USE DEF TypeOK, ecVars
    <2>1. ASSUME NEW w \in Writers, NEW c \in Asked[w], Start(w, c) PROVE TypeOK'
      BY <2>1, SizeAssumption DEF Start, Curves, Fields, Points
    <2>2. ASSUME NEW w \in Writers, CheckMode(w) PROVE TypeOK'
      BY <2>2 DEF CheckMode
    <2>3. ASSUME NEW m \in Modes, NEW S, EnterMode(m, S)
          PROVE mode' \in Modes /\ live' \in Table /\ alone' \in [Writers -> BOOLEAN]
      BY <2>3, ModeAssumption DEF EnterMode
    <2>4. ASSUME NEW w \in Writers, EnterCustom(w) PROVE TypeOK'
      <3>1. EnterMode(Custom, Writers \ {w}) /\ Custom \in Modes
        BY <2>4, ModeAssumption DEF EnterCustom
      <3>2. mode' \in Modes /\ live' \in Table /\ alone' \in [Writers -> BOOLEAN]
        BY <3>1, <2>3
      <3>3. QED BY <2>4, <3>2 DEF EnterCustom
    <2>5. ASSUME NEW w \in Writers, EnterCustomFails(w) PROVE TypeOK'
      BY <2>5 DEF EnterCustomFails
    <2>6. ASSUME NEW w \in Writers, ClearFullspeed(w) \/ ClearFullspeedFails(w) PROVE TypeOK'
      BY <2>6 DEF ClearFullspeed, ClearFullspeedFails
    <2>7. ASSUME NEW w \in Writers, ClearMinifan(w) PROVE TypeOK'
      BY <2>7 DEF ClearMinifan
    <2>8. ASSUME NEW w \in Writers, StoreRead(w) PROVE TypeOK'
      BY <2>8 DEF StoreRead
    <2>9. ASSUME NEW w \in Writers, StoreWrite(w) PROVE TypeOK'
      <3>1. pos[w] \in Points /\ Pending(w) \in Table
        BY <2>9, PendingType DEF StoreWrite
      <3>2. NextPoint(pos[w], fld[w]) \in 0..N /\ NextField(fld[w]) \in Fields
        BY <3>1, SizeAssumption DEF NextPoint, NextField, Fields, Points
      <3>5. (~(pos[w] = 1 /\ fld[w] = "speed")) => NextPoint(pos[w], fld[w]) \in Points
        BY <3>1, SizeAssumption DEF NextPoint, Points
      <3>3. live' \in Table /\ NoTable \in Table
        BY <2>9, <3>1 DEF StoreWrite, EcCommit, NoTable, Table, Point
      <3>4. QED BY <2>9, <3>2, <3>3, <3>5 DEF StoreWrite, Unlock
    <2>10. ASSUME NEW m \in Modes, PowermodeStore(m) PROVE TypeOK'
      BY <2>10, <2>3 DEF PowermodeStore
    <2>11. ASSUME NEW m \in Modes, ModeChangesUnlocked(m) PROVE TypeOK'
      BY <2>11, <2>3 DEF ModeChangesUnlocked
    <2>12. ASSUME NEW o \in {"fan_fullspeed", "minifancurve"}, OverrideStore(o) PROVE TypeOK'
      BY <2>12 DEF OverrideStore
    <2>13. CASE UNCHANGED vars
      BY <2>13 DEF vars
    <2>14. QED
      BY <2>1, <2>2, <2>4, <2>5, <2>6, <2>7, <2>8, <2>9, <2>10, <2>11, <2>12, <2>13 DEF Next, Walk
  <1>3. QED BY <1>1, <1>2, PTL DEF Spec

-----------------------------------------------------------------------------
(* No store is rejected for its order *)

\* Every trip temperature of t is that of the same point of some curve in play.
Mixed(t) == \A i \in Points : \E a \in Tables : t[i].temp = a[i].temp

\* Only such tables run or are held by a store.
MixedInv == Mixed(live) /\ \A w \in Writers : pc[w] = "write" => Mixed(snap[w])

\* Whatever compatible curves a table is mixed from, it rises.
LEMMA MixedRises == ASSUME Compatible, NEW t, Mixed(t) PROVE Rising(t)
  <1> SUFFICES ASSUME NEW i \in Points, NEW j \in Points, i < j
               PROVE  t[i].temp <= t[j].temp
    BY DEF Rising
  <1>1. PICK a \in Tables : t[i].temp = a[i].temp
    BY DEF Mixed
  <1>2. PICK b \in Tables : t[j].temp = b[j].temp
    BY DEF Mixed
  <1>3. QED BY <1>1, <1>2 DEF Compatible

\* A store keeps its table mixed: it puts in a value of its own curve.
LEMMA PendingMixed ==
  ASSUME TypeOK, NEW w \in Writers, pc[w] = "write", Mixed(snap[w])
  PROVE  Mixed(Pending(w))
  <1> SUFFICES ASSUME NEW i \in Points
               PROVE  \E a \in Tables : Pending(w)[i].temp = a[i].temp
    BY DEF Mixed
  <1>1. /\ pos[w] \in Points /\ fld[w] \in Fields /\ curve[w] \in Curves
        /\ snap[w] \in Table
    BY DEF TypeOK
  <1>2. CASE i = pos[w] /\ fld[w] = "temp"
    <2>1. Pending(w)[i].temp = curve[w][i].temp
      BY <1>1, <1>2 DEF Pending, WithField, Want, Table, Point
    <2>2. curve[w] \in Tables
      BY <1>1 DEF Tables
    <2>3. QED BY <2>1, <2>2
  <1>3. CASE ~(i = pos[w] /\ fld[w] = "temp")
    <2>1. Pending(w)[i].temp = snap[w][i].temp
      BY <1>1, <1>3 DEF Pending, WithField, Table, Point, Fields
    <2>2. QED BY <2>1 DEF Mixed
  <1>4. QED BY <1>2, <1>3

\* A stock table is mixed.
LEMMA StockMixed == ASSUME NEW m \in Modes PROVE Mixed(Stock[m])
  <1>1. Stock[m] \in Tables
    BY DEF Tables
  <1>2. QED BY <1>1 DEF Mixed

\* Spec => []MixedInv: programs and mode changes, however interleaved, never
\* leave the table with a trip temperature that belongs to no curve in play.
THEOREM TableStaysMixed == Spec => []MixedInv
  <1>1. Init => MixedInv
    BY StockMixed DEF Init, MixedInv
  <1>2. TypeOK /\ MixedInv /\ [Next]_vars => MixedInv'
    <2> SUFFICES ASSUME TypeOK, MixedInv, [Next]_vars PROVE MixedInv'
      OBVIOUS
    <2> USE DEF ecVars
    <2>1. ASSUME NEW m \in Modes, NEW S, EnterMode(m, S) PROVE Mixed(live)'
      BY <2>1, StockMixed DEF EnterMode, MixedInv, Mixed
    <2>2. ASSUME NEW w \in Writers, Walk(w) \/ (\E c \in Asked[w] : Start(w, c)),
                 ~EnterCustom(w), ~StoreRead(w), ~StoreWrite(w)
          PROVE MixedInv'
      BY <2>2 DEF Walk, Start, CheckMode, EnterCustomFails, ClearFullspeed,
                  ClearFullspeedFails, ClearMinifan, MixedInv, Mixed, TypeOK
    <2>3. ASSUME NEW w \in Writers, EnterCustom(w) PROVE MixedInv'
      <3>1. Mixed(live)'
        BY <2>1, <2>3, ModeAssumption DEF EnterCustom
      <3>2. QED BY <2>3, <3>1 DEF EnterCustom, MixedInv, Mixed, TypeOK
    <2>4. ASSUME NEW w \in Writers, StoreRead(w) PROVE MixedInv'
      BY <2>4 DEF StoreRead, MixedInv, Mixed, TypeOK
    <2>5. ASSUME NEW w \in Writers, StoreWrite(w) PROVE MixedInv'
      <3>1. Mixed(Pending(w))
        BY <2>5, PendingMixed DEF StoreWrite, MixedInv
      <3>2. Mixed(live)'
        BY <2>5, <3>1 DEF StoreWrite, EcCommit, MixedInv, Mixed
      <3>3. QED BY <2>5, <3>2 DEF StoreWrite, MixedInv, Mixed, TypeOK
    <2>6. ASSUME NEW m \in Modes, PowermodeStore(m) \/ ModeChangesUnlocked(m) PROVE MixedInv'
      <3>1. Mixed(live)'
        BY <2>1, <2>6 DEF PowermodeStore, ModeChangesUnlocked
      <3>2. QED BY <2>6, <3>1 DEF PowermodeStore, ModeChangesUnlocked, MixedInv, Mixed
    <2>7. ASSUME NEW o, OverrideStore(o) PROVE MixedInv'
      BY <2>7 DEF OverrideStore, MixedInv, Mixed
    <2>8. CASE UNCHANGED vars
      BY <2>8 DEF vars, MixedInv, Mixed
    <2>9. QED BY <2>2, <2>3, <2>4, <2>5, <2>6, <2>7, <2>8 DEF Next, Walk
  <1>3. QED BY <1>1, <1>2, TypeCorrect, PTL DEF Spec

\* Of compatible curves, no store is ever rejected for its order.
THEOREM NeverRejected == ASSUME Compatible PROVE Spec => []NeverInverted
  <1>1. TypeOK /\ MixedInv => NeverInverted
    BY Compatible, MixedRises, PendingMixed DEF MixedInv, NeverInverted
  <1>2. QED BY <1>1, TypeCorrect, TableStaysMixed, PTL

-----------------------------------------------------------------------------
(* Whole-table stores refine independent registers *)

\* Only the holder of the mutex is between its read and its write.
MutexInv == \A w \in Writers : pc[w] = "write" => lock = w

\* fancurve_mutex covers autopoint_store from its read to its write.
THEOREM MutexHeld == Spec => []MutexInv
  <1>1. Init => MutexInv
    BY DEF Init, MutexInv
  <1>2. TypeOK /\ MutexInv /\ [Next]_vars => MutexInv'
    <2> SUFFICES ASSUME TypeOK, MutexInv, [Next]_vars PROVE MutexInv'
      OBVIOUS
    <2> USE DEF TypeOK, MutexInv
    <2>1. ASSUME NEW w \in Writers, NEW c \in Asked[w], Start(w, c) PROVE MutexInv'
      BY <2>1 DEF Start
    <2>2. ASSUME NEW w \in Writers, Walk(w), ~StoreRead(w), ~StoreWrite(w) PROVE MutexInv'
      BY <2>2 DEF Walk, CheckMode, EnterCustom, EnterCustomFails, ClearFullspeed,
                  ClearFullspeedFails, ClearMinifan
    <2>3. ASSUME NEW w \in Writers, StoreRead(w) PROVE MutexInv'
      BY <2>3, WriterAssumption DEF StoreRead
    <2>4. ASSUME NEW w \in Writers, StoreWrite(w) PROVE MutexInv'
      BY <2>4 DEF StoreWrite
    <2>5. CASE (\E m \in Modes : PowermodeStore(m) \/ ModeChangesUnlocked(m))
            \/ (\E o \in {"fan_fullspeed", "minifancurve"} : OverrideStore(o))
            \/ UNCHANGED vars
      BY <2>5 DEF PowermodeStore, ModeChangesUnlocked, OverrideStore, vars
    <2>6. QED BY <2>1, <2>2, <2>3, <2>4, <2>5 DEF Next
  <1>3. QED BY <1>1, <1>2, TypeCorrect, PTL DEF Spec

\* A store that no mode change overtook changes one field and nothing else.
LEMMA StoreIsSetField ==
  ASSUME TypeOK, NEW w \in Writers, StoreWrite(w), snap[w] = live, ~Overtaken', ~Overtaken
  PROVE  [Registers!RegNext]_(Registers!regVars)
  <1>1. pos[w] \in Points /\ fld[w] \in Fields /\ live \in Table
    BY DEF TypeOK, StoreWrite
  <1>2. mode' = mode /\ Overtaken' = Overtaken
    BY DEF StoreWrite, Overtaken
  <1>3. CASE live' = live
    BY <1>2, <1>3 DEF Registers!regVars
  <1>4. CASE live' = Pending(w)
    <2> DEFINE i == pos[w]
    <2>1. live' = [live EXCEPT ![i] = live'[i]]
      BY <1>1, <1>4 DEF Pending, WithField, Table
    <2>2. live'[i] = [live[i] EXCEPT ![fld[w]] = Want(w, i, fld[w])]
      BY <1>1, <1>4 DEF Pending, WithField, Table
    <2>3. \/ live'[i] = [live[i] EXCEPT !.temp  = live'[i].temp]
          \/ live'[i] = [live[i] EXCEPT !.hyst  = live'[i].hyst]
          \/ live'[i] = [live[i] EXCEPT !.speed = live'[i].speed]
      BY <1>1, <2>2 DEF Fields, Table, Point
    <2>4. Registers!SetField
      BY <1>1, <1>2, <2>1, <2>3 DEF Registers!SetField, Points
    <2>5. QED BY <2>4 DEF Registers!RegNext
  <1>5. QED BY <1>3, <1>4 DEF StoreWrite, EcCommit

\* The driver implements independent registers: under any number of programs,
\* every change of the table is one field of one point or a firmware reload,
\* but for a store that a mode change overtook.
THEOREM StoresAreIndependent == Spec => IndependentRegisters
  <1>1. Init => Registers!RegInit
    BY DEF Init, Registers!RegInit, Overtaken
  <1>2. TypeOK /\ MutexInv /\ [Next]_vars => [Registers!RegNext]_(Registers!regVars)
    <2> SUFFICES ASSUME TypeOK, MutexInv, [Next]_vars
                 PROVE  [Registers!RegNext]_(Registers!regVars)
      OBVIOUS
    <2> USE DEF ecVars, Registers!regVars
    <2>1. ASSUME NEW w \in Writers,
                 Walk(w) \/ (\E c \in Asked[w] : Start(w, c)), ~EnterCustom(w), ~StoreWrite(w)
          PROVE  UNCHANGED <<mode, live, Overtaken>>
      <3>1. CASE StoreRead(w)
        BY <3>1, WriterAssumption DEF StoreRead, Overtaken, TypeOK, MutexInv
      <3>2. CASE ~StoreRead(w)
        BY <2>1, <3>2 DEF Walk, Start, CheckMode, EnterCustomFails, ClearFullspeed, ClearFullspeedFails,
                          ClearMinifan, Overtaken, TypeOK
      <3>3. QED BY <3>1, <3>2
    <2>2. ASSUME NEW m \in Modes, NEW S, EnterMode(m, S), m # mode PROVE Registers!LoadStock
      BY <2>2 DEF EnterMode, Registers!LoadStock, Overtaken
    <2>3. ASSUME NEW w \in Writers, EnterCustom(w) PROVE [Registers!RegNext]_(Registers!regVars)
      <3>1. CASE mode = Custom
        BY <2>3, <3>1 DEF EnterCustom, EnterMode, Overtaken, TypeOK
      <3>2. CASE mode # Custom
        BY <2>2, <2>3, <3>2, ModeAssumption DEF EnterCustom, Registers!RegNext
      <3>3. QED BY <3>1, <3>2
    <2>4. ASSUME NEW w \in Writers, StoreWrite(w) PROVE [Registers!RegNext]_(Registers!regVars)
      <3>1. ~Overtaken'
        BY <2>4, WriterAssumption DEF StoreWrite, Unlock, Overtaken, TypeOK, MutexInv
      <3>2. CASE snap[w] = live
        <4>1. ~Overtaken
          BY <2>4, <3>2 DEF StoreWrite, Overtaken, MutexInv
        <4>2. QED BY <2>4, <3>1, <3>2, <4>1, StoreIsSetField
      <3>3. CASE snap[w] # live
        BY <2>4, <3>1, <3>3 DEF StoreWrite, Overtaken, Registers!OvertakenStore, Registers!RegNext
      <3>4. QED BY <3>2, <3>3
    <2>5. ASSUME NEW m \in Modes, PowermodeStore(m) \/ ModeChangesUnlocked(m)
          PROVE  [Registers!RegNext]_(Registers!regVars)
      <3>1. CASE m = mode
        BY <2>5, <3>1 DEF PowermodeStore, ModeChangesUnlocked, EnterMode, Overtaken
      <3>2. CASE m # mode
        BY <2>2, <2>5, <3>2 DEF PowermodeStore, ModeChangesUnlocked, Registers!RegNext
      <3>3. QED BY <3>1, <3>2
    <2>6. ASSUME NEW o, OverrideStore(o) PROVE UNCHANGED <<mode, live, Overtaken>>
      BY <2>6 DEF OverrideStore, Overtaken
    <2>7. CASE UNCHANGED vars
      BY <2>7 DEF vars, Overtaken
    <2>8. QED BY <2>1, <2>3, <2>4, <2>5, <2>6, <2>7 DEF Next, Walk
  <1>3. QED
    BY <1>1, <1>2, TypeCorrect, MutexHeld, PTL DEF Spec, IndependentRegisters, Registers!RegSpec

-----------------------------------------------------------------------------
(* An undisturbed curve is the curve in effect *)

\* What holds of an undisturbed program at each of its steps.
Undisturbed(w) ==
  /\ pc[w] \in {"mode", "enter", "fullspeed", "minifan"} => pos[w] = N /\ fld[w] = "temp"
  /\ pc[w] \in {"fullspeed", "minifan", "read", "write", "idle"} => mode = Custom
  /\ pc[w] = "minifan" => "fan_fullspeed" \notin overrides
  /\ pc[w] = "write" => snap[w] = live
  /\ pc[w] = "idle" => fld[w] = "temp"
  /\ pc[w] \in {"read", "write", "idle"} =>
       /\ overrides = {}
       /\ \A i \in Points : i > pos[w] => live[i] = Wanted(w, i)
       /\ fld[w] \in {"hyst", "speed"} => live[pos[w]].temp = Want(w, pos[w], "temp")
       /\ fld[w] = "speed" => live[pos[w]].hyst = Want(w, pos[w], "hyst")

EffectInv == \A w \in Writers : alone[w] => Undisturbed(w)

\* A completed store of an undisturbed program takes effect and leaves the
\* program one field further.
LEMMA StoreTakesEffect ==
  ASSUME TypeOK, NeverInverted, NEW w \in Writers, StoreWrite(w), Undisturbed(w)
  PROVE  Undisturbed(w)'
  <1> DEFINE i == pos[w]
             f == fld[w]
  <1>1. /\ i \in Points /\ f \in Fields /\ live \in Table /\ pc[w] = "write"
        /\ snap[w] = live /\ mode = Custom /\ overrides = {}
    BY DEF TypeOK, StoreWrite, Undisturbed
  <1>2. live' = WithField(live, i, f, Want(w, i, f))
    BY <1>1 DEF StoreWrite, EcCommit, NeverInverted, Pending
  <1>3. /\ pos'[w] = NextPoint(i, f) /\ fld'[w] = NextField(f)
        /\ pc'[w] = IF i = 1 /\ f = "speed" THEN "idle" ELSE "read"
        /\ UNCHANGED <<mode, overrides, curve>>
    BY DEF StoreWrite, TypeOK
  <1>4. \A j \in Nat, g \in Fields : Want(w, j, g)' = Want(w, j, g) /\ Wanted(w, j)' = Wanted(w, j)
    BY <1>3 DEF Want, Wanted, Hyst, Gap, SetSpeedPwm
  <1>5. \A j \in Points : j # i => live'[j] = live[j]
    BY <1>1, <1>2 DEF WithField, Table
  <1>6. live'[i] = [live[i] EXCEPT ![f] = Want(w, i, f)]
    BY <1>1, <1>2 DEF WithField, Table
  <1>7. CASE f = "temp"
    <2>1. live'[i].temp = Want(w, i, "temp")
      BY <1>1, <1>6, <1>7 DEF Table, Point
    <2>2. pos'[w] = i /\ fld'[w] = "hyst" /\ pc'[w] = "read"
      BY <1>3, <1>7 DEF NextPoint, NextField
    <2>3. i \in Nat /\ Points \subseteq Nat
      BY <1>1, SizeAssumption DEF Points
    <2>4. \A j \in Points : j > i => live'[j] = Wanted(w, j)'
      BY <1>1, <1>4, <1>5, <2>3 DEF Undisturbed, Fields
    <2>5. live'[pos'[w]].temp = Want(w, pos[w], "temp")'
      BY <1>4, <2>1, <2>2, <2>3 DEF Fields
    <2>6. QED BY <1>1, <1>3, <1>4, <2>2, <2>3, <2>4, <2>5 DEF Undisturbed
  <1>8. CASE f = "hyst"
    <2>1. live'[i].hyst = Want(w, i, "hyst") /\ live'[i].temp = Want(w, i, "temp")
      BY <1>1, <1>6, <1>8 DEF Table, Point, Undisturbed
    <2>2. pos'[w] = i /\ fld'[w] = "speed" /\ pc'[w] = "read"
      BY <1>3, <1>8 DEF NextPoint, NextField
    <2>3. i \in Nat /\ Points \subseteq Nat
      BY <1>1, SizeAssumption DEF Points
    <2>4. \A j \in Points : j > i => live'[j] = Wanted(w, j)'
      BY <1>1, <1>4, <1>5, <2>3 DEF Undisturbed, Fields
    <2>5. /\ live'[pos'[w]].temp = Want(w, pos[w], "temp")'
          /\ live'[pos'[w]].hyst = Want(w, pos[w], "hyst")'
      BY <1>4, <2>1, <2>2, <2>3 DEF Fields
    <2>6. QED BY <1>1, <1>3, <1>4, <2>2, <2>3, <2>4, <2>5 DEF Undisturbed
  <1>9. CASE f = "speed"
    <2>1. live'[i] = Wanted(w, i)
      <3>1. /\ live[i].temp = Want(w, i, "temp") /\ live[i].hyst = Want(w, i, "hyst")
            /\ live[i] \in Point
        BY <1>1, <1>9 DEF Undisturbed, Table
      <3>2. QED BY <3>1, <1>6, <1>9 DEF Wanted, Point, Fields
    <2>2. /\ pos'[w] = i - 1 /\ fld'[w] = "temp"
          /\ pc'[w] = IF i = 1 THEN "idle" ELSE "read"
      BY <1>3, <1>9 DEF NextPoint, NextField
    <2>3. i \in Nat /\ Points \subseteq Nat
      BY <1>1, SizeAssumption DEF Points
    <2>4. \A j \in Points : j > i - 1 => live'[j] = Wanted(w, j)'
      <3> SUFFICES ASSUME NEW j \in Points, j > i - 1 PROVE live'[j] = Wanted(w, j)'
        OBVIOUS
      <3>1. CASE j = i
        BY <1>4, <2>1, <2>3, <3>1 DEF Fields
      <3>2. CASE j # i
        <4>1. j > i
          BY <2>3, <3>2
        <4>2. live[j] = Wanted(w, j)
          BY <1>1, <4>1 DEF Undisturbed
        <4>3. QED BY <1>4, <1>5, <2>3, <3>2, <4>2 DEF Fields
      <3>3. QED BY <3>1, <3>2
    <2>5. QED BY <1>1, <1>3, <1>4, <2>2, <2>3, <2>4 DEF Undisturbed
  <1>10. QED BY <1>1, <1>7, <1>8, <1>9 DEF Fields

\* A step that leaves the EC, and the program's own state, alone leaves the
\* program undisturbed.
LEMMA UndisturbedStays ==
  ASSUME NEW w \in Writers, Undisturbed(w), pos[w] \in 0..N,
         UNCHANGED <<mode, live, overrides, pc[w], curve[w], pos[w], fld[w], snap[w]>>
  PROVE  Undisturbed(w)'
  <1>1. \A j \in Nat, g \in Fields : Want(w, j, g)' = Want(w, j, g) /\ Wanted(w, j)' = Wanted(w, j)
    BY DEF Want, Wanted, Hyst, Gap, SetSpeedPwm
  <1>2. Points \subseteq Nat /\ pos[w] \in Nat /\ {"temp", "hyst", "speed"} \subseteq Fields
    BY SizeAssumption DEF Points, Fields
  <1>3. QED BY <1>1, <1>2 DEF Undisturbed

\* Of compatible curves, a curve that nobody disturbed is in effect: whenever a
\* program came to the end of its walk with no mode change, no override and no
\* other store since it began, the EC runs exactly the curve it was asked for.
THEOREM UndisturbedInEffect == ASSUME Compatible PROVE Spec => []CurveInEffect
  <1>1. Init => EffectInv
    BY DEF Init, EffectInv
  <1>2. TypeOK /\ MutexInv /\ NeverInverted /\ EffectInv /\ [Next]_vars => EffectInv'
    <2> SUFFICES ASSUME TypeOK, MutexInv, NeverInverted, EffectInv, [Next]_vars,
                        NEW v \in Writers, alone'[v]
                 PROVE  Undisturbed(v)'
      BY DEF EffectInv
    <2> USE DEF ecVars
    <2>1. ASSUME NEW w \in Writers, NEW c \in Asked[w], Start(w, c) PROVE Undisturbed(v)'
      <3>1. CASE v = w
        BY <2>1, <3>1 DEF Start, TypeOK, Undisturbed
      <3>2. CASE v # w
        BY <2>1, <3>2, UndisturbedStays DEF Start, TypeOK, EffectInv
      <3>3. QED BY <3>1, <3>2
    <2>2. ASSUME NEW w \in Writers, CheckMode(w) PROVE Undisturbed(v)'
      <3>1. CASE v = w
        BY <2>2, <3>1 DEF CheckMode, TypeOK, EffectInv, Undisturbed
      <3>2. CASE v # w
        BY <2>2, <3>2, UndisturbedStays DEF CheckMode, TypeOK, EffectInv
      <3>3. QED BY <3>1, <3>2
    <2>3. ASSUME NEW m \in Modes, NEW S \in SUBSET Writers, EnterMode(m, S), v \in S,
                 UNCHANGED <<overrides, pc[v], curve[v], pos[v], fld[v], snap[v]>>
          PROVE  Undisturbed(v)'
      BY <2>3, UndisturbedStays DEF EnterMode, TypeOK, EffectInv
    <2>4. ASSUME NEW w \in Writers, EnterCustom(w) PROVE Undisturbed(v)'
      <3>1. CASE v = w
        BY <2>4, <3>1 DEF EnterCustom, EnterMode, TypeOK, EffectInv, Undisturbed
      <3>2. CASE v # w
        BY <2>3, <2>4, <3>2, ModeAssumption DEF EnterCustom, TypeOK
      <3>3. QED BY <3>1, <3>2
    <2>5. ASSUME NEW w \in Writers, EnterCustomFails(w) \/ ClearFullspeedFails(w)
          PROVE  Undisturbed(v)'
      BY <2>5, UndisturbedStays DEF EnterCustomFails, ClearFullspeedFails, TypeOK, EffectInv
    <2>6. ASSUME NEW w \in Writers, ClearFullspeed(w) \/ ClearMinifan(w) PROVE Undisturbed(v)'
      <3>1. Undisturbed(v) /\ UNCHANGED <<mode, live, curve, pos, fld, snap>>
        BY <2>6 DEF ClearFullspeed, ClearMinifan, EffectInv
      <3>2. CASE v = w
        <4>1. \/ pos'[v] = N /\ fld'[v] = "temp" /\ mode' = Custom
              \/ pc[v] \notin {"fullspeed", "minifan"}
          BY <3>1 DEF Undisturbed
        <4>2. \A j \in Points : ~(j > N)
          BY SizeAssumption DEF Points
        <4>3. CASE ClearFullspeed(w)
          BY <3>1, <3>2, <4>1, <4>3 DEF ClearFullspeed, TypeOK, Undisturbed
        <4>4. CASE ClearMinifan(w)
          <5>1. overrides' = {} /\ pc[v] = "minifan" /\ pc'[v] = "read"
            BY <3>1, <3>2, <4>4 DEF ClearMinifan, TypeOK, Undisturbed
          <5>2. QED BY <3>1, <4>1, <4>2, <5>1 DEF Undisturbed
        <4>5. QED BY <2>6, <4>3, <4>4
      <3>3. CASE v # w /\ overrides' = overrides
        BY <2>6, <3>1, <3>3, UndisturbedStays DEF ClearFullspeed, ClearMinifan, TypeOK
      <3>4. CASE v # w /\ overrides' # overrides
        <4>1. pc'[v] = pc[v] /\ overrides' \subseteq overrides /\ overrides # {}
          BY <2>6, <3>4 DEF ClearFullspeed, ClearMinifan, TypeOK
        <4>2. pc[v] \notin {"read", "write", "idle"}
          BY <3>1, <4>1 DEF Undisturbed
        <4>3. QED BY <3>1, <4>1, <4>2 DEF Undisturbed
      <3>5. QED BY <3>2, <3>3, <3>4
    <2>7. ASSUME NEW w \in Writers, StoreRead(w) PROVE Undisturbed(v)'
      <3>1. Undisturbed(v) /\ UNCHANGED <<mode, live, overrides, curve, pos, fld>>
        BY <2>7 DEF StoreRead, EffectInv
      <3>2. CASE v = w
        <4>1. \A j \in Nat, g \in Fields :
                Want(v, j, g)' = Want(v, j, g) /\ Wanted(v, j)' = Wanted(v, j)
          BY <3>1 DEF Want, Wanted, Hyst, Gap, SetSpeedPwm
        <4>2. pc[v] = "read" /\ pc'[v] = "write" /\ snap'[v] = live'
          BY <2>7, <3>2 DEF StoreRead, TypeOK
        <4>3. Points \subseteq Nat /\ pos[v] \in Nat
          BY SizeAssumption DEF Points, TypeOK
        <4>4. QED BY <3>1, <4>1, <4>2, <4>3 DEF Undisturbed, Fields
      <3>3. CASE v # w
        BY <2>7, <3>1, <3>3, UndisturbedStays DEF StoreRead, TypeOK
      <3>4. QED BY <3>2, <3>3
    <2>8. ASSUME NEW w \in Writers, StoreWrite(w) PROVE Undisturbed(v)'
      <3>1. v = w /\ alone[v]
        BY <2>8 DEF StoreWrite
      <3>2. QED BY <2>8, <3>1, StoreTakesEffect DEF EffectInv
    <2>9. ASSUME NEW m \in Modes, PowermodeStore(m) \/ ModeChangesUnlocked(m)
          PROVE  Undisturbed(v)'
      BY <2>3, <2>9 DEF PowermodeStore, ModeChangesUnlocked
    <2>10. ASSUME NEW o, OverrideStore(o) PROVE Undisturbed(v)'
      BY <2>10 DEF OverrideStore
    <2>11. CASE UNCHANGED vars
      BY <2>11, UndisturbedStays DEF vars, EffectInv, TypeOK
    <2>12. QED
      BY <2>1, <2>2, <2>4, <2>5, <2>6, <2>7, <2>8, <2>9, <2>10, <2>11 DEF Next, Walk
  <1>3. EffectInv => CurveInEffect
    BY DEF EffectInv, Undisturbed, CurveInEffect
  <1>4. QED
    BY <1>1, <1>2, <1>3, TypeCorrect, MutexHeld, NeverRejected, Compatible, PTL DEF Spec

-----------------------------------------------------------------------------
(* The highest point first *)

\* Where an undisturbed program is in its walk, and what it left behind: the
\* point above it, and the one it is at once its temperature was stored, lie at
\* or above what was asked for, whether that was taken or refused.
Walked(w) ==
  /\ pc[w] \in {"mode", "enter", "fullspeed", "minifan"} => pos[w] = N /\ fld[w] = "temp"
  /\ pc[w] \in {"fullspeed", "minifan", "read", "write"} => mode = Custom
  /\ pc[w] = "write" => snap[w] = live
  /\ pc[w] # "idle" =>
       /\ pos[w] < N => curve[w][pos[w] + 1].temp <= live[pos[w] + 1].temp
       /\ fld[w] # "temp" => curve[w][pos[w]].temp <= live[pos[w]].temp

OrderInv == Rising(live) /\ \A w \in Writers : alone[w] => Walked(w)

LEMMA TempType ==
  ASSUME TypeOK, NEW w \in Writers, NEW i \in Points
  PROVE  curve[w] \in Tables /\ curve[w][i].temp \in Nat /\ live[i].temp \in Nat
  <1>1. curve[w] \in Curves /\ live \in Table
    BY DEF TypeOK
  <1>2. curve[w] \in Curve
    BY <1>1, WriterAssumption DEF Curves
  <1>3. curve[w][i].temp \in 0..127 /\ live[i].temp \in 0..127
    BY <1>1, <1>2 DEF Curve, Table, Point
  <1>4. QED BY <1>1, <1>3 DEF Tables

\* A store of another field than the temperature leaves a rising table rising.
LEMMA OtherFieldRises ==
  ASSUME TypeOK, Rising(live), NEW w \in Writers, pc[w] = "write", snap[w] = live,
         fld[w] # "temp"
  PROVE  Rising(Pending(w)) /\ \A i \in Points : Pending(w)[i].temp = live[i].temp
  <1>1. pos[w] \in Points /\ fld[w] \in Fields \ {"temp"} /\ live \in Table
    BY DEF TypeOK
  <1>2. \A i \in Points : Pending(w)[i].temp = live[i].temp
    BY <1>1 DEF Pending, WithField, Table, Point, Fields
  <1>3. QED BY <1>2 DEF Rising

\* A store of a temperature changes that temperature alone.
LEMMA TempStored ==
  ASSUME TypeOK, NEW w \in Writers, pc[w] = "write", snap[w] = live, fld[w] = "temp"
  PROVE  \A i \in Points : Pending(w)[i].temp =
           IF i = pos[w] THEN curve[w][i].temp ELSE live[i].temp
  <1>1. pos[w] \in Points /\ live \in Table
    BY DEF TypeOK
  <1>2. QED BY <1>1 DEF Pending, WithField, Want, Table, Point

\* If the table would not rise, a point below the one stored is in the way.
LEMMA RefusedFromBelow ==
  ASSUME Ordered, TypeOK, OrderInv, NEW w \in Writers, pc[w] = "write", alone[w],
         ~Rising(Pending(w))
  PROVE  fld[w] = "temp" /\ \E i \in Points : i < pos[w] /\ live[i].temp > curve[w][pos[w]].temp
  <1>1. Rising(live) /\ snap[w] = live /\ pos[w] \in Points /\ Points \subseteq Nat
    BY SizeAssumption DEF OrderInv, Walked, TypeOK, Points
  <1>2. fld[w] = "temp"
    BY <1>1, OtherFieldRises
  <1>3. PICK i \in Points, j \in Points :
          i < j /\ ~(Pending(w)[i].temp <= Pending(w)[j].temp)
    BY DEF Rising
  <1>4. live[i].temp <= live[j].temp /\ i # j
    BY <1>1, <1>3 DEF Rising
  <1>5. live[i].temp \in Nat /\ live[j].temp \in Nat
    BY TempType
  <1>6. i # pos[w]
    <2> SUFFICES ASSUME i = pos[w] PROVE FALSE
      OBVIOUS
    <2>1. pos[w] + 1 \in Points /\ pos[w] < N /\ (pos[w] + 1 = j \/ pos[w] + 1 < j)
      BY <1>1, <1>3, SizeAssumption DEF Points
    <2>2. curve[w][pos[w] + 1].temp <= live[pos[w] + 1].temp
      BY <2>1 DEF OrderInv, Walked
    <2>3. curve[w][pos[w]].temp <= curve[w][pos[w] + 1].temp
      BY <1>1, <2>1, TempType, Ordered DEF Ordered, Rising
    <2>4. live[pos[w] + 1].temp \in Nat
      BY <2>1, TempType
    <2>5. live[pos[w] + 1].temp <= live[j].temp
      <3>1. CASE pos[w] + 1 = j
        BY <2>4, <3>1
      <3>2. CASE pos[w] + 1 < j
        BY <1>1, <2>1, <3>2 DEF Rising
      <3>3. QED BY <2>1, <3>1, <3>2
    <2>6. curve[w][pos[w]].temp \in Nat /\ curve[w][pos[w] + 1].temp \in Nat
      BY <1>1, <2>1, TempType
    <2>7. Pending(w)[i].temp = curve[w][pos[w]].temp /\ Pending(w)[j].temp = live[j].temp
      BY <1>1, <1>2, <1>4, TempStored
    <2>8. QED BY <1>3, <1>5, <2>2, <2>3, <2>4, <2>5, <2>6, <2>7
  <1>7. j = pos[w]
    BY <1>1, <1>2, <1>3, <1>4, <1>6, TempStored
  <1>8. live[i].temp > curve[w][pos[w]].temp
    BY <1>1, <1>2, <1>3, <1>5, <1>6, <1>7, TempStored, TempType
  <1>9. QED BY <1>2, <1>3, <1>7, <1>8

\* After its store an undisturbed program is one field further, whether the EC
\* took the store or refused it.
LEMMA StoreWalks ==
  ASSUME Ordered, TypeOK, OrderInv, NEW w \in Writers, StoreWrite(w), alone[w]
  PROVE  Walked(w)'
  <1>1. /\ pos[w] \in Points /\ pos[w] \in Nat /\ live \in Table /\ pc[w] = "write"
        /\ Rising(live) /\ Walked(w) /\ snap[w] = live /\ mode = Custom
    BY SizeAssumption DEF StoreWrite, OrderInv, Walked, TypeOK, Points
  <1>2. /\ pos'[w] = NextPoint(pos[w], fld[w]) /\ fld'[w] = NextField(fld[w])
        /\ pc'[w] = IF pos[w] = 1 /\ fld[w] = "speed" THEN "idle" ELSE "read"
        /\ mode' = mode /\ curve' = curve
    BY DEF StoreWrite, TypeOK
  <1>3. live' = IF Rising(Pending(w)) THEN Pending(w) ELSE live
    BY <1>1 DEF StoreWrite, EcCommit
  <1>4. CASE fld[w] # "temp"
    <2>1. \A i \in Points : live'[i].temp = live[i].temp
      BY <1>1, <1>3, <1>4, OtherFieldRises
    <2>2. curve[w][pos[w]].temp <= live[pos[w]].temp
      BY <1>1, <1>4 DEF Walked
    <2>3. CASE fld[w] = "speed"
      <3>1. pos'[w] = pos[w] - 1 /\ fld'[w] = "temp"
        BY <1>2, <2>3 DEF NextPoint, NextField
      <3>2. pos'[w] + 1 = pos[w]
        BY <1>1, <3>1
      <3>3. curve'[w][pos'[w] + 1].temp <= live'[pos'[w] + 1].temp
        BY <1>1, <1>2, <2>1, <2>2, <3>2
      <3>4. QED BY <1>1, <1>2, <3>1, <3>3 DEF Walked
    <2>4. CASE fld[w] = "hyst"
      <3>1. pos'[w] = pos[w] /\ fld'[w] = "speed" /\ pc'[w] = "read"
        BY <1>2, <2>4 DEF NextPoint, NextField
      <3>2. pos[w] < N => pos[w] + 1 \in Points
        BY <1>1, SizeAssumption DEF Points
      <3>3. QED BY <1>1, <1>2, <2>1, <2>2, <3>1, <3>2 DEF Walked
    <2>5. QED BY <1>4, <2>3, <2>4 DEF TypeOK, Fields
  <1>5. CASE fld[w] = "temp"
    <2>1. pos'[w] = pos[w] /\ fld'[w] = "hyst" /\ pc'[w] = "read"
      BY <1>2, <1>5 DEF NextPoint, NextField
    <2>2. pos[w] < N => pos[w] + 1 \in Points
      BY <1>1, SizeAssumption DEF Points
    <2>3. \A i \in Points : i # pos[w] => live'[i].temp = live[i].temp
      <3>1. \A i \in Points : i # pos[w] => Pending(w)[i].temp = live[i].temp
        BY <1>1, <1>5, TempStored
      <3>2. QED BY <1>3, <3>1
    <2>4. curve[w][pos[w]].temp <= live'[pos[w]].temp
      <3>1. CASE Rising(Pending(w))
        <4>1. live'[pos[w]].temp = curve[w][pos[w]].temp
          BY <1>1, <1>3, <1>5, <3>1, TempStored
        <4>2. curve[w][pos[w]].temp \in Nat
          BY <1>1, TempType
        <4>3. QED BY <4>1, <4>2
      <3>2. CASE ~Rising(Pending(w))
        <4>1. PICK i \in Points : i < pos[w] /\ live[i].temp > curve[w][pos[w]].temp
          BY <1>1, <3>2, RefusedFromBelow
        <4>2. live[i].temp <= live[pos[w]].temp
          BY <1>1, <4>1 DEF Rising
        <4>3. /\ live[i].temp \in Nat /\ live[pos[w]].temp \in Nat
              /\ curve[w][pos[w]].temp \in Nat
          BY <1>1, TempType
        <4>4. QED BY <1>3, <3>2, <4>1, <4>2, <4>3
      <3>3. QED BY <3>1, <3>2
    <2>5. pos[w] < N => live'[pos[w] + 1].temp = live[pos[w] + 1].temp
      BY <1>1, <2>2, <2>3
    <2>6. QED BY <1>1, <1>2, <2>1, <2>4, <2>5 DEF Walked
  <1>6. QED BY <1>4, <1>5

\* A step that leaves the EC's mode and table, and the program's own state,
\* alone leaves it where it is in its walk.
LEMMA WalkedStays ==
  ASSUME NEW w \in Writers, Walked(w),
         UNCHANGED <<mode, live, pc[w], curve[w], pos[w], fld[w], snap[w]>>
  PROVE  Walked(w)'
  BY DEF Walked

\* Whatever rising tables are written over each other, and whichever stores the
\* EC refused before, it refuses a store of an undisturbed program for a point not
\* written yet and never for one already written.
THEOREM HighestFirstSuffices == ASSUME Ordered PROVE Spec => []HighestFirst
  <1>1. Init => OrderInv
    BY Ordered DEF Init, OrderInv, Ordered, Tables
  <1>2. TypeOK /\ MutexInv /\ OrderInv /\ [Next]_vars => OrderInv'
    <2> SUFFICES ASSUME TypeOK, MutexInv, OrderInv, [Next]_vars PROVE OrderInv'
      OBVIOUS
    <2> USE DEF ecVars
    <2>1. Rising(live)'
      <3>1. ASSUME NEW m \in Modes, NEW S, EnterMode(m, S) PROVE Rising(live)'
        BY <3>1, Ordered DEF EnterMode, OrderInv, Ordered, Tables, Rising
      <3>2. ASSUME live' = live PROVE Rising(live)'
        BY <3>2 DEF OrderInv, Rising
      <3>3. ASSUME NEW w \in Writers, StoreWrite(w) PROVE Rising(live)'
        BY <3>3 DEF StoreWrite, EcCommit, OrderInv, Rising
      <3>4. ASSUME NEW w \in Writers, Walk(w) PROVE Rising(live)'
        BY <3>1, <3>2, <3>3, <3>4, ModeAssumption
           DEF Walk, CheckMode, EnterCustom, EnterCustomFails, ClearFullspeed,
               ClearFullspeedFails, ClearMinifan, StoreRead
      <3>5. ASSUME NEW m \in Modes, PowermodeStore(m) \/ ModeChangesUnlocked(m)
            PROVE  Rising(live)'
        BY <3>1, <3>5 DEF PowermodeStore, ModeChangesUnlocked
      <3>6. ASSUME \/ \E w \in Writers, c \in Curves : Start(w, c)
                   \/ \E o \in {"fan_fullspeed", "minifancurve"} : OverrideStore(o)
                   \/ UNCHANGED vars
            PROVE  Rising(live)'
        BY <3>2, <3>6 DEF Start, OverrideStore, vars
      <3>7. QED BY <3>4, <3>5, <3>6 DEF Next, Curves
    <2>2. ASSUME NEW v \in Writers, alone'[v] PROVE Walked(v)'
      <3>1. ASSUME NEW w \in Writers, NEW c \in Asked[w], Start(w, c) PROVE Walked(v)'
        <4>1. CASE v = w
          BY <3>1, <4>1, SizeAssumption DEF Start, TypeOK, Walked
        <4>2. CASE v # w
          BY <2>2, <3>1, <4>2, WalkedStays DEF Start, TypeOK, OrderInv
        <4>3. QED BY <4>1, <4>2
      <3>2. ASSUME NEW w \in Writers, CheckMode(w) PROVE Walked(v)'
        <4>1. CASE v = w
          BY <2>2, <3>2, <4>1 DEF CheckMode, TypeOK, OrderInv, Walked
        <4>2. CASE v # w
          BY <2>2, <3>2, <4>2, WalkedStays DEF CheckMode, TypeOK, OrderInv
        <4>3. QED BY <4>1, <4>2
      <3>3. ASSUME NEW m \in Modes, NEW S \in SUBSET Writers, EnterMode(m, S), v \in S,
                   UNCHANGED <<pc[v], curve[v], pos[v], fld[v], snap[v]>>
            PROVE  Walked(v)'
        BY <2>2, <3>3, WalkedStays DEF EnterMode, TypeOK, OrderInv
      <3>4. ASSUME NEW w \in Writers, EnterCustom(w) PROVE Walked(v)'
        <4>1. CASE v = w
          BY <2>2, <3>4, <4>1 DEF EnterCustom, EnterMode, TypeOK, OrderInv, Walked
        <4>2. CASE v # w
          BY <3>3, <3>4, <4>2, ModeAssumption DEF EnterCustom, TypeOK
        <4>3. QED BY <4>1, <4>2
      <3>5. ASSUME NEW w \in Writers, EnterCustomFails(w) \/ ClearFullspeedFails(w)
            PROVE  Walked(v)'
        BY <2>2, <3>5, WalkedStays DEF EnterCustomFails, ClearFullspeedFails, TypeOK, OrderInv
      <3>6. ASSUME NEW w \in Writers, ClearFullspeed(w) \/ ClearMinifan(w) PROVE Walked(v)'
        <4>1. CASE v = w
          BY <2>2, <3>6, <4>1 DEF ClearFullspeed, ClearMinifan, TypeOK, OrderInv, Walked
        <4>2. CASE v # w
          BY <2>2, <3>6, <4>2, WalkedStays DEF ClearFullspeed, ClearMinifan, TypeOK, OrderInv
        <4>3. QED BY <4>1, <4>2
      <3>7. ASSUME NEW w \in Writers, StoreRead(w) PROVE Walked(v)'
        <4>1. CASE v = w
          BY <2>2, <3>7, <4>1 DEF StoreRead, TypeOK, OrderInv, Walked
        <4>2. CASE v # w
          BY <2>2, <3>7, <4>2, WalkedStays DEF StoreRead, TypeOK, OrderInv
        <4>3. QED BY <4>1, <4>2
      <3>8. ASSUME NEW w \in Writers, StoreWrite(w) PROVE Walked(v)'
        <4>1. v = w /\ alone[v]
          BY <2>2, <3>8 DEF StoreWrite
        <4>2. QED BY <3>8, <4>1, StoreWalks, Ordered
      <3>9. ASSUME NEW m \in Modes, PowermodeStore(m) \/ ModeChangesUnlocked(m)
            PROVE  Walked(v)'
        BY <3>3, <3>9 DEF PowermodeStore, ModeChangesUnlocked
      <3>10. ASSUME NEW o, OverrideStore(o) PROVE Walked(v)'
        BY <2>2, <3>10 DEF OverrideStore
      <3>11. CASE UNCHANGED vars
        BY <2>2, <3>11, WalkedStays DEF vars, OrderInv
      <3>12. QED
        BY <3>1, <3>2, <3>4, <3>5, <3>6, <3>7, <3>8, <3>9, <3>10, <3>11 DEF Next, Walk
    <2>3. QED BY <2>1, <2>2 DEF OrderInv
  <1>3. TypeOK /\ OrderInv => HighestFirst
    BY Ordered, RefusedFromBelow DEF HighestFirst
  <1>4. QED BY <1>1, <1>2, <1>3, TypeCorrect, MutexHeld, PTL DEF Spec
=============================================================================
