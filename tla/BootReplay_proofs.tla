-------------------------- MODULE BootReplay_proofs --------------------------
(***************************************************************************)
(* Proofs about the replay of boot.conf, for every set of snapshots, every *)
(* firmware and any number of other tasks: the script is a task of         *)
(* PowerControl like any other, and an undisturbed replay restores what    *)
(* the lines say.                                                          *)
(***************************************************************************)
EXTENDS BootReplay, PowerControl_proofs

-----------------------------------------------------------------------------
(* Where the script is in the file *)

LineKey == <<"POWERMODE", "FAN_FULLSPEED", "FW_PL1", "FW_PL2", "PL_COUPLING",
             "CURVE_PWM", "CURVE_PWM">>
Has(n) == LineKey[n] \in DOMAIN saved

\* The script has read line n, and after it none that boot.conf has.
LastRead(n) == n < line /\ Has(n) /\ \A i \in 1..7 : n < i /\ i < line => ~Has(i)

\* The store of line n has returned.
Done(n) == n < line /\ Has(n) /\ (pc[Boot] = "idle" \/ ~LastRead(n))

\* What the snapshot says does not change underway.
Legal ==
  /\ Has(1)
  /\ Has(3) => Holds(saved["POWERMODE"], "FW_PL1")
  /\ Has(4) => Holds(saved["POWERMODE"], "FW_PL2")
  /\ Has(3) /\ Has(4) => saved["FW_PL1"] <= saved["FW_PL2"]
Stays == line > 6 /\ Has(6) => saved["POWERMODE"] = Custom

\* The store that runs is that of the line read last.
Underway ==
  /\ pc[Boot] \in {"mode", "cache"} =>
       \/ LastRead(1) /\ arg[Boot] = saved["POWERMODE"]
       \/ LastRead(6) /\ arg[Boot] = Custom /\ (Has(1) => saved["POWERMODE"] # Custom)
  /\ pc[Boot] = "cache" => mode = arg[Boot]
  /\ pc[Boot] \in {"allowed", "fullspeed"} =>
       \/ LastRead(2) /\ arg[Boot] = saved["FAN_FULLSPEED"]
       \/ LastRead(7) /\ arg[Boot] = FALSE
  /\ pc[Boot] \in {"coupling", "other", "pull", "own"} =>
       \/ LastRead(3) /\ kind[Boot] = "pl1" /\ (Legal => arg[Boot] = saved["FW_PL1"])
       \/ LastRead(4) /\ kind[Boot] = "pl2" /\ (Legal => arg[Boot] = saved["FW_PL2"])
  /\ pc[Boot] = "pull" /\ LastRead(4) /\ Legal => ~Has(3)

\* What the stores that returned have left.
Restored ==
  /\ Done(1) /\ Stays => mode = saved["POWERMODE"] /\ cached = saved["POWERMODE"]
  /\ Done(2) /\ ~(line > 6 /\ Has(6)) => fullspeed = saved["FAN_FULLSPEED"]
  /\ Legal /\ Stays => /\ Done(3) => limits["pl1"] = saved["FW_PL1"]
                       /\ Done(4) => limits["pl2"] = saved["FW_PL2"]
  /\ 5 < line /\ Has(5) => coupling = saved["PL_COUPLING"]
  /\ Done(6) => mode = Custom
  /\ Done(7) => ~fullspeed

Shape ==
  /\ saved \in Snapshots
  /\ line \in 1..8
  /\ over \in BOOLEAN
  /\ over => pc[Boot] = "idle" /\ line # 7
  /\ quiet \in BOOLEAN

ReplayInv == Shape /\ (quiet => Underway /\ Restored)

-----------------------------------------------------------------------------
(* What the script does is what tasks of PowerControl do *)

\* The values of a snapshot.
LEMMA Said ==
  ASSUME saved \in Snapshots
  PROVE  /\ "POWERMODE" \in DOMAIN saved => saved["POWERMODE"] \in Modes
         /\ "FAN_FULLSPEED" \in DOMAIN saved => saved["FAN_FULLSPEED"] \in BOOLEAN
         /\ "FW_PL1" \in DOMAIN saved => saved["FW_PL1"] \in Int
         /\ "FW_PL2" \in DOMAIN saved => saved["FW_PL2"] \in Int
         /\ "PL_COUPLING" \in DOMAIN saved => saved["PL_COUPLING"] \in BOOLEAN
  BY SnapshotAssumption

\* The lines of the file, and what each of them asks for.
LEMMA Lines ==
  /\ Len(Order) = 7
  /\ \A i \in 1..7 :
       LineKey[i] = IF Order[i] = "CURVE_FULLSPEED" THEN "CURVE_PWM" ELSE Order[i]
  /\ Order[1] = "POWERMODE" /\ Order[2] = "FAN_FULLSPEED" /\ Order[3] = "FW_PL1"
  /\ Order[4] = "FW_PL2" /\ Order[5] = "PL_COUPLING" /\ Order[6] = "CURVE_PWM"
  /\ Order[7] = "CURVE_FULLSPEED"
  <1>1. /\ Len(Order) = 7
        /\ Order[1] = "POWERMODE" /\ Order[2] = "FAN_FULLSPEED" /\ Order[3] = "FW_PL1"
        /\ Order[4] = "FW_PL2" /\ Order[5] = "PL_COUPLING" /\ Order[6] = "CURVE_PWM"
        /\ Order[7] = "CURVE_FULLSPEED"
    BY DEF Order
  <1>2. /\ LineKey[1] = "POWERMODE" /\ LineKey[2] = "FAN_FULLSPEED" /\ LineKey[3] = "FW_PL1"
        /\ LineKey[4] = "FW_PL2" /\ LineKey[5] = "PL_COUPLING" /\ LineKey[6] = "CURVE_PWM"
        /\ LineKey[7] = "CURVE_PWM"
    BY DEF LineKey
  <1>3. ASSUME NEW i \in 1..7
        PROVE  LineKey[i] = IF Order[i] = "CURVE_FULLSPEED" THEN "CURVE_PWM" ELSE Order[i]
    <2>1. i = 1 \/ i = 2 \/ i = 3 \/ i = 4 \/ i = 5 \/ i = 6 \/ i = 7
      OBVIOUS
    <2>2. QED BY <1>1, <1>2, <2>1
  <1>4. QED BY <1>1, <1>3

LEMMA HasIs ==
  /\ Has(1) <=> "POWERMODE" \in DOMAIN saved
  /\ Has(2) <=> "FAN_FULLSPEED" \in DOMAIN saved
  /\ Has(3) <=> "FW_PL1" \in DOMAIN saved
  /\ Has(4) <=> "FW_PL2" \in DOMAIN saved
  /\ Has(5) <=> "PL_COUPLING" \in DOMAIN saved
  /\ Has(6) <=> "CURVE_PWM" \in DOMAIN saved
  /\ Has(7) <=> "CURVE_PWM" \in DOMAIN saved
  BY DEF Has, LineKey

\* The place of the line that the script reads.
LEMMA ReadsAt ==
  ASSUME NEW n \in 1..7, line \in 1..8, Reads(Order[n])
  PROVE  /\ line = n /\ line' = n + 1 /\ Has(n) /\ saved' = saved
         /\ ~over /\ over' = over /\ pc[Boot] = "idle"
  <1>1. line \in 1..7 /\ Order[line] = Order[n]
    BY Lines DEF Reads
  <1>2. line = n
    <2>1. line = 1 \/ line = 2 \/ line = 3 \/ line = 4 \/ line = 5 \/ line = 6 \/ line = 7
      BY <1>1
    <2>2. n = 1 \/ n = 2 \/ n = 3 \/ n = 4 \/ n = 5 \/ n = 6 \/ n = 7
      OBVIOUS
    <2>3. QED BY <1>1, <2>1, <2>2, Lines
  <1>3. Has(n)
    BY <1>1, <1>2, Lines DEF Reads, Has
  <1>4. QED BY <1>2, <1>3, Zenon DEF Reads

LEMMA FileStays == ASSUME [BootNext]_allVars PROVE saved' = saved
  BY Zenon
     DEF BootNext, Script, Others, allVars, NoSuchLine, EndOfFile, StoreSteps, Reads,
         ReplayPowermode, ReplayFullspeed, ReplayCoupling, ReplayCouplingFails, ReplayLimit,
         CurveInCustom, CurveSetsCustom, CurveNoHwmon, CurveClearsFullspeed

\* Every step of the replay is one that PowerControl allows a task, except that a
\* snapshot may name any limit.
LEMMA ReplayIsAny ==
  ASSUME saved \in Snapshots, line \in 1..8, [BootNext]_allVars
  PROVE  [AnyNext]_vars
  <1>1. CASE NoSuchLine \/ EndOfFile \/ ReplayCouplingFails \/ CurveInCustom \/ CurveNoHwmon
    BY <1>1, Zenon DEF NoSuchLine, EndOfFile, ReplayCouplingFails, CurveInCustom, CurveNoHwmon
  <1>2. CASE StoreSteps
    <2>1. Step(Boot)
      BY <1>2, Zenon DEF StoreSteps, Works, Errs, Step
    <2>2. QED BY <2>1, BootAssumption DEF AnyNext, Next, Act
  <1>3. CASE ReplayPowermode
    <2>1. saved["POWERMODE"] \in Modes
      BY <1>3, Lines, ReadsAt, HasIs, Said DEF ReplayPowermode
    <2>2. QED BY <1>3, <2>1, BootAssumption DEF ReplayPowermode, AnyNext, Next, Act
  <1>4. CASE ReplayFullspeed
    <2>1. saved["FAN_FULLSPEED"] \in BOOLEAN
      BY <1>4, Lines, ReadsAt, HasIs, Said DEF ReplayFullspeed
    <2>2. QED BY <1>4, <2>1, BootAssumption DEF ReplayFullspeed, AnyNext, Next, Act
  <1>5. ASSUME NEW key \in DOMAIN LimitOf, ReplayLimit(key)
        PROVE  [AnyNext]_vars
    <2>1. key \in {"FW_PL1", "FW_PL2"} /\ LimitOf[key] \in Limits
      BY DEF LimitOf, Limits
    <2>2. saved[key] \in Int
      BY <1>5, <2>1, Lines, ReadsAt, HasIs, Said DEF ReplayLimit
    <2>3. QED BY <1>5, <2>1, <2>2, BootAssumption DEF ReplayLimit, AnyNext
  <1>6. CASE ReplayCoupling
    <2>1. saved["PL_COUPLING"] \in BOOLEAN
      BY <1>6, Lines, ReadsAt, HasIs, Said DEF ReplayCoupling
    <2>2. QED BY <1>6, <2>1 DEF ReplayCoupling, AnyNext, Next
  <1>7. CASE CurveSetsCustom \/ CurveClearsFullspeed
    BY <1>7, BootAssumption, ModeAssumption
       DEF CurveSetsCustom, CurveClearsFullspeed, AnyNext, Next, Act
  <1>8. CASE Others
    BY <1>8, Zenon DEF Others, AnyNext, Next
  <1>9. CASE UNCHANGED allVars
    BY <1>9 DEF allVars
  <1>10. QED
    BY <1>1, <1>2, <1>3, <1>4, <1>5, <1>6, <1>7, <1>8, <1>9 DEF BootNext, Script

-----------------------------------------------------------------------------
(* The lines that were read, and those whose store has returned *)

\* Only one line is the last, no later line is done, and it is not done itself
\* before its store returns.
LEMMA LastIsLast ==
  ASSUME line \in 1..8, NEW n \in 1..7, LastRead(n)
  PROVE  /\ n < line /\ Has(n)
         /\ \A m \in 1..7 : LastRead(m) => m = n
         /\ \A m \in 1..7 : n < m => ~Done(m) /\ ~(m < line /\ Has(m))
         /\ pc[Boot] # "idle" => ~Done(n)
  BY DEF LastRead, Done

\* The script reads line n between two stores.
LEMMA ReadStep ==
  ASSUME line \in 1..8, NEW n \in 1..7, line = n, line' = n + 1, Has(n), saved' = saved,
         pc[Boot] = "idle"
  PROVE  /\ LastRead(n)'
         /\ \A m \in 1..7 : m # n => (Done(m)' <=> Done(m))
         /\ Done(n)' => pc'[Boot] = "idle"
  <1>1. \A m : Has(m)' <=> Has(m)
    BY DEF Has
  <1>2. LastRead(n)'
    BY <1>1 DEF LastRead
  <1>3. ASSUME NEW m \in 1..7, m # n PROVE Done(m)' <=> Done(m)
    <2>1. CASE m > n
      BY <1>1, <2>1 DEF Done
    <2>2. CASE m < n
      <3>1. ~LastRead(m)'
        BY <1>1, <2>2 DEF LastRead
      <3>2. QED BY <1>1, <2>2, <3>1 DEF Done
    <2>3. QED BY <1>3, <2>1, <2>2
  <1>4. QED BY <1>2, <1>3 DEF Done

\* It passes a line that the file does not have, or goes on within a store.
LEMMA QuietStep ==
  ASSUME line \in 1..8, saved' = saved, pc'[Boot] = "idle" <=> pc[Boot] = "idle",
         line' = line \/ (line \in 1..7 /\ line' = line + 1 /\ ~Has(line))
  PROVE  \A m \in 1..7 : (LastRead(m)' <=> LastRead(m)) /\ (Done(m)' <=> Done(m))
  <1>1. \A m : Has(m)' <=> Has(m)
    BY DEF Has
  <1>2. ASSUME NEW m \in 1..7 PROVE LastRead(m)' <=> LastRead(m)
    <2>1. m < line' /\ Has(m) <=> m < line /\ Has(m)
      OBVIOUS
    <2>2. \A i \in 1..7 : (i < line' /\ Has(i)) <=> (i < line /\ Has(i))
      OBVIOUS
    <2>3. QED BY <1>1, <2>1, <2>2 DEF LastRead
  <1>3. ASSUME NEW m \in 1..7 PROVE Done(m)' <=> Done(m)
    <2>1. m < line' /\ Has(m) <=> m < line /\ Has(m)
      OBVIOUS
    <2>2. QED BY <1>1, <1>2, <2>1 DEF Done
  <1>4. QED BY <1>2, <1>3

\* Its store returns.
LEMMA ReturnStep ==
  ASSUME UNCHANGED <<saved, line>>, pc[Boot] # "idle", pc'[Boot] = "idle"
  PROVE  \A m \in 1..7 : Done(m)' <=> Done(m) \/ LastRead(m)
  BY DEF Done, LastRead, Has

-----------------------------------------------------------------------------
(* Types, and the order of the limits *)

\* What everybody else does leaves the script where it is in its store.
LEMMA ElseStays ==
  ASSUME TypeOK, Others
  PROVE  pc'[Boot] = pc[Boot] /\ kind'[Boot] = kind[Boot] /\ arg'[Boot] = arg[Boot]
  <1>1. ASSUME NEW t \in Tasks \ {Boot}, Act(t)
        PROVE  pc'[Boot] = pc[Boot] /\ kind'[Boot] = kind[Boot] /\ arg'[Boot] = arg[Boot]
    <2>1. ASSUME NEW k, NEW v, NEW label, NEW b, Start(t, k, v, label, b)
          PROVE  pc'[Boot] = pc[Boot] /\ kind'[Boot] = kind[Boot] /\ arg'[Boot] = arg[Boot]
      BY <2>1, BootAssumption DEF Start, Goto, TypeOK
    <2>2. ASSUME Return(t)
          PROVE  pc'[Boot] = pc[Boot] /\ kind'[Boot] = kind[Boot] /\ arg'[Boot] = arg[Boot]
      BY <2>2, BootAssumption DEF Return, Goto, TypeOK
    <2>3. ASSUME NEW label, Goto(t, label), UNCHANGED <<kind, arg>>
          PROVE  pc'[Boot] = pc[Boot] /\ kind'[Boot] = kind[Boot] /\ arg'[Boot] = arg[Boot]
      BY <2>3, BootAssumption DEF Goto, TypeOK
    <2>4. Step(t) => Return(t) \/ \E label : Goto(t, label) /\ UNCHANGED <<kind, arg>>
      BY DEF Step, CheckCoupling, ReadOther, ReadOtherFails, WriteOther, WriteOtherFails, WriteOwn,
             WriteOwnFails, WriteMode, WriteModeFails, KeepCopy, FullspeedAllowed,
             FullspeedRefused, WriteFullspeed, WriteFullspeedFails, Succeed, Fail
    <2>5. QED BY <1>1, <2>1, <2>2, <2>3, <2>4 DEF Act, StartLimit, StartMode, StartFullspeed
  <1>2. CASE UNCHANGED taskVars
    BY <1>2 DEF taskVars
  <1>3. QED BY <1>1, <1>2 DEF Others, ModeChangesOutside, CouplingStore

LEMMA ShapeStep ==
  ASSUME TypeOK, Shape, [BootNext]_allVars PROVE Shape'
  <1>1. saved' \in Snapshots
    BY FileStays DEF Shape
  <1>2. ASSUME NEW n \in 1..7, Reads(Order[n]), quiet' \in BOOLEAN PROVE Shape'
    <2>1. line' \in 1..8 /\ ~over /\ over' = over
      BY <1>2, ReadsAt DEF Shape
    <2>2. over' \in BOOLEAN /\ ~over'
      BY <2>1, Zenon DEF Shape
    <2>3. QED BY <1>1, <1>2, <2>1, <2>2 DEF Shape
  <1>3. CASE NoSuchLine
    BY <1>1, <1>3, Lines DEF NoSuchLine, Shape
  <1>4. CASE EndOfFile
    BY <1>1, <1>4, Lines DEF EndOfFile, Shape, vars, taskVars
  <1>5. CASE StoreSteps
    <2>1. pc[Boot] # "idle" /\ UNCHANGED <<line, over>>
      BY <1>5
         DEF StoreSteps, Works, Errs, CheckCoupling, ReadOther, WriteOther, WriteOwn, WriteMode,
             KeepCopy, FullspeedAllowed, WriteFullspeed, ReadOtherFails, WriteOtherFails,
             WriteOwnFails, WriteModeFails, FullspeedRefused, WriteFullspeedFails
    <2>2. quiet' \in BOOLEAN
      BY <1>5, Zenon DEF StoreSteps, Shape
    <2>3. QED BY <1>1, <2>1, <2>2 DEF Shape
  <1>6. CASE ReplayPowermode \/ ReplayFullspeed \/ ReplayCoupling \/ ReplayCouplingFails
    <2>1. quiet' \in BOOLEAN
      BY <1>6, Zenon
         DEF ReplayPowermode, ReplayFullspeed, ReplayCoupling, ReplayCouplingFails, Shape
    <2>2. \E n \in 1..7 : Reads(Order[n])
      BY <1>6, Lines DEF ReplayPowermode, ReplayFullspeed, ReplayCoupling, ReplayCouplingFails
    <2>3. QED BY <1>2, <2>1, <2>2
  <1>7. CASE CurveInCustom \/ CurveSetsCustom \/ CurveClearsFullspeed
    <2>1. quiet' \in BOOLEAN
      BY <1>7, Zenon DEF CurveInCustom, CurveSetsCustom, CurveClearsFullspeed, Shape
    <2>2. Reads(Order[6]) \/ Reads(Order[7])
      BY <1>7, Lines DEF CurveInCustom, CurveSetsCustom, CurveClearsFullspeed
    <2>3. QED BY <1>2, <2>1, <2>2
  <1>8. ASSUME NEW key \in DOMAIN LimitOf, ReplayLimit(key) PROVE Shape'
    <2>1. \E n \in 1..7 : Reads(Order[n])
      BY <1>8, Lines DEF ReplayLimit, LimitOf
    <2>2. QED BY <1>2, <1>8, <2>1 DEF ReplayLimit, Shape
  <1>9. CASE CurveNoHwmon
    <2>1. line \in 1..7 /\ Order[line] = "CURVE_PWM"
      BY <1>9, Lines DEF CurveNoHwmon, Shape
    <2>2. line = 1 \/ line = 2 \/ line = 3 \/ line = 4 \/ line = 5 \/ line = 6 \/ line = 7
      BY <2>1
    <2>3. line = 6
      BY <2>1, <2>2, Lines
    <2>4. line' = 8 /\ ~over' /\ over' \in BOOLEAN /\ quiet' \in BOOLEAN
      <3>1. line' = line + 2
        BY <1>9 DEF CurveNoHwmon
      <3>2. ~over' /\ over' \in BOOLEAN /\ quiet' \in BOOLEAN
        BY <1>9, Zenon DEF CurveNoHwmon, Shape
      <3>3. QED BY <2>3, <3>1, <3>2
    <2>5. QED BY <1>1, <2>4 DEF Shape
  <1>10. CASE Others
    <2>1. pc'[Boot] = pc[Boot] /\ UNCHANGED <<line, over>>
      BY <1>10, ElseStays DEF Others
    <2>2. quiet' \in BOOLEAN
      BY <1>10, Zenon DEF Others, Shape
    <2>3. QED BY <1>1, <2>1, <2>2 DEF Shape
  <1>11. CASE UNCHANGED allVars
    BY <1>11 DEF allVars, vars, taskVars, Shape
  <1>12. QED
    BY <1>3, <1>4, <1>5, <1>6, <1>7, <1>8, <1>9, <1>10, <1>11 DEF BootNext, Script

LEMMA InitShape == ASSUME BootInit PROVE Shape
  <1>1. over \in BOOLEAN /\ ~over /\ quiet \in BOOLEAN /\ saved \in Snapshots
    BY Zenon DEF BootInit
  <1>2. line \in 1..8
    BY DEF BootInit
  <1>3. QED BY <1>1, <1>2 DEF Shape

\* BootSpec => []TypeOK: the nodes and the locals of every task keep their types
\* when one of the tasks is the script.
THEOREM ReplayTypeCorrect == BootSpec => []TypeOK
  <1>1. BootInit => TypeOK /\ Shape
    BY InitType, InitShape DEF BootInit
  <1>2. TypeOK /\ Shape /\ [BootNext]_allVars => TypeOK' /\ Shape'
    BY ShapeStep, ReplayIsAny, TypeStep DEF Shape
  <1>3. QED BY <1>1, <1>2, PTL DEF BootSpec

\* BootSpec => []CoupledInOrder: a replay keeps PL1 at or below PL2 like any other
\* coupled stores, whatever limits the snapshot names and wherever it is torn.
THEOREM ReplayKeepsOrder == BootSpec => []CoupledInOrder
  <1>1. BootInit => TypeOK /\ Shape /\ OrderInv
    BY InitType, InitOrder, InitShape DEF BootInit
  <1>2. TypeOK /\ Shape /\ OrderInv /\ [BootNext]_allVars => TypeOK' /\ Shape' /\ OrderInv'
    BY ShapeStep, ReplayIsAny, TypeStep, OrderStep DEF Shape
  <1>3. OrderInv => CoupledInOrder
    BY DEF OrderInv
  <1>4. QED BY <1>1, <1>2, <1>3, PTL DEF BootSpec

\* BootSpec => []LimitsAdvertised, of nested ranges: a snapshot may be from another
\* machine or edited by hand, the clamp of the driver brings its limits back.
THEOREM ReplayStaysAdvertised == ASSUME Nested PROVE BootSpec => []LimitsAdvertised
  <1>1. BootInit => TypeOK /\ Shape /\ RangeInv
    BY InitType, InitRange, InitShape DEF BootInit
  <1>2. TypeOK /\ Shape /\ RangeInv /\ [BootNext]_allVars => TypeOK' /\ Shape' /\ RangeInv'
    BY ShapeStep, ReplayIsAny, TypeStep, RangeStep, Nested DEF Shape
  <1>3. QED BY <1>1, <1>2, RangeSuffices, PTL DEF BootSpec

\* BootSpec => FullspeedGuarded: the line FAN_FULLSPEED turns full speed on in custom
\* mode only, whatever mode the line before it or another task has set.
THEOREM ReplayIsGuarded == BootSpec => FullspeedGuarded
  <1>1. BootInit => TypeOK /\ Shape /\ GuardInv
    BY InitType, InitGuard, InitShape DEF BootInit
  <1>2. TypeOK /\ Shape /\ GuardInv /\ [BootNext]_allVars => TypeOK' /\ Shape' /\ GuardInv'
    BY ShapeStep, ReplayIsAny, TypeStep, GuardStep DEF Shape
  <1>3. TypeOK /\ Shape /\ GuardInv /\ [BootNext]_allVars
        => [~fullspeed /\ fullspeed' => (mode = Custom \/ overtaken)]_vars
    BY ReplayIsAny, TurnedOn DEF Shape
  <1>4. QED BY <1>1, <1>2, <1>3, PTL DEF BootSpec, FullspeedGuarded

\* BootSpec => SuccessIsEffect: a line of boot.conf, or another task's store beside
\* the replay, that reports success undisturbed had the effect it reports.
THEOREM ReplaySucceeds == BootSpec => SuccessIsEffect
  <1>1. BootInit => TypeOK /\ Shape /\ OrderInv /\ EffectInv
    BY InitType, InitOrder, InitEffect, InitShape DEF BootInit
  <1>2. /\ TypeOK /\ Shape /\ OrderInv /\ EffectInv /\ [BootNext]_allVars
        => TypeOK' /\ Shape' /\ OrderInv' /\ EffectInv'
    BY ShapeStep, ReplayIsAny, TypeStep, OrderStep, EffectStep DEF Shape
  <1>3. OrderInv => CoupledInOrder
    BY DEF OrderInv
  <1>4. TypeOK /\ EffectInv /\ CoupledInOrder' => \A t \in Tasks : alone[t] => Effect(t)
    BY EffectSeen
  <1>5. QED BY <1>1, <1>2, <1>3, <1>4, PTL DEF BootSpec, SuccessIsEffect, Effect

\* BootSpec => Init /\ [][AnyNext]_vars: the boot script composed with the driver is
\* a behaviour of the driver with one task more, whose limits may be any numbers.
\* So whatever holds of the driver for any tasks holds beside the replay.
THEOREM ReplayIsATask == BootSpec => Init /\ [][AnyNext]_vars
  <1>1. BootInit => Init /\ TypeOK /\ Shape
    BY InitType, InitShape DEF BootInit
  <1>2. TypeOK /\ Shape /\ [BootNext]_allVars => [AnyNext]_vars /\ TypeOK' /\ Shape'
    BY ShapeStep, ReplayIsAny, TypeStep DEF Shape
  <1>3. QED BY <1>1, <1>2, PTL DEF BootSpec

-----------------------------------------------------------------------------
(* An undisturbed replay restores what the lines say *)

\* A step that returns no store, and leaves what the stores set.
LEMMA RestoredKept ==
  ASSUME Restored, UNCHANGED <<Nodes, saved>>, line \in 1..8, line' \in 1..8, line <= line',
         \A m \in 1..7 : Done(m)' => Done(m),
         5 < line' /\ Has(5) => 5 < line
  PROVE  Restored'
  <1>1. \A m : Has(m)' <=> Has(m)
    BY DEF Has
  <1>2. UNCHANGED <<mode, limits, fullspeed, cached, coupling>>
    BY DEF Nodes
  <1>3. Stays' => Stays
    BY <1>1 DEF Stays
  <1>4. Legal' <=> Legal
    BY <1>1 DEF Legal, Holds
  <1>5. ~(line' > 6 /\ Has(6)) => ~(line > 6 /\ Has(6))
    OBVIOUS
  <1>6. /\ Done(1)' => Done(1)
        /\ Done(2)' => Done(2)
        /\ Done(3)' => Done(3)
        /\ Done(4)' => Done(4)
        /\ Done(6)' => Done(6)
        /\ Done(7)' => Done(7)
    OBVIOUS
  <1>7. QED BY <1>1, <1>2, <1>3, <1>4, <1>5, <1>6 DEF Restored

\* A step that leaves the store of the script where it is.
LEMMA UnderwayKept ==
  ASSUME Underway, UNCHANGED <<saved, mode>>,
         UNCHANGED <<pc[Boot], kind[Boot], arg[Boot]>>,
         \A m \in 1..7 : LastRead(m)' <=> LastRead(m)
  PROVE  Underway'
  <1>1. \A m : Has(m)' <=> Has(m)
    BY DEF Has
  <1>2. Legal' <=> Legal
    BY <1>1 DEF Legal, Holds
  <1>3. /\ LastRead(1)' <=> LastRead(1)
        /\ LastRead(2)' <=> LastRead(2)
        /\ LastRead(3)' <=> LastRead(3)
        /\ LastRead(4)' <=> LastRead(4)
        /\ LastRead(6)' <=> LastRead(6)
        /\ LastRead(7)' <=> LastRead(7)
    OBVIOUS
  <1>4. QED BY <1>1, <1>2, <1>3 DEF Underway

LEMMA IdleUnderway == ASSUME pc'[Boot] = "idle" PROVE Underway'
  BY DEF Underway

\* Before the line of the curve is read the mode of the snapshot is to stay.
LEMMA StaysEarly ==
  ASSUME line \in 1..8, line <= 6 \/ \E n \in 1..5 : LastRead(n) PROVE Stays
  BY DEF Stays, LastRead

\* A store that a line begins; only the line of the coupling begins none.
LEMMA BeginStep ==
  ASSUME TypeOK, Shape, Underway, Restored, NEW n \in 1..7, n # 5, Reads(Order[n]),
         NEW k \in Kinds, NEW v, NEW label \in {"coupling", "mode", "allowed"}, NEW b,
         Start(Boot, k, v, label, b)
  PROVE  /\ line = n /\ LastRead(n)' /\ Restored' /\ Has(n)
         /\ pc'[Boot] = label /\ kind'[Boot] = k /\ arg'[Boot] = v /\ UNCHANGED <<Nodes, saved>>
  <1>1. line = n /\ line' = n + 1 /\ Has(n) /\ saved' = saved /\ pc[Boot] = "idle"
    BY ReadsAt DEF Shape
  <1>2. /\ pc'[Boot] = label /\ kind'[Boot] = k /\ arg'[Boot] = v
        /\ UNCHANGED <<mode, limits, fullspeed, cached, coupling>>
    BY BootAssumption DEF Start, Goto, TypeOK
  <1>3. LastRead(n)' /\ \A m \in 1..7 : Done(m)' => Done(m)
    BY <1>1, <1>2, ReadStep DEF Shape
  <1>4. Restored'
    BY <1>1, <1>2, <1>3, RestoredKept DEF Nodes
  <1>5. QED BY <1>1, <1>2, <1>3, <1>4 DEF Nodes

LEMMA ForBegin ==
  /\ 1 \in 1..7 /\ 2 \in 1..7 /\ 6 \in 1..7 /\ 7 \in 1..7
  /\ 1 # 5 /\ 2 # 5 /\ 6 # 5 /\ 7 # 5
  /\ "mode" \in Kinds /\ "fullspeed" \in Kinds
  /\ "mode" \in {"coupling", "mode", "allowed"} /\ "allowed" \in {"coupling", "mode", "allowed"}
  BY DEF Kinds

\* Reading the lines.
LEMMA ModeLine ==
  ASSUME TypeOK, Shape, Underway, Restored, ReplayPowermode PROVE Underway' /\ Restored'
  <1>1. Reads(Order[1]) /\ Start(Boot, "mode", saved["POWERMODE"], "mode", TRUE)
    BY Lines DEF ReplayPowermode, StartMode
  <1>2. /\ LastRead(1)' /\ Restored'
        /\ pc'[Boot] = "mode" /\ arg'[Boot] = saved["POWERMODE"] /\ UNCHANGED <<Nodes, saved>>
    BY <1>1, ForBegin, BeginStep, Zenon
  <1>3. QED BY <1>2 DEF Underway

LEMMA FullspeedLine ==
  ASSUME TypeOK, Shape, Underway, Restored, ReplayFullspeed \/ CurveClearsFullspeed
  PROVE  Underway' /\ Restored'
  <1>1. CASE ReplayFullspeed
    <2>1. Reads(Order[2]) /\ Start(Boot, "fullspeed", saved["FAN_FULLSPEED"], "allowed", TRUE)
      BY <1>1, Lines DEF ReplayFullspeed, StartFullspeed
    <2>2. /\ LastRead(2)' /\ Restored'
          /\ pc'[Boot] = "allowed" /\ arg'[Boot] = saved["FAN_FULLSPEED"] /\ UNCHANGED <<Nodes, saved>>
      BY <2>1, ForBegin, BeginStep, Zenon
    <2>3. QED BY <2>2 DEF Underway
  <1>2. CASE CurveClearsFullspeed
    <2>1. Reads(Order[7]) /\ Start(Boot, "fullspeed", FALSE, "allowed", TRUE)
      BY <1>2, Lines DEF CurveClearsFullspeed, StartFullspeed
    <2>2. /\ LastRead(7)' /\ Restored'
          /\ pc'[Boot] = "allowed" /\ arg'[Boot] = FALSE /\ UNCHANGED <<Nodes, saved>>
      BY <2>1, ForBegin, BeginStep, Zenon
    <2>3. QED BY <2>2 DEF Underway
  <1>3. QED BY <1>1, <1>2

\* The limit of a legal snapshot passes the clamp: the mode was restored before it.
LEMMA LimitLine ==
  ASSUME TypeOK, Shape, Underway, Restored, NEW key \in DOMAIN LimitOf, ReplayLimit(key)
  PROVE  Underway' /\ Restored'
  <1> DEFINE v == ClampedValue(LimitOf[key], saved[key])
  <1>1. PICK n \in {3, 4} : \/ n = 3 /\ key = "FW_PL1"
                            \/ n = 4 /\ key = "FW_PL2"
    BY DEF LimitOf
  <1>2. /\ Order[n] = key
        /\ \/ n = 3 /\ key = "FW_PL1" /\ LimitOf[key] = "pl1"
           \/ n = 4 /\ key = "FW_PL2" /\ LimitOf[key] = "pl2"
    BY <1>1, Lines DEF LimitOf
  <1>3. Reads(Order[n]) /\ Start(Boot, LimitOf[key], v, "coupling", cached = mode)
    BY <1>2 DEF ReplayLimit, StartLimit
  <1>4. /\ line = n /\ LastRead(n)' /\ Restored' /\ Has(n)
        /\ pc'[Boot] = "coupling" /\ kind'[Boot] = LimitOf[key] /\ arg'[Boot] = v
        /\ UNCHANGED <<Nodes, saved>>
    <2>1. n \in 1..7 /\ n # 5 /\ LimitOf[key] \in Kinds
      BY <1>2 DEF Kinds, Limits
    <2>2. HIDE DEF v
    <2>3. QED BY <1>3, <2>1, BeginStep
  <1>5. Legal => v = saved[key]
    <2> SUFFICES ASSUME Legal PROVE v = saved[key]
      OBVIOUS
    <2>1. Holds(saved["POWERMODE"], key)
      BY <1>2, <1>4 DEF Legal
    <2>2. pc[Boot] = "idle"
      BY <1>3 DEF Start
    <2>3. Done(1) /\ Stays
      BY <1>2, <1>4, <2>2 DEF Legal, Done, Stays
    <2>4. cached = saved["POWERMODE"] /\ cached \in Modes
      BY <2>3, Said, HasIs DEF Restored, Legal, Shape
    <2>5. QED BY <2>1, <2>4 DEF ClampedValue, Holds
  <1>6. Legal' <=> Legal
    BY <1>4 DEF Legal, Has, Holds
  <1> HIDE DEF v
  <1>7. QED BY <1>2, <1>4, <1>5, <1>6 DEF Underway

\* The curve asks for custom mode only if the mode is another one, and so does
\* not keep that of the snapshot.
LEMMA CurveLine ==
  ASSUME TypeOK, Shape, Underway, Restored, CurveSetsCustom, mode # Custom
  PROVE  Underway' /\ Restored'
  <1>1. Reads(Order[6]) /\ Start(Boot, "mode", Custom, "mode", TRUE)
    BY Lines DEF CurveSetsCustom, StartMode
  <1>2. /\ line = 6 /\ LastRead(6)' /\ Restored'
        /\ pc'[Boot] = "mode" /\ arg'[Boot] = Custom /\ UNCHANGED <<Nodes, saved>>
    BY <1>1, ForBegin, BeginStep, Zenon
  <1>3. Has(1) => saved["POWERMODE"] # Custom
    <2>1. Has(1) => Done(1)
      BY <1>1, <1>2 DEF Start, Done
    <2>2. Stays
      BY <1>2 DEF Stays
    <2>3. QED BY <2>1, <2>2 DEF Restored
  <1>4. Has(1)' <=> Has(1)
    BY <1>2 DEF Has
  <1>5. QED BY <1>2, <1>3, <1>4 DEF Underway

\* The lines that call no store of a task.
LEMMA PlainLine ==
  ASSUME TypeOK, Shape, Underway, Restored, CurveInCustom \/ ReplayCoupling
  PROVE  Underway' /\ Restored'
  <1>1. PICK n \in {5, 6} : /\ Reads(Order[n])
                            /\ n = 5 => coupling' = saved["PL_COUPLING"]
                            /\ n = 6 => mode = Custom /\ coupling' = coupling
    <2>1. CurveInCustom => Reads(Order[6]) /\ mode = Custom /\ coupling' = coupling
      BY Lines DEF CurveInCustom, vars
    <2>2. ReplayCoupling => Reads(Order[5]) /\ coupling' = saved["PL_COUPLING"]
      BY Lines DEF ReplayCoupling, CouplingStore
    <2>3. QED BY <2>1, <2>2
  <1>2. UNCHANGED <<mode, limits, fullspeed, cached, pc>>
    BY DEF CurveInCustom, ReplayCoupling, CouplingStore, vars, taskVars
  <1>3. line = n /\ line' = n + 1 /\ Has(n) /\ saved' = saved /\ pc[Boot] = "idle"
    BY <1>1, ReadsAt DEF Shape
  <1>4. \A m \in 1..7 : m # n => (Done(m)' <=> Done(m))
    BY <1>3, ReadStep DEF Shape
  <1>5. \A m : Has(m)' <=> Has(m)
    BY <1>3 DEF Has
  <1>6. Stays' => Stays
    BY <1>3, <1>5 DEF Stays
  <1>7. Legal' <=> Legal
    BY <1>3, <1>5 DEF Legal, Holds
  <1>8. /\ Done(1)' => Done(1)
        /\ Done(2)' => Done(2)
        /\ Done(3)' => Done(3)
        /\ Done(4)' => Done(4)
        /\ n # 6 => (Done(6)' => Done(6))
        /\ Done(7)' => Done(7)
    BY <1>4
  <1>9. Restored'
    BY <1>1, <1>2, <1>3, <1>5, <1>6, <1>7, <1>8 DEF Restored
  <1>10. QED BY <1>2, <1>3, <1>9, IdleUnderway

\* The steps within a store.
LEMMA LookStep ==
  ASSUME TypeOK, Shape, Underway, Restored, UNCHANGED <<saved, line>>,
         CheckCoupling(Boot) \/ ReadOther(Boot) \/ FullspeedAllowed(Boot)
  PROVE  Underway' /\ Restored'
  <1>1. /\ UNCHANGED <<mode, limits, fullspeed, cached, coupling, kind, arg>>
        /\ pc[Boot] # "idle" /\ pc'[Boot] # "idle"
    BY BootAssumption DEF CheckCoupling, ReadOther, FullspeedAllowed, Goto, TypeOK
  <1>2. \A m \in 1..7 : (LastRead(m)' <=> LastRead(m)) /\ (Done(m)' <=> Done(m))
    BY <1>1, QuietStep DEF Shape
  <1>3. Restored'
    BY <1>1, <1>2, RestoredKept DEF Nodes, Shape
  <1>4. Legal' <=> Legal
    BY DEF Legal, Has, Holds
  <1>5. CASE FullspeedAllowed(Boot)
    <2>1. pc[Boot] = "allowed" /\ pc'[Boot] = "fullspeed"
      BY <1>5, BootAssumption DEF FullspeedAllowed, Goto, TypeOK
    <2>2. QED BY <1>1, <1>2, <1>3, <2>1 DEF Underway
  <1>6. CASE CheckCoupling(Boot)
    <2>1. pc[Boot] = "coupling" /\ pc'[Boot] \in {"other", "own"}
      BY <1>6, BootAssumption DEF CheckCoupling, Goto, TypeOK
    <2>2. QED BY <1>1, <1>2, <1>3, <1>4, <2>1 DEF Underway
  <1>7. CASE ReadOther(Boot)
    <2>1. pc[Boot] = "other" /\ pc'[Boot] = IF Crosses(Boot) THEN "pull" ELSE "own"
      BY <1>7, BootAssumption DEF ReadOther, Goto, TypeOK
    <2>2. ASSUME LastRead(4), Legal, Has(3) PROVE ~Crosses(Boot)
      <3>1. ~LastRead(3) /\ 3 < line
        BY <2>2, LastIsLast DEF Shape
      <3>2. Done(3) /\ Stays
        BY <2>2, <3>1, StaysEarly DEF Done, Shape
      <3>3. limits["pl1"] = saved["FW_PL1"] /\ saved["FW_PL1"] <= saved["FW_PL2"]
        <4>1. Has(4)
          BY <2>2 DEF LastRead
        <4>2. QED BY <2>2, <3>2, <4>1 DEF Restored, Legal
      <3>4. kind[Boot] = "pl2" /\ arg[Boot] = saved["FW_PL2"]
        BY <2>1, <2>2, <3>1 DEF Underway
      <3>5. limits["pl1"] \in Int /\ arg[Boot] \in Int
        BY <3>4, BootAssumption DEF TypeOK, Limits
      <3>6. QED BY <3>3, <3>4, <3>5 DEF Crosses
    <2>3. Has(3)' <=> Has(3)
      BY DEF Has
    <2>4. QED BY <1>1, <1>2, <1>3, <1>4, <2>1, <2>2, <2>3 DEF Underway
  <1>8. QED BY <1>5, <1>6, <1>7

\* Pulling the other limit along spoils none that was restored: a store of PL2
\* pulls nothing when PL1 is restored.
LEMMA PullStep ==
  ASSUME TypeOK, Shape, Underway, Restored, UNCHANGED <<saved, line>>, WriteOther(Boot)
  PROVE  Underway' /\ Restored'
  <1>1. /\ UNCHANGED <<mode, fullspeed, cached, coupling, kind, arg>>
        /\ pc[Boot] = "pull" /\ pc'[Boot] = "own"
    BY BootAssumption DEF WriteOther, Goto, TypeOK
  <1>2. \A m \in 1..7 : (LastRead(m)' <=> LastRead(m)) /\ (Done(m)' <=> Done(m))
    BY <1>1, QuietStep DEF Shape
  <1>3. (Legal' <=> Legal) /\ (Stays' <=> Stays)
    BY DEF Legal, Has, Holds, Stays
  <1>4. \A m : Has(m)' <=> Has(m)
    BY DEF Has
  <1>5. Underway'
    BY <1>1, <1>2, <1>3, <1>4 DEF Underway
  <1>6. Legal => ~Done(3) /\ ~Done(4)
    <2> SUFFICES ASSUME Legal PROVE ~Done(3) /\ ~Done(4)
      OBVIOUS
    <2>1. CASE LastRead(3)
      BY <1>1, <2>1, LastIsLast DEF Shape
    <2>2. CASE LastRead(4)
      <3>1. ~Done(4)
        BY <1>1, <2>2, LastIsLast DEF Shape
      <3>2. ~Has(3)
        BY <1>1, <2>2 DEF Underway
      <3>3. QED BY <3>1, <3>2 DEF Done
    <2>3. QED BY <1>1, <2>1, <2>2 DEF Underway
  <1>7. Restored'
    BY <1>1, <1>2, <1>3, <1>4, <1>6 DEF Restored
  <1>8. QED BY <1>5, <1>7

LEMMA LimitReturns ==
  ASSUME TypeOK, Shape, Underway, Restored, UNCHANGED <<saved, line>>, WriteOwn(Boot)
  PROVE  Restored' /\ pc'[Boot] = "idle"
  <1>1. /\ UNCHANGED <<mode, fullspeed, cached, coupling>>
        /\ pc[Boot] = "own" /\ pc'[Boot] = "idle"
        /\ limits' = [limits EXCEPT ![kind[Boot]] = arg[Boot]] /\ limits \in [Limits -> Int]
    BY BootAssumption DEF WriteOwn, Succeed, Return, Goto, TypeOK
  <1>2. \A m \in 1..7 : Done(m)' <=> Done(m) \/ LastRead(m)
    BY <1>1, ReturnStep
  <1>3. (Legal' <=> Legal) /\ (Stays' <=> Stays) /\ \A m : Has(m)' <=> Has(m)
    BY DEF Legal, Has, Holds, Stays
  <1>4. PICK n \in {3, 4} :
          /\ LastRead(n)
          /\ n = 3 => kind[Boot] = "pl1" /\ (Legal => arg[Boot] = saved["FW_PL1"])
          /\ n = 4 => kind[Boot] = "pl2" /\ (Legal => arg[Boot] = saved["FW_PL2"])
    BY <1>1 DEF Underway
  <1>5. \A m \in 1..7 : Done(m)' <=> Done(m) \/ m = n
    BY <1>2, <1>4, LastIsLast DEF Shape
  <1>6. \A m \in 1..7 : n < m => ~Done(m)
    BY <1>4, LastIsLast DEF Shape
  <1>7. Legal /\ Stays => /\ Done(3)' => limits'["pl1"] = saved["FW_PL1"]
                          /\ Done(4)' => limits'["pl2"] = saved["FW_PL2"]
    <2>1. CASE n = 3
      <3>1. ~Done(4)'
        BY <1>5, <1>6, <2>1
      <3>2. Legal => limits'["pl1"] = saved["FW_PL1"]
        BY <1>1, <1>4, <2>1 DEF Limits
      <3>3. QED BY <3>1, <3>2
    <2>2. CASE n = 4
      <3>1. Done(3)' <=> Done(3)
        BY <1>5, <2>2
      <3>2. limits'["pl1"] = limits["pl1"] /\ (Legal => limits'["pl2"] = saved["FW_PL2"])
        BY <1>1, <1>4, <2>2 DEF Limits
      <3>3. QED BY <3>1, <3>2 DEF Restored
    <2>3. QED BY <2>1, <2>2
  <1>8. /\ Done(1)' <=> Done(1)
        /\ Done(2)' <=> Done(2)
        /\ Done(6)' <=> Done(6)
        /\ Done(7)' <=> Done(7)
    BY <1>5
  <1>9. QED BY <1>1, <1>3, <1>7, <1>8 DEF Restored

\* The mode of the snapshot comes before everything it could spoil; that of the
\* curve comes when nothing of the mode's is to stay.
LEMMA ModeStep ==
  ASSUME TypeOK, Shape, Underway, Restored, UNCHANGED <<saved, line>>, WriteMode(Boot)
  PROVE  Underway' /\ Restored'
  <1>1. /\ UNCHANGED <<cached, coupling, kind, arg>> /\ mode' = arg[Boot]
        /\ pc[Boot] = "mode" /\ pc'[Boot] = "cache"
    BY BootAssumption DEF WriteMode, EnterMode, Goto, TypeOK
  <1>2. \A m \in 1..7 : (LastRead(m)' <=> LastRead(m)) /\ (Done(m)' <=> Done(m))
    BY <1>1, QuietStep DEF Shape
  <1>3. (Legal' <=> Legal) /\ (Stays' <=> Stays) /\ \A m : Has(m)' <=> Has(m)
    BY DEF Legal, Has, Holds, Stays
  <1>4. Underway'
    BY <1>1, <1>2, <1>3 DEF Underway
  <1>5. /\ Done(1)' <=> Done(1)
        /\ Done(2)' <=> Done(2)
        /\ Done(3)' <=> Done(3)
        /\ Done(4)' <=> Done(4)
        /\ Done(6)' <=> Done(6)
        /\ Done(7)' <=> Done(7)
    BY <1>2
  <1>6. CASE LastRead(1)
    <2>1. \A m \in 1..7 : ~Done(m)
      BY <1>1, <1>6, LastIsLast DEF Shape
    <2>2. ~(5 < line /\ Has(5))
      BY <1>6, LastIsLast DEF Shape
    <2>3. QED BY <1>3, <1>4, <1>5, <2>1, <2>2 DEF Restored
  <1>7. CASE LastRead(6) /\ (Has(1) => saved["POWERMODE"] # Custom)
    <2>1. 6 < line /\ Has(6) /\ ~Done(6) /\ ~Done(7)
      BY <1>1, <1>7, LastIsLast DEF Shape
    <2>2. Has(1) => ~Stays
      BY <1>7, <2>1 DEF Stays
    <2>3. (Done(1) => ~Stays) /\ (Legal => ~Stays)
      BY <2>2 DEF Done, Legal
    <2>4. QED BY <1>1, <1>3, <1>4, <1>5, <2>1, <2>3 DEF Restored
  <1>8. QED BY <1>1, <1>6, <1>7 DEF Underway

LEMMA ModeReturns ==
  ASSUME TypeOK, Shape, Underway, Restored, UNCHANGED <<saved, line>>, KeepCopy(Boot)
  PROVE  Restored' /\ pc'[Boot] = "idle"
  <1>1. /\ UNCHANGED <<mode, limits, fullspeed, coupling>> /\ cached' = arg[Boot]
        /\ pc[Boot] = "cache" /\ pc'[Boot] = "idle"
    BY BootAssumption DEF KeepCopy, Succeed, Return, Goto, TypeOK
  <1>2. \A m \in 1..7 : Done(m)' <=> Done(m) \/ LastRead(m)
    BY <1>1, ReturnStep
  <1>3. (Legal' <=> Legal) /\ (Stays' <=> Stays) /\ \A m : Has(m)' <=> Has(m)
    BY DEF Legal, Has, Holds, Stays
  <1>4. mode = arg[Boot]
    BY <1>1 DEF Underway
  <1>5. CASE LastRead(1) /\ arg[Boot] = saved["POWERMODE"]
    <2>1. \A m \in 1..7 : Done(m)' => m = 1
      BY <1>2, <1>5, LastIsLast DEF Shape
    <2>2. ~Done(2)' /\ ~Done(3)' /\ ~Done(4)' /\ ~Done(6)' /\ ~Done(7)'
      BY <2>1
    <2>3. QED BY <1>1, <1>3, <1>4, <1>5, <2>2 DEF Restored
  <1>6. CASE LastRead(6) /\ arg[Boot] = Custom /\ (Has(1) => saved["POWERMODE"] # Custom)
    <2>1. 6 < line /\ Has(6)
      BY <1>6, LastIsLast DEF Shape
    <2>2. (Done(1)' => ~Stays) /\ (Legal => ~Stays)
      BY <1>3, <1>6, <2>1 DEF Done, Legal, Stays
    <2>3. ~Done(7)'
      BY <1>2, <1>6, LastIsLast DEF Shape
    <2>4. QED BY <1>1, <1>3, <1>4, <1>6, <2>1, <2>2, <2>3 DEF Restored
  <1>7. QED BY <1>1, <1>5, <1>6 DEF Underway

LEMMA FullspeedReturns ==
  ASSUME TypeOK, Shape, Underway, Restored, UNCHANGED <<saved, line>>, WriteFullspeed(Boot)
  PROVE  Restored' /\ pc'[Boot] = "idle"
  <1>1. /\ UNCHANGED <<mode, limits, cached, coupling>>
        /\ pc[Boot] = "fullspeed" /\ pc'[Boot] = "idle"
    BY BootAssumption DEF WriteFullspeed, Succeed, Return, Goto, TypeOK
  <1>2. fullspeed' = arg[Boot]
    BY Zenon DEF WriteFullspeed
  <1>3. \A m \in 1..7 : Done(m)' <=> Done(m) \/ LastRead(m)
    BY <1>1, ReturnStep
  <1>4. (Legal' <=> Legal) /\ (Stays' <=> Stays) /\ \A m : Has(m)' <=> Has(m)
    BY DEF Legal, Has, Holds, Stays
  <1>5. PICK n \in {2, 7} : /\ LastRead(n)
                            /\ n = 2 => arg[Boot] = saved["FAN_FULLSPEED"]
                            /\ n = 7 => arg[Boot] = FALSE
    BY <1>1 DEF Underway
  <1>6. \A m \in 1..7 : (Done(m)' <=> Done(m) \/ m = n) /\ (n < m => ~Done(m))
    BY <1>3, <1>5, LastIsLast DEF Shape
  <1>7. /\ Done(1)' => Done(1)
        /\ Done(3)' => Done(3)
        /\ Done(4)' => Done(4)
        /\ Done(6)' => Done(6)
    BY <1>6
  <1>8. CASE n = 2
    <2>1. ~Done(7)'
      BY <1>6, <1>8
    <2>2. fullspeed' = saved["FAN_FULLSPEED"]
      BY <1>2, <1>5, <1>8, Zenon
    <2>3. QED BY <1>1, <1>4, <1>7, <2>1, <2>2 DEF Restored
  <1>9. CASE n = 7
    <2>1. 6 < line /\ Has(6)
      BY <1>5, <1>9, LastIsLast, HasIs DEF Shape
    <2>2. ~fullspeed'
      BY <1>2, <1>5, <1>9, Zenon
    <2>3. QED BY <1>1, <1>4, <1>7, <2>1, <2>2 DEF Restored
  <1>10. QED BY <1>8, <1>9

\* Steps that the script's store is not a part of.
LEMMA ElsewhereStep ==
  ASSUME TypeOK, Shape, Underway, Restored, UNCHANGED <<Nodes, saved>>,
         UNCHANGED <<pc[Boot], kind[Boot], arg[Boot]>>,
         line' = line \/ (line \in 1..7 /\ line' = line + 1 /\ ~Has(line))
  PROVE  Underway' /\ Restored'
  <1>1. \A m \in 1..7 : (LastRead(m)' <=> LastRead(m)) /\ (Done(m)' <=> Done(m))
    BY QuietStep DEF Shape
  <1>2. Underway'
    BY <1>1, UnderwayKept DEF Nodes
  <1>3. line \in 1..8 /\ line' \in 1..8 /\ line <= line' /\ (5 < line' /\ Has(5) => 5 < line)
    BY DEF Shape
  <1>4. Restored'
    BY <1>1, <1>3, RestoredKept
  <1>5. QED BY <1>2, <1>4

LEMMA ReplayStep ==
  ASSUME TypeOK, Shape, Underway, Restored, [BootNext]_allVars, quiet'
  PROVE  Underway' /\ Restored'
  <1>1. CASE NoSuchLine
    <2>1. /\ UNCHANGED <<Nodes, saved>> /\ UNCHANGED <<pc[Boot], kind[Boot], arg[Boot]>>
          /\ line' = line + 1
      BY <1>1 DEF NoSuchLine, vars, taskVars, Nodes
    <2>2. line \in 1..7 /\ ~Has(line)
      BY <1>1, Lines DEF NoSuchLine, Shape, Has
    <2>3. QED BY <2>1, <2>2, ElsewhereStep
  <1>2. CASE EndOfFile \/ UNCHANGED allVars
    BY <1>2, ElsewhereStep DEF EndOfFile, allVars, vars, taskVars, Nodes
  <1>3. CASE StoreSteps
    <2>1. Works(Boot) /\ UNCHANGED <<saved, line>>
      BY <1>3, Zenon DEF StoreSteps
    <2>2. QED
      BY <2>1, LookStep, PullStep, LimitReturns, ModeStep, ModeReturns, FullspeedReturns,
         IdleUnderway
         DEF Works
  <1>4. ~ReplayCouplingFails /\ ~CurveNoHwmon
    BY Zenon DEF ReplayCouplingFails, CurveNoHwmon
  <1>5. CASE CurveSetsCustom
    <2>1. mode # Custom
      BY <1>5, Zenon DEF CurveSetsCustom
    <2>2. QED BY <1>5, <2>1, CurveLine
  <1>6. CASE Others
    <2>1. Nodes' = Nodes /\ UNCHANGED <<saved, line>>
      BY <1>6, Zenon DEF Others
    <2>2. QED BY <1>6, <2>1, ElseStays, ElsewhereStep
  <1>7. QED
    BY <1>1, <1>2, <1>3, <1>4, <1>5, <1>6, ModeLine, FullspeedLine, LimitLine, PlainLine
       DEF BootNext, Script

\* What came of the lines, once the script is at the end.
LEMMA AtTheEnd ==
  ASSUME Shape, Restored, over PROVE ReplayRestores
  <1>1. line \in 1..8 /\ line # 7 /\ pc[Boot] = "idle"
    BY DEF Shape
  <1>2. \A n \in 1..7 : Done(n) <=> n < line /\ Has(n)
    BY <1>1 DEF Done
  <1>3. \A key : key \in Replayed <=> \E n \in 1..7 : n < line /\ Order[n] = key /\ key \in DOMAIN saved
    BY <1>1 DEF Replayed
  <1>4. /\ "POWERMODE" \in Replayed <=> 1 < line /\ Has(1)
        /\ "FAN_FULLSPEED" \in Replayed <=> 2 < line /\ Has(2)
        /\ "FW_PL1" \in Replayed <=> 3 < line /\ Has(3)
        /\ "FW_PL2" \in Replayed <=> 4 < line /\ Has(4)
        /\ "PL_COUPLING" \in Replayed <=> 5 < line /\ Has(5)
        /\ "CURVE_PWM" \in Replayed <=> 6 < line /\ Has(6)
    <2>1. \A n \in 1..7 : n = 1 \/ n = 2 \/ n = 3 \/ n = 4 \/ n = 5 \/ n = 6 \/ n = 7
      OBVIOUS
    <2>2. QED BY <1>3, <2>1, Lines, HasIs
  <1>5. ModeStays <=> Stays
    BY <1>1, <1>4 DEF ModeStays, Stays
  <1>6. LimitsLegal => Legal
    BY <1>4, HasIs DEF LimitsLegal, Legal
  <1>7. LimitsLegal /\ ModeStays =>
          \A key \in {"FW_PL1", "FW_PL2"} \cap Replayed : limits[LimitOf[key]] = saved[key]
    <2>1. LimitOf["FW_PL1"] = "pl1" /\ LimitOf["FW_PL2"] = "pl2"
      BY DEF LimitOf
    <2>2. QED BY <1>1, <1>2, <1>4, <1>5, <1>6, <2>1 DEF Restored
  <1>8. "CURVE_PWM" \in Replayed => Done(6) /\ Done(7)
    BY <1>1, <1>2, <1>4, HasIs
  <1>9. "FAN_FULLSPEED" \in Replayed /\ "CURVE_PWM" \notin Replayed => fullspeed = saved["FAN_FULLSPEED"]
    BY <1>1, <1>2, <1>4 DEF Restored
  <1>10. "PL_COUPLING" \in Replayed => coupling = saved["PL_COUPLING"]
    BY <1>1, <1>4 DEF Restored
  <1>11. "POWERMODE" \in Replayed /\ ModeStays => mode = saved["POWERMODE"]
    BY <1>1, <1>2, <1>4, <1>5 DEF Restored
  <1>12. "CURVE_PWM" \in Replayed => mode = Custom /\ ~fullspeed
    BY <1>8 DEF Restored
  <1>13. QED BY <1>7, <1>9, <1>10, <1>11, <1>12, Zenon DEF ReplayRestores

\* BootSpec => []ReplayRestores: a replay that nobody disturbs leaves what the lines
\* it got to say, in whatever state the driver came up, wherever the file is torn
\* and whichever lines are missing.
THEOREM ReplayIsFaithful == BootSpec => []ReplayRestores
  <1>1. BootInit => ReplayInv
    <2> SUFFICES ASSUME BootInit PROVE Underway /\ Restored
      BY InitShape DEF ReplayInv
    <2>1. pc[Boot] = "idle" /\ line = 1
      BY BootAssumption DEF BootInit, Init
    <2>2. QED BY <2>1 DEF Underway, Restored, Done
  <1>2. TypeOK /\ ReplayInv /\ [BootNext]_allVars => ReplayInv'
    <2> SUFFICES ASSUME TypeOK, ReplayInv, [BootNext]_allVars PROVE ReplayInv'
      OBVIOUS
    <2>1. Shape'
      BY ShapeStep DEF ReplayInv
    <2>2. quiet' => quiet
      BY Zenon
         DEF BootNext, Script, Others, allVars, NoSuchLine, EndOfFile, StoreSteps,
             ReplayPowermode, ReplayFullspeed, ReplayCoupling, ReplayCouplingFails, ReplayLimit,
             CurveInCustom, CurveSetsCustom, CurveNoHwmon, CurveClearsFullspeed
    <2>3. QED BY <2>1, <2>2, ReplayStep DEF ReplayInv
  <1>3. ReplayInv => ReplayRestores
    BY AtTheEnd, Zenon DEF ReplayInv, ReplayRestores
  <1>4. QED BY <1>1, <1>2, <1>3, ReplayTypeCorrect, PTL DEF BootSpec
=============================================================================
