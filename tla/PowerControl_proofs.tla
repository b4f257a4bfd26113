------------------------ MODULE PowerControl_proofs ------------------------
(***************************************************************************)
(* Proofs about PowerControl, for any number of tasks, any modes and any   *)
(* ranges of the limits.                                                   *)
(***************************************************************************)
EXTENDS PowerControl, TLAPS

-----------------------------------------------------------------------------
(* Type correctness *)

\* A clamped value is an integer of the range.
LEMMA ClampInRange ==
  ASSUME NEW cd \in Range01, NEW v \in Int, cd.min <= cd.max
  PROVE  CapdataClamp(cd, v) \in Int /\ cd.min <= CapdataClamp(cd, v) /\ CapdataClamp(cd, v) <= cd.max
  <1> DEFINE q == ((v - cd.min) + cd.step \div 2) \div cd.step
  <1>1. cd.min \in Int /\ cd.max \in Int /\ cd.step \in Nat \ {0}
    BY DEF Range01
  <1>2. q \in Int
    BY <1>1
  <1>3. cd.min + q * cd.step \in Int
    BY <1>1, <1>2
  <1> HIDE DEF q
  <1>4. CapdataClamp(cd, v) =
          IF v < cd.min \/ cd.min + q * cd.step < cd.min THEN cd.min
          ELSE IF cd.min + q * cd.step > cd.max THEN cd.max ELSE cd.min + q * cd.step
    BY DEF CapdataClamp, q
  <1>5. QED BY <1>1, <1>3, <1>4

LEMMA ClampedType ==
  ASSUME NEW k \in Limits, NEW v \in Int
  PROVE  /\ ClampedValue(k, v) \in Int
         /\ cached \in Modes => InRange(cached, k, ClampedValue(k, v))
  <1>1. CASE cached \in Modes
    <2>1. Cap[cached][k] \in Range01 /\ Cap[cached][k].min <= Cap[cached][k].max
      BY <1>1, CapAssumption
    <2>2. QED BY <1>1, <2>1, ClampInRange DEF ClampedValue, InRange
  <1>2. CASE cached \notin Modes
    BY <1>2 DEF ClampedValue
  <1>3. QED BY <1>1, <1>2

\* Beginning and leaving a store keep the locals of the task in type.
LEMMA StartType ==
  ASSUME TypeOK, NEW t \in Tasks, NEW k \in Kinds, NEW v, NEW label, NEW b \in BOOLEAN,
         Start(t, k, v, label, b),
         \/ k \in Limits /\ v \in Int /\ label = "coupling"
         \/ k = "mode" /\ v \in Modes /\ label = "mode"
         \/ k = "fullspeed" /\ v \in BOOLEAN /\ label = "allowed"
  PROVE  TypeOK'
  BY TaskAssumption DEF TypeOK, Start, Goto, Kinds, Limits

LEMMA ReturnType ==
  ASSUME TypeOK, NEW t \in Tasks, Return(t), lock' \in {lock, None}, pc[t] = "fullspeed" => lock' = None,
         lock' = lock \/ lock = t
  PROVE  /\ pc' \in [Tasks -> {"idle", "coupling", "other", "pull", "own", "mode", "cache",
                               "allowed", "fullspeed"}]
         /\ kind' \in [Tasks -> Kinds]
         /\ DOMAIN arg' = Tasks
         /\ \A s \in Tasks : /\ kind'[s] = "mode" => arg'[s] \in Modes
                             /\ kind'[s] = "fullspeed" => arg'[s] \in BOOLEAN
                             /\ kind'[s] \in Limits => arg'[s] \in Int
         /\ tied' \in [Tasks -> BOOLEAN]
         /\ \A s \in Tasks :
              /\ pc'[s] \in {"coupling", "other", "pull", "own"} => kind'[s] \in Limits
              /\ pc'[s] \in {"mode", "cache"} => kind'[s] = "mode"
              /\ pc'[s] \in {"allowed", "fullspeed"} => kind'[s] = "fullspeed"
         /\ \A s \in Tasks : pc'[s] = "fullspeed" <=> lock' = s
  BY TaskAssumption, ModeAssumption DEF TypeOK, Return, Goto, Kinds, Limits

LEMMA EnterModeType ==
  ASSUME TypeOK, NEW m \in Modes, NEW S, EnterMode(m, S)
  PROVE  /\ mode' \in Modes /\ limits' \in [Limits -> Int] /\ fullspeed' \in BOOLEAN
         /\ alone' \in [Tasks -> BOOLEAN] /\ settled' \in BOOLEAN
  <1>1. mode' \in Modes /\ limits' \in [Limits -> Int]
    BY DefaultAssumption DEF TypeOK, EnterMode
  <1>2. fullspeed' \in BOOLEAN /\ settled' \in BOOLEAN
    BY Zenon DEF TypeOK, EnterMode
  <1>3. alone' \in [Tasks -> BOOLEAN]
    BY DEF TypeOK, EnterMode
  <1>4. QED BY <1>1, <1>2, <1>3

\* A step of Next, or a store of a limit whose value is not in Watts.
AnyNext == Next \/ \E t \in Tasks, k \in Limits, v \in Int : StartLimit(t, k, v)

LEMMA NextIsAny == ASSUME [Next]_vars PROVE [AnyNext]_vars
  BY DEF AnyNext

\* Every step keeps the types, whatever the value written to a limit.
LEMMA TypeStep == ASSUME TypeOK, [AnyNext]_vars PROVE TypeOK'
  <1>1. ASSUME NEW t \in Tasks, NEW k \in Limits, NEW v \in Int, StartLimit(t, k, v)
        PROVE  TypeOK'
    <2>1. ClampedValue(k, v) \in Int /\ k \in Kinds /\ (cached = mode) \in BOOLEAN
      BY ClampedType DEF Kinds
    <2>2. QED BY <1>1, <2>1, StartType DEF StartLimit
  <1>2. ASSUME NEW t \in Tasks, NEW m \in Modes, StartMode(t, m) PROVE TypeOK'
    BY <1>2, StartType DEF StartMode, Kinds
  <1>3. ASSUME NEW t \in Tasks, NEW b \in BOOLEAN, StartFullspeed(t, b) PROVE TypeOK'
    BY <1>3, StartType DEF StartFullspeed, Kinds
  <1>4. ASSUME NEW t \in Tasks,
               CheckCoupling(t) \/ ReadOther(t) \/ ReadOtherFails(t) \/ WriteOtherFails(t)
        PROVE  TypeOK'
    <2>1. PICK label \in {"other", "pull", "own"} : Goto(t, label)
      BY <1>4 DEF CheckCoupling, ReadOther, ReadOtherFails, WriteOtherFails
    <2>2. /\ pc[t] \in {"coupling", "other", "pull"}
          /\ UNCHANGED <<mode, limits, fullspeed, cached, coupling, lock, kind, arg,
                         settled, overtaken, blind>>
      BY <1>4 DEF CheckCoupling, ReadOther, ReadOtherFails, WriteOtherFails
    <2>3. tied' \in [Tasks -> BOOLEAN]
      BY <1>4 DEF TypeOK, CheckCoupling, ReadOther, ReadOtherFails, WriteOtherFails
    <2>4. alone' \in [Tasks -> BOOLEAN]
      BY <1>4 DEF TypeOK, CheckCoupling, ReadOther, ReadOtherFails, WriteOtherFails
    <2>5. QED BY <2>1, <2>2, <2>3, <2>4, TaskAssumption DEF TypeOK, Goto
  <1>5. ASSUME NEW t \in Tasks, WriteOther(t) PROVE TypeOK'
    BY <1>5, TaskAssumption DEF TypeOK, WriteOther, Goto, Disturb, Other, Limits
  <1>6. ASSUME NEW t \in Tasks, WriteOwn(t) PROVE TypeOK'
    BY <1>6, ReturnType DEF TypeOK, WriteOwn, Succeed, Limits
  <1>7. ASSUME NEW t \in Tasks, WriteOwnFails(t) \/ WriteModeFails(t) \/ FullspeedRefused(t)
        PROVE  TypeOK'
    BY <1>7, ReturnType DEF TypeOK, WriteOwnFails, WriteModeFails, FullspeedRefused, Fail
  <1>8. ASSUME NEW t \in Tasks, WriteMode(t) PROVE TypeOK'
    <2>1. arg[t] \in Modes /\ EnterMode(arg[t], {t}) /\ pc[t] = "mode"
      BY <1>8 DEF TypeOK, WriteMode
    <2>2. QED BY <1>8, <2>1, EnterModeType, TaskAssumption DEF TypeOK, WriteMode, Goto
  <1>9. ASSUME NEW t \in Tasks, KeepCopy(t) PROVE TypeOK'
    BY <1>9, ReturnType DEF TypeOK, KeepCopy, Succeed
  <1>10. ASSUME NEW m \in Modes, ModeChangesOutside(m) PROVE TypeOK'
    BY <1>10, EnterModeType DEF TypeOK, ModeChangesOutside, taskVars
  <1>11. ASSUME NEW b \in BOOLEAN, CouplingStore(b) PROVE TypeOK'
    BY <1>11 DEF TypeOK, CouplingStore, taskVars
  <1>12. ASSUME NEW t \in Tasks, FullspeedAllowed(t) PROVE TypeOK'
    BY <1>12, TaskAssumption DEF TypeOK, FullspeedAllowed, Goto
  <1>13. ASSUME NEW t \in Tasks, WriteFullspeed(t) \/ WriteFullspeedFails(t) PROVE TypeOK'
    <2>1. kind[t] = "fullspeed" /\ arg[t] \in BOOLEAN /\ lock = t
      BY <1>13 DEF TypeOK, WriteFullspeed, WriteFullspeedFails
    <2>2. /\ lock' = None /\ Return(t) /\ overtaken' = FALSE
          /\ UNCHANGED <<mode, limits, cached, coupling, settled, blind>>
      BY <1>13 DEF WriteFullspeed, WriteFullspeedFails, Unlock, Succeed, Fail
    <2>3. fullspeed' = arg[t] \/ fullspeed' = fullspeed
      BY <1>13 DEF WriteFullspeed, WriteFullspeedFails
    <2>4. fullspeed' \in BOOLEAN
      BY <2>1, <2>3, Zenon DEF TypeOK
    <2>5. alone' \in [Tasks -> BOOLEAN]
      BY <1>13 DEF TypeOK, WriteFullspeed, WriteFullspeedFails, Succeed, Fail
    <2>6. QED BY <2>1, <2>2, <2>4, <2>5, ReturnType DEF TypeOK
  <1>14. CASE UNCHANGED vars
    BY <1>14 DEF TypeOK, vars, taskVars
  <1>15. QED
    BY <1>1, <1>2, <1>3, <1>4, <1>5, <1>6, <1>7, <1>8, <1>9, <1>10, <1>11, <1>12, <1>13, <1>14,
       TaskAssumption
       DEF AnyNext, Next, Act, Step

LEMMA InitType == ASSUME Init PROVE TypeOK
  BY TaskAssumption, ModeAssumption, DefaultAssumption DEF Init, TypeOK, Kinds, Limits

\* Spec => []TypeOK: in particular the mutex is held exactly by the task between
\* the check and the write of fan_fullspeed_store.
THEOREM TypeCorrect == Spec => []TypeOK
  <1>1. Init => TypeOK
    BY InitType
  <1>2. TypeOK /\ [Next]_vars => TypeOK'
    BY TypeStep, NextIsAny
  <1>3. QED BY <1>1, <1>2, PTL DEF Spec

-----------------------------------------------------------------------------
(* PL1 stays at or below PL2 *)

\* What an undisturbed store of a limit knows of the other limit.
Placed(t) ==
  /\ pc[t] = "pull" => Crosses(t)
  /\ pc[t] = "own" /\ tied[t] => ~Crosses(t)

OrderInv == CoupledInOrder /\ \A t \in Tasks : alone[t] => Placed(t)

\* A task that a step leaves alone, limits included, stays placed.
LEMMA PlacedStays ==
  ASSUME NEW t \in Tasks, Placed(t), UNCHANGED <<limits, pc[t], kind[t], arg[t], tied[t]>>
  PROVE  Placed(t)'
  BY DEF Placed, Crosses

\* A task outside the stores of limits has no other limit to know of.
LEMMA PlacedElsewhere ==
  ASSUME NEW t \in Tasks, pc'[t] \notin {"pull", "own"} PROVE Placed(t)'
  BY DEF Placed

LEMMA OrderStep == ASSUME TypeOK, OrderInv, [AnyNext]_vars PROVE OrderInv'
  <1> USE DEF OrderInv
  <1>1. ASSUME NEW t \in Tasks, NEW k, NEW v, NEW label \in {"coupling", "mode", "allowed"}, NEW b,
               Start(t, k, v, label, b)
        PROVE  OrderInv'
    <2>1. CoupledInOrder'
      BY <1>1 DEF Start, CoupledInOrder
    <2>2. ASSUME NEW s \in Tasks, alone'[s] PROVE Placed(s)'
      <3>1. CASE s = t
        BY <1>1, <3>1, PlacedElsewhere DEF Start, Goto, TypeOK
      <3>2. CASE s # t
        BY <1>1, <2>2, <3>2, PlacedStays DEF Start, Goto, TypeOK
      <3>3. QED BY <3>1, <3>2
    <2>3. QED BY <2>1, <2>2
  <1>2. ASSUME NEW t \in Tasks, CheckCoupling(t) \/ ReadOther(t) PROVE OrderInv'
    <2>1. CoupledInOrder' /\ limits' = limits /\ alone' = alone
      BY <1>2 DEF CheckCoupling, ReadOther, CoupledInOrder
    <2>2. ASSUME NEW s \in Tasks, alone'[s] PROVE Placed(s)'
      <3>1. CASE s = t /\ CheckCoupling(t)
        BY <3>1 DEF CheckCoupling, Goto, TypeOK, Placed
      <3>2. CASE s = t /\ ReadOther(t)
        BY <3>2 DEF ReadOther, Goto, TypeOK, Placed, Crosses
      <3>3. CASE s # t
        BY <1>2, <2>1, <2>2, <3>3, PlacedStays DEF CheckCoupling, ReadOther, Goto, TypeOK
      <3>4. QED BY <1>2, <3>1, <3>2, <3>3
    <2>3. QED BY <2>1, <2>2
  <1>3. ASSUME NEW t \in Tasks,
               \/ ReadOtherFails(t) \/ WriteOtherFails(t) \/ WriteOwnFails(t)
               \/ WriteModeFails(t) \/ FullspeedRefused(t) \/ WriteFullspeedFails(t)
        PROVE  OrderInv'
    <2> USE DEF ReadOtherFails, WriteOtherFails, WriteOwnFails, WriteModeFails,
                FullspeedRefused, WriteFullspeedFails, Fail, Return, Goto
    <2>1. CoupledInOrder' /\ limits' = limits
      BY <1>3 DEF CoupledInOrder
    <2>2. ASSUME NEW s \in Tasks, alone'[s] PROVE Placed(s)'
      <3>1. s # t /\ alone[s]
        BY <1>3, <2>2 DEF TypeOK
      <3>2. UNCHANGED <<pc[s], kind[s], arg[s], tied[s]>>
        BY <1>3, <3>1 DEF TypeOK
      <3>3. QED BY <2>1, <3>1, <3>2, PlacedStays
    <2>3. QED BY <2>1, <2>2
  <1>4. ASSUME NEW t \in Tasks, WriteOther(t) PROVE OrderInv'
    <2>1. /\ kind[t] \in Limits /\ arg[t] \in Int /\ limits \in [Limits -> Int]
          /\ limits' = [limits EXCEPT ![Other(kind[t])] = arg[t]]
      BY <1>4 DEF WriteOther, TypeOK
    <2>0. settled' => settled /\ alone[t]
      BY <1>4, Zenon DEF WriteOther
    <2>2. alone[t] => Crosses(t)
      BY <1>4 DEF WriteOther, Placed
    <2>3. CoupledInOrder'
      <3> SUFFICES ASSUME settled' PROVE limits'["pl1"] <= limits'["pl2"]
        BY DEF CoupledInOrder
      <3>1. Crosses(t) /\ limits["pl1"] <= limits["pl2"]
        BY <2>0, <2>2 DEF CoupledInOrder
      <3>2. CASE kind[t] = "pl1"
        BY <2>1, <3>1, <3>2 DEF Crosses, Other, Limits
      <3>3. CASE kind[t] = "pl2"
        BY <2>1, <3>1, <3>3 DEF Crosses, Other, Limits
      <3>4. QED BY <2>1, <3>2, <3>3 DEF Limits
    <2>4. ASSUME NEW s \in Tasks, alone'[s] PROVE Placed(s)'
      <3>1. s = t /\ pc'[s] = "own" /\ kind' = kind /\ arg' = arg
        BY <1>4, <2>4 DEF WriteOther, Disturb, Goto, TypeOK
      <3>2. ~Crosses(s)'
        BY <2>1, <3>1 DEF Crosses, Other, Limits
      <3>3. QED BY <3>1, <3>2 DEF Placed
    <2>5. QED BY <2>3, <2>4
  <1>5. ASSUME NEW t \in Tasks, WriteOwn(t) PROVE OrderInv'
    <2>1. /\ kind[t] \in Limits /\ arg[t] \in Int /\ limits \in [Limits -> Int]
          /\ limits' = [limits EXCEPT ![kind[t]] = arg[t]]
      BY <1>5 DEF WriteOwn, TypeOK
    <2>0. settled' => tied[t] /\ alone[t]
      BY <1>5, Zenon DEF WriteOwn
    <2>2. tied[t] /\ alone[t] => ~Crosses(t)
      BY <1>5 DEF WriteOwn, Placed
    <2>3. CoupledInOrder'
      <3> SUFFICES ASSUME settled' PROVE limits'["pl1"] <= limits'["pl2"]
        BY DEF CoupledInOrder
      <3>1. ~Crosses(t)
        BY <2>0, <2>2
      <3>2. CASE kind[t] = "pl1"
        BY <2>1, <3>1, <3>2 DEF Crosses, Limits
      <3>3. CASE kind[t] = "pl2"
        BY <2>1, <3>1, <3>3 DEF Crosses, Limits
      <3>4. QED BY <2>1, <3>2, <3>3 DEF Limits
    <2>4. \A s \in Tasks : ~alone'[s]
      BY <1>5 DEF WriteOwn, Succeed
    <2>5. QED BY <2>3, <2>4
  <1>6. ASSUME NEW t \in Tasks, KeepCopy(t) \/ WriteFullspeed(t) PROVE OrderInv'
    BY <1>6 DEF KeepCopy, WriteFullspeed, Succeed, CoupledInOrder
  <1>7. ASSUME NEW t \in Tasks, WriteMode(t) PROVE OrderInv'
    <2>1. arg[t] \in Modes /\ EnterMode(arg[t], {t})
      BY <1>7 DEF WriteMode, TypeOK
    <2>2. CoupledInOrder'
      BY <2>1, DefaultAssumption DEF EnterMode, CoupledInOrder
    <2>3. ASSUME NEW s \in Tasks, alone'[s] PROVE Placed(s)'
      BY <1>7, <2>1, <2>3, PlacedElsewhere DEF EnterMode, WriteMode, Goto, TypeOK
    <2>4. QED BY <2>2, <2>3
  <1>8. ASSUME NEW m \in Modes, ModeChangesOutside(m) PROVE OrderInv'
    <2>1. CoupledInOrder'
      BY <1>8, DefaultAssumption DEF ModeChangesOutside, EnterMode, CoupledInOrder
    <2>2. \A s \in Tasks : ~alone'[s]
      BY <1>8 DEF ModeChangesOutside, EnterMode
    <2>3. QED BY <2>1, <2>2
  <1>9. ASSUME NEW t \in Tasks, FullspeedAllowed(t) PROVE OrderInv'
    <2>1. CoupledInOrder' /\ UNCHANGED <<limits, alone, kind, arg, tied>>
      BY <1>9 DEF FullspeedAllowed, CoupledInOrder
    <2>2. ASSUME NEW s \in Tasks, alone'[s] PROVE Placed(s)'
      <3>1. CASE s = t
        BY <1>9, <3>1, PlacedElsewhere DEF FullspeedAllowed, Goto, TypeOK
      <3>2. CASE s # t
        BY <1>9, <2>1, <2>2, <3>2, PlacedStays DEF FullspeedAllowed, Goto, TypeOK
      <3>3. QED BY <3>1, <3>2
    <2>3. QED BY <2>1, <2>2
  <1>10. CASE UNCHANGED vars \/ \E b \in BOOLEAN : CouplingStore(b)
    BY <1>10, PlacedStays DEF vars, CouplingStore, taskVars, CoupledInOrder
  <1>11. QED
    BY <1>1, <1>2, <1>3, <1>4, <1>5, <1>6, <1>7, <1>8, <1>9, <1>10
       DEF AnyNext, Next, Act, Step, StartLimit, StartMode, StartFullspeed

LEMMA InitOrder == ASSUME Init PROVE OrderInv
  BY DefaultAssumption DEF Init, OrderInv, CoupledInOrder, Limits

\* Spec => []CoupledInOrder, whatever the ranges and the values written.
THEOREM OrderKept == Spec => []CoupledInOrder
  <1>1. Init => OrderInv
    BY InitOrder
  <1>2. TypeOK /\ OrderInv /\ [Next]_vars => OrderInv'
    BY OrderStep, NextIsAny
  <1>3. OrderInv => CoupledInOrder
    BY DEF OrderInv
  <1>4. QED BY <1>1, <1>2, <1>3, TypeCorrect, PTL DEF Spec

-----------------------------------------------------------------------------
(* The limits stay in advertised ranges *)

Advertised(k, v) == \E m \in Modes : InRange(m, k, v)

\* The limits in force, and the values on their way there, are advertised; so is
\* a value about to be written to the limit it pulls along.
RangeInv == ~blind =>
  /\ cached \in Modes
  /\ \A k \in Limits : Advertised(k, limits[k])
  /\ \A t \in Tasks : pc[t] \in {"coupling", "other", "pull", "own"} => Advertised(kind[t], arg[t])
  /\ \A t \in Tasks : pc[t] = "pull" => Advertised(Other(kind[t]), arg[t])

\* Of nested ranges, the new value of one limit that crosses the other limit is
\* also in a range of that other limit.
LEMMA PulledIsAdvertised ==
  ASSUME Nested, TypeOK, NEW t \in Tasks, kind[t] \in Limits, Crosses(t),
         Advertised(kind[t], arg[t]), \A k \in Limits : Advertised(k, limits[k])
  PROVE  Advertised(Other(kind[t]), arg[t])
  <1>1. PICK a \in Modes : InRange(a, kind[t], arg[t])
    BY DEF Advertised
  <1>2. Other(kind[t]) \in Limits
    BY DEF Other, Limits
  <1>3. PICK b \in Modes : InRange(b, Other(kind[t]), limits[Other(kind[t])])
    BY <1>2 DEF Advertised
  <1>4. /\ arg[t] \in Int /\ limits["pl1"] \in Int /\ limits["pl2"] \in Int
        /\ \A m \in Modes, k \in Limits : Cap[m][k].min \in Int /\ Cap[m][k].max \in Int
    BY CapAssumption DEF TypeOK, Limits, Range01
  <1>5. InRange(b, Other(kind[t]), arg[t])
    BY <1>1, <1>3, <1>4 DEF Nested, Crosses, Other, InRange, Limits
  <1>6. QED BY <1>5 DEF Advertised

\* Whether the driver could read the mode when it was loaded does not change.
LEMMA BlindStays == ASSUME [AnyNext]_vars PROVE blind' = blind
  <1>1. ASSUME NEW t \in Tasks, Step(t) PROVE blind' = blind
    BY <1>1 DEF Step, CheckCoupling, ReadOther, ReadOtherFails, WriteOther, WriteOtherFails,
                WriteOwn, WriteOwnFails, WriteMode, WriteModeFails, KeepCopy, FullspeedAllowed,
                FullspeedRefused, WriteFullspeed, WriteFullspeedFails
  <1>2. QED
    BY <1>1 DEF AnyNext, Next, Act, vars, StartLimit, StartMode, StartFullspeed, Start,
                ModeChangesOutside, CouplingStore

LEMMA RangeStep == ASSUME Nested, TypeOK, RangeInv, [AnyNext]_vars PROVE RangeInv'
  <1> SUFFICES ASSUME ~blind PROVE RangeInv'
    BY BlindStays, Zenon DEF RangeInv
  <1>1. /\ cached \in Modes
        /\ \A k \in Limits : Advertised(k, limits[k])
        /\ \A t \in Tasks :
             pc[t] \in {"coupling", "other", "pull", "own"} => Advertised(kind[t], arg[t])
        /\ \A t \in Tasks : pc[t] = "pull" => Advertised(Other(kind[t]), arg[t])
    BY DEF RangeInv
  <1>2. ASSUME NEW t \in Tasks, NEW k \in Limits, NEW v \in Int, StartLimit(t, k, v)
        PROVE  RangeInv'
    <2>1. Advertised(k, ClampedValue(k, v))
      BY <1>1, ClampedType, TaskAssumption DEF Advertised
    <2>2. QED BY <1>1, <1>2, <2>1 DEF StartLimit, Start, Goto, RangeInv, Advertised, TypeOK
  <1>3. ASSUME NEW t \in Tasks, NEW k, NEW v, NEW label \in {"mode", "allowed"}, NEW b,
               Start(t, k, v, label, b)
        PROVE  RangeInv'
    BY <1>1, <1>3 DEF Start, Goto, RangeInv, Advertised, TypeOK
  <1>4. ASSUME NEW t \in Tasks,
               CheckCoupling(t) \/ ReadOtherFails(t) \/ WriteOtherFails(t) \/ FullspeedAllowed(t)
        PROVE  RangeInv'
    BY <1>1, <1>4 DEF CheckCoupling, ReadOtherFails, WriteOtherFails, FullspeedAllowed, Goto,
                      RangeInv, Advertised, TypeOK
  <1>5. ASSUME NEW t \in Tasks, ReadOther(t) PROVE RangeInv'
    <2>1. Crosses(t) => Advertised(Other(kind[t]), arg[t])
      BY <1>1, <1>5, PulledIsAdvertised DEF ReadOther, TypeOK
    <2>2. QED BY <1>1, <1>5, <2>1 DEF ReadOther, Goto, RangeInv, Advertised, TypeOK
  <1>6. ASSUME NEW t \in Tasks, WriteOther(t) PROVE RangeInv'
    <2>1. \A k \in Limits : Advertised(k, limits'[k])
      BY <1>1, <1>6 DEF WriteOther, TypeOK
    <2>2. QED BY <1>1, <1>6, <2>1 DEF WriteOther, Goto, RangeInv, Advertised, TypeOK
  <1>7. ASSUME NEW t \in Tasks, WriteOwn(t) PROVE RangeInv'
    <2>1. \A k \in Limits : Advertised(k, limits'[k])
      BY <1>1, <1>7 DEF WriteOwn, TypeOK
    <2>2. QED BY <1>1, <1>7, <2>1
             DEF WriteOwn, Succeed, Return, Goto, RangeInv, Advertised, TypeOK
  <1>8. ASSUME NEW t \in Tasks,
               \/ WriteOwnFails(t) \/ WriteModeFails(t) \/ FullspeedRefused(t)
               \/ WriteFullspeed(t) \/ WriteFullspeedFails(t)
        PROVE  RangeInv'
    <2>1. Return(t) /\ UNCHANGED <<limits, cached, blind>>
      BY <1>8 DEF WriteOwnFails, WriteModeFails, FullspeedRefused, WriteFullspeed,
                  WriteFullspeedFails, Fail, Succeed
    <2>2. QED BY <1>1, <2>1 DEF Return, Goto, RangeInv, Advertised, TypeOK
  <1>9. ASSUME NEW t \in Tasks, KeepCopy(t) PROVE RangeInv'
    <2>1. cached' \in Modes /\ Return(t) /\ UNCHANGED <<limits, blind>>
      BY <1>9 DEF KeepCopy, Succeed, TypeOK
    <2>2. QED BY <1>1, <2>1 DEF Return, Goto, RangeInv, Advertised, TypeOK
  <1>10. ASSUME NEW m \in Modes, NEW S, EnterMode(m, S)
         PROVE  \A k \in Limits : Advertised(k, limits'[k])
    BY <1>1, <1>10, DefaultAssumption DEF EnterMode, Advertised
  <1>11. ASSUME NEW t \in Tasks, WriteMode(t) PROVE RangeInv'
    <2>1. \A k \in Limits : Advertised(k, limits'[k])
      BY <1>10, <1>11 DEF WriteMode, TypeOK
    <2>2. QED BY <1>1, <1>11, <2>1 DEF WriteMode, Goto, RangeInv, Advertised, TypeOK
  <1>12. ASSUME NEW m \in Modes, ModeChangesOutside(m) PROVE RangeInv'
    <2>1. \A k \in Limits : Advertised(k, limits'[k])
      BY <1>10, <1>12 DEF ModeChangesOutside
    <2>2. QED BY <1>1, <1>12, <2>1 DEF ModeChangesOutside, taskVars, RangeInv, Advertised
  <1>13. CASE UNCHANGED vars \/ \E b \in BOOLEAN : CouplingStore(b)
    BY <1>1, <1>13 DEF vars, CouplingStore, taskVars, RangeInv, Advertised
  <1>14. QED
    BY <1>2, <1>3, <1>4, <1>5, <1>6, <1>7, <1>8, <1>9, <1>11, <1>12, <1>13, TaskAssumption
       DEF AnyNext, Next, Act, Step, StartMode, StartFullspeed

LEMMA InitRange == ASSUME Init PROVE RangeInv
  BY DefaultAssumption DEF Init, RangeInv, Advertised

LEMMA RangeSuffices == RangeInv => LimitsAdvertised
  BY DEF RangeInv, LimitsAdvertised, Advertised

\* Of nested ranges, Spec => []LimitsAdvertised, whatever the values written and
\* however the mode changes under the stores.
THEOREM LimitsStayAdvertised == ASSUME Nested PROVE Spec => []LimitsAdvertised
  <1>1. Init => RangeInv
    BY InitRange
  <1>2. TypeOK /\ RangeInv /\ [Next]_vars => RangeInv'
    BY RangeStep, NextIsAny, Nested
  <1>3. QED BY <1>1, <1>2, RangeSuffices, TypeCorrect, Nested, PTL DEF Spec

-----------------------------------------------------------------------------
(* Full speed, and what success means *)

\* A task past the check of fan_fullspeed_store is in custom mode, or was overtaken.
GuardInv == \A t \in Tasks : pc[t] = "fullspeed" /\ arg[t] => (mode = Custom \/ overtaken)

LEMMA InitGuard == ASSUME Init PROVE GuardInv
  BY DEF Init, GuardInv

LEMMA GuardStep == ASSUME TypeOK, GuardInv, [AnyNext]_vars PROVE GuardInv'
  <1> SUFFICES ASSUME NEW s \in Tasks, pc'[s] = "fullspeed", arg'[s]
               PROVE  mode' = Custom \/ overtaken'
    BY DEF GuardInv
  <1>1. ASSUME NEW t \in Tasks, NEW k, NEW v, NEW label \in {"coupling", "mode", "allowed"}, NEW b,
               Start(t, k, v, label, b)
        PROVE  mode' = Custom \/ overtaken'
    BY <1>1 DEF Start, Goto, GuardInv, TypeOK
  <1>2. ASSUME NEW t \in Tasks,
               \/ CheckCoupling(t) \/ ReadOther(t) \/ ReadOtherFails(t)
               \/ WriteOther(t) \/ WriteOtherFails(t)
        PROVE  mode' = Custom \/ overtaken'
    BY <1>2 DEF CheckCoupling, ReadOther, ReadOtherFails, WriteOther, WriteOtherFails, Goto,
                GuardInv, TypeOK
  <1>3. ASSUME NEW t \in Tasks,
               \/ WriteOwn(t) \/ WriteOwnFails(t) \/ WriteModeFails(t) \/ KeepCopy(t)
               \/ FullspeedRefused(t)
        PROVE  mode' = Custom \/ overtaken'
    <2>1. Return(t) /\ UNCHANGED <<mode, overtaken>>
      BY <1>3 DEF WriteOwn, WriteOwnFails, WriteModeFails, KeepCopy, FullspeedRefused,
                  Fail, Succeed
    <2>2. QED BY <2>1 DEF Return, Goto, GuardInv, TypeOK
  <1>4. ASSUME NEW t \in Tasks, WriteMode(t) PROVE FALSE
    BY <1>4, TaskAssumption DEF WriteMode, Goto, TypeOK
  <1>5. ASSUME NEW m \in Modes, ModeChangesOutside(m) PROVE overtaken'
    BY <1>5, TaskAssumption DEF ModeChangesOutside, taskVars, TypeOK
  <1>6. ASSUME NEW t \in Tasks, FullspeedAllowed(t) PROVE mode' = Custom \/ overtaken'
    BY <1>6 DEF FullspeedAllowed, Goto, GuardInv, TypeOK
  <1>7. ASSUME NEW t \in Tasks, WriteFullspeed(t) \/ WriteFullspeedFails(t) PROVE FALSE
    BY <1>7 DEF WriteFullspeed, WriteFullspeedFails, Succeed, Fail, Return, Goto, TypeOK
  <1>8. CASE UNCHANGED vars \/ \E b \in BOOLEAN : CouplingStore(b)
    BY <1>8 DEF vars, CouplingStore, taskVars, GuardInv
  <1>9. QED
    BY <1>1, <1>2, <1>3, <1>4, <1>5, <1>6, <1>7, <1>8
       DEF AnyNext, Next, Act, Step, StartLimit, StartMode, StartFullspeed

\* A step that turns full speed on.
LEMMA TurnedOn ==
  ASSUME TypeOK, GuardInv, [AnyNext]_vars, ~fullspeed, fullspeed'
  PROVE  mode = Custom \/ overtaken
  <1>1. ASSUME NEW t \in Tasks, WriteFullspeed(t) PROVE mode = Custom \/ overtaken
    BY <1>1 DEF WriteFullspeed, GuardInv
  <1>2. ASSUME NEW m, NEW S, EnterMode(m, S) PROVE FALSE
    BY <1>2, Zenon DEF EnterMode
  <1>3. ASSUME NEW t \in Tasks, Step(t), ~WriteFullspeed(t) PROVE FALSE
    BY <1>2, <1>3, Zenon
       DEF Step, CheckCoupling, ReadOther, ReadOtherFails, WriteOther, WriteOtherFails,
           WriteOwn, WriteOwnFails, WriteMode, WriteModeFails, KeepCopy, FullspeedAllowed,
           FullspeedRefused, WriteFullspeedFails
  <1>4. ASSUME NEW t \in Tasks, NEW k, NEW v, NEW label, NEW b, Start(t, k, v, label, b) PROVE FALSE
    BY <1>4, Zenon DEF Start
  <1>5. ASSUME NEW m \in Modes, ModeChangesOutside(m) PROVE FALSE
    BY <1>2, <1>5 DEF ModeChangesOutside
  <1>6. CASE UNCHANGED vars \/ \E b \in BOOLEAN : CouplingStore(b)
    BY <1>6, Zenon DEF vars, CouplingStore
  <1>7. QED
    BY <1>1, <1>3, <1>4, <1>5, <1>6 DEF AnyNext, Next, Act, StartLimit, StartMode, StartFullspeed

\* Spec => FullspeedGuarded: with the mutex held from the check to the write, only
\* a mode change outside the mutex turns full speed on outside custom mode.
THEOREM FullspeedIsGuarded == Spec => FullspeedGuarded
  <1>1. Init => GuardInv
    BY InitGuard
  <1>2. TypeOK /\ GuardInv /\ [Next]_vars => GuardInv'
    BY GuardStep, NextIsAny
  <1>3. TypeOK /\ GuardInv /\ [Next]_vars => [~fullspeed /\ fullspeed' => (mode = Custom \/ overtaken)]_vars
    BY TurnedOn, NextIsAny
  <1>4. QED BY <1>1, <1>2, <1>3, TypeCorrect, PTL DEF Spec, FullspeedGuarded

\* What an undisturbed store knows of the mode.
Known(t) ==
  /\ pc[t] = "cache" => mode = arg[t]
  /\ pc[t] \in {"coupling", "other", "pull", "own"} => InRange(mode, kind[t], arg[t])
  /\ pc[t] = "fullspeed" /\ arg[t] => mode = Custom

EffectInv == \A t \in Tasks : alone[t] => Known(t)

LEMMA KnownStays ==
  ASSUME NEW t \in Tasks, Known(t), UNCHANGED <<mode, pc[t], kind[t], arg[t]>>
  PROVE  Known(t)'
  BY DEF Known, InRange

\* Only undisturbed stores that go on count after a store of t.
LEMMA EffectAfterSuccess == ASSUME NEW t \in Tasks, Succeed(t) PROVE EffectInv'
  BY DEF Succeed, EffectInv

LEMMA EffectAfterFailure ==
  ASSUME TypeOK, EffectInv, NEW t \in Tasks, Fail(t), UNCHANGED mode PROVE EffectInv'
  <1> SUFFICES ASSUME NEW s \in Tasks, alone'[s] PROVE Known(s)'
    BY DEF EffectInv
  <1>1. s # t /\ alone[s] /\ UNCHANGED <<pc[s], kind[s], arg[s]>>
    BY DEF Fail, Return, Goto, TypeOK
  <1>2. QED BY <1>1, KnownStays DEF EffectInv

LEMMA InitEffect == ASSUME Init PROVE EffectInv
  BY DEF Init, EffectInv

LEMMA EffectStep == ASSUME TypeOK, EffectInv, [AnyNext]_vars PROVE EffectInv'
  <1>1. ASSUME NEW t \in Tasks, NEW k, NEW v, NEW label, NEW b, Start(t, k, v, label, b),
               \/ label \in {"mode", "allowed"}
               \/ label = "coupling" /\ (b => InRange(mode, k, v))
        PROVE  EffectInv'
    <2> SUFFICES ASSUME NEW s \in Tasks, alone'[s] PROVE Known(s)'
      BY DEF EffectInv
    <2>1. CASE s = t
      BY <1>1, <2>1 DEF Start, Goto, TypeOK, Known, InRange
    <2>2. CASE s # t
      BY <1>1, <2>2, KnownStays DEF Start, Goto, TypeOK, EffectInv
    <2>3. QED BY <2>1, <2>2
  <1>2. ASSUME NEW t \in Tasks, NEW k \in Limits, NEW v \in Int, StartLimit(t, k, v)
        PROVE  EffectInv'
    <2>1. cached = mode => InRange(mode, k, ClampedValue(k, v))
      BY ClampedType, TaskAssumption DEF TypeOK
    <2>2. QED BY <1>1, <1>2, <2>1 DEF StartLimit
  <1>3. ASSUME NEW t \in Tasks,
               \/ CheckCoupling(t) \/ ReadOther(t) \/ ReadOtherFails(t)
               \/ WriteOther(t) \/ WriteOtherFails(t)
        PROVE  EffectInv'
    <2> SUFFICES ASSUME NEW s \in Tasks, alone'[s] PROVE Known(s)'
      BY DEF EffectInv
    <2>1. /\ alone[s] /\ UNCHANGED <<mode, kind, arg>>
          /\ pc[t] \in {"coupling", "other", "pull"} /\ pc'[t] \in {"other", "pull", "own"}
          /\ s # t => pc'[s] = pc[s]
      BY <1>3 DEF CheckCoupling, ReadOther, ReadOtherFails, WriteOther, WriteOtherFails,
                  Disturb, Goto, TypeOK
    <2>2. QED BY <2>1, KnownStays DEF EffectInv, Known, InRange
  <1>4. ASSUME NEW t \in Tasks,
               WriteOwnFails(t) \/ WriteModeFails(t) \/ FullspeedRefused(t) \/ WriteFullspeedFails(t)
        PROVE  EffectInv'
    BY <1>4, EffectAfterFailure
       DEF WriteOwnFails, WriteModeFails, FullspeedRefused, WriteFullspeedFails
  <1>5. ASSUME NEW t \in Tasks, WriteOwn(t) \/ KeepCopy(t) \/ WriteFullspeed(t) PROVE EffectInv'
    BY <1>5, EffectAfterSuccess DEF WriteOwn, KeepCopy, WriteFullspeed
  <1>6. ASSUME NEW t \in Tasks, WriteMode(t) PROVE EffectInv'
    <2> SUFFICES ASSUME NEW s \in Tasks, alone'[s] PROVE Known(s)'
      BY DEF EffectInv
    <2>1. s = t /\ mode' = arg[s] /\ arg' = arg /\ pc'[s] = "cache"
      BY <1>6 DEF WriteMode, EnterMode, Goto, TypeOK
    <2>2. QED BY <2>1 DEF Known
  <1>7. ASSUME NEW m \in Modes, ModeChangesOutside(m) PROVE EffectInv'
    BY <1>7 DEF ModeChangesOutside, EnterMode, EffectInv
  <1>8. ASSUME NEW t \in Tasks, FullspeedAllowed(t) PROVE EffectInv'
    <2> SUFFICES ASSUME NEW s \in Tasks, alone'[s] PROVE Known(s)'
      BY DEF EffectInv
    <2>1. CASE s = t
      BY <1>8, <2>1 DEF FullspeedAllowed, Goto, TypeOK, Known
    <2>2. CASE s # t
      BY <1>8, <2>2, KnownStays DEF FullspeedAllowed, Goto, TypeOK, EffectInv
    <2>3. QED BY <2>1, <2>2
  <1>9. CASE UNCHANGED vars \/ \E b \in BOOLEAN : CouplingStore(b)
    BY <1>9, KnownStays DEF vars, CouplingStore, taskVars, EffectInv
  <1>10. QED
    BY <1>1, <1>2, <1>3, <1>4, <1>5, <1>6, <1>7, <1>8, <1>9, TaskAssumption
       DEF AnyNext, Next, Act, Step, StartMode, StartFullspeed

\* What a store of t that reports success has done.
Effect(t) ==
  /\ KeepCopy(t) => mode' = arg[t] /\ cached' = arg[t]
  /\ WriteOwn(t) => /\ InRange(mode', kind[t], limits'[kind[t]])
                    /\ tied[t] => limits'["pl1"] <= limits'["pl2"]
  /\ WriteFullspeed(t) => fullspeed' = arg[t] /\ (arg[t] => mode' = Custom)

LEMMA EffectSeen ==
  ASSUME TypeOK, EffectInv, CoupledInOrder', NEW t \in Tasks, alone[t]
  PROVE  Effect(t)
  <1>1. Known(t)
    BY DEF EffectInv
  <1>2. ASSUME KeepCopy(t) PROVE mode' = arg[t] /\ cached' = arg[t]
    BY <1>1, <1>2 DEF KeepCopy, Known
  <1>3. ASSUME WriteOwn(t)
        PROVE  /\ InRange(mode', kind[t], limits'[kind[t]])
               /\ tied[t] => limits'["pl1"] <= limits'["pl2"]
    <2>1. mode' = mode /\ limits'[kind[t]] = arg[t] /\ InRange(mode, kind[t], arg[t])
      BY <1>1, <1>3 DEF WriteOwn, Known, TypeOK
    <2>2. tied[t] => settled'
      BY <1>3, Zenon DEF WriteOwn
    <2>3. QED BY <2>1, <2>2 DEF CoupledInOrder, InRange
  <1>4. ASSUME WriteFullspeed(t) PROVE fullspeed' = arg[t] /\ (arg[t] => mode' = Custom)
    <2>1. fullspeed' = arg[t] /\ mode' = mode /\ pc[t] = "fullspeed"
      BY <1>4, Zenon DEF WriteFullspeed
    <2>2. QED BY <1>1, <2>1, Zenon DEF Known
  <1>5. QED BY <1>2, <1>3, <1>4, Zenon DEF Effect

\* Spec => SuccessIsEffect: what an undisturbed store reports is what the firmware
\* does, although the clamp trusts the driver's copy of the mode.
THEOREM SuccessMeansEffect == Spec => SuccessIsEffect
  <1>1. Init => EffectInv
    BY InitEffect
  <1>2. TypeOK /\ EffectInv /\ [Next]_vars => EffectInv'
    BY EffectStep, NextIsAny
  <1>3. TypeOK /\ EffectInv /\ CoupledInOrder' => \A t \in Tasks : alone[t] => Effect(t)
    BY EffectSeen
  <1>4. QED BY <1>1, <1>2, <1>3, TypeCorrect, OrderKept, PTL DEF Spec, SuccessIsEffect, Effect
=============================================================================
