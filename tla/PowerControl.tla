---------------------------- MODULE PowerControl ----------------------------
(***************************************************************************)
(* The power controls of the driver: the power mode (powermode_store,      *)
(* platform_profile_set and the Fn+Q key), the CPU limits PL1 and PL2 with *)
(* their per-mode ranges and their coupling (cpu_longterm_ and             *)
(* cpu_shortterm_powerlimit_store, cpu_pl_coupling_store), and full fan    *)
(* speed (fan_fullspeed_store).  Any number of tasks write the nodes.      *)
(*                                                                         *)
(* priv->fancurve_mutex covers single firmware calls, not whole stores:    *)
(* the range of a limit comes from priv->current_powermode, a copy of the  *)
(* mode that only powermode_store refreshes, after it dropped the mutex;   *)
(* the limit coupled to it is read without the mutex; platform_profile_set *)
(* and the key take none.                                                  *)
(*                                                                         *)
(* The firmware is outside the repository.  It takes any limit (docs/      *)
(* FINDINGS.md); on entering a mode it may load limits of that mode and    *)
(* may drop full speed; every call to it may fail.                         *)
(***************************************************************************)
EXTENDS Integers

CONSTANTS
  Tasks,     \* tasks that write the nodes
  Modes,     \* power modes
  Custom,    \* the mode in which full fan speed works (255)
  Watts,     \* values the tasks write to the limits
  Cap,       \* Cap[m][k]: the range LENOVO_CAPABILITY_DATA_01 has for limit k in mode m
  Default,   \* Default[m]: limits the firmware may load with mode m
  Unread,    \* current_powermode when the driver could not read the mode (0)
  None       \* no task

Limits == {"pl1", "pl2"}  \* cpu_longterm_powerlimit, cpu_shortterm_powerlimit
Kinds == Limits \cup {"mode", "fullspeed"}
Range01 == [min : Int, max : Int, step : Nat \ {0}]

ASSUME TaskAssumption == None \notin Tasks /\ Watts \subseteq Int
ASSUME ModeAssumption == Custom \in Modes /\ Unread \notin Modes
ASSUME CapAssumption ==
  /\ Cap \in [Modes -> [Limits -> Range01]]
  /\ \A m \in Modes, k \in Limits : Cap[m][k].min <= Cap[m][k].max

InRange(m, k, v) == Cap[m][k].min <= v /\ v <= Cap[m][k].max

ASSUME DefaultAssumption ==
  /\ Default \in [Modes -> [Limits -> Int]]
  /\ \A m \in Modes : Default[m]["pl1"] <= Default[m]["pl2"]
  /\ \A m \in Modes, k \in Limits : InRange(m, k, Default[m][k])

VARIABLES
  mode, limits, fullspeed,  \* the firmware's state
  cached,                   \* priv->current_powermode
  coupling,                 \* priv->cpu_pl_coupling
  lock,                     \* holder of priv->fancurve_mutex
  pc, kind,                 \* what each task does next, in a store to which node
  arg,                      \* the value it stores, clamped if it is a limit
  tied,                     \* it found the limits coupled
  alone,                    \* history: nobody disturbed its store
  settled,                  \* history: the limits are the work of undisturbed coupled stores
  overtaken,                \* history: the mode changed under the holder of the mutex
  blind                     \* history: the driver could not read the mode when it was loaded

taskVars == <<pc, kind, arg, tied>>
vars == <<mode, limits, fullspeed, cached, coupling, lock, taskVars,
          alone, settled, overtaken, blind>>

Other(k) == IF k = "pl1" THEN "pl2" ELSE "pl1"

\* Seeded fault: values are rounded to the step and not held to the range.
CapdataClampNoMax(cd, v) == cd.min + (((v - cd.min) + cd.step \div 2) \div cd.step) * cd.step

\* v rounded to the steps of range cd, then held to the range.  Below the
\* minimum the unsigned arithmetic of the driver wraps to a value the clamp
\* takes to the minimum.
CapdataClamp(cd, v) ==
  LET snapped == cd.min + (((v - cd.min) + cd.step \div 2) \div cd.step) * cd.step IN
  IF v < cd.min \/ snapped < cd.min THEN cd.min
  ELSE IF snapped > cd.max THEN cd.max ELSE snapped

\* The range is looked up by the driver's copy of the mode; no entry, no clamp.
ClampedValue(k, v) == IF cached \in Modes THEN CapdataClamp(Cap[cached][k], v) ELSE v

-----------------------------------------------------------------------------
Init ==
  /\ mode \in Modes
  /\ limits = Default[mode]
  /\ fullspeed \in BOOLEAN
  /\ blind \in BOOLEAN
  /\ cached = IF blind THEN Unread ELSE mode
  /\ coupling = TRUE
  /\ lock = None
  /\ pc = [t \in Tasks |-> "idle"]
  /\ kind = [t \in Tasks |-> "mode"]
  /\ arg = [t \in Tasks |-> Custom]
  /\ tied = [t \in Tasks |-> FALSE]
  /\ alone = [t \in Tasks |-> FALSE]
  /\ settled = TRUE
  /\ overtaken = FALSE

\* The firmware enters mode m on behalf of the tasks in S.
EnterMode(m, S) ==
  /\ mode' = m
  /\ fullspeed' \in {fullspeed, FALSE}
  /\ \/ UNCHANGED <<limits, settled>>
     \/ limits' = Default[m] /\ settled' = TRUE
  /\ alone' = [t \in Tasks |-> alone[t] /\ t \in S]

\* What task t changes disturbs the stores of the others.
Disturb(t) == alone' = [s \in Tasks |-> alone[s] /\ s = t]

Goto(t, label) == pc' = [pc EXCEPT ![t] = label]

\* Task t begins a store of v to node k.
Start(t, k, v, label, undisturbed) ==
  /\ pc[t] = "idle"
  /\ kind' = [kind EXCEPT ![t] = k]
  /\ arg' = [arg EXCEPT ![t] = v]
  /\ tied' = [tied EXCEPT ![t] = FALSE]
  /\ alone' = [alone EXCEPT ![t] = undisturbed]
  /\ Goto(t, label)
  /\ UNCHANGED <<mode, limits, fullspeed, cached, coupling, lock, settled, overtaken, blind>>

\* The store of t returns, and its local variables go.
Return(t) ==
  /\ Goto(t, "idle")
  /\ kind' = [kind EXCEPT ![t] = "mode"]
  /\ arg' = [arg EXCEPT ![t] = Custom]
  /\ tied' = [tied EXCEPT ![t] = FALSE]

\* It returns an error, and has changed nothing.
Fail(t) == Return(t) /\ alone' = [alone EXCEPT ![t] = FALSE]

\* It returns success: the other stores are disturbed.
Succeed(t) == Return(t) /\ alone' = [s \in Tasks |-> FALSE]

-----------------------------------------------------------------------------
(* cpu_longterm_powerlimit_store, cpu_shortterm_powerlimit_store *)

\* v is written to limit k: clamp it to the range of the mode.
StartLimit(t, k, v) == Start(t, k, ClampedValue(k, v), "coupling", cached = mode)

CheckCoupling(t) ==
  /\ pc[t] = "coupling"
  /\ tied' = [tied EXCEPT ![t] = coupling]
  /\ Goto(t, IF coupling THEN "other" ELSE "own")
  /\ UNCHANGED <<mode, limits, fullspeed, cached, coupling, lock, kind, arg,
                 alone, settled, overtaken, blind>>

\* Seeded fault: the two limits are compared the wrong way round.
CrossesSwapped(t) == limits["pl1"] <= arg[t]

\* The new value of the one limit is on the wrong side of the other.
Crosses(t) == IF kind[t] = "pl1" THEN arg[t] > limits["pl2"] ELSE limits["pl1"] > arg[t]

\* Read the other limit, without the mutex.
ReadOther(t) ==
  /\ pc[t] = "other"
  /\ Goto(t, IF Crosses(t) THEN "pull" ELSE "own")
  /\ UNCHANGED <<mode, limits, fullspeed, cached, coupling, lock, kind, arg, tied,
                 alone, settled, overtaken, blind>>

\* The read fails: the store goes on as if the limits were not coupled.
ReadOtherFails(t) ==
  /\ pc[t] = "other"
  /\ Goto(t, "own")
  /\ alone' = [alone EXCEPT ![t] = FALSE]
  /\ UNCHANGED <<mode, limits, fullspeed, cached, coupling, lock, kind, arg, tied,
                 settled, overtaken, blind>>

\* Pull the other limit along first.
WriteOther(t) ==
  /\ pc[t] = "pull"
  /\ lock = None
  /\ limits' = [limits EXCEPT ![Other(kind[t])] = arg[t]]
  /\ settled' = (settled /\ alone[t])
  /\ Disturb(t)
  /\ Goto(t, "own")
  /\ UNCHANGED <<mode, fullspeed, cached, coupling, lock, kind, arg, tied, overtaken, blind>>

\* The write fails; its result is not looked at.
WriteOtherFails(t) ==
  /\ pc[t] = "pull"
  /\ lock = None
  /\ Goto(t, "own")
  /\ alone' = [alone EXCEPT ![t] = FALSE]
  /\ UNCHANGED <<mode, limits, fullspeed, cached, coupling, lock, kind, arg, tied,
                 settled, overtaken, blind>>

WriteOwn(t) ==
  /\ pc[t] = "own"
  /\ lock = None
  /\ limits' = [limits EXCEPT ![kind[t]] = arg[t]]
  /\ settled' = (tied[t] /\ alone[t])
  /\ Succeed(t)
  /\ UNCHANGED <<mode, fullspeed, cached, coupling, lock, overtaken, blind>>

WriteOwnFails(t) ==
  /\ pc[t] = "own"
  /\ lock = None
  /\ Fail(t)
  /\ UNCHANGED <<mode, limits, fullspeed, cached, coupling, lock,
                 settled, overtaken, blind>>

\* cpu_pl_coupling_store: the flag alone.
CouplingStore(b) ==
  /\ coupling' = b
  /\ UNCHANGED <<mode, limits, fullspeed, cached, lock, taskVars,
                 alone, settled, overtaken, blind>>

-----------------------------------------------------------------------------
(* powermode_store, platform_profile_set, the key *)

StartMode(t, m) == Start(t, "mode", m, "mode", TRUE)

\* Seeded fault: the power mode is written without the mutex.
WriteModeUnlocked(t) ==
  /\ pc[t] = "mode"
  /\ EnterMode(arg[t], {t})
  /\ Goto(t, "cache")
  /\ UNCHANGED <<cached, coupling, lock, kind, arg, tied, overtaken, blind>>

WriteMode(t) ==
  /\ pc[t] = "mode"
  /\ lock = None
  /\ EnterMode(arg[t], {t})
  /\ Goto(t, "cache")
  /\ UNCHANGED <<cached, coupling, lock, kind, arg, tied, overtaken, blind>>

WriteModeFails(t) ==
  /\ pc[t] = "mode"
  /\ lock = None
  /\ Fail(t)
  /\ UNCHANGED <<mode, limits, fullspeed, cached, coupling, lock,
                 settled, overtaken, blind>>

\* Seeded fault: the copy of the mode is not refreshed.
KeepCopyForgotten(t) ==
  /\ pc[t] = "cache"
  /\ Succeed(t)
  /\ UNCHANGED <<mode, limits, fullspeed, cached, coupling, lock,
                 settled, overtaken, blind>>

\* Keep a copy of the mode, after the mutex was dropped.
KeepCopy(t) ==
  /\ pc[t] = "cache"
  /\ cached' = arg[t]
  /\ Succeed(t)
  /\ UNCHANGED <<mode, limits, fullspeed, coupling, lock,
                 settled, overtaken, blind>>

\* platform_profile_set, or the key: no mutex, no copy.
ModeChangesOutside(m) ==
  /\ EnterMode(m, {})
  /\ overtaken' = (lock # None)
  /\ UNCHANGED <<cached, coupling, lock, taskVars, blind>>

-----------------------------------------------------------------------------
(* fan_fullspeed_store *)

StartFullspeed(t, b) == Start(t, "fullspeed", b, "allowed", TRUE)

\* Take the mutex and ask the firmware for its mode: only custom mode may turn it on.
FullspeedAllowed(t) ==
  /\ pc[t] = "allowed"
  /\ lock = None
  /\ arg[t] => mode = Custom
  /\ lock' = t
  /\ Goto(t, "fullspeed")
  /\ UNCHANGED <<mode, limits, fullspeed, cached, coupling, kind, arg, tied,
                 alone, settled, overtaken, blind>>

\* -EBUSY, or the mode cannot be read.
FullspeedRefused(t) ==
  /\ pc[t] = "allowed"
  /\ lock = None
  /\ arg[t]
  /\ Fail(t)
  /\ UNCHANGED <<mode, limits, fullspeed, cached, coupling, lock,
                 settled, overtaken, blind>>

\* Seeded fault: an error of the firmware skips the unlock.
UnlockForgotten == overtaken' = FALSE /\ UNCHANGED lock

Unlock == lock' = None /\ overtaken' = FALSE

WriteFullspeed(t) ==
  /\ pc[t] = "fullspeed"
  /\ fullspeed' = arg[t]
  /\ Unlock
  /\ Succeed(t)
  /\ UNCHANGED <<mode, limits, cached, coupling,
                 settled, blind>>

WriteFullspeedFails(t) ==
  /\ pc[t] = "fullspeed"
  /\ Unlock
  /\ Fail(t)
  /\ UNCHANGED <<mode, limits, fullspeed, cached, coupling,
                 settled, blind>>

-----------------------------------------------------------------------------
Step(t) ==
  \/ CheckCoupling(t)
  \/ ReadOther(t)
  \/ ReadOtherFails(t)
  \/ WriteOther(t)
  \/ WriteOtherFails(t)
  \/ WriteOwn(t)
  \/ WriteOwnFails(t)
  \/ WriteMode(t)
  \/ WriteModeFails(t)
  \/ KeepCopy(t)
  \/ FullspeedAllowed(t)
  \/ FullspeedRefused(t)
  \/ WriteFullspeed(t)
  \/ WriteFullspeedFails(t)

\* A task goes on with its store, or begins one.
Act(t) ==
  \/ Step(t)
  \/ \E k \in Limits, v \in Watts : StartLimit(t, k, v)
  \/ \E m \in Modes : StartMode(t, m)
  \/ \E b \in BOOLEAN : StartFullspeed(t, b)

Next ==
  \/ \E t \in Tasks : Act(t)
  \/ \E m \in Modes : ModeChangesOutside(m)
  \/ \E b \in BOOLEAN : CouplingStore(b)

Spec == Init /\ [][Next]_vars

\* A task in a store keeps running, and the mutex is granted in turn.
Fairness == \A t \in Tasks : SF_vars(Step(t))

FairSpec == Spec /\ Fairness

-----------------------------------------------------------------------------
(* Properties *)

\* Every variable has its type; the mutex is held by the task that is between
\* the two firmware calls of fan_fullspeed_store, and by nobody else.
TypeOK ==
  /\ mode \in Modes
  /\ limits \in [Limits -> Int]
  /\ fullspeed \in BOOLEAN
  /\ cached \in Modes \cup {Unread}
  /\ coupling \in BOOLEAN
  /\ lock \in Tasks \cup {None}
  /\ pc \in [Tasks -> {"idle", "coupling", "other", "pull", "own", "mode", "cache",
                       "allowed", "fullspeed"}]
  /\ kind \in [Tasks -> Kinds]
  /\ DOMAIN arg = Tasks
  /\ \A t \in Tasks : /\ kind[t] = "mode" => arg[t] \in Modes
                      /\ kind[t] = "fullspeed" => arg[t] \in BOOLEAN
                      /\ kind[t] \in Limits => arg[t] \in Int
  /\ tied \in [Tasks -> BOOLEAN]
  /\ alone \in [Tasks -> BOOLEAN]
  /\ settled \in BOOLEAN /\ overtaken \in BOOLEAN /\ blind \in BOOLEAN
  /\ \A t \in Tasks : /\ pc[t] \in {"coupling", "other", "pull", "own"} => kind[t] \in Limits
                      /\ pc[t] \in {"mode", "cache"} => kind[t] = "mode"
                      /\ pc[t] \in {"allowed", "fullspeed"} => kind[t] = "fullspeed"
  /\ \A t \in Tasks : pc[t] = "fullspeed" <=> lock = t

\* However calls fail and whatever was in force before, limits that come from
\* coupled stores nobody disturbed are in order at every instant, the one
\* between the two firmware calls of a store included: pulling the other limit
\* along first keeps PL1 at or below PL2.
CoupledInOrder == settled => limits["pl1"] <= limits["pl2"]

\* The ranges of PL1 lie at or below those of PL2, in whatever modes.
Nested ==
  \A a, b \in Modes : /\ Cap[a]["pl1"].min <= Cap[b]["pl2"].min
                       /\ Cap[a]["pl1"].max <= Cap[b]["pl2"].max

\* No limit is ever outside every range the firmware advertises for it,
\* although the pulled limit is not clamped to a range of its own and the mode
\* may change between the clamp and the write.  Only a driver that could not
\* read the mode when it was loaded clamps nothing.
LimitsAdvertised ==
  ~blind => \A k \in Limits : \E m \in Modes : InRange(m, k, limits[k])

\* Full speed is turned on in custom mode only: a store of powermode cannot
\* come between the check and the write of fan_fullspeed_store.  A change of
\* mode that takes no mutex can.
FullspeedGuarded == [][~fullspeed /\ fullspeed' => (mode = Custom \/ overtaken)]_vars

\* A store that reports success and that nobody disturbed did what it says: the
\* mode and the driver's copy of it are the ones stored; the limit is in the
\* range of the mode in force, and in order with the other limit if the two are
\* coupled; full speed is on in custom mode only.
SuccessIsEffect == [][\A t \in Tasks : alone[t] =>
  /\ KeepCopy(t) => mode' = arg[t] /\ cached' = arg[t]
  /\ WriteOwn(t) => /\ InRange(mode', kind[t], limits'[kind[t]])
                    /\ tied[t] => limits'["pl1"] <= limits'["pl2"]
  /\ WriteFullspeed(t) => fullspeed' = arg[t] /\ (arg[t] => mode' = Custom)]_vars

\* Every store returns, whatever calls fail: each error path drops the mutex.
StoreReturns == \A t \in Tasks : []<>(pc[t] = "idle")

\* What docs/FINDINGS.md says of the limits: every value written is clamped to
\* the range of the mode in force.
ClampedToMode == [][\A t \in Tasks, k \in Limits, v \in Watts :
  StartLimit(t, k, v) /\ ~blind => InRange(mode, k, arg'[t])]_vars
=============================================================================
