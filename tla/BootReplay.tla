----------------------------- MODULE BootReplay -----------------------------
(***************************************************************************)
(* The boot script 83sc-thermal.sh replays boot.conf, the snapshot that    *)
(* the helper's boot-save took of a running machine, line by line through  *)
(* the power nodes of PowerControl.  The driver was just loaded, other     *)
(* tasks write the same nodes, the key and platform_profile change the     *)
(* mode, and any call may fail: the script goes on with the next line.     *)
(*                                                                         *)
(* boot.conf is truncated and written in place, so after a loss of power   *)
(* the file may end before any line; a line cut in the middle is not read. *)
(* Left out are lines that touch none of these nodes, and the points of    *)
(* the curve, which FanCurve models.                                       *)
(***************************************************************************)
EXTENDS PowerControl, Sequences

CONSTANTS
  Boot,      \* the task that runs the script
  Snapshots  \* what boot.conf may say: a value for each line it has

Keys == {"POWERMODE", "FAN_FULLSPEED", "FW_PL1", "FW_PL2", "PL_COUPLING", "CURVE_PWM"}

ASSUME BootAssumption == Boot \in Tasks
ASSUME SnapshotAssumption == \A s \in Snapshots :
  /\ DOMAIN s \subseteq Keys
  /\ \A key \in DOMAIN s : CASE key = "POWERMODE" -> s[key] \in Modes
                             [] key \in {"FW_PL1", "FW_PL2"} -> s[key] \in Int
                             [] OTHER -> s[key] \in BOOLEAN

VARIABLES
  saved,  \* boot.conf
  line,   \* index in Order of the line the script comes to next
  over,   \* the script came to the end of the file
  quiet   \* history: since it started no call failed, and nobody else changed
          \* what it sets

Nodes == <<mode, limits, fullspeed, cached, coupling>>
allVars == <<vars, saved, line, over, quiet>>

\* Seeded fault: boot-save writes the limits before the mode.
OrderLimitsFirst == <<"FW_PL1", "FW_PL2", "POWERMODE", "FAN_FULLSPEED", "PL_COUPLING",
                      "CURVE_PWM", "CURVE_FULLSPEED">>

\* The order boot-save writes the lines in; the last one is a part of CURVE_PWM.
Order == <<"POWERMODE", "FAN_FULLSPEED", "FW_PL1", "FW_PL2", "PL_COUPLING",
           "CURVE_PWM", "CURVE_FULLSPEED">>

LimitOf == [FW_PL1 |-> "pl1", FW_PL2 |-> "pl2"]

BootInit ==
  /\ Init
  /\ saved \in Snapshots
  /\ line = 1 /\ over = FALSE /\ quiet = TRUE

-----------------------------------------------------------------------------
(* apply_boot_conf, apply_curve_pwm *)

\* The script comes to a line that boot.conf has, and goes on to the next.
Reads(key) ==
  /\ ~over /\ pc[Boot] = "idle" /\ line <= Len(Order)
  /\ Order[line] = key
  /\ (IF key = "CURVE_FULLSPEED" THEN "CURVE_PWM" ELSE key) \in DOMAIN saved
  /\ line' = line + 1
  /\ UNCHANGED <<saved, over>>

\* boot-save could not read the node, and wrote no such line.
NoSuchLine ==
  /\ ~over /\ line <= Len(Order)
  /\ (IF Order[line] = "CURVE_FULLSPEED" THEN "CURVE_PWM" ELSE Order[line]) \notin DOMAIN saved
  /\ line' = line + 1
  /\ UNCHANGED <<vars, saved, over, quiet>>

ReplayPowermode ==
  /\ Reads("POWERMODE")
  /\ StartMode(Boot, saved["POWERMODE"])
  /\ UNCHANGED quiet
ReplayFullspeed ==
  /\ Reads("FAN_FULLSPEED")
  /\ StartFullspeed(Boot, saved["FAN_FULLSPEED"])
  /\ UNCHANGED quiet
ReplayLimit(key) ==
  /\ Reads(key)
  /\ StartLimit(Boot, LimitOf[key], saved[key])
  /\ UNCHANGED quiet
ReplayCoupling ==
  /\ Reads("PL_COUPLING")
  /\ CouplingStore(saved["PL_COUPLING"])
  /\ UNCHANGED quiet
ReplayCouplingFails ==
  /\ Reads("PL_COUPLING")
  /\ quiet' = FALSE
  /\ UNCHANGED vars

\* apply_curve_pwm asks for the mode, and sets 255 if it is another or cannot be read.
CurveInCustom ==
  /\ Reads("CURVE_PWM")
  /\ mode = Custom
  /\ UNCHANGED <<vars, quiet>>
CurveSetsCustom ==
  /\ Reads("CURVE_PWM")
  /\ quiet' = (quiet /\ mode # Custom)
  /\ StartMode(Boot, Custom)

\* find_hwmon found no fan device: the line is passed over.
CurveNoHwmon ==
  /\ ~over /\ pc[Boot] = "idle" /\ line <= Len(Order)
  /\ Order[line] = "CURVE_PWM" /\ "CURVE_PWM" \in DOMAIN saved
  /\ line' = line + 2
  /\ quiet' = FALSE
  /\ UNCHANGED <<vars, saved, over>>

\* Then it turns off full speed.
CurveClearsFullspeed ==
  /\ Reads("CURVE_FULLSPEED")
  /\ StartFullspeed(Boot, FALSE)
  /\ UNCHANGED quiet

\* The file ends: after its last line, or torn before any other.
EndOfFile ==
  /\ ~over /\ pc[Boot] = "idle"
  /\ line <= Len(Order) => Order[line] # "CURVE_FULLSPEED"
  /\ over' = TRUE
  /\ UNCHANGED <<vars, saved, line, quiet>>

\* A call of the running store fails, or full speed is refused.
Errs(t) ==
  \/ ReadOtherFails(t) \/ WriteOtherFails(t) \/ WriteOwnFails(t) \/ WriteModeFails(t)
  \/ FullspeedRefused(t) \/ WriteFullspeedFails(t)
Works(t) ==
  \/ CheckCoupling(t) \/ ReadOther(t) \/ WriteOther(t) \/ WriteOwn(t) \/ WriteMode(t)
  \/ KeepCopy(t) \/ FullspeedAllowed(t) \/ WriteFullspeed(t)

StoreSteps ==
  /\ \/ Works(Boot) /\ UNCHANGED quiet
     \/ Errs(Boot) /\ quiet' = FALSE
  /\ UNCHANGED <<saved, line, over>>

Script ==
  \/ NoSuchLine \/ EndOfFile \/ StoreSteps
  \/ ReplayPowermode \/ ReplayFullspeed \/ ReplayCoupling \/ ReplayCouplingFails
  \/ \E key \in DOMAIN LimitOf : ReplayLimit(key)
  \/ CurveInCustom \/ CurveSetsCustom \/ CurveNoHwmon \/ CurveClearsFullspeed

\* Everybody else.
Others ==
  /\ \/ \E t \in Tasks \ {Boot} : Act(t)
     \/ \E m \in Modes : ModeChangesOutside(m)
     \/ \E b \in BOOLEAN : CouplingStore(b)
  /\ quiet' = (quiet /\ Nodes' = Nodes)
  /\ UNCHANGED <<saved, line, over>>

BootNext == Script \/ Others
BootSpec == BootInit /\ [][BootNext]_allVars
FairBootSpec == BootSpec /\ Fairness

-----------------------------------------------------------------------------
(* Properties *)

\* The lines the script got to.
Replayed == {Order[i] : i \in 1..(line - 1)} \cap DOMAIN saved

\* Its mode is the one the machine ends in.
ModeStays == "CURVE_PWM" \in Replayed => saved["POWERMODE"] = Custom

\* A driver with coupled limits may hold them in this mode.
Holds(m, key) == CapdataClamp(Cap[m][LimitOf[key]], saved[key]) = saved[key]
LimitsLegal ==
  /\ "POWERMODE" \in Replayed
  /\ \A key \in {"FW_PL1", "FW_PL2"} \cap DOMAIN saved : Holds(saved["POWERMODE"], key)
  /\ {"FW_PL1", "FW_PL2"} \subseteq DOMAIN saved => saved["FW_PL1"] <= saved["FW_PL2"]

\* A replay that nobody disturbs, of a file that may be torn anywhere, leaves what
\* its lines say, though each line goes through stores that change more than one
\* thing - a mode brings its own limits and may drop full speed, a limit pulls the
\* other one along - and the driver starts with coupling on.  Two things it does
\* not restore: a curve forces custom mode without full speed, which may bring the
\* limits of that mode, and limits that cross, or that the mode does not hold.
ReplayRestores ==
  over /\ quiet =>
    /\ "POWERMODE" \in Replayed /\ ModeStays => mode = saved["POWERMODE"]
    /\ "CURVE_PWM" \in Replayed => mode = Custom /\ ~fullspeed
    /\ "FAN_FULLSPEED" \in Replayed /\ "CURVE_PWM" \notin Replayed => fullspeed = saved["FAN_FULLSPEED"]
    /\ "PL_COUPLING" \in Replayed => coupling = saved["PL_COUPLING"]
    /\ LimitsLegal /\ ModeStays =>
         \A key \in {"FW_PL1", "FW_PL2"} \cap Replayed : limits[LimitOf[key]] = saved[key]

\* What 83sc-thermal.sh says of the replay of a whole file: "it replays exactly what
\* the machine was running".
ReplaysExactly ==
  over /\ quiet /\ line > Len(Order) =>
    /\ "POWERMODE" \in DOMAIN saved => mode = saved["POWERMODE"]
    /\ "FAN_FULLSPEED" \in DOMAIN saved => fullspeed = saved["FAN_FULLSPEED"]
    /\ \A key \in {"FW_PL1", "FW_PL2"} \cap DOMAIN saved : limits[LimitOf[key]] = saved[key]
    /\ "PL_COUPLING" \in DOMAIN saved => coupling = saved["PL_COUPLING"]
=============================================================================
