-------------------------- MODULE DriverLifecycle --------------------------
(***************************************************************************)
(* Probe, removal and module unload of the driver.  legion_add takes the   *)
(* driver's one private structure, then resources and interfaces one by    *)
(* one; an error undoes them through its ladder of labels, legion_remove   *)
(* in an order of its own.  Several devices may be bound and unbound at    *)
(* the same time; WMI notifications, stores through the interfaces and     *)
(* changes of the power mode come in between.                              *)
(***************************************************************************)
EXTENDS Naturals

CONSTANTS
  Devices,     \* platform devices the driver matches
  Machines,    \* machines, kernels and module parameters of the instance
  FirstModel,  \* model of the first entry of optimistic_allowlist
  Modes,       \* power modes, in the numbers of WMI
  Nothing      \* no value

BALANCED == 2
Flags == {"acpi_check_dev", "check_embedded_controller_id", "rapidcharge", "fn_lock",
          "flip_to_start", "cpu_guid", "gpu_guid", "skip_oc_controls", "fan_fullspeed",
          "pl_coupling", "fan_unlock", "skip_ic_temp", "four_fans", "single_fan",
          "speed_only", "minifancurve", "fancurve_defaults", "keyboard",
          "ec_ylogo", "skip_ylogo_light", "skip_ioport_light"}
Model == [has : SUBSET Flags, powermode : {"EC", "WMI"}, fancurve : {"NO_ACCESS", "WMI3", "EC4", "other"}]

ASSUME MachineAssumption ==
  /\ Machines \subseteq [conf : Model, allowed : BOOLEAN, force : BOOLEAN,
                         enable_platformprofile : BOOLEAN, devm : BOOLEAN]
  /\ FirstModel \in Model
ASSUME ModeAssumption == Modes \subseteq Nat /\ BALANCED \in Modes
ASSUME NothingAssumption == Nothing \notin Devices \cup Modes \cup Model

VARIABLES
  machine,          \* fixed for good
  module,           \* "absent", "loaded", "unloading"
  pc,               \* step of each device's probe or removal
  platform_device,  \* priv->platform_device
  legion_shared,    \* legion_shared points to the private structure
  conf,             \* priv->conf
  fancurve_valid,   \* priv->fancurve is the table last read or written
  drvdata,          \* devices that know the private structure
  held,             \* resources and interfaces: memoryio, ports, debugfs, wmi
  group,            \* sysfs attributes of each device
  hwmon,            \* attributes of the hwmon device
  profiles,         \* devices with a platform profile
  ppdev,            \* the device of the profile registered last
  leds,             \* lights registered
  notify,           \* a WMI notification: "none", "event", "heard", "deaf"
  mode,             \* power mode of the firmware
  old_powermode,    \* local variable of toggle_powermode
  chosen,           \* history: the mode users and firmware chose last, and while a
                    \* toggle under way may undo that choice, the mode it had read
  intruded          \* history: a probe began while another device was in use, and what it
                    \* misplaced is still there

privVars == <<platform_device, legion_shared, conf, fancurve_valid>>
ifaceVars == <<drvdata, held, group, hwmon, profiles, ppdev, leds>>
modeVars == <<mode, old_powermode, chosen>>
vars == <<machine, module, pc, privVars, ifaceVars, notify, modeVars, intruded>>

-----------------------------------------------------------------------------
(* What a model shows *)

Has(flag) == flag \in conf.has

\* legion_sysfs_is_visible; an attribute may stand for several of a kind.
SysfsAttrs == {"rapidcharge", "fn_lock", "flip_to_start", "cpu_wmi", "gpu_wmi", "fan_fullspeed",
               "pl_coupling", "fan_unlock", "others"}
SysfsVisible == {a \in SysfsAttrs :
  /\ a \in {"rapidcharge", "fn_lock", "flip_to_start", "fan_fullspeed", "pl_coupling", "fan_unlock"} => Has(a)
  /\ a = "cpu_wmi" => Has("cpu_guid") /\ ~Has("skip_oc_controls")
  /\ a = "gpu_wmi" => Has("gpu_guid") /\ ~Has("skip_oc_controls")}

\* legion_hwmon_sensor_is_visible and legion_hwmon_fancurve_is_visible.
CurveAttrs == {"speed1", "speed2", "temps", "accel", "minifancurve", "fancurve_defaults"}
HwmonAttrs == {"sensors", "ic_temp", "fan2", "fan3_fan4"} \cup CurveAttrs
HwmonVisible == {a \in HwmonAttrs :
  /\ a = "ic_temp" => ~Has("skip_ic_temp")
  /\ a = "fan2" => ~Has("single_fan")
  /\ a = "fan3_fan4" => Has("four_fans")
  /\ a \in CurveAttrs => conf.fancurve # "NO_ACCESS" /\ (Has("speed_only") => a = "speed1")
  /\ a = "accel" => conf.fancurve # "EC4"
  /\ a \in {"minifancurve", "fancurve_defaults"} => Has(a)}

\* Lights of the model.
Offered(l) ==
  CASE l = "kbd_bl" -> Has("keyboard")
    [] l = "ylogo" -> Has("ec_ylogo") \/ ~Has("skip_ylogo_light")
    [] l = "ioport" -> ~Has("skip_ioport_light")

-----------------------------------------------------------------------------
(* The order of the steps *)

After == [
  check |-> "acpi", acpi |-> "memoryio", memoryio |-> "ecram", ecram |-> "ecid", ecid |-> "debugfs",
  debugfs |-> "sysfs", sysfs |-> "hwmon", hwmon |-> "profile", profile |-> "wmi", wmi |-> "kbd_bl",
  kbd_bl |-> "ylogo", ylogo |-> "ioport", ioport |-> "bound",
  ioport_exit |-> "ylogo_exit", ylogo_exit |-> "kbd_bl_exit", kbd_bl_exit |-> "wmi_exit",
  wmi_exit |-> "profile_remove", profile_remove |-> "toggle", toggle |-> "toggle_next",
  toggle_next |-> "toggle_back", toggle_back |-> "hwmon_exit", profile_exit |-> "hwmon_exit",
  hwmon_exit |-> "sysfs_exit", sysfs_exit |-> "debugfs_exit", debugfs_exit |-> "ecram_exit",
  ecram_exit |-> "memoryio_exit", memoryio_exit |-> "shared_exit", shared_exit |-> "release",
  release |-> "idle"]

\* Seeded fault: the label after a failed EC id check is one too low.
UndoShort == [
  acpi |-> "shared_exit", memoryio |-> "shared_exit", ecram |-> "memoryio_exit",
  ecid |-> "memoryio_exit", sysfs |-> "debugfs_exit", hwmon |-> "sysfs_exit",
  profile |-> "hwmon_exit", wmi |-> "profile_exit", toggle |-> "hwmon_exit"]

\* The label a step that fails goes to: the first step of the undoing.
Undo == [
  acpi |-> "shared_exit", memoryio |-> "shared_exit", ecram |-> "memoryio_exit",
  ecid |-> "ecram_exit", sysfs |-> "debugfs_exit", hwmon |-> "sysfs_exit",
  profile |-> "hwmon_exit", wmi |-> "profile_exit", toggle |-> "hwmon_exit"]

Steps == {"idle", "share", "bound"} \cup DOMAIN After

\* Light, or held resource, a step is about.
LightOf == [kbd_bl |-> "kbd_bl", ylogo |-> "ylogo", ioport |-> "ioport",
            kbd_bl_exit |-> "kbd_bl", ylogo_exit |-> "ylogo", ioport_exit |-> "ioport"]
FreedBy == [wmi_exit |-> "wmi", debugfs_exit |-> "debugfs", ecram_exit |-> "ports",
            memoryio_exit |-> "memoryio"]

At(d, step) == pc[d] = step
Goto(d, step) == pc' = [pc EXCEPT ![d] = step]
Proceed(d) == Goto(d, After[pc[d]])
Try(d, ok) == Goto(d, IF ok THEN After[pc[d]] ELSE Undo[pc[d]])
Hold(ok, x) == held' = IF ok THEN held \cup {x} ELSE held

Init ==
  /\ machine \in Machines
  /\ module = "absent"
  /\ pc = [d \in Devices |-> "idle"]
  /\ platform_device = Nothing /\ legion_shared = FALSE 
  /\ conf = Nothing /\ fancurve_valid = FALSE
  /\ drvdata = {} /\ held = {} /\ group = [d \in Devices |-> {}] /\ hwmon = {}
  /\ profiles = {} /\ ppdev = Nothing /\ leds = {}
  /\ notify = "none"
  /\ mode \in Modes /\ old_powermode = Nothing /\ chosen = {mode}
  /\ intruded = FALSE

-----------------------------------------------------------------------------
(* legion_add *)

\* The probe of a device begins and takes priv->platform_device for itself.  The
\* driver core probes no device that still has managed resources.
Claim(d) ==
  /\ module = "loaded" /\ At(d, "idle")
  /\ machine.devm => d \notin profiles
  /\ platform_device' = d
  /\ intruded' = ((intruded /\ \E e \in Devices : e \in profiles \/ group[e] # {})
                  \/ \E e \in Devices : pc[e] \notin {"idle", "release"})
  /\ Goto(d, "share")
  /\ UNCHANGED <<machine, module, legion_shared, conf, fancurve_valid, ifaceVars, notify, modeVars>>

\* Seeded fault: the table of the last binding is taken for the machine's.
SharedInitKeepsCurve(d) ==
  /\ At(d, "share")
  /\ IF legion_shared
     THEN Goto(d, "release") /\ UNCHANGED <<legion_shared, drvdata>>
     ELSE Goto(d, "check") /\ legion_shared' = TRUE /\ drvdata' = drvdata \cup {d}
  /\ UNCHANGED <<machine, module, platform_device, conf, fancurve_valid, held, group, hwmon,
                 profiles, ppdev, leds, notify, modeVars, intruded>>

\* legion_shared_init, in one step under legion_shared_mutex.
SharedInit(d) ==
  /\ At(d, "share")
  /\ IF legion_shared
     THEN Goto(d, "release") /\ UNCHANGED <<legion_shared, fancurve_valid, drvdata>>
     ELSE /\ Goto(d, "check")
          /\ legion_shared' = TRUE
          /\ fancurve_valid' = FALSE
          /\ drvdata' = drvdata \cup {d}
  /\ UNCHANGED <<machine, module, platform_device, conf, held, group, hwmon,
                 profiles, ppdev, leds, notify, modeVars, intruded>>

\* The allowlist (the denylist has no entry): a machine that is refused keeps
\* legion_shared set.
DoLoad == machine.allowed \/ machine.force
Check(d) ==
  /\ At(d, "check")
  /\ IF DoLoad
     THEN Proceed(d) /\ conf' = IF machine.allowed THEN machine.conf ELSE FirstModel
     ELSE Goto(d, "release") /\ conf' = conf
  /\ UNCHANGED <<machine, module, platform_device, legion_shared, fancurve_valid,
                 ifaceVars, notify, modeVars, intruded>>

\* acpi_init, and the check of the EC's id: force skips both.
AcpiInit(d, ok) ==
  /\ At(d, "acpi")
  /\ ok \/ (~machine.force /\ Has("acpi_check_dev"))
  /\ Try(d, ok)
  /\ UNCHANGED <<machine, module, privVars, ifaceVars, notify, modeVars, intruded>>
EcIdCheck(d, ok) ==
  /\ At(d, "ecid")
  /\ ok \/ (~machine.force /\ Has("check_embedded_controller_id"))
  /\ Try(d, ok)
  /\ UNCHANGED <<machine, module, privVars, ifaceVars, notify, modeVars, intruded>>

\* Resources and interfaces that are there or not.
Acquire(d, step, x, ok) ==
  /\ At(d, step)
  /\ Try(d, ok)
  /\ Hold(ok, x)
  /\ UNCHANGED <<machine, module, privVars, drvdata, group, hwmon, profiles, ppdev, leds,
                 notify, modeVars, intruded>>
MemoryIoInit(d, ok) == Acquire(d, "memoryio", "memoryio", ok)
EcramInit(d, ok) == (ok => "ports" \notin held) /\ Acquire(d, "ecram", "ports", ok)
DebugfsInit(d) == Acquire(d, "debugfs", "debugfs", TRUE)
WmiInit(d, ok) == Acquire(d, "wmi", "wmi", ok)

\* The group of attributes goes to priv->platform_device; a device that does not
\* know the private structure shows them all.
SysfsInit(d, ok) ==
  /\ At(d, "sysfs")
  /\ ok => group[platform_device] = {}
  /\ Try(d, ok)
  /\ group' = IF ok
              THEN [group EXCEPT ![platform_device] =
                      IF platform_device \in drvdata THEN SysfsVisible ELSE SysfsAttrs]
              ELSE group
  /\ UNCHANGED <<machine, module, privVars, drvdata, held, hwmon, profiles, ppdev, leds,
                 notify, modeVars, intruded>>

HwmonInit(d, ok) ==
  /\ At(d, "hwmon")
  /\ Try(d, ok)
  /\ hwmon' = IF ok THEN HwmonVisible ELSE hwmon
  /\ UNCHANGED <<machine, module, privVars, drvdata, held, group, profiles, ppdev, leds,
                 notify, modeVars, intruded>>

\* legion_platform_profile_init: from Linux 6.14 on managed by the device.
ProfileInit(d, ok) ==
  /\ At(d, "profile")
  /\ ok \/ machine.enable_platformprofile
  /\ Try(d, ok)
  /\ IF ok /\ machine.enable_platformprofile
     THEN profiles' = profiles \cup {platform_device} /\ ppdev' = platform_device
     ELSE UNCHANGED <<profiles, ppdev>>
  /\ UNCHANGED <<machine, module, privVars, drvdata, held, group, hwmon, leds, notify, modeVars, intruded>>

\* legion_kbd_bl_init, legion_ec_ylogo_init, legion_light_init: errors are ignored.
LightInit(d, ok) ==
  /\ pc[d] \in {"kbd_bl", "ylogo", "ioport"}
  /\ Proceed(d)
  /\ LET l == LightOf[pc[d]]
     IN  leds' = IF ok /\ Offered(l) /\ l \notin leds THEN leds \cup {l} ELSE leds
  /\ UNCHANGED <<machine, module, privVars, drvdata, held, group, hwmon, profiles, ppdev,
                 notify, modeVars, intruded>>

-----------------------------------------------------------------------------
(* legion_remove, and the ladder of labels of legion_add *)

Remove(d) ==
  /\ At(d, "bound")
  /\ Goto(d, "ioport_exit")
  /\ UNCHANGED <<machine, module, platform_device, legion_shared, conf, fancurve_valid,
                 ifaceVars, notify, modeVars, intruded>>

\* legion_kbd_bl_exit, legion_light_exit
LightExit(d) ==
  /\ pc[d] \in {"kbd_bl_exit", "ylogo_exit", "ioport_exit"}
  /\ Proceed(d)
  /\ leds' = leds \ {LightOf[pc[d]]}
  /\ UNCHANGED <<machine, module, privVars, drvdata, held, group, hwmon, profiles, ppdev,
                 notify, modeVars, intruded>>

\* Seeded fault: WMI is unregistered in the midst of a notification.
FreeAtOnce(d) ==
  /\ pc[d] \in DOMAIN FreedBy
  /\ Proceed(d)
  /\ held' = held \ {FreedBy[pc[d]]}
  /\ UNCHANGED <<machine, module, privVars, drvdata, group, hwmon, profiles, ppdev, leds,
                 notify, modeVars, intruded>>

\* legion_wmi_exit, which waits for a notification that runs, and
\* legion_debugfs_exit, ecram_exit, ecram_memoryio_exit.
Free(d) ==
  /\ pc[d] \in DOMAIN FreedBy
  /\ At(d, "wmi_exit") => notify = "none"
  /\ Proceed(d)
  /\ held' = held \ {FreedBy[pc[d]]}
  /\ UNCHANGED <<machine, module, privVars, drvdata, group, hwmon, profiles, ppdev, leds,
                 notify, modeVars, intruded>>

\* legion_platform_profile_exit: before Linux 6.14 only.
ProfileExit(d) ==
  /\ pc[d] \in {"profile_remove", "profile_exit"}
  /\ Proceed(d)
  /\ profiles' = IF machine.enable_platformprofile /\ ~machine.devm THEN {} ELSE profiles
  /\ UNCHANGED <<machine, module, privVars, drvdata, held, group, hwmon, ppdev, leds,
                 notify, modeVars, intruded>>

\* Seeded fault: the removal does not take back the hwmon device.
HwmonExitForgotten(d) ==
  /\ At(d, "hwmon_exit")
  /\ Proceed(d)
  /\ UNCHANGED <<machine, module, privVars, ifaceVars, notify, modeVars, intruded>>

HwmonExit(d) ==
  /\ At(d, "hwmon_exit")
  /\ Proceed(d)
  /\ hwmon' = {}
  /\ UNCHANGED <<machine, module, privVars, drvdata, held, group, profiles, ppdev, leds,
                 notify, modeVars, intruded>>

\* Seeded fault: nor the attributes.
SysfsExitForgotten(d) ==
  /\ At(d, "sysfs_exit")
  /\ Proceed(d)
  /\ UNCHANGED <<machine, module, privVars, ifaceVars, notify, modeVars, intruded>>

SysfsExit(d) ==
  /\ At(d, "sysfs_exit")
  /\ Proceed(d)
  /\ group' = [group EXCEPT ![platform_device] = {}]
  /\ UNCHANGED <<machine, module, privVars, drvdata, held, hwmon, profiles, ppdev, leds,
                 notify, modeVars, intruded>>

\* Seeded fault: nor the pointer.
SharedExitForgotten(d) ==
  /\ At(d, "shared_exit")
  /\ Proceed(d)
  /\ UNCHANGED <<machine, module, privVars, ifaceVars, notify, modeVars, intruded>>

SharedExit(d) ==
  /\ At(d, "shared_exit")
  /\ Proceed(d)
  /\ legion_shared' = FALSE
  /\ UNCHANGED <<machine, module, platform_device, conf, fancurve_valid, ifaceVars,
                 notify, modeVars, intruded>>

\* The driver core forgets the private structure and frees managed resources.
Release(d) ==
  /\ At(d, "release")
  /\ Proceed(d)
  /\ drvdata' = drvdata \ {d}
  /\ profiles' = IF machine.devm THEN profiles \ {d} ELSE profiles
  /\ UNCHANGED <<machine, module, privVars, held, group, hwmon, ppdev, leds, notify, modeVars, intruded>>

-----------------------------------------------------------------------------
(* toggle_powermode *)

\* Seeded fault: the mode before the toggle is not remembered.
ToggleReadForgets(d, ok) ==
  /\ At(d, "toggle")
  /\ ok \/ conf.powermode = "WMI"
  /\ Try(d, ok)
  /\ UNCHANGED <<machine, module, privVars, ifaceVars, notify, modeVars, intruded>>

\* Reading the mode fails only behind WMI.
ToggleRead(d, ok) ==
  /\ At(d, "toggle")
  /\ ok \/ conf.powermode = "WMI"
  /\ Try(d, ok)
  /\ old_powermode' = IF ok THEN mode ELSE old_powermode
  /\ UNCHANGED <<machine, module, privVars, ifaceVars, notify, mode, chosen, intruded>>

\* The mode that differs from the old one is 0: the EC takes it for balanced, and
\* the WMI path refuses it.
ToggleNext(d) ==
  /\ At(d, "toggle_next")
  /\ Proceed(d)
  /\ mode' = IF conf.powermode = "EC" THEN BALANCED ELSE mode
  /\ UNCHANGED <<machine, module, privVars, ifaceVars, notify, old_powermode, chosen, intruded>>

\* Seeded fault: the mode is not put back.
ToggleBackForgotten(d, ok) ==
  /\ At(d, "toggle_back")
  /\ ok \/ conf.powermode = "WMI"
  /\ Proceed(d)
  /\ old_powermode' = Nothing
  /\ UNCHANGED <<machine, module, privVars, ifaceVars, notify, mode, chosen, intruded>>

\* Writing it back may fail behind WMI, where nothing was changed.  Of the modes in
\* chosen only one in force stays there.
ToggleBack(d, ok) ==
  /\ At(d, "toggle_back")
  /\ ok \/ conf.powermode = "WMI"
  /\ Proceed(d)
  /\ mode' = IF ok THEN old_powermode ELSE mode
  /\ old_powermode' = Nothing
  /\ chosen' = chosen \cap {mode'}
  /\ UNCHANGED <<machine, module, privVars, ifaceVars, notify, intruded>>

-----------------------------------------------------------------------------
(* Notifications, users and the module *)

\* The firmware sends an event; none comes in once WMI is being unregistered.
WmiEvent ==
  /\ "wmi" \in held /\ \A d \in Devices : ~At(d, "wmi_exit")
  /\ notify = "none"
  /\ notify' = "event"
  /\ UNCHANGED <<machine, module, pc, privVars, ifaceVars, modeVars, intruded>>

\* Seeded fault: the removal keeps legion_shared_mutex, and the notification waits.
NotifyReadsLocked ==
  /\ notify = "event" /\ \A d \in Devices : ~At(d, "wmi_exit")
  /\ notify' = IF legion_shared THEN "heard" ELSE "deaf"
  /\ UNCHANGED <<machine, module, pc, privVars, ifaceVars, modeVars, intruded>>

\* legion_wmi_notify up to its sleep; what it finds in loaded it only prints.
NotifyReads ==
  /\ notify = "event"
  /\ notify' = IF legion_shared THEN "heard" ELSE "deaf"
  /\ UNCHANGED <<machine, module, pc, privVars, ifaceVars, modeVars, intruded>>

\* Half a second later it tells the profile, if it saw the private structure.
NotifyProfile ==
  /\ notify \in {"heard", "deaf"}
  /\ notify' = "none"
  /\ UNCHANGED <<machine, module, pc, privVars, ifaceVars, modeVars, intruded>>

\* A reading of the fan table that succeeds, through an attribute of hwmon or through
\* debugfs, whose file is there before and after them.
ReadCurve ==
  /\ "debugfs" \in held \/ hwmon \cap CurveAttrs # {}
  /\ conf.fancurve # "NO_ACCESS"
  /\ fancurve_valid' = TRUE
  /\ UNCHANGED <<machine, module, pc, platform_device, legion_shared, conf, ifaceVars,
                 notify, modeVars, intruded>>

\* A removal is between the reading of the mode and its writing back.
InToggle == \E d \in Devices : pc[d] \in {"toggle_next", "toggle_back"}

\* The key, the firmware, powermode or platform_profile changes the mode.
ModeChanges(m) ==
  /\ m # mode
  /\ mode' = m
  /\ chosen' = {m} \cup (IF InToggle THEN {old_powermode} ELSE {})
  /\ UNCHANGED <<machine, module, pc, privVars, ifaceVars, notify, old_powermode, intruded>>

\* legion_init: the module's variables are zero.
Load ==
  /\ module = "absent"
  /\ module' = "loaded"
  /\ platform_device' = Nothing /\ legion_shared' = FALSE
  /\ conf' = Nothing /\ fancurve_valid' = FALSE /\ ppdev' = Nothing
  /\ UNCHANGED <<machine, pc, drvdata, held, group, hwmon, profiles, leds, notify, modeVars, intruded>>

\* legion_exit unbinds every device and then leaves.
Unload ==
  /\ module = "loaded"
  /\ module' = "unloading"
  /\ UNCHANGED <<machine, pc, privVars, ifaceVars, notify, modeVars, intruded>>
Unloaded ==
  /\ module = "unloading" /\ \A d \in Devices : At(d, "idle")
  /\ module' = "absent"
  /\ UNCHANGED <<machine, pc, privVars, ifaceVars, notify, modeVars, intruded>>

\* The steps of a probe or removal under way.
Step(d) ==
  \/ SharedInit(d) \/ Check(d) \/ DebugfsInit(d)
  \/ \E ok \in BOOLEAN :
       \/ AcpiInit(d, ok) \/ MemoryIoInit(d, ok) \/ EcramInit(d, ok) \/ EcIdCheck(d, ok)
       \/ SysfsInit(d, ok) \/ HwmonInit(d, ok) \/ ProfileInit(d, ok) \/ WmiInit(d, ok)
       \/ LightInit(d, ok) \/ ToggleRead(d, ok) \/ ToggleBack(d, ok)
  \/ LightExit(d) \/ Free(d) \/ ProfileExit(d) \/ ToggleNext(d) \/ HwmonExit(d)
  \/ SysfsExit(d) \/ SharedExit(d) \/ Release(d)

Next ==
  \/ \E d \in Devices : Claim(d) \/ Step(d) \/ Remove(d)
  \/ WmiEvent \/ NotifyReads \/ NotifyProfile \/ ReadCurve
  \/ \E m \in Modes : ModeChanges(m)
  \/ Load \/ Unload \/ Unloaded

Spec == Init /\ [][Next]_vars

\* The kernel runs probes and removals to their end, lets a notification finish,
\* and unbinds the devices of a module that is being unloaded.
Fairness ==
  /\ \A d \in Devices : WF_vars(Step(d) \/ (module = "unloading" /\ Remove(d)))
  /\ WF_vars(NotifyReads \/ NotifyProfile) /\ WF_vars(Unloaded)
FairSpec == Spec /\ Fairness

-----------------------------------------------------------------------------
(* Properties *)

TypeOK ==
  /\ machine \in Machines
  /\ module \in {"absent", "loaded", "unloading"}
  /\ pc \in [Devices -> Steps]
  /\ platform_device \in Devices \cup {Nothing}
  /\ legion_shared \in BOOLEAN /\ fancurve_valid \in BOOLEAN
  /\ conf \in Model \cup {Nothing}
  /\ drvdata \in SUBSET Devices
  /\ held \in SUBSET {"memoryio", "ports", "debugfs", "wmi"}
  /\ group \in [Devices -> SUBSET SysfsAttrs]
  /\ hwmon \in SUBSET HwmonAttrs
  /\ profiles \in SUBSET Devices /\ ppdev \in Devices \cup {Nothing}
  /\ leds \in SUBSET {"kbd_bl", "ylogo", "ioport"}
  /\ notify \in {"none", "event", "heard", "deaf"}
  /\ mode \in Modes /\ chosen \in SUBSET Modes /\ old_powermode \in Modes \cup {Nothing}
  /\ intruded \in BOOLEAN

\* A device between legion_shared_init and legion_shared_exit.
Owns(d) == pc[d] \notin {"idle", "share", "release"}

\* The private structure has one owner, and it is given back on every path: where
\* the machine is accepted, a probe is refused as that of a second device only
\* while another device has it.
SharedOwned ==
  /\ \A d, e \in Devices : Owns(d) /\ Owns(e) => d = e
  /\ DoLoad => (legion_shared <=> \E d \in Devices : Owns(d))

\* Whatever reaches the EC - attributes, debugfs, the Y logo's light, a
\* notification, the toggle of the mode - does so while its ports are taken and
\* its memory mapped, on every path of probe, error and removal.  Only a group of
\* attributes that a second device misplaced outlives them.
PortsHeld ==
  \/ hwmon # {} \/ leds # {} \/ "debugfs" \in held \/ "wmi" \in held
  \/ \E d \in Devices : pc[d] \in {"toggle", "toggle_next", "toggle_back"}
  \/ ~intruded /\ \E d \in Devices : group[d] # {}
  => {"ports", "memoryio"} \subseteq held

\* An attribute of a device finds the private structure, and is one the model
\* has.  A second device breaks this: the group is added to, or removed from, the
\* device that claimed priv->platform_device last.
AttributesFit ==
  ~intruded => \A d \in Devices : group[d] # {} => d \in drvdata /\ group[d] \subseteq SysfsVisible

\* With no device in use nothing of the driver is left: no port, mapping,
\* attribute, light or profile, whatever failed on the way and even if a second
\* device came in between, but for what belongs to platform_device.
NothingLeft ==
  (\A d \in Devices : At(d, "idle")) =>
    /\ held = {} /\ hwmon = {} /\ leds = {} /\ drvdata = {}
    /\ ~intruded => profiles = {} /\ \A d \in Devices : group[d] = {}

\* A notification finds the private structure and tells a profile that is
\* registered, though it drops the mutex and sleeps in between; and while the
\* removal toggles the mode none is under way.
NotifyReachesProfile ==
  /\ notify # "deaf"
  /\ notify = "heard" /\ machine.enable_platformprofile /\ ~intruded => ppdev \in profiles
  /\ notify # "none" => \A d \in Devices : ~At(d, "toggle") /\ ~At(d, "toggle_next") /\ ~At(d, "toggle_back")

\* A new binding starts anew: no light and no hwmon device of the binding before, nor
\* after a module was loaded again; and no copy of a table, up to the file in debugfs,
\* whose first reader makes one.
FreshStart ==
  \A d \in Devices :
    /\ pc[d] \in {"check", "acpi", "memoryio", "ecram", "ecid", "debugfs"} => ~fancurve_valid
    /\ pc[d] \in {"check", "acpi", "memoryio", "ecram", "ecid", "debugfs", "sysfs", "hwmon"} =>
         leds = {} /\ hwmon = {}

\* A removal leaves a power mode that somebody chose: the last one, or, if that was
\* chosen before the writing back of toggle_powermode, the one in force when the toggle
\* began.  What the toggle wrote in between never stays, though the key, a store or the
\* firmware changes the mode between its calls and some of them are refused.
ModeKept == ~InToggle => mode \in chosen

\* Every probe and removal ends, and a module being unloaded leaves: neither a
\* notification nor another device's probe holds them up for ever.
Settles ==
  /\ \A d \in Devices : []<>(At(d, "idle") \/ At(d, "bound"))
  /\ []<>(module # "unloading")
=============================================================================
