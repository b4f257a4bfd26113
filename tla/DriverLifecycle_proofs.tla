----------------------- MODULE DriverLifecycle_proofs -----------------------
(***************************************************************************)
(* The private structure of the driver has one owner, and what the driver  *)
(* holds is settled by the step its owner has come to.  From this follow   *)
(* the invariants of DriverLifecycle for any number of devices and any     *)
(* machines.                                                               *)
(***************************************************************************)
EXTENDS DriverLifecycle, TLAPS

-----------------------------------------------------------------------------
(* The order of the steps *)

\* What follows a step that succeeds, and one that fails.
LEMMA Orders ==
  /\ After["check"] = "acpi" /\ After["acpi"] = "memoryio" /\ After["memoryio"] = "ecram"
  /\ After["ecram"] = "ecid" /\ After["ecid"] = "debugfs" /\ After["debugfs"] = "sysfs"
  /\ After["sysfs"] = "hwmon" /\ After["hwmon"] = "profile" /\ After["profile"] = "wmi"
  /\ After["wmi"] = "kbd_bl" /\ After["kbd_bl"] = "ylogo" /\ After["ylogo"] = "ioport"
  /\ After["ioport"] = "bound" /\ After["ioport_exit"] = "ylogo_exit"
  /\ After["ylogo_exit"] = "kbd_bl_exit" /\ After["kbd_bl_exit"] = "wmi_exit"
  /\ After["wmi_exit"] = "profile_remove" /\ After["profile_remove"] = "toggle"
  /\ After["toggle"] = "toggle_next" /\ After["toggle_next"] = "toggle_back"
  /\ After["toggle_back"] = "hwmon_exit" /\ After["profile_exit"] = "hwmon_exit"
  /\ After["hwmon_exit"] = "sysfs_exit" /\ After["sysfs_exit"] = "debugfs_exit"
  /\ After["debugfs_exit"] = "ecram_exit" /\ After["ecram_exit"] = "memoryio_exit"
  /\ After["memoryio_exit"] = "shared_exit" /\ After["shared_exit"] = "release"
  /\ After["release"] = "idle"
  /\ Undo["acpi"] = "shared_exit" /\ Undo["memoryio"] = "shared_exit"
  /\ Undo["ecram"] = "memoryio_exit" /\ Undo["ecid"] = "ecram_exit" /\ Undo["sysfs"] = "debugfs_exit"
  /\ Undo["hwmon"] = "sysfs_exit" /\ Undo["profile"] = "hwmon_exit" /\ Undo["wmi"] = "profile_exit"
  /\ Undo["toggle"] = "hwmon_exit"
  BY DEF After, Undo

\* The steps there are.
LEMMA StepsAre ==
  Steps = {"idle", "share", "bound", "check", "acpi", "memoryio", "ecram", "ecid", "debugfs",
           "sysfs", "hwmon", "profile", "wmi", "kbd_bl", "ylogo", "ioport", "ioport_exit", "ylogo_exit",
           "kbd_bl_exit", "wmi_exit", "profile_remove", "toggle", "toggle_next", "toggle_back",
           "profile_exit", "hwmon_exit", "sysfs_exit", "debugfs_exit", "ecram_exit",
           "memoryio_exit", "shared_exit", "release"}
  BY DEF Steps, After

\* The lights and resources the steps are about.
LEMMA Names ==
  /\ DOMAIN FreedBy = {"wmi_exit", "debugfs_exit", "ecram_exit", "memoryio_exit"}
  /\ FreedBy["wmi_exit"] = "wmi" /\ FreedBy["debugfs_exit"] = "debugfs"
  /\ FreedBy["ecram_exit"] = "ports" /\ FreedBy["memoryio_exit"] = "memoryio"
  /\ LightOf["kbd_bl"] = "kbd_bl" /\ LightOf["ylogo"] = "ylogo" /\ LightOf["ioport"] = "ioport"
  /\ LightOf["kbd_bl_exit"] = "kbd_bl" /\ LightOf["ylogo_exit"] = "ylogo"
  /\ LightOf["ioport_exit"] = "ioport"
  BY DEF FreedBy, LightOf

-----------------------------------------------------------------------------
(* Type correctness and the one owner *)

\* The private structure has one owner, which is accepted once it is past the
\* check of the lists; the module is absent only when no device is in use.
OneOwner ==
  /\ \A d, e \in Devices : Owns(d) /\ Owns(e) => d = e
  /\ \A d \in Devices : Owns(d) => legion_shared
  /\ DoLoad /\ legion_shared => \E d \in Devices : Owns(d)
  /\ \A d \in Devices : pc[d] # "idle" => platform_device \in Devices
  /\ module = "absent" => \A d \in Devices : pc[d] = "idle"
  /\ \A d \in Devices : pc[d] \in {"toggle_next", "toggle_back"} => old_powermode \in Modes
  /\ \A d \in Devices : Owns(d) /\ pc[d] # "check" => conf # Nothing /\ DoLoad

\* Every step keeps the types.
LEMMA TypeStep ==
  ASSUME TypeOK, OneOwner, [Next]_vars
  PROVE  TypeOK'
  <1>1. CASE UNCHANGED vars
    BY <1>1 DEF vars, privVars, ifaceVars, modeVars, TypeOK
  <1>2. ASSUME NEW d \in Devices, Claim(d) PROVE TypeOK'
    BY <1>2, StepsAre DEF Claim, At, Goto, ifaceVars, modeVars, TypeOK
  <1>3. ASSUME NEW d \in Devices, Remove(d) PROVE TypeOK'
    BY <1>3, StepsAre DEF Remove, At, Goto, ifaceVars, modeVars, TypeOK
  <1>4. ASSUME NEW d \in Devices, SharedInit(d) PROVE TypeOK'
    <2>1. pc' \in [Devices -> Steps]
      BY <1>4, Orders, StepsAre DEF SharedInit, At, Goto, TypeOK
    <2>2. UNCHANGED <<machine, module, platform_device, conf, held, group, hwmon, profiles,
       ppdev, leds, notify, mode, old_powermode, chosen, intruded>>
      BY <1>4 DEF SharedInit, At, Goto, privVars, ifaceVars, modeVars
    <2>3. legion_shared' \in BOOLEAN /\ fancurve_valid' \in BOOLEAN
      BY <1>4 DEF SharedInit, At, Goto, TypeOK
    <2>4. drvdata' \in SUBSET Devices
      BY <1>4 DEF SharedInit, At, Goto, TypeOK
    <2>5. QED BY <2>1, <2>2, <2>3, <2>4 DEF TypeOK
  <1>5. ASSUME NEW d \in Devices, Check(d) PROVE TypeOK'
    BY <1>5, Orders, StepsAre, MachineAssumption DEF Check, At, Goto, Proceed, ifaceVars,
       modeVars, TypeOK
  <1>6. ASSUME NEW d \in Devices, DebugfsInit(d) PROVE TypeOK'
    BY <1>6, Orders, StepsAre DEF DebugfsInit, Acquire, Hold, Try, At, Goto, privVars,
       modeVars, TypeOK
  <1>7. ASSUME NEW d \in Devices, NEW ok \in BOOLEAN, AcpiInit(d, ok) PROVE TypeOK'
    BY <1>7, Orders, StepsAre DEF AcpiInit, Try, At, Goto, privVars, ifaceVars, modeVars, TypeOK
  <1>8. ASSUME NEW d \in Devices, NEW ok \in BOOLEAN, MemoryIoInit(d, ok) PROVE TypeOK'
    BY <1>8, Orders, StepsAre DEF MemoryIoInit, Acquire, Hold, Try, At, Goto, privVars,
       modeVars, TypeOK
  <1>9. ASSUME NEW d \in Devices, NEW ok \in BOOLEAN, EcramInit(d, ok) PROVE TypeOK'
    BY <1>9, Orders, StepsAre DEF EcramInit, Acquire, Hold, Try, At, Goto, privVars, modeVars,
       TypeOK
  <1>10. ASSUME NEW d \in Devices, NEW ok \in BOOLEAN, EcIdCheck(d, ok) PROVE TypeOK'
    BY <1>10, Orders, StepsAre DEF EcIdCheck, Try, At, Goto, privVars, ifaceVars, modeVars, TypeOK
  <1>11. ASSUME NEW d \in Devices, NEW ok \in BOOLEAN, SysfsInit(d, ok) PROVE TypeOK'
    <2>1. pc' \in [Devices -> Steps]
      BY <1>11, Orders, StepsAre DEF SysfsInit, Try, At, Goto, TypeOK
    <2>2. UNCHANGED <<machine, module, platform_device, legion_shared, conf, fancurve_valid,
       drvdata, held, hwmon, profiles, ppdev, leds, notify, mode, old_powermode, chosen,
       intruded>>
      BY <1>11 DEF SysfsInit, Try, At, Goto, privVars, ifaceVars, modeVars
    <2>3. group' \in [Devices -> SUBSET SysfsAttrs]
      BY <1>11 DEF SysfsInit, Try, At, Goto, TypeOK, SysfsVisible
    <2>4. QED BY <2>1, <2>2, <2>3 DEF TypeOK
  <1>12. ASSUME NEW d \in Devices, NEW ok \in BOOLEAN, HwmonInit(d, ok) PROVE TypeOK'
    BY <1>12, Orders, StepsAre DEF HwmonInit, Try, At, Goto, privVars, modeVars, TypeOK,
       HwmonVisible
  <1>13. ASSUME NEW d \in Devices, NEW ok \in BOOLEAN, ProfileInit(d, ok) PROVE TypeOK'
    <2>1. pc' \in [Devices -> Steps]
      BY <1>13, Orders, StepsAre DEF ProfileInit, Try, At, Goto, TypeOK
    <2>2. UNCHANGED <<machine, module, platform_device, legion_shared, conf, fancurve_valid,
       drvdata, held, group, hwmon, leds, notify, mode, old_powermode, chosen, intruded>>
      BY <1>13 DEF ProfileInit, Try, At, Goto, privVars, ifaceVars, modeVars
    <2>3. platform_device \in Devices
      BY <1>13 DEF ProfileInit, Try, At, Goto, OneOwner
    <2>4. profiles' \in SUBSET Devices /\ ppdev' \in Devices \cup {Nothing}
      BY <1>13, <2>3 DEF ProfileInit, Try, At, Goto, TypeOK, ifaceVars
    <2>5. QED BY <2>1, <2>2, <2>3, <2>4 DEF TypeOK
  <1>14. ASSUME NEW d \in Devices, NEW ok \in BOOLEAN, WmiInit(d, ok) PROVE TypeOK'
    BY <1>14, Orders, StepsAre DEF WmiInit, Acquire, Hold, Try, At, Goto, privVars, modeVars,
       TypeOK
  <1>15. ASSUME NEW d \in Devices, NEW ok \in BOOLEAN, LightInit(d, ok) PROVE TypeOK'
    <2>1. pc' \in [Devices -> Steps]
      BY <1>15, Orders, StepsAre, Names DEF LightInit, Proceed, At, Goto, TypeOK
    <2>2. UNCHANGED <<machine, module, platform_device, legion_shared, conf, fancurve_valid,
       drvdata, held, group, hwmon, profiles, ppdev, notify, mode, old_powermode, chosen,
       intruded>>
      BY <1>15 DEF LightInit, Proceed, At, Goto, privVars, ifaceVars, modeVars
    <2>3. leds' \in SUBSET {"kbd_bl", "ylogo", "ioport"}
      BY <1>15, Names DEF LightInit, Proceed, At, Goto, TypeOK
    <2>4. QED BY <2>1, <2>2, <2>3 DEF TypeOK
  <1>16. ASSUME NEW d \in Devices, NEW ok \in BOOLEAN, ToggleRead(d, ok) PROVE TypeOK'
    BY <1>16, Orders, StepsAre DEF ToggleRead, Try, At, Goto, privVars, ifaceVars, TypeOK
  <1>17. ASSUME NEW d \in Devices, NEW ok \in BOOLEAN, ToggleBack(d, ok) PROVE TypeOK'
    BY <1>17, Orders, StepsAre DEF ToggleBack, Proceed, At, Goto, privVars, ifaceVars, TypeOK,
       OneOwner
  <1>18. ASSUME NEW d \in Devices, LightExit(d) PROVE TypeOK'
    <2>1. pc' \in [Devices -> Steps]
      BY <1>18, Orders, StepsAre, Names DEF LightExit, Proceed, At, Goto, TypeOK
    <2>2. UNCHANGED <<machine, module, platform_device, legion_shared, conf, fancurve_valid,
       drvdata, held, group, hwmon, profiles, ppdev, notify, mode, old_powermode, chosen,
       intruded>>
      BY <1>18 DEF LightExit, Proceed, At, Goto, privVars, ifaceVars, modeVars
    <2>3. leds' \in SUBSET {"kbd_bl", "ylogo", "ioport"}
      BY <1>18 DEF LightExit, Proceed, At, Goto, TypeOK
    <2>4. QED BY <2>1, <2>2, <2>3 DEF TypeOK
  <1>19. ASSUME NEW d \in Devices, Free(d) PROVE TypeOK'
    <2>1. pc' \in [Devices -> Steps]
      BY <1>19, Orders, StepsAre, Names DEF Free, Proceed, At, Goto, TypeOK
    <2>2. UNCHANGED <<machine, module, platform_device, legion_shared, conf, fancurve_valid,
       drvdata, group, hwmon, profiles, ppdev, leds, notify, mode, old_powermode, chosen,
       intruded>>
      BY <1>19 DEF Free, Proceed, At, Goto, privVars, ifaceVars, modeVars
    <2>3. held' \in SUBSET {"memoryio", "ports", "debugfs", "wmi"}
      BY <1>19 DEF Free, Proceed, At, Goto, TypeOK
    <2>4. QED BY <2>1, <2>2, <2>3 DEF TypeOK
  <1>20. ASSUME NEW d \in Devices, ProfileExit(d) PROVE TypeOK'
    BY <1>20, Orders, StepsAre DEF ProfileExit, Proceed, At, Goto, privVars, modeVars, TypeOK
  <1>21. ASSUME NEW d \in Devices, ToggleNext(d) PROVE TypeOK'
    BY <1>21, Orders, StepsAre, ModeAssumption DEF ToggleNext, Proceed, At, Goto, privVars,
       ifaceVars, TypeOK
  <1>22. ASSUME NEW d \in Devices, HwmonExit(d) PROVE TypeOK'
    BY <1>22, Orders, StepsAre DEF HwmonExit, Proceed, At, Goto, privVars, modeVars, TypeOK
  <1>23. ASSUME NEW d \in Devices, SysfsExit(d) PROVE TypeOK'
    <2>1. pc' \in [Devices -> Steps]
      BY <1>23, Orders, StepsAre DEF SysfsExit, Proceed, At, Goto, TypeOK
    <2>2. UNCHANGED <<machine, module, platform_device, legion_shared, conf, fancurve_valid,
       drvdata, held, hwmon, profiles, ppdev, leds, notify, mode, old_powermode, chosen,
       intruded>>
      BY <1>23 DEF SysfsExit, Proceed, At, Goto, privVars, ifaceVars, modeVars
    <2>3. group' \in [Devices -> SUBSET SysfsAttrs]
      BY <1>23 DEF SysfsExit, Proceed, At, Goto, TypeOK
    <2>4. QED BY <2>1, <2>2, <2>3 DEF TypeOK
  <1>24. ASSUME NEW d \in Devices, SharedExit(d) PROVE TypeOK'
    <2>1. pc' \in [Devices -> Steps]
      BY <1>24, Orders, StepsAre DEF SharedExit, Proceed, At, Goto, TypeOK
    <2>2. UNCHANGED <<machine, module, platform_device, conf, fancurve_valid, drvdata, held,
       group, hwmon, profiles, ppdev, leds, notify, mode, old_powermode, chosen, intruded>>
      BY <1>24 DEF SharedExit, Proceed, At, Goto, privVars, ifaceVars, modeVars
    <2>3. legion_shared' \in BOOLEAN
      BY <1>24 DEF SharedExit, Proceed, At, Goto
    <2>4. QED BY <2>1, <2>2, <2>3 DEF TypeOK
  <1>25. ASSUME NEW d \in Devices, Release(d) PROVE TypeOK'
    BY <1>25, Orders, StepsAre DEF Release, Proceed, At, Goto, privVars, modeVars, TypeOK
  <1>26. CASE WmiEvent
    BY <1>26 DEF WmiEvent, privVars, ifaceVars, modeVars, TypeOK
  <1>27. CASE NotifyReads
    BY <1>27 DEF NotifyReads, privVars, ifaceVars, modeVars, TypeOK
  <1>28. CASE NotifyProfile
    BY <1>28 DEF NotifyProfile, privVars, ifaceVars, modeVars, TypeOK
  <1>29. CASE ReadCurve
    BY <1>29 DEF ReadCurve, ifaceVars, modeVars, TypeOK
  <1>30. ASSUME NEW m \in Modes, ModeChanges(m) PROVE TypeOK'
    BY <1>30 DEF ModeChanges, InToggle, privVars, ifaceVars, TypeOK, OneOwner
  <1>31. CASE Load
    BY <1>31 DEF Load, modeVars, TypeOK
  <1>32. CASE Unload
    BY <1>32 DEF Unload, privVars, ifaceVars, modeVars, TypeOK
  <1>33. CASE Unloaded
    BY <1>33 DEF Unloaded, At, privVars, ifaceVars, modeVars, TypeOK
  <1>34. QED BY <1>1, <1>2, <1>3, <1>4, <1>5, <1>6, <1>7, <1>8, <1>9, <1>10, <1>11, <1>12,
     <1>13, <1>14, <1>15, <1>16, <1>17, <1>18, <1>19, <1>20, <1>21, <1>22, <1>23, <1>24, <1>25,
     <1>26, <1>27, <1>28, <1>29, <1>30, <1>31, <1>32, <1>33 DEF Next, Step

\* Every step keeps the one owner.
LEMMA OwnerStep ==
  ASSUME TypeOK, OneOwner, [Next]_vars
  PROVE  OneOwner'
  <1>1. CASE UNCHANGED vars
    BY <1>1 DEF vars, privVars, ifaceVars, modeVars, TypeOK, OneOwner, Owns, DoLoad
  <1>2. ASSUME NEW d \in Devices, Claim(d) PROVE OneOwner'
    BY <1>2 DEF Claim, At, Goto, ifaceVars, modeVars, TypeOK, OneOwner, Owns, DoLoad
  <1>3. ASSUME NEW d \in Devices, Remove(d) PROVE OneOwner'
    BY <1>3 DEF Remove, At, Goto, ifaceVars, modeVars, TypeOK, OneOwner, Owns, DoLoad
  <1>4. ASSUME NEW d \in Devices, SharedInit(d) PROVE OneOwner'
    BY <1>4 DEF SharedInit, At, Goto, modeVars, TypeOK, OneOwner, Owns, DoLoad
  <1>5. ASSUME NEW d \in Devices, Check(d) PROVE OneOwner'
    BY <1>5, Orders, NothingAssumption, MachineAssumption DEF Check, At, Goto, Proceed,
       ifaceVars, modeVars, TypeOK, OneOwner, Owns, DoLoad
  <1>6. ASSUME NEW d \in Devices, DebugfsInit(d) PROVE OneOwner'
    BY <1>6, Orders DEF DebugfsInit, Acquire, Hold, Try, At, Goto, privVars, modeVars, TypeOK,
       OneOwner, Owns, DoLoad
  <1>7. ASSUME NEW d \in Devices, NEW ok \in BOOLEAN, AcpiInit(d, ok) PROVE OneOwner'
    BY <1>7, Orders DEF AcpiInit, Try, At, Goto, privVars, ifaceVars, modeVars, TypeOK,
       OneOwner, Owns, DoLoad
  <1>8. ASSUME NEW d \in Devices, NEW ok \in BOOLEAN, MemoryIoInit(d, ok) PROVE OneOwner'
    BY <1>8, Orders DEF MemoryIoInit, Acquire, Hold, Try, At, Goto, privVars, modeVars,
       TypeOK, OneOwner, Owns, DoLoad
  <1>9. ASSUME NEW d \in Devices, NEW ok \in BOOLEAN, EcramInit(d, ok) PROVE OneOwner'
    BY <1>9, Orders DEF EcramInit, Acquire, Hold, Try, At, Goto, privVars, modeVars, TypeOK,
       OneOwner, Owns, DoLoad
  <1>10. ASSUME NEW d \in Devices, NEW ok \in BOOLEAN, EcIdCheck(d, ok) PROVE OneOwner'
    BY <1>10, Orders DEF EcIdCheck, Try, At, Goto, privVars, ifaceVars, modeVars, TypeOK,
       OneOwner, Owns, DoLoad
  <1>11. ASSUME NEW d \in Devices, NEW ok \in BOOLEAN, SysfsInit(d, ok) PROVE OneOwner'
    BY <1>11, Orders DEF SysfsInit, Try, At, Goto, privVars, modeVars, TypeOK, OneOwner, Owns,
       DoLoad
  <1>12. ASSUME NEW d \in Devices, NEW ok \in BOOLEAN, HwmonInit(d, ok) PROVE OneOwner'
    BY <1>12, Orders DEF HwmonInit, Try, At, Goto, privVars, modeVars, TypeOK, OneOwner, Owns,
       DoLoad
  <1>13. ASSUME NEW d \in Devices, NEW ok \in BOOLEAN, ProfileInit(d, ok) PROVE OneOwner'
    BY <1>13, Orders DEF ProfileInit, Try, At, Goto, privVars, modeVars, TypeOK, OneOwner,
       Owns, DoLoad
  <1>14. ASSUME NEW d \in Devices, NEW ok \in BOOLEAN, WmiInit(d, ok) PROVE OneOwner'
    BY <1>14, Orders DEF WmiInit, Acquire, Hold, Try, At, Goto, privVars, modeVars, TypeOK,
       OneOwner, Owns, DoLoad
  <1>15. ASSUME NEW d \in Devices, NEW ok \in BOOLEAN, LightInit(d, ok) PROVE OneOwner'
    BY <1>15, Orders DEF LightInit, Proceed, At, Goto, privVars, modeVars, TypeOK, OneOwner,
       Owns, DoLoad
  <1>16. ASSUME NEW d \in Devices, NEW ok \in BOOLEAN, ToggleRead(d, ok) PROVE OneOwner'
    BY <1>16, Orders, ModeAssumption DEF ToggleRead, Try, At, Goto, privVars, ifaceVars,
       TypeOK, OneOwner, Owns, DoLoad
  <1>17. ASSUME NEW d \in Devices, NEW ok \in BOOLEAN, ToggleBack(d, ok) PROVE OneOwner'
    BY <1>17, Orders DEF ToggleBack, Proceed, At, Goto, privVars, ifaceVars, TypeOK, OneOwner,
       Owns, DoLoad
  <1>18. ASSUME NEW d \in Devices, LightExit(d) PROVE OneOwner'
    BY <1>18, Orders DEF LightExit, Proceed, At, Goto, privVars, modeVars, TypeOK, OneOwner,
       Owns, DoLoad
  <1>19. ASSUME NEW d \in Devices, Free(d) PROVE OneOwner'
    BY <1>19, Orders, Names DEF Free, Proceed, At, Goto, privVars, modeVars, TypeOK, OneOwner,
       Owns, DoLoad
  <1>20. ASSUME NEW d \in Devices, ProfileExit(d) PROVE OneOwner'
    BY <1>20, Orders DEF ProfileExit, Proceed, At, Goto, privVars, modeVars, TypeOK, OneOwner,
       Owns, DoLoad
  <1>21. ASSUME NEW d \in Devices, ToggleNext(d) PROVE OneOwner'
    BY <1>21, Orders DEF ToggleNext, Proceed, At, Goto, privVars, ifaceVars, TypeOK, OneOwner,
       Owns, DoLoad
  <1>22. ASSUME NEW d \in Devices, HwmonExit(d) PROVE OneOwner'
    BY <1>22, Orders DEF HwmonExit, Proceed, At, Goto, privVars, modeVars, TypeOK, OneOwner,
       Owns, DoLoad
  <1>23. ASSUME NEW d \in Devices, SysfsExit(d) PROVE OneOwner'
    BY <1>23, Orders DEF SysfsExit, Proceed, At, Goto, privVars, modeVars, TypeOK, OneOwner,
       Owns, DoLoad
  <1>24. ASSUME NEW d \in Devices, SharedExit(d) PROVE OneOwner'
    BY <1>24, Orders DEF SharedExit, Proceed, At, Goto, ifaceVars, modeVars, TypeOK, OneOwner,
       Owns, DoLoad
  <1>25. ASSUME NEW d \in Devices, Release(d) PROVE OneOwner'
    BY <1>25, Orders DEF Release, Proceed, At, Goto, privVars, modeVars, TypeOK, OneOwner,
       Owns, DoLoad
  <1>26. CASE WmiEvent
    BY <1>26 DEF WmiEvent, privVars, ifaceVars, modeVars, TypeOK, OneOwner, Owns, DoLoad
  <1>27. CASE NotifyReads
    BY <1>27 DEF NotifyReads, privVars, ifaceVars, modeVars, TypeOK, OneOwner, Owns, DoLoad
  <1>28. CASE NotifyProfile
    BY <1>28 DEF NotifyProfile, privVars, ifaceVars, modeVars, TypeOK, OneOwner, Owns, DoLoad
  <1>29. CASE ReadCurve
    BY <1>29 DEF ReadCurve, ifaceVars, modeVars, TypeOK, OneOwner, Owns, DoLoad
  <1>30. ASSUME NEW m \in Modes, ModeChanges(m) PROVE OneOwner'
    BY <1>30 DEF ModeChanges, privVars, ifaceVars, TypeOK, OneOwner, Owns, DoLoad
  <1>31. CASE Load
    BY <1>31 DEF Load, modeVars, TypeOK, OneOwner, Owns, DoLoad
  <1>32. CASE Unload
    BY <1>32 DEF Unload, privVars, ifaceVars, modeVars, TypeOK, OneOwner, Owns, DoLoad
  <1>33. CASE Unloaded
    BY <1>33 DEF Unloaded, At, privVars, ifaceVars, modeVars, TypeOK, OneOwner, Owns, DoLoad
  <1>34. QED BY <1>1, <1>2, <1>3, <1>4, <1>5, <1>6, <1>7, <1>8, <1>9, <1>10, <1>11, <1>12,
     <1>13, <1>14, <1>15, <1>16, <1>17, <1>18, <1>19, <1>20, <1>21, <1>22, <1>23, <1>24, <1>25,
     <1>26, <1>27, <1>28, <1>29, <1>30, <1>31, <1>32, <1>33 DEF Next, Step

-----------------------------------------------------------------------------
(* What is held follows the step of the owner *)

Removing == {"ioport_exit", "ylogo_exit", "kbd_bl_exit", "wmi_exit"}
Toggling == {"toggle", "toggle_next", "toggle_back"}
WmiSteps == {"kbd_bl", "ylogo", "ioport", "bound"} \cup Removing
HwmonSteps == {"profile", "wmi", "profile_remove", "profile_exit", "hwmon_exit"} \cup Toggling \cup WmiSteps
SysfsSteps == {"hwmon", "sysfs_exit"} \cup HwmonSteps
DebugSteps == {"sysfs", "debugfs_exit"} \cup SysfsSteps
PortSteps == {"ecid", "debugfs", "ecram_exit"} \cup DebugSteps
MemorySteps == {"ecram", "memoryio_exit"} \cup PortSteps

\* The ports and the mapping are taken exactly at their steps; the others at most.
Holdings ==
  /\ \A d \in Devices : pc[d] \in MemorySteps => "memoryio" \in held
  /\ \A d \in Devices : pc[d] \in PortSteps => "ports" \in held
  /\ "memoryio" \in held => \E d \in Devices : pc[d] \in MemorySteps
  /\ "ports" \in held => \E d \in Devices : pc[d] \in PortSteps
  /\ "debugfs" \in held => \E d \in Devices : pc[d] \in DebugSteps
  /\ "wmi" \in held => \E d \in Devices : pc[d] \in WmiSteps
  /\ hwmon # {} => \E d \in Devices : pc[d] \in HwmonSteps

\* Every step keeps to what its place holds.
LEMMA HoldingsStep ==
  ASSUME TypeOK, OneOwner, Holdings, [Next]_vars
  PROVE  Holdings'
  <1>1. CASE UNCHANGED vars
    BY <1>1 DEF vars, privVars, ifaceVars, modeVars, TypeOK, OneOwner, Owns, Holdings,
       Removing, Toggling, WmiSteps, HwmonSteps, SysfsSteps, DebugSteps, PortSteps,
       MemorySteps
  <1>2. ASSUME NEW d \in Devices, Claim(d) PROVE Holdings'
    BY <1>2 DEF Claim, At, Goto, ifaceVars, modeVars, TypeOK, OneOwner, Owns, Holdings,
       Removing, Toggling, WmiSteps, HwmonSteps, SysfsSteps, DebugSteps, PortSteps,
       MemorySteps
  <1>3. ASSUME NEW d \in Devices, Remove(d) PROVE Holdings'
    BY <1>3 DEF Remove, At, Goto, ifaceVars, modeVars, TypeOK, OneOwner, Owns, Holdings,
       Removing, Toggling, WmiSteps, HwmonSteps, SysfsSteps, DebugSteps, PortSteps,
       MemorySteps
  <1>4. ASSUME NEW d \in Devices, SharedInit(d) PROVE Holdings'
    BY <1>4 DEF SharedInit, At, Goto, modeVars, TypeOK, OneOwner, Owns, Holdings, Removing,
       Toggling, WmiSteps, HwmonSteps, SysfsSteps, DebugSteps, PortSteps, MemorySteps
  <1>5. ASSUME NEW d \in Devices, Check(d) PROVE Holdings'
    BY <1>5, Orders DEF Check, At, Goto, Proceed, ifaceVars, modeVars, TypeOK, OneOwner, Owns,
       Holdings, Removing, Toggling, WmiSteps, HwmonSteps, SysfsSteps, DebugSteps, PortSteps,
       MemorySteps
  <1>6. ASSUME NEW d \in Devices, DebugfsInit(d) PROVE Holdings'
    BY <1>6, Orders DEF DebugfsInit, Acquire, Hold, Try, At, Goto, privVars, modeVars, TypeOK,
       OneOwner, Owns, Holdings, Removing, Toggling, WmiSteps, HwmonSteps, SysfsSteps,
       DebugSteps, PortSteps, MemorySteps
  <1>7. ASSUME NEW d \in Devices, NEW ok \in BOOLEAN, AcpiInit(d, ok) PROVE Holdings'
    BY <1>7, Orders DEF AcpiInit, Try, At, Goto, privVars, ifaceVars, modeVars, TypeOK,
       OneOwner, Owns, Holdings, Removing, Toggling, WmiSteps, HwmonSteps, SysfsSteps,
       DebugSteps, PortSteps, MemorySteps
  <1>8. ASSUME NEW d \in Devices, NEW ok \in BOOLEAN, MemoryIoInit(d, ok) PROVE Holdings'
    BY <1>8, Orders DEF MemoryIoInit, Acquire, Hold, Try, At, Goto, privVars, modeVars,
       TypeOK, OneOwner, Owns, Holdings, Removing, Toggling, WmiSteps, HwmonSteps, SysfsSteps,
       DebugSteps, PortSteps, MemorySteps
  <1>9. ASSUME NEW d \in Devices, NEW ok \in BOOLEAN, EcramInit(d, ok) PROVE Holdings'
    BY <1>9, Orders DEF EcramInit, Acquire, Hold, Try, At, Goto, privVars, modeVars, TypeOK,
       OneOwner, Owns, Holdings, Removing, Toggling, WmiSteps, HwmonSteps, SysfsSteps,
       DebugSteps, PortSteps, MemorySteps
  <1>10. ASSUME NEW d \in Devices, NEW ok \in BOOLEAN, EcIdCheck(d, ok) PROVE Holdings'
    BY <1>10, Orders DEF EcIdCheck, Try, At, Goto, privVars, ifaceVars, modeVars, TypeOK,
       OneOwner, Owns, Holdings, Removing, Toggling, WmiSteps, HwmonSteps, SysfsSteps,
       DebugSteps, PortSteps, MemorySteps
  <1>11. ASSUME NEW d \in Devices, NEW ok \in BOOLEAN, SysfsInit(d, ok) PROVE Holdings'
    BY <1>11, Orders DEF SysfsInit, Try, At, Goto, privVars, modeVars, TypeOK, OneOwner, Owns,
       Holdings, Removing, Toggling, WmiSteps, HwmonSteps, SysfsSteps, DebugSteps, PortSteps,
       MemorySteps
  <1>12. ASSUME NEW d \in Devices, NEW ok \in BOOLEAN, HwmonInit(d, ok) PROVE Holdings'
    BY <1>12, Orders DEF HwmonInit, Try, At, Goto, privVars, modeVars, TypeOK, OneOwner, Owns,
       Holdings, Removing, Toggling, WmiSteps, HwmonSteps, SysfsSteps, DebugSteps, PortSteps,
       MemorySteps
  <1>13. ASSUME NEW d \in Devices, NEW ok \in BOOLEAN, ProfileInit(d, ok) PROVE Holdings'
    BY <1>13, Orders DEF ProfileInit, Try, At, Goto, privVars, modeVars, TypeOK, OneOwner,
       Owns, Holdings, Removing, Toggling, WmiSteps, HwmonSteps, SysfsSteps, DebugSteps,
       PortSteps, MemorySteps
  <1>14. ASSUME NEW d \in Devices, NEW ok \in BOOLEAN, WmiInit(d, ok) PROVE Holdings'
    BY <1>14, Orders DEF WmiInit, Acquire, Hold, Try, At, Goto, privVars, modeVars, TypeOK,
       OneOwner, Owns, Holdings, Removing, Toggling, WmiSteps, HwmonSteps, SysfsSteps,
       DebugSteps, PortSteps, MemorySteps
  <1>15. ASSUME NEW d \in Devices, NEW ok \in BOOLEAN, LightInit(d, ok) PROVE Holdings'
    BY <1>15, Orders, Names DEF LightInit, Proceed, At, Goto, privVars, modeVars, TypeOK,
       OneOwner, Owns, Holdings, Removing, Toggling, WmiSteps, HwmonSteps, SysfsSteps,
       DebugSteps, PortSteps, MemorySteps
  <1>16. ASSUME NEW d \in Devices, NEW ok \in BOOLEAN, ToggleRead(d, ok) PROVE Holdings'
    BY <1>16, Orders DEF ToggleRead, Try, At, Goto, privVars, ifaceVars, TypeOK, OneOwner,
       Owns, Holdings, Removing, Toggling, WmiSteps, HwmonSteps, SysfsSteps, DebugSteps,
       PortSteps, MemorySteps
  <1>17. ASSUME NEW d \in Devices, NEW ok \in BOOLEAN, ToggleBack(d, ok) PROVE Holdings'
    BY <1>17, Orders DEF ToggleBack, Proceed, At, Goto, privVars, ifaceVars, TypeOK, OneOwner,
       Owns, Holdings, Removing, Toggling, WmiSteps, HwmonSteps, SysfsSteps, DebugSteps,
       PortSteps, MemorySteps
  <1>18. ASSUME NEW d \in Devices, LightExit(d) PROVE Holdings'
    BY <1>18, Orders, Names DEF LightExit, Proceed, At, Goto, privVars, modeVars, TypeOK,
       OneOwner, Owns, Holdings, Removing, Toggling, WmiSteps, HwmonSteps, SysfsSteps,
       DebugSteps, PortSteps, MemorySteps
  <1>19. ASSUME NEW d \in Devices, Free(d) PROVE Holdings'
    BY <1>19, Orders, Names DEF Free, Proceed, At, Goto, privVars, modeVars, TypeOK, OneOwner,
       Owns, Holdings, Removing, Toggling, WmiSteps, HwmonSteps, SysfsSteps, DebugSteps,
       PortSteps, MemorySteps
  <1>20. ASSUME NEW d \in Devices, ProfileExit(d) PROVE Holdings'
    BY <1>20, Orders DEF ProfileExit, Proceed, At, Goto, privVars, modeVars, TypeOK, OneOwner,
       Owns, Holdings, Removing, Toggling, WmiSteps, HwmonSteps, SysfsSteps, DebugSteps,
       PortSteps, MemorySteps
  <1>21. ASSUME NEW d \in Devices, ToggleNext(d) PROVE Holdings'
    BY <1>21, Orders DEF ToggleNext, Proceed, At, Goto, privVars, ifaceVars, TypeOK, OneOwner,
       Owns, Holdings, Removing, Toggling, WmiSteps, HwmonSteps, SysfsSteps, DebugSteps,
       PortSteps, MemorySteps
  <1>22. ASSUME NEW d \in Devices, HwmonExit(d) PROVE Holdings'
    BY <1>22, Orders DEF HwmonExit, Proceed, At, Goto, privVars, modeVars, TypeOK, OneOwner,
       Owns, Holdings, Removing, Toggling, WmiSteps, HwmonSteps, SysfsSteps, DebugSteps,
       PortSteps, MemorySteps
  <1>23. ASSUME NEW d \in Devices, SysfsExit(d) PROVE Holdings'
    BY <1>23, Orders DEF SysfsExit, Proceed, At, Goto, privVars, modeVars, TypeOK, OneOwner,
       Owns, Holdings, Removing, Toggling, WmiSteps, HwmonSteps, SysfsSteps, DebugSteps,
       PortSteps, MemorySteps
  <1>24. ASSUME NEW d \in Devices, SharedExit(d) PROVE Holdings'
    BY <1>24, Orders DEF SharedExit, Proceed, At, Goto, ifaceVars, modeVars, TypeOK, OneOwner,
       Owns, Holdings, Removing, Toggling, WmiSteps, HwmonSteps, SysfsSteps, DebugSteps,
       PortSteps, MemorySteps
  <1>25. ASSUME NEW d \in Devices, Release(d) PROVE Holdings'
    BY <1>25, Orders DEF Release, Proceed, At, Goto, privVars, modeVars, TypeOK, OneOwner,
       Owns, Holdings, Removing, Toggling, WmiSteps, HwmonSteps, SysfsSteps, DebugSteps,
       PortSteps, MemorySteps
  <1>26. CASE WmiEvent
    BY <1>26 DEF WmiEvent, privVars, ifaceVars, modeVars, TypeOK, OneOwner, Owns, Holdings,
       Removing, Toggling, WmiSteps, HwmonSteps, SysfsSteps, DebugSteps, PortSteps,
       MemorySteps
  <1>27. CASE NotifyReads
    BY <1>27 DEF NotifyReads, privVars, ifaceVars, modeVars, TypeOK, OneOwner, Owns, Holdings,
       Removing, Toggling, WmiSteps, HwmonSteps, SysfsSteps, DebugSteps, PortSteps,
       MemorySteps
  <1>28. CASE NotifyProfile
    BY <1>28 DEF NotifyProfile, privVars, ifaceVars, modeVars, TypeOK, OneOwner, Owns,
       Holdings, Removing, Toggling, WmiSteps, HwmonSteps, SysfsSteps, DebugSteps, PortSteps,
       MemorySteps
  <1>29. CASE ReadCurve
    BY <1>29 DEF ReadCurve, ifaceVars, modeVars, TypeOK, OneOwner, Owns, Holdings, Removing,
       Toggling, WmiSteps, HwmonSteps, SysfsSteps, DebugSteps, PortSteps, MemorySteps
  <1>30. ASSUME NEW m \in Modes, ModeChanges(m) PROVE Holdings'
    BY <1>30 DEF ModeChanges, privVars, ifaceVars, TypeOK, OneOwner, Owns, Holdings, Removing,
       Toggling, WmiSteps, HwmonSteps, SysfsSteps, DebugSteps, PortSteps, MemorySteps
  <1>31. CASE Load
    BY <1>31 DEF Load, modeVars, TypeOK, OneOwner, Owns, Holdings, Removing, Toggling,
       WmiSteps, HwmonSteps, SysfsSteps, DebugSteps, PortSteps, MemorySteps
  <1>32. CASE Unload
    BY <1>32 DEF Unload, privVars, ifaceVars, modeVars, TypeOK, OneOwner, Owns, Holdings,
       Removing, Toggling, WmiSteps, HwmonSteps, SysfsSteps, DebugSteps, PortSteps,
       MemorySteps
  <1>33. CASE Unloaded
    BY <1>33 DEF Unloaded, At, privVars, ifaceVars, modeVars, TypeOK, OneOwner, Owns,
       Holdings, Removing, Toggling, WmiSteps, HwmonSteps, SysfsSteps, DebugSteps, PortSteps,
       MemorySteps
  <1>34. QED BY <1>1, <1>2, <1>3, <1>4, <1>5, <1>6, <1>7, <1>8, <1>9, <1>10, <1>11, <1>12,
     <1>13, <1>14, <1>15, <1>16, <1>17, <1>18, <1>19, <1>20, <1>21, <1>22, <1>23, <1>24, <1>25,
     <1>26, <1>27, <1>28, <1>29, <1>30, <1>31, <1>32, <1>33 DEF Next, Step

\* A light is registered only between its two steps, and the private structure is
\* known only to devices past legion_shared_init.
Lights ==
  /\ \A l \in leds : \E d \in Devices :
       \/ pc[d] \in {"bound", "ioport_exit"}
       \/ l # "ioport" /\ pc[d] \in {"ioport", "ylogo_exit"}
       \/ l = "kbd_bl" /\ pc[d] \in {"ylogo", "kbd_bl_exit"}
  /\ \A d \in Devices : Owns(d) => d \in drvdata
  /\ \A d \in drvdata : pc[d] \notin {"idle", "share"}

\* Every step does so for lights and private structure.
LEMMA LightsStep ==
  ASSUME TypeOK, OneOwner, Lights, [Next]_vars
  PROVE  Lights'
  <1>1. CASE UNCHANGED vars
    BY <1>1 DEF vars, privVars, ifaceVars, modeVars, TypeOK, OneOwner, Owns, Lights
  <1>2. ASSUME NEW d \in Devices, Claim(d) PROVE Lights'
    BY <1>2 DEF Claim, At, Goto, ifaceVars, modeVars, TypeOK, OneOwner, Owns, Lights
  <1>3. ASSUME NEW d \in Devices, Remove(d) PROVE Lights'
    BY <1>3 DEF Remove, At, Goto, ifaceVars, modeVars, TypeOK, OneOwner, Owns, Lights
  <1>4. ASSUME NEW d \in Devices, SharedInit(d) PROVE Lights'
    BY <1>4 DEF SharedInit, At, Goto, modeVars, TypeOK, OneOwner, Owns, Lights
  <1>5. ASSUME NEW d \in Devices, Check(d) PROVE Lights'
    BY <1>5, Orders DEF Check, At, Goto, Proceed, ifaceVars, modeVars, TypeOK, OneOwner, Owns,
       Lights
  <1>6. ASSUME NEW d \in Devices, DebugfsInit(d) PROVE Lights'
    BY <1>6, Orders DEF DebugfsInit, Acquire, Hold, Try, At, Goto, privVars, modeVars, TypeOK,
       OneOwner, Owns, Lights
  <1>7. ASSUME NEW d \in Devices, NEW ok \in BOOLEAN, AcpiInit(d, ok) PROVE Lights'
    BY <1>7, Orders DEF AcpiInit, Try, At, Goto, privVars, ifaceVars, modeVars, TypeOK,
       OneOwner, Owns, Lights
  <1>8. ASSUME NEW d \in Devices, NEW ok \in BOOLEAN, MemoryIoInit(d, ok) PROVE Lights'
    BY <1>8, Orders DEF MemoryIoInit, Acquire, Hold, Try, At, Goto, privVars, modeVars,
       TypeOK, OneOwner, Owns, Lights
  <1>9. ASSUME NEW d \in Devices, NEW ok \in BOOLEAN, EcramInit(d, ok) PROVE Lights'
    BY <1>9, Orders DEF EcramInit, Acquire, Hold, Try, At, Goto, privVars, modeVars, TypeOK,
       OneOwner, Owns, Lights
  <1>10. ASSUME NEW d \in Devices, NEW ok \in BOOLEAN, EcIdCheck(d, ok) PROVE Lights'
    BY <1>10, Orders DEF EcIdCheck, Try, At, Goto, privVars, ifaceVars, modeVars, TypeOK,
       OneOwner, Owns, Lights
  <1>11. ASSUME NEW d \in Devices, NEW ok \in BOOLEAN, SysfsInit(d, ok) PROVE Lights'
    BY <1>11, Orders DEF SysfsInit, Try, At, Goto, privVars, modeVars, TypeOK, OneOwner, Owns,
       Lights
  <1>12. ASSUME NEW d \in Devices, NEW ok \in BOOLEAN, HwmonInit(d, ok) PROVE Lights'
    BY <1>12, Orders DEF HwmonInit, Try, At, Goto, privVars, modeVars, TypeOK, OneOwner, Owns,
       Lights
  <1>13. ASSUME NEW d \in Devices, NEW ok \in BOOLEAN, ProfileInit(d, ok) PROVE Lights'
    BY <1>13, Orders DEF ProfileInit, Try, At, Goto, privVars, modeVars, TypeOK, OneOwner,
       Owns, Lights
  <1>14. ASSUME NEW d \in Devices, NEW ok \in BOOLEAN, WmiInit(d, ok) PROVE Lights'
    BY <1>14, Orders DEF WmiInit, Acquire, Hold, Try, At, Goto, privVars, modeVars, TypeOK,
       OneOwner, Owns, Lights
  <1>15. ASSUME NEW d \in Devices, NEW ok \in BOOLEAN, LightInit(d, ok) PROVE Lights'
    BY <1>15, Orders, Names DEF LightInit, Proceed, At, Goto, privVars, modeVars, TypeOK,
       OneOwner, Owns, Lights
  <1>16. ASSUME NEW d \in Devices, NEW ok \in BOOLEAN, ToggleRead(d, ok) PROVE Lights'
    BY <1>16, Orders DEF ToggleRead, Try, At, Goto, privVars, ifaceVars, TypeOK, OneOwner,
       Owns, Lights
  <1>17. ASSUME NEW d \in Devices, NEW ok \in BOOLEAN, ToggleBack(d, ok) PROVE Lights'
    BY <1>17, Orders DEF ToggleBack, Proceed, At, Goto, privVars, ifaceVars, TypeOK, OneOwner,
       Owns, Lights
  <1>18. ASSUME NEW d \in Devices, LightExit(d) PROVE Lights'
    BY <1>18, Orders, Names DEF LightExit, Proceed, At, Goto, privVars, modeVars, TypeOK,
       OneOwner, Owns, Lights
  <1>19. ASSUME NEW d \in Devices, Free(d) PROVE Lights'
    BY <1>19, Orders, Names DEF Free, Proceed, At, Goto, privVars, modeVars, TypeOK, OneOwner,
       Owns, Lights
  <1>20. ASSUME NEW d \in Devices, ProfileExit(d) PROVE Lights'
    BY <1>20, Orders DEF ProfileExit, Proceed, At, Goto, privVars, modeVars, TypeOK, OneOwner,
       Owns, Lights
  <1>21. ASSUME NEW d \in Devices, ToggleNext(d) PROVE Lights'
    BY <1>21, Orders DEF ToggleNext, Proceed, At, Goto, privVars, ifaceVars, TypeOK, OneOwner,
       Owns, Lights
  <1>22. ASSUME NEW d \in Devices, HwmonExit(d) PROVE Lights'
    BY <1>22, Orders DEF HwmonExit, Proceed, At, Goto, privVars, modeVars, TypeOK, OneOwner,
       Owns, Lights
  <1>23. ASSUME NEW d \in Devices, SysfsExit(d) PROVE Lights'
    BY <1>23, Orders DEF SysfsExit, Proceed, At, Goto, privVars, modeVars, TypeOK, OneOwner,
       Owns, Lights
  <1>24. ASSUME NEW d \in Devices, SharedExit(d) PROVE Lights'
    BY <1>24, Orders DEF SharedExit, Proceed, At, Goto, ifaceVars, modeVars, TypeOK, OneOwner,
       Owns, Lights
  <1>25. ASSUME NEW d \in Devices, Release(d) PROVE Lights'
    BY <1>25, Orders DEF Release, Proceed, At, Goto, privVars, modeVars, TypeOK, OneOwner,
       Owns, Lights
  <1>26. CASE WmiEvent
    BY <1>26 DEF WmiEvent, privVars, ifaceVars, modeVars, TypeOK, OneOwner, Owns, Lights
  <1>27. CASE NotifyReads
    BY <1>27 DEF NotifyReads, privVars, ifaceVars, modeVars, TypeOK, OneOwner, Owns, Lights
  <1>28. CASE NotifyProfile
    BY <1>28 DEF NotifyProfile, privVars, ifaceVars, modeVars, TypeOK, OneOwner, Owns, Lights
  <1>29. CASE ReadCurve
    BY <1>29 DEF ReadCurve, ifaceVars, modeVars, TypeOK, OneOwner, Owns, Lights
  <1>30. ASSUME NEW m \in Modes, ModeChanges(m) PROVE Lights'
    BY <1>30 DEF ModeChanges, privVars, ifaceVars, TypeOK, OneOwner, Owns, Lights
  <1>31. CASE Load
    BY <1>31 DEF Load, modeVars, TypeOK, OneOwner, Owns, Lights
  <1>32. CASE Unload
    BY <1>32 DEF Unload, privVars, ifaceVars, modeVars, TypeOK, OneOwner, Owns, Lights
  <1>33. CASE Unloaded
    BY <1>33 DEF Unloaded, At, privVars, ifaceVars, modeVars, TypeOK, OneOwner, Owns, Lights
  <1>34. QED BY <1>1, <1>2, <1>3, <1>4, <1>5, <1>6, <1>7, <1>8, <1>9, <1>10, <1>11, <1>12,
     <1>13, <1>14, <1>15, <1>16, <1>17, <1>18, <1>19, <1>20, <1>21, <1>22, <1>23, <1>24, <1>25,
     <1>26, <1>27, <1>28, <1>29, <1>30, <1>31, <1>32, <1>33 DEF Next, Step

\* A notification runs only while WMI is registered, and knows the owner.
Quiet ==
  /\ notify # "none" => \E d \in Devices : pc[d] \in WmiSteps
  /\ notify # "deaf"

\* No step lets a notification outlive WMI.
LEMMA QuietStep ==
  ASSUME TypeOK, OneOwner, Holdings, Quiet, [Next]_vars
  PROVE  Quiet'
  <1>1. CASE UNCHANGED vars
    BY <1>1 DEF vars, privVars, ifaceVars, modeVars, TypeOK, OneOwner, Owns, Holdings, Quiet,
       WmiSteps, Removing
  <1>2. ASSUME NEW d \in Devices, Claim(d) PROVE Quiet'
    BY <1>2 DEF Claim, At, Goto, ifaceVars, modeVars, TypeOK, OneOwner, Owns, Holdings, Quiet,
       WmiSteps, Removing
  <1>3. ASSUME NEW d \in Devices, Remove(d) PROVE Quiet'
    BY <1>3 DEF Remove, At, Goto, ifaceVars, modeVars, TypeOK, OneOwner, Owns, Holdings,
       Quiet, WmiSteps, Removing
  <1>4. ASSUME NEW d \in Devices, SharedInit(d) PROVE Quiet'
    BY <1>4 DEF SharedInit, At, Goto, modeVars, TypeOK, OneOwner, Owns, Holdings, Quiet,
       WmiSteps, Removing
  <1>5. ASSUME NEW d \in Devices, Check(d) PROVE Quiet'
    BY <1>5, Orders DEF Check, At, Goto, Proceed, ifaceVars, modeVars, TypeOK, OneOwner, Owns,
       Holdings, Quiet, WmiSteps, Removing
  <1>6. ASSUME NEW d \in Devices, DebugfsInit(d) PROVE Quiet'
    BY <1>6, Orders DEF DebugfsInit, Acquire, Hold, Try, At, Goto, privVars, modeVars, TypeOK,
       OneOwner, Owns, Holdings, Quiet, WmiSteps, Removing
  <1>7. ASSUME NEW d \in Devices, NEW ok \in BOOLEAN, AcpiInit(d, ok) PROVE Quiet'
    BY <1>7, Orders DEF AcpiInit, Try, At, Goto, privVars, ifaceVars, modeVars, TypeOK,
       OneOwner, Owns, Holdings, Quiet, WmiSteps, Removing
  <1>8. ASSUME NEW d \in Devices, NEW ok \in BOOLEAN, MemoryIoInit(d, ok) PROVE Quiet'
    BY <1>8, Orders DEF MemoryIoInit, Acquire, Hold, Try, At, Goto, privVars, modeVars,
       TypeOK, OneOwner, Owns, Holdings, Quiet, WmiSteps, Removing
  <1>9. ASSUME NEW d \in Devices, NEW ok \in BOOLEAN, EcramInit(d, ok) PROVE Quiet'
    BY <1>9, Orders DEF EcramInit, Acquire, Hold, Try, At, Goto, privVars, modeVars, TypeOK,
       OneOwner, Owns, Holdings, Quiet, WmiSteps, Removing
  <1>10. ASSUME NEW d \in Devices, NEW ok \in BOOLEAN, EcIdCheck(d, ok) PROVE Quiet'
    BY <1>10, Orders DEF EcIdCheck, Try, At, Goto, privVars, ifaceVars, modeVars, TypeOK,
       OneOwner, Owns, Holdings, Quiet, WmiSteps, Removing
  <1>11. ASSUME NEW d \in Devices, NEW ok \in BOOLEAN, SysfsInit(d, ok) PROVE Quiet'
    BY <1>11, Orders DEF SysfsInit, Try, At, Goto, privVars, modeVars, TypeOK, OneOwner, Owns,
       Holdings, Quiet, WmiSteps, Removing
  <1>12. ASSUME NEW d \in Devices, NEW ok \in BOOLEAN, HwmonInit(d, ok) PROVE Quiet'
    BY <1>12, Orders DEF HwmonInit, Try, At, Goto, privVars, modeVars, TypeOK, OneOwner, Owns,
       Holdings, Quiet, WmiSteps, Removing
  <1>13. ASSUME NEW d \in Devices, NEW ok \in BOOLEAN, ProfileInit(d, ok) PROVE Quiet'
    BY <1>13, Orders DEF ProfileInit, Try, At, Goto, privVars, modeVars, TypeOK, OneOwner,
       Owns, Holdings, Quiet, WmiSteps, Removing
  <1>14. ASSUME NEW d \in Devices, NEW ok \in BOOLEAN, WmiInit(d, ok) PROVE Quiet'
    BY <1>14, Orders DEF WmiInit, Acquire, Hold, Try, At, Goto, privVars, modeVars, TypeOK,
       OneOwner, Owns, Holdings, Quiet, WmiSteps, Removing
  <1>15. ASSUME NEW d \in Devices, NEW ok \in BOOLEAN, LightInit(d, ok) PROVE Quiet'
    BY <1>15, Orders DEF LightInit, Proceed, At, Goto, privVars, modeVars, TypeOK, OneOwner,
       Owns, Holdings, Quiet, WmiSteps, Removing
  <1>16. ASSUME NEW d \in Devices, NEW ok \in BOOLEAN, ToggleRead(d, ok) PROVE Quiet'
    BY <1>16, Orders DEF ToggleRead, Try, At, Goto, privVars, ifaceVars, TypeOK, OneOwner,
       Owns, Holdings, Quiet, WmiSteps, Removing
  <1>17. ASSUME NEW d \in Devices, NEW ok \in BOOLEAN, ToggleBack(d, ok) PROVE Quiet'
    BY <1>17, Orders DEF ToggleBack, Proceed, At, Goto, privVars, ifaceVars, TypeOK, OneOwner,
       Owns, Holdings, Quiet, WmiSteps, Removing
  <1>18. ASSUME NEW d \in Devices, LightExit(d) PROVE Quiet'
    BY <1>18, Orders, Names DEF LightExit, Proceed, At, Goto, privVars, modeVars, TypeOK,
       OneOwner, Owns, Holdings, Quiet, WmiSteps, Removing
  <1>19. ASSUME NEW d \in Devices, Free(d) PROVE Quiet'
    BY <1>19, Orders, Names DEF Free, Proceed, At, Goto, privVars, modeVars, TypeOK, OneOwner,
       Owns, Holdings, Quiet, WmiSteps, Removing
  <1>20. ASSUME NEW d \in Devices, ProfileExit(d) PROVE Quiet'
    BY <1>20, Orders DEF ProfileExit, Proceed, At, Goto, privVars, modeVars, TypeOK, OneOwner,
       Owns, Holdings, Quiet, WmiSteps, Removing
  <1>21. ASSUME NEW d \in Devices, ToggleNext(d) PROVE Quiet'
    BY <1>21, Orders DEF ToggleNext, Proceed, At, Goto, privVars, ifaceVars, TypeOK, OneOwner,
       Owns, Holdings, Quiet, WmiSteps, Removing
  <1>22. ASSUME NEW d \in Devices, HwmonExit(d) PROVE Quiet'
    BY <1>22, Orders DEF HwmonExit, Proceed, At, Goto, privVars, modeVars, TypeOK, OneOwner,
       Owns, Holdings, Quiet, WmiSteps, Removing
  <1>23. ASSUME NEW d \in Devices, SysfsExit(d) PROVE Quiet'
    BY <1>23, Orders DEF SysfsExit, Proceed, At, Goto, privVars, modeVars, TypeOK, OneOwner,
       Owns, Holdings, Quiet, WmiSteps, Removing
  <1>24. ASSUME NEW d \in Devices, SharedExit(d) PROVE Quiet'
    BY <1>24, Orders DEF SharedExit, Proceed, At, Goto, ifaceVars, modeVars, TypeOK, OneOwner,
       Owns, Holdings, Quiet, WmiSteps, Removing
  <1>25. ASSUME NEW d \in Devices, Release(d) PROVE Quiet'
    BY <1>25, Orders DEF Release, Proceed, At, Goto, privVars, modeVars, TypeOK, OneOwner,
       Owns, Holdings, Quiet, WmiSteps, Removing
  <1>26. CASE WmiEvent
    BY <1>26 DEF WmiEvent, privVars, ifaceVars, modeVars, TypeOK, OneOwner, Owns, Holdings,
       Quiet, WmiSteps, Removing, At
  <1>27. CASE NotifyReads
    BY <1>27 DEF NotifyReads, privVars, ifaceVars, modeVars, TypeOK, OneOwner, Owns, Holdings,
       Quiet, WmiSteps, Removing
  <1>28. CASE NotifyProfile
    BY <1>28 DEF NotifyProfile, privVars, ifaceVars, modeVars, TypeOK, OneOwner, Owns,
       Holdings, Quiet, WmiSteps, Removing
  <1>29. CASE ReadCurve
    BY <1>29 DEF ReadCurve, ifaceVars, modeVars, TypeOK, OneOwner, Owns, Holdings, Quiet,
       WmiSteps, Removing
  <1>30. ASSUME NEW m \in Modes, ModeChanges(m) PROVE Quiet'
    BY <1>30 DEF ModeChanges, privVars, ifaceVars, TypeOK, OneOwner, Owns, Holdings, Quiet,
       WmiSteps, Removing
  <1>31. CASE Load
    BY <1>31 DEF Load, modeVars, TypeOK, OneOwner, Owns, Holdings, Quiet, WmiSteps, Removing
  <1>32. CASE Unload
    BY <1>32 DEF Unload, privVars, ifaceVars, modeVars, TypeOK, OneOwner, Owns, Holdings,
       Quiet, WmiSteps, Removing
  <1>33. CASE Unloaded
    BY <1>33 DEF Unloaded, At, privVars, ifaceVars, modeVars, TypeOK, OneOwner, Owns,
       Holdings, Quiet, WmiSteps, Removing
  <1>34. QED BY <1>1, <1>2, <1>3, <1>4, <1>5, <1>6, <1>7, <1>8, <1>9, <1>10, <1>11, <1>12,
     <1>13, <1>14, <1>15, <1>16, <1>17, <1>18, <1>19, <1>20, <1>21, <1>22, <1>23, <1>24, <1>25,
     <1>26, <1>27, <1>28, <1>29, <1>30, <1>31, <1>32, <1>33 DEF Next, Step

\* The table of the binding before is forgotten until the file in debugfs is there.
Fresh ==
  \A d \in Devices :
    pc[d] \in {"check", "acpi", "memoryio", "ecram", "ecid", "debugfs"} => ~fancurve_valid

\* No step brings a table before debugfs is there.
LEMMA FreshStep ==
  ASSUME TypeOK, OneOwner, Holdings, Fresh, [Next]_vars
  PROVE  Fresh'
  <1>1. CASE UNCHANGED vars
    BY <1>1 DEF vars, privVars, ifaceVars, modeVars, TypeOK, OneOwner, Owns, Fresh
  <1>2. ASSUME NEW d \in Devices, Claim(d) PROVE Fresh'
    BY <1>2 DEF Claim, At, Goto, ifaceVars, modeVars, TypeOK, OneOwner, Owns, Fresh
  <1>3. ASSUME NEW d \in Devices, Remove(d) PROVE Fresh'
    BY <1>3 DEF Remove, At, Goto, ifaceVars, modeVars, TypeOK, OneOwner, Owns, Fresh
  <1>4. ASSUME NEW d \in Devices, SharedInit(d) PROVE Fresh'
    BY <1>4 DEF SharedInit, At, Goto, modeVars, TypeOK, OneOwner, Owns, Fresh
  <1>5. ASSUME NEW d \in Devices, Check(d) PROVE Fresh'
    BY <1>5, Orders DEF Check, At, Goto, Proceed, ifaceVars, modeVars, TypeOK, OneOwner, Owns,
       Fresh
  <1>6. ASSUME NEW d \in Devices, DebugfsInit(d) PROVE Fresh'
    BY <1>6, Orders DEF DebugfsInit, Acquire, Hold, Try, At, Goto, privVars, modeVars, TypeOK,
       OneOwner, Owns, Fresh
  <1>7. ASSUME NEW d \in Devices, NEW ok \in BOOLEAN, AcpiInit(d, ok) PROVE Fresh'
    BY <1>7, Orders DEF AcpiInit, Try, At, Goto, privVars, ifaceVars, modeVars, TypeOK,
       OneOwner, Owns, Fresh
  <1>8. ASSUME NEW d \in Devices, NEW ok \in BOOLEAN, MemoryIoInit(d, ok) PROVE Fresh'
    BY <1>8, Orders DEF MemoryIoInit, Acquire, Hold, Try, At, Goto, privVars, modeVars,
       TypeOK, OneOwner, Owns, Fresh
  <1>9. ASSUME NEW d \in Devices, NEW ok \in BOOLEAN, EcramInit(d, ok) PROVE Fresh'
    BY <1>9, Orders DEF EcramInit, Acquire, Hold, Try, At, Goto, privVars, modeVars, TypeOK,
       OneOwner, Owns, Fresh
  <1>10. ASSUME NEW d \in Devices, NEW ok \in BOOLEAN, EcIdCheck(d, ok) PROVE Fresh'
    BY <1>10, Orders DEF EcIdCheck, Try, At, Goto, privVars, ifaceVars, modeVars, TypeOK,
       OneOwner, Owns, Fresh
  <1>11. ASSUME NEW d \in Devices, NEW ok \in BOOLEAN, SysfsInit(d, ok) PROVE Fresh'
    BY <1>11, Orders DEF SysfsInit, Try, At, Goto, privVars, modeVars, TypeOK, OneOwner, Owns,
       Fresh
  <1>12. ASSUME NEW d \in Devices, NEW ok \in BOOLEAN, HwmonInit(d, ok) PROVE Fresh'
    BY <1>12, Orders DEF HwmonInit, Try, At, Goto, privVars, modeVars, TypeOK, OneOwner, Owns,
       Fresh
  <1>13. ASSUME NEW d \in Devices, NEW ok \in BOOLEAN, ProfileInit(d, ok) PROVE Fresh'
    BY <1>13, Orders DEF ProfileInit, Try, At, Goto, privVars, modeVars, TypeOK, OneOwner,
       Owns, Fresh
  <1>14. ASSUME NEW d \in Devices, NEW ok \in BOOLEAN, WmiInit(d, ok) PROVE Fresh'
    BY <1>14, Orders DEF WmiInit, Acquire, Hold, Try, At, Goto, privVars, modeVars, TypeOK,
       OneOwner, Owns, Fresh
  <1>15. ASSUME NEW d \in Devices, NEW ok \in BOOLEAN, LightInit(d, ok) PROVE Fresh'
    BY <1>15, Orders DEF LightInit, Proceed, At, Goto, privVars, modeVars, TypeOK, OneOwner,
       Owns, Fresh
  <1>16. ASSUME NEW d \in Devices, NEW ok \in BOOLEAN, ToggleRead(d, ok) PROVE Fresh'
    BY <1>16, Orders DEF ToggleRead, Try, At, Goto, privVars, ifaceVars, TypeOK, OneOwner,
       Owns, Fresh
  <1>17. ASSUME NEW d \in Devices, NEW ok \in BOOLEAN, ToggleBack(d, ok) PROVE Fresh'
    BY <1>17, Orders DEF ToggleBack, Proceed, At, Goto, privVars, ifaceVars, TypeOK, OneOwner,
       Owns, Fresh
  <1>18. ASSUME NEW d \in Devices, LightExit(d) PROVE Fresh'
    BY <1>18, Orders DEF LightExit, Proceed, At, Goto, privVars, modeVars, TypeOK, OneOwner,
       Owns, Fresh
  <1>19. ASSUME NEW d \in Devices, Free(d) PROVE Fresh'
    BY <1>19, Orders, Names DEF Free, Proceed, At, Goto, privVars, modeVars, TypeOK, OneOwner,
       Owns, Fresh
  <1>20. ASSUME NEW d \in Devices, ProfileExit(d) PROVE Fresh'
    BY <1>20, Orders DEF ProfileExit, Proceed, At, Goto, privVars, modeVars, TypeOK, OneOwner,
       Owns, Fresh
  <1>21. ASSUME NEW d \in Devices, ToggleNext(d) PROVE Fresh'
    BY <1>21, Orders DEF ToggleNext, Proceed, At, Goto, privVars, ifaceVars, TypeOK, OneOwner,
       Owns, Fresh
  <1>22. ASSUME NEW d \in Devices, HwmonExit(d) PROVE Fresh'
    BY <1>22, Orders DEF HwmonExit, Proceed, At, Goto, privVars, modeVars, TypeOK, OneOwner,
       Owns, Fresh
  <1>23. ASSUME NEW d \in Devices, SysfsExit(d) PROVE Fresh'
    BY <1>23, Orders DEF SysfsExit, Proceed, At, Goto, privVars, modeVars, TypeOK, OneOwner,
       Owns, Fresh
  <1>24. ASSUME NEW d \in Devices, SharedExit(d) PROVE Fresh'
    BY <1>24, Orders DEF SharedExit, Proceed, At, Goto, ifaceVars, modeVars, TypeOK, OneOwner,
       Owns, Fresh
  <1>25. ASSUME NEW d \in Devices, Release(d) PROVE Fresh'
    BY <1>25, Orders DEF Release, Proceed, At, Goto, privVars, modeVars, TypeOK, OneOwner,
       Owns, Fresh
  <1>26. CASE WmiEvent
    BY <1>26 DEF WmiEvent, privVars, ifaceVars, modeVars, TypeOK, OneOwner, Owns, Fresh
  <1>27. CASE NotifyReads
    BY <1>27 DEF NotifyReads, privVars, ifaceVars, modeVars, TypeOK, OneOwner, Owns, Fresh
  <1>28. CASE NotifyProfile
    BY <1>28 DEF NotifyProfile, privVars, ifaceVars, modeVars, TypeOK, OneOwner, Owns, Fresh
  <1>29. CASE ReadCurve
    <2>1. PICK e \in Devices : pc[e] \in DebugSteps
      BY <1>29 DEF ReadCurve, Holdings, DebugSteps, SysfsSteps
    <2>2. \A d \in Devices : pc[d] \notin {"check", "acpi", "memoryio", "ecram", "ecid", "debugfs"}
      BY <2>1 DEF OneOwner, Owns, DebugSteps, SysfsSteps, HwmonSteps, Toggling, WmiSteps, Removing
    <2>3. QED BY <1>29, <2>2 DEF ReadCurve, Fresh
  <1>30. ASSUME NEW m \in Modes, ModeChanges(m) PROVE Fresh'
    BY <1>30 DEF ModeChanges, privVars, ifaceVars, TypeOK, OneOwner, Owns, Fresh
  <1>31. CASE Load
    BY <1>31 DEF Load, modeVars, TypeOK, OneOwner, Owns, Fresh
  <1>32. CASE Unload
    BY <1>32 DEF Unload, privVars, ifaceVars, modeVars, TypeOK, OneOwner, Owns, Fresh
  <1>33. CASE Unloaded
    BY <1>33 DEF Unloaded, At, privVars, ifaceVars, modeVars, TypeOK, OneOwner, Owns, Fresh
  <1>34. QED BY <1>1, <1>2, <1>3, <1>4, <1>5, <1>6, <1>7, <1>8, <1>9, <1>10, <1>11, <1>12,
     <1>13, <1>14, <1>15, <1>16, <1>17, <1>18, <1>19, <1>20, <1>21, <1>22, <1>23, <1>24, <1>25,
     <1>26, <1>27, <1>28, <1>29, <1>30, <1>31, <1>32, <1>33 DEF Next, Step

\* In the midst of a toggle the old mode may be written back, and the firmware still
\* has a chosen one where the mode between is refused.
Chosen ==
  /\ InToggle => old_powermode \in chosen
  /\ \A d \in Devices : pc[d] = "toggle_back" /\ conf.powermode = "WMI" => mode \in chosen
  /\ (\A d \in Devices : pc[d] # "toggle_back") => mode \in chosen

\* No step loses the chosen mode.
LEMMA ChosenStep ==
  ASSUME TypeOK, OneOwner, Chosen, [Next]_vars
  PROVE  Chosen'
  <1>1. CASE UNCHANGED vars
    BY <1>1 DEF vars, privVars, ifaceVars, modeVars, TypeOK, OneOwner, Owns, Chosen, InToggle
  <1>2. ASSUME NEW d \in Devices, Claim(d) PROVE Chosen'
    BY <1>2 DEF Claim, At, Goto, ifaceVars, modeVars, TypeOK, OneOwner, Owns, Chosen, InToggle
  <1>3. ASSUME NEW d \in Devices, Remove(d) PROVE Chosen'
    BY <1>3 DEF Remove, At, Goto, ifaceVars, modeVars, TypeOK, OneOwner, Owns, Chosen, InToggle
  <1>4. ASSUME NEW d \in Devices, SharedInit(d) PROVE Chosen'
    BY <1>4 DEF SharedInit, At, Goto, modeVars, TypeOK, OneOwner, Owns, Chosen, InToggle
  <1>5. ASSUME NEW d \in Devices, Check(d) PROVE Chosen'
    BY <1>5, Orders DEF Check, At, Goto, Proceed, ifaceVars, modeVars, TypeOK, OneOwner, Owns,
       Chosen, InToggle
  <1>6. ASSUME NEW d \in Devices, DebugfsInit(d) PROVE Chosen'
    BY <1>6, Orders DEF DebugfsInit, Acquire, Hold, Try, At, Goto, privVars, modeVars, TypeOK,
       OneOwner, Owns, Chosen, InToggle
  <1>7. ASSUME NEW d \in Devices, NEW ok \in BOOLEAN, AcpiInit(d, ok) PROVE Chosen'
    BY <1>7, Orders DEF AcpiInit, Try, At, Goto, privVars, ifaceVars, modeVars, TypeOK,
       OneOwner, Owns, Chosen, InToggle
  <1>8. ASSUME NEW d \in Devices, NEW ok \in BOOLEAN, MemoryIoInit(d, ok) PROVE Chosen'
    BY <1>8, Orders DEF MemoryIoInit, Acquire, Hold, Try, At, Goto, privVars, modeVars,
       TypeOK, OneOwner, Owns, Chosen, InToggle
  <1>9. ASSUME NEW d \in Devices, NEW ok \in BOOLEAN, EcramInit(d, ok) PROVE Chosen'
    BY <1>9, Orders DEF EcramInit, Acquire, Hold, Try, At, Goto, privVars, modeVars, TypeOK,
       OneOwner, Owns, Chosen, InToggle
  <1>10. ASSUME NEW d \in Devices, NEW ok \in BOOLEAN, EcIdCheck(d, ok) PROVE Chosen'
    BY <1>10, Orders DEF EcIdCheck, Try, At, Goto, privVars, ifaceVars, modeVars, TypeOK,
       OneOwner, Owns, Chosen, InToggle
  <1>11. ASSUME NEW d \in Devices, NEW ok \in BOOLEAN, SysfsInit(d, ok) PROVE Chosen'
    BY <1>11, Orders DEF SysfsInit, Try, At, Goto, privVars, modeVars, TypeOK, OneOwner, Owns,
       Chosen, InToggle
  <1>12. ASSUME NEW d \in Devices, NEW ok \in BOOLEAN, HwmonInit(d, ok) PROVE Chosen'
    BY <1>12, Orders DEF HwmonInit, Try, At, Goto, privVars, modeVars, TypeOK, OneOwner, Owns,
       Chosen, InToggle
  <1>13. ASSUME NEW d \in Devices, NEW ok \in BOOLEAN, ProfileInit(d, ok) PROVE Chosen'
    BY <1>13, Orders DEF ProfileInit, Try, At, Goto, privVars, modeVars, TypeOK, OneOwner,
       Owns, Chosen, InToggle
  <1>14. ASSUME NEW d \in Devices, NEW ok \in BOOLEAN, WmiInit(d, ok) PROVE Chosen'
    BY <1>14, Orders DEF WmiInit, Acquire, Hold, Try, At, Goto, privVars, modeVars, TypeOK,
       OneOwner, Owns, Chosen, InToggle
  <1>15. ASSUME NEW d \in Devices, NEW ok \in BOOLEAN, LightInit(d, ok) PROVE Chosen'
    BY <1>15, Orders DEF LightInit, Proceed, At, Goto, privVars, modeVars, TypeOK, OneOwner,
       Owns, Chosen, InToggle
  <1>16. ASSUME NEW d \in Devices, NEW ok \in BOOLEAN, ToggleRead(d, ok) PROVE Chosen'
    BY <1>16, Orders DEF ToggleRead, Try, At, Goto, privVars, ifaceVars, TypeOK, OneOwner,
       Owns, Chosen, InToggle
  <1>17. ASSUME NEW d \in Devices, NEW ok \in BOOLEAN, ToggleBack(d, ok) PROVE Chosen'
    BY <1>17, Orders DEF ToggleBack, Proceed, At, Goto, privVars, ifaceVars, TypeOK, OneOwner,
       Owns, Chosen, InToggle
  <1>18. ASSUME NEW d \in Devices, LightExit(d) PROVE Chosen'
    BY <1>18, Orders DEF LightExit, Proceed, At, Goto, privVars, modeVars, TypeOK, OneOwner,
       Owns, Chosen, InToggle
  <1>19. ASSUME NEW d \in Devices, Free(d) PROVE Chosen'
    BY <1>19, Orders, Names DEF Free, Proceed, At, Goto, privVars, modeVars, TypeOK, OneOwner,
       Owns, Chosen, InToggle
  <1>20. ASSUME NEW d \in Devices, ProfileExit(d) PROVE Chosen'
    BY <1>20, Orders DEF ProfileExit, Proceed, At, Goto, privVars, modeVars, TypeOK, OneOwner,
       Owns, Chosen, InToggle
  <1>21. ASSUME NEW d \in Devices, ToggleNext(d) PROVE Chosen'
    BY <1>21, Orders DEF ToggleNext, Proceed, At, Goto, privVars, ifaceVars, TypeOK, OneOwner,
       Owns, Chosen, InToggle
  <1>22. ASSUME NEW d \in Devices, HwmonExit(d) PROVE Chosen'
    BY <1>22, Orders DEF HwmonExit, Proceed, At, Goto, privVars, modeVars, TypeOK, OneOwner,
       Owns, Chosen, InToggle
  <1>23. ASSUME NEW d \in Devices, SysfsExit(d) PROVE Chosen'
    BY <1>23, Orders DEF SysfsExit, Proceed, At, Goto, privVars, modeVars, TypeOK, OneOwner,
       Owns, Chosen, InToggle
  <1>24. ASSUME NEW d \in Devices, SharedExit(d) PROVE Chosen'
    BY <1>24, Orders DEF SharedExit, Proceed, At, Goto, ifaceVars, modeVars, TypeOK, OneOwner,
       Owns, Chosen, InToggle
  <1>25. ASSUME NEW d \in Devices, Release(d) PROVE Chosen'
    BY <1>25, Orders DEF Release, Proceed, At, Goto, privVars, modeVars, TypeOK, OneOwner,
       Owns, Chosen, InToggle
  <1>26. CASE WmiEvent
    BY <1>26 DEF WmiEvent, privVars, ifaceVars, modeVars, TypeOK, OneOwner, Owns, Chosen, InToggle
  <1>27. CASE NotifyReads
    BY <1>27 DEF NotifyReads, privVars, ifaceVars, modeVars, TypeOK, OneOwner, Owns, Chosen, InToggle
  <1>28. CASE NotifyProfile
    BY <1>28 DEF NotifyProfile, privVars, ifaceVars, modeVars, TypeOK, OneOwner, Owns, Chosen, InToggle
  <1>29. CASE ReadCurve
    BY <1>29 DEF ReadCurve, ifaceVars, modeVars, TypeOK, OneOwner, Owns, Chosen, InToggle
  <1>30. ASSUME NEW m \in Modes, ModeChanges(m) PROVE Chosen'
    BY <1>30 DEF ModeChanges, privVars, ifaceVars, TypeOK, OneOwner, Owns, Chosen, InToggle
  <1>31. CASE Load
    BY <1>31 DEF Load, modeVars, TypeOK, OneOwner, Owns, Chosen, InToggle
  <1>32. CASE Unload
    BY <1>32 DEF Unload, privVars, ifaceVars, modeVars, TypeOK, OneOwner, Owns, Chosen, InToggle
  <1>33. CASE Unloaded
    BY <1>33 DEF Unloaded, At, privVars, ifaceVars, modeVars, TypeOK, OneOwner, Owns, Chosen, InToggle
  <1>34. QED BY <1>1, <1>2, <1>3, <1>4, <1>5, <1>6, <1>7, <1>8, <1>9, <1>10, <1>11, <1>12,
     <1>13, <1>14, <1>15, <1>16, <1>17, <1>18, <1>19, <1>20, <1>21, <1>22, <1>23, <1>24, <1>25,
     <1>26, <1>27, <1>28, <1>29, <1>30, <1>31, <1>32, <1>33 DEF Next, Step

\* As long as no second device came in between, platform_device is the device in
\* use, and it alone has attributes and a profile.
InPlace ==
  ~intruded =>
    /\ \A d, e \in Devices : pc[d] \notin {"idle", "release"} /\ pc[e] \notin {"idle", "release"} => d = e
    /\ \A d \in Devices : pc[d] \notin {"idle", "release"} => platform_device = d
    /\ \A d \in Devices : group[d] # {} => pc[d] \in SysfsSteps /\ group[d] \subseteq SysfsVisible

\* Every step leaves attributes in their place.
LEMMA InPlaceStep ==
  ASSUME TypeOK, OneOwner, Lights, InPlace, [Next]_vars
  PROVE  InPlace'
  <1>1. CASE UNCHANGED vars
    BY <1>1 DEF vars, privVars, ifaceVars, modeVars, TypeOK, OneOwner, Owns, Lights, InPlace,
       SysfsSteps, HwmonSteps, Toggling, WmiSteps, Removing, SysfsVisible, Has
  <1>2. ASSUME NEW d \in Devices, Claim(d) PROVE InPlace'
    <2>1. SUFFICES ASSUME ~intruded' PROVE InPlace'
      BY DEF InPlace
    <2>2. /\ pc[d] = "idle" /\ pc' = [pc EXCEPT ![d] = "share"]
          /\ platform_device' = d /\ conf' = conf /\ group' = group
      BY <1>2 DEF Claim, At, Goto, ifaceVars
    <2>3. \A e \in Devices : pc[e] \in {"idle", "release"}
      BY <1>2, <2>1 DEF Claim
    <2>4. ~intruded \/ \A e \in Devices : group[e] = {}
      BY <1>2, <2>1 DEF Claim
    <2>5. \A e \in Devices : group[e] = {}
      BY <2>3, <2>4 DEF InPlace, SysfsSteps, HwmonSteps, Toggling, WmiSteps, Removing
    <2>6. QED BY <2>2, <2>3, <2>5 DEF InPlace, TypeOK
  <1>3. ASSUME NEW d \in Devices, Remove(d) PROVE InPlace'
    BY <1>3 DEF Remove, At, Goto, ifaceVars, modeVars, TypeOK, OneOwner, Owns, Lights,
       InPlace, SysfsSteps, HwmonSteps, Toggling, WmiSteps, Removing, SysfsVisible, Has
  <1>4. ASSUME NEW d \in Devices, SharedInit(d) PROVE InPlace'
    BY <1>4 DEF SharedInit, At, Goto, modeVars, TypeOK, OneOwner, Owns, Lights, InPlace,
       SysfsSteps, HwmonSteps, Toggling, WmiSteps, Removing, SysfsVisible, Has
  <1>5. ASSUME NEW d \in Devices, Check(d) PROVE InPlace'
    BY <1>5, Orders DEF Check, At, Goto, Proceed, ifaceVars, modeVars, TypeOK, OneOwner, Owns,
       Lights, InPlace, SysfsSteps, HwmonSteps, Toggling, WmiSteps, Removing, SysfsVisible,
       Has
  <1>6. ASSUME NEW d \in Devices, DebugfsInit(d) PROVE InPlace'
    BY <1>6, Orders DEF DebugfsInit, Acquire, Hold, Try, At, Goto, privVars, modeVars, TypeOK,
       OneOwner, Owns, Lights, InPlace, SysfsSteps, HwmonSteps, Toggling, WmiSteps, Removing,
       SysfsVisible, Has
  <1>7. ASSUME NEW d \in Devices, NEW ok \in BOOLEAN, AcpiInit(d, ok) PROVE InPlace'
    BY <1>7, Orders DEF AcpiInit, Try, At, Goto, privVars, ifaceVars, modeVars, TypeOK,
       OneOwner, Owns, Lights, InPlace, SysfsSteps, HwmonSteps, Toggling, WmiSteps, Removing,
       SysfsVisible, Has
  <1>8. ASSUME NEW d \in Devices, NEW ok \in BOOLEAN, MemoryIoInit(d, ok) PROVE InPlace'
    BY <1>8, Orders DEF MemoryIoInit, Acquire, Hold, Try, At, Goto, privVars, modeVars,
       TypeOK, OneOwner, Owns, Lights, InPlace, SysfsSteps, HwmonSteps, Toggling, WmiSteps,
       Removing, SysfsVisible, Has
  <1>9. ASSUME NEW d \in Devices, NEW ok \in BOOLEAN, EcramInit(d, ok) PROVE InPlace'
    BY <1>9, Orders DEF EcramInit, Acquire, Hold, Try, At, Goto, privVars, modeVars, TypeOK,
       OneOwner, Owns, Lights, InPlace, SysfsSteps, HwmonSteps, Toggling, WmiSteps, Removing,
       SysfsVisible, Has
  <1>10. ASSUME NEW d \in Devices, NEW ok \in BOOLEAN, EcIdCheck(d, ok) PROVE InPlace'
    BY <1>10, Orders DEF EcIdCheck, Try, At, Goto, privVars, ifaceVars, modeVars, TypeOK,
       OneOwner, Owns, Lights, InPlace, SysfsSteps, HwmonSteps, Toggling, WmiSteps, Removing,
       SysfsVisible, Has
  <1>11. ASSUME NEW d \in Devices, NEW ok \in BOOLEAN, SysfsInit(d, ok) PROVE InPlace'
    BY <1>11, Orders DEF SysfsInit, Try, At, Goto, privVars, modeVars, TypeOK, OneOwner, Owns,
       Lights, InPlace, SysfsSteps, HwmonSteps, Toggling, WmiSteps, Removing, SysfsVisible,
       Has
  <1>12. ASSUME NEW d \in Devices, NEW ok \in BOOLEAN, HwmonInit(d, ok) PROVE InPlace'
    BY <1>12, Orders DEF HwmonInit, Try, At, Goto, privVars, modeVars, TypeOK, OneOwner, Owns,
       Lights, InPlace, SysfsSteps, HwmonSteps, Toggling, WmiSteps, Removing, SysfsVisible,
       Has
  <1>13. ASSUME NEW d \in Devices, NEW ok \in BOOLEAN, ProfileInit(d, ok) PROVE InPlace'
    BY <1>13, Orders DEF ProfileInit, Try, At, Goto, privVars, modeVars, TypeOK, OneOwner,
       Owns, Lights, InPlace, SysfsSteps, HwmonSteps, Toggling, WmiSteps, Removing,
       SysfsVisible, Has
  <1>14. ASSUME NEW d \in Devices, NEW ok \in BOOLEAN, WmiInit(d, ok) PROVE InPlace'
    BY <1>14, Orders DEF WmiInit, Acquire, Hold, Try, At, Goto, privVars, modeVars, TypeOK,
       OneOwner, Owns, Lights, InPlace, SysfsSteps, HwmonSteps, Toggling, WmiSteps, Removing,
       SysfsVisible, Has
  <1>15. ASSUME NEW d \in Devices, NEW ok \in BOOLEAN, LightInit(d, ok) PROVE InPlace'
    BY <1>15, Orders DEF LightInit, Proceed, At, Goto, privVars, modeVars, TypeOK, OneOwner,
       Owns, Lights, InPlace, SysfsSteps, HwmonSteps, Toggling, WmiSteps, Removing,
       SysfsVisible, Has
  <1>16. ASSUME NEW d \in Devices, NEW ok \in BOOLEAN, ToggleRead(d, ok) PROVE InPlace'
    BY <1>16, Orders DEF ToggleRead, Try, At, Goto, privVars, ifaceVars, TypeOK, OneOwner,
       Owns, Lights, InPlace, SysfsSteps, HwmonSteps, Toggling, WmiSteps, Removing,
       SysfsVisible, Has
  <1>17. ASSUME NEW d \in Devices, NEW ok \in BOOLEAN, ToggleBack(d, ok) PROVE InPlace'
    BY <1>17, Orders DEF ToggleBack, Proceed, At, Goto, privVars, ifaceVars, TypeOK, OneOwner,
       Owns, Lights, InPlace, SysfsSteps, HwmonSteps, Toggling, WmiSteps, Removing,
       SysfsVisible, Has
  <1>18. ASSUME NEW d \in Devices, LightExit(d) PROVE InPlace'
    BY <1>18, Orders DEF LightExit, Proceed, At, Goto, privVars, modeVars, TypeOK, OneOwner,
       Owns, Lights, InPlace, SysfsSteps, HwmonSteps, Toggling, WmiSteps, Removing,
       SysfsVisible, Has
  <1>19. ASSUME NEW d \in Devices, Free(d) PROVE InPlace'
    BY <1>19, Orders, Names DEF Free, Proceed, At, Goto, privVars, modeVars, TypeOK, OneOwner,
       Owns, Lights, InPlace, SysfsSteps, HwmonSteps, Toggling, WmiSteps, Removing,
       SysfsVisible, Has
  <1>20. ASSUME NEW d \in Devices, ProfileExit(d) PROVE InPlace'
    BY <1>20, Orders DEF ProfileExit, Proceed, At, Goto, privVars, modeVars, TypeOK, OneOwner,
       Owns, Lights, InPlace, SysfsSteps, HwmonSteps, Toggling, WmiSteps, Removing,
       SysfsVisible, Has
  <1>21. ASSUME NEW d \in Devices, ToggleNext(d) PROVE InPlace'
    BY <1>21, Orders DEF ToggleNext, Proceed, At, Goto, privVars, ifaceVars, TypeOK, OneOwner,
       Owns, Lights, InPlace, SysfsSteps, HwmonSteps, Toggling, WmiSteps, Removing,
       SysfsVisible, Has
  <1>22. ASSUME NEW d \in Devices, HwmonExit(d) PROVE InPlace'
    BY <1>22, Orders DEF HwmonExit, Proceed, At, Goto, privVars, modeVars, TypeOK, OneOwner,
       Owns, Lights, InPlace, SysfsSteps, HwmonSteps, Toggling, WmiSteps, Removing,
       SysfsVisible, Has
  <1>23. ASSUME NEW d \in Devices, SysfsExit(d) PROVE InPlace'
    BY <1>23, Orders DEF SysfsExit, Proceed, At, Goto, privVars, modeVars, TypeOK, OneOwner,
       Owns, Lights, InPlace, SysfsSteps, HwmonSteps, Toggling, WmiSteps, Removing,
       SysfsVisible, Has
  <1>24. ASSUME NEW d \in Devices, SharedExit(d) PROVE InPlace'
    BY <1>24, Orders DEF SharedExit, Proceed, At, Goto, ifaceVars, modeVars, TypeOK, OneOwner,
       Owns, Lights, InPlace, SysfsSteps, HwmonSteps, Toggling, WmiSteps, Removing,
       SysfsVisible, Has
  <1>25. ASSUME NEW d \in Devices, Release(d) PROVE InPlace'
    BY <1>25, Orders DEF Release, Proceed, At, Goto, privVars, modeVars, TypeOK, OneOwner,
       Owns, Lights, InPlace, SysfsSteps, HwmonSteps, Toggling, WmiSteps, Removing,
       SysfsVisible, Has
  <1>26. CASE WmiEvent
    BY <1>26 DEF WmiEvent, privVars, ifaceVars, modeVars, TypeOK, OneOwner, Owns, Lights,
       InPlace, SysfsSteps, HwmonSteps, Toggling, WmiSteps, Removing, SysfsVisible, Has
  <1>27. CASE NotifyReads
    BY <1>27 DEF NotifyReads, privVars, ifaceVars, modeVars, TypeOK, OneOwner, Owns, Lights,
       InPlace, SysfsSteps, HwmonSteps, Toggling, WmiSteps, Removing, SysfsVisible, Has
  <1>28. CASE NotifyProfile
    BY <1>28 DEF NotifyProfile, privVars, ifaceVars, modeVars, TypeOK, OneOwner, Owns, Lights,
       InPlace, SysfsSteps, HwmonSteps, Toggling, WmiSteps, Removing, SysfsVisible, Has
  <1>29. CASE ReadCurve
    BY <1>29 DEF ReadCurve, ifaceVars, modeVars, TypeOK, OneOwner, Owns, Lights, InPlace,
       SysfsSteps, HwmonSteps, Toggling, WmiSteps, Removing, SysfsVisible, Has
  <1>30. ASSUME NEW m \in Modes, ModeChanges(m) PROVE InPlace'
    BY <1>30 DEF ModeChanges, privVars, ifaceVars, TypeOK, OneOwner, Owns, Lights, InPlace,
       SysfsSteps, HwmonSteps, Toggling, WmiSteps, Removing, SysfsVisible, Has
  <1>31. CASE Load
    BY <1>31 DEF Load, modeVars, TypeOK, OneOwner, Owns, Lights, InPlace, SysfsSteps,
       HwmonSteps, Toggling, WmiSteps, Removing, SysfsVisible, Has
  <1>32. CASE Unload
    BY <1>32 DEF Unload, privVars, ifaceVars, modeVars, TypeOK, OneOwner, Owns, Lights,
       InPlace, SysfsSteps, HwmonSteps, Toggling, WmiSteps, Removing, SysfsVisible, Has
  <1>33. CASE Unloaded
    BY <1>33 DEF Unloaded, At, privVars, ifaceVars, modeVars, TypeOK, OneOwner, Owns, Lights,
       InPlace, SysfsSteps, HwmonSteps, Toggling, WmiSteps, Removing, SysfsVisible, Has
  <1>34. QED BY <1>1, <1>2, <1>3, <1>4, <1>5, <1>6, <1>7, <1>8, <1>9, <1>10, <1>11, <1>12,
     <1>13, <1>14, <1>15, <1>16, <1>17, <1>18, <1>19, <1>20, <1>21, <1>22, <1>23, <1>24, <1>25,
     <1>26, <1>27, <1>28, <1>29, <1>30, <1>31, <1>32, <1>33 DEF Next, Step

\* A profile is registered until it is taken back or its device is released, and
\* it is the one notifications tell.
ProfileSteps == {"wmi", "profile_remove"} \cup WmiSteps
Registered ==
  /\ ~machine.enable_platformprofile => profiles = {}
  /\ ~intruded =>
       /\ \A d \in profiles :
            \/ pc[d] \in {"profile_exit"} \cup ProfileSteps
            \/ machine.devm /\ pc[d] \notin {"idle", "share"}
       /\ machine.enable_platformprofile =>
            \A d \in Devices : pc[d] \in ProfileSteps => ppdev = d /\ d \in profiles

\* Every step leaves profiles in their place.
LEMMA RegisteredStep ==
  ASSUME TypeOK, OneOwner, InPlace, Registered, [Next]_vars
  PROVE  Registered'
  <1>1. CASE UNCHANGED vars
    BY <1>1 DEF vars, privVars, ifaceVars, modeVars, TypeOK, OneOwner, Owns, InPlace,
       Registered, ProfileSteps, WmiSteps, Removing
  <1>2. ASSUME NEW d \in Devices, Claim(d) PROVE Registered'
    <2>1. SUFFICES ASSUME ~intruded' PROVE Registered'
      BY <1>2 DEF Registered, Claim, ifaceVars
    <2>2. /\ pc[d] = "idle" /\ pc' = [pc EXCEPT ![d] = "share"]
          /\ machine' = machine /\ profiles' = profiles /\ ppdev' = ppdev
      BY <1>2 DEF Claim, At, Goto, ifaceVars
    <2>3. \A e \in Devices : pc[e] \in {"idle", "release"}
      BY <1>2, <2>1 DEF Claim
    <2>4. ~intruded \/ profiles = {}
      BY <1>2, <2>1 DEF Claim, TypeOK
    <2>5. QED BY <2>2, <2>3, <2>4 DEF Registered, ProfileSteps, WmiSteps, Removing, Toggling,
       TypeOK
  <1>3. ASSUME NEW d \in Devices, Remove(d) PROVE Registered'
    BY <1>3 DEF Remove, At, Goto, ifaceVars, modeVars, TypeOK, OneOwner, Owns, InPlace,
       Registered, ProfileSteps, WmiSteps, Removing
  <1>4. ASSUME NEW d \in Devices, SharedInit(d) PROVE Registered'
    BY <1>4 DEF SharedInit, At, Goto, modeVars, TypeOK, OneOwner, Owns, InPlace, Registered,
       ProfileSteps, WmiSteps, Removing
  <1>5. ASSUME NEW d \in Devices, Check(d) PROVE Registered'
    BY <1>5, Orders DEF Check, At, Goto, Proceed, ifaceVars, modeVars, TypeOK, OneOwner, Owns,
       InPlace, Registered, ProfileSteps, WmiSteps, Removing
  <1>6. ASSUME NEW d \in Devices, DebugfsInit(d) PROVE Registered'
    BY <1>6, Orders DEF DebugfsInit, Acquire, Hold, Try, At, Goto, privVars, modeVars, TypeOK,
       OneOwner, Owns, InPlace, Registered, ProfileSteps, WmiSteps, Removing
  <1>7. ASSUME NEW d \in Devices, NEW ok \in BOOLEAN, AcpiInit(d, ok) PROVE Registered'
    BY <1>7, Orders DEF AcpiInit, Try, At, Goto, privVars, ifaceVars, modeVars, TypeOK,
       OneOwner, Owns, InPlace, Registered, ProfileSteps, WmiSteps, Removing
  <1>8. ASSUME NEW d \in Devices, NEW ok \in BOOLEAN, MemoryIoInit(d, ok) PROVE Registered'
    BY <1>8, Orders DEF MemoryIoInit, Acquire, Hold, Try, At, Goto, privVars, modeVars,
       TypeOK, OneOwner, Owns, InPlace, Registered, ProfileSteps, WmiSteps, Removing
  <1>9. ASSUME NEW d \in Devices, NEW ok \in BOOLEAN, EcramInit(d, ok) PROVE Registered'
    BY <1>9, Orders DEF EcramInit, Acquire, Hold, Try, At, Goto, privVars, modeVars, TypeOK,
       OneOwner, Owns, InPlace, Registered, ProfileSteps, WmiSteps, Removing
  <1>10. ASSUME NEW d \in Devices, NEW ok \in BOOLEAN, EcIdCheck(d, ok) PROVE Registered'
    BY <1>10, Orders DEF EcIdCheck, Try, At, Goto, privVars, ifaceVars, modeVars, TypeOK,
       OneOwner, Owns, InPlace, Registered, ProfileSteps, WmiSteps, Removing
  <1>11. ASSUME NEW d \in Devices, NEW ok \in BOOLEAN, SysfsInit(d, ok) PROVE Registered'
    BY <1>11, Orders DEF SysfsInit, Try, At, Goto, privVars, modeVars, TypeOK, OneOwner, Owns,
       InPlace, Registered, ProfileSteps, WmiSteps, Removing
  <1>12. ASSUME NEW d \in Devices, NEW ok \in BOOLEAN, HwmonInit(d, ok) PROVE Registered'
    BY <1>12, Orders DEF HwmonInit, Try, At, Goto, privVars, modeVars, TypeOK, OneOwner, Owns,
       InPlace, Registered, ProfileSteps, WmiSteps, Removing
  <1>13. ASSUME NEW d \in Devices, NEW ok \in BOOLEAN, ProfileInit(d, ok) PROVE Registered'
    BY <1>13, Orders DEF ProfileInit, Try, At, Goto, privVars, modeVars, TypeOK, OneOwner,
       Owns, InPlace, Registered, ProfileSteps, WmiSteps, Removing
  <1>14. ASSUME NEW d \in Devices, NEW ok \in BOOLEAN, WmiInit(d, ok) PROVE Registered'
    BY <1>14, Orders DEF WmiInit, Acquire, Hold, Try, At, Goto, privVars, modeVars, TypeOK,
       OneOwner, Owns, InPlace, Registered, ProfileSteps, WmiSteps, Removing
  <1>15. ASSUME NEW d \in Devices, NEW ok \in BOOLEAN, LightInit(d, ok) PROVE Registered'
    BY <1>15, Orders DEF LightInit, Proceed, At, Goto, privVars, modeVars, TypeOK, OneOwner,
       Owns, InPlace, Registered, ProfileSteps, WmiSteps, Removing
  <1>16. ASSUME NEW d \in Devices, NEW ok \in BOOLEAN, ToggleRead(d, ok) PROVE Registered'
    BY <1>16, Orders DEF ToggleRead, Try, At, Goto, privVars, ifaceVars, TypeOK, OneOwner,
       Owns, InPlace, Registered, ProfileSteps, WmiSteps, Removing
  <1>17. ASSUME NEW d \in Devices, NEW ok \in BOOLEAN, ToggleBack(d, ok) PROVE Registered'
    BY <1>17, Orders DEF ToggleBack, Proceed, At, Goto, privVars, ifaceVars, TypeOK, OneOwner,
       Owns, InPlace, Registered, ProfileSteps, WmiSteps, Removing
  <1>18. ASSUME NEW d \in Devices, LightExit(d) PROVE Registered'
    BY <1>18, Orders, Names DEF LightExit, Proceed, At, Goto, privVars, modeVars, TypeOK,
       OneOwner, Owns, InPlace, Registered, ProfileSteps, WmiSteps, Removing
  <1>19. ASSUME NEW d \in Devices, Free(d) PROVE Registered'
    BY <1>19, Orders, Names DEF Free, Proceed, At, Goto, privVars, modeVars, TypeOK, OneOwner,
       Owns, InPlace, Registered, ProfileSteps, WmiSteps, Removing
  <1>20. ASSUME NEW d \in Devices, ProfileExit(d) PROVE Registered'
    BY <1>20, Orders DEF ProfileExit, Proceed, At, Goto, privVars, modeVars, TypeOK, OneOwner,
       Owns, InPlace, Registered, ProfileSteps, WmiSteps, Removing
  <1>21. ASSUME NEW d \in Devices, ToggleNext(d) PROVE Registered'
    BY <1>21, Orders DEF ToggleNext, Proceed, At, Goto, privVars, ifaceVars, TypeOK, OneOwner,
       Owns, InPlace, Registered, ProfileSteps, WmiSteps, Removing
  <1>22. ASSUME NEW d \in Devices, HwmonExit(d) PROVE Registered'
    BY <1>22, Orders DEF HwmonExit, Proceed, At, Goto, privVars, modeVars, TypeOK, OneOwner,
       Owns, InPlace, Registered, ProfileSteps, WmiSteps, Removing
  <1>23. ASSUME NEW d \in Devices, SysfsExit(d) PROVE Registered'
    BY <1>23, Orders DEF SysfsExit, Proceed, At, Goto, privVars, modeVars, TypeOK, OneOwner,
       Owns, InPlace, Registered, ProfileSteps, WmiSteps, Removing
  <1>24. ASSUME NEW d \in Devices, SharedExit(d) PROVE Registered'
    BY <1>24, Orders DEF SharedExit, Proceed, At, Goto, ifaceVars, modeVars, TypeOK, OneOwner,
       Owns, InPlace, Registered, ProfileSteps, WmiSteps, Removing
  <1>25. ASSUME NEW d \in Devices, Release(d) PROVE Registered'
    BY <1>25, Orders DEF Release, Proceed, At, Goto, privVars, modeVars, TypeOK, OneOwner,
       Owns, InPlace, Registered, ProfileSteps, WmiSteps, Removing
  <1>26. CASE WmiEvent
    BY <1>26 DEF WmiEvent, privVars, ifaceVars, modeVars, TypeOK, OneOwner, Owns, InPlace,
       Registered, ProfileSteps, WmiSteps, Removing
  <1>27. CASE NotifyReads
    BY <1>27 DEF NotifyReads, privVars, ifaceVars, modeVars, TypeOK, OneOwner, Owns, InPlace,
       Registered, ProfileSteps, WmiSteps, Removing
  <1>28. CASE NotifyProfile
    BY <1>28 DEF NotifyProfile, privVars, ifaceVars, modeVars, TypeOK, OneOwner, Owns,
       InPlace, Registered, ProfileSteps, WmiSteps, Removing
  <1>29. CASE ReadCurve
    BY <1>29 DEF ReadCurve, ifaceVars, modeVars, TypeOK, OneOwner, Owns, InPlace, Registered,
       ProfileSteps, WmiSteps, Removing
  <1>30. ASSUME NEW m \in Modes, ModeChanges(m) PROVE Registered'
    BY <1>30 DEF ModeChanges, privVars, ifaceVars, TypeOK, OneOwner, Owns, InPlace,
       Registered, ProfileSteps, WmiSteps, Removing
  <1>31. CASE Load
    BY <1>31 DEF Load, modeVars, TypeOK, OneOwner, Owns, InPlace, Registered, ProfileSteps,
       WmiSteps, Removing
  <1>32. CASE Unload
    BY <1>32 DEF Unload, privVars, ifaceVars, modeVars, TypeOK, OneOwner, Owns, InPlace,
       Registered, ProfileSteps, WmiSteps, Removing
  <1>33. CASE Unloaded
    BY <1>33 DEF Unloaded, At, privVars, ifaceVars, modeVars, TypeOK, OneOwner, Owns, InPlace,
       Registered, ProfileSteps, WmiSteps, Removing
  <1>34. QED BY <1>1, <1>2, <1>3, <1>4, <1>5, <1>6, <1>7, <1>8, <1>9, <1>10, <1>11, <1>12,
     <1>13, <1>14, <1>15, <1>16, <1>17, <1>18, <1>19, <1>20, <1>21, <1>22, <1>23, <1>24, <1>25,
     <1>26, <1>27, <1>28, <1>29, <1>30, <1>31, <1>32, <1>33 DEF Next, Step

-----------------------------------------------------------------------------
(* The invariants *)

\* All of it, the inductive invariant.
Inv ==
  /\ TypeOK /\ OneOwner /\ Holdings /\ Lights /\ Quiet
  /\ Fresh /\ Chosen /\ InPlace /\ Registered

\* The initial states have it.
LEMMA InvInit == Init => Inv
  <1> SUFFICES ASSUME Init PROVE Inv
    OBVIOUS
  <1>1. \A d \in Devices : pc[d] = "idle" /\ group[d] = {}
    BY DEF Init
  <1>2. TypeOK
    BY StepsAre, ModeAssumption DEF Init, TypeOK
  <1>3. OneOwner
    BY <1>1 DEF Init, OneOwner, Owns
  <1>4. Holdings /\ Lights
    BY <1>1 DEF Init, Holdings, Lights, Owns, MemorySteps, PortSteps, DebugSteps, SysfsSteps, HwmonSteps,
       Toggling, WmiSteps, Removing
  <1>5. Quiet /\ Fresh
    BY <1>1 DEF Init, Quiet, Fresh
  <1>6. Chosen
    BY <1>1 DEF Init, Chosen, InToggle
  <1>7. InPlace
    BY <1>1 DEF Init, InPlace
  <1>8. Registered
    BY <1>1 DEF Init, Registered, ProfileSteps, WmiSteps, Removing
  <1>9. QED BY <1>2, <1>3, <1>4, <1>5, <1>6, <1>7, <1>8 DEF Inv

\* It is one.
LEMMA Invariant == Spec => []Inv
  <1>1. Inv /\ [Next]_vars => Inv'
    BY TypeStep, OwnerStep, HoldingsStep, LightsStep, QuietStep, FreshStep, ChosenStep,
       InPlaceStep, RegisteredStep DEF Inv
  <1>2. QED BY InvInit, <1>1, PTL DEF Spec

\* The variables keep their types; above all the mode a removal writes back is one
\* that was read.
THEOREM DriverTypeCorrect == Spec => []TypeOK
  BY Invariant, PTL DEF Inv

\* The private structure has one owner at a time and is given back on every path
\* of an accepted machine.
THEOREM OwnedOnce == Spec => []SharedOwned
  <1>1. Inv => SharedOwned
    BY DEF Inv, OneOwner, SharedOwned
  <1>2. QED BY Invariant, <1>1, PTL

\* Nothing of the driver that reaches the EC outlives its ports and mapping.
THEOREM PortsOutlast == Spec => []PortsHeld
  <1>1. ASSUME Inv PROVE PortsHeld
    <2>1. SUFFICES ASSUME \/ hwmon # {} \/ leds # {} \/ "debugfs" \in held \/ "wmi" \in held
                          \/ \E d \in Devices : pc[d] \in {"toggle", "toggle_next", "toggle_back"}
                          \/ ~intruded /\ \E d \in Devices : group[d] # {}
                   PROVE  {"ports", "memoryio"} \subseteq held
      BY DEF PortsHeld
    <2>2. leds # {} => \E d \in Devices : pc[d] \in WmiSteps
      BY <1>1 DEF Inv, Lights, WmiSteps, Removing
    <2>3. \E d \in Devices : pc[d] \in DebugSteps
      BY <1>1, <2>1, <2>2 DEF Inv, Holdings, InPlace, DebugSteps, SysfsSteps, HwmonSteps, Toggling, WmiSteps
    <2>4. QED BY <1>1, <2>3 DEF Inv, Holdings, PortSteps, MemorySteps
  <1>2. QED BY Invariant, <1>1, PTL

\* Attributes find the private structure and are the model's.
THEOREM AttributesFound == Spec => []AttributesFit
  <1>1. Inv => AttributesFit
    BY DEF Inv, Lights, InPlace, AttributesFit, Owns, SysfsSteps, HwmonSteps, Toggling, WmiSteps, Removing
  <1>2. QED BY Invariant, <1>1, PTL

\* When no device is in use, nothing is held.
THEOREM AllGivenBack == Spec => []NothingLeft
  <1>1. ASSUME Inv, \A d \in Devices : pc[d] = "idle"
        PROVE  /\ held = {} /\ hwmon = {} /\ leds = {} /\ drvdata = {}
               /\ ~intruded => profiles = {} /\ \A d \in Devices : group[d] = {}
    <2>1. hwmon = {} /\ leds = {} /\ drvdata = {}
      BY <1>1 DEF Inv, TypeOK, Holdings, Lights, HwmonSteps, Toggling, WmiSteps, Removing
    <2>2. "memoryio" \notin held /\ "ports" \notin held /\ "debugfs" \notin held /\ "wmi" \notin held
      BY <1>1 DEF Inv, Holdings, MemorySteps, PortSteps, DebugSteps, SysfsSteps, HwmonSteps, Toggling,
         WmiSteps, Removing
    <2>3. held = {}
      BY <1>1, <2>2 DEF Inv, TypeOK
    <2>4. ~intruded => profiles = {} /\ \A d \in Devices : group[d] = {}
      BY <1>1 DEF Inv, TypeOK, InPlace, Registered, ProfileSteps, SysfsSteps, HwmonSteps, Toggling,
         WmiSteps, Removing
    <2>5. QED BY <2>1, <2>3, <2>4
  <1>2. Inv => NothingLeft
    BY <1>1 DEF NothingLeft, At
  <1>3. QED BY Invariant, <1>2, PTL

\* A notification is never late for the profile it tells.
THEOREM NotificationsInTime == Spec => []NotifyReachesProfile
  <1>1. Inv => NotifyReachesProfile
    BY DEF Inv, TypeOK, OneOwner, Owns, Quiet, Registered, NotifyReachesProfile, At, ProfileSteps, WmiSteps, Removing
  <1>2. QED BY Invariant, <1>1, PTL

\* Nothing of one binding is taken for the next one's: no light and no hwmon device, and
\* no copy of a table until the file in debugfs is there to be read.
THEOREM StartsAnew == Spec => []FreshStart
  <1>1. ASSUME Inv PROVE FreshStart
    <2>1. ASSUME NEW d \in Devices,
                 pc[d] \in {"check", "acpi", "memoryio", "ecram", "ecid", "debugfs", "sysfs", "hwmon"}
          PROVE  leds = {} /\ hwmon = {}
      <3>1. \A e \in Devices : Owns(e) => e = d
        BY <1>1, <2>1 DEF Inv, OneOwner, Owns
      <3>2. leds = {}
        BY <1>1, <2>1, <3>1 DEF Inv, Lights, Owns
      <3>3. hwmon = {}
        BY <1>1, <2>1, <3>1 DEF Inv, Holdings, HwmonSteps, Toggling, WmiSteps, Removing, Owns
      <3>4. QED BY <3>2, <3>3
    <2>2. QED BY <1>1, <2>1 DEF Inv, Fresh, FreshStart
  <1>2. QED BY Invariant, <1>1, PTL

\* A removal leaves a mode that somebody chose, and only a choice made in the midst of its
\* toggle may give way to the mode before.
THEOREM RemovalKeepsMode == Spec => []ModeKept
  <1>1. Inv => ModeKept
    BY DEF Inv, Chosen, ModeKept, InToggle
  <1>2. QED BY Invariant, <1>1, PTL
=============================================================================
