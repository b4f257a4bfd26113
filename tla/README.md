# 83sc-control: TLA+ models

83sc-control drives the fan, power and keyboard-light controls of one laptop model (the
Lenovo 83SC) from three sides: a kernel module that exposes the embedded controller (EC)
and the WMI firmware as sysfs nodes (`driver/legion-laptop.c`), a privileged helper with
command-line tools and a GUI above it, and system services that replay settings at boot
and keep the driver loaded. This directory models the parts of it where several
programs, the firmware and the user act on the same state, checks the models with TLC,
and proves theorems about them with TLAPS.

## Inventory

| Part | State | Operations | Talks to |
| --- | --- | --- | --- |
| Fan curve stores (`autopoint_store` step by step) | EC fan table (10 points), override flags, `fancurve_mutex` | store one field of one point (read all, change, write all), overrides, mode changes | EC RAM |
| Fan tables of all models and the fan switches (`autopoint_*`, `minifancurve_*`, `lockfancontroller_*`, `fan_fullspeed_*`, `fan_unlock_*`, `fancurve_defaults_powermode_*`, `debugfs_fancurve_show`) | EC RAM in four layouts, the firmware's table behind WMI, `priv->fancurve`, `fan_unlock_state` | each store and show as one step under `fancurve_mutex` | EC RAM, WMI |
| EC RAM (`ecram_*`), sensors (`sensor_show`), Y logo light, EC power mode | two I/O ports, `io_port_mutex`, bytes read so far | byte accesses, readings made of several | EC, ACPI, WMI |
| Curve writers: `83sc-fan apply`, GUI `write_curve`, boot script `apply_curve_pwm` | curve, position in it | check mode, enter 255, clear overrides, write points from the highest down | driver nodes (through the helper) |
| Power controls (`powermode_store`, `platform_profile_set`, PL1/PL2, coupling, `fan_fullspeed_store`) | mode, limits, `current_powermode`, `cpu_pl_coupling` | stores of the nodes, the Fn+Q key | WMI |
| Driver lifecycle (`legion_add`, `legion_remove`, `legion_wmi_notify`, `legion_init`, `legion_exit`) | `legion_shared`, `priv->platform_device`, resources and interfaces taken, `old_powermode` | probe, remove, notification, load, unload | kernel, WMI, EC |
| Pass-through attributes (battery, keys, touchpad, overclocking, WMI lights, the dump of EC RAM in debugfs) | none in the driver | one firmware call or one dump each | WMI, ACPI, EC |
| Helper (`helper/helper.py`) | none of its own; `boot.conf`, `modprobe.d` files | set, boot-save, undervolt-persist, capdata-limits | sysfs, systemd |
| Boot replay (`systemd/83sc-thermal.sh`) | `boot.conf`, `curve.conf` | replay in file order, profiles | driver nodes, RAPL |
| Driver guard (`systemd/83sc-driver-guard.sh`) and packaging | loaded module, DKMS tree | compare, rebuild, reload | kernel |
| GUI (`gui/src/main.rs`, `hw.rs`, `profiles.rs`) | draft and dirty flag, last mode/plan/power source, profiles and bindings, `CHANGED` | edits, apply, poll every 1.5 s, persist | helper, driver nodes |
| Keyboard idle daemon (`kbd-idle`) | level, dimmed, queue of own writes, KDE races | idle, resume, brightness changed, stop | compositor, UPower, KDE |
| `bin/83sc`, `83sc-snap`, `83sc-diag`; harness and sweeps | none | print, parse, measure | helper |

Hard behaviours: the EC silently ignores or refuses writes; a change of mode reloads its
table at any moment and takes no lock of the driver's; one sysfs store is several
firmware calls under locks that cover only some of them; the programs write thirty nodes
in a row while others do the same; every firmware call may fail, and most callers go on;
the GUI and the daemon must tell their own changes from other people's. What makes each
part correct:

- fan table: stores do not lose each other's updates; every table sent to the EC rises;
  a written curve is the curve in force; every store ends.
- power controls: PL1 stays at or below PL2 while coupled; limits stay in the advertised
  ranges; success means effect; full speed only in custom mode.
- fan tables: an attribute is a register of its own on every layout; a store that
  reports success is in effect; what the driver remembers of the firmware is so.
- EC RAM: an access is atomic; a number put together from two bytes is near one that
  was; every reading ends.
- lifecycle: one device has the shared data, and every path gives it back; nothing that
  reaches the EC outlives its ports; nothing is left behind; a removal keeps the power
  mode; notifications find what they use.
- replay: what boots is what was saved; a crash in saving loses the save, not the
  settings.
- GUI: an edit is not overwritten; a bound profile is applied once per change; a saved
  state follows the last change.
- idle daemon: input brings back the level last chosen, and the daemon never undoes a
  choice of the user's.

The full list of hazards, with the line each one bites at, is in `PROJECT.json`.

## Modules

| Module | Models |
| --- | --- |
| `CurveRegisters` | abstract: thirty independent registers, reloaded by the firmware |
| `FanCurve` | fan table, `autopoint_store`, curve writers, overrides, mode changes |
| `FanCurve_proofs` | theorems about `FanCurve` |
| `MCFanCurve`, `MCFanOrder`, `MCFanShipped` | instances for TLC |
| `PowerControl` | mode, its cached copy, PL1/PL2, coupling, clamp, full speed |
| `PowerControl_proofs` | theorems about `PowerControl` |
| `MCPowerControl` | instances for TLC |
| `BootReplay` | the boot script's replay of `boot.conf` over the stores of `PowerControl` |
| `BootReplay_proofs`, `MCBootReplay` | theorems, instances |
| `KbdIdle` | the idle daemon with UPower, the compositor, the Fn key, other programs and KDE |
| `KbdIdle_proofs`, `MCKbdIdle` | theorems, instance |
| `EcRegisters` | readings and writings of EC registers as programs of atomic byte accesses; abstract to `EcPort` |
| `EcPort` | each access as twelve operations on the EC's two ports under `io_port_mutex` |
| `EcRegisters_proofs`, `EcPort_proofs`, `MCEcPort` | theorems, instance |
| `FanLayouts` | cells of a fan table, their addresses in each layout, conversions of duty cycles |
| `FanTables` | stores and shows of the fan attributes on every layout, the EC and the firmware |
| `FanAttributes` | abstract: attributes as registers of their own |
| `FanTables_proofs`, `MCFanTables` | theorems, instance |
| `DriverLifecycle` | probe, removal, notifications, load and unload of the module |
| `DriverLifecycle_proofs`, `MCDriverLifecycle` | theorems, instance |

`EcRegisters` is where the three levels of the driver meet: `FanCurve` and `FanTables`
take a byte access as atomic, and `EcPort` shows that it is; `FanTables` takes a store
as one step, and `FanCurve` opens that step up into reading and writing, with
`CurveRegisters` as its abstract specification; `DriverLifecycle` says when the
interfaces are there at all; `BootReplay` runs the boot script as one of the tasks of
`PowerControl`.

### FanCurve

`mode`, `live` and `overrides` are the EC's power mode, fan table and the two switches
that make it disregard the table. `lock` is `priv->fancurve_mutex`. Each writer has a
program counter `pc`, the `curve` it writes, the point and field it is at (`pos`,
`fld`), and the table its running store has read (`snap`, the automatic variable
`fancurve` of `autopoint_store`). `alone` is a history variable: nobody changed anything
the writer relies on since it began.

Actions follow the code: `Start` and `CheckMode` (read `powermode`), `EnterCustom` and
`EnterCustomFails` (the store of 255; a failure is noted and the program goes on, in all
three programs), `ClearFullspeed`, `ClearFullspeedFails`, `ClearMinifan`, then for each
field `StoreRead` (lock, `read_fancurve`) and `StoreWrite` (set the field,
`write_fancurve`, unlock). `PowermodeStore` is anybody's store to `powermode`,
`ModeChangesUnlocked` is `platform_profile` and the Fn+Q key, `OverrideStore` turns an
override on. What the EC does with a table (`EcCommit`) and on a mode change
(`EnterMode`) is taken from what the code says of it; it is the only external part.

Left out here: the second fan, GPU and IC columns of a point and the other attributes,
which are in `FanTables`; the cache `priv->fancurve`, which only an unreadable table
would use, and the EC3 reader cannot fail; the range checks of the setters, which the
values of the programs never hit; the report `83sc-fan` prints after reading the curve
back. The EC is taken to latch a table when the commit bit is set; in `FanTables` it
takes it up later, or not at all.

### PowerControl

`mode`, `limits` and `fullspeed` are the firmware's; `cached` is
`priv->current_powermode`, `coupling` is `priv->cpu_pl_coupling`, `lock` is
`priv->fancurve_mutex`. A task in a store has `pc`, the node (`kind`), the value (`arg`,
clamped for a limit) and whether it found the limits coupled (`tied`). Each firmware
call is an action, with a second one for its failure. Calls under one hold of the mutex
and nothing in between are one action guarded by `lock = None`; `fan_fullspeed_store`,
which makes two calls under it, is two. History: `alone` (as above), `settled` (the
limits in force come from undisturbed coupled stores or from the firmware), `overtaken`
(the mode changed under the holder of the mutex), `blind` (the mode could not be read at
probe, so nothing is clamped).

`CapdataClamp` is the arithmetic of `capdata_clamp` for a range with a step,
`DIV_ROUND_CLOSEST` in unsigned arithmetic included: below the minimum it wraps, and the
clamp as `int` brings the result back to the minimum. Left out: limits whose capability
entry has step 0 (discrete values) or is missing, and the other clamped nodes (cross
loading, temperature, tau), which are the same store without coupling. The firmware
takes any limit, may load default limits with a mode and may drop full speed on a
change; every call may fail.

### BootReplay

The module extends `PowerControl`: the script is the task `Boot`, and each line it
replays begins the store of a node (`StartMode`, `StartFullspeed`, `StartLimit`,
`CouplingStore`), whose steps are those of `PowerControl`, other tasks' stores and
changes of the mode in between. `saved` is `boot.conf` as a function from its lines to
values, `line` the place in `Order`, the order `cmd_boot_save` writes them in.
`NoSuchLine` is a line `boot-save` left out because its node could not be read.
`CURVE_PWM` is three stores: 255 unless the mode is (`CurveInCustom`,
`CurveSetsCustom`), full speed off, and the points, which are `FanCurve`'s. `EndOfFile`
may come before any line: `boot-save` truncates the file and writes it in place, so a
loss of power leaves a part of it; `read` does not hand on a last line without its end.
`StoreSteps` goes on after an error as `put` does. History: `quiet` (no call failed,
nobody else changed what the script sets).

Left out: lines for nodes that `PowerControl` does not have, none of which touches those
it has; the wait for the driver at the start; the built-in profiles, which run without
`boot.conf`; and how `boot-save` reads a running machine one node at a time.

### KbdIdle

`level`, `dimmed`, `own` and `kdeDimmed` are the fields of `Backlight`; `reassert` says
that `reassert_until` lies in the future. The channel of the main loop has two senders,
each in order: `bus` holds UPower's signals, `seat` the compositor's events, and the
daemon takes the head of either. `pc` tells the main loop apart from the middle of
`on_idle`, which makes two D-Bus calls (`OnIdle` reads, `TurnOff` writes) between which
others act, and from a process that is not there. `OnResume` and `OnChanged` are the
other handlers, each with every branch and a write that may fail (`Set`), `Stop` is the
end of the main loop after SIGTERM, `Exit` is `exit(1)` in a reader thread, at any
instant, and `Start` the service started again. Histories: `chosen` is the level last
set by anybody but the daemon (0 only by the key, since a program that writes 0 may be
KDE dimming); `astray` and `spoilt` note the races the design gives up on, named in the
module.

Outside the repository are UPower, taken to broadcast every write with its source, a
write of the same level too; the compositor, which tells idle and resume in turn; and
KDE, which when idle writes 0 and later puts back what it found, once. The field `by` of
a signal is a history: the daemon does not read it.

### EcRegisters and EcPort

A thread has a `job` (a hwmon file, the probe's check of the EC, the Y logo's light, the
EC power mode), which `Program` turns into its sequence of accesses: reads, writes, or
one call of the firmware on models whose sensors are behind ACPI or WMI (`FansOf`,
`SensorsOf`: the numbers each method knows; an unknown one makes no access and returns
an error). `at` is the access it is at, `got` and `reply` what it has read so far. C
leaves the order of the two reads of `ecram_read(LSB) + (ecram_read(MSB) << 8)` to the
compiler: `flip` is either. `conf` holds the access methods and the module parameter
`ec_readonly`, with which a write is skipped and reported as done (`SkipWrite`).
`FanTurns` is the EC, which changes both bytes of a speed at once. `seen` is a history:
the speeds the fan asked for has had since the job began.

`EcPort` replaces the atomic accesses: `Lock`, then `Select` and `Send` for the address
halves and the data register, `Receive` (`inb`) or `Emit` (`outb`), and `Unlock`.
`addr`, `index`, `hi` and `lo` are the EC's side of the ports, taken from the comment
over the port definitions; `Arrives` is what a byte at the data port does. The state a
first access finds is that of an access before.

### FanLayouts, FanTables and FanAttributes

A table is a function of cells (field, point). `FanLayouts` gives, for each way of
keeping it, the fields kept, the address each cell is read from and those it is written
to: layout EC (one byte per point and field), EC2 (ideapad: eight points, temperatures
written twice), EC3 (LOQ: read from the table in force with stride 3, written to a
staging copy with stride 6 and handed over by bit 4 of a command byte, the IC columns in
one place), EC4 (Legion 2024: stride 3, command byte for full speed), WMI3 (the
firmware's ten speeds). `Model` picks what the stores depend on from `model_config`; one
model of each kind is there. `SetSpeed` and `GetSpeed` are the conversions between a
duty cycle and hundreds of rpm or percent, in a u8.

In `FanTables` the action `AutopointRam` is a store on the EC layouts: read the table,
edit one cell (`Edited`; a store of the size makes a point the last), write everything
(`Written`, with the counters the code resets and the command bit). `AutopointWmi` is
the same over the firmware, which may answer the reading or not (then the copy `cache`
is used), may take the table whatever it answers, and on `model_n2cn` is asked again
(`Confirmed`). `AutopointRefused`, `AutopointShow`, `MinifanStore`, `LockStore`,
`FullspeedStore`, `UnlockStore`, `DefaultsStore` and `DefaultsShow` are the other
handlers. `DebugfsShow` is the listing in debugfs: it reads the table into
`priv->fancurve` itself, so a reading that fails in the midst of a table leaves there
what it had filled in (`PartOf`). `Execute` and `Ignore` are the EC of EC3 taking up a
table or not, `FirmwareLoads` a load of its own. What an automatic variable holds where the code does
not set it (`max_rpm` on EC, EC2, EC4) is any of `Junk`. Histories: `told` (the last
step was a store that reported success) and `since` (what the firmware did to its table
since the driver last read or wrote it).

`FanAttributes` is the promise: a store changes the cell or switch it names and nothing
else. It excuses attributes that share an address (`Shared`), the size, and a store made
from a copy that is out of date. The attributes of `FanTables` are what a reader of sysfs
sees: a switch whose file the machine does not have (`legion_hwmon_fancurve_is_visible`)
shows nothing. That matters on EC4, where the address of `minifancurve`, 0xC536, is a
cell of the table, and no model of that layout has the file. What the firmware may load
is mapped alike (`stocks`): its table on the EC, its table as WMI reads it behind WMI.

### DriverLifecycle

`pc[d]` is the step of device `d`'s probe or removal; `After` is the order of the steps
in `legion_add` and `legion_remove`, `Undo` the ladder of labels. Each step is an action
with its failure: `Claim` (`priv->platform_device = pdev`, before anything is checked),
`SharedInit`, `Check` (the allowlist), `AcpiInit` to `LightInit`, and the exits. The
private structure is one static object: `platform_device`, `conf` and `fancurve_valid`
are shared by whatever devices are being probed. `held`, `group`, `hwmon`, `profiles`
and `leds` are what the kernel has of the driver. From Linux 6.14 on the profile is
managed by the device (`devm`) and goes with `Release`, before by `ProfileExit`.
`ToggleRead`, `ToggleNext` and `ToggleBack` are the three calls of `toggle_powermode`. A
notification is `WmiEvent`, `NotifyReads` (up to the sleep) and `NotifyProfile`.
`ReadCurve` is any reading that fills the driver's copy of a table, through the
attributes of hwmon or through debugfs, whose file is there from its step of the probe
on, `ModeChanges`
anybody else's change of the mode, `Load`, `Unload` and `Unloaded` the module.
Histories: `chosen` (the modes a removal may leave: the one chosen last and, if that was
during a toggle (`InToggle`), the one the toggle had read) and
`intruded` (a probe began while another device was in use, and what it misplaced is
still there).

Assumed of the kernel: unregistering the WMI driver waits for a notification that runs
and admits no new one; one notification runs at a time; no device is probed that still
has managed resources. Left out: the virtual device of kernels from 7.0 on, the light of
`ec_ylogo` in the instance (the proofs cover it), and `priv->loaded`, which the
notification only prints about (it tests it the wrong way round, line 7040).

## Runs

| Run | Expect | Shows |
| --- | --- | --- |
| `fan_curve` | pass | `TypeOK`, `NeverInverted`, `CurveInEffect`, `IndependentRegisters`, `WalkEnds` with two programs, compatible curves, two modes |
| `fan_order` | pass | `HighestFirst` with curves and stock tables that lie across each other, three points |
| `fan_shipped` | violation | `NeverInverted` for the shipped preset over the factory table |
| `power` | pass | `TypeOK`, `CoupledInOrder`, `LimitsAdvertised`, `SuccessIsEffect`, `FullspeedGuarded` with two tasks |
| `power_clamp` | violation | `ClampedToMode` |
| `boot` | pass | `ReplayRestores`, `StoreReturns` with the boot script, whole and torn snapshots, and another task |
| `boot_exact` | violation | `ReplaysExactly` |
| `kbd_idle` | pass | `TypeOK`, `QueueInStep`, `ComesBack`, `NoUndo`, `WakesUp` with key, slider, KDE, stops and restarts |
| `kbd_key` | violation | `KeyTold` |
| `ec_port` | pass | `TypeOK`, `ReadingSound`, `AtomicAccess`, `JobsEnd` with two threads on the ports |
| `ec_table` | pass | `TypeOK`, `CopyStable`, `StoreConfirmed`, `CopiesTrue`, `IndependentAttributes` on six models |
| `lifecycle` | pass | `TypeOK`, `SharedOwned`, `PortsHeld`, `AttributesFit`, `NothingLeft`, `NotifyReachesProfile`, `FreshStart`, `ModeKept`, `Settles` with two devices on five machines |

Four runs contradict the repository's own words:

- `fan_shipped`: a comment of `83sc-fan` says that writing from the top down keeps the
  temperatures monotonic at every step. Over the factory table the first store of the
  preset *gradual* (point 10 at 92 °C) lies below point 9 (97 °C); by the repository's
  account of the EC that store is dropped without an error. Later stores of the walk
  make room for it, but the walk does not return.
- `power_clamp`: writes are said to be clamped to the range of the mode. After Fn+Q or
  `platform_profile` the range of the mode before is used.
- `boot_exact`: the replay is said to restore exactly what the machine was running. A
  snapshot with PL1 above PL2, saved with coupling off, is replayed while the driver
  still couples the limits: the store of PL2 pulls PL1 down.
- `kbd_key`: the daemon is said to tell the Fn key from itself by the origin of a
  signal, but it compares the value with its own writes first. Turn the light off by key
  as the daemon does the same, and the daemon's echo is taken for KDE: the next input
  turns the light on.

`ComesBack` and `NoUndo` hold only outside the races their histories name. A change
whose signal waits while the daemon turns the light off (`TurnOff` after somebody's
write) makes the daemon forget that it did: the light then stays off when input returns,
until the next change. A keyboard turned off by key just before input returns is lit
again. `Exit` while dimmed leaves the light off for the restarted daemon, which takes 0
for the level chosen.

Facts of the code that the properties name as exceptions, and that a reviewer of the
code should know:

- A snapshot of a mode other than custom that holds a curve, as every one does whose fan
  table could be read, boots into custom mode without full speed (`83sc-thermal.sh`
  lines 111-113), and what limits are then in force is the firmware's choice.
  `ReplayRestores` says so.
- `fan_fullspeed_store` checks the mode and writes the flag under `fancurve_mutex`; a
  change of mode by `platform_profile` (line 7275) or the key, which take no mutex, may
  come in between: full speed is then on outside custom mode, although
  docs/UPSTREAM-BUGS.md (line 82) wants `-EBUSY` there (`overtaken` in
  `FullspeedGuarded`).
- Registers that were not found are given the address 0xC5A0. On the ideapad layout
  (`model_9vcn`) that is `EXT_FAN1_BASE`: `minifancurve` and `lockfancontroller` write
  the first speed of the curve (lines 430-461, 609-626). On EC3 the two switches share
  it (`Shared`).
- A store on EC3 that comes before the EC took up the last table starts from the table
  in force and loses that one (line 4522). The property says so: the table asked for
  next is the one that *runs* with a cell replaced.
- A store reports success and is lost for a point past the size on layout EC (line 4257)
  and for a field the layout does not keep (EC4 accel and decel: a comment at line 8173
  says that such writes are rejected; `fancurve_set_accel` takes 2 to 5). `told` is then
  `Nothing`.
- `auto_points_size` never changes the size: it makes a point the last one by three
  temperatures of 127 (lines 3458-3481), and a larger size changes nothing.
- `max_rpm` is read uninitialised on EC, EC2 and EC4 (line 7609): a duty cycle is
  converted with whatever the stack held. `autopoint_show` prints the stack for points 9
  and 10 of the ideapad layout.
- On `model_nxcn` each copy of a curve through the attributes lowers it: percent is
  rounded down both ways (`CopyStable` leaves it out). That model takes the firmware's
  word for a write; `model_n2cn` reads it back.
- When the firmware does not answer, a store starts from the copy of the last success,
  though the firmware has loaded another table since (line 4623); a copy of ten points
  may go to a table of eight. Nor is it always a table there was: the listing in debugfs
  (line 5452) reads into the copy itself, and one that meets a speed above a byte
  returns with the copy cleared and filled in half (lines 4069-4082), still valid.
  `CopiesTrue` holds all the same, since the firmware must have loaded that table since.
- A second device changes `priv->platform_device` before it is refused (line 8605):
  attributes are then added to, and removed from, the wrong device (`intruded`).
- A machine that no list knows keeps `legion_shared` set (line 8636: the label lies
  below `legion_shared_exit`): every later probe is refused as a second device
  (`SharedOwned` asks only of accepted machines).
- With a profile managed by the device, the profile outlives the EC's ports between
  `legion_remove` and the driver core's release (line 7354).
- The probe reads the power mode (line 8761) before `ecram_init` has taken the ports and
  initialised `io_port_mutex`; on models with the EC power mode (`model_khcn`) that is
  an access through an uninitialised mutex.
- `toggle_powermode` writes 0, which the WMI path refuses: there nothing is toggled and
  nothing reloaded (lines 5051-5071 say it resets the fan curve).

### Bounds

- `fan_curve`: two points are enough for an order between points and for a field of
  another point to be lost; two programs are enough for two crossing stores, and one of
  them is the boot script, whose hysteresis differs; one mode beside custom is enough
  for a reload before, between and after stores. Temperatures are values of the
  programs' presets, no wider range changes a comparison.
- `fan_order`: three points, so that a point has neighbours on both sides, two programs
  and curves chosen so that stores at the top and in the middle are refused. Refusals
  are reached in undisturbed walks, at points 3 and 2.
- `power`: two tasks, two modes whose PL2 ranges differ (65 W and 85 W) and whose PL1
  ranges are alike, values 42 (inside, between two steps) and 90 (above every range).
  Tasks are symmetric; no liveness is checked there.
- `boot`: the script and one task, two modes, three snapshots: custom mode with a curve
  and without coupling, the other mode with a curve, and one without curve or coupling.
  The other task writes modes and full speed (`Watts` is empty): a limit it wrote would
  only end what `ReplayRestores` speaks of, and stores of limits are the script's for
  `StoreReturns`. 445 thousand states.
- `kbd_idle`: levels 0, 1, 2, so that a stale level differs from the one chosen and from
  off; others write or stop and start typing only while fewer than two events wait
  (`Pending`), which leaves room for a signal of somebody else before and behind the
  daemon's own, which are not bounded. 236 thousand states.
- `ec_port`: two threads are enough to mix two accesses; one of them also writes. Fan 1
  turns at 511 or 512 rpm, where both bytes change, so a torn reading is 255 or 767. Two
  configurations: all sensors in the EC, and one behind ACPI and WMI with `ec_readonly`.
  One kind of job per kind of program is left to the threads. 131 thousand states.
- `ec_table`: all ten points, and every address of each layout; as tables the firmware
  may load, two on each layout of the EC (on EC3 nine points and a length above ten) and
  four behind WMI (no points, eight, ten, a speed above a byte), three stores each at the first and last
  points and of a field the layout may not keep, sizes 3 and 11. 14 thousand states.
- `lifecycle`: two devices, since a second one is what the code must refuse, and a third
  could only be refused alike; three modes, so that the one the toggle had read, the one
  it writes and one chosen in between may differ; five machines: `model_rzcn` with its checks,
  `model_t2cn` (WMI table) and `model_khcn` (EC power mode, lights) before Linux 6.14, a
  machine refused, a machine forced without profiles. 304 thousand states.

### Fairness

`SF_vars(Walk(w))` and `SF_vars(Step(t))`: a program in the middle of a curve and a task
in a store keep running, and a waiter on a kernel mutex gets it in turn (FIFO
hand-over), so a mutex that is free again and again is not refused for ever. Nothing is
assumed of users, of the key or of programs starting. Other programs may hold the mutex,
but each holds it for one store only. That is what the liveness properties are about: a
missing unlock breaks them.

In `EcPort`, strong fairness of each thread's next step, for the same reason
(`io_port_mutex` is handed over in turn); a thread need not be called. In
`DriverLifecycle`, weak fairness of the steps of a probe or removal under way (the
kernel runs them to their end, nothing in them waits but for a notification), of a
notification under way, which waits for nothing but its sleep, and of unbinding the
devices of a module that is being unloaded. No device is ever obliged to appear.

In `KbdIdle`, weak fairness of `TurnOff` (a handler that began goes on) and strong
fairness of taking from `seat` and from `bus`: the main loop always receives, the
channel is first in, first out, so an event of either sender has its turn however many
the other sends. Calls may fail every time, and nothing is assumed of users, KDE, the
compositor or the service manager.

## Proofs

All theorems are for every value of the constants under the named assumptions.

- `TypeCorrect` (both modules): the type invariant, which is inductive: it says that a
  running program is at a point of the curve, and who holds the mutex.
- `TableStaysMixed`, `NeverRejected`: with pairwise compatible tables no interleaving
  sends the EC a falling table. The invariant behind it: every trip temperature in
  force, and in any table a store has read, is that of the same point of *some* curve in
  play; a mixture of compatible curves rises.
- `HighestFirstSuffices`: for rising tables and no compatibility at all, an undisturbed
  walk from the top is refused only for a point below. The invariant (`OrderInv`): the
  table in force rises, and the point above the one being written lies at or above what
  was asked for it, because it was taken, or it was refused for something below it that
  is higher still.
- `MutexHeld`, `StoresAreIndependent`: `fancurve_mutex` covers a store from read to
  write, and so `FanCurve` implements `CurveRegisters`.
- `UndisturbedInEffect`: the curve in force is the curve written, field by field
  (`EffectInv`), for compatible curves.
- `OrderKept`: PL1 at or below PL2; the invariant says that an undisturbed coupled task
  that is about to write a limit has the other one on the right side.
- `LimitsStayAdvertised` (nested ranges), `FullspeedIsGuarded`, `SuccessMeansEffect`:
  the invariants say what a task knows between its firmware calls, that its value is in
  an advertised range (`RangeInv`), that past the check of full speed the mode is custom
  or somebody overtook it (`GuardInv`), that an undisturbed task's mode is the one it
  looked at (`EffectInv`). The lemmas about steps are for `AnyNext`, in which a limit
  may be any number, so that the replay can use them.
- `ReplayIsATask`: every step of `BootReplay` is a step of the driver with one task more
  or leaves the driver alone. With it the invariants above carry over to the replay:
  `ReplayTypeCorrect`, `ReplayKeepsOrder`, `ReplayStaysAdvertised`, `ReplayIsGuarded`,
  `ReplaySucceeds`, for all snapshots, legal or not.
- `ReplayIsFaithful`: `ReplayRestores` speaks of the end of a replay; the invariant
  behind it (`ReplayInv`) speaks of each instant. `Underway`: the store that runs is that
  of the line read last, with the value of that line. `Restored`: what a store that
  returned left is still so, unless a later line takes it back. A mode loads limits of
  its own, so the limits' part rests on the order of the lines, the mode before the
  limits, and on PL1 at or below PL2 in the file: then the pull of one limit by the
  other never moves one that was restored.
- `DaemonTypeCorrect`, `QueueKeepsStep`, `ChoiceNotUndone`, `LightComesBack`, about
  `KbdIdle`: the inductive invariant `IInv` has four parts. `QueueInv`: a matching of
  the queue with the echoes under way, in order, which until the daemon goes astray
  misses no echo of a level above 0 (`QueueInStep` alone does not say which echoes have
  lost their entry, and the handler of a signal depends on it). `LevelInv`: a light that
  is on is at the level chosen last, and that level is in the last choice not yet heard
  or in the daemon's account. `SeatInv`: the compositor's events alternate, and a
  daemon that holds the light off has a resume to come. `DarkInv`: while nothing was
  spoilt the daemon's echoes come before all news, and for a light that is off somebody
  is in charge of turning it on (`Remedy`): the daemon, its watch after a resume, or a
  signal of KDE's still to be heard. For any number of levels and channels of any
  length, where TLC bounds what others write.

- `RegTypeCorrect`, `ReadingsSound`: two bytes read in either order. The invariant
  behind it: after the first byte, that byte is the half of some speed in `seen`, and
  with one speed in `seen` it is the half of that one. Any registers whose two halves
  are not written by the driver.
- `PortTypeCorrect`, `AccessesAtomic`, `PortReadingsSound`: the invariant says who holds
  `io_port_mutex` and, for its holder, which of `addr`, `index`, `hi`, `lo` its
  operations have set: at the twelfth one the address selected is the one asked for.
  Then every step is one of `EcRegisters` or stutters, and `ReadingsSound` carries over.
- `TablesTyped`: bytes stay bytes through conversions, paddings and loads.
  `CopiesStable`: for every byte s, rounding up undoes rounding down, with `max_rpm`
  10000 or 5400 and in percent to nearest. `DriverCopiesTrue`.
- `StoresConfirmed`: on each layout no two cells are written to one address (EC2 writes
  a temperature to two, none of them another cell's), and what a store writes is where
  the next reading looks; on EC3 that is once the EC has taken the staged copy up, which
  overlaps the table in force in the temperatures of the IC alone (`HandedOver`).
- `AttributesIndependent`: `FanTables` implements `FanAttributes`, action by action. A
  store of one cell writes the whole table back: the other cells keep their values
  because they are read from where they are written (`Cleared`, an invariant of its own,
  says that on layout EC the points past the size are already 0, which is what the
  writer makes them), the counters and command bits are no attribute, and a switch that
  shares an address with a cell is excused only as `Shared` says. A late `Execute` runs
  the table asked for last.
- The eight theorems about `DriverLifecycle` share the inductive invariant `Inv`:
  besides types, one owner (`OneOwner`), what is held at each step (`Holdings`), which
  lights may be on (`Lights`), no notification past the unregistering (`Quiet`), no
  lights and no hwmon device before hwmon and no copy of a table before debugfs
  (`Fresh`), the mode in force and the one to be put back among those somebody chose
  (`Chosen`),
  attributes in their place unless a device intruded (`InPlace`), and the profile
  registered (`Registered`). None of the properties is inductive alone: that `PortsHeld`
  survives `Free` needs to know that by `ecram_exit` everything above is gone, which is
  `Holdings`.

Assumptions of theorems: `Compatible` and `Ordered` speak of the curves in play (TLC
evaluates them for the instances), `Nested` of the firmware's ranges (PL1 25-60, PL2
40-85, docs/FINDINGS.md), `SpeedAssumption` of the registers of the fans (they are four
different ones, and none of those the driver writes), `StockCleared` of the tables the
firmware loads on layout EC (0 past the size, as the comment of
`ec_write_fancurve_legion`, lines 4255-4256, asks), `SnapshotAssumption` of `boot.conf`
(a line holds a value of its kind; nothing is assumed of which lines there are, nor of
the numbers).

Every invariant, action property and refinement that a passing run checks is a theorem.
Only model-checked: the liveness properties `WalkEnds`, `StoreReturns`, `WakesUp`,
`JobsEnd` and `Settles`, which rest on fairness and are out of TLAPS's reach; and the
four violations, which are counterexamples.

## Not modelled, and the plan

Parts with state that interacts, in the order they are worth adding:

1. `boot-save` beside the stores of others (a mixed snapshot), with `rename` as the way
   to save whole.
2. `GuiPoll`: poll against edits, bindings against the GUI's own mode change, `CHANGED`
   against a failing save.
3. The driver guard's reload of the module over `DriverLifecycle`'s `Load` and `Unload`.
4. An abstract lamp that `KbdIdle` implements.

The hazards of 2 are in `PROJECT.json` with no property yet.

Not to be modelled: attributes that pass one call on to the firmware (battery, keys,
touchpad, overclocking, WMI lights, `fan_maxspeed`) and the dump of EC RAM in debugfs, which
keep nothing in the driver (the fan curve in debugfs does: `DebugfsShow`); the EC branch
of full speed (lines 4757-4785), which no model uses; the
lists of models beyond one of each kind; the helper's whitelists; layout of the GUI,
printing of the command-line tools, the load generators and their statistics.
