----------------------------- MODULE FanTables -----------------------------
(***************************************************************************)
(* The stores of the driver's fan attributes on every family of models:    *)
(* autopoint_store, minifancurve, lockfancontroller, fan_fullspeed,        *)
(* fan_unlock and fancurve_defaults_powermode, over EC RAM byte by byte    *)
(* (layouts EC, EC2, EC3, EC4) or over the firmware's table behind WMI,    *)
(* with the driver's copy of it.  fancurve_mutex makes each of them one    *)
(* step; FanCurve opens that step up.  The EC and the firmware act between *)
(* any two of them.                                                        *)
(***************************************************************************)
EXTENDS FanLayouts

CONSTANTS
  Confs,     \* models of the instance
  Stock,     \* Stock[l]: tables the firmware of layout l may load, with a size
  Asks,      \* Asks[l]: attribute, point and value of the stores users make
  Sizes,     \* values stored in auto_points_size
  Junk,      \* what an automatic variable of C may hold: max_rpm on EC, EC2, EC4
  Nothing    \* no value

ASSUME ConfAssumption == Confs \subseteq Models
ASSUME StockAssumption ==
  Stock \in [Layouts -> SUBSET [table : [Fields \X Points -> Nat], size : Nat]]
ASSUME StockBytes ==
  \A l \in InRam : \A s \in Stock[l] : s.size \in Byte /\ \A c \in Fields \X Points : s.table[c] \in Byte
\* ec_write_fancurve_legion: "Entries for points larger than fancurve size should
\* be cleared to 0"; those of the firmware's own tables are.
ASSUME StockCleared ==
  \A s \in Stock["EC"], c \in Fields \X Points : c[2] >= s.size => s.table[c] = 0
ASSUME AskAssumption ==
  /\ Asks \in [Layouts -> SUBSET [field : Fields, point : Points, value : Int]]
  /\ Sizes \subseteq Int
ASSUME JunkAssumption == Junk \subseteq {n \in Nat : n < 65536}
ASSUME NothingAssumption == Nothing \notin [cell : Fields \X Points, value : Byte]

VARIABLES
  conf,      \* the model
  ram,       \* EC RAM, at the addresses of the model
  fw,        \* firmware behind WMI: the fan table and its length
  fullspeed, \* firmware: full speed is on
  unlocked,  \* firmware: the fan ceiling is lifted
  cache,     \* priv->fancurve of the WMI layouts, or Nothing while not valid
  fan_unlock_state,
  fancurve_defaults_powermode,
  told,      \* history: the last step was a store of this, and it reported success
  since      \* history: what happened to the firmware's table since the driver
             \* last read or wrote it with success

driver == <<cache, fan_unlock_state, fancurve_defaults_powermode>>
vars == <<conf, ram, fw, fullspeed, unlocked, driver, told, since>>

-----------------------------------------------------------------------------
(* Reading *)

Layout == conf.layout
Cells == CellsOf[Layout]
Minimum(a, b) == IF a < b THEN a ELSE b
TakesRam == Layout # "WMI3"

\* The table the attributes show, of a model that keeps it in EC RAM.
Shown == [c \in Cells |-> ram[ReadAt[Layout][c]]]
SizeShown ==
  CASE Layout = "EC" -> Minimum(ram[SizeAt], MAXFANCURVESIZE)
    [] Layout = "EC2" -> 8
    [] OTHER -> MAXFANCURVESIZE

\* Of a model whose firmware is asked for it: only model_n2cn heeds the length,
\* and a speed above a byte is an error.
WmiSize(f) == IF conf.confirms THEN Minimum(f.size, MAXFANCURVESIZE) ELSE MAXFANCURVESIZE
WmiSound(f) == WmiSize(f) > 0 /\ \A c \in Cells : c[2] < WmiSize(f) => f.table[c] < 256
WmiTable(f) == [c \in Cells |-> IF c[2] < WmiSize(f) THEN f.table[c] ELSE 0]

\* read_fancurve, answered by the firmware or not: the curve, or Nothing.
ReadFancurve(answered) ==
  IF TakesRam THEN [table |-> Shown, size |-> SizeShown]
  ELSE IF answered /\ WmiSound(fw) THEN [table |-> WmiTable(fw), size |-> WmiSize(fw)]
  ELSE cache

\* max_rpm of that curve: only ec_read_fancurve_loq sets it, and the WMI reading
\* clears it; otherwise it is what the stack held.
MaxRpmOf(junk) ==
  IF Layout = "EC3" THEN conf.rpm ELSE IF TakesRam THEN junk ELSE 0
JunkFor(f) == IF f \in Speeds /\ Layout \in {"EC", "EC2", "EC4"} THEN Junk ELSE {0}

MinifanShown ==
  CASE ram[MinifanAt(Layout)] = 4 -> "on" [] ram[MinifanAt(Layout)] = 160 -> "off" [] OTHER -> "error"
LockShown ==
  CASE ram[LockAt(Layout)] = 8 -> "on" [] ram[LockAt(Layout)] = 0 -> "off" [] OTHER -> "error"
FullspeedShown ==
  IF (IF Layout = "EC4" THEN ram[Command] % 2 = 1 ELSE fullspeed) THEN "on" ELSE "off"

\* fan_control_write_allowed
WriteAllowed == conf.locks => LockShown = "off"

-----------------------------------------------------------------------------
(* Writing *)

\* What the setters of autopoint_store take of value v for field f of point i.
Accepted(f, i, v, size) ==
  CASE f \in Speeds -> v \in 0..255 /\ i < size
    [] f \in {"accel", "decel"} -> v \in 2..5
    [] f = "size" -> v \in 1..MAXFANCURVESIZE
    [] OTHER -> v \in 0..127
Converted(f, v, junk) == IF f \in Speeds THEN SetSpeed(conf.unit, MaxRpmOf(junk), v) ELSE v

\* The curve with that value set.  A store of the size leaves the size as it is
\* and makes a point the last; the points it adds are not written.
Edited(curve, f, i, v, junk) ==
  [c \in Cells |->
     IF f = "size" THEN IF v < curve.size /\ c[2] = v - 1 /\ c[1] \in MaxTemps THEN 127 ELSE curve.table[c]
     ELSE IF c = <<f, i>> THEN Converted(f, v, junk) ELSE curve.table[c]]

SetBit(n, b) == IF (n \div b) % 2 = 1 THEN n ELSE n + b

\* The EC layout alone clears the points past the size.
Padded(t, size) == [c \in Cells |-> IF Layout = "EC" /\ c[2] >= size THEN 0 ELSE t[c]]

\* EC RAM after write_fancurve of table t.
Written(t) ==
  [a \in DOMAIN ram |->
     IF a \in DOMAIN Place[Layout] THEN t[Place[Layout][a]]
     ELSE IF a \in Resets(Layout) THEN 0
     ELSE IF a = Command /\ Layout = "EC3" THEN SetBit(ram[a], 16)
     ELSE ram[a]]

\* EC RAM once the firmware has loaded table s; its counters have moved on.
Loaded(s, old) ==
  [a \in DOMAIN old |->
     IF a \in DOMAIN Home[Layout] THEN s.table[Home[Layout][a]]
     ELSE IF a \in Resets(Layout) THEN 1
     ELSE IF a = SizeAt /\ Layout = "EC" THEN s.size
     ELSE old[a]]

-----------------------------------------------------------------------------
Init ==
  /\ conf \in Confs
  /\ LET blank == [a \in Addresses(Layout) |->
           IF a = LockAt(Layout) THEN 0 ELSE IF a = MinifanAt(Layout) THEN 160
           ELSE IF a = Command THEN 2 ELSE 0]
     IN  \E s \in Stock[Layout] :
           /\ ram = IF TakesRam THEN Loaded(s, blank) ELSE blank
           /\ fw = [table |-> [c \in Cells |-> s.table[c]], size |-> s.size]
  /\ fullspeed = FALSE /\ unlocked = FALSE
  /\ cache = Nothing /\ fan_unlock_state = 0 /\ fancurve_defaults_powermode = 0
  /\ told = Nothing /\ since = "load"

\* read_fancurve keeps what the firmware told it.
Remember(answered) ==
  IF ~TakesRam /\ answered /\ WmiSound(fw)
  THEN cache' = ReadFancurve(TRUE) /\ since' = "sync"
  ELSE UNCHANGED <<cache, since>>

\* autopoint_show
AutopointShow(answered) ==
  /\ Remember(answered)
  /\ UNCHANGED <<conf, ram, fw, fullspeed, unlocked, fan_unlock_state,
                 fancurve_defaults_powermode, told>>

\* What wmi_read_fancurve_custom has filled in when it meets a speed above a byte.
PartOf(f) ==
  [c \in Cells |-> IF \A d \in Cells : d[2] <= c[2] => f.table[d] < 256 THEN WmiTable(f)[c] ELSE 0]

\* debugfs_fancurve_show reads into priv->fancurve itself: a copy that was valid is
\* then spoilt by a reading that fails in the midst of the table, and stays valid.
DebugfsShow(answered) ==
  /\ IF ~TakesRam /\ answered /\ WmiSize(fw) > 0 /\ ~WmiSound(fw) /\ cache # Nothing
     THEN cache' = [table |-> PartOf(fw), size |-> WmiSize(fw)] /\ since' = since
     ELSE Remember(answered)
  /\ UNCHANGED <<conf, ram, fw, fullspeed, unlocked, fan_unlock_state,
                 fancurve_defaults_powermode, told>>

Visible(f) == conf.speedOnly => f = "speed1"

\* autopoint_store ends in an error: no table to start from, or a bad value.
AutopointRefused(f, i, v, answered) ==
  /\ Visible(f) /\ WriteAllowed
  /\ LET curve == ReadFancurve(answered)
     IN  curve # Nothing => ~Accepted(f, i, v, curve.size)
  /\ Remember(answered)
  /\ told' = Nothing
  /\ UNCHANGED <<conf, ram, fw, fullspeed, unlocked, fan_unlock_state,
                 fancurve_defaults_powermode>>

\* autopoint_store on the models that keep the table in EC RAM.
AutopointRam(f, i, v, junk) ==
  /\ TakesRam /\ Visible(f) /\ WriteAllowed
  /\ LET curve == ReadFancurve(TRUE)
         t == Padded(Edited(curve, f, i, v, junk), curve.size)
     IN  /\ Accepted(f, i, v, curve.size)
         /\ ram' = IF f = "size" /\ Layout = "EC"
                   THEN [Written(t) EXCEPT ![SizeAt] = curve.size] ELSE Written(t)
         /\ told' = IF <<f, i>> \in Cells /\ i < curve.size
                    THEN [cell |-> <<f, i>>, value |-> t[<<f, i>>]] ELSE Nothing
  /\ UNCHANGED <<conf, fw, fullspeed, unlocked, driver, since>>

\* Seeded fault: model_n2cn does not read its table back.
ConfirmedBlindly(f, t, back) == TRUE

\* model_n2cn alone reads the table back and compares.
Confirmed(f, t, back) ==
  conf.confirms => back /\ WmiSound(f) /\ WmiTable(f) = t

\* Seeded fault: the copy is kept of a table that was not taken.
KeptAlways(t, curve, ok) == [table |-> t, size |-> curve.size]

\* The driver's copy after a write that succeeded or failed.
KeptCopy(t, curve, ok) == IF ok THEN [table |-> t, size |-> curve.size] ELSE curve

\* autopoint_store on the WMI models.  The firmware may take the table or not,
\* whatever it answers to the write; back: it answers the reading back.
AutopointWmi(f, i, v, answered, takes, ok, back) ==
  /\ ~TakesRam /\ Visible(f) /\ WriteAllowed
  /\ back \/ (ok /\ conf.confirms)
  /\ LET curve == ReadFancurve(answered)
         t == Edited(curve, f, i, v, 0)
         now == IF takes THEN [fw EXCEPT !.table = t] ELSE fw
         done == ok /\ Confirmed(now, t, back)
     IN  /\ curve # Nothing
         /\ Accepted(f, i, v, curve.size)
         /\ fw' = now
         /\ cache' = KeptCopy(t, curve, done)
         /\ told' = IF done /\ <<f, i>> \in Cells THEN [cell |-> <<f, i>>, value |-> t[<<f, i>>]] ELSE Nothing
         /\ since' = IF done THEN IF takes \/ conf.confirms THEN "sync" ELSE "ignored"
                     ELSE IF takes THEN "failed"
                     ELSE IF answered /\ WmiSound(fw) THEN "sync" ELSE since
  /\ UNCHANGED <<conf, ram, fullspeed, unlocked, fan_unlock_state, fancurve_defaults_powermode>>

-----------------------------------------------------------------------------
(* Switches *)

Poke(a, v) ==
  /\ ram' = [ram EXCEPT ![a] = v]
  /\ told' = Nothing
  /\ UNCHANGED <<conf, fw, fullspeed, unlocked, driver, since>>

MinifanStore(on) == conf.minifan /\ Poke(MinifanAt(Layout), IF on THEN 4 ELSE 160)
LockStore(on) == Poke(LockAt(Layout), IF on THEN 8 ELSE 0)

\* Seeded fault: the whole byte is written for the one bit.
FullspeedByte(on) == IF on THEN 1 ELSE 0

\* The one bit of the command byte.
FullspeedBit(on) == IF on THEN SetBit(ram[Command], 1) ELSE ram[Command] - (ram[Command] % 2)

\* fan_fullspeed_store; that of model_secn depends on the mode: PowerControl.
FullspeedStore(on) ==
  /\ conf # model_secn /\ WriteAllowed
  /\ IF Layout = "EC4" THEN Poke(Command, FullspeedBit(on))
     ELSE /\ fullspeed' = on
          /\ told' = Nothing
          /\ UNCHANGED <<conf, ram, fw, unlocked, driver, since>>

\* fan_unlock_store, of which the firmware's answer may be an error.
UnlockStore(on, answered) ==
  /\ conf = model_secn
  /\ unlocked' = IF answered THEN on ELSE unlocked
  /\ fan_unlock_state' = IF ~answered THEN fan_unlock_state ELSE IF on THEN 1 ELSE 0
  /\ told' = Nothing
  /\ UNCHANGED <<conf, ram, fw, fullspeed, cache, fancurve_defaults_powermode, since>>

-----------------------------------------------------------------------------
(* Firmware and EC *)

\* The firmware loads a table, as it does when the power mode changes.
Load(s) ==
  /\ IF TakesRam THEN ram' = Loaded(s, ram) /\ fw' = fw
     ELSE fw' = [table |-> [c \in Cells |-> s.table[c]], size |-> s.size] /\ ram' = ram
  /\ told' = Nothing
  /\ since' = "load"
  /\ UNCHANGED <<conf, fullspeed, unlocked, cache, fan_unlock_state>>

FirmwareLoads(s) == Load(s) /\ UNCHANGED fancurve_defaults_powermode

\* fancurve_defaults_powermode_store makes it load one.
DefaultsStore(s) ==
  /\ conf = model_secn
  /\ Load(s)
  /\ fancurve_defaults_powermode' = 255

\* fancurve_defaults_powermode_show forgets the mode when the machine has left
\* custom mode, or when its uninitialised reading of the mode says so.
DefaultsShow ==
  /\ conf = model_secn
  /\ fancurve_defaults_powermode' = 0
  /\ UNCHANGED <<conf, ram, fw, fullspeed, unlocked, cache, fan_unlock_state, told, since>>

\* The EC of layout EC3 has been told to take up the table written.
Pending == Layout = "EC3" /\ (ram[Command] \div 16) % 2 = 1

Execute ==
  /\ Pending
  /\ ram' = [a \in DOMAIN ram |->
       IF a \in DOMAIN Home[Layout] THEN ram[Staged[Home[Layout][a]]]
       ELSE IF a = Command THEN ram[a] - 16 ELSE ram[a]]
  /\ told' = Nothing
  /\ UNCHANGED <<conf, fw, fullspeed, unlocked, driver, since>>

\* It does not: a curve out of order, a mode that takes none.
Ignore ==
  /\ Pending
  /\ ram' = [ram EXCEPT ![Command] = @ - 16]
  /\ told' = Nothing
  /\ UNCHANGED <<conf, fw, fullspeed, unlocked, driver, since>>

Store(f, i, v) ==
  \/ \E j \in JunkFor(f) : AutopointRam(f, i, v, j)
  \/ \E a \in BOOLEAN :
       AutopointRefused(f, i, v, a) \/ \E w, ok, b \in BOOLEAN : AutopointWmi(f, i, v, a, w, ok, b)

Next ==
  \/ \E a \in Asks[Layout] : Store(a.field, a.point, a.value)
  \/ \E k \in Sizes : Store("size", 0, k)
  \/ \E a \in BOOLEAN : AutopointShow(a) \/ DebugfsShow(a)
  \/ \E on \in BOOLEAN : MinifanStore(on) \/ LockStore(on) \/ FullspeedStore(on)
  \/ \E on, a \in BOOLEAN : UnlockStore(on, a)
  \/ \E s \in Stock[Layout] : FirmwareLoads(s) \/ DefaultsStore(s)
  \/ DefaultsShow \/ Execute \/ Ignore

Spec == Init /\ [][Next]_vars

-----------------------------------------------------------------------------
(* Properties *)

\* Types: what any chain of conversions and stores leaves in a register is a byte.
TypeOK ==
  /\ conf \in Confs
  /\ ram \in [Addresses(Layout) -> Byte]
  /\ fw \in [table : [Cells -> Nat], size : Nat]
  /\ fullspeed \in BOOLEAN /\ unlocked \in BOOLEAN
  /\ cache = Nothing \/ cache \in [table : [Cells -> Byte], size : 0..MAXFANCURVESIZE]
  /\ fan_unlock_state \in {0, 1}
  /\ fancurve_defaults_powermode \in {0, 255}
  /\ told = Nothing \/ told \in [cell : Cells, value : Byte]
  /\ since \in {"sync", "load", "ignored", "failed"}

\* Storing the duty cycle an attribute shows leaves the speed as it is: the
\* rounding up of fancurve_set_speed_pwm undoes the rounding down of
\* fancurve_get_speed_pwm.  Not so where max_rpm is not set, nor in percent
\* (model_nxcn), where each copy of a curve lowers it.
CopyStable ==
  conf.unit # "percent" /\ Layout \in {"EC3", "WMI3"} =>
    \A f \in Speeds, i \in Points : <<f, i>> \in Cells =>
      LET s == IF TakesRam THEN Shown[<<f, i>>] ELSE WmiTable(fw)[<<f, i>>]
          v == GetSpeed(conf.unit, MaxRpmOf(0), s)
      IN  v < 256 => SetSpeed(conf.unit, MaxRpmOf(0), v) = s

\* The table that is to run: on EC3, the one handed over and not yet taken up.
Running == IF TakesRam THEN Shown ELSE WmiTable(fw)
Asked == IF Pending THEN [c \in Cells |-> ram[Staged[c]]] ELSE Running

\* A store that reports success is in effect: of the table that runs, or is to
\* run next, the cell it named is the value it was given.  The firmware of
\* model_n2cn may ignore a write it answers, and the store must tell.
\* model_nxcn takes the firmware's word.
StoreConfirmed ==
  told # Nothing /\ (TakesRam \/ conf.confirms) => Asked[told.cell] = told.value

\* What the driver remembers of the firmware is so, unless the firmware has
\* loaded a table, ignored a write or failed one since: the copy a store starts
\* from when the firmware does not answer, and the ceiling fan_unlock shows.
CopiesTrue ==
  /\ cache # Nothing /\ since = "sync" => cache.table = WmiTable(fw)
  /\ fan_unlock_state = 1 <=> unlocked

\* The bits of the command byte that are none of the driver's.
CommandBits ==
  CASE Layout = "EC3" -> ram[Command] - (IF Pending THEN 16 ELSE 0)
    [] Layout = "EC4" -> ram[Command] \div 2
    [] OTHER -> 0

\* Every attribute is a register of its own: the stores of all of them, on every
\* layout, with the EC taking tables up late, implement FanAttributes.  A model
\* without minifancurve hides that attribute, whose register may be a cell's.
Switches == [s \in {"minifan", "lock", "fullspeed", "command"} \X {0} |->
  CASE s[1] = "minifan" -> IF conf.minifan THEN MinifanShown ELSE "hidden"
    [] s[1] = "lock" -> LockShown
    [] s[1] = "fullspeed" -> FullspeedShown
    [] OTHER -> CommandBits]
Attributes == INSTANCE FanAttributes WITH
  running <- Running, asked <- Asked, switches <- Switches, shared <- Shared(Layout),
  locked <- ~WriteAllowed,
  stale <- ~TakesRam /\ cache # Nothing /\ cache.table # WmiTable(fw),
  stocks <- {IF TakesRam THEN s.table ELSE WmiTable(s) : s \in Stock[Layout]}
IndependentAttributes == Attributes!AttrSpec
=============================================================================
