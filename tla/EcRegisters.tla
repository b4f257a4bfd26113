---------------------------- MODULE EcRegisters ----------------------------
(***************************************************************************)
(* The driver's readings of the embedded controller (EC), over a register  *)
(* file whose single-byte accesses are atomic.  Every reader -- a hwmon    *)
(* file, the probe's check of the chip, the light of the lid -- is a       *)
(* program of byte accesses, or of one call of the firmware on models      *)
(* whose sensors are behind ACPI or WMI; the EC changes the fans' speeds   *)
(* on its own between any two of them.  EcPort implements the accesses.    *)
(***************************************************************************)
EXTENDS Integers, Sequences

CONSTANTS
  Threads,   \* readers and writers running in the kernel
  Offsets,   \* addresses of EC RAM that the instance touches
  Reg,       \* Reg[name]: address of a named register (ec_register_offsets)
  Contents,  \* what EC RAM holds at first
  Confs,     \* model configurations of the instance
  Rpms,      \* Rpms[f]: speeds fan f can turn at
  Jobs       \* Jobs[t]: jobs thread t may be asked to do

Fans == 0..3
Byte == {n \in Nat : n < 256}
Word16 == {n \in Nat : n < 65536}
SensorNames == {"FAN1_TARGET", "FAN2_TARGET", "FAN1_LSB", "FAN1_MSB", "FAN2_LSB", "FAN2_MSB",
                "CPU_INPUT", "GPU_INPUT", "IC_INPUT", "CPU", "GPU", "IC"}
Names == SensorNames \cup {"ECHIPID1", "ECHIPID2", "ECHIPVER", "ECDEBUG", "YLOGO", "POWERMODE"}

Methods == {"EC", "ACPI", "WMI", "WMI2", "WMI3", "NO_ACCESS"}
Conf == [fanspeed : Methods, temperature : Methods, isRpm : BOOLEAN, isDuty : BOOLEAN,
         readonly : BOOLEAN]

Kinds == {"fan", "temp", "target", "ic", "ec_id", "ec_version", "light_get", "light_set",
          "power_get", "power_set"}
\* flip: the order in which the compiler evaluates the two halves of a word.
Job == {j \in [kind : Kinds, arg : Nat, flip : BOOLEAN] : j.kind = "fan" => j.arg \in Fans}
Idle == [kind |-> "idle", arg |-> 0, flip |-> FALSE]

\* The two bytes of the speed of a fan the EC shows.
Lsb(f) == IF f = 0 THEN Reg["FAN1_LSB"] ELSE Reg["FAN2_LSB"]
Msb(f) == IF f = 0 THEN Reg["FAN1_MSB"] ELSE Reg["FAN2_MSB"]
SpeedOffsets == {Lsb(0), Lsb(1), Msb(0), Msb(1)}
\* Registers the driver writes.
Written == {Reg["YLOGO"], Reg["POWERMODE"]}

ASSUME OffsetAssumption == Offsets \subseteq Word16 /\ Reg \in [Names -> Offsets]
ASSUME RamAssumption == Contents \in [Offsets -> Byte]
ASSUME ConfAssumption == Confs \subseteq Conf /\ Jobs \in [Threads -> SUBSET Job]
ASSUME RpmAssumption == Rpms \in [Fans -> SUBSET Word16]
ASSUME SpeedAssumption ==
  /\ Lsb(0) # Lsb(1) /\ Msb(0) # Msb(1)
  /\ {Lsb(0), Lsb(1)} \cap {Msb(0), Msb(1)} = {}
  /\ SpeedOffsets \cap Written = {}

VARIABLES
  ram,       \* EC RAM
  rpm,       \* what the fans really turn at
  conf,      \* the model's configuration and module parameter ec_readonly
  job,       \* what each thread is asked to do
  at,        \* the access it is at, counted from 1
  got,       \* bytes its job has read
  reply,     \* what the firmware answered it
  seen       \* history: speeds the fan it asks for has had since the job began

regVars == <<ram, rpm, conf, job, at, got, reply, seen>>

-----------------------------------------------------------------------------
(* Jobs as programs of accesses *)

Read(name) == [kind |-> "read", name |-> name, value |-> 0]
Write(name, v) == [kind |-> "write", name |-> name, value |-> v]
Ask == [kind |-> "ask", name |-> "none", value |-> 0]

\* ec_read_sensor_values: every register, whichever of them is asked for.
SensorValues(flip) ==
  << Read("FAN1_TARGET"), Read("FAN2_TARGET"),
     Read(IF flip THEN "FAN1_MSB" ELSE "FAN1_LSB"), Read(IF flip THEN "FAN1_LSB" ELSE "FAN1_MSB"),
     Read(IF flip THEN "FAN2_MSB" ELSE "FAN2_LSB"), Read(IF flip THEN "FAN2_LSB" ELSE "FAN2_MSB"),
     Read("CPU_INPUT"), Read("GPU_INPUT"), Read("IC_INPUT"), Read("CPU"), Read("GPU"), Read("IC") >>

\* Fans each method knows of; WMI2 passes the number on unchecked.
FansOf(m) ==
  IF m \in {"ACPI", "WMI2"} THEN Fans ELSE IF m = "NO_ACCESS" THEN {} ELSE {0, 1}
SensorsOf(m) == IF m = "NO_ACCESS" THEN {} ELSE {0, 1}

\* read_fanspeed: no access at all for a fan the method does not know.
FanSpeed(f, flip) ==
  IF f \notin FansOf(conf.fanspeed) THEN << >>
  ELSE IF conf.fanspeed # "EC" THEN <<Ask>>
  ELSE LET lsb == IF f = 0 THEN "FAN1_LSB" ELSE "FAN2_LSB"
           msb == IF f = 0 THEN "FAN1_MSB" ELSE "FAN2_MSB"
       IN  IF flip THEN <<Read(msb), Read(lsb)>> ELSE <<Read(lsb), Read(msb)>>

\* read_temperature
Temperature(s) ==
  IF s \notin SensorsOf(conf.temperature) THEN << >>
  ELSE IF conf.temperature # "EC" THEN <<Ask>>
  ELSE <<Read(IF s = 0 THEN "CPU" ELSE "GPU")>>

\* The light: 0 is off and 2 bright for the LED class, the reverse in the EC.
LightSet(b) == IF b > 2 THEN << >> ELSE <<Write("YLOGO", 2 - b)>>

\* Power modes by WMI and by EC number; what is neither is taken for balanced.
WmiToEc(m) == CASE m = 1 -> 2 [] m = 3 -> 1 [] m = 255 -> 3 [] m = 224 -> 7 [] OTHER -> 0
EcToWmi(e) == CASE e = 2 -> 1 [] e = 1 -> 3 [] e = 3 -> 255 [] e = 7 -> 224 [] OTHER -> 2

\* The accesses of job j, in order.
Program(j) ==
  CASE j.kind = "fan" -> FanSpeed(j.arg, j.flip)
    [] j.kind = "temp" -> Temperature(j.arg)
    [] j.kind \in {"target", "ic"} -> SensorValues(j.flip)
    [] j.kind = "ec_id" -> <<Read("ECHIPID1"), Read("ECHIPID2")>>
    [] j.kind = "ec_version" -> <<Read("ECHIPVER"), Read("ECDEBUG")>>
    [] j.kind = "light_get" -> <<Read("YLOGO")>>
    [] j.kind = "light_set" -> LightSet(j.arg)
    [] j.kind = "power_get" -> <<Read("POWERMODE")>>
    [] j.kind = "power_set" -> <<Write("POWERMODE", WmiToEc(j.arg))>>
    [] OTHER -> << >>

Running(t) == job[t] # Idle
Over(t) == Running(t) /\ at[t] = Len(Program(job[t])) + 1
Current(t) == Program(job[t])[at[t]]
Offset(t) == Reg[Current(t).name]
\* Thread t is at an access of kind k.
At(t, k) ==
  LET p == Program(job[t]) IN at[t] \in 1..Len(p) /\ p[at[t]].kind = k

-----------------------------------------------------------------------------
(* What a job returns *)

\* Seeded fault: the halves of the speed are put together the wrong way round.
WordSwapped(t, f) == got[t][Msb(f)] + 256 * got[t][Lsb(f)]

\* The speed of fan f from the two bytes thread t has read of it.
Word(t, f) == got[t][Lsb(f)] + 256 * got[t][Msb(f)]

\* fan_target_mult
TargetScale == IF conf.isDuty \/ ~conf.isRpm THEN 100 ELSE 1

\* Rounding of a speed the firmware answers with: ACPI counts in hundreds.
Unit == IF conf.fanspeed = "ACPI" /\ ~conf.isRpm THEN 100 ELSE 1

\* A fan speed as sensor_show prints it.
FanValue(t) ==
  IF conf.fanspeed = "EC" THEN Word(t, job[t].arg) ELSE Unit * reply[t]

\* The other numbers, once the program is over.
Value(t) ==
  LET j == job[t]
      byte(name) == got[t][Reg[name]]
  IN  CASE j.kind = "fan" -> FanValue(t)
        [] j.kind = "temp" -> 1000 * (IF conf.temperature # "EC" THEN reply[t]
                                      ELSE byte(IF j.arg = 0 THEN "CPU" ELSE "GPU"))
        [] j.kind = "target" ->
             TargetScale * byte(IF j.arg = 0 THEN "FAN1_TARGET" ELSE "FAN2_TARGET")
        [] j.kind = "ic" -> 1000 * byte("IC")
        [] j.kind = "ec_id" -> byte("ECHIPID1") * 256 + byte("ECHIPID2")
        [] j.kind = "ec_version" -> byte("ECHIPVER") * 256 + byte("ECDEBUG")
        [] j.kind = "light_get" -> 2 - byte("YLOGO")
        [] j.kind = "power_get" -> EcToWmi(byte("POWERMODE"))
        [] OTHER -> 0

\* The error it returns instead: a number nobody knows, a light out of range,
\* a firmware that does not answer.
Failed(t) ==
  \/ Program(job[t]) = << >>
  \/ job[t].kind = "light_get" /\ got[t][Reg["YLOGO"]] > 2
  \/ reply[t] = -1

-----------------------------------------------------------------------------
Nothing == [o \in Offsets |-> 0]

Init ==
  /\ rpm \in [Fans -> UNION {Rpms[f] : f \in Fans}]
  /\ \A f \in Fans : rpm[f] \in Rpms[f]
  /\ ram = [o \in Offsets |->
       CASE o = Lsb(0) -> rpm[0] % 256 [] o = Msb(0) -> rpm[0] \div 256
         [] o = Lsb(1) -> rpm[1] % 256 [] o = Msb(1) -> rpm[1] \div 256
         [] OTHER -> Contents[o]]
  /\ conf \in Confs
  /\ job = [t \in Threads |-> Idle]
  /\ at = [t \in Threads |-> 1]
  /\ got = [t \in Threads |-> Nothing]
  /\ reply = [t \in Threads |-> 0]
  /\ seen = [t \in Threads |-> {}]

\* Thread t is asked to do j.
Begin(t, j) ==
  /\ ~Running(t)
  /\ job' = [job EXCEPT ![t] = j]
  /\ at' = [at EXCEPT ![t] = 1]
  /\ got' = [got EXCEPT ![t] = Nothing]
  /\ reply' = [reply EXCEPT ![t] = 0]
  /\ seen' = [seen EXCEPT ![t] = IF j.kind = "fan" THEN {rpm[j.arg]} ELSE {}]
  /\ UNCHANGED <<ram, rpm, conf>>

\* Its access is done: it goes on to the next.
Advance(t) ==
  /\ at' = [at EXCEPT ![t] = @ + 1]
  /\ UNCHANGED <<rpm, conf, job, seen>>

\* It reads the byte its program is at.
ReadByte(t) ==
  /\ At(t, "read")
  /\ got' = [got EXCEPT ![t][Offset(t)] = ram[Offset(t)]]
  /\ Advance(t)
  /\ UNCHANGED <<ram, reply>>

\* It writes the byte.
WriteByte(t) ==
  /\ At(t, "write")
  /\ ~conf.readonly
  /\ ram' = [ram EXCEPT ![Offset(t)] = Current(t).value]
  /\ Advance(t)
  /\ UNCHANGED <<got, reply>>

\* With ec_readonly the write is skipped, and the job goes on as if it were done.
SkipWrite(t) ==
  /\ At(t, "write")
  /\ conf.readonly
  /\ Advance(t)
  /\ UNCHANGED <<ram, got, reply>>

\* It calls a method of the firmware, which answers or fails (-1).
Answer(t) ==
  IF job[t].kind = "fan" THEN rpm[job[t].arg] \div Unit
  ELSE ram[Reg[IF job[t].arg = 0 THEN "CPU" ELSE "GPU"]]
AskFirmware(t) ==
  /\ At(t, "ask")
  /\ \E r \in {Answer(t), -1} : reply' = [reply EXCEPT ![t] = r]
  /\ Advance(t)
  /\ UNCHANGED <<ram, got>>

\* It returns to its caller.
Return(t) ==
  /\ Over(t)
  /\ job' = [job EXCEPT ![t] = Idle]
  /\ got' = [got EXCEPT ![t] = Nothing]
  /\ reply' = [reply EXCEPT ![t] = 0]
  /\ seen' = [seen EXCEPT ![t] = {}]
  /\ UNCHANGED <<ram, rpm, conf, at>>

\* Fan f changes its speed; the EC replaces both bytes of it at once.
FanTurns(f, s) ==
  /\ s # rpm[f]
  /\ rpm' = [rpm EXCEPT ![f] = s]
  /\ ram' = IF f \notin {0, 1} THEN ram
            ELSE [ram EXCEPT ![Lsb(f)] = s % 256, ![Msb(f)] = s \div 256]
  /\ seen' = [t \in Threads |->
       IF job[t].kind = "fan" /\ job[t].arg = f THEN seen[t] \cup {s} ELSE seen[t]]
  /\ UNCHANGED <<conf, job, at, got, reply>>

Next ==
  \/ \E t \in Threads : \E j \in Jobs[t] : Begin(t, j)
  \/ \E t \in Threads :
       ReadByte(t) \/ WriteByte(t) \/ SkipWrite(t) \/ AskFirmware(t) \/ Return(t)
  \/ \E f \in Fans : \E s \in Rpms[f] : FanTurns(f, s)

RegSpec == Init /\ [][Next]_regVars

-----------------------------------------------------------------------------
(* Properties *)

\* Types of the register file and of the jobs.
RegTypeOK ==
  /\ ram \in [Offsets -> Byte]
  /\ rpm \in [Fans -> Word16]
  /\ conf \in Conf
  /\ job \in [Threads -> Job \cup {Idle}]
  /\ at \in [Threads -> Nat \ {0}]
  /\ got \in [Threads -> [Offsets -> Byte]]
  /\ reply \in [Threads -> Word16 \cup {-1}]
  /\ seen \in [Threads -> SUBSET Word16]

\* A fan's speed is read one byte at a time, in an order the compiler picks,
\* while the EC changes it: the number sensor_show prints was never far from a
\* speed the fan has had since the read began (less than 256 rpm), and is that
\* speed, in the unit of the method, when it has not changed.
ReadingSound ==
  \A t \in Threads :
    Over(t) /\ job[t].kind = "fan" /\ ~Failed(t)
      => \E s \in seen[t] :
           /\ Value(t) - s < 256 /\ s - Value(t) < 256
           /\ seen[t] = {s} => Value(t) = (s \div Unit) * Unit

=============================================================================
