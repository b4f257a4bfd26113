------------------------- MODULE EcRegisters_proofs -------------------------
(***************************************************************************)
(* Proofs about EcRegisters, for any threads, registers, models, speeds    *)
(* and jobs.                                                               *)
(***************************************************************************)
EXTENDS EcRegisters, TLAPS

-----------------------------------------------------------------------------
(* Programs *)

\* What an access of a program may be.
Sane(a) ==
  /\ a.kind \in {"read", "write", "ask"}
  /\ a.kind = "read" => a.name \in Names
  /\ a.kind = "write" => a.name \in {"YLOGO", "POWERMODE"} /\ a.value \in Byte

LEMMA SensorAccesses ==
  ASSUME NEW b \in BOOLEAN
  PROVE  /\ Len(SensorValues(b)) = 12
         /\ \A i \in 1..12 : Sane(SensorValues(b)[i])
  BY DEF SensorValues, Sane, Read, Names, SensorNames

\* The programs of fan readings, one by one.
LEMMA FanProgram ==
  ASSUME NEW j \in Job, j.kind = "fan"
  PROVE  /\ j.arg \in Fans
         /\ j.arg \notin FansOf(conf.fanspeed) => Program(j) = << >>
         /\ j.arg \in FansOf(conf.fanspeed) /\ conf.fanspeed # "EC" => Program(j) = <<Ask>>
         /\ j.arg \in FansOf(conf.fanspeed) /\ conf.fanspeed = "EC" =>
              LET l == Read(IF j.arg = 0 THEN "FAN1_LSB" ELSE "FAN2_LSB")
                  m == Read(IF j.arg = 0 THEN "FAN1_MSB" ELSE "FAN2_MSB")
              IN  Program(j) = IF j.flip THEN <<m, l>> ELSE <<l, m>>
  BY DEF Program, FanSpeed, Job

LEMMA ProgramSane ==
  ASSUME NEW j \in Job \cup {Idle}
  PROVE  /\ Len(Program(j)) \in Nat
         /\ \A i \in 1..Len(Program(j)) : Sane(Program(j)[i])
  <1>1. CASE j.kind = "fan"
    <2>1. j \in Job
      BY <1>1 DEF Idle
    <2>2. QED BY <1>1, <2>1, FanProgram DEF Sane, Read, Ask, Names, SensorNames
  <1>2. CASE j.kind = "temp"
    BY <1>2 DEF Program, Temperature, Sane, Read, Ask, Names, SensorNames
  <1>3. CASE j.kind \in {"target", "ic"}
    <2>1. j \in Job /\ j.flip \in BOOLEAN
      BY <1>3 DEF Idle, Job
    <2>2. Program(j) = SensorValues(j.flip)
      BY <1>3 DEF Program
    <2>3. Len(SensorValues(j.flip)) = 12 /\ \A i \in 1..12 : Sane(SensorValues(j.flip)[i])
      BY <2>1, SensorAccesses
    <2>4. QED BY <2>2, <2>3
  <1>4. CASE j.kind \in {"ec_id", "ec_version", "light_get", "power_get"}
    <2>1. PICK n \in Names, m \in Names : Program(j) \in {<<Read(n)>>, <<Read(n), Read(m)>>}
      <3>1. {"ECHIPID1", "ECHIPID2", "ECHIPVER", "ECDEBUG", "YLOGO", "POWERMODE"} \subseteq Names
        BY DEF Names
      <3>2. CASE j.kind = "ec_id"
        <4>1. Program(j) = <<Read("ECHIPID1"), Read("ECHIPID2")>>
          BY <3>2 DEF Program
        <4>2. QED BY <3>1, <4>1
      <3>3. CASE j.kind = "ec_version"
        <4>1. Program(j) = <<Read("ECHIPVER"), Read("ECDEBUG")>>
          BY <3>3 DEF Program
        <4>2. QED BY <3>1, <4>1
      <3>4. CASE j.kind = "light_get"
        <4>1. Program(j) = <<Read("YLOGO")>>
          BY <3>4 DEF Program
        <4>2. QED BY <3>1, <4>1
      <3>5. CASE j.kind = "power_get"
        <4>1. Program(j) = <<Read("POWERMODE")>>
          BY <3>5 DEF Program
        <4>2. QED BY <3>1, <4>1
      <3>6. QED BY <1>4, <3>2, <3>3, <3>4, <3>5
    <2>2. Sane(Read(n)) /\ Sane(Read(m))
      BY DEF Sane, Read
    <2>3. QED BY <2>1, <2>2
  <1>5. CASE j.kind = "light_set"
    <2>1. j.arg \in Nat
      BY <1>5 DEF Idle, Job
    <2>2. Program(j) = LightSet(j.arg)
      BY <1>5 DEF Program
    <2>3. QED BY <2>1, <2>2 DEF LightSet, Sane, Write, Byte
  <1>6. CASE j.kind = "power_set"
    <2>1. Program(j) = <<Write("POWERMODE", WmiToEc(j.arg))>>
      BY <1>6 DEF Program
    <2>2. WmiToEc(j.arg) \in Byte
      BY DEF WmiToEc, Byte
    <2>3. QED BY <2>1, <2>2 DEF Sane, Write
  <1>7. CASE j = Idle
    BY <1>7 DEF Program, Idle
  <1>8. QED BY <1>1, <1>2, <1>3, <1>4, <1>5, <1>6, <1>7 DEF Job, Kinds

-----------------------------------------------------------------------------
(* Type correctness *)

\* The two bytes of a speed are bytes.
LEMMA HalvesOfWord ==
  ASSUME NEW s \in Word16
  PROVE  s % 256 \in Byte /\ s \div 256 \in Byte /\ s = (s % 256) + 256 * (s \div 256)
  BY DEF Byte, Word16

LEMMA SpeedTypes == \A f \in Fans : Rpms[f] \subseteq Word16
  BY RpmAssumption

LEMMA NothingType == 0 \in Byte /\ 0 \in Word16 /\ Nothing \in [Offsets -> Byte]
  BY DEF Nothing, Byte, Word16

LEMMA InitType == Init => RegTypeOK
  <1> SUFFICES ASSUME Init PROVE RegTypeOK
    OBVIOUS
  <1>1. rpm \in [Fans -> Word16]
    BY SpeedTypes DEF Init
  <1>2. /\ rpm[0] % 256 \in Byte /\ rpm[0] \div 256 \in Byte
        /\ rpm[1] % 256 \in Byte /\ rpm[1] \div 256 \in Byte
    <2>1. rpm[0] \in Word16 /\ rpm[1] \in Word16
      BY <1>1 DEF Fans
    <2>2. QED BY <2>1, HalvesOfWord
  <1>3. ram \in [Offsets -> Byte]
    BY <1>2, RamAssumption DEF Init
  <1>4. conf \in Conf
    BY ConfAssumption DEF Init
  <1>5. QED BY <1>1, <1>3, <1>4, NothingType DEF Init, RegTypeOK

LEMMA OffsetType ==
  ASSUME RegTypeOK, NEW t \in Threads, At(t, "read") \/ At(t, "write")
  PROVE  /\ Offset(t) \in Offsets
         /\ At(t, "write") => Offset(t) \in Written /\ Current(t).value \in Byte
         /\ at[t] \in 1..Len(Program(job[t]))
  <1>1. job[t] \in Job \cup {Idle}
    BY DEF RegTypeOK
  <1>2. at[t] \in 1..Len(Program(job[t])) /\ Sane(Current(t))
    BY <1>1, ProgramSane DEF At, Current
  <1>3. QED BY <1>2, OffsetAssumption DEF At, Current, Sane, Offset, Written, Names, SensorNames

LEMMA AnswerType ==
  ASSUME RegTypeOK, NEW t \in Threads, At(t, "ask"), job[t].kind = "fan" => job[t].arg \in Fans
  PROVE  Answer(t) \in Word16
  <1>1. Unit \in {1, 100}
    BY DEF Unit
  <1>2. CASE job[t].kind = "fan"
    <2>1. rpm[job[t].arg] \in Word16
      BY <1>2 DEF RegTypeOK
    <2>2. QED BY <1>1, <1>2, <2>1 DEF Answer, Word16
  <1>3. CASE job[t].kind # "fan"
    <2>1. Answer(t) \in Byte
      BY <1>3, OffsetAssumption DEF Answer, RegTypeOK, Names, SensorNames
    <2>2. QED BY <2>1 DEF Byte, Word16
  <1>4. QED BY <1>2, <1>3

LEMMA NextType == RegTypeOK /\ [Next]_regVars => RegTypeOK'
  <1> SUFFICES ASSUME RegTypeOK, [Next]_regVars PROVE RegTypeOK'
    OBVIOUS
  <1>1. ASSUME NEW t \in Threads, NEW j \in Jobs[t], Begin(t, j) PROVE RegTypeOK'
    <2>1. j \in Job
      BY ConfAssumption
    <2>2. (IF j.kind = "fan" THEN {rpm[j.arg]} ELSE {}) \in SUBSET Word16
      BY <2>1 DEF Job, RegTypeOK
    <2>3. QED BY <1>1, <2>1, <2>2, NothingType DEF Begin, RegTypeOK
  <1>2. ASSUME NEW t \in Threads, ReadByte(t) PROVE RegTypeOK'
    BY <1>2, OffsetType DEF ReadByte, Advance, RegTypeOK
  <1>3. ASSUME NEW t \in Threads, WriteByte(t) PROVE RegTypeOK'
    BY <1>3, OffsetType DEF WriteByte, Advance, RegTypeOK
  <1>4. ASSUME NEW t \in Threads, SkipWrite(t) PROVE RegTypeOK'
    BY <1>4 DEF SkipWrite, Advance, RegTypeOK
  <1>5. ASSUME NEW t \in Threads, AskFirmware(t) PROVE RegTypeOK'
    <2>1. job[t].kind = "fan" => job[t].arg \in Fans
      BY DEF RegTypeOK, Job, Idle
    <2>2. Answer(t) \in Word16
      BY <1>5, <2>1, AnswerType DEF AskFirmware
    <2>3. QED BY <1>5, <2>2 DEF AskFirmware, Advance, RegTypeOK
  <1>6. ASSUME NEW t \in Threads, Return(t) PROVE RegTypeOK'
    BY <1>6, NothingType DEF Return, RegTypeOK
  <1>7. ASSUME NEW f \in Fans, NEW s \in Rpms[f], FanTurns(f, s) PROVE RegTypeOK'
    <2>1. s \in Word16
      BY SpeedTypes
    <2>2. s % 256 \in Byte /\ s \div 256 \in Byte
      BY <2>1, HalvesOfWord
    <2>3. ram' \in [Offsets -> Byte]
      BY <1>7, <2>2 DEF FanTurns, RegTypeOK
    <2>4. QED BY <1>7, <2>1, <2>3 DEF FanTurns, RegTypeOK
  <1>8. CASE UNCHANGED regVars
    BY <1>8 DEF regVars, RegTypeOK
  <1>9. QED BY <1>1, <1>2, <1>3, <1>4, <1>5, <1>6, <1>7, <1>8 DEF Next

\* The register file and the jobs keep their types.
THEOREM RegTypeCorrect == RegSpec => []RegTypeOK
  <1>1. QED BY InitType, NextType, PTL DEF RegSpec

-----------------------------------------------------------------------------
(* Readings of a fan's speed *)

\* The EC shows the speeds of fans 1 and 2.
Shown == \A f \in {0, 1} : ram[Lsb(f)] = rpm[f] % 256 /\ ram[Msb(f)] = rpm[f] \div 256

\* A half that thread t has read was that half of a speed the fan has had.
HasLsb(t) == \E s \in seen[t] : got[t][Lsb(job[t].arg)] = s % 256
HasMsb(t) == \E s \in seen[t] : got[t][Msb(job[t].arg)] = s \div 256

\* Thread t reads the two halves; its second access is of the other one.
Halves(t) ==
  job[t].kind = "fan" /\ conf.fanspeed = "EC" /\ job[t].arg \in {0, 1}
    => /\ at[t] = 2 => IF job[t].flip THEN HasMsb(t) ELSE HasLsb(t)
       /\ at[t] = 3 => HasMsb(t) /\ HasLsb(t)

\* Thread t asks the firmware.
Told(t) ==
  job[t].kind = "fan" /\ conf.fanspeed # "EC" /\ at[t] = 2
    => reply[t] = -1 \/ \E s \in seen[t] : reply[t] = s \div Unit

Witnessed(t) == job[t].kind = "fan" => rpm[job[t].arg] \in seen[t]

\* The inductive invariant.
ReadInv == RegTypeOK /\ Shown /\ \A t \in Threads : Witnessed(t) /\ Halves(t) /\ Told(t)

LEMMA RegistersApart ==
  /\ Lsb(0) # Lsb(1) /\ Msb(0) # Msb(1)
  /\ \A f, g \in {0, 1} : Lsb(f) # Msb(g)
  /\ \A f \in {0, 1} : Lsb(f) \in Offsets \ Written /\ Msb(f) \in Offsets \ Written
  <1>1. \A f \in {0, 1} : Lsb(f) \in SpeedOffsets /\ Msb(f) \in SpeedOffsets
    BY DEF SpeedOffsets
  <1>2. \A f \in {0, 1} : Lsb(f) \in Offsets /\ Msb(f) \in Offsets
    BY OffsetAssumption DEF Lsb, Msb, Names, SensorNames
  <1>3. QED BY <1>1, <1>2, SpeedAssumption

LEMMA FanArg ==
  ASSUME RegTypeOK, NEW t \in Threads, job[t].kind = "fan"
  PROVE  job[t] \in Job /\ job[t].arg \in Fans /\ Running(t)
  BY DEF RegTypeOK, Job, Idle, Running

\* What one access of a fan reading in the EC is of.
LEMMA FanAccess ==
  ASSUME RegTypeOK, NEW t \in Threads, job[t].kind = "fan", conf.fanspeed = "EC",
         job[t].arg \in {0, 1}, NEW k, At(t, k)
  PROVE  /\ k = "read" /\ at[t] \in {1, 2}
         /\ Offset(t) = IF (at[t] = 1) = job[t].flip THEN Msb(job[t].arg) ELSE Lsb(job[t].arg)
  <1>1. job[t] \in Job /\ job[t].flip \in BOOLEAN
    BY FanArg DEF Job
  <1> DEFINE l == Read(IF job[t].arg = 0 THEN "FAN1_LSB" ELSE "FAN2_LSB")
             m == Read(IF job[t].arg = 0 THEN "FAN1_MSB" ELSE "FAN2_MSB")
  <1>2. Program(job[t]) = IF job[t].flip THEN <<m, l>> ELSE <<l, m>>
    BY <1>1, FanProgram DEF FansOf
  <1>3. l.kind = "read" /\ m.kind = "read" /\ Reg[l.name] = Lsb(job[t].arg) /\ Reg[m.name] = Msb(job[t].arg)
    BY DEF Read, Lsb, Msb
  <1> HIDE DEF l, m
  <1>4. at[t] \in {1, 2} /\ k = "read"
    BY <1>1, <1>2, <1>3 DEF At
  <1>5. Current(t) = IF (at[t] = 1) = job[t].flip THEN m ELSE l
    BY <1>1, <1>2, <1>4 DEF Current
  <1>6. QED BY <1>3, <1>4, <1>5 DEF Offset

\* A step that leaves thread t and the registers of the speeds alone.
LEMMA Bystander ==
  ASSUME NEW t \in Threads, Witnessed(t), Halves(t), Told(t), job'[t] = job[t], at'[t] = at[t],
         got'[t] = got[t], reply'[t] = reply[t], seen'[t] = seen[t], UNCHANGED <<rpm, conf>>
  PROVE  Witnessed(t)' /\ Halves(t)' /\ Told(t)'
  BY DEF Witnessed, Halves, Told, HasLsb, HasMsb, Unit

LEMMA InitRead == Init => ReadInv
  <1> SUFFICES ASSUME Init PROVE ReadInv
    OBVIOUS
  <1>1. RegTypeOK
    BY InitType
  <1>2. Shown
    BY RegistersApart DEF Init, Shown
  <1>3. \A t \in Threads : job[t].kind # "fan"
    BY DEF Init, Idle
  <1>4. QED BY <1>1, <1>2, <1>3 DEF ReadInv, Witnessed, Halves, Told

LEMMA ReadByteRead ==
  ASSUME ReadInv, NEW u \in Threads, ReadByte(u)
  PROVE  ReadInv'
  <1>1. RegTypeOK /\ RegTypeOK'
    <2>1. Next
      BY DEF Next
    <2>2. QED BY <2>1, NextType DEF ReadInv
  <1>2. Shown'
    BY DEF ReadInv, Shown, ReadByte, Advance
  <1>3. ASSUME NEW t \in Threads PROVE Witnessed(t)' /\ Halves(t)' /\ Told(t)'
    <2>1. CASE t # u
      BY <1>1, <2>1, Bystander DEF ReadInv, ReadByte, Advance, RegTypeOK
    <2>2. CASE t = u /\ job[t].kind # "fan"
      BY <2>2 DEF ReadByte, Advance, Witnessed, Halves, Told
    <2>3. CASE t = u /\ job[t].kind = "fan"
      <3> DEFINE f == job[t].arg
      <3>1. Witnessed(t)'
        BY <2>3 DEF ReadInv, Witnessed, ReadByte, Advance
      <3>2. CASE conf.fanspeed = "EC" /\ f \in {0, 1}
        <4>1. at[t] \in {1, 2} /\ Offset(t) = IF (at[t] = 1) = job[t].flip THEN Msb(f) ELSE Lsb(f)
          BY <1>1, <2>3, <3>2, FanAccess DEF ReadByte
        <4>2. job[t].flip \in BOOLEAN
          BY <1>1, <2>3, FanArg DEF Job
        <4>3. at'[t] = at[t] + 1 /\ job' = job /\ seen' = seen /\ conf' = conf
          BY <1>1, <2>3 DEF ReadByte, Advance, RegTypeOK
        <4>4. got'[t] = [got[t] EXCEPT ![Offset(t)] = ram[Offset(t)]]
          BY <1>1, <2>3 DEF ReadByte, RegTypeOK
        <4>5. Lsb(f) # Msb(f) /\ Lsb(f) \in Offsets /\ Msb(f) \in Offsets
          BY <3>2, RegistersApart
        <4>6. ram[Lsb(f)] = rpm[f] % 256 /\ ram[Msb(f)] = rpm[f] \div 256 /\ rpm[f] \in seen[t]
          BY <2>3, <3>2 DEF ReadInv, Shown, Witnessed
        <4>7. got[t] \in [Offsets -> Byte]
          BY <1>1 DEF RegTypeOK
        <4>8. CASE Offset(t) = Lsb(f)
          <5>1. HasLsb(t)'
            BY <4>3, <4>4, <4>5, <4>6, <4>7, <4>8 DEF HasLsb
          <5>2. HasMsb(t) => HasMsb(t)'
            BY <4>3, <4>4, <4>5, <4>7, <4>8 DEF HasMsb
          <5>3. at[t] = 1 => ~job[t].flip
            BY <4>1, <4>2, <4>5, <4>8
          <5>4. at[t] = 2 => job[t].flip
            BY <4>1, <4>2, <4>5, <4>8
          <5>5. at[t] = 2 => HasMsb(t)
            BY <5>4, <2>3, <3>2 DEF ReadInv, Halves
          <5>6. Halves(t)'
            BY <4>1, <4>3, <5>1, <5>2, <5>3, <5>5 DEF Halves
          <5>7. QED BY <3>1, <3>2, <4>3, <5>6 DEF Told
        <4>9. CASE Offset(t) = Msb(f)
          <5>1. HasMsb(t)'
            BY <4>3, <4>4, <4>5, <4>6, <4>7, <4>9 DEF HasMsb
          <5>2. HasLsb(t) => HasLsb(t)'
            BY <4>3, <4>4, <4>5, <4>7, <4>9 DEF HasLsb
          <5>3. at[t] = 1 => job[t].flip
            BY <4>1, <4>2, <4>5, <4>9
          <5>4. at[t] = 2 => ~job[t].flip
            BY <4>1, <4>2, <4>5, <4>9
          <5>5. at[t] = 2 => HasLsb(t)
            BY <5>4, <2>3, <3>2 DEF ReadInv, Halves
          <5>6. Halves(t)'
            BY <4>1, <4>3, <5>1, <5>2, <5>3, <5>5 DEF Halves
          <5>7. QED BY <3>1, <3>2, <4>3, <5>6 DEF Told
        <4>10. QED BY <4>1, <4>8, <4>9
      <3>3. CASE ~(conf.fanspeed = "EC" /\ f \in {0, 1})
        <4>1. Program(job[t]) \in {<< >>, <<Ask>>}
          BY <1>1, <2>3, <3>3, FanArg, FanProgram DEF FansOf
        <4>2. FALSE
          BY <2>3, <4>1 DEF ReadByte, At, Ask
        <4>3. QED BY <4>2
      <3>4. QED BY <3>2, <3>3
    <2>4. QED BY <2>1, <2>2, <2>3
  <1>4. QED BY <1>1, <1>2, <1>3 DEF ReadInv

\* A write touches no register of the speeds, and no fan reading writes.
LEMMA WriteRead ==
  ASSUME ReadInv, NEW u \in Threads, WriteByte(u) \/ SkipWrite(u)
  PROVE  ReadInv'
  <1>1. RegTypeOK /\ RegTypeOK'
    <2>1. Next
      BY DEF Next
    <2>2. QED BY <2>1, NextType DEF ReadInv
  <1>2. At(u, "write") /\ Offset(u) \in Written
    BY <1>1, OffsetType DEF WriteByte, SkipWrite
  <1>3. Shown'
    <2>1. \A f \in {0, 1} : ram'[Lsb(f)] = ram[Lsb(f)] /\ ram'[Msb(f)] = ram[Msb(f)]
      BY <1>1, <1>2, RegistersApart DEF WriteByte, SkipWrite, RegTypeOK
    <2>2. QED BY <2>1 DEF ReadInv, Shown, WriteByte, SkipWrite, Advance
  <1>4. ASSUME NEW t \in Threads PROVE Witnessed(t)' /\ Halves(t)' /\ Told(t)'
    <2>1. CASE t # u
      BY <1>1, <2>1, Bystander DEF ReadInv, WriteByte, SkipWrite, Advance, RegTypeOK
    <2>2. CASE t = u
      <3>1. job[t].kind # "fan"
        <4>1. SUFFICES ASSUME job[t].kind = "fan" PROVE FALSE
          OBVIOUS
        <4>2. CASE conf.fanspeed = "EC" /\ job[t].arg \in {0, 1}
          BY <1>1, <1>2, <2>2, <4>1, <4>2, FanAccess
        <4>3. CASE ~(conf.fanspeed = "EC" /\ job[t].arg \in {0, 1})
          <5>1. Program(job[t]) \in {<< >>, <<Ask>>}
            BY <1>1, <4>1, <4>3, FanArg, FanProgram DEF FansOf
          <5>2. QED BY <1>2, <2>2, <5>1 DEF At, Ask
        <4>4. QED BY <4>2, <4>3
      <3>2. job'[t] = job[t]
        BY DEF WriteByte, SkipWrite, Advance
      <3>3. QED BY <3>1, <3>2 DEF Witnessed, Halves, Told
    <2>3. QED BY <2>1, <2>2
  <1>5. QED BY <1>1, <1>3, <1>4 DEF ReadInv

LEMMA AskRead ==
  ASSUME ReadInv, NEW u \in Threads, AskFirmware(u)
  PROVE  ReadInv'
  <1>1. RegTypeOK /\ RegTypeOK'
    <2>1. Next
      BY DEF Next
    <2>2. QED BY <2>1, NextType DEF ReadInv
  <1>2. Shown'
    BY DEF ReadInv, Shown, AskFirmware, Advance
  <1>3. ASSUME NEW t \in Threads PROVE Witnessed(t)' /\ Halves(t)' /\ Told(t)'
    <2>1. CASE t # u
      BY <1>1, <2>1, Bystander DEF ReadInv, AskFirmware, Advance, RegTypeOK
    <2>2. CASE t = u /\ job[t].kind # "fan"
      BY <2>2 DEF AskFirmware, Advance, Witnessed, Halves, Told
    <2>3. CASE t = u /\ job[t].kind = "fan"
      <3>1. At(t, "ask")
        BY <2>3 DEF AskFirmware
      <3>2. ~(conf.fanspeed = "EC" /\ job[t].arg \in {0, 1})
        BY <1>1, <2>3, <3>1, FanAccess
      <3>3. Program(job[t]) \in {<< >>, <<Ask>>} /\ (conf.fanspeed = "EC" => Program(job[t]) = << >>)
        BY <1>1, <2>3, <3>2, FanArg, FanProgram DEF FansOf
      <3>4. at[t] = 1 /\ conf.fanspeed # "EC"
        BY <3>1, <3>3 DEF At
      <3>5. reply'[t] \in {rpm[job[t].arg] \div Unit, -1}
        BY <1>1, <2>3 DEF AskFirmware, Answer, RegTypeOK
      <3>6. /\ job' = job /\ seen' = seen /\ conf' = conf /\ rpm' = rpm
            /\ rpm[job[t].arg] \in seen[t] /\ Unit' = Unit
        BY <2>3 DEF AskFirmware, Advance, ReadInv, Witnessed, Unit
      <3>7. Told(t)'
        BY <3>5, <3>6 DEF Told
      <3>8. QED BY <2>3, <3>4, <3>6, <3>7 DEF Witnessed, Halves
    <2>4. QED BY <2>1, <2>2, <2>3
  <1>4. QED BY <1>1, <1>2, <1>3 DEF ReadInv

LEMMA CallRead ==
  ASSUME ReadInv, NEW u \in Threads, Return(u) \/ \E j \in Jobs[u] : Begin(u, j)
  PROVE  ReadInv'
  <1>1. RegTypeOK /\ RegTypeOK'
    <2>1. Next
      BY DEF Next
    <2>2. QED BY <2>1, NextType DEF ReadInv
  <1>2. Shown'
    BY DEF ReadInv, Shown, Return, Begin
  <1>3. ASSUME NEW t \in Threads PROVE Witnessed(t)' /\ Halves(t)' /\ Told(t)'
    <2>1. CASE t # u
      BY <1>1, <2>1, Bystander DEF ReadInv, Return, Begin, RegTypeOK
    <2>2. CASE t = u /\ Return(u)
      <3>1. job'[t] = Idle
        BY <1>1, <2>2 DEF Return, RegTypeOK
      <3>2. QED BY <3>1 DEF Witnessed, Halves, Told, Idle
    <2>3. CASE t = u /\ \E j \in Jobs[u] : Begin(u, j)
      <3>1. PICK j \in Jobs[u] : Begin(u, j)
        BY <2>3
      <3>2. job'[t] = j /\ at'[t] = 1 /\ rpm' = rpm
        BY <1>1, <2>3, <3>1 DEF Begin, RegTypeOK
      <3>3. j.kind = "fan" => seen'[t] = {rpm[j.arg]}
        BY <1>1, <2>3, <3>1 DEF Begin, RegTypeOK
      <3>4. QED BY <3>2, <3>3 DEF Witnessed, Halves, Told
    <2>4. QED BY <2>1, <2>2, <2>3
  <1>4. QED BY <1>1, <1>2, <1>3 DEF ReadInv

\* The set of speeds a fan has had only grows.
LEMMA TurnRead ==
  ASSUME ReadInv, NEW f \in Fans, NEW s \in Rpms[f], FanTurns(f, s)
  PROVE  ReadInv'
  <1>1. RegTypeOK /\ RegTypeOK'
    <2>1. Next
      BY DEF Next
    <2>2. QED BY <2>1, NextType DEF ReadInv
  <1>2. rpm' = [rpm EXCEPT ![f] = s] /\ rpm \in [Fans -> Word16]
    BY <1>1 DEF FanTurns, RegTypeOK
  <1>3. Shown'
    <2>1. \A g \in {0, 1} : g \in Fans
      BY DEF Fans
    <2>2. CASE f \notin {0, 1}
      BY <1>2, <2>1, <2>2 DEF ReadInv, Shown, FanTurns
    <2>3. CASE f \in {0, 1}
      <3>1. ram' = [ram EXCEPT ![Lsb(f)] = s % 256, ![Msb(f)] = s \div 256]
        BY <2>3 DEF FanTurns
      <3>2. DOMAIN ram = Offsets
        BY <1>1 DEF RegTypeOK
      <3>3. ram'[Lsb(f)] = s % 256 /\ ram'[Msb(f)] = s \div 256 /\ rpm'[f] = s
        BY <1>2, <2>3, <3>1, <3>2, RegistersApart
      <3>4. ASSUME NEW g \in {0, 1}, g # f
            PROVE  ram'[Lsb(g)] = ram[Lsb(g)] /\ ram'[Msb(g)] = ram[Msb(g)] /\ rpm'[g] = rpm[g]
        <4>1. /\ Lsb(g) # Lsb(f) /\ Lsb(g) # Msb(f) /\ Msb(g) # Msb(f) /\ Msb(g) # Lsb(f)
              /\ Lsb(g) \in Offsets /\ Msb(g) \in Offsets
          BY <2>3, <3>4, RegistersApart
        <4>2. QED BY <1>2, <2>1, <3>1, <3>2, <3>4, <4>1
      <3>5. QED BY <3>3, <3>4 DEF ReadInv, Shown
    <2>4. QED BY <2>2, <2>3
  <1>4. ASSUME NEW t \in Threads PROVE Witnessed(t)' /\ Halves(t)' /\ Told(t)'
    <2>1. /\ job' = job /\ at' = at /\ got' = got /\ reply' = reply /\ conf' = conf
          /\ Unit' = Unit
      BY DEF FanTurns, Unit
    <2>2. seen[t] \subseteq seen'[t]
      BY DEF FanTurns
    <2>3. Witnessed(t)'
      <3>1. SUFFICES ASSUME job[t].kind = "fan" PROVE rpm'[job[t].arg] \in seen'[t]
        BY <2>1 DEF Witnessed
      <3>2. job[t].arg \in Fans
        BY <1>1, <3>1, FanArg
      <3>3. CASE job[t].arg = f
        BY <1>2, <3>1, <3>2, <3>3 DEF FanTurns
      <3>4. CASE job[t].arg # f
        <4>1. rpm'[job[t].arg] = rpm[job[t].arg]
          BY <1>2, <3>2, <3>4
        <4>2. QED BY <2>2, <3>1, <4>1 DEF ReadInv, Witnessed
      <3>5. QED BY <3>3, <3>4
    <2>4. Halves(t)'
      <3>1. (HasLsb(t) => HasLsb(t)') /\ (HasMsb(t) => HasMsb(t)')
        BY <2>1, <2>2 DEF HasLsb, HasMsb
      <3>2. QED BY <2>1, <3>1 DEF ReadInv, Halves
    <2>5. Told(t)'
      BY <2>1, <2>2 DEF ReadInv, Told
    <2>6. QED BY <2>3, <2>4, <2>5
  <1>5. QED BY <1>1, <1>3, <1>4 DEF ReadInv

LEMMA NextRead == ReadInv /\ [Next]_regVars => ReadInv'
  <1> SUFFICES ASSUME ReadInv, [Next]_regVars PROVE ReadInv'
    OBVIOUS
  <1>1. CASE UNCHANGED regVars
    <2>1. RegTypeOK'
      BY <1>1, NextType DEF ReadInv
    <2>2. QED BY <1>1, <2>1 DEF regVars, ReadInv, Shown, Witnessed, Halves, Told, HasLsb, HasMsb, Unit
  <1>2. CASE Next
    BY <1>2, ReadByteRead, WriteRead, AskRead, CallRead, TurnRead DEF Next
  <1>3. QED BY <1>1, <1>2

LEMMA ReadInvSound == ReadInv => ReadingSound
  <1> SUFFICES ASSUME ReadInv, NEW t \in Threads, Over(t), job[t].kind = "fan", ~Failed(t)
               PROVE  \E s \in seen[t] :
                        /\ Value(t) - s < 256 /\ s - Value(t) < 256
                        /\ seen[t] = {s} => Value(t) = (s \div Unit) * Unit
    BY DEF ReadingSound
  <1>1. RegTypeOK /\ seen[t] \subseteq Word16 /\ Value(t) = FanValue(t)
    BY DEF ReadInv, RegTypeOK, Value
  <1>2. Program(job[t]) # << >> /\ reply[t] # -1
    BY DEF Failed
  <1>3. CASE conf.fanspeed = "EC"
    <2>1. job[t].arg \in {0, 1} /\ Len(Program(job[t])) = 2
      BY <1>1, <1>2, <1>3, FanArg, FanProgram DEF FansOf
    <2>2. HasLsb(t) /\ HasMsb(t)
      BY <1>3, <2>1 DEF ReadInv, Halves, Over
    <2>3. PICK l \in seen[t] : got[t][Lsb(job[t].arg)] = l % 256
      BY <2>2 DEF HasLsb
    <2>4. PICK m \in seen[t] : got[t][Msb(job[t].arg)] = m \div 256
      BY <2>2 DEF HasMsb
    <2>5. Value(t) = (l % 256) + 256 * (m \div 256)
      BY <1>1, <1>3, <2>3, <2>4 DEF FanValue, Word
    <2>6. l \in Nat /\ m \in Nat
      BY <1>1 DEF Word16
    <2>7. m = (m % 256) + 256 * (m \div 256) /\ m % 256 \in 0..255 /\ l % 256 \in 0..255 /\ m \div 256 \in Nat
      BY <2>6
    <2>8. Value(t) - m < 256 /\ m - Value(t) < 256
      <3> DEFINE a == l % 256
                 b == m % 256
                 q == m \div 256
      <3>1. a \in 0..255 /\ b \in 0..255 /\ q \in Nat /\ Value(t) = a + 256 * q /\ m = b + 256 * q
        BY <2>5, <2>7
      <3> HIDE DEF a, b, q
      <3>2. QED BY <3>1
    <2>9. Unit = 1
      BY <1>3 DEF Unit
    <2>10. ASSUME seen[t] = {m} PROVE Value(t) = (m \div Unit) * Unit
      <3>1. l = m
        BY <2>10
      <3>2. Value(t) = m
        BY <2>5, <2>7, <3>1
      <3>3. QED BY <2>6, <2>9, <3>2
    <2>11. QED BY <2>8, <2>10
  <1>4. CASE conf.fanspeed # "EC"
    <2>1. Len(Program(job[t])) = 1
      BY <1>1, <1>2, <1>4, FanArg, FanProgram
    <2>2. at[t] = 2
      BY <2>1 DEF Over
    <2>3. PICK s \in seen[t] : reply[t] = s \div Unit
      BY <1>2, <1>4, <2>2 DEF ReadInv, Told
    <2>4. Unit \in {1, 100} /\ s \in Nat
      BY <1>1 DEF Unit, Word16
    <2>5. Value(t) = Unit * (s \div Unit)
      BY <1>1, <1>4, <2>3 DEF FanValue
    <2>6. CASE Unit = 1
      BY <2>4, <2>5, <2>6
    <2>7. CASE Unit = 100
      <3>1. Value(t) = 100 * (s \div 100)
        BY <2>5, <2>7
      <3>2. s = (s % 100) + 100 * (s \div 100) /\ s % 100 \in 0..99 /\ s \div 100 \in Nat
        BY <2>4
      <3>3. Value(t) - s < 256 /\ s - Value(t) < 256 /\ Value(t) = (s \div 100) * 100
        BY <2>4, <3>1, <3>2
      <3>4. QED BY <2>7, <3>3
    <2>8. QED BY <2>4, <2>6, <2>7
  <1>5. QED BY <1>3, <1>4

\* A fan reading is within 255 rpm of a speed the fan has had while it was
\* read, and is that speed if it has not changed.
THEOREM ReadingsSound == RegSpec => []ReadingSound
  <1>1. QED BY InitRead, NextRead, ReadInvSound, PTL DEF RegSpec

=============================================================================
