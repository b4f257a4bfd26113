---------------------------- MODULE EcPort_proofs ----------------------------
(***************************************************************************)
(* The ports implement the register file, for any threads and registers:   *)
(* the state of the EC's latches is, at every operation of an access, what *)
(* that access has put there, because the mutex keeps everybody else away. *)
(***************************************************************************)
EXTENDS EcPort, EcRegisters_proofs

\* A thread past its first operation holds the mutex, and is at an access.
Holding ==
  \A t \in Threads : /\ step[t] # 0 => lock = t
                     /\ step[t] \in 1..12 => OnPorts(t)

\* What the thread at operation s has put into the latches.
Latched(t) ==
  /\ step[t] \in {2, 6, 10} => addr = 46
  /\ step[t] \in {4, 8, 12} => addr = 47
  /\ step[t] \in {3, 4} => index = 17
  /\ step[t] \in {7, 8} => index = 16
  /\ step[t] \in {11, 12} => index = 18
  /\ step[t] \in 5..12 => hi = Offset(t) \div 256
  /\ step[t] \in 9..12 => lo = Offset(t) % 256

LatchType ==
  /\ lock \in Threads \cup {None}
  /\ step \in [Threads -> 0..13]
  /\ addr \in {46, 47} /\ index \in {16, 17, 18}
  /\ hi \in Byte /\ lo \in Byte

\* The inductive invariant.
PortInv == RegTypeOK /\ LatchType /\ Holding /\ \A t \in Threads : Latched(t)

LEMMA OffsetWord ==
  ASSUME NEW a \in Word16
  PROVE  a \div 256 \in Byte /\ a % 256 \in Byte /\ a = 256 * (a \div 256) + (a % 256)
  BY DEF Byte, Word16

LEMMA OnPortsType ==
  ASSUME RegTypeOK, NEW t \in Threads, OnPorts(t)
  PROVE  /\ Offset(t) \in Offsets /\ Offset(t) \in Word16
         /\ At(t, "read") \/ (At(t, "write") /\ ~conf.readonly)
  <1>1. At(t, "read") \/ (At(t, "write") /\ ~conf.readonly)
    BY DEF OnPorts, At
  <1>2. QED BY <1>1, OffsetType, OffsetAssumption

LEMMA InitPort == PortInit => PortInv
  <1> SUFFICES ASSUME PortInit PROVE PortInv
    OBVIOUS
  <1>1. RegTypeOK
    BY InitType DEF PortInit
  <1>2. LatchType /\ Holding /\ \A t \in Threads : Latched(t)
    BY DEF PortInit, LatchType, Holding, Latched, Byte
  <1>3. QED BY <1>1, <1>2 DEF PortInv

\* A thread that is at no operation has put nothing into the latches.
LEMMA Elsewhere ==
  ASSUME NEW t \in Threads, step'[t] = 0
  PROVE  Latched(t)'
  BY DEF Latched

LEMMA OnlyHolder ==
  ASSUME PortInv, NEW u \in Threads, step[u] # 0
  PROVE  \A t \in Threads : t # u => step[t] = 0
  BY DEF PortInv, Holding

LEMMA SameAccess ==
  ASSUME NEW t \in Threads, UNCHANGED <<conf, job, at>>
  PROVE  (OnPorts(t)' <=> OnPorts(t)) /\ Offset(t)' = Offset(t)
  BY DEF OnPorts, Offset, Current, Program, FanSpeed, Temperature

LEMMA LockPort ==
  ASSUME PortInv, NEW u \in Threads, Lock(u)
  PROVE  PortInv' /\ UNCHANGED regVars
  <1>1. UNCHANGED regVars /\ RegTypeOK'
    BY NextType DEF PortInv, Lock
  <1>2. lock = None /\ \A t \in Threads : step[t] = 0
    BY NoneAssumption DEF PortInv, Holding, Lock
  <1>3. LatchType'
    BY DEF PortInv, LatchType, Lock
  <1>4. \A t \in Threads : step'[t] = IF t = u THEN 1 ELSE 0
    BY <1>2 DEF PortInv, LatchType, Lock
  <1>5. Holding'
    BY <1>1, <1>4, SameAccess DEF Holding, Lock, regVars
  <1>6. \A t \in Threads : Latched(t)'
    BY <1>4 DEF Latched
  <1>7. QED BY <1>1, <1>3, <1>5, <1>6 DEF PortInv

LEMMA SelectPort ==
  ASSUME PortInv, NEW u \in Threads, Select(u)
  PROVE  PortInv' /\ UNCHANGED regVars
  <1>1. UNCHANGED regVars /\ RegTypeOK'
    BY NextType DEF PortInv, Select
  <1>2. \A t \in Threads : t # u => step[t] = 0 /\ step'[t] = 0
    BY OnlyHolder DEF PortInv, LatchType, Select
  <1>3. step'[u] = step[u] + 1 /\ step[u] \in {1, 3, 5, 7, 9, 11} /\ addr' = Selector(step[u])
        /\ index' = index /\ hi' = hi /\ lo' = lo /\ lock' = lock
    BY DEF PortInv, LatchType, Select
  <1>4. step[u] % 4 = 1 <=> step[u] \in {1, 5, 9}
    BY <1>3
  <1>5. addr' = IF step[u] \in {1, 5, 9} THEN 46 ELSE 47
    BY <1>3, <1>4 DEF Selector
  <1>6. LatchType'
    <2>1. step' \in [Threads -> 0..13]
      BY <1>3 DEF PortInv, LatchType, Select
    <2>2. QED BY <1>3, <1>5, <2>1 DEF PortInv, LatchType
  <1>7. Holding'
    BY <1>1, <1>2, <1>3, SameAccess DEF PortInv, Holding, regVars
  <1>8. Latched(u)'
    <2>1. Offset(u)' = Offset(u)
      BY <1>1, SameAccess DEF regVars
    <2>2. Latched(u)
      BY DEF PortInv
    <2>3. QED BY <1>3, <1>5, <2>1, <2>2 DEF Latched
  <1>9. \A t \in Threads : Latched(t)'
    BY <1>2, <1>8, Elsewhere
  <1>10. QED BY <1>1, <1>6, <1>7, <1>9 DEF PortInv

\* What a thread sends reaches the latch meant for it, never EC RAM.
LEMMA SendPort ==
  ASSUME PortInv, NEW u \in Threads, Send(u)
  PROVE  PortInv' /\ UNCHANGED regVars
  <1> DEFINE a == Offset(u)
             b == Sent(step[u], a)
  <1>1. step[u] \in {2, 4, 6, 8, 10} /\ OnPorts(u) /\ Latched(u)
    BY DEF PortInv, Holding, Send
  <1>2. a \in Word16 /\ a \div 256 \in Byte /\ a % 256 \in Byte
    BY <1>1, OnPortsType, OffsetWord DEF PortInv
  <1>3. \A t \in Threads : t # u => step[t] = 0 /\ step'[t] = 0
    BY <1>1, OnlyHolder DEF PortInv, LatchType, Send
  <1>4. step'[u] = step[u] + 1 /\ lock' = lock /\ addr' = addr
        /\ UNCHANGED <<rpm, conf, job, at, got, reply, seen>>
    BY DEF PortInv, LatchType, Send, Arrives
  <1>5. /\ index' = IF addr = 46 THEN b ELSE index
        /\ hi' = IF addr = 47 /\ index = 17 THEN b ELSE hi
        /\ lo' = IF addr = 47 /\ index = 16 THEN b ELSE lo
        /\ ram' = IF addr = 47 /\ index = 18 /\ Target \in Offsets
                  THEN [ram EXCEPT ![Target] = b] ELSE ram
    BY DEF Send, Arrives
  <1>6. b = CASE step[u] = 2 -> 17 [] step[u] = 4 -> a \div 256 [] step[u] = 6 -> 16
              [] step[u] = 8 -> a % 256 [] OTHER -> 18
    BY DEF Sent
  <1>7. Offset(u)' = a
    BY <1>4, SameAccess
  <1>8. LatchType /\ b \in Byte
    BY <1>1, <1>2, <1>6 DEF PortInv, Byte
  <1> HIDE DEF a, b
  <1>9. ram' = ram
    BY <1>1, <1>5 DEF Latched
  <1>10. UNCHANGED regVars /\ RegTypeOK'
    <2>1. UNCHANGED regVars
      BY <1>4, <1>9 DEF regVars
    <2>2. QED BY <2>1, NextType DEF PortInv
  <1>11. Latched(u)' /\ index' \in {16, 17, 18}
    <2>1. CASE step[u] = 2
      BY <1>1, <1>4, <1>5, <1>6, <1>7, <2>1 DEF Latched
    <2>2. CASE step[u] = 4
      BY <1>1, <1>4, <1>5, <1>6, <1>7, <2>2 DEF Latched
    <2>3. CASE step[u] = 6
      BY <1>1, <1>4, <1>5, <1>6, <1>7, <2>3, a = Offset(u) DEF Latched, a
    <2>4. CASE step[u] = 8
      BY <1>1, <1>4, <1>5, <1>6, <1>7, <2>4, a = Offset(u) DEF Latched, a
    <2>5. CASE step[u] = 10
      BY <1>1, <1>4, <1>5, <1>6, <1>7, <2>5, a = Offset(u) DEF Latched, a
    <2>6. QED BY <1>1, <2>1, <2>2, <2>3, <2>4, <2>5
  <1>12. LatchType'
    <2>1. step' \in [Threads -> 0..13]
      BY <1>1, <1>8 DEF LatchType, Send
    <2>2. hi' \in Byte /\ lo' \in Byte
      BY <1>5, <1>8 DEF LatchType
    <2>3. QED BY <1>4, <1>8, <1>11, <2>1, <2>2 DEF LatchType
  <1>13. Holding'
    BY <1>1, <1>3, <1>4, SameAccess DEF PortInv, Holding
  <1>14. \A t \in Threads : Latched(t)'
    BY <1>3, <1>11, Elsewhere
  <1>15. QED BY <1>10, <1>12, <1>13, <1>14 DEF PortInv

\* At its last operation the EC's address is the one the thread asked for.
LEMMA TargetRight ==
  ASSUME PortInv, NEW u \in Threads, step[u] = 12
  PROVE  addr = 47 /\ index = 18 /\ Target = Offset(u) /\ OnPorts(u) /\ Target \in Offsets
  <1>1. OnPorts(u) /\ Latched(u)
    BY DEF PortInv, Holding
  <1>2. Offset(u) \in Word16 /\ Offset(u) \in Offsets
    BY <1>1, OnPortsType DEF PortInv
  <1>3. QED BY <1>1, <1>2, OffsetWord DEF Latched, Target

LEMMA ReceivePort ==
  ASSUME PortInv, NEW u \in Threads, Receive(u)
  PROVE  PortInv' /\ ReadByte(u)
  <1>1. step[u] = 12 /\ At(u, "read")
    BY DEF Receive
  <1>2. DataPort = ram[Offset(u)]
    BY <1>1, TargetRight DEF DataPort
  <1>3. ReadByte(u)
    BY <1>1, <1>2 DEF Receive, ReadByte
  <1>4. RegTypeOK'
    BY <1>3, NextType DEF Next, PortInv
  <1>5. \A t \in Threads : step'[t] = IF t = u THEN 13 ELSE 0
    BY <1>1, OnlyHolder DEF PortInv, LatchType, Receive
  <1>6. LatchType'
    BY DEF PortInv, LatchType, Receive
  <1>7. Holding'
    BY <1>1, <1>5 DEF PortInv, Holding, Receive
  <1>8. \A t \in Threads : Latched(t)'
    BY <1>5 DEF Latched
  <1>9. QED BY <1>3, <1>4, <1>6, <1>7, <1>8 DEF PortInv

LEMMA EmitPort ==
  ASSUME PortInv, NEW u \in Threads, Emit(u)
  PROVE  PortInv' /\ WriteByte(u)
  <1>1. step[u] = 12 /\ At(u, "write")
    BY DEF Emit
  <1>2. addr = 47 /\ index = 18 /\ Target = Offset(u) /\ Target \in Offsets /\ ~conf.readonly
    BY <1>1, TargetRight, OnPortsType DEF PortInv, At
  <1>3. ram' = [ram EXCEPT ![Offset(u)] = Current(u).value] /\ UNCHANGED <<addr, index, hi, lo>>
    BY <1>2 DEF Emit, Arrives
  <1>4. WriteByte(u)
    BY <1>1, <1>2, <1>3 DEF Emit, WriteByte
  <1>5. RegTypeOK'
    BY <1>4, NextType DEF Next, PortInv
  <1>6. \A t \in Threads : step'[t] = IF t = u THEN 13 ELSE 0
    BY <1>1, OnlyHolder DEF PortInv, LatchType, Emit
  <1>7. LatchType'
    BY <1>3 DEF PortInv, LatchType, Emit
  <1>8. Holding'
    BY <1>1, <1>6 DEF PortInv, Holding, Emit
  <1>9. \A t \in Threads : Latched(t)'
    BY <1>6 DEF Latched
  <1>10. QED BY <1>4, <1>5, <1>7, <1>8, <1>9 DEF PortInv

LEMMA UnlockPort ==
  ASSUME PortInv, NEW u \in Threads, Unlock(u)
  PROVE  PortInv' /\ UNCHANGED regVars
  <1>1. UNCHANGED regVars /\ RegTypeOK'
    BY NextType DEF PortInv, Unlock
  <1>2. \A t \in Threads : step'[t] = 0
    BY OnlyHolder DEF PortInv, LatchType, Unlock
  <1>3. LatchType'
    BY DEF PortInv, LatchType, Unlock
  <1>4. Holding' /\ \A t \in Threads : Latched(t)'
    BY <1>2 DEF Holding, Latched
  <1>5. QED BY <1>1, <1>3, <1>4 DEF PortInv

\* Steps without the ports, of a thread that is at no access.
LEMMA OffPort ==
  ASSUME PortInv, Next, UNCHANGED portVars,
         \A t \in Threads : step[t] \in 1..12 => UNCHANGED conf /\ job'[t] = job[t] /\ at'[t] = at[t]
  PROVE  PortInv'
  <1>1. RegTypeOK'
    BY NextType DEF PortInv
  <1>2. ASSUME NEW t \in Threads, step[t] \in 1..12
        PROVE  (OnPorts(t)' <=> OnPorts(t)) /\ Offset(t)' = Offset(t)
    BY <1>2 DEF OnPorts, Offset, Current, Program, FanSpeed, Temperature
  <1>3. LatchType'
    BY DEF PortInv, LatchType, portVars
  <1>4. Holding'
    BY <1>2 DEF PortInv, Holding, portVars
  <1>5. ASSUME NEW t \in Threads PROVE Latched(t)'
    <2>1. CASE step[t] \in 1..12
      BY <1>2, <2>1 DEF PortInv, Latched, portVars
    <2>2. CASE step[t] \notin 1..12
      <3>1. step[t] \in 0..13 /\ step'[t] = step[t]
        BY DEF PortInv, LatchType, portVars
      <3>2. QED BY <2>2, <3>1 DEF Latched
    <2>3. QED BY <2>1, <2>2
  <1>6. QED BY <1>1, <1>3, <1>4, <1>5 DEF PortInv

LEMMA NextPort == PortInv /\ [PortNext]_vars => PortInv' /\ [Next]_regVars
  <1> SUFFICES ASSUME PortInv, [PortNext]_vars PROVE PortInv' /\ [Next]_regVars
    OBVIOUS
  <1>1. ASSUME NEW u \in Threads, Lock(u) \/ Select(u) \/ Send(u) \/ Unlock(u)
        PROVE  PortInv' /\ [Next]_regVars
    BY <1>1, LockPort, SelectPort, SendPort, UnlockPort
  <1>2. ASSUME NEW u \in Threads, Receive(u) \/ Emit(u) PROVE PortInv' /\ [Next]_regVars
    BY <1>2, ReceivePort, EmitPort DEF Next
  <1>3. ASSUME NEW u \in Threads, OffPorts(u) \/ Called(u) PROVE PortInv' /\ [Next]_regVars
    <2>1. Next /\ UNCHANGED portVars /\ step[u] = 0
      BY <1>3 DEF OffPorts, Called, Next
    <2>2. UNCHANGED conf /\ \A t \in Threads : t # u => job'[t] = job[t] /\ at'[t] = at[t]
      BY <1>3 DEF OffPorts, Called, SkipWrite, AskFirmware, Advance, Return, Begin, PortInv, RegTypeOK
    <2>3. QED BY <2>1, <2>2, OffPort
  <1>4. ASSUME NEW f \in Fans, NEW s \in Rpms[f], FanTurns(f, s), UNCHANGED portVars
        PROVE  PortInv' /\ [Next]_regVars
    <2>1. Next /\ UNCHANGED <<conf, job, at>>
      BY <1>4 DEF Next, FanTurns
    <2>2. QED BY <1>4, <2>1, OffPort
  <1>5. CASE UNCHANGED vars
    <2>1. UNCHANGED regVars /\ UNCHANGED portVars
      BY <1>5 DEF vars
    <2>2. RegTypeOK'
      BY <2>1, NextType DEF PortInv
    <2>3. UNCHANGED <<conf, job, at>>
      BY <2>1 DEF regVars
    <2>4. \A t \in Threads : (OnPorts(t)' <=> OnPorts(t)) /\ Offset(t)' = Offset(t)
      BY <2>3, SameAccess
    <2>5. QED BY <2>1, <2>2, <2>4 DEF PortInv, LatchType, Holding, Latched, portVars
  <1>6. QED BY <1>1, <1>2, <1>3, <1>4, <1>5 DEF PortNext, GoOn

LEMMA PortInvariant == Spec => []PortInv
  <1>1. QED BY InitPort, NextPort, PTL DEF Spec

\* The ports' state and the register file keep their types.
THEOREM PortTypeCorrect == Spec => []TypeOK
  <1>1. PortInv => TypeOK
    BY DEF PortInv, LatchType, TypeOK
  <1>2. QED BY <1>1, PortInvariant, PTL

\* The accesses through the ports are atomic accesses of the register file.
THEOREM AccessesAtomic == Spec => AtomicAccess
  <1>1. PortInit => Init
    BY DEF PortInit
  <1>2. QED BY <1>1, PortInvariant, NextPort, PTL DEF Spec, AtomicAccess, RegSpec

\* What is proved of the register file holds of the readings through the ports.
THEOREM PortReadingsSound == Spec => []ReadingSound
  <1>1. QED BY AccessesAtomic, ReadingsSound, PTL DEF AtomicAccess

=============================================================================
