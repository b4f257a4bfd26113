------------------------------- MODULE EcPort -------------------------------
(***************************************************************************)
(* The accesses of EcRegisters as the driver makes them: twelve operations *)
(* on two I/O ports under io_port_mutex, which put the address into two    *)
(* registers of the EC's configuration space one byte at a time and then   *)
(* move the byte (ecram_portio_read, ecram_portio_write).  The EC's side   *)
(* of the ports is taken from the comment over the port definitions: a     *)
(* write to the address port selects a register, the data port accesses    *)
(* it, and the selected register is itself reached through 0x2E and 0x2F.  *)
(***************************************************************************)
EXTENDS EcRegisters

CONSTANT
  None       \* nobody holds the mutex

ASSUME NoneAssumption == None \notin Threads

VARIABLES
  lock,      \* holder of io_port_mutex
  step,      \* port operation each thread is at (0: none, 13: all done)
  addr,      \* EC: register the address port has selected
  index,     \* EC: register that 0x2F stands for
  hi, lo     \* EC: address in EC RAM, by halves

portVars == <<lock, step, addr, index, hi, lo>>
vars == <<regVars, portVars>>

-----------------------------------------------------------------------------
(* The ports *)

\* What an access sends to the address port: 0x2E before the number of a
\* register, 0x2F before its content.
Selector(s) == IF s % 4 = 1 THEN 46 ELSE 47

\* Seeded fault: the two halves of the address are swapped.
SentSwapped(s, a) ==
  CASE s = 2 -> 17 [] s = 4 -> a % 256 [] s = 6 -> 16 [] s = 8 -> a \div 256 [] OTHER -> 18

\* What an access of address a sends to the data port: 0x11 and the high half,
\* 0x10 and the low half, and 0x12, the register of the byte itself.
Sent(s, a) ==
  CASE s = 2 -> 17 [] s = 4 -> a \div 256 [] s = 6 -> 16 [] s = 8 -> a % 256 [] OTHER -> 18

\* The EC: address in EC RAM it moves the byte from or to.
Target == 256 * hi + lo

\* The EC: what the data port reads.
DataPort ==
  IF addr = 46 THEN index
  ELSE CASE index = 17 -> hi [] index = 16 -> lo
         [] OTHER -> IF Target \in Offsets THEN ram[Target] ELSE 0

\* The EC: byte b arrives at the data port.
Arrives(b) ==
  /\ index' = IF addr = 46 THEN b ELSE index
  /\ hi' = IF addr = 47 /\ index = 17 THEN b ELSE hi
  /\ lo' = IF addr = 47 /\ index = 16 THEN b ELSE lo
  /\ ram' = IF addr = 47 /\ index = 18 /\ Target \in Offsets
            THEN [ram EXCEPT ![Target] = b] ELSE ram
  /\ UNCHANGED addr

-----------------------------------------------------------------------------
PortInit ==
  /\ Init
  /\ lock = None
  /\ step = [t \in Threads |-> 0]
  /\ addr = 47 /\ index = 18     \* as an access leaves them
  /\ hi = 0 /\ lo = 0

OnPorts(t) ==
  LET p == Program(job[t])
  IN  at[t] \in 1..Len(p) /\ (p[at[t]].kind = "read" \/ (p[at[t]].kind = "write" /\ ~conf.readonly))

\* Seeded fault: the mutex is not waited for.
LockAtOnce(t) ==
  /\ step[t] = 0 /\ OnPorts(t)
  /\ lock' = t
  /\ step' = [step EXCEPT ![t] = 1]
  /\ UNCHANGED <<regVars, addr, index, hi, lo>>

\* mutex_lock
Lock(t) ==
  /\ step[t] = 0 /\ OnPorts(t)
  /\ lock = None
  /\ lock' = t
  /\ step' = [step EXCEPT ![t] = 1]
  /\ UNCHANGED <<regVars, addr, index, hi, lo>>

\* outb to the address port
Select(t) ==
  /\ step[t] \in {1, 3, 5, 7, 9, 11}
  /\ addr' = Selector(step[t])
  /\ step' = [step EXCEPT ![t] = @ + 1]
  /\ UNCHANGED <<regVars, lock, index, hi, lo>>

\* outb to the data port of a register number or of half of the address
Send(t) ==
  /\ step[t] \in {2, 4, 6, 8, 10}
  /\ Arrives(Sent(step[t], Offset(t)))
  /\ step' = [step EXCEPT ![t] = @ + 1]
  /\ UNCHANGED <<rpm, conf, job, at, got, reply, seen, lock>>

\* The last operation: inb of the byte, or outb of it.
Receive(t) ==
  /\ step[t] = 12 /\ At(t, "read")
  /\ got' = [got EXCEPT ![t][Offset(t)] = DataPort]
  /\ Advance(t)
  /\ step' = [step EXCEPT ![t] = 13]
  /\ UNCHANGED <<ram, reply, lock, addr, index, hi, lo>>

Emit(t) ==
  /\ step[t] = 12 /\ At(t, "write")
  /\ Arrives(Current(t).value)
  /\ Advance(t)
  /\ step' = [step EXCEPT ![t] = 13]
  /\ UNCHANGED <<got, reply, lock>>

\* Seeded fault: the path of a write returns with the mutex held.
UnlockReadsOnly(t) ==
  /\ step[t] = 13
  /\ lock' = IF Program(job[t])[at[t] - 1].kind = "read" THEN None ELSE lock
  /\ step' = [step EXCEPT ![t] = 0]
  /\ UNCHANGED <<regVars, addr, index, hi, lo>>

\* mutex_unlock
Unlock(t) ==
  /\ step[t] = 13
  /\ lock' = None
  /\ step' = [step EXCEPT ![t] = 0]
  /\ UNCHANGED <<regVars, addr, index, hi, lo>>

\* What goes on between accesses without the ports.
OffPorts(t) ==
  /\ step[t] = 0
  /\ SkipWrite(t) \/ AskFirmware(t) \/ Return(t)
  /\ UNCHANGED portVars

\* Thread t goes on with its job.
GoOn(t) ==
  Lock(t) \/ Select(t) \/ Send(t) \/ Receive(t) \/ Emit(t) \/ Unlock(t) \/ OffPorts(t)

Called(t) == step[t] = 0 /\ (\E j \in Jobs[t] : Begin(t, j)) /\ UNCHANGED portVars

PortNext ==
  \/ \E t \in Threads : GoOn(t) \/ Called(t)
  \/ \E f \in Fans : \E s \in Rpms[f] : FanTurns(f, s) /\ UNCHANGED portVars

Spec == PortInit /\ [][PortNext]_vars

\* A waiter on a mutex that is released again and again gets it in the end
\* (kernel mutexes hand over to the oldest waiter), and a running thread is
\* scheduled.
Fairness == \A t \in Threads : SF_vars(GoOn(t))

FairSpec == Spec /\ Fairness

-----------------------------------------------------------------------------
(* Properties *)

\* Types of the ports' state.
TypeOK ==
  /\ RegTypeOK
  /\ lock \in Threads \cup {None}
  /\ step \in [Threads -> 0..13]
  /\ addr \in {46, 47} /\ index \in {16, 17, 18}
  /\ hi \in Byte /\ lo \in Byte

\* Twelve port operations of one access, mixed with those of every other thread
\* and with the EC's own changes, amount to one atomic access of the byte that
\* was asked for: the driver's view of EC RAM implements EcRegisters.
AtomicAccess == RegSpec

\* Every reading and every store of an EC register comes to its end.
JobsEnd == \A t \in Threads : Running(t) ~> ~Running(t)

=============================================================================
