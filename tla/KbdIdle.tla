------------------------------ MODULE KbdIdle ------------------------------
(***************************************************************************)
(* The daemon that turns the keyboard backlight off while nobody types     *)
(* (kbd-idle).  It hears of idleness from the compositor and of every      *)
(* change of brightness from UPower, over two streams whose events reach   *)
(* its main loop in any order; it knows its own changes by their value     *)
(* alone, from a queue of what it wrote.  Meanwhile the Fn key, other      *)
(* programs and KDE, which dims and restores the same light, write too.    *)
(*                                                                         *)
(* UPower, the compositor and KDE are outside the repository: UPower       *)
(* broadcasts every write, and KDE puts back what it found when it dimmed  *)
(* (both as the comments of kbd-idle/src/main.rs say).                     *)
(***************************************************************************)
EXTENDS Naturals, Sequences

CONSTANTS
  Max,       \* brightest level
  Pending,   \* bound: the others act only while fewer signals than this wait
  None       \* KDE has not dimmed

ASSUME LevelAssumption == Max \in Nat \ {0} /\ None \notin 0..Max
ASSUME BoundAssumption == Pending \in Nat

Level == 0..Max
Signal == [value : Level, source : {"internal", "external"}, by : {"daemon", "others"}]

VARIABLES
  lamp,      \* brightness of the keyboard
  kde,       \* level KDE found when it dimmed
  input,     \* whether the compositor sees input
  bus,       \* brightness_changed signals the daemon has not handled
  seat,      \* idle notifications it has not handled
  pc,        \* the daemon waits, is about to turn off, or is not running
  level, dimmed, own, kdeDimmed,  \* Backlight
  reassert,  \* reassert_until lies in the future
  chosen,    \* history: level last set by somebody else, 0 by the key only
  astray,    \* history: the daemon lit over news it had not heard, or took the
             \* key's for its own
  spoilt     \* history: what the daemon cannot make good: darkness asked for, a write
             \* that failed or was late, a change while KDE dims

others == <<lamp, kde, input, chosen, spoilt>>
daemon == <<pc, level, dimmed, own, kdeDimmed, reassert, astray>>
vars == <<others, bus, seat, daemon>>

Running == pc # "stopped"

-----------------------------------------------------------------------------
(* UPower and the others *)

Init ==
  /\ lamp \in Level
  /\ kde = None
  /\ input = "active"
  /\ bus = <<>> /\ seat = <<>>
  /\ pc = "wait"
  /\ level = lamp
  /\ dimmed = FALSE
  /\ own = <<>>
  /\ kdeDimmed = FALSE
  /\ reassert = FALSE
  /\ chosen = lamp
  /\ astray = FALSE
  /\ spoilt = FALSE

\* UPower tells the daemon, if it runs, of a change.
Broadcast(v, source) ==
  bus' = IF Running THEN Append(bus, [value |-> v, source |-> source, by |-> "others"]) ELSE bus

\* Somebody else sets level v.
Write(v, source) ==
  /\ Len(bus) < Pending
  /\ lamp' = v
  /\ Broadcast(v, source)
  /\ chosen' = IF v > 0 \/ source = "internal" THEN v ELSE chosen
  /\ UNCHANGED <<seat, daemon>>

FnKey(v) ==
  /\ Write(v, "internal")
  /\ spoilt' = (spoilt \/ v = 0 \/ kde # None)
  /\ UNCHANGED <<kde, input>>

Slider(v) ==
  /\ Write(v, "external")
  /\ spoilt' = (spoilt \/ v = 0 \/ kde # None)
  /\ UNCHANGED <<kde, input>>

\* KDE dims the keyboard of an idle session, and later puts back what it found.
KdeDims ==
  /\ kde = None /\ input = "idle"
  /\ kde' = lamp
  /\ Write(0, "external")
  /\ UNCHANGED <<input, spoilt>>

KdeRestores ==
  /\ kde # None /\ input = "active"
  /\ kde' = None
  /\ Write(kde, "external")
  /\ UNCHANGED <<input, spoilt>>

\* The compositor sees no input for the timeout, or sees input again.
Notify(event) == seat' = IF Running THEN Append(seat, event) ELSE seat

InputStops ==
  /\ input = "active" /\ Len(seat) + Len(bus) < Pending
  /\ input' = "idle"
  /\ Notify("idle")
  /\ UNCHANGED <<lamp, kde, chosen, spoilt, bus, daemon>>

InputReturns ==
  /\ input = "idle" /\ Len(seat) + Len(bus) < Pending
  /\ input' = "active"
  /\ Notify("resume")
  /\ UNCHANGED <<lamp, kde, chosen, spoilt, bus, daemon>>

-----------------------------------------------------------------------------
(* The daemon *)

\* News of the others among the signals.
News(signals) == \E i \in 1..Len(signals) : signals[i].by = "others"

\* Seeded fault: the entry of a failed write stays in the queue.
SetKeepsEntry(v, signals) ==
  /\ own' = Append(own, v)
  /\ \/ /\ lamp' = v
        /\ bus' = Append(signals, [value |-> v, source |-> "external", by |-> "daemon"])
        /\ astray' = (astray \/ (v > 0 /\ News(signals)))
        /\ spoilt' = (spoilt \/ News(signals))
     \/ lamp' = lamp /\ bus' = signals /\ spoilt' = TRUE /\ astray' = astray

\* Backlight::set: write v, of which UPower will tell after the signals waiting;
\* or the call fails, and the entry is taken back.
Set(v, signals) ==
  \/ /\ lamp' = v
     /\ bus' = Append(signals, [value |-> v, source |-> "external", by |-> "daemon"])
     /\ own' = Append(own, v)
     /\ astray' = (astray \/ (v > 0 /\ News(signals)))
     /\ spoilt' = (spoilt \/ News(signals))
  \/ lamp' = lamp /\ bus' = signals /\ own' = own /\ spoilt' = TRUE /\ astray' = astray

\* Seeded fault: the light may be off already.
OnIdleAlways ==
  /\ pc = "wait" /\ seat # <<>> /\ Head(seat) = "idle"
  /\ seat' = Tail(seat)
  /\ level' = lamp /\ dimmed' = TRUE /\ pc' = "dim"
  /\ UNCHANGED <<others, bus, own, kdeDimmed, reassert, astray>>

\* on_idle: read the level; a light that is on is to be turned off.
OnIdle ==
  /\ pc = "wait" /\ seat # <<>> /\ Head(seat) = "idle"
  /\ seat' = Tail(seat)
  /\ \/ lamp > 0 /\ level' = lamp /\ dimmed' = TRUE /\ pc' = "dim"
     \/ lamp = 0 /\ UNCHANGED <<pc, level, dimmed>>
  /\ UNCHANGED <<others, bus, own, kdeDimmed, reassert, astray>>

\* The level cannot be read.
OnIdleFails ==
  /\ pc = "wait" /\ seat # <<>> /\ Head(seat) = "idle"
  /\ seat' = Tail(seat)
  /\ UNCHANGED <<others, bus, daemon>>

\* The second call of on_idle.
TurnOff ==
  /\ pc = "dim"
  /\ Set(0, bus)
  /\ pc' = "wait"
  /\ UNCHANGED <<kde, input, chosen, seat, level, dimmed, kdeDimmed, reassert>>

\* Seeded fault: nothing is put back when KDE has dimmed as well.
OnResumeNotKde ==
  /\ pc = "wait" /\ seat # <<>> /\ Head(seat) = "resume"
  /\ seat' = Tail(seat)
  /\ \/ dimmed /\ ~kdeDimmed /\ dimmed' = FALSE /\ Set(level, bus)
     \/ (~dimmed \/ kdeDimmed) /\ UNCHANGED <<lamp, bus, own, dimmed, astray, spoilt>>
  /\ UNCHANGED <<kde, input, chosen, pc, level, kdeDimmed, reassert>>

\* Seeded fault: KDE's darkness is not remembered.
OnResumeForgetsKde ==
  /\ pc = "wait" /\ seat # <<>> /\ Head(seat) = "resume"
  /\ seat' = Tail(seat)
  /\ \/ dimmed /\ dimmed' = FALSE /\ kdeDimmed' = FALSE /\ Set(level, bus)
     \/ ~dimmed /\ UNCHANGED <<lamp, bus, own, dimmed, kdeDimmed, astray, spoilt>>
  /\ UNCHANGED <<kde, input, chosen, pc, level, reassert>>

\* on_resume: put the level back, and expect KDE to put back 0 after that.
OnResume ==
  /\ pc = "wait" /\ seat # <<>> /\ Head(seat) = "resume"
  /\ seat' = Tail(seat)
  /\ \/ /\ dimmed
        /\ dimmed' = FALSE
        /\ Set(level, bus)
        /\ kdeDimmed' = FALSE
        /\ reassert' = (reassert \/ kdeDimmed)
     \/ ~dimmed /\ UNCHANGED <<lamp, bus, own, dimmed, kdeDimmed, reassert, astray, spoilt>>
  /\ UNCHANGED <<kde, input, chosen, pc, level>>

\* Seeded fault: a change by another program while dimmed is not noticed.
ChangedDimmedMissed(v) ==
  /\ kdeDimmed' = (kdeDimmed \/ v = 0)
  /\ UNCHANGED <<lamp, own, level, dimmed, reassert, spoilt>>

\* Another program set v while the daemon had the light off.
ChangedDimmed(v) ==
  /\ \/ v = 0 /\ kdeDimmed' = TRUE /\ UNCHANGED <<dimmed, level>>
     \/ v > 0 /\ dimmed' = FALSE /\ level' = v /\ UNCHANGED kdeDimmed
  /\ UNCHANGED <<lamp, own, reassert, spoilt>>

\* on_changed, for the next signal.
OnChanged ==
  /\ pc = "wait" /\ bus # <<>>
  /\ LET v == Head(bus).value
         key == Head(bus).source = "internal"
         echo == own # <<>> /\ Head(own) = v
     IN \/ /\ echo
           /\ own' = Tail(own)
           /\ bus' = Tail(bus)
           /\ astray' = (astray \/ key)
           /\ UNCHANGED <<lamp, level, dimmed, kdeDimmed, reassert, spoilt>>
        \/ /\ ~echo /\ key
           /\ level' = v
           /\ dimmed' = FALSE /\ kdeDimmed' = FALSE /\ reassert' = FALSE
           /\ bus' = Tail(bus)
           /\ UNCHANGED <<lamp, own, astray, spoilt>>
        \/ /\ ~echo /\ ~key /\ dimmed
           /\ ChangedDimmed(v)
           /\ bus' = Tail(bus)
           /\ UNCHANGED astray
        \/ /\ ~echo /\ ~key /\ ~dimmed /\ v = 0 /\ reassert
           /\ reassert' = FALSE
           /\ Set(level, Tail(bus))
           /\ UNCHANGED <<level, dimmed, kdeDimmed>>
        \/ /\ ~echo /\ ~key /\ ~dimmed /\ ~(v = 0 /\ reassert)
           /\ level' = v
           /\ bus' = Tail(bus)
           /\ UNCHANGED <<lamp, own, dimmed, kdeDimmed, reassert, astray, spoilt>>
  /\ UNCHANGED <<kde, input, chosen, seat, pc>>

\* Two seconds after it put a level back.
ReassertExpires ==
  /\ reassert
  /\ reassert' = FALSE
  /\ spoilt' = TRUE
  /\ UNCHANGED <<lamp, kde, input, chosen, bus, seat, pc, level, dimmed, own, kdeDimmed, astray>>

\* A signal ends the main loop: the light is turned on again.
Stop ==
  /\ pc = "wait"
  /\ pc' = "stopped"
  /\ \/ dimmed /\ Set(level, bus)
     \/ ~dimmed /\ UNCHANGED <<lamp, bus, own, astray, spoilt>>
  /\ UNCHANGED <<kde, input, chosen, seat, level, dimmed, kdeDimmed, reassert>>

\* The compositor or the bus goes away: a reader thread ends the process.
Exit ==
  /\ Running
  /\ pc' = "stopped"
  /\ UNCHANGED <<others, bus, seat, level, dimmed, own, kdeDimmed, reassert, astray>>

\* The daemon is started (again).
Start ==
  /\ pc = "stopped"
  /\ pc' = "wait"
  /\ level' = lamp
  /\ dimmed' = FALSE /\ own' = <<>> /\ kdeDimmed' = FALSE /\ reassert' = FALSE
  /\ bus' = <<>>
  /\ seat' = IF input = "idle" THEN <<"idle">> ELSE <<>>
  /\ chosen' = lamp /\ astray' = FALSE /\ spoilt' = (kde # None)
  /\ UNCHANGED <<lamp, kde, input>>

-----------------------------------------------------------------------------
Next ==
  \/ \E v \in Level : FnKey(v) \/ Slider(v)
  \/ KdeDims \/ KdeRestores
  \/ InputStops \/ InputReturns
  \/ OnIdle \/ OnIdleFails \/ TurnOff \/ OnResume \/ OnChanged
  \/ ReassertExpires
  \/ Stop \/ Exit \/ Start

Spec == Init /\ [][Next]_vars

\* The main loop keeps running, and each event of its channel has its turn.
Fairness ==
  /\ WF_vars(TurnOff)
  /\ SF_vars(OnIdle \/ OnIdleFails \/ OnResume)
  /\ SF_vars(OnChanged)

FairSpec == Spec /\ Fairness

-----------------------------------------------------------------------------
(* Properties *)

\* Every variable has its type; while the light is off on the daemon's account
\* it holds a level to come back to.
TypeOK ==
  /\ lamp \in Level
  /\ kde \in Level \cup {None}
  /\ input \in {"active", "idle"}
  /\ bus \in Seq(Signal)
  /\ seat \in Seq({"idle", "resume"})
  /\ pc \in {"wait", "dim", "stopped"}
  /\ level \in Level
  /\ dimmed \in BOOLEAN
  /\ own \in Seq(Level)
  /\ kdeDimmed \in BOOLEAN
  /\ reassert \in BOOLEAN
  /\ chosen \in Level
  /\ astray \in BOOLEAN
  /\ spoilt \in BOOLEAN
  /\ dimmed => level > 0

\* f gives each entry of the queue the signal of the daemon's that is its echo: in
\* the same order, and no echo comes later that has no entry.
Fits(queue, signals, f) ==
  /\ \A i \in 1..Len(queue) : signals[f[i]].by = "daemon" /\ signals[f[i]].value = queue[i]
  /\ \A i, k \in 1..Len(queue) : i < k => f[i] < f[k]
  /\ \A i \in 1..Len(queue), j \in 1..Len(signals) :
       signals[j].by = "daemon" /\ f[i] < j => \E k \in 1..Len(queue) : f[k] = j

\* The queue of own writes never gets out of step for good: what is in it are
\* the last of the daemon's writes whose echoes are still to come, in their order.
QueueInStep ==
  Running => \E f \in [1..Len(own) -> 1..Len(bus)] : Fits(own, bus, f)

\* The daemon never undoes a choice it has heard of: when it lights the keyboard
\* it is to the level somebody else set last, and not after the key turned the
\* light off; until it has gone astray.
Lights == Len(own') > Len(own) /\ own'[Len(own')] > 0

NoUndo == [][Lights /\ ~astray' => own'[Len(own')] = chosen]_vars

\* Once whoever came back is noticed and KDE has put back what it found, the light
\* is what it was before, though KDE may have found the daemon's darkness.
Quiet == pc = "wait" /\ input = "active" /\ kde = None /\ bus = <<>> /\ seat = <<>>

ComesBack == Quiet /\ ~astray /\ ~spoilt => lamp = chosen

\* Whoever comes back to the keyboard is not left with a light the daemon holds
\* off, whatever signals and writes of others come between.
WakesUp ==
  input = "active" /\ dimmed ~> (~dimmed \/ input = "idle" \/ pc = "stopped")

\* What main.rs says UPower's signals are for: told where a change comes from, the
\* daemon can tell the Fn key from its own writes.
KeyTold ==
  [][OnChanged /\ Head(bus).source = "internal" => own' = own]_vars
=============================================================================
