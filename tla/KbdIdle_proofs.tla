--------------------------- MODULE KbdIdle_proofs ---------------------------
(***************************************************************************)
(* Proofs about the idle daemon, for any number of levels and any number   *)
(* of signals under way.                                                   *)
(***************************************************************************)
EXTENDS KbdIdle, SequenceTheorems, TLAPS

-----------------------------------------------------------------------------
(* What the proofs know of a state *)

\* A signal after which the level the user wants is known.
Choice(s) == s.by = "others" /\ (s.value > 0 \/ s.source = "internal")
Heard(signals) == \A i \in 1..Len(signals) : ~Choice(signals[i])

\* Until the daemon goes astray, only its echoes of 0 follow other people's news, and
\* only those may have lost their entry in the queue.
Sound(queue, signals, f) ==
  /\ \A i, j \in 1..Len(signals) :
       i < j /\ signals[i].by = "others" /\ signals[j].by = "daemon" => signals[j].value = 0
  /\ \A j \in 1..Len(signals) :
       signals[j].by = "daemon" /\ signals[j].value > 0 => \E i \in 1..Len(queue) : f[i] = j

Matched(queue, signals, firm) ==
  \E f \in [1..Len(queue) -> 1..Len(signals)] :
    Fits(queue, signals, f) /\ (firm => Sound(queue, signals, f))

QueueInv == Running => Matched(own, bus, ~astray)

\* A light that is on is at the level chosen last; that level is in the last signal of
\* a choice, or, when all were heard, in the daemon's own account.
LastSays(signals, v) ==
  \A j \in 1..Len(signals) :
    Choice(signals[j]) /\ (\A k \in (j+1)..Len(signals) : ~Choice(signals[k]))
      => signals[j].value = v

LevelInv ==
  ~astray =>
    /\ lamp > 0 => lamp = chosen
    /\ Running => LastSays(bus, chosen)
    /\ Running /\ Heard(bus) /\ (dimmed \/ reassert) => level = chosen

\* The compositor's events alternate, and the daemon holds the light off only
\* while a resume is to come.
SeatInv ==
  Running =>
    /\ \A i \in 1..(Len(seat) - 1) : seat[i] # seat[i+1]
    /\ seat # <<>> => /\ seat[Len(seat)] = IF input = "idle" THEN "idle" ELSE "resume"
                      /\ dimmed => seat[1] = "resume"
    /\ seat = <<>> /\ dimmed => input = "idle"
    /\ pc = "dim" => dimmed

\* While nothing was spoilt the daemon's echoes come before all news, and the queue
\* lists exactly them.
Straight(queue, signals) ==
  /\ Len(queue) <= Len(signals)
  /\ \A i \in 1..Len(queue) : signals[i].by = "daemon" /\ signals[i].value = queue[i]
  /\ \A i \in (Len(queue)+1)..Len(signals) : signals[i].by = "others"

TwoNews(signals) ==
  \E i, j \in 1..Len(signals) : i < j /\ signals[i].by = "others" /\ signals[j].by = "others"

\* Whose darkness it is, and what will end it.
Remedy ==
  /\ lamp = 0 /\ kde = None => Heard(bus) /\ (dimmed \/ (reassert /\ News(bus)))
  /\ kde = 0 => /\ Heard(bus)
                /\ \/ dimmed /\ (kdeDimmed \/ reassert \/ News(bus))
                   \/ ~dimmed /\ reassert /\ (News(bus) => TwoNews(bus))

DarkInv ==
  Running /\ ~astray /\ ~spoilt => Straight(own, bus) /\ (chosen > 0 => Remedy)

IInv == QueueInv /\ LevelInv /\ SeatInv /\ DarkInv

-----------------------------------------------------------------------------
(* Types *)

LEMMA LevelNat == Max \in Nat /\ Max > 0 /\ Level \subseteq Nat /\ 0 \in Level
  BY LevelAssumption DEF Level

LEMMA SetTyped ==
  ASSUME TypeOK, NEW v \in Level, NEW signals \in Seq(Signal), Set(v, signals)
  PROVE  /\ lamp' \in Level /\ bus' \in Seq(Signal) /\ own' \in Seq(Level)
         /\ astray' \in BOOLEAN /\ spoilt' \in BOOLEAN
  <1>1. [value |-> v, source |-> "external", by |-> "daemon"] \in Signal
    BY DEF Signal
  <1>5. /\ Append(own, v) \in Seq(Level)
        /\ Append(signals, [value |-> v, source |-> "external", by |-> "daemon"]) \in Seq(Signal)
    BY <1>1, AppendProperties DEF TypeOK
  <1>2. lamp' \in Level /\ bus' \in Seq(Signal) /\ own' \in Seq(Level)
    BY <1>5, Zenon DEF Set, TypeOK
  <1>3. astray' \in BOOLEAN /\ spoilt' \in BOOLEAN
    BY Zenon DEF Set, TypeOK
  <1>4. QED BY <1>2, <1>3

LEMMA WriteTyped ==
  ASSUME TypeOK, NEW v \in Level, NEW source \in {"internal", "external"}, Write(v, source)
  PROVE  /\ lamp' \in Level /\ bus' \in Seq(Signal) /\ chosen' \in Level
         /\ UNCHANGED <<seat, daemon>>
  <1>1. [value |-> v, source |-> source, by |-> "others"] \in Signal
    BY DEF Signal
  <1>2. bus' \in Seq(Signal)
    BY <1>1, AppendProperties DEF Write, Broadcast, TypeOK
  <1>3. QED BY <1>2 DEF Write, TypeOK

\* A step of the others, and one of the daemon.
LEMMA OthersTyped ==
  ASSUME TypeOK,
         \/ \E v \in Level : FnKey(v) \/ Slider(v)
         \/ KdeDims \/ KdeRestores \/ InputStops \/ InputReturns
  PROVE  TypeOK'
  <1> USE LevelNat
  <1>1. ASSUME NEW v \in Level, FnKey(v) \/ Slider(v) PROVE TypeOK'
    <2>1. PICK source \in {"internal", "external"} : Write(v, source)
      BY <1>1 DEF FnKey, Slider
    <2>2. spoilt' \in BOOLEAN
      BY <1>1, Zenon DEF FnKey, Slider, TypeOK
    <2>3. UNCHANGED <<kde, input>>
      BY <1>1 DEF FnKey, Slider
    <2>4. QED BY <2>1, <2>2, <2>3, WriteTyped DEF TypeOK, daemon
  <1>2. CASE KdeDims
    BY <1>2, WriteTyped DEF KdeDims, TypeOK, daemon
  <1>3. CASE KdeRestores
    BY <1>3, WriteTyped DEF KdeRestores, TypeOK, daemon
  <1>4. CASE InputStops
    <2>1. seat' \in Seq({"idle", "resume"})
      BY <1>4, AppendProperties DEF InputStops, Notify, TypeOK
    <2>2. QED BY <1>4, <2>1 DEF InputStops, TypeOK, daemon
  <1>5. CASE InputReturns
    <2>1. seat' \in Seq({"idle", "resume"})
      BY <1>5, AppendProperties DEF InputReturns, Notify, TypeOK
    <2>2. QED BY <1>5, <2>1 DEF InputReturns, TypeOK, daemon
  <1>6. QED BY <1>1, <1>2, <1>3, <1>4, <1>5

LEMMA OnChangedTyped == ASSUME TypeOK, OnChanged PROVE TypeOK'
  <1> DEFINE v == Head(bus).value
             key == Head(bus).source = "internal"
             echo == own # <<>> /\ Head(own) = v
  <1>1. Head(bus) \in Signal /\ Tail(bus) \in Seq(Signal) /\ v \in Level
    <2>1. bus \in Seq(Signal) /\ bus # <<>>
      BY DEF OnChanged, TypeOK
    <2>2. Head(bus) \in Signal /\ Tail(bus) \in Seq(Signal)
      BY <2>1, HeadTailProperties
    <2>3. QED BY <2>2 DEF Signal
  <1>2. UNCHANGED <<kde, input, chosen, seat, pc>>
    BY DEF OnChanged
  <1>3. CASE /\ echo
             /\ own' = Tail(own)
             /\ bus' = Tail(bus)
             /\ astray' = (astray \/ key)
             /\ UNCHANGED <<lamp, level, dimmed, kdeDimmed, reassert, spoilt>>
    <2>1. own' \in Seq(Level)
      BY <1>3, HeadTailProperties DEF TypeOK
    <2>2. astray' \in BOOLEAN
      BY <1>3, Zenon DEF TypeOK
    <2>3. QED BY <1>1, <1>2, <1>3, <2>1, <2>2 DEF TypeOK
  <1>4. CASE /\ ~echo /\ key
             /\ level' = v
             /\ dimmed' = FALSE /\ kdeDimmed' = FALSE /\ reassert' = FALSE
             /\ bus' = Tail(bus)
             /\ UNCHANGED <<lamp, own, astray, spoilt>>
    BY <1>1, <1>2, <1>4 DEF TypeOK
  <1>5. CASE /\ ~echo /\ ~key /\ dimmed
             /\ ChangedDimmed(v)
             /\ bus' = Tail(bus)
             /\ UNCHANGED astray
    BY <1>1, <1>2, <1>5 DEF TypeOK, ChangedDimmed
  <1>6. CASE /\ ~echo /\ ~key /\ ~dimmed /\ v = 0 /\ reassert
             /\ reassert' = FALSE
             /\ Set(level, Tail(bus))
             /\ UNCHANGED <<level, dimmed, kdeDimmed>>
    <2>1. /\ lamp' \in Level /\ bus' \in Seq(Signal) /\ own' \in Seq(Level)
          /\ astray' \in BOOLEAN /\ spoilt' \in BOOLEAN
      BY <1>1, <1>6, SetTyped DEF TypeOK
    <2>2. QED BY <1>2, <1>6, <2>1 DEF TypeOK
  <1>7. CASE /\ ~echo /\ ~key /\ ~dimmed /\ ~(v = 0 /\ reassert)
             /\ level' = v
             /\ bus' = Tail(bus)
             /\ UNCHANGED <<lamp, own, dimmed, kdeDimmed, reassert, astray, spoilt>>
    BY <1>1, <1>2, <1>7 DEF TypeOK
  <1>8. QED BY <1>3, <1>4, <1>5, <1>6, <1>7 DEF OnChanged

LEMMA DaemonTyped ==
  ASSUME TypeOK,
         \/ OnIdle \/ OnIdleFails \/ TurnOff \/ OnResume
         \/ ReassertExpires \/ Stop \/ Exit \/ Start
  PROVE  TypeOK'
  <1> USE LevelNat
  <1>1. CASE OnIdle \/ OnIdleFails
    <2>1. seat' \in Seq({"idle", "resume"})
      BY <1>1, HeadTailProperties DEF OnIdle, OnIdleFails, TypeOK
    <2>2. CASE OnIdle /\ lamp > 0
      <3>1. level' = lamp /\ dimmed' = TRUE /\ pc' = "dim" /\ level' > 0
        BY <2>2 DEF OnIdle, TypeOK
      <3>2. UNCHANGED <<others, bus, own, kdeDimmed, reassert, astray>>
        BY <2>2 DEF OnIdle
      <3>3. QED BY <2>1, <3>1, <3>2 DEF TypeOK, others
    <2>3. CASE OnIdle /\ lamp = 0
      BY <2>1, <2>3 DEF OnIdle, TypeOK, others
    <2>4. CASE OnIdleFails
      BY <2>1, <2>4 DEF OnIdleFails, TypeOK, others, daemon
    <2>5. QED BY <1>1, <2>2, <2>3, <2>4 DEF OnIdle
  <1>2. CASE TurnOff
    <2>1. Set(0, bus)
      BY <1>2 DEF TurnOff
    <2>2. /\ lamp' \in Level /\ bus' \in Seq(Signal) /\ own' \in Seq(Level)
          /\ astray' \in BOOLEAN /\ spoilt' \in BOOLEAN
      BY <2>1, SetTyped DEF TypeOK
    <2>3. QED BY <1>2, <2>2 DEF TurnOff, TypeOK
  <1>3. CASE OnResume
    <2>1. seat' \in Seq({"idle", "resume"})
      BY <1>3, HeadTailProperties DEF OnResume, TypeOK
    <2>2. CASE dimmed
      <3>1. Set(level, bus) /\ dimmed' = FALSE /\ kdeDimmed' = FALSE /\ reassert' = (reassert \/ kdeDimmed)
        BY <1>3, <2>2 DEF OnResume
      <3>2. /\ lamp' \in Level /\ bus' \in Seq(Signal) /\ own' \in Seq(Level)
            /\ astray' \in BOOLEAN /\ spoilt' \in BOOLEAN
        BY <3>1, SetTyped DEF TypeOK
      <3>3. reassert' \in BOOLEAN
        BY <3>1 DEF TypeOK
      <3>4. QED BY <1>3, <2>1, <3>1, <3>2, <3>3 DEF OnResume, TypeOK
    <2>3. CASE ~dimmed
      BY <1>3, <2>1, <2>3 DEF OnResume, TypeOK
    <2>4. QED BY <2>2, <2>3
  <1>4. CASE ReassertExpires
    BY <1>4 DEF ReassertExpires, TypeOK
  <1>5. CASE Stop
    <2>1. CASE dimmed
      <3>1. /\ lamp' \in Level /\ bus' \in Seq(Signal) /\ own' \in Seq(Level)
            /\ astray' \in BOOLEAN /\ spoilt' \in BOOLEAN
        BY <1>5, <2>1, SetTyped DEF Stop, TypeOK
      <3>2. QED BY <1>5, <3>1 DEF Stop, TypeOK
    <2>2. CASE ~dimmed
      BY <1>5, <2>2 DEF Stop, TypeOK
    <2>3. QED BY <2>1, <2>2
  <1>6. CASE Exit
    BY <1>6 DEF Exit, TypeOK, others
  <1>7. CASE Start
    <2>1. bus' \in Seq(Signal) /\ own' \in Seq(Level)
      BY <1>7 DEF Start
    <2>2. seat' \in Seq({"idle", "resume"})
      <3>1. <<"idle">> \in Seq({"idle", "resume"}) /\ <<>> \in Seq({"idle", "resume"})
        OBVIOUS
      <3>2. QED BY <1>7, <3>1, Zenon DEF Start
    <2>3. spoilt' \in BOOLEAN
      BY <1>7, Zenon DEF Start
    <2>4. QED BY <1>7, <2>1, <2>2, <2>3 DEF Start, TypeOK
  <1>8. QED BY <1>1, <1>2, <1>3, <1>4, <1>5, <1>6, <1>7

\* Every variable keeps its type; a daemon that holds the light off has a level above 0
\* to come back to, since on_idle saves the level only of a light that is on.
THEOREM DaemonTypeCorrect == Spec => []TypeOK
  <1>1. Init => TypeOK
    <2>1. <<>> \in Seq(Signal) /\ <<>> \in Seq(Level) /\ <<>> \in Seq({"idle", "resume"})
      BY EmptySeq
    <2>2. QED BY LevelNat, <2>1 DEF Init, TypeOK
  <1>2. TypeOK /\ [Next]_vars => TypeOK'
    <2> SUFFICES ASSUME TypeOK, [Next]_vars PROVE TypeOK'
      OBVIOUS
    <2>1. CASE UNCHANGED vars
      BY <2>1 DEF TypeOK, vars, others, daemon
    <2>2. CASE Next
      BY <2>2, OthersTyped, OnChangedTyped, DaemonTyped DEF Next
    <2>3. QED BY <2>1, <2>2
  <1>3. QED BY <1>1, <1>2, PTL DEF Spec

-----------------------------------------------------------------------------
(* The queue of own writes *)

LEMMA TailFacts ==
  ASSUME NEW S, NEW s \in Seq(S), s # <<>>
  PROVE  /\ Len(s) \in Nat \ {0} /\ Head(s) = s[1]
         /\ Tail(s) \in Seq(S) /\ Len(Tail(s)) = Len(s) - 1
         /\ \A i \in 1..(Len(s) - 1) : Tail(s)[i] = s[i+1]
  BY HeadTailProperties, EmptySeq

\* An echo is taken off both, also if it is not the echo of the entry.
LEMMA FitsEcho ==
  ASSUME NEW q \in Seq(Level), NEW s \in Seq(Signal), q # <<>>, s # <<>>,
         NEW f \in [1..Len(q) -> 1..Len(s)], Fits(q, s, f),
         NEW g, g = [i \in 1..(Len(q) - 1) |-> f[i+1] - 1]
  PROVE  g \in [1..Len(Tail(q)) -> 1..Len(Tail(s))] /\ Fits(Tail(q), Tail(s), g)
  <1> DEFINE n == Len(q)
             m == Len(s)
  <1>1. /\ n \in Nat \ {0} /\ Len(Tail(q)) = n - 1 /\ \A i \in 1..(n-1) : Tail(q)[i] = q[i+1]
        /\ m \in Nat \ {0} /\ Len(Tail(s)) = m - 1 /\ \A i \in 1..(m-1) : Tail(s)[i] = s[i+1]
    BY TailFacts
  <1> HIDE DEF n, m
  <1>2. /\ \A i \in 1..n : f[i] \in 1..m /\ s[f[i]].by = "daemon" /\ s[f[i]].value = q[i]
        /\ \A i, k \in 1..n : i < k => f[i] < f[k]
        /\ \A i \in 1..n, j \in 1..m :
             s[j].by = "daemon" /\ f[i] < j => \E k \in 1..n : f[k] = j
    BY DEF Fits, n, m
  <1>3. \A i \in 1..(n-1) : /\ i+1 \in 1..n /\ f[1] < f[i+1]
                           /\ g[i] \in 1..(m-1) /\ g[i] + 1 = f[i+1] /\ g[i] = f[i+1] - 1
    <2> TAKE i \in 1..(n-1)
    <2>1. i+1 \in 1..n /\ 1 \in 1..n /\ 1 < i+1
      BY <1>1
    <2>2. f[1] < f[i+1] /\ f[1] \in 1..m /\ f[i+1] \in 1..m
      BY <1>2, <2>1
    <2>3. QED BY <1>1, <2>1, <2>2 DEF n
  <1>4. g \in [1..(n-1) -> 1..(m-1)]
    BY <1>3 DEF n
  <1>5. \A i \in 1..(n-1) : Tail(s)[g[i]].by = "daemon" /\ Tail(s)[g[i]].value = Tail(q)[i]
    <2> TAKE i \in 1..(n-1)
    <2>0. g[i] \in 1..(m-1) /\ g[i] + 1 = f[i+1]
      BY <1>3
    <2>1. Tail(s)[g[i]] = s[f[i+1]]
      BY <1>1, <2>0
    <2>2. Tail(q)[i] = q[i+1] /\ i+1 \in 1..n
      BY <1>1, <1>3
    <2>3. QED BY <1>2, <2>1, <2>2
  <1>6. \A i, k \in 1..(n-1) : i < k => g[i] < g[k]
    <2> TAKE i, k \in 1..(n-1)
    <2>1. i < k => f[i+1] < f[k+1]
      BY <1>1, <1>2, <1>3
    <2>2. f[i+1] \in 1..m /\ f[k+1] \in 1..m
      BY <1>2, <1>3
    <2>3. QED BY <1>1, <1>3, <2>1, <2>2
  <1>7. \A i \in 1..(n-1), j \in 1..(m-1) :
          Tail(s)[j].by = "daemon" /\ g[i] < j => \E k \in 1..(n-1) : g[k] = j
    <2> SUFFICES ASSUME NEW i \in 1..(n-1), NEW j \in 1..(m-1), Tail(s)[j].by = "daemon", g[i] < j
                 PROVE  \E k \in 1..(n-1) : g[k] = j
      OBVIOUS
    <2>1. s[j+1].by = "daemon" /\ f[i+1] < j+1 /\ j+1 \in 1..m
      BY <1>1, <1>2, <1>3
    <2>2. PICK k \in 1..n : f[k] = j+1
      BY <1>2, <1>3, <2>1
    <2>3. k # 1
      BY <1>1, <1>2, <1>3, <2>1, <2>2
    <2>4. k-1 \in 1..(n-1) /\ (k-1)+1 = k
      BY <1>1, <2>3
    <2>5. g[k-1] = j
      <3>1. g[k-1] = f[(k-1)+1] - 1
        BY <1>3, <2>4
      <3>2. QED BY <2>2, <2>4, <3>1
    <2>6. QED BY <2>4, <2>5
  <1>8. QED BY <1>1, <1>4, <1>5, <1>6, <1>7 DEF Fits

\* A signal without an entry is taken off alone.
LEMMA FitsSkip ==
  ASSUME NEW q \in Seq(Level), NEW s \in Seq(Signal), s # <<>>,
         NEW f \in [1..Len(q) -> 1..Len(s)], Fits(q, s, f),
         \A i \in 1..Len(q) : f[i] # 1,
         NEW g, g = [i \in 1..Len(q) |-> f[i] - 1]
  PROVE  g \in [1..Len(q) -> 1..Len(Tail(s))] /\ Fits(q, Tail(s), g)
  <1> DEFINE n == Len(q)
             m == Len(s)
  <1>1. /\ n \in Nat
        /\ m \in Nat \ {0} /\ Len(Tail(s)) = m - 1 /\ \A i \in 1..(m-1) : Tail(s)[i] = s[i+1]
    BY TailFacts, LenProperties
  <1> HIDE DEF n, m
  <1>2. /\ \A i \in 1..n : f[i] \in 1..m /\ s[f[i]].by = "daemon" /\ s[f[i]].value = q[i]
        /\ \A i, k \in 1..n : i < k => f[i] < f[k]
        /\ \A i \in 1..n, j \in 1..m :
             s[j].by = "daemon" /\ f[i] < j => \E k \in 1..n : f[k] = j
    BY DEF Fits, n, m
  <1>3. \A i \in 1..n : g[i] = f[i] - 1 /\ g[i] \in 1..(m-1) /\ f[i] = g[i] + 1
    <2> TAKE i \in 1..n
    <2>1. g[i] = f[i] - 1 /\ f[i] # 1 /\ f[i] \in 1..m
      BY <1>2 DEF n
    <2>2. QED BY <1>1, <2>1
  <1>4. g \in [1..n -> 1..(m-1)]
    BY <1>3 DEF n
  <1>5. \A i \in 1..n : Tail(s)[g[i]] = s[f[i]]
    BY <1>1, <1>3
  <1>6. \A i, k \in 1..n : i < k => g[i] < g[k]
    <2> TAKE i, k \in 1..n
    <2>1. g[i] = f[i] - 1 /\ g[k] = f[k] - 1 /\ f[i] \in 1..m /\ f[k] \in 1..m
      BY <1>2, <1>3
    <2>2. QED BY <1>1, <1>2, <2>1
  <1>7. \A i \in 1..n, j \in 1..(m-1) :
          Tail(s)[j].by = "daemon" /\ g[i] < j => \E k \in 1..n : g[k] = j
    <2> SUFFICES ASSUME NEW i \in 1..n, NEW j \in 1..(m-1), Tail(s)[j].by = "daemon", g[i] < j
                 PROVE  \E k \in 1..n : g[k] = j
      OBVIOUS
    <2>1. s[j+1].by = "daemon" /\ f[i] < j+1 /\ j+1 \in 1..m
      BY <1>1, <1>2, <1>3
    <2>2. PICK k \in 1..n : f[k] = j+1
      BY <1>2, <2>1
    <2>3. g[k] = j
      BY <1>3, <2>2
    <2>4. QED BY <2>3
  <1>8. QED BY <1>1, <1>2, <1>4, <1>5, <1>6, <1>7 DEF Fits, n

\* The daemon writes: its entry and the signal to come go to the ends.
LEMMA FitsWritten ==
  ASSUME NEW q \in Seq(Level), NEW s \in Seq(Signal), NEW x \in Signal, x.by = "daemon",
         NEW f \in [1..Len(q) -> 1..Len(s)], Fits(q, s, f),
         NEW g, g = [i \in 1..(Len(q) + 1) |-> IF i <= Len(q) THEN f[i] ELSE Len(s) + 1]
  PROVE  /\ g \in [1..Len(Append(q, x.value)) -> 1..Len(Append(s, x))]
         /\ Fits(Append(q, x.value), Append(s, x), g)
  <1> DEFINE n == Len(q)
             m == Len(s)
             p == Append(q, x.value)
             r == Append(s, x)
  <1>1. /\ n \in Nat /\ Len(p) = n + 1 /\ p[n+1] = x.value /\ \A i \in 1..n : p[i] = q[i]
        /\ m \in Nat /\ Len(r) = m + 1 /\ r[m+1] = x /\ \A i \in 1..m : r[i] = s[i]
    <2>1. x.value \in Level
      BY DEF Signal
    <2>2. QED BY <2>1, LenProperties, AppendProperties
  <1> HIDE DEF n, m, p, r
  <1>2. /\ \A i \in 1..n : f[i] \in 1..m /\ s[f[i]].by = "daemon" /\ s[f[i]].value = q[i]
        /\ \A i, k \in 1..n : i < k => f[i] < f[k]
        /\ \A i \in 1..n, j \in 1..m :
             s[j].by = "daemon" /\ f[i] < j => \E k \in 1..n : f[k] = j
    BY DEF Fits, n, m
  <1>3. (\A i \in 1..n : g[i] = f[i]) /\ g[n+1] = m+1
    BY <1>1 DEF n, m
  <1>4. \A i \in 1..(n+1) : i \in 1..n \/ i = n+1
    BY <1>1
  <1>5. g \in [1..(n+1) -> 1..(m+1)]
    <2>1. ASSUME NEW i \in 1..(n+1) PROVE g[i] \in 1..(m+1)
      <3>1. CASE i \in 1..n
        <4>1. g[i] = f[i] /\ f[i] \in 1..m
          BY <1>2, <1>3, <3>1
        <4>2. QED BY <1>1, <4>1
      <3>2. CASE i = n+1
        BY <1>1, <1>3, <3>2
      <3>3. QED BY <1>4, <3>1, <3>2
    <2>2. QED BY <2>1 DEF n, m
  <1>6. \A i \in 1..(n+1) : r[g[i]].by = "daemon" /\ r[g[i]].value = p[i]
    <2> TAKE i \in 1..(n+1)
    <2>1. CASE i \in 1..n
      <3>1. g[i] = f[i] /\ f[i] \in 1..m /\ p[i] = q[i] /\ r[f[i]] = s[f[i]]
        BY <1>1, <1>2, <1>3, <2>1
      <3>2. QED BY <1>2, <2>1, <3>1
    <2>2. CASE i = n+1
      BY <1>1, <1>3, <2>2
    <2>3. QED BY <1>4, <2>1, <2>2
  <1>7. \A i, k \in 1..(n+1) : i < k => g[i] < g[k]
    <2> TAKE i, k \in 1..(n+1)
    <2>1. CASE i \in 1..n /\ k \in 1..n
      BY <1>2, <1>3, <2>1
    <2>2. CASE i \in 1..n /\ k = n+1
      <3>1. g[i] = f[i] /\ f[i] \in 1..m /\ g[k] = m+1
        BY <1>2, <1>3, <2>2
      <3>2. QED BY <1>1, <3>1
    <2>3. CASE i = n+1
      BY <1>1, <2>3
    <2>4. QED BY <1>4, <2>1, <2>2, <2>3
  <1>8. \A i \in 1..(n+1), j \in 1..(m+1) :
          r[j].by = "daemon" /\ g[i] < j => \E k \in 1..(n+1) : g[k] = j
    <2> SUFFICES ASSUME NEW i \in 1..(n+1), NEW j \in 1..(m+1), r[j].by = "daemon", g[i] < j
                 PROVE  \E k \in 1..(n+1) : g[k] = j
      OBVIOUS
    <2>1. CASE j = m+1
      <3>1. n+1 \in 1..(n+1) /\ g[n+1] = j
        BY <1>1, <1>3, <2>1
      <3>2. QED BY <3>1
    <2>2. CASE j \in 1..m
      <3>1. i \in 1..n
        <4>1. i = n+1 => g[i] = m+1
          BY <1>3
        <4>2. m+1 < j => FALSE
          BY <1>1, <2>2
        <4>3. QED BY <1>4, <4>1, <4>2
      <3>2. s[j].by = "daemon" /\ f[i] < j
        <4>1. r[j] = s[j] /\ g[i] = f[i]
          BY <1>1, <1>3, <2>2, <3>1
        <4>2. QED BY <4>1
      <3>3. PICK k \in 1..n : f[k] = j
        BY <1>2, <2>2, <3>1, <3>2
      <3>4. k \in 1..(n+1)
        BY <1>1
      <3>5. g[k] = j
        BY <1>3, <3>3
      <3>6. QED BY <3>4, <3>5
    <2>3. j \in 1..m \/ j = m+1
      BY <1>1
    <2>4. QED BY <2>1, <2>2, <2>3
  <1>9. QED BY <1>1, <1>5, <1>6, <1>7, <1>8 DEF Fits, p, r

\* Somebody else writes.
LEMMA FitsNews ==
  ASSUME NEW q \in Seq(Level), NEW s \in Seq(Signal), NEW x \in Signal, x.by = "others",
         NEW f \in [1..Len(q) -> 1..Len(s)], Fits(q, s, f)
  PROVE  f \in [1..Len(q) -> 1..Len(Append(s, x))] /\ Fits(q, Append(s, x), f)
  <1> DEFINE n == Len(q)
             m == Len(s)
             r == Append(s, x)
  <1>1. /\ n \in Nat
        /\ m \in Nat /\ Len(r) = m + 1 /\ r[m+1] = x /\ \A i \in 1..m : r[i] = s[i]
    BY LenProperties, AppendProperties
  <1> HIDE DEF n, m, r
  <1>2. /\ \A i \in 1..n : f[i] \in 1..m /\ s[f[i]].by = "daemon" /\ s[f[i]].value = q[i]
        /\ \A i, k \in 1..n : i < k => f[i] < f[k]
        /\ \A i \in 1..n, j \in 1..m :
             s[j].by = "daemon" /\ f[i] < j => \E k \in 1..n : f[k] = j
    BY DEF Fits, n, m
  <1>3. f \in [1..n -> 1..(m+1)]
    BY <1>1, <1>2 DEF n
  <1>4. \A i \in 1..n : r[f[i]] = s[f[i]]
    BY <1>1, <1>2
  <1>5. \A i \in 1..n, j \in 1..(m+1) :
          r[j].by = "daemon" /\ f[i] < j => \E k \in 1..n : f[k] = j
    <2> SUFFICES ASSUME NEW i \in 1..n, NEW j \in 1..(m+1), r[j].by = "daemon", f[i] < j
                 PROVE  \E k \in 1..n : f[k] = j
      OBVIOUS
    <2>1. j \in 1..m
      BY <1>1
    <2>2. QED BY <1>1, <1>2, <2>1
  <1>6. QED BY <1>1, <1>2, <1>3, <1>4, <1>5 DEF Fits, n, r

LEMMA MatchedEcho ==
  ASSUME NEW q \in Seq(Level), NEW s \in Seq(Signal), NEW firm, Matched(q, s, firm),
         q # <<>>, s # <<>>, Head(q) = Head(s).value
  PROVE  Matched(Tail(q), Tail(s), firm)
  <1> USE LevelNat
  <1>1. PICK f \in [1..Len(q) -> 1..Len(s)] : Fits(q, s, f) /\ (firm => Sound(q, s, f))
    BY DEF Matched
  <1> DEFINE g == [i \in 1..(Len(q) - 1) |-> f[i+1] - 1]
  <1>2. g \in [1..Len(Tail(q)) -> 1..Len(Tail(s))] /\ Fits(Tail(q), Tail(s), g)
    BY <1>1, FitsEcho
  <1>3. ASSUME firm PROVE Sound(Tail(q), Tail(s), g)
    <2> DEFINE n == Len(q)
               m == Len(s)
    <2>1. /\ n \in Nat \ {0} /\ Len(Tail(q)) = n - 1 /\ Head(q) = q[1]
          /\ m \in Nat \ {0} /\ Len(Tail(s)) = m - 1 /\ Head(s) = s[1]
          /\ \A i \in 1..(m-1) : Tail(s)[i] = s[i+1]
      BY TailFacts
    <2> HIDE DEF n, m
    <2>2. /\ \A i, j \in 1..m : i < j /\ s[i].by = "others" /\ s[j].by = "daemon" => s[j].value = 0
          /\ \A j \in 1..m : s[j].by = "daemon" /\ s[j].value > 0 => \E i \in 1..n : f[i] = j
      BY <1>1, <1>3 DEF Sound, n, m
    <2>3. 1 \in 1..n /\ 1 \in 1..m /\ f[1] \in 1..m /\ s[f[1]].by = "daemon" /\ s[f[1]].value = s[1].value
      BY <1>1, <2>1 DEF Fits, n, m
    <2>4. ASSUME NEW i \in 1..(m-1), NEW j \in 1..(m-1), i < j,
                 Tail(s)[i].by = "others", Tail(s)[j].by = "daemon"
          PROVE  Tail(s)[j].value = 0
      <3>1. i+1 \in 1..m /\ j+1 \in 1..m /\ i+1 < j+1 /\ Tail(s)[i] = s[i+1] /\ Tail(s)[j] = s[j+1]
        BY <2>1, <2>4
      <3>2. QED BY <2>2, <2>4, <3>1
    <2>5. ASSUME NEW j \in 1..(m-1), Tail(s)[j].by = "daemon", Tail(s)[j].value > 0
          PROVE  \E i \in 1..(n-1) : g[i] = j
      <3>1. j+1 \in 1..m /\ s[j+1].by = "daemon" /\ s[j+1].value > 0
        BY <2>1, <2>5
      <3>2. PICK i \in 1..n : f[i] = j+1
        BY <2>2, <3>1
      <3>3. i # 1
        <4> SUFFICES ASSUME i = 1 PROVE FALSE
          OBVIOUS
        <4>1. s[1] \in Signal /\ s[1].value = s[j+1].value /\ s[1].by \in {"daemon", "others"}
          <5>1. s[1] \in Signal
            BY <2>3, ElementOfSeq DEF m
          <5>2. s[1].by \in {"daemon", "others"}
            BY <5>1 DEF Signal
          <5>3. s[1].value = s[j+1].value
            BY <2>3, <3>2
          <5>4. QED BY <5>1, <5>2, <5>3
        <4>2. CASE s[1].by = "daemon"
          <5>1. PICK k \in 1..n : f[k] = 1
            BY <2>2, <2>3, <3>1, <4>1, <4>2
          <5>2. k # 1
            BY <2>1, <3>2, <5>1
          <5>3. f[1] < f[k]
            BY <1>1, <2>1, <2>3, <5>2 DEF Fits, n
          <5>4. QED BY <2>1, <3>2, <5>1, <5>3
        <4>3. CASE s[1].by = "others"
          <5>1. 1 < j+1
            BY <2>1
          <5>2. s[j+1].value = 0
            BY <2>2, <2>3, <3>1, <4>3, <5>1
          <5>3. QED BY <3>1, <5>2
        <4>4. QED BY <4>1, <4>2, <4>3
      <3>4. i-1 \in 1..(n-1) /\ (i-1)+1 = i
        BY <2>1, <3>3
      <3>5. g[i-1] = f[(i-1)+1] - 1
        BY <3>4 DEF n
      <3>6. g[i-1] = j
        BY <3>2, <3>4, <3>5
      <3>7. QED BY <3>4, <3>6
    <2>6. QED BY <2>1, <2>4, <2>5 DEF Sound
  <1>4. QED BY <1>2, <1>3 DEF Matched

LEMMA MatchedSkip ==
  ASSUME NEW q \in Seq(Level), NEW s \in Seq(Signal), NEW firm, Matched(q, s, firm),
         s # <<>>, ~(q # <<>> /\ Head(q) = Head(s).value)
  PROVE  Matched(q, Tail(s), firm)
  <1> USE LevelNat
  <1>1. PICK f \in [1..Len(q) -> 1..Len(s)] : Fits(q, s, f) /\ (firm => Sound(q, s, f))
    BY DEF Matched
  <1> DEFINE n == Len(q)
             m == Len(s)
             g == [i \in 1..Len(q) |-> f[i] - 1]
  <1>2. /\ n \in Nat /\ (q # <<>> => n > 0 /\ Head(q) = q[1]) /\ (q = <<>> => n = 0)
        /\ m \in Nat \ {0} /\ Len(Tail(s)) = m - 1 /\ Head(s) = s[1]
        /\ \A i \in 1..(m-1) : Tail(s)[i] = s[i+1]
    BY TailFacts, EmptySeq, LenProperties
  <1> HIDE DEF n, m
  <1>3. \A i \in 1..n : f[i] # 1
    <2> SUFFICES ASSUME NEW i \in 1..n, f[i] = 1 PROVE FALSE
      OBVIOUS
    <2>1. i = 1
      <3> SUFFICES ASSUME i # 1 PROVE FALSE
        OBVIOUS
      <3>1. 1 \in 1..n /\ 1 < i
        BY <1>2
      <3>2. f[1] < f[i] /\ f[1] \in 1..m
        BY <1>1, <3>1 DEF Fits, n, m
      <3>3. QED BY <1>2, <3>2
    <2>2. s[1].value = q[1]
      BY <1>1, <2>1 DEF Fits, n
    <2>3. QED BY <1>2, <2>2
  <1>4. g \in [1..n -> 1..Len(Tail(s))] /\ Fits(q, Tail(s), g)
    BY <1>1, <1>3, FitsSkip DEF n
  <1>5. ASSUME firm PROVE Sound(q, Tail(s), g)
    <2>1. /\ \A i, j \in 1..m : i < j /\ s[i].by = "others" /\ s[j].by = "daemon" => s[j].value = 0
          /\ \A j \in 1..m : s[j].by = "daemon" /\ s[j].value > 0 => \E i \in 1..n : f[i] = j
      BY <1>1, <1>5 DEF Sound, n, m
    <2>2. ASSUME NEW i \in 1..(m-1), NEW j \in 1..(m-1), i < j,
                 Tail(s)[i].by = "others", Tail(s)[j].by = "daemon"
          PROVE  Tail(s)[j].value = 0
      <3>1. i+1 \in 1..m /\ j+1 \in 1..m /\ i+1 < j+1 /\ Tail(s)[i] = s[i+1] /\ Tail(s)[j] = s[j+1]
        BY <1>2, <2>2
      <3>2. QED BY <2>1, <2>2, <3>1
    <2>3. ASSUME NEW j \in 1..(m-1), Tail(s)[j].by = "daemon", Tail(s)[j].value > 0
          PROVE  \E i \in 1..n : g[i] = j
      <3>1. j+1 \in 1..m /\ s[j+1].by = "daemon" /\ s[j+1].value > 0
        BY <1>2, <2>3
      <3>2. PICK i \in 1..n : f[i] = j+1
        BY <2>1, <3>1
      <3>3. g[i] = f[i] - 1
        BY DEF n
      <3>4. g[i] = j
        BY <3>2, <3>3
      <3>5. QED BY <3>4
    <2>4. QED BY <1>2, <2>2, <2>3 DEF Sound, n
  <1>6. QED BY <1>4, <1>5 DEF Matched, n

LEMMA MatchedWritten ==
  ASSUME NEW q \in Seq(Level), NEW s \in Seq(Signal), NEW x \in Signal, x.by = "daemon",
         NEW firm, Matched(q, s, firm),
         NEW firmer, firmer => firm /\ (x.value = 0 \/ ~News(s))
  PROVE  Matched(Append(q, x.value), Append(s, x), firmer)
  <1> USE LevelNat
  <1>1. PICK f \in [1..Len(q) -> 1..Len(s)] : Fits(q, s, f) /\ (firm => Sound(q, s, f))
    BY DEF Matched
  <1> DEFINE n == Len(q)
             m == Len(s)
             p == Append(q, x.value)
             r == Append(s, x)
             g == [i \in 1..(Len(q) + 1) |-> IF i <= Len(q) THEN f[i] ELSE Len(s) + 1]
  <1>2. g \in [1..Len(p) -> 1..Len(r)] /\ Fits(p, r, g)
    BY <1>1, FitsWritten
  <1>3. /\ n \in Nat /\ Len(p) = n + 1
        /\ m \in Nat /\ Len(r) = m + 1 /\ r[m+1] = x /\ \A i \in 1..m : r[i] = s[i]
    <2>1. x.value \in Level
      BY DEF Signal
    <2>2. QED BY <2>1, LenProperties, AppendProperties
  <1>4. (\A i \in 1..n : g[i] = f[i] /\ i \in 1..(n+1)) /\ g[n+1] = m+1 /\ n+1 \in 1..(n+1)
    BY <1>3
  <1> HIDE DEF n, m, p, r, g
  <1>5. ASSUME firmer PROVE Sound(p, r, g)
    <2>1. /\ \A i, j \in 1..m : i < j /\ s[i].by = "others" /\ s[j].by = "daemon" => s[j].value = 0
          /\ \A j \in 1..m : s[j].by = "daemon" /\ s[j].value > 0 => \E i \in 1..n : f[i] = j
      BY <1>1, <1>5 DEF Sound, n, m
    <2>2. ASSUME NEW i \in 1..(m+1), NEW j \in 1..(m+1), i < j, r[i].by = "others", r[j].by = "daemon"
          PROVE  r[j].value = 0
      <3>1. i \in 1..m
        BY <1>3, <2>2
      <3>2. CASE j \in 1..m
        BY <1>3, <2>1, <2>2, <3>1, <3>2
      <3>3. CASE j = m+1
        <4>1. s[i].by = "others"
          BY <1>3, <2>2, <3>1
        <4>2. News(s)
          BY <3>1, <4>1 DEF News, m
        <4>3. QED BY <1>3, <1>5, <3>3, <4>2
      <3>4. QED BY <1>3, <3>2, <3>3
    <2>3. ASSUME NEW j \in 1..(m+1), r[j].by = "daemon", r[j].value > 0
          PROVE  \E i \in 1..(n+1) : g[i] = j
      <3>1. CASE j \in 1..m
        <4>1. PICK i \in 1..n : f[i] = j
          BY <1>3, <2>1, <2>3, <3>1
        <4>2. g[i] = j /\ i \in 1..(n+1)
          BY <1>4, <4>1
        <4>3. QED BY <4>2
      <3>2. CASE j = m+1
        BY <1>4, <3>2
      <3>3. QED BY <1>3, <3>1, <3>2
    <2>4. QED BY <1>3, <2>2, <2>3 DEF Sound
  <1>6. QED BY <1>2, <1>5 DEF Matched, p, r

LEMMA MatchedNews ==
  ASSUME NEW q \in Seq(Level), NEW s \in Seq(Signal), NEW x \in Signal, x.by = "others",
         NEW firm, Matched(q, s, firm)
  PROVE  Matched(q, Append(s, x), firm)
  <1> USE LevelNat
  <1>1. PICK f \in [1..Len(q) -> 1..Len(s)] : Fits(q, s, f) /\ (firm => Sound(q, s, f))
    BY DEF Matched
  <1> DEFINE n == Len(q)
             m == Len(s)
             r == Append(s, x)
  <1>2. f \in [1..n -> 1..Len(r)] /\ Fits(q, r, f)
    BY <1>1, FitsNews
  <1>3. /\ n \in Nat
        /\ m \in Nat /\ Len(r) = m + 1 /\ r[m+1] = x /\ \A i \in 1..m : r[i] = s[i]
    BY LenProperties, AppendProperties
  <1> HIDE DEF n, m, r
  <1>4. ASSUME firm PROVE Sound(q, r, f)
    <2>1. /\ \A i, j \in 1..m : i < j /\ s[i].by = "others" /\ s[j].by = "daemon" => s[j].value = 0
          /\ \A j \in 1..m : s[j].by = "daemon" /\ s[j].value > 0 => \E i \in 1..n : f[i] = j
      BY <1>1, <1>4 DEF Sound, n, m
    <2>2. ASSUME NEW i \in 1..(m+1), NEW j \in 1..(m+1), i < j, r[i].by = "others", r[j].by = "daemon"
          PROVE  r[j].value = 0
      <3>1. j # m+1
        BY <1>3, <2>2
      <3>2. i \in 1..m /\ j \in 1..m
        BY <1>3, <2>2, <3>1
      <3>3. QED BY <1>3, <2>1, <2>2, <3>2
    <2>3. ASSUME NEW j \in 1..(m+1), r[j].by = "daemon", r[j].value > 0
          PROVE  \E i \in 1..n : f[i] = j
      <3>1. j # m+1
        BY <1>3, <2>3
      <3>2. j \in 1..m
        BY <1>3, <3>1
      <3>3. QED BY <1>3, <2>1, <2>3, <3>2
    <2>4. QED BY <1>3, <2>2, <2>3 DEF Sound, n
  <1>5. QED BY <1>2, <1>4 DEF Matched, n, r

LEMMA MatchedWeaker ==
  ASSUME NEW q, NEW s, NEW firm, Matched(q, s, firm), NEW firmer, firmer => firm
  PROVE  Matched(q, s, firmer)
  BY DEF Matched

LEMMA MatchedNothing == ASSUME NEW firm PROVE Matched(<<>>, <<>>, firm)
  <1> DEFINE f == [i \in 1..Len(<<>>) |-> i]
  <1>1. Len(<<>>) = 0 /\ 1..0 = {}
    OBVIOUS
  <1>2. f \in [1..Len(<<>>) -> 1..Len(<<>>)]
    OBVIOUS
  <1>3. Fits(<<>>, <<>>, f) /\ Sound(<<>>, <<>>, f)
    BY <1>1 DEF Fits, Sound
  <1>4. QED BY <1>2, <1>3 DEF Matched

-----------------------------------------------------------------------------
(* The queue stays in step *)

Echo(v) == [value |-> v, source |-> "external", by |-> "daemon"]

LEMMA SetMatched ==
  ASSUME TypeOK, NEW v \in Level, NEW signals \in Seq(Signal),
         Matched(own, signals, ~astray), Set(v, signals)
  PROVE  Matched(own', bus', ~astray')
  <1>1. CASE /\ bus' = Append(signals, Echo(v))
             /\ own' = Append(own, v)
             /\ astray' = (astray \/ (v > 0 /\ News(signals)))
    <2>1. Echo(v) \in Signal /\ Echo(v).by = "daemon" /\ Echo(v).value = v
      BY DEF Signal, Echo
    <2>2. ~astray' => ~astray /\ ~(v > 0 /\ News(signals))
      BY <1>1, Zenon
    <2>3. v > 0 \/ v = 0
      BY LevelNat
    <2>4. ~astray' => ~astray /\ (Echo(v).value = 0 \/ ~News(signals))
      BY <2>1, <2>2, <2>3
    <2>5. own \in Seq(Level)
      BY DEF TypeOK
    <2>6. Matched(Append(own, Echo(v).value), Append(signals, Echo(v)), ~astray')
      BY <2>1, <2>4, <2>5, MatchedWritten
    <2>7. QED BY <1>1, <2>1, <2>6, Zenon
  <1>2. CASE bus' = signals /\ own' = own /\ astray' = astray
    BY <1>2, Zenon
  <1>3. QED BY <1>1, <1>2, Zenon DEF Set, Echo

LEMMA WriteMatched ==
  ASSUME TypeOK, QueueInv, NEW v \in Level, NEW source \in {"internal", "external"},
         Write(v, source)
  PROVE  QueueInv'
  <1> DEFINE x == [value |-> v, source |-> source, by |-> "others"]
  <1>1. x \in Signal /\ x.by = "others"
    BY DEF Signal
  <1>2. UNCHANGED <<pc, own, astray>>
    BY DEF Write, daemon
  <1>3. CASE Running
    <2>1. bus' = Append(bus, x)
      BY <1>3 DEF Write, Broadcast
    <2>2. Matched(own, Append(bus, x), ~astray)
      BY <1>1, <1>3, MatchedNews DEF QueueInv, TypeOK
    <2>3. QED BY <1>2, <2>1, <2>2, Zenon DEF QueueInv
  <1>4. CASE ~Running
    BY <1>2, <1>4 DEF QueueInv, Running
  <1>5. QED BY <1>3, <1>4

LEMMA ChangedMatched == ASSUME TypeOK, QueueInv, OnChanged PROVE QueueInv'
  <1> DEFINE v == Head(bus).value
             key == Head(bus).source = "internal"
             echo == own # <<>> /\ Head(own) = v
  <1>1. Tail(bus) \in Seq(Signal) /\ bus \in Seq(Signal) /\ bus # <<>> /\ own \in Seq(Level) /\ level \in Level
    BY TailFacts DEF OnChanged, TypeOK
  <1>2. Matched(own, bus, ~astray)
    BY DEF OnChanged, QueueInv, Running
  <1>3. CASE echo /\ own' = Tail(own) /\ bus' = Tail(bus) /\ astray' = (astray \/ key)
    <2>1. Matched(Tail(own), Tail(bus), ~astray)
      BY <1>1, <1>2, <1>3, MatchedEcho
    <2>2. ~astray' => ~astray
      BY <1>3, Zenon
    <2>3. Matched(Tail(own), Tail(bus), ~astray')
      BY <2>1, <2>2, MatchedWeaker
    <2>4. QED BY <1>3, <2>3, Zenon DEF QueueInv
  <1>4. ASSUME ~echo PROVE Matched(own, Tail(bus), ~astray)
    BY <1>1, <1>2, <1>4, MatchedSkip
  <1>5. CASE ~echo /\ UNCHANGED <<own, astray>> /\ bus' = Tail(bus)
    BY <1>4, <1>5, Zenon DEF QueueInv
  <1>6. CASE ~echo /\ Set(level, Tail(bus))
    BY <1>1, <1>4, <1>6, SetMatched DEF QueueInv
  <1>7. QED BY <1>3, <1>5, <1>6 DEF OnChanged, ChangedDimmed

LEMMA QueueStep == ASSUME TypeOK, QueueInv, [Next]_vars PROVE QueueInv'
  <1> USE LevelNat
  <1>1. ASSUME NEW v \in Level, FnKey(v) \/ Slider(v) PROVE QueueInv'
    <2>1. PICK source \in {"internal", "external"} : Write(v, source)
      BY <1>1 DEF FnKey, Slider
    <2>2. QED BY <2>1, WriteMatched
  <1>2. CASE KdeDims
    BY <1>2, WriteMatched DEF KdeDims
  <1>3. CASE KdeRestores
    BY <1>3, WriteMatched DEF KdeRestores, TypeOK
  <1>4. ASSUME UNCHANGED <<own, bus, astray>>, Running' => Running PROVE QueueInv'
    BY <1>4, Zenon DEF QueueInv
  <1>5. CASE InputStops \/ InputReturns \/ OnIdleFails \/ ReassertExpires
    BY <1>4, <1>5 DEF InputStops, InputReturns, OnIdleFails, ReassertExpires, daemon, Running
  <1>6. CASE OnIdle
    BY <1>4, <1>6 DEF OnIdle, Running
  <1>7. CASE Exit \/ Stop
    BY <1>7 DEF Exit, Stop, QueueInv, Running
  <1>8. CASE TurnOff
    BY <1>8, SetMatched DEF TurnOff, TypeOK, QueueInv, Running
  <1>9. CASE OnResume
    <2>1. CASE dimmed
      BY <1>9, <2>1, SetMatched DEF OnResume, TypeOK, QueueInv, Running
    <2>2. CASE ~dimmed
      BY <1>4, <1>9, <2>2 DEF OnResume, Running
    <2>3. QED BY <2>1, <2>2
  <1>10. CASE OnChanged
    BY <1>10, ChangedMatched
  <1>11. CASE Start
    BY <1>11, MatchedNothing DEF Start, QueueInv
  <1>12. CASE UNCHANGED vars
    BY <1>4, <1>12 DEF vars, daemon, Running
  <1>13. QED
    BY <1>1, <1>2, <1>3, <1>5, <1>6, <1>7, <1>8, <1>9, <1>10, <1>11, <1>12 DEF Next

LEMMA QueueInit == Init => QueueInv
  BY MatchedNothing DEF Init, QueueInv

\* The queue of own writes never gets out of step for good: whatever the key, the other
\* programs and KDE write in between, and whichever writes fail, its entries are the
\* last of the daemon's writes whose echoes are still to come, in their order.
THEOREM QueueKeepsStep == Spec => []QueueInStep
  <1>1. Init => QueueInv
    BY QueueInit
  <1>2. TypeOK /\ QueueInv /\ [Next]_vars => QueueInv'
    BY QueueStep
  <1>3. QueueInv => QueueInStep
    BY DEF QueueInv, QueueInStep, Matched
  <1>4. QED BY <1>1, <1>2, <1>3, DaemonTypeCorrect, PTL DEF Spec

-----------------------------------------------------------------------------
(* The level to come back to *)

LEMMA TailChoice ==
  ASSUME NEW s \in Seq(Signal), s # <<>>, NEW w
  PROVE  /\ LastSays(s, w) => LastSays(Tail(s), w)
         /\ Heard(Tail(s)) /\ ~Choice(Head(s)) => Heard(s)
         /\ Heard(s) => Heard(Tail(s)) /\ ~Choice(Head(s))
         /\ Heard(Tail(s)) /\ Choice(Head(s)) /\ LastSays(s, w) => Head(s).value = w
  <1> DEFINE m == Len(s)
             t == Tail(s)
  <1>1. /\ m \in Nat \ {0} /\ Head(s) = s[1]
        /\ Len(t) = m - 1 /\ \A i \in 1..(m-1) : t[i] = s[i+1]
    BY TailFacts
  <1> HIDE DEF m, t
  <1>2. 1 \in 1..m /\ \A i \in 1..m : i # 1 => i-1 \in 1..(m-1) /\ t[i-1] = s[i]
    <2>1. ASSUME NEW i \in 1..m, i # 1 PROVE i-1 \in 1..(m-1) /\ t[i-1] = s[i]
      <3>1. i-1 \in 1..(m-1) /\ (i-1)+1 = i
        BY <1>1, <2>1
      <3>2. t[i-1] = s[(i-1)+1]
        BY <1>1, <3>1
      <3>3. QED BY <3>1, <3>2
    <2>2. QED BY <1>1, <2>1
  <1>3. ASSUME LastSays(s, w) PROVE LastSays(t, w)
    <2> SUFFICES ASSUME NEW j \in 1..(m-1), Choice(t[j]), \A k \in (j+1)..(m-1) : ~Choice(t[k])
                 PROVE  t[j].value = w
      BY <1>1 DEF LastSays
    <2>1. j+1 \in 1..m /\ t[j] = s[j+1]
      BY <1>1
    <2>2. ASSUME NEW k \in ((j+1)+1)..m PROVE ~Choice(s[k])
      <3>1. k \in 1..m /\ k # 1 /\ k-1 \in (j+1)..(m-1)
        BY <1>1, <2>2
      <3>2. QED BY <1>2, <3>1
    <2>3. QED BY <1>3, <2>1, <2>2 DEF LastSays, m
  <1>4. ASSUME Heard(t), ~Choice(s[1]) PROVE Heard(s)
    <2>1. ASSUME NEW i \in 1..m PROVE ~Choice(s[i])
      BY <1>1, <1>2, <1>4 DEF Heard
    <2>2. QED BY <2>1 DEF Heard, m
  <1>5. ASSUME Heard(s) PROVE Heard(t) /\ ~Choice(s[1])
    <2>1. ASSUME NEW i \in 1..(m-1) PROVE ~Choice(t[i])
      <3>1. i+1 \in 1..m /\ t[i] = s[i+1]
        BY <1>1
      <3>2. QED BY <1>5, <3>1 DEF Heard, m
    <2>2. QED BY <1>1, <1>2, <1>5, <2>1 DEF Heard, m
  <1>6. ASSUME Heard(t), Choice(s[1]), LastSays(s, w) PROVE s[1].value = w
    <2>1. ASSUME NEW k \in (1+1)..m PROVE ~Choice(s[k])
      <3>1. k \in 1..m /\ k # 1
        BY <1>1
      <3>2. k-1 \in 1..(m-1) /\ t[k-1] = s[k]
        BY <1>2, <3>1
      <3>3. QED BY <1>1, <1>6, <3>2 DEF Heard
    <2>2. QED BY <1>2, <1>6, <2>1 DEF LastSays, m
  <1>7. QED BY <1>1, <1>3, <1>4, <1>5, <1>6 DEF t

LEMMA AppendChoice ==
  ASSUME NEW s \in Seq(Signal), NEW x \in Signal, NEW w
  PROVE  /\ Choice(x) => LastSays(Append(s, x), x.value)
         /\ ~Choice(x) /\ LastSays(s, w) => LastSays(Append(s, x), w)
         /\ Heard(Append(s, x)) <=> Heard(s) /\ ~Choice(x)
  <1> DEFINE m == Len(s)
             r == Append(s, x)
  <1>1. /\ m \in Nat /\ Len(r) = m + 1 /\ r[m+1] = x /\ \A i \in 1..m : r[i] = s[i]
    BY LenProperties, AppendProperties
  <1> HIDE DEF m, r
  <1>2. m+1 \in 1..(m+1) /\ \A i \in 1..(m+1) : i \in 1..m \/ i = m+1
    BY <1>1
  <1>3. ASSUME Choice(x) PROVE LastSays(r, x.value)
    <2> SUFFICES ASSUME NEW j \in 1..(m+1), Choice(r[j]), \A k \in (j+1)..(m+1) : ~Choice(r[k])
                 PROVE  r[j].value = x.value
      BY <1>1 DEF LastSays
    <2>1. CASE j \in 1..m
      <3>1. m+1 \in (j+1)..(m+1)
        BY <1>1, <2>1
      <3>2. QED BY <1>1, <1>3, <3>1
    <2>2. QED BY <1>1, <1>2, <2>1
  <1>4. ASSUME ~Choice(x), LastSays(s, w) PROVE LastSays(r, w)
    <2> SUFFICES ASSUME NEW j \in 1..(m+1), Choice(r[j]), \A k \in (j+1)..(m+1) : ~Choice(r[k])
                 PROVE  r[j].value = w
      BY <1>1 DEF LastSays
    <2>1. j \in 1..m
      BY <1>1, <1>2, <1>4
    <2>2. \A k \in (j+1)..m : ~Choice(s[k])
      <3> SUFFICES ASSUME NEW k \in (j+1)..m PROVE ~Choice(s[k])
        OBVIOUS
      <3>1. k \in 1..m /\ k \in (j+1)..(m+1)
        BY <1>1, <2>1
      <3>2. QED BY <1>1, <3>1
    <2>3. QED BY <1>1, <1>4, <2>1, <2>2 DEF LastSays, m
  <1>5. Heard(r) <=> Heard(s) /\ ~Choice(x)
    <2>1. ASSUME Heard(r) PROVE Heard(s) /\ ~Choice(x)
      <3>1. \A i \in 1..(m+1) : ~Choice(r[i])
        BY <1>1, <2>1 DEF Heard
      <3>2. \A i \in 1..m : i \in 1..(m+1)
        BY <1>1
      <3>3. QED BY <1>1, <1>2, <3>1, <3>2 DEF Heard, m
    <2>2. ASSUME Heard(s), ~Choice(x) PROVE Heard(r)
      <3>1. \A i \in 1..m : ~Choice(s[i])
        BY <2>2 DEF Heard, m
      <3>2. \A i \in 1..(m+1) : ~Choice(r[i])
        BY <1>1, <1>2, <2>2, <3>1
      <3>3. QED BY <1>1, <3>2 DEF Heard
    <2>3. QED BY <2>1, <2>2
  <1>6. QED BY <1>3, <1>4, <1>5 DEF r

LEMMA NoNewsHeard == ASSUME NEW signals, ~News(signals) PROVE Heard(signals)
  BY DEF News, Heard, Choice

\* While the daemon is not astray it takes its own light for its own,
LEMMA OwnLightKnown ==
  ASSUME NEW q \in Seq(Level), NEW s \in Seq(Signal), Matched(q, s, TRUE), s # <<>>,
         Head(s).by = "daemon", Head(s).value > 0
  PROVE  q # <<>> /\ Head(q) = Head(s).value
  <1>1. PICK f \in [1..Len(q) -> 1..Len(s)] : Fits(q, s, f) /\ Sound(q, s, f)
    BY DEF Matched
  <1>2. Len(s) \in Nat \ {0} /\ Head(s) = s[1] /\ 1 \in 1..Len(s)
    BY TailFacts
  <1>3. PICK i \in 1..Len(q) : f[i] = 1
    BY <1>1, <1>2 DEF Sound
  <1>4. Len(q) \in Nat
    BY LenProperties
  <1>5. i = 1
    <2> SUFFICES ASSUME i # 1 PROVE FALSE
      OBVIOUS
    <2>1. 1 \in 1..Len(q) /\ 1 < i
      BY <1>4
    <2>2. f[1] < f[i] /\ f[1] \in 1..Len(s)
      BY <1>1, <2>1 DEF Fits
    <2>3. QED BY <1>2, <1>3, <2>2
  <1>6. q # <<>>
    BY <1>3, EmptySeq
  <1>7. Head(q) = q[1]
    BY <1>6, TailFacts
  <1>8. s[f[1]].value = q[1]
    BY <1>1, <1>3, <1>5 DEF Fits
  <1>9. QED BY <1>2, <1>3, <1>5, <1>6, <1>7, <1>8

\* and nothing that another program lit.
LEMMA OtherLightKnown ==
  ASSUME NEW q \in Seq(Level), NEW s \in Seq(Signal), Matched(q, s, TRUE), s # <<>>,
         q # <<>>, Head(q) = Head(s).value, Head(s).source # "internal"
  PROVE  ~Choice(Head(s))
  <1> SUFFICES ASSUME Head(s).by = "others", Head(s).value > 0 PROVE FALSE
    BY DEF Choice
  <1>1. PICK f \in [1..Len(q) -> 1..Len(s)] : Fits(q, s, f) /\ Sound(q, s, f)
    BY DEF Matched
  <1>2. Len(s) \in Nat \ {0} /\ Head(s) = s[1] /\ 1 \in 1..Len(s)
    BY TailFacts
  <1>3. Len(q) \in Nat \ {0} /\ Head(q) = q[1] /\ 1 \in 1..Len(q)
    BY TailFacts
  <1>4. f[1] \in 1..Len(s) /\ s[f[1]].by = "daemon" /\ s[f[1]].value = q[1]
    BY <1>1, <1>3 DEF Fits
  <1>5. f[1] # 1
    BY <1>2, <1>4
  <1>6. 1 < f[1]
    BY <1>2, <1>4, <1>5
  <1>7. s[f[1]].value = 0
    BY <1>1, <1>2, <1>4, <1>6 DEF Sound
  <1>8. QED BY <1>2, <1>3, <1>4, <1>7

\* What Set does to a level that was right.
LEMMA SetLevel ==
  ASSUME TypeOK, NEW v \in Level, NEW signals \in Seq(Signal), Set(v, signals),
         lamp > 0 => lamp = chosen, LastSays(signals, chosen), UNCHANGED chosen,
         v > 0 /\ ~News(signals) => v = chosen, ~astray'
  PROVE  /\ lamp' > 0 => lamp' = chosen'
         /\ LastSays(bus', chosen')
         /\ Heard(bus') => Heard(signals)
  <1>1. CASE /\ lamp' = v
             /\ bus' = Append(signals, Echo(v))
             /\ astray' = (astray \/ (v > 0 /\ News(signals)))
    <2>1. Echo(v) \in Signal /\ ~Choice(Echo(v))
      BY DEF Signal, Echo, Choice
    <2>2. v > 0 => ~News(signals)
      BY <1>1, Zenon
    <2>3. LastSays(Append(signals, Echo(v)), chosen) /\ (Heard(Append(signals, Echo(v))) => Heard(signals))
      BY <2>1, AppendChoice
    <2>4. QED BY <1>1, <2>2, <2>3
  <1>2. CASE lamp' = lamp /\ bus' = signals
    BY <1>2
  <1>3. QED BY <1>1, <1>2, Zenon DEF Set, Echo

LEMMA WriteLevel ==
  ASSUME TypeOK, LevelInv, NEW v \in Level, NEW source \in {"internal", "external"},
         Write(v, source)
  PROVE  LevelInv'
  <1> DEFINE x == [value |-> v, source |-> source, by |-> "others"]
  <1> USE LevelNat
  <1>1. x \in Signal /\ x.value = v /\ (Choice(x) <=> v > 0 \/ source = "internal")
    BY DEF Signal, Choice
  <1>2. UNCHANGED <<pc, astray, level, dimmed, reassert>> /\ lamp' = v
        /\ chosen' = IF v > 0 \/ source = "internal" THEN v ELSE chosen
    BY DEF Write, daemon
  <1> SUFFICES ASSUME ~astray' PROVE LevelInv'
    BY DEF LevelInv
  <1>3. /\ lamp > 0 => lamp = chosen
        /\ Running => LastSays(bus, chosen)
        /\ Running /\ Heard(bus) /\ (dimmed \/ reassert) => level = chosen
    BY <1>2 DEF LevelInv
  <1>4. lamp' > 0 => lamp' = chosen'
    BY <1>2
  <1>5. CASE Running
    <2>1. bus' = Append(bus, x) /\ bus \in Seq(Signal)
      BY <1>5 DEF Write, Broadcast, TypeOK
    <2>2. LastSays(bus', chosen')
      <3>1. CASE Choice(x)
        <4>1. LastSays(Append(bus, x), x.value)
          BY <1>1, <2>1, <3>1, AppendChoice
        <4>2. QED BY <1>1, <1>2, <2>1, <3>1, <4>1
      <3>2. CASE ~Choice(x)
        <4>1. LastSays(Append(bus, x), chosen)
          BY <1>1, <1>3, <1>5, <2>1, <3>2, AppendChoice
        <4>2. QED BY <1>1, <1>2, <2>1, <3>2, <4>1
      <3>3. QED BY <3>1, <3>2
    <2>3. Heard(bus') => Heard(bus) /\ ~Choice(x)
      BY <1>1, <2>1, AppendChoice
    <2>4. Heard(bus') => chosen' = chosen
      BY <1>1, <1>2, <2>3
    <2>5. QED BY <1>2, <1>3, <1>4, <1>5, <2>2, <2>3, <2>4 DEF LevelInv
  <1>6. CASE ~Running
    BY <1>2, <1>4, <1>6 DEF LevelInv, Running
  <1>7. QED BY <1>5, <1>6

LEMMA ChangedLevel == ASSUME TypeOK, QueueInv, LevelInv, OnChanged PROVE LevelInv'
  <1> USE LevelNat
  <1> SUFFICES ASSUME ~astray' PROVE LevelInv'
    BY DEF LevelInv
  <1> DEFINE v == Head(bus).value
             key == Head(bus).source = "internal"
             echo == own # <<>> /\ Head(own) = v
  <1>1. /\ Tail(bus) \in Seq(Signal) /\ bus \in Seq(Signal) /\ bus # <<>> /\ own \in Seq(Level)
        /\ level \in Level /\ chosen \in Level
    BY TailFacts DEF OnChanged, TypeOK
  <1>2. Head(bus) \in Signal /\ v \in Level /\ Head(bus).by \in {"daemon", "others"}
    <2>1. Head(bus) \in Signal
      BY <1>1, HeadTailProperties
    <2>2. QED BY <2>1 DEF Signal
  <1>3. Running /\ UNCHANGED <<kde, input, chosen, seat, pc>>
    BY DEF OnChanged, Running
  <1>4. ~astray
    BY Zenon DEF OnChanged, ChangedDimmed, Set
  <1>5. /\ lamp > 0 => lamp = chosen
        /\ LastSays(bus, chosen)
        /\ Heard(bus) /\ (dimmed \/ reassert) => level = chosen
    BY <1>3, <1>4 DEF LevelInv
  <1>6. Matched(own, bus, TRUE)
    BY <1>3, <1>4 DEF QueueInv
  <1>7. LastSays(Tail(bus), chosen)
    BY <1>1, <1>5, TailChoice
  \* What is reported tells a level above 0 only if that is chosen.
  <1>8. ASSUME ~echo, v > 0, Heard(Tail(bus)) PROVE v = chosen
    <2>1. Head(bus).by = "others"
      BY <1>1, <1>2, <1>6, <1>8, OwnLightKnown
    <2>2. Choice(Head(bus))
      BY <1>8, <2>1 DEF Choice
    <2>3. QED BY <1>1, <1>5, <1>8, <2>2, TailChoice
  \* and a report of 0 that is not the key's is no choice.
  <1>9. ASSUME ~key, v = 0, Heard(Tail(bus)) PROVE Heard(bus)
    <2>1. ~Choice(Head(bus))
      BY <1>9 DEF Choice
    <2>2. QED BY <1>1, <1>9, <2>1, TailChoice
  <1>10. CASE /\ echo
              /\ bus' = Tail(bus)
              /\ astray' = (astray \/ key)
              /\ UNCHANGED <<lamp, level, dimmed, reassert>>
    <2>1. ~key
      BY <1>10, Zenon
    <2>2. ~Choice(Head(bus))
      BY <1>1, <1>6, <1>10, <2>1, OtherLightKnown
    <2>3. Heard(Tail(bus)) => Heard(bus)
      BY <1>1, <2>2, TailChoice
    <2>4. QED BY <1>3, <1>5, <1>7, <1>10, <2>3 DEF LevelInv
  <1>11. CASE bus' = Tail(bus) /\ UNCHANGED lamp /\ dimmed' = FALSE /\ reassert' = FALSE
    BY <1>3, <1>5, <1>7, <1>11 DEF LevelInv
  <1>12. CASE /\ ~echo /\ ~key /\ v = 0
              /\ bus' = Tail(bus)
              /\ UNCHANGED <<lamp, level, dimmed, reassert>>
    BY <1>3, <1>5, <1>7, <1>9, <1>12 DEF LevelInv
  <1>13. CASE /\ ~echo /\ v > 0 /\ level' = v
              /\ bus' = Tail(bus)
              /\ UNCHANGED lamp
    BY <1>3, <1>5, <1>7, <1>8, <1>13 DEF LevelInv
  <1>14. CASE /\ ~echo /\ ~key /\ ~dimmed /\ v = 0 /\ reassert
              /\ reassert' = FALSE
              /\ Set(level, Tail(bus))
              /\ UNCHANGED <<level, dimmed>>
    <2>1. ~News(Tail(bus)) => level = chosen
      BY <1>5, <1>9, <1>14, NoNewsHeard
    <2>2. (lamp' > 0 => lamp' = chosen') /\ LastSays(bus', chosen')
      BY <1>1, <1>3, <1>5, <1>7, <1>14, <2>1, SetLevel
    <2>3. QED BY <1>3, <1>14, <2>2 DEF LevelInv
  <1>15. CASE /\ ~echo /\ ~key /\ ~dimmed /\ v = 0 /\ ~reassert
              /\ bus' = Tail(bus)
              /\ UNCHANGED <<lamp, dimmed, reassert>>
    BY <1>3, <1>5, <1>7, <1>15 DEF LevelInv
  <1>16. v = 0 \/ v > 0
    <2>1. v \in Nat
      BY <1>2
    <2>2. QED BY <2>1
  <1>17. QED
    BY <1>10, <1>11, <1>12, <1>13, <1>14, <1>15, <1>16 DEF OnChanged, ChangedDimmed

LEMMA LevelStep == ASSUME TypeOK, QueueInv, LevelInv, [Next]_vars PROVE LevelInv'
  <1> USE LevelNat
  <1>1. ASSUME NEW v \in Level, FnKey(v) \/ Slider(v) PROVE LevelInv'
    <2>1. PICK source \in {"internal", "external"} : Write(v, source)
      BY <1>1 DEF FnKey, Slider
    <2>2. QED BY <2>1, WriteLevel
  <1>2. CASE KdeDims
    BY <1>2, WriteLevel DEF KdeDims
  <1>3. CASE KdeRestores
    BY <1>3, WriteLevel DEF KdeRestores, TypeOK
  <1>4. ASSUME UNCHANGED <<lamp, chosen, bus, level, dimmed, astray>>, Running' => Running,
               reassert' => reassert
        PROVE LevelInv'
    BY <1>4, Zenon DEF LevelInv
  <1>5. CASE InputStops \/ InputReturns \/ OnIdleFails \/ ReassertExpires
    BY <1>4, <1>5 DEF InputStops, InputReturns, OnIdleFails, ReassertExpires, daemon, others, Running
  <1>6. CASE OnIdle
    <2>1. CASE lamp > 0
      BY <1>6, <2>1 DEF OnIdle, others, LevelInv, Running
    <2>2. CASE lamp = 0
      BY <1>4, <1>6, <2>2 DEF OnIdle, others, Running
    <2>3. QED BY <1>6, <2>1, <2>2 DEF OnIdle
  <1>7. CASE Exit
    BY <1>4, <1>7 DEF Exit, others, Running
  <1>8. ASSUME NEW v \in Level, Set(v, bus), Running, UNCHANGED <<chosen, level>>, ~astray',
               v > 0 => v = level /\ dimmed
        PROVE  /\ ~astray
               /\ lamp' > 0 => lamp' = chosen'
               /\ LastSays(bus', chosen')
               /\ Heard(bus') => Heard(bus)
               /\ LevelInv
    <2>1. ~astray
      BY <1>8, Zenon DEF Set
    <2>2. /\ lamp > 0 => lamp = chosen
          /\ LastSays(bus, chosen)
          /\ Heard(bus) /\ dimmed => level = chosen
      BY <1>8, <2>1 DEF LevelInv
    <2>3. v > 0 /\ ~News(bus) => v = chosen
      BY <1>8, <2>2, NoNewsHeard
    <2>4. QED BY <1>8, <2>1, <2>2, <2>3, SetLevel DEF TypeOK
  <1>9. CASE TurnOff
    <2> SUFFICES ASSUME ~astray' PROVE LevelInv'
      BY DEF LevelInv
    <2>1. Running /\ UNCHANGED <<chosen, level, dimmed, reassert>> /\ Set(0, bus)
      BY <1>9 DEF TurnOff, Running
    <2>2. /\ lamp' > 0 => lamp' = chosen'
          /\ LastSays(bus', chosen')
          /\ Heard(bus') => Heard(bus)
          /\ ~astray
      BY <1>8, <2>1
    <2>3. QED BY <2>1, <2>2 DEF LevelInv
  <1>10. CASE (OnResume \/ Stop) /\ dimmed
    <2> SUFFICES ASSUME ~astray' PROVE LevelInv'
      BY DEF LevelInv
    <2>1. Running /\ UNCHANGED <<chosen, level>> /\ Set(level, bus)
      BY <1>10 DEF OnResume, Stop, Running
    <2>2. /\ lamp' > 0 => lamp' = chosen'
          /\ LastSays(bus', chosen')
          /\ Heard(bus') => Heard(bus)
          /\ ~astray
      BY <1>8, <1>10, <2>1 DEF TypeOK
    <2>3. Heard(bus) => level = chosen
      BY <1>10, <2>1, <2>2 DEF LevelInv
    <2>4. QED BY <2>1, <2>2, <2>3 DEF LevelInv
  <1>11. CASE (OnResume \/ Stop) /\ ~dimmed
    BY <1>4, <1>11 DEF OnResume, Stop, Running
  <1>12. CASE OnChanged
    BY <1>12, ChangedLevel
  <1>13. CASE Start
    <2>1. /\ chosen' = lamp /\ lamp' = lamp /\ dimmed' = FALSE /\ reassert' = FALSE /\ bus' = <<>>
      BY <1>13 DEF Start
    <2>2. LastSays(bus', chosen')
      BY <2>1 DEF LastSays
    <2>3. QED BY <2>1, <2>2 DEF LevelInv
  <1>14. CASE UNCHANGED vars
    BY <1>4, <1>14 DEF vars, daemon, others, Running
  <1>15. QED
    BY <1>1, <1>2, <1>3, <1>5, <1>6, <1>7, <1>9, <1>10, <1>11, <1>12, <1>13, <1>14 DEF Next

LEMMA LevelInit == Init => LevelInv
  BY DEF Init, LevelInv, LastSays

\* The last entry of the queue is the write of this step.
LEMMA SetLights ==
  ASSUME TypeOK, NEW v \in Level, NEW signals \in Seq(Signal), Set(v, signals), Lights, ~astray'
  PROVE  own'[Len(own')] = v /\ v > 0 /\ ~News(signals)
  <1>1. CASE own' = Append(own, v) /\ astray' = (astray \/ (v > 0 /\ News(signals)))
    <2>1. own' = Append(own, v) /\ own \in Seq(Level)
      BY <1>1, Zenon DEF TypeOK
    <2>2. Len(Append(own, v)) = Len(own) + 1 /\ Append(own, v)[Len(own) + 1] = v
      BY <2>1, AppendProperties
    <2>3. own'[Len(own')] = v
      BY <2>1, <2>2
    <2>4. v > 0
      BY <2>3 DEF Lights
    <2>5. ~News(signals)
      BY <1>1, <2>4, Zenon
    <2>6. QED BY <2>3, <2>4, <2>5
  <1>2. CASE own' = own
    <2>1. Len(own) \in Nat
      BY LenProperties DEF TypeOK
    <2>2. QED BY <1>2, <2>1 DEF Lights
  <1>3. QED BY <1>1, <1>2, Zenon DEF Set

LEMMA LightsChosen ==
  ASSUME TypeOK, LevelInv, [Next]_vars, Lights, ~astray'
  PROVE  own'[Len(own')] = chosen
  <1> USE LevelNat
  <1>0. own \in Seq(Level) /\ Len(own) \in Nat /\ bus \in Seq(Signal) /\ level \in Level /\ chosen \in Level
    BY LenProperties DEF TypeOK
  <1>1. own' # own
    BY <1>0 DEF Lights
  <1>2. CASE \/ \E v \in Level : FnKey(v) \/ Slider(v)
             \/ KdeDims \/ KdeRestores \/ InputStops \/ InputReturns
             \/ OnIdle \/ OnIdleFails \/ ReassertExpires \/ Exit \/ UNCHANGED vars
    BY <1>1, <1>2 DEF FnKey, Slider, KdeDims, KdeRestores, Write, InputStops, InputReturns,
       OnIdle, OnIdleFails, ReassertExpires, Exit, vars, daemon
  <1>3. CASE TurnOff
    BY <1>0, <1>3, SetLights DEF TurnOff
  <1>4. CASE (OnResume \/ Stop) /\ dimmed
    <2>1. Set(level, bus) /\ Running
      BY <1>4 DEF OnResume, Stop, Running
    <2>2. own'[Len(own')] = level /\ ~News(bus)
      BY <1>0, <2>1, SetLights
    <2>3. ~astray
      BY <2>1, Zenon DEF Set
    <2>4. QED BY <1>4, <2>1, <2>2, <2>3, NoNewsHeard DEF LevelInv
  <1>5. CASE (OnResume \/ Stop) /\ ~dimmed
    BY <1>1, <1>5 DEF OnResume, Stop
  <1>6. CASE OnChanged
    <2> DEFINE v == Head(bus).value
               key == Head(bus).source = "internal"
               echo == own # <<>> /\ Head(own) = v
    <2>1. CASE own # <<>> /\ own' = Tail(own)
      <3>1. Len(Tail(own)) = Len(own) - 1
        BY <1>0, <2>1, TailFacts
      <3>2. QED BY <1>0, <2>1, <3>1 DEF Lights
    <2>2. CASE ~key /\ v = 0 /\ reassert /\ Set(level, Tail(bus))
      <3>1. bus # <<>> /\ Running
        BY <1>6 DEF OnChanged, Running
      <3>2. Tail(bus) \in Seq(Signal)
        BY <1>0, <3>1, TailFacts
      <3>3. own'[Len(own')] = level /\ ~News(Tail(bus))
        BY <1>0, <2>2, <3>2, SetLights
      <3>4. ~astray
        BY <2>2, Zenon DEF Set
      <3>5. ~Choice(Head(bus))
        BY <2>2 DEF Choice
      <3>6. Heard(bus)
        BY <1>0, <3>1, <3>3, <3>5, NoNewsHeard, TailChoice
      <3>7. QED BY <2>2, <3>1, <3>3, <3>4, <3>6 DEF LevelInv
    <2>3. QED BY <1>1, <1>6, <2>1, <2>2 DEF OnChanged, ChangedDimmed
  <1>7. CASE Start
    <2>1. own' = <<>> /\ Len(<<>>) = 0
      BY <1>7 DEF Start
    <2>2. QED BY <1>0, <2>1 DEF Lights
  <1>8. QED
    BY <1>2, <1>3, <1>4, <1>5, <1>6, <1>7 DEF Next

\* The daemon never undoes a choice it has heard of: when it lights the keyboard, to
\* come back from idleness, at its end or against KDE, it is to the level somebody else
\* set last, and not after the key turned the light off; until it has gone astray.
THEOREM ChoiceNotUndone == Spec => NoUndo
  <1>1. Init => QueueInv /\ LevelInv
    BY QueueInit, LevelInit
  <1>2. TypeOK /\ QueueInv /\ LevelInv /\ [Next]_vars => QueueInv' /\ LevelInv'
    BY QueueStep, LevelStep
  <1>3. TypeOK /\ LevelInv /\ [Next]_vars => [Lights /\ ~astray' => own'[Len(own')] = chosen]_vars
    BY LightsChosen
  <1>4. QED BY <1>1, <1>2, <1>3, DaemonTypeCorrect, PTL DEF Spec, NoUndo

-----------------------------------------------------------------------------
(* Idleness and resumption alternate *)

Alternate(events) == \A i \in 1..(Len(events) - 1) : events[i] # events[i+1]

LEMMA AlternateAppend ==
  ASSUME NEW s \in Seq({"idle", "resume"}), NEW e \in {"idle", "resume"}, Alternate(s),
         s # <<>> => s[Len(s)] # e
  PROVE  /\ Alternate(Append(s, e))
         /\ Append(s, e) # <<>>
         /\ Append(s, e)[Len(Append(s, e))] = e
         /\ Append(s, e)[1] = IF s = <<>> THEN e ELSE s[1]
  <1> DEFINE m == Len(s)
             r == Append(s, e)
  <1>1. /\ m \in Nat /\ Len(r) = m + 1 /\ r[m+1] = e /\ \A i \in 1..m : r[i] = s[i]
        /\ (s = <<>> <=> m = 0)
    BY LenProperties, AppendProperties, EmptySeq
  <1>2. \A i \in 1..(m-1) : s[i] # s[i+1]
    BY DEF Alternate
  <1>3. s # <<>> => s[m] # e
    OBVIOUS
  <1> HIDE DEF m, r
  <1>4. Alternate(r)
    <2> SUFFICES ASSUME NEW i \in 1..((m+1)-1) PROVE r[i] # r[i+1]
      BY <1>1 DEF Alternate
    <2>1. i \in 1..m
      BY <1>1
    <2>2. CASE i = m
      BY <1>1, <1>3, <2>1, <2>2
    <2>3. CASE i # m
      <3>1. i \in 1..(m-1) /\ i+1 \in 1..m
        BY <1>1, <2>1, <2>3
      <3>2. QED BY <1>1, <1>2, <2>1, <3>1
    <2>4. QED BY <2>2, <2>3
  <1>5. r # <<>> /\ r[Len(r)] = e
    BY <1>1 DEF r
  <1>6. r[1] = IF s = <<>> THEN e ELSE s[1]
    <2>1. CASE s = <<>>
      BY <1>1, <2>1
    <2>2. CASE s # <<>>
      <3>1. 1 \in 1..m
        BY <1>1, <2>2
      <3>2. QED BY <1>1, <2>2, <3>1
    <2>3. QED BY <2>1, <2>2
  <1>7. QED BY <1>4, <1>5, <1>6 DEF r

LEMMA AlternateTail ==
  ASSUME NEW s \in Seq({"idle", "resume"}), s # <<>>, Alternate(s)
  PROVE  /\ Alternate(Tail(s))
         /\ Head(s) = s[1]
         /\ Tail(s) # <<>> => Tail(s)[Len(Tail(s))] = s[Len(s)] /\ Tail(s)[1] # s[1]
         /\ Tail(s) = <<>> => s[Len(s)] = s[1]
         /\ Tail(s) # <<>> => Tail(s)[1] \in {"idle", "resume"}
         /\ Tail(s) \in Seq({"idle", "resume"})
  <1> DEFINE m == Len(s)
             t == Tail(s)
  <1>1. /\ m \in Nat \ {0} /\ Head(s) = s[1] /\ t \in Seq({"idle", "resume"})
        /\ Len(t) = m - 1 /\ \A i \in 1..(m-1) : t[i] = s[i+1]
    BY TailFacts
  <1>3. \A i \in 1..(m-1) : s[i] # s[i+1]
    BY DEF Alternate
  <1> HIDE DEF m, t
  <1>2. t = <<>> <=> m = 1
    BY <1>1, EmptySeq
  <1>4. Alternate(t)
    <2> SUFFICES ASSUME NEW i \in 1..((m-1)-1) PROVE t[i] # t[i+1]
      BY <1>1 DEF Alternate
    <2>1. i \in 1..(m-1) /\ i+1 \in 1..(m-1)
      BY <1>1
    <2>2. QED BY <1>1, <1>3, <2>1
  <1>5. ASSUME t # <<>> PROVE t[Len(t)] = s[m] /\ t[1] # s[1] /\ t[1] \in {"idle", "resume"}
    <2>1. m-1 \in 1..(m-1) /\ 1 \in 1..(m-1) /\ (m-1)+1 = m
      BY <1>1, <1>2, <1>5
    <2>2. t[m-1] = s[m] /\ t[1] = s[1+1] /\ s[1] # s[1+1]
      BY <1>1, <1>3, <2>1
    <2>3. t[1] \in {"idle", "resume"}
      BY <1>1, <2>1, ElementOfSeq
    <2>4. QED BY <1>1, <2>2, <2>3
  <1>6. QED BY <1>1, <1>2, <1>4, <1>5 DEF m, t

LEMMA SeatStep == ASSUME TypeOK, SeatInv, [Next]_vars PROVE SeatInv'
  <1>0. seat \in Seq({"idle", "resume"}) /\ input \in {"active", "idle"}
    BY DEF TypeOK
  <1>1. ASSUME UNCHANGED <<seat, input>>, dimmed' => dimmed, Running' => Running,
               pc' = "dim" => pc = "dim" /\ dimmed'
        PROVE  SeatInv'
    BY <1>1 DEF SeatInv
  <1>2. CASE \/ \E v \in Level : FnKey(v) \/ Slider(v)
             \/ KdeDims \/ KdeRestores \/ ReassertExpires \/ Exit \/ UNCHANGED vars
    <2>1. UNCHANGED <<seat, dimmed>> /\ (pc' = pc \/ pc' = "stopped") /\ input' = input
      BY <1>2 DEF FnKey, Slider, KdeDims, KdeRestores, Write, ReassertExpires, Exit, vars, others, daemon
    <2>2. QED BY <2>1 DEF SeatInv, Running
  <1>3. CASE InputStops \/ InputReturns
    <2> DEFINE e == IF input = "active" THEN "idle" ELSE "resume"
    <2>1. /\ UNCHANGED <<pc, dimmed>> /\ e \in {"idle", "resume"}
          /\ Running => seat' = Append(seat, e)
          /\ input' = IF input = "active" THEN "idle" ELSE "active"
      BY <1>3 DEF InputStops, InputReturns, Notify, daemon
    <2> SUFFICES ASSUME Running PROVE SeatInv'
      BY <2>1 DEF SeatInv, Running
    <2>2. Alternate(seat) /\ (seat # <<>> => seat[Len(seat)] # e)
      BY <1>0 DEF SeatInv, Alternate
    <2>3. /\ Alternate(seat') /\ seat' # <<>> /\ seat'[Len(seat')] = e
          /\ seat'[1] = IF seat = <<>> THEN e ELSE seat[1]
      BY <1>0, <2>1, <2>2, AlternateAppend
    <2>4. dimmed => seat'[1] = "resume"
      BY <1>0, <2>3 DEF SeatInv
    <2>5. e = IF input' = "idle" THEN "idle" ELSE "resume"
      BY <1>0, <2>1
    <2>6. pc = "dim" => dimmed
      BY DEF SeatInv
    <2>7. QED BY <2>1, <2>3, <2>4, <2>5, <2>6 DEF SeatInv, Alternate
  <1>4. CASE OnIdle \/ OnIdleFails \/ OnResume
    <2>1. /\ Running /\ pc = "wait" /\ seat # <<>> /\ seat' = Tail(seat) /\ input' = input
          /\ Head(seat) = "resume" => dimmed' = FALSE
          /\ Head(seat) = "idle" => (dimmed' = dimmed \/ dimmed' = TRUE)
          /\ Head(seat) \in {"idle", "resume"}
          /\ pc' = "dim" => dimmed' = TRUE
      <3>1. CASE OnIdle
        BY <3>1 DEF OnIdle, others, Running
      <3>2. CASE OnIdleFails
        BY <3>2 DEF OnIdleFails, others, daemon, Running
      <3>3. CASE OnResume
        BY <3>3 DEF OnResume, Running, TypeOK
      <3>4. QED BY <1>4, <3>1, <3>2, <3>3
    <2>2. Alternate(seat) /\ seat[Len(seat)] = IF input = "idle" THEN "idle" ELSE "resume"
      BY <2>1 DEF SeatInv, Alternate
    <2>3. /\ Alternate(seat')
          /\ Head(seat) = seat[1]
          /\ seat' # <<>> => seat'[Len(seat')] = seat[Len(seat)] /\ seat'[1] # seat[1]
          /\ seat' = <<>> => seat[Len(seat)] = seat[1]
          /\ seat' # <<>> => seat'[1] \in {"idle", "resume"}
      BY <1>0, <2>1, <2>2, AlternateTail
    <2>4. seat' # <<>> /\ dimmed' => seat'[1] = "resume"
      BY <2>1, <2>3
    <2>5. seat' = <<>> /\ dimmed' => input' = "idle"
      BY <1>0, <2>1, <2>2, <2>3
    <2>6. QED BY <2>1, <2>2, <2>3, <2>4, <2>5 DEF SeatInv, Alternate
  <1>5. CASE TurnOff \/ OnChanged
    <2>1. UNCHANGED <<seat, input>> /\ pc' = "wait" /\ Running
      BY <1>5 DEF TurnOff, OnChanged, Running
    <2>2. dimmed' = dimmed \/ dimmed' = FALSE
      BY <1>5 DEF TurnOff, OnChanged, ChangedDimmed
    <2>3. QED BY <1>1, <2>1, <2>2 DEF Running
  <1>6. CASE Stop
    BY <1>6 DEF Stop, SeatInv, Running
  <1>7. CASE Start
    <2>1. pc' = "wait" /\ dimmed' = FALSE /\ input' = input /\ seat' = IF input = "idle" THEN <<"idle">> ELSE <<>>
      BY <1>7 DEF Start
    <2>2. CASE input = "idle"
      <3>1. seat' = <<"idle">> /\ Len(seat') = 1 /\ seat'[1] = "idle" /\ input' = "idle"
        BY <2>1, <2>2
      <3>2. QED BY <2>1, <3>1 DEF SeatInv
    <2>3. CASE input # "idle"
      <3>1. seat' = <<>> /\ Len(seat') = 0
        BY <2>1, <2>3
      <3>2. QED BY <2>1, <3>1 DEF SeatInv
    <2>4. QED BY <2>2, <2>3
  <1>8. QED BY <1>2, <1>3, <1>4, <1>5, <1>6, <1>7 DEF Next

LEMMA SeatInit == Init => SeatInv
  BY DEF Init, SeatInv

-----------------------------------------------------------------------------
(* Nobody is left in the dark *)

LEMMA StraightEcho ==
  ASSUME NEW q \in Seq(Level), NEW s \in Seq(Signal), Straight(q, s), q # <<>>, s # <<>>
  PROVE  /\ Straight(Tail(q), Tail(s))
         /\ Head(s).by = "daemon"
         /\ News(s) <=> News(Tail(s))
         /\ TwoNews(s) <=> TwoNews(Tail(s))
  <1> DEFINE n == Len(q)
             m == Len(s)
             p == Tail(q)
             t == Tail(s)
  <1>1. /\ n \in Nat \ {0} /\ Len(p) = n - 1 /\ \A i \in 1..(n-1) : p[i] = q[i+1]
        /\ m \in Nat \ {0} /\ Len(t) = m - 1 /\ Head(s) = s[1]
        /\ \A i \in 1..(m-1) : t[i] = s[i+1]
    BY TailFacts
  <1>2. /\ n <= m
        /\ \A i \in 1..n : s[i].by = "daemon" /\ s[i].value = q[i]
        /\ \A i \in (n+1)..m : s[i].by = "others"
    BY DEF Straight
  <1> HIDE DEF n, m, p, t
  <1>3. Straight(p, t)
    <2>1. ASSUME NEW i \in 1..(n-1) PROVE t[i].by = "daemon" /\ t[i].value = p[i]
      <3>1. i+1 \in 1..n /\ i \in 1..(m-1) /\ p[i] = q[i+1]
        BY <1>1, <1>2
      <3>2. t[i] = s[i+1]
        BY <1>1, <3>1
      <3>3. QED BY <1>2, <3>1, <3>2
    <2>2. ASSUME NEW i \in ((n-1)+1)..(m-1) PROVE t[i].by = "others"
      <3>1. i+1 \in (n+1)..m /\ i \in 1..(m-1)
        BY <1>1, <1>2
      <3>2. QED BY <1>1, <1>2, <3>1
    <2>3. QED BY <1>1, <1>2, <2>1, <2>2 DEF Straight
  <1>4. s[1].by = "daemon" /\ 1 \in 1..m
    BY <1>1, <1>2
  <1>5. \A i \in 1..m : s[i].by = "others" => i-1 \in 1..(m-1) /\ t[i-1].by = "others"
    <2> SUFFICES ASSUME NEW i \in 1..m, s[i].by = "others"
                 PROVE  i-1 \in 1..(m-1) /\ t[i-1].by = "others"
      OBVIOUS
    <2>1. i # 1
      BY <1>4
    <2>2. i-1 \in 1..(m-1) /\ (i-1)+1 = i
      BY <1>1, <2>1
    <2>3. t[i-1] = s[(i-1)+1]
      BY <1>1, <2>2
    <2>4. QED BY <2>2, <2>3
  <1>6. \A i \in 1..(m-1) : t[i].by = "others" => i+1 \in 1..m /\ s[i+1].by = "others"
    <2> SUFFICES ASSUME NEW i \in 1..(m-1), t[i].by = "others"
                 PROVE  i+1 \in 1..m /\ s[i+1].by = "others"
      OBVIOUS
    <2>1. i+1 \in 1..m /\ t[i] = s[i+1]
      BY <1>1
    <2>2. QED BY <2>1
  <1>7. News(s) <=> News(t)
    BY <1>1, <1>5, <1>6 DEF News, m
  <1>8. ASSUME TwoNews(s) PROVE TwoNews(t)
    <2>1. PICK i, j \in 1..m : i < j /\ s[i].by = "others" /\ s[j].by = "others"
      BY <1>8 DEF TwoNews, m
    <2>2. i-1 \in 1..(m-1) /\ t[i-1].by = "others" /\ j-1 \in 1..(m-1) /\ t[j-1].by = "others"
      BY <1>5, <2>1
    <2>3. i-1 < j-1
      BY <1>1, <2>1
    <2>4. QED BY <1>1, <2>2, <2>3 DEF TwoNews
  <1>9. ASSUME TwoNews(t) PROVE TwoNews(s)
    <2>1. PICK i, j \in 1..(m-1) : i < j /\ t[i].by = "others" /\ t[j].by = "others"
      BY <1>1, <1>9 DEF TwoNews
    <2>2. i+1 \in 1..m /\ s[i+1].by = "others" /\ j+1 \in 1..m /\ s[j+1].by = "others"
      BY <1>6, <2>1
    <2>3. i+1 < j+1
      BY <1>1, <2>1
    <2>4. QED BY <2>2, <2>3 DEF TwoNews, m
  <1>10. QED BY <1>1, <1>3, <1>4, <1>7, <1>8, <1>9 DEF p, t

LEMMA StraightSkip ==
  ASSUME NEW q \in Seq(Level), NEW s \in Seq(Signal), Straight(q, s), s # <<>>,
         ~(q # <<>> /\ Head(q) = Head(s).value)
  PROVE  /\ Straight(q, Tail(s))
         /\ Head(s).by = "others"
         /\ News(s)
         /\ TwoNews(s) => News(Tail(s))
         /\ ~News(Tail(s)) => q = <<>> /\ Tail(s) = <<>>
  <1> DEFINE n == Len(q)
             m == Len(s)
             t == Tail(s)
  <1>1. /\ n \in Nat /\ (q # <<>> => n > 0 /\ Head(q) = q[1]) /\ (q = <<>> <=> n = 0)
        /\ m \in Nat \ {0} /\ Len(t) = m - 1 /\ Head(s) = s[1] /\ t \in Seq(Signal)
        /\ \A i \in 1..(m-1) : t[i] = s[i+1]
    BY TailFacts, EmptySeq, LenProperties
  <1>2. /\ n <= m
        /\ \A i \in 1..n : s[i].by = "daemon" /\ s[i].value = q[i]
        /\ \A i \in (n+1)..m : s[i].by = "others"
    BY DEF Straight
  <1> HIDE DEF n, m, t
  <1>3. n = 0
    <2> SUFFICES ASSUME n # 0 PROVE FALSE
      OBVIOUS
    <2>1. 1 \in 1..n
      BY <1>1
    <2>2. QED BY <1>1, <1>2, <2>1
  <1>4. \A i \in 1..m : s[i].by = "others"
    BY <1>2, <1>3
  <1>5. \A i \in 1..(m-1) : t[i].by = "others"
    <2> SUFFICES ASSUME NEW i \in 1..(m-1) PROVE t[i].by = "others"
      OBVIOUS
    <2>1. i+1 \in 1..m /\ t[i] = s[i+1]
      BY <1>1
    <2>2. QED BY <1>4, <2>1
  <1>6. Straight(q, t)
    <2>1. Len(q) = 0
      BY <1>3 DEF n
    <2>2. QED BY <1>1, <1>5, <2>1 DEF Straight
  <1>7. 1 \in 1..m /\ s[1].by = "others" /\ News(s)
    BY <1>1, <1>4 DEF News, m
  <1>8. t = <<>> <=> m = 1
    BY <1>1, EmptySeq
  <1>9. t # <<>> => News(t)
    <2>1. t # <<>> => 1 \in 1..(m-1)
      BY <1>1, <1>8
    <2>2. QED BY <1>1, <1>5, <2>1 DEF News
  <1>10. TwoNews(s) => m # 1
    BY DEF TwoNews, m
  <1>11. QED BY <1>1, <1>3, <1>6, <1>7, <1>8, <1>9, <1>10 DEF t

LEMMA StraightWritten ==
  ASSUME NEW q \in Seq(Level), NEW s \in Seq(Signal), NEW v \in Level, Straight(q, s), ~News(s)
  PROVE  /\ Straight(Append(q, v), Append(s, Echo(v)))
         /\ ~News(Append(s, Echo(v)))
  <1> DEFINE n == Len(q)
             m == Len(s)
             p == Append(q, v)
             r == Append(s, Echo(v))
  <1>1. Echo(v) \in Signal /\ Echo(v).by = "daemon" /\ Echo(v).value = v
    BY DEF Echo, Signal
  <1>2. /\ n \in Nat /\ Len(p) = n + 1 /\ p[n+1] = v /\ \A i \in 1..n : p[i] = q[i]
        /\ m \in Nat /\ Len(r) = m + 1 /\ r[m+1] = Echo(v) /\ \A i \in 1..m : r[i] = s[i]
    BY <1>1, LenProperties, AppendProperties
  <1>3. /\ n <= m
        /\ \A i \in 1..n : s[i].by = "daemon" /\ s[i].value = q[i]
        /\ \A i \in (n+1)..m : s[i].by = "others"
        /\ \A i \in 1..m : s[i].by # "others"
    BY DEF Straight, News
  <1> HIDE DEF n, m, p, r
  <1>4. n = m
    <2> SUFFICES ASSUME n # m PROVE FALSE
      OBVIOUS
    <2>1. m \in (n+1)..m /\ m \in 1..m
      BY <1>2, <1>3
    <2>2. QED BY <1>3, <2>1
  <1>5. ASSUME NEW i \in 1..(n+1) PROVE r[i].by = "daemon" /\ r[i].value = p[i]
    <2>1. CASE i = n+1
      BY <1>1, <1>2, <1>4, <2>1
    <2>2. CASE i # n+1
      <3>1. i \in 1..n /\ i \in 1..m
        BY <1>2, <1>4, <2>2
      <3>2. QED BY <1>2, <1>3, <3>1
    <2>3. QED BY <2>1, <2>2
  <1>6. Straight(p, r)
    <2>1. ((n+1)+1)..(m+1) = {}
      BY <1>2, <1>4
    <2>2. QED BY <1>2, <1>4, <1>5, <2>1 DEF Straight
  <1>7. ~News(r)
    BY <1>2, <1>4, <1>5 DEF News
  <1>8. QED BY <1>6, <1>7 DEF p, r

LEMMA StraightNews ==
  ASSUME NEW q \in Seq(Level), NEW s \in Seq(Signal), NEW x \in Signal, x.by = "others",
         Straight(q, s)
  PROVE  /\ Straight(q, Append(s, x))
         /\ News(Append(s, x))
         /\ News(s) => TwoNews(Append(s, x))
  <1> DEFINE n == Len(q)
             m == Len(s)
             r == Append(s, x)
  <1>1. /\ n \in Nat
        /\ m \in Nat /\ Len(r) = m + 1 /\ r[m+1] = x /\ \A i \in 1..m : r[i] = s[i]
    BY LenProperties, AppendProperties
  <1>2. /\ n <= m
        /\ \A i \in 1..n : s[i].by = "daemon" /\ s[i].value = q[i]
        /\ \A i \in (n+1)..m : s[i].by = "others"
    BY DEF Straight
  <1> HIDE DEF n, m, r
  <1>3. Straight(q, r)
    <2>1. ASSUME NEW i \in 1..n PROVE r[i].by = "daemon" /\ r[i].value = q[i]
      <3>1. i \in 1..m
        BY <1>1, <1>2
      <3>2. QED BY <1>1, <1>2, <3>1
    <2>2. ASSUME NEW i \in (n+1)..(m+1) PROVE r[i].by = "others"
      <3>1. CASE i = m+1
        BY <1>1, <3>1
      <3>2. CASE i # m+1
        <4>1. i \in 1..m /\ i \in (n+1)..m
          BY <1>1, <3>2
        <4>2. QED BY <1>1, <1>2, <4>1
      <3>3. QED BY <3>1, <3>2
    <2>3. QED BY <1>1, <1>2, <2>1, <2>2 DEF Straight, n
  <1>4. m+1 \in 1..(m+1) /\ r[m+1].by = "others"
    BY <1>1
  <1>5. News(r)
    BY <1>1, <1>4 DEF News
  <1>6. ASSUME News(s) PROVE TwoNews(r)
    <2>1. PICK i \in 1..m : s[i].by = "others"
      BY <1>6 DEF News, m
    <2>2. i \in 1..(m+1) /\ i < m+1 /\ r[i].by = "others"
      BY <1>1, <2>1
    <2>3. QED BY <1>1, <1>4, <2>2 DEF TwoNews
  <1>7. QED BY <1>3, <1>5, <1>6 DEF r

\* The step of another program or of KDE.
LEMMA WriteDark ==
  ASSUME TypeOK, DarkInv, Running, ~astray, ~spoilt,
         NEW v \in Level, NEW source \in {"internal", "external"}, Write(v, source)
  PROVE  /\ Straight(own', bus') /\ News(bus')
         /\ News(bus) => TwoNews(bus')
         /\ Heard(bus') <=> Heard(bus) /\ v = 0 /\ source = "external"
         /\ UNCHANGED <<pc, level, dimmed, own, kdeDimmed, reassert, astray>>
         /\ lamp' = v
         /\ v = 0 /\ source = "external" => chosen' = chosen
  <1> DEFINE x == [value |-> v, source |-> source, by |-> "others"]
  <1>1. x \in Signal /\ x.by = "others" /\ (Choice(x) <=> ~(v = 0 /\ source = "external"))
    BY LevelNat DEF Signal, Choice
  <1>2. bus' = Append(bus, x) /\ bus \in Seq(Signal) /\ own \in Seq(Level)
    BY DEF Write, Broadcast, TypeOK
  <1>3. UNCHANGED <<pc, level, dimmed, own, kdeDimmed, reassert, astray>> /\ lamp' = v
    BY DEF Write, daemon
  <1>4. Straight(own, bus)
    BY DEF DarkInv
  <1>5. /\ Straight(own, Append(bus, x)) /\ News(Append(bus, x))
        /\ News(bus) => TwoNews(Append(bus, x))
    BY <1>1, <1>2, <1>4, StraightNews
  <1>6. Heard(Append(bus, x)) <=> Heard(bus) /\ ~Choice(x)
    BY <1>1, <1>2, AppendChoice
  <1>7. v = 0 /\ source = "external" => chosen' = chosen
    BY LevelNat DEF Write
  <1>8. QED BY <1>1, <1>2, <1>3, <1>5, <1>6, <1>7

LEMMA OthersDark ==
  ASSUME TypeOK, DarkInv, ~astray', ~spoilt', Running',
         \/ \E v \in Level : FnKey(v) \/ Slider(v)
         \/ KdeDims \/ KdeRestores
  PROVE  DarkInv'
  <1> USE LevelNat
  <1>1. Running /\ ~astray
    BY DEF Write, FnKey, Slider, KdeDims, KdeRestores, daemon, Running
  <1>2. None \notin Level
    BY LevelAssumption DEF Level
  <1>3. lamp \in Level /\ kde \in Level \cup {None}
    BY DEF TypeOK
  <1>4. ASSUME NEW v \in Level, FnKey(v) \/ Slider(v) PROVE DarkInv'
    <2>1. PICK source \in {"internal", "external"} : Write(v, source)
      BY <1>4 DEF FnKey, Slider
    <2>2. ~spoilt /\ v # 0 /\ kde = None
      BY <1>4, Zenon DEF FnKey, Slider
    <2>3. kde' = kde
      BY <1>4 DEF FnKey, Slider
    <2>4. Straight(own', bus') /\ lamp' = v
      BY <1>1, <2>1, <2>2, WriteDark
    <2>5. kde' # 0 /\ lamp' # 0
      BY <1>2, <2>2, <2>3, <2>4
    <2>6. Remedy'
      BY <2>5 DEF Remedy
    <2>7. QED BY <2>4, <2>6 DEF DarkInv
  <1>5. CASE KdeDims
    <2>1. Write(0, "external") /\ ~spoilt /\ kde = None /\ kde' = lamp
      BY <1>5 DEF KdeDims
    <2>2. /\ Straight(own', bus') /\ News(bus')
          /\ News(bus) => TwoNews(bus')
          /\ Heard(bus') <=> Heard(bus)
          /\ UNCHANGED <<dimmed, kdeDimmed, reassert, chosen>>
      BY <1>1, <2>1, WriteDark
    <2>3. kde' # None
      BY <1>2, <1>3, <2>1
    <2>4. ASSUME chosen' > 0, kde' = 0
          PROVE  Heard(bus') /\ (dimmed' \/ (reassert' /\ TwoNews(bus')))
      <3>1. Remedy
        BY <1>1, <2>1, <2>2, <2>4 DEF DarkInv
      <3>2. Heard(bus) /\ (dimmed \/ (reassert /\ News(bus)))
        BY <2>1, <2>4, <3>1 DEF Remedy
      <3>3. QED BY <2>2, <3>2
    <2>5. TypeOK' /\ (dimmed' \/ ~dimmed')
      BY <1>5, OthersTyped
    <2>6. chosen' > 0 => Remedy'
      BY <2>2, <2>3, <2>4, <2>5 DEF Remedy
    <2>7. QED BY <2>2, <2>6 DEF DarkInv
  <1>6. CASE KdeRestores
    <2>1. Write(kde, "external") /\ ~spoilt /\ kde # None /\ kde' = None /\ kde \in Level
      BY <1>3, <1>6 DEF KdeRestores
    <2>2. /\ Straight(own', bus') /\ News(bus')
          /\ Heard(bus') <=> Heard(bus) /\ kde = 0
          /\ UNCHANGED <<dimmed, kdeDimmed, reassert>>
          /\ lamp' = kde /\ (kde = 0 => chosen' = chosen)
      BY <1>1, <2>1, WriteDark
    <2>3. ASSUME chosen' > 0, lamp' = 0
          PROVE  Heard(bus') /\ (dimmed' \/ (reassert' /\ News(bus')))
      <3>1. Remedy
        BY <1>1, <2>1, <2>2, <2>3 DEF DarkInv
      <3>2. Heard(bus) /\ (dimmed \/ reassert)
        BY <2>2, <2>3, <3>1 DEF Remedy
      <3>3. QED BY <2>2, <2>3, <3>2
    <2>4. kde' # 0
      BY <1>2, <2>1
    <2>5. chosen' > 0 => Remedy'
      BY <2>3, <2>4 DEF Remedy
    <2>6. QED BY <2>2, <2>5 DEF DarkInv
  <1>7. QED BY <1>4, <1>5, <1>6

\* A write of the daemon's that is neither late nor failing.
LEMMA SetDark ==
  ASSUME TypeOK, NEW v \in Level, NEW signals \in Seq(Signal), Set(v, signals),
         Straight(own, signals), ~spoilt'
  PROVE  /\ ~News(signals) /\ ~News(bus') /\ Straight(own', bus')
         /\ lamp' = v /\ ~spoilt /\ Heard(signals) /\ Heard(bus')
  <1>1. /\ lamp' = v /\ bus' = Append(signals, Echo(v)) /\ own' = Append(own, v)
        /\ spoilt' = (spoilt \/ News(signals))
    BY Zenon DEF Set, Echo
  <1>2. ~spoilt /\ ~News(signals)
    BY <1>1, Zenon
  <1>3. Straight(Append(own, v), Append(signals, Echo(v))) /\ ~News(Append(signals, Echo(v)))
    BY <1>2, StraightWritten DEF TypeOK
  <1>4. QED BY <1>1, <1>2, <1>3, NoNewsHeard

LEMMA ChangedDark ==
  ASSUME TypeOK, LevelInv, DarkInv, OnChanged, ~astray', ~spoilt'
  PROVE  DarkInv'
  <1> USE LevelNat
  <1> DEFINE v == Head(bus).value
             key == Head(bus).source = "internal"
             echo == own # <<>> /\ Head(own) = v
  <1>1. /\ Tail(bus) \in Seq(Signal) /\ bus \in Seq(Signal) /\ bus # <<>> /\ own \in Seq(Level)
        /\ level \in Level /\ chosen \in Level /\ dimmed \in BOOLEAN
    BY TailFacts DEF OnChanged, TypeOK
  <1>2. Running /\ UNCHANGED <<kde, input, chosen, seat, pc>>
    BY DEF OnChanged, Running
  <1>3. ~astray
    BY Zenon DEF OnChanged, ChangedDimmed, Set
  <1>4. ~spoilt
    BY Zenon DEF OnChanged, ChangedDimmed, Set
  <1>5. Straight(own, bus) /\ (chosen > 0 => Remedy)
    BY <1>2, <1>3, <1>4 DEF DarkInv
  <1>6. Head(bus) \in Signal
    BY <1>1, HeadTailProperties
  <1>7. v \in Nat
    BY <1>6 DEF Signal
  <1>8. CASE echo /\ own' = Tail(own) /\ bus' = Tail(bus)
             /\ UNCHANGED <<lamp, level, dimmed, kdeDimmed, reassert>>
    <2>1. /\ Straight(own', bus')
          /\ News(bus) <=> News(bus')
          /\ TwoNews(bus) <=> TwoNews(bus')
      BY <1>1, <1>5, <1>8, StraightEcho
    <2>2. Heard(bus) => Heard(bus')
      BY <1>1, <1>8, TailChoice
    <2>3. Remedy => Remedy'
      BY <1>2, <1>8, <2>1, <2>2 DEF Remedy
    <2>4. QED BY <1>2, <1>5, <2>1, <2>3 DEF DarkInv
  <1>9. ASSUME ~echo
        PROVE  /\ Straight(own, Tail(bus))
               /\ Head(bus).by = "others" /\ News(bus)
               /\ TwoNews(bus) => News(Tail(bus))
               /\ key \/ v > 0 => Choice(Head(bus)) /\ ~Heard(bus)
    <2>1. /\ Straight(own, Tail(bus))
          /\ Head(bus).by = "others" /\ News(bus)
          /\ TwoNews(bus) => News(Tail(bus))
      BY <1>1, <1>5, <1>9, StraightSkip
    <2>2. key \/ v > 0 => Choice(Head(bus))
      BY <2>1 DEF Choice
    <2>3. Choice(Head(bus)) => ~Heard(bus)
      BY <1>1, TailChoice
    <2>4. QED BY <2>1, <2>2, <2>3
  \* What was reported is a choice: nobody is in the dark.
  <1>10. CASE ~echo /\ (key \/ v > 0) /\ bus' = Tail(bus) /\ UNCHANGED <<lamp, own>>
    <2>1. ~Heard(bus) /\ Straight(own', bus')
      BY <1>9, <1>10
    <2>2. Remedy => Remedy'
      BY <1>2, <1>10, <2>1 DEF Remedy
    <2>3. QED BY <1>2, <1>5, <2>1, <2>2 DEF DarkInv
  <1>11. CASE ~echo /\ dimmed /\ v = 0 /\ kdeDimmed' = TRUE /\ bus' = Tail(bus)
              /\ UNCHANGED <<lamp, own, dimmed, level>>
    <2>1. Straight(own', bus')
      BY <1>9, <1>11
    <2>2. Heard(bus) => Heard(bus')
      BY <1>1, <1>11, TailChoice
    <2>3. Remedy => Remedy'
      BY <1>2, <1>11, <2>2 DEF Remedy
    <2>4. QED BY <1>2, <1>5, <2>1, <2>3 DEF DarkInv
  \* KDE put back the darkness the daemon had made: the level is written again.
  <1>12. CASE ~echo /\ ~key /\ ~dimmed /\ v = 0 /\ reassert /\ Set(level, Tail(bus))
    <2>1. /\ ~News(Tail(bus)) /\ Straight(own', bus')
          /\ lamp' = level /\ Heard(Tail(bus))
      BY <1>1, <1>9, <1>12, SetDark
    <2>2. ~Choice(Head(bus))
      BY <1>12 DEF Choice
    <2>3. Heard(bus)
      BY <1>1, <2>1, <2>2, TailChoice
    <2>4. level = chosen
      BY <1>2, <1>3, <1>12, <2>3 DEF LevelInv
    <2>5. chosen > 0 => kde # 0
      BY <1>5, <1>9, <1>12, <2>1 DEF Remedy
    <2>6. chosen' > 0 => Remedy'
      BY <1>1, <1>2, <2>1, <2>4, <2>5 DEF Remedy
    <2>7. QED BY <2>1, <2>6 DEF DarkInv
  <1>13. CASE ~echo /\ ~dimmed /\ v = 0 /\ ~reassert /\ bus' = Tail(bus) /\ UNCHANGED <<lamp, own>>
    <2>1. Straight(own', bus')
      BY <1>9, <1>13
    <2>2. Remedy => Remedy'
      BY <1>2, <1>13 DEF Remedy
    <2>3. QED BY <1>2, <1>5, <2>1, <2>2 DEF DarkInv
  <1>14. v = 0 \/ v > 0
    BY <1>7
  <1>15. QED
    BY <1>8, <1>10, <1>11, <1>12, <1>13, <1>14 DEF OnChanged, ChangedDimmed

LEMMA DarkStep ==
  ASSUME TypeOK, LevelInv, SeatInv, DarkInv, [Next]_vars PROVE DarkInv'
  <1> USE LevelNat
  <1>0. None \notin Level /\ own \in Seq(Level) /\ bus \in Seq(Signal) /\ level \in Level
    BY LevelAssumption DEF Level, TypeOK
  <1> SUFFICES ASSUME ~astray', ~spoilt', Running' PROVE DarkInv'
    BY DEF DarkInv
  <1>1. CASE (\E v \in Level : FnKey(v) \/ Slider(v)) \/ KdeDims \/ KdeRestores
    BY <1>1, OthersDark
  <1>2. ASSUME UNCHANGED <<lamp, kde, chosen, spoilt, bus, dimmed, own, kdeDimmed, reassert, astray>>,
               Running
        PROVE  DarkInv'
    BY <1>2 DEF DarkInv, Remedy
  <1>3. CASE InputStops \/ InputReturns \/ OnIdleFails
    BY <1>2, <1>3 DEF InputStops, InputReturns, OnIdleFails, daemon, others, Running
  <1>4. CASE OnIdle
    <2>1. CASE lamp > 0
      <3>1. /\ UNCHANGED <<lamp, kde, chosen, spoilt, bus, own, kdeDimmed, reassert, astray>>
            /\ dimmed' = TRUE /\ Running
        BY <1>4, <2>1 DEF OnIdle, others, Running
      <3>2. Remedy => Remedy'
        BY <2>1, <3>1 DEF Remedy
      <3>3. QED BY <3>1, <3>2 DEF DarkInv
    <2>2. CASE lamp = 0
      BY <1>2, <1>4, <2>2 DEF OnIdle, others, Running
    <2>3. QED BY <1>4, <2>1, <2>2 DEF OnIdle
  <1>5. CASE TurnOff
    <2>1. Running /\ Set(0, bus) /\ UNCHANGED <<kde, chosen, dimmed, kdeDimmed, reassert>> /\ dimmed
      BY <1>5 DEF TurnOff, SeatInv, Running
    <2>2. ~astray /\ ~spoilt
      BY <2>1, Zenon DEF Set
    <2>3. Straight(own, bus) /\ (chosen > 0 => Remedy)
      BY <2>1, <2>2 DEF DarkInv
    <2>4. ~News(bus) /\ Straight(own', bus') /\ Heard(bus')
      BY <1>0, <2>1, <2>3, SetDark
    <2>5. Remedy => Remedy'
      BY <2>1, <2>4 DEF Remedy
    <2>6. QED BY <2>1, <2>3, <2>4, <2>5 DEF DarkInv
  <1>6. CASE OnResume /\ dimmed
    <2>1. /\ Running /\ Set(level, bus) /\ UNCHANGED <<kde, chosen>> /\ dimmed' = FALSE
          /\ reassert' = (reassert \/ kdeDimmed)
      BY <1>6 DEF OnResume, Running
    <2>2. ~astray /\ ~spoilt
      BY <2>1, Zenon DEF Set
    <2>3. Straight(own, bus) /\ (chosen > 0 => Remedy)
      BY <2>1, <2>2 DEF DarkInv
    <2>4. ~News(bus) /\ ~News(bus') /\ Straight(own', bus') /\ Heard(bus') /\ lamp' = level
      BY <1>0, <2>1, <2>3, SetDark
    <2>5. lamp' > 0
      BY <1>6, <2>4 DEF TypeOK
    <2>6. Remedy /\ kde = 0 => reassert'
      BY <1>6, <2>1, <2>4, Zenon DEF Remedy
    <2>7. Remedy => Remedy'
      BY <1>0, <2>1, <2>4, <2>5, <2>6 DEF Remedy
    <2>8. QED BY <2>1, <2>3, <2>4, <2>7 DEF DarkInv
  <1>7. CASE OnResume /\ ~dimmed
    BY <1>2, <1>7 DEF OnResume, Running
  <1>8. CASE OnChanged
    BY <1>8, ChangedDark
  <1>9. CASE ReassertExpires
    BY <1>9 DEF ReassertExpires
  <1>10. CASE Stop \/ Exit
    BY <1>10 DEF Stop, Exit, Running
  <1>11. CASE Start
    <2>1. /\ own' = <<>> /\ bus' = <<>> /\ chosen' = lamp /\ lamp' = lamp /\ kde' = kde
          /\ spoilt' = (kde # None)
      BY <1>11 DEF Start
    <2>2. kde' = None
      BY <2>1, Zenon
    <2>3. Straight(own', bus')
      BY <2>1 DEF Straight
    <2>4. chosen' > 0 => Remedy'
      BY <1>0, <2>1, <2>2 DEF Remedy
    <2>5. QED BY <2>3, <2>4 DEF DarkInv
  <1>12. CASE UNCHANGED vars
    BY <1>2, <1>12 DEF vars, daemon, others, Running
  <1>13. QED
    BY <1>1, <1>3, <1>4, <1>5, <1>6, <1>7, <1>8, <1>9, <1>10, <1>11, <1>12 DEF Next

LEMMA DarkInit == Init => DarkInv
  <1>1. None # 0
    BY LevelAssumption
  <1>2. QED BY <1>1, LevelNat DEF Init, DarkInv, Straight, Remedy

\* Whoever comes back finds the light as it was: once the return is noticed, all signals
\* are handled and KDE has put back what it found, the light is at the level chosen last,
\* though KDE may have dimmed a light the daemon had turned off and put back 0.
THEOREM LightComesBack == Spec => []ComesBack
  <1>1. Init => IInv
    BY QueueInit, LevelInit, SeatInit, DarkInit DEF IInv
  <1>2. TypeOK /\ IInv /\ [Next]_vars => IInv'
    BY QueueStep, LevelStep, SeatStep, DarkStep DEF IInv
  <1>3. TypeOK /\ IInv => ComesBack
    <2> SUFFICES ASSUME TypeOK, IInv, Quiet, ~astray, ~spoilt PROVE lamp = chosen
      BY DEF ComesBack
    <2>1. Running /\ lamp \in Nat /\ chosen \in Nat
      BY LevelNat DEF Quiet, Running, TypeOK
    <2>2. ~dimmed
      BY <2>1 DEF IInv, SeatInv, Quiet
    <2>3. ~News(bus)
      BY DEF Quiet, News
    <2>4. lamp > 0 => lamp = chosen
      BY DEF IInv, LevelInv
    <2>5. chosen > 0 => Remedy
      BY <2>1 DEF IInv, DarkInv
    <2>6. chosen > 0 => lamp # 0
      BY <2>2, <2>3, <2>5 DEF Remedy, Quiet
    <2>7. QED BY <2>1, <2>4, <2>6
  <1>4. QED BY <1>1, <1>2, <1>3, DaemonTypeCorrect, PTL DEF Spec
=============================================================================
