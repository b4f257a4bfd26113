-------------------------- MODULE FanTables_proofs --------------------------
(***************************************************************************)
(* Proofs about the fan tables of all models, for every set of models,     *)
(* every stock of firmware tables and every list of stores: the types, the *)
(* stability of copied duty cycles, the truth of the driver's copies, that *)
(* a confirmed store is in effect, and that each action of FanTables is    *)
(* one of FanAttributes or leaves its variables alone.                     *)
(***************************************************************************)
EXTENDS FanTables, TLAPS

-----------------------------------------------------------------------------
(* Cells and addresses *)

LEMMA LayoutKnown ==
  ASSUME TypeOK
  PROVE  /\ conf \in Models
         /\ Layout \in Layouts
         /\ conf.rpm \in Nat
  BY ConfAssumption DEF TypeOK, Models, Model, model_v0, model_9vcn, model_secn, model_nmcn,
     model_n2cn, model_nxcn, Layout, Layouts

LEMMA CellsKnown ==
  ASSUME NEW l \in Layouts
  PROVE  CellsOf[l] \subseteq Fields \X Points
<1>1. Kept(l) \subseteq Fields
  BY DEF Kept, Layouts, Fields, Speeds, Temps, MaxTemps
<1>2. PointsOf(l) \subseteq Points
  BY DEF PointsOf, Points, MAXFANCURVESIZE
<1> QED BY <1>1, <1>2 DEF CellsOf

LEMMA PlaceCell ==
  ASSUME NEW l \in InRam, NEW a \in DOMAIN Place[l]
  PROVE  Place[l][a] \in CellsOf[l]
<1>1. DOMAIN Place[l] = UNION {WriteAt(l, c) : c \in CellsOf[l]}
  BY DEF Place
<1>2. \E c \in CellsOf[l] : a \in WriteAt(l, c)
  BY <1>1
<1>3. Place[l][a] = CHOOSE c \in CellsOf[l] : a \in WriteAt(l, c)
  BY <1>1 DEF Place
<1> QED BY <1>2, <1>3

LEMMA HomeCell ==
  ASSUME NEW l \in InRam, NEW a \in DOMAIN Home[l]
  PROVE  Home[l][a] \in CellsOf[l]
<1>1. CASE l = "EC3"
  <2>1. Home[l] = [x \in {Active[c] : c \in CellsOf[l]} |-> CHOOSE c \in CellsOf[l] : x = Active[c]]
    BY <1>1 DEF Home
  <2>2. \E c \in CellsOf[l] : a = Active[c]
    BY <2>1
  <2>3. Home[l][a] = CHOOSE c \in CellsOf[l] : a = Active[c]
    BY <2>1
  <2> QED BY <2>2, <2>3
<1>2. CASE l # "EC3"
  <2>1. Home[l] = Place[l]
    BY <1>2 DEF Home
  <2> QED BY <2>1, PlaceCell
<1> QED BY <1>1, <1>2

LEMMA ReadAddress ==
  ASSUME NEW l \in InRam, NEW c \in CellsOf[l]
  PROVE  ReadAt[l][c] \in Addresses(l)
  BY DEF Addresses

\* Where the EC keeps the table handed over is where the driver writes it.
LEMMA StagedAddress ==
  ASSUME NEW c \in CellsOf["EC3"]
  PROVE  Staged[c] \in Addresses("EC3")
<1>0. "EC3" \in InRam
  BY DEF InRam, Layouts
<1>1. c[1] \in Speeds \cup Temps /\ c[2] \in 0..9 /\ c = <<c[1], c[2]>>
  BY DEF CellsOf, Kept, PointsOf, Layouts, Points, MAXFANCURVESIZE
<1>2. WriteAt("EC3", c) = {b + 6 * c[2] : b \in WriteBases("EC3", c[1])}
  BY DEF WriteAt, WriteStride
<1>3. Staged[c] \in WriteAt("EC3", c)
  BY <1>1, <1>2 DEF Staged, Active, WriteBases, Speeds, Temps, MaxTemps
<1>4. DOMAIN Place["EC3"] = UNION {WriteAt("EC3", x) : x \in CellsOf["EC3"]}
  BY <1>0 DEF Place
<1> QED BY <1>0, <1>3, <1>4 DEF Addresses

-----------------------------------------------------------------------------
(* Duty cycles *)

LEMMA SetSpeedByte ==
  ASSUME NEW u, NEW r \in Nat, NEW v \in {n \in Nat : n < 256}
  PROVE  SetSpeed(u, r, v) \in Byte
<1>1. (v * 100) \div 255 \in Byte /\ (v * 100 + 127) \div 255 \in Byte
  BY DEF Byte
<1>2. Scale(r) \in Nat /\ Scale(r) > 0
  BY DEF Scale, MAX_RPM
<1>3. (v * Scale(r) + 25499) \div 25500 \in Int
  <2> DEFINE p == v * Scale(r)
  <2>1. p \in Int
    BY <1>2
  <2> HIDE DEF p
  <2>2. (p + 25499) \div 25500 \in Int
    BY <2>1
  <2> QED BY <2>2 DEF p
<1>4. ((v * Scale(r) + 25499) \div 25500) % 256 \in Byte
  BY <1>3 DEF Byte
<1> QED BY <1>1, <1>4 DEF SetSpeed

\* Rounding up to the unit of the table undoes rounding down from it.
LEMMA Rounding ==
  ASSUME NEW s \in Nat
  PROVE  /\ LET v == (s * 25500) \div 5400
            IN  v < 256 => ((v * 5400 + 25499) \div 25500) % 256 = s
         /\ LET v == (s * 255) \div 100
            IN  v < 256 => (v * 100 + 127) \div 255 = s
<1>1. ASSUME NEW v \in Int, v = (s * 25500) \div 5400, v < 256
      PROVE  ((v * 5400 + 25499) \div 25500) % 256 = s
  <2>1. v * 5400 =< s * 25500 /\ s * 25500 < v * 5400 + 5400
    BY <1>1
  <2>2. s < 256
    BY <2>1, <1>1
  <2>3. (v * 5400 + 25499) \div 25500 = s
    BY <2>1
  <2> QED BY <2>2, <2>3
<1>2. ASSUME NEW v \in Int, v = (s * 255) \div 100
      PROVE  (v * 100 + 127) \div 255 = s
  <2>1. v * 100 =< s * 255 /\ s * 255 < v * 100 + 100
    BY <1>2
  <2> QED BY <2>1
<1>3. (s * 25500) \div 5400 \in Int /\ (s * 255) \div 100 \in Int
  OBVIOUS
<1> QED BY <1>1, <1>2, <1>3

-----------------------------------------------------------------------------
(* What a store makes of a table *)

Tables == [Cells -> Byte]

LEMMA ReadTyped ==
  ASSUME TypeOK, NEW a, ReadFancurve(a) # Nothing
  PROVE  /\ ReadFancurve(a).table \in Tables
         /\ ReadFancurve(a).size \in 0..MAXFANCURVESIZE
<1>1. CASE TakesRam
  <2>1. Layout \in InRam
    BY <1>1, LayoutKnown DEF TakesRam, InRam
  <2>2. Shown \in Tables
    BY <2>1, ReadAddress DEF TypeOK, Shown, Tables, Cells
  <2>3. SizeShown \in 0..MAXFANCURVESIZE
    <3>1. Layout = "EC" => ram[SizeAt] \in Nat
      BY DEF TypeOK, Addresses, Byte
    <3>2. QED BY <3>1 DEF SizeShown, Minimum, MAXFANCURVESIZE
  <2> QED BY <1>1, <2>2, <2>3 DEF ReadFancurve
<1>2. CASE ~TakesRam /\ a /\ WmiSound(fw)
  <2>1. WmiSize(fw) \in 0..MAXFANCURVESIZE
    BY DEF TypeOK, WmiSize, Minimum, MAXFANCURVESIZE
  <2>2. WmiTable(fw) \in Tables
    BY <1>2 DEF WmiTable, WmiSound, Tables, TypeOK, Byte
  <2> QED BY <1>2, <2>1, <2>2 DEF ReadFancurve
<1>3. CASE ~TakesRam /\ ~(a /\ WmiSound(fw))
  BY <1>3 DEF ReadFancurve, TypeOK, Tables
<1> QED BY <1>1, <1>2, <1>3

LEMMA MaxRpmTyped ==
  ASSUME TypeOK, NEW j \in Nat
  PROVE  MaxRpmOf(j) \in Nat
  BY LayoutKnown DEF MaxRpmOf

LEMMA EditTyped ==
  ASSUME TypeOK, NEW f \in Fields \cup {"size"}, NEW i, NEW v \in Int, NEW j \in Nat,
         NEW curve, curve.table \in Tables, Accepted(f, i, v, curve.size)
  PROVE  Edited(curve, f, i, v, j) \in Tables
<1>1. f # "size" => Converted(f, v, j) \in Byte
  <2>1. CASE f \in Speeds
    <3>0. v \in 0..255
      BY <2>1 DEF Accepted, Speeds
    <3>1. v \in {n \in Nat : n < 256}
      BY <3>0
    <3>2. SetSpeed(conf.unit, MaxRpmOf(j), v) \in Byte
      BY <3>1, MaxRpmTyped, SetSpeedByte
    <3> QED BY <2>1, <3>2 DEF Converted
  <2>2. CASE f \notin Speeds /\ f # "size"
    BY <2>2 DEF Accepted, Converted, Byte
  <2> QED BY <2>1, <2>2
<1>2. 127 \in Byte
  BY DEF Byte
<1> QED BY <1>1, <1>2 DEF Edited, Tables

LEMMA PadTyped ==
  ASSUME NEW t \in Tables, NEW n
  PROVE  Padded(t, n) \in Tables
  BY DEF Padded, Tables, Byte

LEMMA BitTyped ==
  ASSUME NEW n \in Byte
  PROVE  /\ SetBit(n, 1) \in Byte
         /\ SetBit(n, 16) \in Byte
         /\ n - (n % 2) \in Byte
         /\ (n \div 16) % 2 = 1 => n - 16 \in Byte
<1>1. n \in Nat /\ n < 256
  BY DEF Byte
<1>2. (n \div 1) % 2 # 1 => n + 1 < 256
  BY <1>1
<1>3. (n \div 16) % 2 # 1 => n + 16 < 256
  BY <1>1
<1>4. (n \div 16) % 2 = 1 => n - 16 >= 0
  BY <1>1
<1> QED BY <1>1, <1>2, <1>3, <1>4 DEF SetBit, Byte

LEMMA WrittenTyped ==
  ASSUME TypeOK, TakesRam, NEW t \in Tables
  PROVE  Written(t) \in [Addresses(Layout) -> Byte]
<1>1. Layout \in InRam
  BY LayoutKnown DEF TakesRam, InRam
<1>2. \A a \in DOMAIN Place[Layout] : t[Place[Layout][a]] \in Byte
  BY <1>1, PlaceCell DEF Tables, Cells
<1>3. 0 \in Byte /\ \A a \in DOMAIN ram : ram[a] \in Byte /\ SetBit(ram[a], 16) \in Byte
  BY BitTyped DEF TypeOK, Byte
<1> QED BY <1>2, <1>3 DEF Written, TypeOK

LEMMA LoadedTyped ==
  ASSUME NEW l \in Layouts, l = Layout, TakesRam, NEW s \in Stock[l], NEW old \in [Addresses(l) -> Byte]
  PROVE  Loaded(s, old) \in [Addresses(l) -> Byte]
<1>1. l \in InRam
  BY DEF TakesRam, InRam
<1>2. s.size \in Byte /\ \A c \in Fields \X Points : s.table[c] \in Byte
  BY <1>1, StockBytes
<1>3. \A a \in DOMAIN Home[l] : s.table[Home[l][a]] \in Byte
  BY <1>1, <1>2, HomeCell, CellsKnown
<1> QED BY <1>2, <1>3 DEF Loaded, Byte

LEMMA StockTyped ==
  ASSUME NEW l \in Layouts, l = Layout, NEW s \in Stock[l]
  PROVE  [table |-> [c \in Cells |-> s.table[c]], size |-> s.size] \in [table : [Cells -> Nat], size : Nat]
<1>1. s \in [table : [Fields \X Points -> Nat], size : Nat]
  BY StockAssumption
<1>2. Cells \subseteq Fields \X Points
  BY CellsKnown DEF Cells
<1> QED BY <1>1, <1>2

-----------------------------------------------------------------------------
(* Types *)

LEMMA InitTyped == Init => TypeOK
<1> SUFFICES ASSUME Init
             PROVE  TypeOK
  OBVIOUS
<1>0. Layout \in Layouts
  BY ConfAssumption DEF Init, Models, Model, model_v0, model_9vcn, model_secn, model_nmcn,
     model_n2cn, model_nxcn, Layout, Layouts
<1> DEFINE blank == [a \in Addresses(Layout) |->
             IF a = LockAt(Layout) THEN 0 ELSE IF a = MinifanAt(Layout) THEN 160
             ELSE IF a = Command THEN 2 ELSE 0]
<1>1. blank \in [Addresses(Layout) -> Byte]
  BY DEF Byte
<1>2. PICK s \in Stock[Layout] :
        /\ ram = IF TakesRam THEN Loaded(s, blank) ELSE blank
        /\ fw = [table |-> [c \in Cells |-> s.table[c]], size |-> s.size]
  BY DEF Init
<1> HIDE DEF blank
<1>3. ram \in [Addresses(Layout) -> Byte]
  BY <1>0, <1>1, <1>2, LoadedTyped
<1>4. fw \in [table : [Cells -> Nat], size : Nat]
  BY <1>0, <1>2, StockTyped
<1> QED BY <1>3, <1>4 DEF Init, TypeOK

\* What a step leaves alone keeps its type.
LEMMA SameConf ==
  ASSUME UNCHANGED conf
  PROVE  Layout' = Layout /\ Cells' = Cells /\ Addresses(Layout)' = Addresses(Layout) /\ (conf' \in Confs <=> conf \in Confs)
  BY DEF Layout, Cells

LEMMA RamTyped ==
  ASSUME TypeOK, NEW f \in Fields \cup {"size"}, NEW i, NEW v \in Int, NEW j \in Nat,
         AutopointRam(f, i, v, j)
  PROVE  TypeOK'
<1> DEFINE curve == ReadFancurve(TRUE)
           t == Padded(Edited(curve, f, i, v, j), curve.size)
<1>1. curve.table \in Tables /\ curve.size \in 0..MAXFANCURVESIZE
  <2>1. curve = [table |-> Shown, size |-> SizeShown]
    BY DEF AutopointRam, ReadFancurve
  <2>2. Layout \in InRam
    BY LayoutKnown DEF AutopointRam, TakesRam, InRam
  <2>3. Shown \in Tables
    BY <2>2, ReadAddress DEF TypeOK, Shown, Tables, Cells
  <2>4. SizeShown \in 0..MAXFANCURVESIZE
    <3>1. Layout = "EC" => ram[SizeAt] \in Nat
      BY DEF TypeOK, Addresses, Byte
    <3>2. QED BY <3>1 DEF SizeShown, Minimum, MAXFANCURVESIZE
  <2> HIDE DEF curve
  <2> QED BY <2>1, <2>3, <2>4
<1>2. TakesRam /\ Accepted(f, i, v, curve.size)
  BY DEF AutopointRam
<1>3. t \in Tables
  <2> HIDE DEF curve
  <2>1. Edited(curve, f, i, v, j) \in Tables
    BY <1>1, <1>2, EditTyped
  <2> QED BY <2>1, PadTyped
<1>4. /\ ram' = IF f = "size" /\ Layout = "EC"
                THEN [Written(t) EXCEPT ![SizeAt] = curve.size] ELSE Written(t)
      /\ told' = IF <<f, i>> \in Cells /\ i < curve.size
                 THEN [cell |-> <<f, i>>, value |-> t[<<f, i>>]] ELSE Nothing
      /\ UNCHANGED <<conf, fw, fullspeed, unlocked, driver, since>>
  BY DEF AutopointRam
<1> HIDE DEF curve, t
<1>5. Written(t) \in [Addresses(Layout) -> Byte]
  BY <1>2, <1>3, WrittenTyped
<1>6. curve.size \in Byte
  BY <1>1 DEF Byte, MAXFANCURVESIZE
<1>7. ram' \in [Addresses(Layout) -> Byte]
  BY <1>4, <1>5, <1>6
<1>8. told' = Nothing \/ told' \in [cell : Cells, value : Byte]
  BY <1>3, <1>4 DEF Tables
<1> QED BY <1>4, <1>7, <1>8, SameConf DEF TypeOK, driver

LEMMA WmiTyped ==
  ASSUME TypeOK, NEW f \in Fields \cup {"size"}, NEW i, NEW v \in Int,
         NEW a \in BOOLEAN, NEW w \in BOOLEAN, NEW ok \in BOOLEAN, NEW b \in BOOLEAN,
         AutopointWmi(f, i, v, a, w, ok, b)
  PROVE  TypeOK'
<1> DEFINE curve == ReadFancurve(a)
           t == Edited(curve, f, i, v, 0)
           now == IF w THEN [fw EXCEPT !.table = t] ELSE fw
           done == ok /\ Confirmed(now, t, b)
<1>1. curve # Nothing /\ Accepted(f, i, v, curve.size)
  BY DEF AutopointWmi
<1>2. curve.table \in Tables /\ curve.size \in 0..MAXFANCURVESIZE
  BY <1>1, ReadTyped
<1>3. /\ fw' = now
      /\ cache' = KeptCopy(t, curve, done)
      /\ told' = IF done /\ <<f, i>> \in Cells THEN [cell |-> <<f, i>>, value |-> t[<<f, i>>]] ELSE Nothing
      /\ since' = IF done THEN IF w \/ conf.confirms THEN "sync" ELSE "ignored"
                  ELSE IF w THEN "failed"
                  ELSE IF a /\ WmiSound(fw) THEN "sync" ELSE since
      /\ UNCHANGED <<conf, ram, fullspeed, unlocked, fan_unlock_state, fancurve_defaults_powermode>>
  BY DEF AutopointWmi
<1>c. curve \in [table : Tables, size : 0..MAXFANCURVESIZE]
  <2>1. CASE a /\ WmiSound(fw)
    BY <1>1, <1>2, <2>1 DEF ReadFancurve
  <2>2. CASE ~(a /\ WmiSound(fw))
    <3>1. curve = [table |-> Shown, size |-> SizeShown] \/ curve = cache
      BY <2>2 DEF ReadFancurve
    <3> QED BY <1>1, <1>2, <3>1 DEF TypeOK, Tables
  <2> QED BY <2>1, <2>2
<1>4. t \in Tables
  <2> HIDE DEF curve
  <2> QED BY <1>1, <1>2, EditTyped
<1> HIDE DEF curve, t
<1>5. now \in [table : [Cells -> Nat], size : Nat]
  BY <1>4 DEF TypeOK, Tables, Byte
<1>6. KeptCopy(t, curve, done) \in [table : [Cells -> Byte], size : 0..MAXFANCURVESIZE]
  BY <1>2, <1>4, <1>c DEF KeptCopy, Tables
<1>7. told' = Nothing \/ told' \in [cell : Cells, value : Byte]
  BY <1>3, <1>4 DEF Tables
<1>8. since' \in {"sync", "load", "ignored", "failed"}
  BY <1>3 DEF TypeOK
<1> HIDE DEF now, done
<1> QED BY <1>3, <1>5, <1>6, <1>7, <1>8, SameConf DEF TypeOK

LEMMA PokeTyped ==
  ASSUME TypeOK, NEW a, NEW v \in Byte, Poke(a, v)
  PROVE  TypeOK'
<1>1. ram' \in [Addresses(Layout) -> Byte]
  BY DEF Poke, TypeOK
<1> QED BY <1>1, SameConf DEF Poke, TypeOK, driver

LEMMA LoadTyped ==
  ASSUME TypeOK, NEW s \in Stock[Layout], Load(s), fancurve_defaults_powermode' \in {0, 255}
  PROVE  TypeOK'
<1>1. ram' \in [Addresses(Layout) -> Byte]
  BY LayoutKnown, LoadedTyped DEF Load, TypeOK
<1>2. fw' \in [table : [Cells -> Nat], size : Nat]
  BY LayoutKnown, StockTyped DEF Load, TypeOK
<1> QED BY <1>1, <1>2, SameConf DEF Load, TypeOK

LEMMA RememberTyped ==
  ASSUME TypeOK, NEW a \in BOOLEAN, Remember(a)
  PROVE  /\ cache' = Nothing \/ cache' \in [table : [Cells -> Byte], size : 0..MAXFANCURVESIZE]
         /\ since' \in {"sync", "load", "ignored", "failed"}
<1>1. CASE ~TakesRam /\ a /\ WmiSound(fw)
  <2>2. WmiSize(fw) \in 0..MAXFANCURVESIZE
    BY DEF TypeOK, WmiSize, Minimum, MAXFANCURVESIZE
  <2>3. WmiTable(fw) \in [Cells -> Byte]
    BY <1>1 DEF WmiTable, WmiSound, TypeOK, Byte
  <2>4. cache' = [table |-> WmiTable(fw), size |-> WmiSize(fw)] /\ since' = "sync"
    BY <1>1 DEF Remember, ReadFancurve
  <2> QED BY <2>2, <2>3, <2>4
<1>2. CASE ~(~TakesRam /\ a /\ WmiSound(fw))
  <2>1. cache' = cache /\ since' = since
    BY <1>2 DEF Remember
  <2> QED BY <2>1 DEF TypeOK
<1> QED BY <1>1, <1>2

LEMMA DebugfsTyped ==
  ASSUME TypeOK, NEW a \in BOOLEAN, DebugfsShow(a)
  PROVE  /\ cache' = Nothing \/ cache' \in [table : [Cells -> Byte], size : 0..MAXFANCURVESIZE]
         /\ since' \in {"sync", "load", "ignored", "failed"}
<1>1. CASE Remember(a)
  BY <1>1, RememberTyped
<1>2. CASE cache' = [table |-> PartOf(fw), size |-> WmiSize(fw)] /\ since' = since
  <2>1. WmiSize(fw) \in 0..MAXFANCURVESIZE
    BY DEF TypeOK, WmiSize, Minimum, MAXFANCURVESIZE
  <2>2. ASSUME NEW c \in Cells
        PROVE  PartOf(fw)[c] \in Byte
    <3>1. CASE \A d \in Cells : d[2] <= c[2] => fw.table[d] < 256
      <4> Layout \in Layouts
        BY LayoutKnown DEF TypeOK
      <4>1. c[2] <= c[2] /\ fw.table[c] \in Nat
        BY DEF TypeOK, Cells, CellsOf, PointsOf, Points, MAXFANCURVESIZE
      <4>2. fw.table[c] \in Byte
        BY <3>1, <4>1 DEF Byte
      <4> QED BY <3>1, <4>2 DEF PartOf, WmiTable, Byte
    <3>2. CASE ~(\A d \in Cells : d[2] <= c[2] => fw.table[d] < 256)
      BY <3>2 DEF PartOf, Byte
    <3> QED BY <3>1, <3>2
  <2>3. PartOf(fw) \in [Cells -> Byte]
    BY <2>2 DEF PartOf
  <2> QED BY <1>2, <2>1, <2>3 DEF TypeOK
<1> QED BY <1>1, <1>2 DEF DebugfsShow

LEMMA StoreTyped ==
  ASSUME TypeOK, NEW f \in Fields \cup {"size"}, NEW i, NEW v \in Int, Store(f, i, v)
  PROVE  TypeOK'
<1>1. ASSUME NEW j \in JunkFor(f), AutopointRam(f, i, v, j)
      PROVE  TypeOK'
  <2>1. j \in Nat
    BY JunkAssumption DEF JunkFor
  <2> QED BY <1>1, <2>1, RamTyped
<1>2. ASSUME NEW a \in BOOLEAN, AutopointRefused(f, i, v, a)
      PROVE  TypeOK'
  <2>1. Remember(a)
    BY <1>2 DEF AutopointRefused
  <2>2. /\ cache' = Nothing \/ cache' \in [table : [Cells -> Byte], size : 0..MAXFANCURVESIZE]
        /\ since' \in {"sync", "load", "ignored", "failed"}
    BY <2>1, RememberTyped
  <2> QED BY <1>2, <2>2, SameConf DEF AutopointRefused, TypeOK
<1>3. ASSUME NEW a \in BOOLEAN, NEW w \in BOOLEAN, NEW ok \in BOOLEAN, NEW b \in BOOLEAN,
             AutopointWmi(f, i, v, a, w, ok, b)
      PROVE  TypeOK'
  BY <1>3, WmiTyped
<1> QED BY <1>1, <1>2, <1>3 DEF Store

\* The actions on the switches, and those of the EC and the firmware.
LEMMA SwitchTyped ==
  ASSUME TypeOK,
         \E on \in BOOLEAN : \/ MinifanStore(on) \/ LockStore(on) \/ FullspeedStore(on)
                             \/ \E a \in BOOLEAN : UnlockStore(on, a)
  PROVE  TypeOK'
<1>0. 0 \in Byte /\ 4 \in Byte /\ 8 \in Byte /\ 160 \in Byte
  BY DEF Byte
<1>1. ASSUME NEW on \in BOOLEAN, MinifanStore(on)
      PROVE  TypeOK'
  BY <1>0, <1>1, PokeTyped DEF MinifanStore
<1>2. ASSUME NEW on \in BOOLEAN, LockStore(on)
      PROVE  TypeOK'
  BY <1>0, <1>2, PokeTyped DEF LockStore
<1>3. ASSUME NEW on \in BOOLEAN, FullspeedStore(on)
      PROVE  TypeOK'
  <2>1. CASE Layout = "EC4"
    <3>1. Poke(Command, FullspeedBit(on))
      BY <1>3, <2>1 DEF FullspeedStore
    <3>2. ram[Command] \in Byte
      BY <2>1 DEF TypeOK, Addresses
    <3>3. FullspeedBit(on) \in Byte
      BY <3>2, BitTyped DEF FullspeedBit
    <3> QED BY <3>1, <3>3, PokeTyped
  <2>2. CASE Layout # "EC4"
    BY <1>3, <2>2, SameConf DEF FullspeedStore, TypeOK, driver
  <2> QED BY <2>1, <2>2
<1>4. ASSUME NEW on \in BOOLEAN, NEW a \in BOOLEAN, UnlockStore(on, a)
      PROVE  TypeOK'
  BY <1>4, SameConf DEF UnlockStore, TypeOK
<1> QED BY <1>1, <1>2, <1>3, <1>4

LEMMA TakeUpTyped ==
  ASSUME TypeOK, Execute \/ Ignore
  PROVE  TypeOK'
<1>0. Layout = "EC3" /\ (ram[Command] \div 16) % 2 = 1
  BY DEF Execute, Ignore, Pending
<1>1. Layout \in InRam /\ Command \in Addresses(Layout)
  BY <1>0 DEF InRam, Layouts, Addresses
<1>2. ram[Command] - 16 \in Byte
  BY <1>0, <1>1, BitTyped DEF TypeOK
<1>3. CASE Execute
  <2>1. \A a \in DOMAIN Home[Layout] : ram[Staged[Home[Layout][a]]] \in Byte
    BY <1>0, <1>1, HomeCell, StagedAddress DEF TypeOK
  <2>2. ram' \in [Addresses(Layout) -> Byte]
    BY <1>2, <1>3, <2>1 DEF Execute, TypeOK
  <2> QED BY <1>3, <2>2, SameConf DEF Execute, TypeOK, driver
<1>4. CASE Ignore
  <2>1. ram' \in [Addresses(Layout) -> Byte]
    BY <1>2, <1>4 DEF Ignore, TypeOK
  <2> QED BY <1>4, <2>1, SameConf DEF Ignore, TypeOK, driver
<1> QED BY <1>3, <1>4

LEMMA StepTyped == TypeOK /\ [Next]_vars => TypeOK'
<1> SUFFICES ASSUME TypeOK, [Next]_vars
             PROVE  TypeOK'
  OBVIOUS
<1>0. Layout \in Layouts
  BY LayoutKnown
<1>1. ASSUME NEW x \in Asks[Layout], Store(x.field, x.point, x.value)
      PROVE  TypeOK'
  <2>1. x.field \in Fields /\ x.value \in Int
    BY <1>0, AskAssumption
  <2> QED BY <1>1, <2>1, StoreTyped
<1>2. ASSUME NEW k \in Sizes, Store("size", 0, k)
      PROVE  TypeOK'
  BY <1>2, AskAssumption, StoreTyped
<1>3. ASSUME NEW a \in BOOLEAN, AutopointShow(a)
      PROVE  TypeOK'
  <2>1. Remember(a)
    BY <1>3 DEF AutopointShow
  <2>2. /\ cache' = Nothing \/ cache' \in [table : [Cells -> Byte], size : 0..MAXFANCURVESIZE]
        /\ since' \in {"sync", "load", "ignored", "failed"}
    BY <2>1, RememberTyped
  <2> QED BY <1>3, <2>2, SameConf DEF AutopointShow, TypeOK
<1>7. ASSUME NEW a \in BOOLEAN, DebugfsShow(a)
      PROVE  TypeOK'
  <2>1. /\ cache' = Nothing \/ cache' \in [table : [Cells -> Byte], size : 0..MAXFANCURVESIZE]
        /\ since' \in {"sync", "load", "ignored", "failed"}
    BY <1>7, DebugfsTyped
  <2> QED BY <1>7, <2>1, SameConf DEF DebugfsShow, TypeOK
<1>4. ASSUME NEW s \in Stock[Layout], FirmwareLoads(s) \/ DefaultsStore(s)
      PROVE  TypeOK'
  <2>1. Load(s) /\ fancurve_defaults_powermode' \in {0, 255}
    BY <1>4 DEF FirmwareLoads, DefaultsStore, TypeOK
  <2> QED BY <2>1, LoadTyped
<1>5. CASE DefaultsShow
  BY <1>5, SameConf DEF DefaultsShow, TypeOK
<1>6. CASE UNCHANGED vars
  BY <1>6, SameConf DEF vars, driver, TypeOK
<1> QED BY <1>1, <1>2, <1>3, <1>4, <1>5, <1>6, <1>7, SwitchTyped, TakeUpTyped DEF Next

\* Whatever chain of stores, loads and late take-ups happens, every register
\* holds a byte and the driver's copy a curve of at most ten points.
THEOREM TablesTyped == Spec => []TypeOK
<1> QED BY InitTyped, StepTyped, PTL DEF Spec

-----------------------------------------------------------------------------
(* Copying a curve *)

\* A curve that is read and written back is the curve it was, for every table a
\* firmware of model_secn or model_n2cn may hold.
THEOREM CopiesStable == Spec => []CopyStable
<1>1. ASSUME TypeOK
      PROVE  CopyStable
  <2> SUFFICES ASSUME conf.unit # "percent", Layout \in {"EC3", "WMI3"},
                      NEW f \in Speeds, NEW i \in Points, <<f, i>> \in Cells
               PROVE  LET s == IF TakesRam THEN Shown[<<f, i>>] ELSE WmiTable(fw)[<<f, i>>]
                          v == GetSpeed(conf.unit, MaxRpmOf(0), s)
                      IN  v < 256 => SetSpeed(conf.unit, MaxRpmOf(0), v) = s
    BY DEF CopyStable
  <2> DEFINE s == IF TakesRam THEN Shown[<<f, i>>] ELSE WmiTable(fw)[<<f, i>>]
  <2>1. s \in Nat
    <3>1. CASE TakesRam
      <4>1. Layout \in InRam
        BY <3>1, <1>1, LayoutKnown DEF TakesRam, InRam
      <4>2. Shown[<<f, i>>] \in Nat
        BY <1>1, <4>1, ReadAddress DEF TypeOK, Shown, Cells, Byte
      <4> QED BY <3>1, <4>2
    <3>2. CASE ~TakesRam
      BY <1>1, <3>2 DEF TypeOK, WmiTable
    <3> QED BY <3>1, <3>2
  <2>2. (conf = model_secn /\ MaxRpmOf(0) = 5400) \/ conf = model_n2cn
    BY <1>1, LayoutKnown DEF Models, Model, model_v0, model_9vcn, model_secn, model_nmcn,
       model_n2cn, model_nxcn, Layout, MaxRpmOf
  <2> DEFINE u == conf.unit
             r == MaxRpmOf(0)
             Back == GetSpeed(u, r, s) < 256 => SetSpeed(u, r, GetSpeed(u, r, s)) = s
  <2> HIDE DEF s
  <2>3. CASE conf = model_secn /\ MaxRpmOf(0) = 5400
    <3>1. conf.unit = "rpm" /\ Scale(5400) = 5400
      BY <2>3 DEF model_secn, Model, Scale
    <3>2. /\ GetSpeed("rpm", 5400, s) = (s * 25500) \div 5400
          /\ \A v : SetSpeed("rpm", 5400, v) = ((v * 5400 + 25499) \div 25500) % 256
      BY <3>1 DEF GetSpeed, SetSpeed
    <3>3. Back
      BY <2>1, <2>3, <3>1, <3>2, Rounding
    <3> QED BY <3>3 DEF s
  <2>4. CASE conf = model_n2cn
    <3>1. conf.unit = "nearest"
      BY <2>4 DEF model_n2cn, Model
    <3>2. /\ \A q : GetSpeed("nearest", q, s) = (s * 255) \div 100
          /\ \A q, v : SetSpeed("nearest", q, v) = (v * 100 + 127) \div 255
      BY DEF GetSpeed, SetSpeed
    <3>3. Back
      BY <2>1, <2>4, <3>1, <3>2, Rounding
    <3> QED BY <3>3 DEF s
  <2> QED BY <2>2, <2>3, <2>4
<1> QED BY <1>1, TablesTyped, PTL
-----------------------------------------------------------------------------
(* The driver's copies *)

CacheTrue == cache # Nothing /\ since = "sync" => cache.table = WmiTable(fw)
UnlockTrue == fan_unlock_state = 1 <=> unlocked

LEMMA SameTable ==
  ASSUME UNCHANGED <<conf, fw, cache, since>>
  PROVE  CacheTrue' <=> CacheTrue
  BY DEF CacheTrue, WmiTable, WmiSize, Cells, Layout

LEMMA RememberTrue ==
  ASSUME CacheTrue, NEW a \in BOOLEAN, Remember(a), UNCHANGED <<conf, fw>>
  PROVE  CacheTrue'
<1>0. WmiTable(fw)' = WmiTable(fw)
  BY DEF WmiTable, WmiSize, Cells, Layout
<1>1. CASE ~TakesRam /\ a /\ WmiSound(fw)
  <2>1. cache' = [table |-> WmiTable(fw), size |-> WmiSize(fw)] /\ since' = "sync"
    BY <1>1 DEF Remember, ReadFancurve
  <2> QED BY <1>0, <2>1 DEF CacheTrue
<1>2. CASE ~(~TakesRam /\ a /\ WmiSound(fw))
  <2>1. cache' = cache /\ since' = since
    BY <1>2 DEF Remember
  <2> QED BY <1>0, <2>1 DEF CacheTrue
<1> QED BY <1>1, <1>2

\* A table model_nxcn writes is the table it would read: no length cuts it.
LEMMA WholeTable ==
  ASSUME TypeOK, Layout = "WMI3", ~conf.confirms, NEW t \in Tables, NEW f, f.table = t
  PROVE  WmiTable(f) = t
<1>1. \A c \in Cells : c[2] < WmiSize(f)
  BY DEF Cells, CellsOf, Kept, PointsOf, Layouts, Points, MAXFANCURVESIZE, WmiSize
<1> QED BY <1>1 DEF WmiTable, Tables

LEMMA WmiTrue ==
  ASSUME TypeOK, CacheTrue, NEW f \in Fields \cup {"size"}, NEW i, NEW v \in Int,
         NEW a \in BOOLEAN, NEW w \in BOOLEAN, NEW ok \in BOOLEAN, NEW b \in BOOLEAN,
         AutopointWmi(f, i, v, a, w, ok, b)
  PROVE  CacheTrue'
<1> DEFINE curve == ReadFancurve(a)
           t == Edited(curve, f, i, v, 0)
           now == IF w THEN [fw EXCEPT !.table = t] ELSE fw
           done == ok /\ Confirmed(now, t, b)
<1>1. /\ curve # Nothing /\ Accepted(f, i, v, curve.size)
      /\ ~TakesRam
  BY DEF AutopointWmi
<1>2. /\ fw' = now
      /\ cache' = KeptCopy(t, curve, done)
      /\ since' = IF done THEN IF w \/ conf.confirms THEN "sync" ELSE "ignored"
                  ELSE IF w THEN "failed"
                  ELSE IF a /\ WmiSound(fw) THEN "sync" ELSE since
      /\ conf' = conf
  BY DEF AutopointWmi
<1>3. Layout = "WMI3"
  BY <1>1 DEF TakesRam
<1>4. curve.table \in Tables
  BY <1>1, ReadTyped
<1>5. t \in Tables
  <2> HIDE DEF curve
  <2> QED BY <1>1, <1>4, EditTyped
<1>6. WmiTable(fw)' = WmiTable(now)
  BY <1>2 DEF WmiTable, WmiSize, Cells, Layout
<1>7. CASE done /\ since' = "sync"
  <2>1. cache'.table = t
    BY <1>2, <1>7 DEF KeptCopy
  <2>2. CASE conf.confirms
    <3>1. WmiTable(now) = t
      BY <1>7, <2>2 DEF Confirmed
    <3> QED BY <1>6, <2>1, <3>1 DEF CacheTrue
  <2>3. CASE ~conf.confirms
    <3>1. w
      BY <1>2, <1>7, <2>3
    <3>2. now.table = t
      BY <3>1 DEF TypeOK
    <3> HIDE DEF now, t
    <3>3. WmiTable(now) = t
      BY <1>3, <1>5, <2>3, <3>2, WholeTable
    <3> QED BY <1>6, <2>1, <3>3 DEF CacheTrue
  <2> QED BY <2>2, <2>3
<1>8. CASE ~done /\ since' = "sync"
  <2>1. ~w /\ now = fw /\ cache' = curve
    BY <1>2, <1>8 DEF KeptCopy
  <2>2. CASE a /\ WmiSound(fw)
    <3>1. curve.table = WmiTable(fw)
      BY <1>1, <2>2 DEF ReadFancurve
    <3> QED BY <1>6, <2>1, <3>1 DEF CacheTrue
  <2>3. CASE ~(a /\ WmiSound(fw))
    <3>1. curve = cache /\ since = "sync"
      BY <1>1, <1>2, <1>8, <2>1, <2>3 DEF ReadFancurve
    <3> QED BY <1>1, <1>6, <2>1, <3>1 DEF CacheTrue
  <2> QED BY <2>2, <2>3
<1> QED BY <1>7, <1>8 DEF CacheTrue

LEMMA StoreTrue ==
  ASSUME TypeOK, CacheTrue, UnlockTrue, NEW f \in Fields \cup {"size"}, NEW i, NEW v \in Int, Store(f, i, v)
  PROVE  CacheTrue' /\ UnlockTrue'
<1>1. ASSUME NEW j \in JunkFor(f), AutopointRam(f, i, v, j)
      PROVE  CacheTrue' /\ UnlockTrue'
  <2>1. UNCHANGED <<conf, fw, cache, since, unlocked, fan_unlock_state>>
    BY <1>1 DEF AutopointRam, driver
  <2> QED BY <2>1, SameTable DEF UnlockTrue
<1>2. ASSUME NEW a \in BOOLEAN, AutopointRefused(f, i, v, a)
      PROVE  CacheTrue' /\ UnlockTrue'
  <2>1. Remember(a) /\ UNCHANGED <<conf, fw, unlocked, fan_unlock_state>>
    BY <1>2 DEF AutopointRefused
  <2> QED BY <2>1, RememberTrue DEF UnlockTrue
<1>3. ASSUME NEW a \in BOOLEAN, NEW w \in BOOLEAN, NEW ok \in BOOLEAN, NEW b \in BOOLEAN,
             AutopointWmi(f, i, v, a, w, ok, b)
      PROVE  CacheTrue' /\ UnlockTrue'
  <2>1. UNCHANGED <<unlocked, fan_unlock_state>>
    BY <1>3 DEF AutopointWmi
  <2> QED BY <1>3, <2>1, WmiTrue DEF UnlockTrue
<1> QED BY <1>1, <1>2, <1>3 DEF Store

\* A copy that is the firmware's table is of bytes, so a reading that fails in
\* the midst of the table has not met that table.
LEMMA DebugfsTrue ==
  ASSUME TypeOK, CacheTrue, NEW a \in BOOLEAN, DebugfsShow(a), UNCHANGED <<conf, fw>>
  PROVE  CacheTrue'
<1>1. CASE Remember(a)
  BY <1>1, RememberTrue
<1>2. CASE ~Remember(a)
  <2>1. WmiSize(fw) > 0 /\ ~WmiSound(fw) /\ cache # Nothing /\ since' = since
    BY <1>2 DEF DebugfsShow
  <2>2. PICK c \in Cells : c[2] < WmiSize(fw) /\ ~(fw.table[c] < 256)
    BY <2>1 DEF WmiSound
  <2>3. WmiTable(fw)[c] = fw.table[c]
    BY <2>2 DEF WmiTable
  <2>4. cache.table[c] \in Byte
    BY <2>1 DEF TypeOK
  <2>5. cache.table # WmiTable(fw)
    BY <2>2, <2>3, <2>4 DEF Byte
  <2> QED BY <2>1, <2>5 DEF CacheTrue
<1> QED BY <1>1, <1>2

LEMMA StepTrue ==
  TypeOK /\ CacheTrue /\ UnlockTrue /\ [Next]_vars => CacheTrue' /\ UnlockTrue'
<1> SUFFICES ASSUME TypeOK, CacheTrue, UnlockTrue, [Next]_vars
             PROVE  CacheTrue' /\ UnlockTrue'
  OBVIOUS
<1>0. Layout \in Layouts
  BY LayoutKnown
<1>1. ASSUME NEW x \in Asks[Layout], Store(x.field, x.point, x.value)
      PROVE  CacheTrue' /\ UnlockTrue'
  <2>1. x.field \in Fields /\ x.value \in Int
    BY <1>0, AskAssumption
  <2> QED BY <1>1, <2>1, StoreTrue
<1>2. ASSUME NEW k \in Sizes, Store("size", 0, k)
      PROVE  CacheTrue' /\ UnlockTrue'
  BY <1>2, AskAssumption, StoreTrue
<1>3. ASSUME NEW a \in BOOLEAN, AutopointShow(a)
      PROVE  CacheTrue' /\ UnlockTrue'
  <2>1. Remember(a) /\ UNCHANGED <<conf, fw, unlocked, fan_unlock_state>>
    BY <1>3 DEF AutopointShow
  <2> QED BY <2>1, RememberTrue DEF UnlockTrue
<1>7. ASSUME NEW a \in BOOLEAN, DebugfsShow(a)
      PROVE  CacheTrue' /\ UnlockTrue'
  <2>1. UNCHANGED <<conf, fw, unlocked, fan_unlock_state>>
    BY <1>7 DEF DebugfsShow
  <2> QED BY <1>7, <2>1, DebugfsTrue DEF UnlockTrue
<1>4. ASSUME NEW s \in Stock[Layout], FirmwareLoads(s) \/ DefaultsStore(s)
      PROVE  CacheTrue' /\ UnlockTrue'
  <2>1. since' = "load" /\ UNCHANGED <<unlocked, fan_unlock_state>>
    BY <1>4 DEF FirmwareLoads, DefaultsStore, Load
  <2> QED BY <2>1 DEF CacheTrue, UnlockTrue
<1>5. ASSUME NEW on \in BOOLEAN, NEW a \in BOOLEAN, UnlockStore(on, a)
      PROVE  CacheTrue' /\ UnlockTrue'
  <2>1. UNCHANGED <<conf, fw, cache, since>>
    BY <1>5 DEF UnlockStore
  <2>2. UnlockTrue'
    <3>1. CASE a
      BY <1>5, <3>1 DEF UnlockStore, UnlockTrue
    <3>2. CASE ~a
      BY <1>5, <3>2 DEF UnlockStore, UnlockTrue
    <3> QED BY <3>1, <3>2
  <2> QED BY <2>1, <2>2, SameTable
<1>6. ASSUME \/ \E on \in BOOLEAN : MinifanStore(on) \/ LockStore(on) \/ FullspeedStore(on)
             \/ DefaultsShow \/ Execute \/ Ignore \/ UNCHANGED vars
      PROVE  CacheTrue' /\ UnlockTrue'
  <2>1. UNCHANGED <<conf, fw, cache, since, unlocked, fan_unlock_state>>
    BY <1>6 DEF MinifanStore, LockStore, FullspeedStore, Poke, DefaultsShow, Execute, Ignore, vars, driver
  <2> QED BY <2>1, SameTable DEF UnlockTrue
<1> QED BY <1>1, <1>2, <1>3, <1>4, <1>5, <1>6, <1>7 DEF Next

\* The copy a store starts from when the firmware does not answer is its table,
\* as long as nothing but the driver has changed that table since, and every
\* change of the driver's was taken; fan_unlock shows the firmware's ceiling.
THEOREM DriverCopiesTrue == Spec => []CopiesTrue
<1>1. Init => CacheTrue /\ UnlockTrue
  BY DEF Init, CacheTrue, UnlockTrue
<1>2. CacheTrue /\ UnlockTrue => CopiesTrue
  BY DEF CacheTrue, UnlockTrue, CopiesTrue
<1> QED BY <1>1, <1>2, StepTrue, TablesTyped, PTL DEF Spec

-----------------------------------------------------------------------------
(* No two cells share an address *)

LEMMA CellParts ==
  ASSUME NEW l \in Layouts, NEW c \in CellsOf[l]
  PROVE  c[1] \in Kept(l) /\ c[2] \in PointsOf(l) /\ c = <<c[1], c[2]>>
  BY DEF CellsOf

LEMMA Bases ==
  /\ ReadBase("EC", "speed1") = \hC540 /\ ReadBase("EC", "speed2") = \hC550
  /\ ReadBase("EC", "accel") = \hC560 /\ ReadBase("EC", "decel") = \hC570
  /\ ReadBase("EC", "cpu_max") = \hC580 /\ ReadBase("EC", "cpu_min") = \hC590
  /\ ReadBase("EC", "gpu_max") = \hC5A0 /\ ReadBase("EC", "gpu_min") = \hC5B0
  /\ ReadBase("EC", "ic_max") = \hC5C0 /\ ReadBase("EC", "ic_min") = \hC5D0
  /\ ReadBase("EC2", "speed1") = \hC5A0 /\ ReadBase("EC2", "speed2") = \hC5A8
  /\ ReadBase("EC2", "cpu_max") = \hC550 /\ ReadBase("EC2", "cpu_min") = \hC590
  /\ ReadBase("EC2", "gpu_max") = \hC5C0 /\ ReadBase("EC2", "gpu_min") = \hC5D0
  /\ WriteBases("EC3", "speed1") = {\hCF02} /\ WriteBases("EC3", "speed2") = {\hCF3E}
  /\ WriteBases("EC3", "cpu_max") = {\hCF01} /\ WriteBases("EC3", "cpu_min") = {\hCF00}
  /\ WriteBases("EC3", "gpu_max") = {\hCF3D} /\ WriteBases("EC3", "gpu_min") = {\hCF3C}
  /\ WriteBases("EC3", "ic_max") = {\hCF79} /\ WriteBases("EC3", "ic_min") = {\hCF78}
  /\ ReadBase("EC4", "cpu_max") = \hC50A /\ ReadBase("EC4", "gpu_max") = \hC50B
  /\ ReadBase("EC4", "speed1") = \hC50C /\ ReadBase("EC4", "speed2") = \hC533
  BY DEF ReadBase, WriteBases

LEMMA Bases3 ==
  /\ ReadBase("EC3", "speed1") = \hC509 /\ ReadBase("EC3", "speed2") = \hC53C
  /\ ReadBase("EC3", "cpu_max") = \hC508 /\ ReadBase("EC3", "cpu_min") = \hC507
  /\ ReadBase("EC3", "gpu_max") = \hC53B /\ ReadBase("EC3", "gpu_min") = \hC53A
  /\ ReadBase("EC3", "ic_max") = \hCF79 /\ ReadBase("EC3", "ic_min") = \hCF78
  BY DEF ReadBase

LEMMA WrittenEC ==
  ASSUME NEW x \in CellsOf["EC"], NEW a \in WriteAt("EC", x)
  PROVE  /\ x[2] \in 0..9
         /\ \/ x[1] = "speed1" /\ a = \hC540 + x[2]
            \/ x[1] = "speed2" /\ a = \hC550 + x[2]
            \/ x[1] = "accel" /\ a = \hC560 + x[2]
            \/ x[1] = "decel" /\ a = \hC570 + x[2]
            \/ x[1] = "cpu_max" /\ a = \hC580 + x[2]
            \/ x[1] = "cpu_min" /\ a = \hC590 + x[2]
            \/ x[1] = "gpu_max" /\ a = \hC5A0 + x[2]
            \/ x[1] = "gpu_min" /\ a = \hC5B0 + x[2]
            \/ x[1] = "ic_max" /\ a = \hC5C0 + x[2]
            \/ x[1] = "ic_min" /\ a = \hC5D0 + x[2]
<1>1. x[1] \in Fields /\ x[2] \in 0..9
  BY CellParts DEF Layouts, Kept, PointsOf, Points, MAXFANCURVESIZE
<1>2. a = ReadBase("EC", x[1]) + x[2]
  BY <1>1 DEF WriteAt, WriteBases, WriteStride
<1>3. x[1] \in {"speed1", "speed2", "accel", "decel", "cpu_max", "cpu_min", "gpu_max", "gpu_min", "ic_max", "ic_min"}
  BY <1>1 DEF Fields, Speeds, Temps, MaxTemps
<1> QED BY <1>1, <1>2, <1>3, Bases

LEMMA OneCellEC ==
  ASSUME NEW c \in CellsOf["EC"], NEW d \in CellsOf["EC"], NEW a \in WriteAt("EC", c), a \in WriteAt("EC", d)
  PROVE  c = d
<1>1. c[1] = d[1] /\ c[2] = d[2]
  BY WrittenEC
<1> QED BY <1>1, CellParts DEF Layouts

LEMMA WrittenEC2 ==
  ASSUME NEW x \in CellsOf["EC2"], NEW a \in WriteAt("EC2", x)
  PROVE  /\ x[2] \in 0..7
         /\ \/ x[1] = "speed1" /\ a = \hC5A0 + x[2]
            \/ x[1] = "speed2" /\ a = \hC5A8 + x[2]
            \/ x[1] = "cpu_max" /\ (a = \hC550 + x[2] \/ a = \hC558 + x[2])
            \/ x[1] = "cpu_min" /\ (a = \hC590 + x[2] \/ a = \hC598 + x[2])
            \/ x[1] = "gpu_max" /\ (a = \hC5C0 + x[2] \/ a = \hC5C8 + x[2])
            \/ x[1] = "gpu_min" /\ (a = \hC5D0 + x[2] \/ a = \hC5D8 + x[2])
<1>1. x[1] \in Speeds \cup {"cpu_max", "cpu_min", "gpu_max", "gpu_min"} /\ x[2] \in 0..7
  BY CellParts DEF Layouts, Kept, PointsOf
<1>2. a = ReadBase("EC2", x[1]) + x[2] \/ (x[1] \notin Speeds /\ a = ReadBase("EC2", x[1]) + 8 + x[2])
  BY <1>1 DEF WriteAt, WriteBases, WriteStride
<1>3. x[1] \in {"speed1", "speed2", "cpu_max", "cpu_min", "gpu_max", "gpu_min"}
  BY <1>1 DEF Speeds
<1> QED BY <1>1, <1>2, <1>3, Bases DEF Speeds

LEMMA OneCellEC2 ==
  ASSUME NEW c \in CellsOf["EC2"], NEW d \in CellsOf["EC2"], NEW a \in WriteAt("EC2", c), a \in WriteAt("EC2", d)
  PROVE  c = d
<1>1. c[1] = d[1] /\ c[2] = d[2]
  BY WrittenEC2
<1> QED BY <1>1, CellParts DEF Layouts

LEMMA WrittenEC3 ==
  ASSUME NEW x \in CellsOf["EC3"], NEW a \in WriteAt("EC3", x)
  PROVE  /\ x[2] \in 0..9
         /\ \/ x[1] = "speed1" /\ a = \hCF02 + 6 * x[2]
            \/ x[1] = "speed2" /\ a = \hCF3E + 6 * x[2]
            \/ x[1] = "cpu_max" /\ a = \hCF01 + 6 * x[2]
            \/ x[1] = "cpu_min" /\ a = \hCF00 + 6 * x[2]
            \/ x[1] = "gpu_max" /\ a = \hCF3D + 6 * x[2]
            \/ x[1] = "gpu_min" /\ a = \hCF3C + 6 * x[2]
            \/ x[1] = "ic_max" /\ a = \hCF79 + 6 * x[2]
            \/ x[1] = "ic_min" /\ a = \hCF78 + 6 * x[2]
<1>1. x[1] \in Speeds \cup Temps /\ x[2] \in 0..9
  BY CellParts DEF Layouts, Kept, PointsOf, Points, MAXFANCURVESIZE
<1>2. PICK b \in WriteBases("EC3", x[1]) : a = b + 6 * x[2]
  BY <1>1 DEF WriteAt, WriteStride
<1>3. x[1] \in {"speed1", "speed2", "cpu_max", "cpu_min", "gpu_max", "gpu_min", "ic_max", "ic_min"}
  BY <1>1 DEF Speeds, Temps, MaxTemps
<1> QED BY <1>1, <1>2, <1>3, Bases

LEMMA OneCellEC3 ==
  ASSUME NEW c \in CellsOf["EC3"], NEW d \in CellsOf["EC3"], NEW a \in WriteAt("EC3", c), a \in WriteAt("EC3", d)
  PROVE  c = d
<1>1. c[1] = d[1] /\ c[2] = d[2]
  BY WrittenEC3
<1> QED BY <1>1, CellParts DEF Layouts

LEMMA WrittenEC4 ==
  ASSUME NEW x \in CellsOf["EC4"], NEW a \in WriteAt("EC4", x)
  PROVE  /\ x[2] \in 0..9
         /\ \/ x[1] = "cpu_max" /\ (a = \hC50A + 3 * x[2] \/ a = \hC531 + 3 * x[2])
            \/ x[1] = "gpu_max" /\ (a = \hC50B + 3 * x[2] \/ a = \hC532 + 3 * x[2])
            \/ x[1] = "speed1" /\ a = \hC50C + 3 * x[2]
            \/ x[1] = "speed2" /\ a = \hC533 + 3 * x[2]
<1>1. x[1] \in Speeds \cup {"cpu_max", "gpu_max"} /\ x[2] \in 0..9
  BY CellParts DEF Layouts, Kept, PointsOf, Points, MAXFANCURVESIZE
<1>2. PICK b \in WriteBases("EC4", x[1]) : a = b + 3 * x[2]
  BY <1>1 DEF WriteAt, WriteStride
<1> QED BY <1>1, <1>2 DEF WriteBases, Speeds

LEMMA OneCellEC4 ==
  ASSUME NEW c \in CellsOf["EC4"], NEW d \in CellsOf["EC4"], NEW a \in WriteAt("EC4", c), a \in WriteAt("EC4", d)
  PROVE  c = d
<1>1. c[1] = d[1] /\ c[2] = d[2]
  BY WrittenEC4
<1> QED BY <1>1, CellParts DEF Layouts

\* An address a store writes belongs to one cell.
LEMMA PlaceOf ==
  ASSUME NEW l \in InRam, NEW c \in CellsOf[l], NEW a \in WriteAt(l, c)
  PROVE  a \in DOMAIN Place[l] /\ Place[l][a] = c
<1>1. DOMAIN Place[l] = UNION {WriteAt(l, x) : x \in CellsOf[l]}
  BY DEF Place
<1>2. a \in DOMAIN Place[l]
  BY <1>1
<1>3. Place[l][a] = CHOOSE x \in CellsOf[l] : a \in WriteAt(l, x)
  BY <1>1, <1>2 DEF Place
<1>4. \A x \in CellsOf[l] : a \in WriteAt(l, x) => x = c
  BY OneCellEC, OneCellEC2, OneCellEC3, OneCellEC4 DEF InRam, Layouts
<1> QED BY <1>2, <1>3, <1>4

\* What is read is what was written; on EC3, once the EC has taken it up.
LEMMA ReadWritten ==
  ASSUME NEW l \in InRam, l # "EC3", NEW c \in CellsOf[l]
  PROVE  ReadAt[l][c] \in WriteAt(l, c)
<1>0. l \in {"EC", "EC2", "EC4"} /\ l \in Layouts
  BY DEF InRam, Layouts
<1>1. c[1] \in Kept(l) /\ c[2] \in Int
  BY <1>0, CellParts DEF PointsOf, Points, MAXFANCURVESIZE
<1>2. ReadAt[l][c] = ReadBase(l, c[1]) + WriteStride(l) * c[2]
  BY <1>0 DEF ReadAt, ReadStride, WriteStride
<1>3. ReadBase(l, c[1]) \in WriteBases(l, c[1])
  <2>1. CASE l \in {"EC", "EC2"}
    BY <2>1 DEF WriteBases
  <2>2. CASE l = "EC4"
    <3>1. c[1] \in {"speed1", "speed2", "cpu_max", "gpu_max"}
      BY <1>1, <2>2 DEF Kept, Speeds
    <3>2. /\ WriteBases("EC4", "cpu_max") = {\hC50A, \hC531} /\ WriteBases("EC4", "gpu_max") = {\hC50B, \hC532}
          /\ WriteBases("EC4", "speed1") = {\hC50C} /\ WriteBases("EC4", "speed2") = {\hC533}
      BY DEF WriteBases
    <3> QED BY <2>2, <3>1, <3>2, Bases
  <2> QED BY <1>0, <2>1, <2>2
<1> QED BY <1>2, <1>3 DEF WriteAt

LEMMA StagedWritten ==
  ASSUME NEW c \in CellsOf["EC3"]
  PROVE  Staged[c] \in WriteAt("EC3", c)
<1>1. c[1] \in Speeds \cup Temps
  BY CellParts DEF Layouts, Kept
<1>2. WriteAt("EC3", c) = {b + 6 * c[2] : b \in WriteBases("EC3", c[1])}
  BY DEF WriteAt, WriteStride
<1> QED BY <1>1, <1>2 DEF Staged, Active, WriteBases, Speeds, Temps, MaxTemps

LEMMA BitSet == ASSUME NEW n \in Byte PROVE (SetBit(n, 16) \div 16) % 2 = 1
<1>1. n \in Nat
  BY DEF Byte
<1>2. (n \div 16) % 2 # 1 => ((n + 16) \div 16) % 2 = 1
  BY <1>1
<1> QED BY <1>1, <1>2 DEF SetBit

-----------------------------------------------------------------------------
(* Addresses that are none of the table's *)

\* The addresses a store writes lie in these ranges.
LEMMA PlaceRange ==
  ASSUME NEW l \in InRam, NEW a \in DOMAIN Place[l]
  PROVE  /\ l = "EC" => a \in \hC540..\hC5DF
         /\ l = "EC2" => a \in \hC550..\hC5DF
         /\ l = "EC3" => a \in \hCF00..\hCFB5
         /\ l = "EC4" => a \in \hC50A..\hC551
<1>1. PICK c \in CellsOf[l] : a \in WriteAt(l, c)
  BY DEF Place
<1>2. CASE l = "EC"
  <2>1. /\ c[2] \in 0..9
        /\ \E b \in {\hC540, \hC550, \hC560, \hC570, \hC580, \hC590, \hC5A0, \hC5B0, \hC5C0, \hC5D0} :
             a = b + c[2]
    BY <1>1, <1>2, WrittenEC
  <2> QED BY <1>2, <2>1
<1>3. CASE l = "EC2"
  <2>1. /\ c[2] \in 0..7
        /\ \E b \in {\hC5A0, \hC5A8, \hC550, \hC558, \hC590, \hC598, \hC5C0, \hC5C8, \hC5D0, \hC5D8} :
             a = b + c[2]
    BY <1>1, <1>3, WrittenEC2
  <2> QED BY <1>3, <2>1
<1>4. CASE l = "EC3"
  <2>1. /\ c[2] \in 0..9
        /\ \E b \in {\hCF02, \hCF3E, \hCF01, \hCF00, \hCF3D, \hCF3C, \hCF79, \hCF78} :
             a = b + 6 * c[2]
    BY <1>1, <1>4, WrittenEC3
  <2> QED BY <1>4, <2>1
<1>5. CASE l = "EC4"
  <2>1. /\ c[2] \in 0..9
        /\ \E b \in {\hC50A, \hC531, \hC50B, \hC532, \hC50C, \hC533} : a = b + 3 * c[2]
    BY <1>1, <1>5, WrittenEC4
  <2> QED BY <1>5, <2>1
<1> QED BY <1>2, <1>3, <1>4, <1>5 DEF InRam, Layouts

\* The switches, the command byte, the number of points and the counters lie
\* elsewhere; but 0xC5A0 is the first speed of layout EC2.
LEMMA Apart ==
  ASSUME NEW l \in InRam
  PROVE  /\ l # "EC2" => LockAt(l) \notin DOMAIN Place[l]
         /\ l \in {"EC", "EC3"} => MinifanAt(l) \notin DOMAIN Place[l]
         /\ Command \notin DOMAIN Place[l] /\ SizeAt \notin (IF l = "EC" THEN DOMAIN Place[l] ELSE {})
         /\ l = "EC2" => LockAt(l) = \hC5A0 /\ MinifanAt(l) = \hC5A0
         /\ LockAt(l) \notin Resets(l) /\ MinifanAt(l) \notin Resets(l)
         /\ Command \notin Resets(l) /\ SizeAt \notin Resets(l)
         /\ LockAt(l) # Command /\ MinifanAt(l) # Command /\ SizeAt # Command
         /\ LockAt(l) # SizeAt /\ MinifanAt(l) # SizeAt
<1>1. l \in {"EC", "EC2", "EC3", "EC4"}
  BY DEF InRam, Layouts
<1>2. /\ LockAt(l) = IF l \in {"EC2", "EC3"} THEN \hC5A0 ELSE \hC4AB
      /\ MinifanAt(l) = IF l \in {"EC2", "EC3"} THEN \hC5A0 ELSE \hC536
      /\ Command = \hCFB6 /\ SizeAt = \hC535
  BY DEF LockAt, MinifanAt, Command, SizeAt
<1>3. Resets(l) \subseteq {\hC534, \hC5FE, \hC5FF, \hC634, \hC635, \hC636}
  <2>1. CASE l = "EC"
    BY <2>1 DEF Resets
  <2>2. CASE l = "EC2"
    BY <2>2 DEF Resets
  <2>3. CASE l \in {"EC3", "EC4"}
    BY <2>3 DEF Resets
  <2> QED BY <1>1, <2>1, <2>2, <2>3
<1>4. l # "EC2" => LockAt(l) \notin DOMAIN Place[l]
  BY <1>1, <1>2, PlaceRange
<1>5. l \in {"EC", "EC3"} => MinifanAt(l) \notin DOMAIN Place[l]
  BY <1>1, <1>2, PlaceRange
<1>6. Command \notin DOMAIN Place[l] /\ SizeAt \notin (IF l = "EC" THEN DOMAIN Place[l] ELSE {})
  BY <1>1, <1>2, PlaceRange
<1>7. /\ LockAt(l) \notin Resets(l) /\ MinifanAt(l) \notin Resets(l)
      /\ Command \notin Resets(l) /\ SizeAt \notin Resets(l)
  BY <1>2, <1>3
<1> QED BY <1>2, <1>4, <1>5, <1>6, <1>7

\* Where the EC of layout EC3 runs its table.
LEMMA ActiveEC3 ==
  ASSUME NEW x \in CellsOf["EC3"]
  PROVE  /\ x[2] \in 0..9 /\ ReadAt["EC3"][x] = Active[x]
         /\ \/ x[1] = "speed1" /\ Active[x] = \hC509 + 3 * x[2]
            \/ x[1] = "speed2" /\ Active[x] = \hC53C + 3 * x[2]
            \/ x[1] = "cpu_max" /\ Active[x] = \hC508 + 3 * x[2]
            \/ x[1] = "cpu_min" /\ Active[x] = \hC507 + 3 * x[2]
            \/ x[1] = "gpu_max" /\ Active[x] = \hC53B + 3 * x[2]
            \/ x[1] = "gpu_min" /\ Active[x] = \hC53A + 3 * x[2]
            \/ x[1] = "ic_max" /\ Active[x] = \hCF79 + 6 * x[2] /\ Staged[x] = Active[x]
            \/ x[1] = "ic_min" /\ Active[x] = \hCF78 + 6 * x[2] /\ Staged[x] = Active[x]
<1>1. x[1] \in Speeds \cup Temps /\ x[2] \in 0..9
  BY CellParts DEF Layouts, Kept, PointsOf, Points, MAXFANCURVESIZE
<1>2. x[1] \in {"speed1", "speed2", "cpu_max", "cpu_min", "gpu_max", "gpu_min", "ic_max", "ic_min"}
  BY <1>1 DEF Speeds, Temps, MaxTemps
<1>3. "EC3" \in InRam
  BY DEF InRam, Layouts
<1>4. ReadAt["EC3"][x] = ReadBase("EC3", x[1]) + ReadStride("EC3", x[1]) * x[2]
  BY <1>3 DEF ReadAt
<1>5. /\ Active[x] = CASE x[1] = "speed1" -> \hC509 + 3 * x[2] [] x[1] = "speed2" -> \hC53C + 3 * x[2]
            [] x[1] = "cpu_max" -> \hC508 + 3 * x[2] [] x[1] = "cpu_min" -> \hC507 + 3 * x[2]
            [] x[1] = "gpu_max" -> \hC53B + 3 * x[2] [] x[1] = "gpu_min" -> \hC53A + 3 * x[2]
            [] OTHER -> (IF x[1] = "ic_max" THEN \hCF79 ELSE \hCF78) + 6 * x[2]
      /\ x[1] \in {"ic_max", "ic_min"} => Staged[x] = Active[x]
  BY DEF Active, Staged
<1>6. CASE x[1] \in {"ic_max", "ic_min"}
  <2>1. ReadStride("EC3", x[1]) = 6
    BY <1>6 DEF ReadStride
  <2> QED BY <1>1, <1>4, <1>5, <1>6, <2>1, Bases3
<1>7. CASE x[1] \notin {"ic_max", "ic_min"}
  <2>1. ReadStride("EC3", x[1]) = 3
    BY <1>7 DEF ReadStride
  <2> QED BY <1>1, <1>2, <1>4, <1>5, <1>7, <2>1, Bases3
<1> QED BY <1>6, <1>7

\* The EC keeps a cell where the driver reads it.
LEMMA HomeOf ==
  ASSUME NEW l \in InRam, NEW c \in CellsOf[l]
  PROVE  ReadAt[l][c] \in DOMAIN Home[l] /\ Home[l][ReadAt[l][c]] = c
<1>1. CASE l # "EC3"
  <2>1. Home[l] = Place[l]
    BY <1>1 DEF Home
  <2> QED BY <1>1, <2>1, ReadWritten, PlaceOf
<1>2. CASE l = "EC3"
  <2>1. Home[l] = [x \in {Active[d] : d \in CellsOf[l]} |-> CHOOSE d \in CellsOf[l] : x = Active[d]]
    BY <1>2 DEF Home
  <2>2. ReadAt[l][c] = Active[c] /\ Active[c] \in {Active[d] : d \in CellsOf[l]}
    BY <1>2, ActiveEC3
  <2>3. ASSUME NEW d \in CellsOf[l], Active[d] = Active[c] PROVE d = c
    <3>1. d[1] = c[1] /\ d[2] = c[2]
      BY <1>2, <2>3, ActiveEC3
    <3> QED BY <1>2, <3>1, CellParts DEF Layouts
  <2>4. Home[l][Active[c]] = CHOOSE d \in CellsOf[l] : Active[c] = Active[d]
    BY <2>1, <2>2
  <2> QED BY <2>1, <2>2, <2>3, <2>4
<1> QED BY <1>1, <1>2

\* The table the EC of layout EC3 is given, and the one it runs, overlap in the
\* temperatures of the IC alone.
LEMMA HandedOver ==
  ASSUME NEW c \in CellsOf["EC3"]
  PROVE  \/ Active[c] \notin DOMAIN Place["EC3"] /\ Staged[c] \notin DOMAIN Home["EC3"]
         \/ Staged[c] = Active[c]
<1>0. "EC3" \in InRam
  BY DEF InRam, Layouts
<1>1. SUFFICES ASSUME Staged[c] # Active[c]
               PROVE  Active[c] \notin DOMAIN Place["EC3"] /\ Staged[c] \notin DOMAIN Home["EC3"]
  OBVIOUS
<1>2. Active[c] < \hC560
  BY <1>1, ActiveEC3
<1>3. Active[c] \notin DOMAIN Place["EC3"]
  BY <1>0, <1>2, PlaceRange
<1>4. Staged[c] \in \hCF00..\hCF76
  <2>1. Staged[c] \in WriteAt("EC3", c)
    BY StagedWritten
  <2>2. c[1] \notin {"ic_max", "ic_min"}
    BY <1>1, ActiveEC3
  <2> QED BY <2>1, <2>2, WrittenEC3
<1>5. ASSUME Staged[c] \in DOMAIN Home["EC3"] PROVE FALSE
  <2>1. PICK d \in CellsOf["EC3"] : Staged[c] = Active[d]
    BY <1>0, <1>5 DEF Home
  <2> QED BY <1>4, <2>1, ActiveEC3
<1> QED BY <1>3, <1>5

LEMMA HomeApart ==
  ASSUME NEW l \in InRam
  PROVE  Command \notin DOMAIN Home[l] /\ \hC5A0 \notin (IF l = "EC3" THEN DOMAIN Home[l] ELSE {})
<1>1. CASE l # "EC3"
  BY <1>1, Apart DEF Home
<1>2. CASE l = "EC3"
  <2>1. ASSUME NEW a \in DOMAIN Home[l] PROVE a # Command /\ a # \hC5A0
    <3>1. PICK d \in CellsOf["EC3"] : a = Active[d]
      BY <1>2, <2>1 DEF Home
    <3>2. Command = \hCFB6
      BY DEF Command
    <3> QED BY <3>1, <3>2, ActiveEC3
  <2> QED BY <1>2, <2>1
<1> QED BY <1>1, <1>2

-----------------------------------------------------------------------------
(* A store that reports success is in effect *)

LEMMA SizeNoCell ==
  ASSUME TypeOK, NEW i
  PROVE  <<"size", i>> \notin Cells
<1>1. Kept(Layout) \subseteq Fields
  BY LayoutKnown DEF Kept, Layouts, Fields, Speeds, Temps, MaxTemps
<1>2. "size" \notin Fields
  BY DEF Fields, Speeds, Temps, MaxTemps
<1> QED BY <1>1, <1>2, LayoutKnown DEF Cells, CellsOf

\* Every address but the number of points is as write_fancurve of table t leaves it.
Stored(t) == \A a \in DOMAIN ram : ~(Layout = "EC" /\ a = SizeAt) => ram'[a] = Written(t)[a]

\* What runs, or is to run next, after a store on a model that keeps the table in EC RAM.
LEMMA AskedWritten ==
  ASSUME TypeOK, TakesRam, NEW t \in Tables, Stored(t), UNCHANGED conf, NEW c \in Cells
  PROVE  Asked'[c] = t[c] /\ (Running'[c] = t[c] \/ Running'[c] = Running[c])
<1>0. Layout \in InRam /\ Layout' = Layout /\ Cells' = Cells /\ TakesRam' /\ c \in CellsOf[Layout]
  BY LayoutKnown, SameConf DEF TakesRam, InRam, Cells, Layout
<1>1. ASSUME NEW a \in WriteAt(Layout, c)
      PROVE  ram'[a] = t[c]
  <2>1. a \in DOMAIN Place[Layout] /\ Place[Layout][a] = c
    BY <1>0, <1>1, PlaceOf
  <2>2. a \in DOMAIN ram
    BY <1>0, <2>1 DEF TypeOK, Addresses
  <2>3. ~(Layout = "EC" /\ a = SizeAt)
    BY <1>0, <2>1, Apart
  <2> QED BY <2>1, <2>2, <2>3 DEF Written, Stored
<1>2. CASE Layout # "EC3"
  <2>1. ReadAt[Layout][c] \in WriteAt(Layout, c)
    BY <1>0, <1>2, ReadWritten
  <2>2. Shown'[c] = ram'[ReadAt[Layout][c]]
    BY <1>0 DEF Shown
  <2>3. ~Pending'
    BY <1>0, <1>2 DEF Pending
  <2>4. Asked' = Shown' /\ Running' = Shown'
    BY <1>0, <2>3 DEF Asked, Running
  <2> QED BY <1>1, <2>1, <2>2, <2>4
<1>3. CASE Layout = "EC3"
  <2>1. Staged[c] \in WriteAt("EC3", c)
    BY <1>0, <1>3, StagedWritten
  <2>2. Command \in DOMAIN ram /\ ram[Command] \in Byte
    BY <1>3 DEF TypeOK, Addresses
  <2>3. Command \notin Resets("EC3") /\ Command \notin DOMAIN Place["EC3"]
    BY <1>0, <1>3, Apart
  <2>4. ram'[Command] = SetBit(ram[Command], 16)
    BY <1>3, <2>2, <2>3 DEF Written, Stored
  <2>5. Pending'
    BY <1>0, <1>3, <2>2, <2>4, BitSet DEF Pending
  <2>6. Asked'[c] = ram'[Staged[c]]
    BY <1>0, <2>5 DEF Asked
  <2>7. ReadAt["EC3"][c] = Active[c] /\ Active[c] \in DOMAIN ram
    BY <1>0, <1>3, ActiveEC3, ReadAddress DEF TypeOK
  <2>8. Running[c] = ram[Active[c]] /\ Running'[c] = ram'[Active[c]]
    BY <1>0, <1>3, <2>7 DEF Running, Shown
  <2>9. CASE Staged[c] = Active[c]
    BY <1>1, <1>3, <2>1, <2>6, <2>8, <2>9
  <2>10. CASE Active[c] \notin DOMAIN Place["EC3"]
    <3>1. Active[c] # Command /\ Active[c] \notin Resets("EC3")
      <4>1. Resets("EC3") = {} /\ Command = \hCFB6
        BY DEF Resets, Command
      <4> QED BY <1>0, <1>3, <4>1, ActiveEC3
    <3>2. ram'[Active[c]] = ram[Active[c]]
      BY <1>3, <2>7, <2>10, <3>1 DEF Written, Stored
    <3> QED BY <1>1, <1>3, <2>1, <2>6, <2>8, <3>2
  <2> QED BY <1>0, <1>3, <2>9, <2>10, HandedOver
<1> QED BY <1>2, <1>3

LEMMA RamConfirmed ==
  ASSUME TypeOK, NEW f \in Fields \cup {"size"}, NEW i, NEW v \in Int, NEW j \in Nat,
         AutopointRam(f, i, v, j)
  PROVE  StoreConfirmed'
<1> DEFINE curve == ReadFancurve(TRUE)
           t == Padded(Edited(curve, f, i, v, j), curve.size)
<1>1. curve # Nothing => curve.table \in Tables
  BY ReadTyped
<1>2. /\ TakesRam /\ Accepted(f, i, v, curve.size)
      /\ ram' = IF f = "size" /\ Layout = "EC"
                THEN [Written(t) EXCEPT ![SizeAt] = curve.size] ELSE Written(t)
      /\ told' = IF <<f, i>> \in Cells /\ i < curve.size
                 THEN [cell |-> <<f, i>>, value |-> t[<<f, i>>]] ELSE Nothing
      /\ UNCHANGED conf
  BY DEF AutopointRam
<1>3. t \in Tables
  <2>1. curve = [table |-> Shown, size |-> SizeShown]
    BY <1>2 DEF ReadFancurve
  <2>2. Shown \in Tables
    BY <1>2, LayoutKnown, ReadAddress DEF TypeOK, Shown, Tables, Cells, TakesRam, InRam
  <2> HIDE DEF curve
  <2>3. curve.table \in Tables
    BY <2>1, <2>2
  <2>4. Edited(curve, f, i, v, j) \in Tables
    BY <1>2, <2>3, EditTyped
  <2> QED BY <2>4, PadTyped
<1> HIDE DEF curve, t
<1>4. CASE <<f, i>> \in Cells /\ i < curve.size
  <2>1. f # "size"
    BY <1>4, SizeNoCell
  <2>2. ram' = Written(t)
    BY <1>2, <2>1
  <2>3. Asked'[<<f, i>>] = t[<<f, i>>]
    BY <1>2, <1>3, <1>4, <2>2, AskedWritten DEF Stored
  <2>4. told' = [cell |-> <<f, i>>, value |-> t[<<f, i>>]]
    BY <1>2, <1>4
  <2> QED BY <2>3, <2>4 DEF StoreConfirmed
<1>5. CASE ~(<<f, i>> \in Cells /\ i < curve.size)
  BY <1>2, <1>5 DEF StoreConfirmed
<1> QED BY <1>4, <1>5

LEMMA WmiConfirmed ==
  ASSUME NEW f, NEW i, NEW v, NEW a, NEW w, NEW ok, NEW b, AutopointWmi(f, i, v, a, w, ok, b)
  PROVE  StoreConfirmed'
<1> DEFINE curve == ReadFancurve(a)
           t == Edited(curve, f, i, v, 0)
           now == IF w THEN [fw EXCEPT !.table = t] ELSE fw
           done == ok /\ Confirmed(now, t, b)
<1>1. /\ ~TakesRam
      /\ fw' = now
      /\ told' = IF done /\ <<f, i>> \in Cells THEN [cell |-> <<f, i>>, value |-> t[<<f, i>>]] ELSE Nothing
      /\ UNCHANGED conf
  BY DEF AutopointWmi
<1> HIDE DEF curve, t, now
<1>2. CASE done /\ <<f, i>> \in Cells
  <2> SUFFICES ASSUME conf.confirms
               PROVE  Asked'[<<f, i>>] = t[<<f, i>>]
    <3>1. told'.cell = <<f, i>> /\ told'.value = t[<<f, i>>] /\ ~TakesRam' /\ conf' = conf
      BY <1>1, <1>2 DEF TakesRam, Layout
    <3> QED BY <3>1 DEF StoreConfirmed
  <2>1. WmiTable(now) = t
    BY <1>2 DEF Confirmed
  <2>2. WmiTable(fw)' = WmiTable(now)
    BY <1>1 DEF WmiTable, WmiSize, Cells, Layout
  <2>3. Asked' = WmiTable(fw)'
    BY <1>1 DEF Asked, Pending, Running, TakesRam, Layout
  <2> QED BY <2>1, <2>2, <2>3
<1>3. CASE ~(done /\ <<f, i>> \in Cells)
  BY <1>1, <1>3 DEF StoreConfirmed
<1> QED BY <1>2, <1>3

LEMMA StepConfirmed ==
  TypeOK /\ StoreConfirmed /\ [Next]_vars => StoreConfirmed'
<1> SUFFICES ASSUME TypeOK, StoreConfirmed, [Next]_vars
             PROVE  StoreConfirmed'
  OBVIOUS
<1>1. ASSUME NEW f \in Fields \cup {"size"}, NEW i, NEW v \in Int, Store(f, i, v)
      PROVE  StoreConfirmed'
  <2>1. ASSUME NEW j \in JunkFor(f), AutopointRam(f, i, v, j)
        PROVE  StoreConfirmed'
    <3>1. j \in Nat
      BY JunkAssumption DEF JunkFor
    <3> QED BY <2>1, <3>1, RamConfirmed
  <2>2. ASSUME NEW a \in BOOLEAN, AutopointRefused(f, i, v, a)
        PROVE  StoreConfirmed'
    BY <2>2 DEF AutopointRefused, StoreConfirmed
  <2>3. ASSUME NEW a \in BOOLEAN, NEW w \in BOOLEAN, NEW ok \in BOOLEAN, NEW b \in BOOLEAN,
               AutopointWmi(f, i, v, a, w, ok, b)
        PROVE  StoreConfirmed'
    BY <2>3, WmiConfirmed
  <2> QED BY <1>1, <2>1, <2>2, <2>3 DEF Store
<1>2. ASSUME NEW x \in Asks[Layout], Store(x.field, x.point, x.value)
      PROVE  StoreConfirmed'
  <2>1. x.field \in Fields /\ x.value \in Int
    BY LayoutKnown, AskAssumption
  <2> QED BY <1>1, <1>2, <2>1
<1>3. ASSUME NEW k \in Sizes, Store("size", 0, k)
      PROVE  StoreConfirmed'
  BY <1>1, <1>3, AskAssumption
<1>4. ASSUME \/ \E on \in BOOLEAN : MinifanStore(on) \/ LockStore(on) \/ FullspeedStore(on)
             \/ \E on, a \in BOOLEAN : UnlockStore(on, a)
             \/ \E s \in Stock[Layout] : FirmwareLoads(s) \/ DefaultsStore(s)
             \/ Execute \/ Ignore
      PROVE  StoreConfirmed'
  <2>1. told' = Nothing
    BY <1>4 DEF MinifanStore, LockStore, FullspeedStore, Poke, UnlockStore, FirmwareLoads,
       DefaultsStore, Load, Execute, Ignore
  <2> QED BY <2>1 DEF StoreConfirmed
<1>5. ASSUME (\E a \in BOOLEAN : AutopointShow(a) \/ DebugfsShow(a)) \/ DefaultsShow \/ UNCHANGED vars
      PROVE  StoreConfirmed'
  <2>1. UNCHANGED <<conf, ram, fw, told>>
    BY <1>5 DEF AutopointShow, DebugfsShow, DefaultsShow, vars
  <2> QED BY <2>1 DEF StoreConfirmed, Asked, Running, Pending, Shown, WmiTable, WmiSize,
             TakesRam, Cells, Layout
<1> QED BY <1>2, <1>3, <1>4, <1>5 DEF Next

\* A store that reports success is in effect on every layout: no other cell is kept at
\* its address, so the cell it named has its value in the table that runs, or in the one
\* the EC was told to take up; and model_n2cn has read it back from the firmware.
THEOREM StoresConfirmed == Spec => []StoreConfirmed
<1>1. Init => StoreConfirmed
  BY DEF Init, StoreConfirmed
<1> QED BY <1>1, StepConfirmed, TablesTyped, PTL DEF Spec

-----------------------------------------------------------------------------
(* The points past the size are clear *)

\* What a store on layout EC relies on when it clears the points past the size.
Cleared == Layout = "EC" => \A c \in Cells : c[2] >= SizeShown => Shown[c] = 0

LEMMA SizeTyped ==
  ASSUME TypeOK
  PROVE  /\ SizeShown \in 0..MAXFANCURVESIZE
         /\ Layout = "EC" => ram[SizeAt] \in Nat
         /\ Layout = "EC" => SizeAt \in DOMAIN ram
<1>1. Layout = "EC" => ram[SizeAt] \in Nat /\ SizeAt \in DOMAIN ram
  BY DEF TypeOK, Addresses, Byte
<1> QED BY <1>1 DEF SizeShown, Minimum, MAXFANCURVESIZE

LEMMA ShownTyped ==
  ASSUME TypeOK, TakesRam
  PROVE  /\ Layout \in InRam
         /\ Shown \in Tables
         /\ \A a : ReadFancurve(a) = [table |-> Shown, size |-> SizeShown]
<1>1. Layout \in InRam
  BY LayoutKnown DEF TakesRam, InRam
<1> QED BY <1>1, ReadAddress DEF TypeOK, Shown, Tables, Cells, ReadFancurve

\* The table a store on a model that keeps it in EC RAM writes.
NewTable(f, i, v, j) == Padded(Edited([table |-> Shown, size |-> SizeShown], f, i, v, j), SizeShown)

LEMMA RamStores ==
  ASSUME TypeOK, NEW f \in Fields \cup {"size"}, NEW i, NEW v \in Int, NEW j \in Nat,
         AutopointRam(f, i, v, j)
  PROVE  /\ TakesRam /\ WriteAllowed /\ UNCHANGED <<conf, fw, fullspeed, cache>>
         /\ Accepted(f, i, v, SizeShown)
         /\ NewTable(f, i, v, j) \in Tables
         /\ Stored(NewTable(f, i, v, j))
         /\ Layout = "EC" => ram'[SizeAt] \in {ram[SizeAt], SizeShown}
<1> DEFINE curve == [table |-> Shown, size |-> SizeShown]
           t == NewTable(f, i, v, j)
<1>0. TakesRam /\ WriteAllowed /\ UNCHANGED <<conf, fw, fullspeed, cache>>
  BY DEF AutopointRam, driver
<1>1. ReadFancurve(TRUE) = curve
  BY <1>0, ShownTyped
<1>2. /\ Accepted(f, i, v, SizeShown)
      /\ ram' = IF f = "size" /\ Layout = "EC" THEN [Written(t) EXCEPT ![SizeAt] = SizeShown] ELSE Written(t)
  <2> DEFINE r == ReadFancurve(TRUE)
             u == Padded(Edited(r, f, i, v, j), r.size)
  <2>1. /\ Accepted(f, i, v, r.size)
        /\ ram' = IF f = "size" /\ Layout = "EC" THEN [Written(u) EXCEPT ![SizeAt] = r.size] ELSE Written(u)
    BY DEF AutopointRam
  <2>2. r = curve /\ r.size = SizeShown /\ u = t
    <3>1. r = curve /\ curve.size = SizeShown
      BY <1>1
    <3>2. t = Padded(Edited(curve, f, i, v, j), SizeShown)
      BY DEF NewTable
    <3> HIDE DEF r, curve, t
    <3> QED BY <3>1, <3>2
  <2> HIDE DEF r, u, t, curve
  <2> QED BY <2>1, <2>2
<1>3. t \in Tables
  <2>1. Edited(curve, f, i, v, j) \in Tables
    BY <1>0, <1>2, ShownTyped, EditTyped
  <2> QED BY <2>1, PadTyped DEF NewTable
<1> HIDE DEF t
<1>4. Stored(t)
  BY <1>2 DEF Stored, Written
<1>5. Layout = "EC" => Written(t)[SizeAt] = ram[SizeAt] /\ SizeAt \in DOMAIN Written(t)
  <2> SUFFICES ASSUME Layout = "EC" PROVE Written(t)[SizeAt] = ram[SizeAt] /\ SizeAt \in DOMAIN Written(t)
    OBVIOUS
  <2>1. SizeAt \in DOMAIN ram /\ Layout \in InRam
    BY <1>0, SizeTyped, ShownTyped
  <2>2. SizeAt \notin DOMAIN Place[Layout] /\ SizeAt \notin Resets(Layout)
    BY <2>1, Apart
  <2> QED BY <2>1, <2>2 DEF Written
<1> QED BY <1>0, <1>2, <1>3, <1>4, <1>5 DEF t

LEMMA SameSize ==
  ASSUME TypeOK, Layout = "EC", UNCHANGED conf, ram'[SizeAt] \in {ram[SizeAt], SizeShown}
  PROVE  SizeShown' = SizeShown
<1>1. Layout' = "EC" /\ ram[SizeAt] \in Nat
  BY SizeTyped DEF Layout
<1> QED BY <1>1 DEF SizeShown, Minimum, MAXFANCURVESIZE

LEMMA RamClears ==
  ASSUME TypeOK, Cleared, NEW f \in Fields \cup {"size"}, NEW i, NEW v \in Int, NEW j \in Nat,
         AutopointRam(f, i, v, j)
  PROVE  Cleared'
<1>0. Layout' = Layout /\ Cells' = Cells
  BY RamStores, SameConf
<1> SUFFICES ASSUME Layout = "EC", NEW c \in Cells, c[2] >= SizeShown'
             PROVE  Shown'[c] = 0
  BY <1>0 DEF Cleared
<1>1. SizeShown' = SizeShown
  BY RamStores, SameSize
<1>2. Asked'[c] = NewTable(f, i, v, j)[c]
  BY RamStores, AskedWritten
<1>3. Asked'[c] = Shown'[c]
  BY <1>0 DEF Asked, Pending, Running, TakesRam
<1>4. NewTable(f, i, v, j)[c] = 0
  BY <1>1 DEF NewTable, Padded
<1> QED BY <1>2, <1>3, <1>4

\* A cell after the firmware has loaded table s.
LEMMA CellLoaded ==
  ASSUME NEW l \in InRam, l = Layout, NEW s, NEW old, NEW c \in CellsOf[l], ReadAt[l][c] \in DOMAIN old
  PROVE  Loaded(s, old)[ReadAt[l][c]] = s.table[c]
  BY HomeOf DEF Loaded

LEMMA SizeLoaded ==
  ASSUME Layout = "EC", NEW s, NEW old, SizeAt \in DOMAIN old
  PROVE  Loaded(s, old)[SizeAt] = s.size
<1>1. "EC" \in InRam /\ Home["EC"] = Place["EC"]
  BY DEF InRam, Layouts, Home
<1>2. SizeAt \notin DOMAIN Home["EC"] /\ SizeAt \notin Resets("EC")
  BY <1>1, Apart
<1> QED BY <1>2 DEF Loaded

\* Of layout EC, a table of the firmware is clear past the size shown.
LEMMA StockClears ==
  ASSUME NEW s \in Stock["EC"], NEW c \in CellsOf["EC"], c[2] >= Minimum(s.size, MAXFANCURVESIZE)
  PROVE  s.table[c] = 0
<1>0. "EC" \in Layouts
  BY DEF Layouts
<1>1. c \in Fields \X Points /\ c[2] \in 0..9
  BY <1>0, CellsKnown, CellParts DEF PointsOf, Points, MAXFANCURVESIZE
<1>2. s.size \in Nat
  BY <1>0, StockAssumption
<1>3. c[2] >= s.size
  BY <1>1, <1>2 DEF Minimum, MAXFANCURVESIZE
<1> QED BY <1>1, <1>3, StockCleared

LEMMA InitCleared == Init => Cleared
<1> SUFFICES ASSUME Init, Layout = "EC", NEW c \in Cells, c[2] >= SizeShown
             PROVE  Shown[c] = 0
  BY DEF Cleared
<1> DEFINE blank == [a \in Addresses(Layout) |->
             IF a = LockAt(Layout) THEN 0 ELSE IF a = MinifanAt(Layout) THEN 160
             ELSE IF a = Command THEN 2 ELSE 0]
<1>1. PICK s \in Stock[Layout] : ram = Loaded(s, blank)
  BY DEF Init, TakesRam
<1>2. "EC" \in InRam /\ c \in CellsOf["EC"]
  BY DEF InRam, Layouts, Cells
<1>3. SizeAt \in DOMAIN blank /\ ReadAt["EC"][c] \in DOMAIN blank
  BY <1>2, ReadAddress DEF Addresses
<1> HIDE DEF blank
<1>4. ram[SizeAt] = s.size
  BY <1>1, <1>3, SizeLoaded
<1>5. ram[ReadAt["EC"][c]] = s.table[c]
  BY <1>1, <1>2, <1>3, CellLoaded
<1>6. Shown[c] = s.table[c] /\ SizeShown = Minimum(s.size, MAXFANCURVESIZE)
  BY <1>4, <1>5 DEF Shown, SizeShown
<1> QED BY <1>1, <1>2, <1>6, StockClears

LEMMA LoadCleared ==
  ASSUME TypeOK, NEW s \in Stock[Layout], Load(s)
  PROVE  Cleared'
<1>0. Layout' = Layout /\ Cells' = Cells
  BY SameConf DEF Load
<1> SUFFICES ASSUME Layout = "EC", NEW c \in Cells, c[2] >= SizeShown'
             PROVE  Shown'[c] = 0
  BY <1>0 DEF Cleared
<1>1. ram' = Loaded(s, ram)
  BY DEF Load, TakesRam
<1>2. "EC" \in InRam /\ c \in CellsOf["EC"]
  BY DEF InRam, Layouts, Cells
<1>3. SizeAt \in DOMAIN ram /\ ReadAt["EC"][c] \in DOMAIN ram
  BY <1>2, ReadAddress DEF TypeOK, Addresses
<1>4. ram'[SizeAt] = s.size
  BY <1>1, <1>3, SizeLoaded
<1>5. ram'[ReadAt["EC"][c]] = s.table[c]
  BY <1>1, <1>2, <1>3, CellLoaded
<1>6. Shown'[c] = s.table[c] /\ SizeShown' = Minimum(s.size, MAXFANCURVESIZE)
  BY <1>0, <1>4, <1>5 DEF Shown, SizeShown
<1> QED BY <1>2, <1>6, StockClears

LEMMA SameCleared ==
  ASSUME Cleared, UNCHANGED <<conf, ram>>
  PROVE  Cleared'
  BY DEF Cleared, Layout, Cells, SizeShown, Shown

\* The registers of the switches hold no cell of layout EC, nor its size.
LEMMA PokeCleared ==
  ASSUME TypeOK, Cleared, NEW a, a \notin DOMAIN Place["EC"], a # SizeAt, NEW v, Poke(a, v)
  PROVE  Cleared'
<1>0. Layout' = Layout /\ Cells' = Cells
  BY SameConf DEF Poke
<1> SUFFICES ASSUME Layout = "EC", NEW c \in Cells, c[2] >= SizeShown'
             PROVE  Shown'[c] = 0
  BY <1>0 DEF Cleared
<1>1. "EC" \in InRam /\ c \in CellsOf["EC"]
  BY DEF InRam, Layouts, Cells
<1>2. ReadAt["EC"][c] # a
  BY <1>1, ReadWritten, PlaceOf
<1>3. \A b : b # a => ram'[b] = ram[b]
  BY DEF Poke, TypeOK
<1>4. Shown'[c] = Shown[c] /\ SizeShown' = SizeShown
  BY <1>0, <1>2, <1>3 DEF Shown, SizeShown
<1> QED BY <1>4 DEF Cleared

LEMMA StepCleared == TypeOK /\ Cleared /\ [Next]_vars => Cleared'
<1> SUFFICES ASSUME TypeOK, Cleared, [Next]_vars
             PROVE  Cleared'
  OBVIOUS
<1>1. ASSUME NEW f \in Fields \cup {"size"}, NEW i, NEW v \in Int, Store(f, i, v)
      PROVE  Cleared'
  <2>1. ASSUME NEW j \in JunkFor(f), AutopointRam(f, i, v, j)
        PROVE  Cleared'
    <3>1. j \in Nat
      BY JunkAssumption DEF JunkFor
    <3> QED BY <2>1, <3>1, RamClears
  <2>2. ASSUME NEW a \in BOOLEAN, AutopointRefused(f, i, v, a)
        PROVE  Cleared'
    BY <2>2, SameCleared DEF AutopointRefused
  <2>3. ASSUME NEW a \in BOOLEAN, NEW w \in BOOLEAN, NEW ok \in BOOLEAN, NEW b \in BOOLEAN,
               AutopointWmi(f, i, v, a, w, ok, b)
        PROVE  Cleared'
    BY <2>3, SameCleared DEF AutopointWmi
  <2> QED BY <1>1, <2>1, <2>2, <2>3 DEF Store
<1>2. ASSUME NEW x \in Asks[Layout], Store(x.field, x.point, x.value)
      PROVE  Cleared'
  <2>1. x.field \in Fields /\ x.value \in Int
    BY LayoutKnown, AskAssumption
  <2> QED BY <1>1, <1>2, <2>1
<1>3. ASSUME NEW k \in Sizes, Store("size", 0, k)
      PROVE  Cleared'
  BY <1>1, <1>3, AskAssumption
<1>4. ASSUME NEW on \in BOOLEAN, MinifanStore(on) \/ LockStore(on) \/ FullspeedStore(on)
      PROVE  Cleared'
  <2>1. CASE Layout = "EC"
    <3>1. "EC" \in InRam
      BY DEF InRam, Layouts
    <3>2. /\ MinifanAt("EC") \notin DOMAIN Place["EC"] /\ MinifanAt("EC") # SizeAt
          /\ LockAt("EC") \notin DOMAIN Place["EC"] /\ LockAt("EC") # SizeAt
      BY <3>1, Apart
    <3> QED BY <1>4, <2>1, <3>2, PokeCleared, SameCleared DEF MinifanStore, LockStore, FullspeedStore
  <2>2. CASE Layout # "EC"
    <3>1. Layout' = Layout
      BY <1>4, SameConf DEF MinifanStore, LockStore, FullspeedStore, Poke
    <3> QED BY <2>2, <3>1 DEF Cleared
  <2> QED BY <2>1, <2>2
<1>5. ASSUME NEW s \in Stock[Layout], FirmwareLoads(s) \/ DefaultsStore(s)
      PROVE  Cleared'
  BY <1>5, LoadCleared DEF FirmwareLoads, DefaultsStore
<1>6. ASSUME Execute \/ Ignore
      PROVE  Cleared'
  <2>1. Layout = "EC3" /\ Layout' = Layout
    BY <1>6, SameConf DEF Execute, Ignore, Pending
  <2> QED BY <2>1 DEF Cleared
<1>7. ASSUME \/ \E a \in BOOLEAN : AutopointShow(a) \/ DebugfsShow(a)
             \/ \E on, a \in BOOLEAN : UnlockStore(on, a)
             \/ DefaultsShow \/ UNCHANGED vars
      PROVE  Cleared'
  <2>1. UNCHANGED <<conf, ram>>
    BY <1>7 DEF AutopointShow, DebugfsShow, UnlockStore, DefaultsShow, vars
  <2> QED BY <2>1, SameCleared
<1> QED BY <1>2, <1>3, <1>4, <1>5, <1>6, <1>7 DEF Next

-----------------------------------------------------------------------------
(* Tables and switches *)

Names == {"minifan", "lock", "fullspeed", "command"} \X {0}

\* What each attribute shows, by name.
ByName ==
  /\ Running = [c \in Cells |-> Running[c]]
  /\ Asked = [c \in Cells |-> Asked[c]]
  /\ Switches = [s \in Names |-> Switches[s]]
  /\ Switches[<<"minifan", 0>>] = IF conf.minifan THEN MinifanShown ELSE "hidden"
  /\ Switches[<<"lock", 0>>] = LockShown
  /\ Switches[<<"fullspeed", 0>>] = FullspeedShown
  /\ Switches[<<"command", 0>>] = CommandBits

LEMMA Parts == ByName
<1>1. Running = [c \in Cells |-> Running[c]]
  BY DEF Running, Shown, WmiTable
<1>2. Asked = [c \in Cells |-> Asked[c]]
  BY <1>1 DEF Asked
<1>3. Switches = [s \in Names |-> Switches[s]]
  BY DEF Switches, Names
<1>4. /\ <<"minifan", 0>> \in Names /\ <<"lock", 0>> \in Names
      /\ <<"fullspeed", 0>> \in Names /\ <<"command", 0>> \in Names
  BY DEF Names
<1>5. Switches = [s \in Names |->
        CASE s[1] = "minifan" -> IF conf.minifan THEN MinifanShown ELSE "hidden"
          [] s[1] = "lock" -> LockShown
          [] s[1] = "fullspeed" -> FullspeedShown
          [] OTHER -> CommandBits]
  BY DEF Switches, Names
<1>6. Switches[<<"minifan", 0>>] = IF conf.minifan THEN MinifanShown ELSE "hidden"
  BY <1>4, <1>5
<1>7. Switches[<<"lock", 0>>] = LockShown
  BY <1>4, <1>5
<1>8. Switches[<<"fullspeed", 0>>] = FullspeedShown
  BY <1>4, <1>5
<1>9. Switches[<<"command", 0>>] = CommandBits
  BY <1>4, <1>5
<1> QED BY <1>1, <1>2, <1>3, <1>6, <1>7, <1>8, <1>9 DEF ByName

LEMMA NextParts == ByName'
BY Parts, PTL

\* Why a switch shows something else than before.
LEMMA SwitchChange ==
  ASSUME UNCHANGED conf, NEW s \in Names, Switches'[s] # Switches[s]
  PROVE  \/ s = <<"minifan", 0>> /\ conf.minifan /\ ram'[MinifanAt(Layout)] # ram[MinifanAt(Layout)]
         \/ s = <<"lock", 0>> /\ ram'[LockAt(Layout)] # ram[LockAt(Layout)]
         \/ s = <<"fullspeed", 0>> /\ FullspeedShown' # FullspeedShown
         \/ s = <<"command", 0>> /\ CommandBits' # CommandBits
<1>0. Layout' = Layout
  BY SameConf
<1>1. s \in {<<"minifan", 0>>, <<"lock", 0>>, <<"fullspeed", 0>>, <<"command", 0>>}
  BY DEF Names
<1>2. ram'[MinifanAt(Layout)] = ram[MinifanAt(Layout)] => MinifanShown' = MinifanShown
  BY <1>0 DEF MinifanShown
<1>3. ram'[LockAt(Layout)] = ram[LockAt(Layout)] => LockShown' = LockShown
  BY <1>0 DEF LockShown
<1> QED BY <1>1, <1>2, <1>3, Parts, NextParts DEF ByName

LEMMA SwitchesSame ==
  ASSUME \A s \in Names : Switches'[s] = Switches[s]
  PROVE  Switches' = Switches
  BY Parts, NextParts DEF ByName

\* Bit 4 of the command byte is none of CommandBits.
LEMMA BitsKept ==
  ASSUME NEW n \in Byte
  PROVE  /\ SetBit(n, 16) - 16 = n - (IF (n \div 16) % 2 = 1 THEN 16 ELSE 0)
         /\ (n \div 16) % 2 = 1 => ((n - 16) \div 16) % 2 # 1
         /\ SetBit(n, 1) \div 2 = n \div 2
         /\ (n - (n % 2)) \div 2 = n \div 2
<1>1. n \in Nat
  BY DEF Byte
<1>2. (n \div 16) % 2 = 1 => ((n - 16) \div 16) % 2 # 1
  BY <1>1
<1>3. (n \div 1) % 2 # 1 => (n + 1) \div 2 = n \div 2
  BY <1>1
<1>4. (n - (n % 2)) \div 2 = n \div 2
  BY <1>1
<1> QED BY <1>1, <1>2, <1>3, <1>4 DEF SetBit

LEMMA HidesSwitch ==
  ASSUME TypeOK, conf.minifan
  PROVE  Layout # "EC4"
  BY LayoutKnown DEF Models, Model, model_v0, model_9vcn, model_secn, model_nmcn,
     model_n2cn, model_nxcn, Layout

LEMMA WrittenSwitches ==
  ASSUME TypeOK, TakesRam, NEW t \in Tables, Stored(t), UNCHANGED <<conf, fullspeed>>,
         NEW s \in Names, Switches'[s] # Switches[s]
  PROVE  /\ Layout = "EC2" /\ s \in {<<"minifan", 0>>, <<"lock", 0>>}
         /\ <<"speed1", 0>> \in Cells /\ t[<<"speed1", 0>>] # Running[<<"speed1", 0>>]
<1>0. Layout \in InRam /\ Layout' = Layout
  BY SameConf, ShownTyped
<1>1. MinifanAt(Layout) \in DOMAIN ram /\ LockAt(Layout) \in DOMAIN ram
  BY DEF TypeOK, Addresses
<1>2. Layout \in {"EC3", "EC4"} => Command \in DOMAIN ram /\ ram[Command] \in Byte
  BY DEF TypeOK, Addresses
<1>3. Layout = "EC4" => ram'[Command] = ram[Command]
  BY <1>0, <1>2, Apart DEF Stored, Written
<1>4. Layout = "EC3" => ram'[Command] = SetBit(ram[Command], 16)
  BY <1>0, <1>2, Apart DEF Stored, Written
<1>5. FullspeedShown' = FullspeedShown
  BY <1>0, <1>3 DEF FullspeedShown
<1>6. CommandBits' = CommandBits
  <2>1. CASE Layout = "EC3"
    <3>1. Pending' /\ (Pending <=> (ram[Command] \div 16) % 2 = 1)
      BY <1>0, <1>2, <1>4, <2>1, BitSet DEF Pending
    <3>2. CommandBits' = ram'[Command] - 16 /\ CommandBits = ram[Command] - (IF Pending THEN 16 ELSE 0)
      BY <1>0, <2>1, <3>1 DEF CommandBits
    <3> QED BY <1>2, <1>4, <2>1, <3>1, <3>2, BitsKept
  <2>2. CASE Layout = "EC4"
    BY <1>0, <1>3, <2>2 DEF CommandBits
  <2>3. CASE Layout \notin {"EC3", "EC4"}
    BY <1>0, <2>3 DEF CommandBits
  <2> QED BY <2>1, <2>2, <2>3
<1>7. Layout # "EC2" => ram'[LockAt(Layout)] = ram[LockAt(Layout)]
  BY <1>0, <1>1, Apart DEF Stored, Written
<1>8. Layout # "EC2" /\ conf.minifan => ram'[MinifanAt(Layout)] = ram[MinifanAt(Layout)]
  <2> SUFFICES ASSUME Layout # "EC2", conf.minifan
               PROVE  ram'[MinifanAt(Layout)] = ram[MinifanAt(Layout)]
    OBVIOUS
  <2>1. Layout \in {"EC", "EC3"}
    BY <1>0, HidesSwitch DEF InRam, Layouts
  <2> QED BY <1>0, <1>1, <2>1, Apart DEF Stored, Written
<1>9. Layout = "EC2" /\ s \in {<<"minifan", 0>>, <<"lock", 0>>} /\ ram'[\hC5A0] # ram[\hC5A0]
  BY <1>0, <1>5, <1>6, <1>7, <1>8, Apart, SwitchChange
<1>10. <<"speed1", 0>> \in CellsOf["EC2"]
  BY DEF CellsOf, Layouts, Kept, Speeds, PointsOf
<1>11. ReadAt["EC2"][<<"speed1", 0>>] = \hC5A0
  BY <1>0, <1>9, <1>10, Bases DEF ReadAt, ReadStride
<1>12. \hC5A0 \in DOMAIN Place["EC2"] /\ Place["EC2"][\hC5A0] = <<"speed1", 0>>
  BY <1>0, <1>9, <1>10, <1>11, ReadWritten, PlaceOf
<1>13. ram'[\hC5A0] = t[<<"speed1", 0>>]
  BY <1>0, <1>1, <1>9, <1>12, Apart DEF Stored, Written
<1>14. Running[<<"speed1", 0>>] = ram[\hC5A0]
  BY <1>9, <1>10, <1>11 DEF Running, Shown, Cells
<1> QED BY <1>9, <1>10, <1>13, <1>14 DEF Cells

-----------------------------------------------------------------------------
(* Each action is one of FanAttributes *)

\* A store that changes no cell but x is a store of one attribute.
LEMMA OneCellStore ==
  ASSUME TypeOK, TakesRam, WriteAllowed, NEW t \in Tables, Stored(t), UNCHANGED <<conf, fullspeed>>,
         NEW x, \A c \in Cells : c # x => t[c] = Running[c]
  PROVE  Attributes!SetCell
<1>0. Cells' = Cells
  BY SameConf
<1>1. \A c \in Cells : Asked'[c] = t[c] /\ Running'[c] \in {t[c], Running[c]}
  BY AskedWritten
<1>2. Attributes!ByCells
  BY <1>1, Parts DEF Attributes!ByCells, Attributes!Changed, ByName
<1> DEFINE changes == Attributes!Changed(Running, Asked') \cup Attributes!Changed(Switches, Switches')
<1>3. Attributes!Changed(Running, Asked') \subseteq {x}
  BY <1>1, Parts DEF Attributes!Changed, ByName
<1>4. ASSUME NEW s \in Attributes!Changed(Switches, Switches')
      PROVE  /\ Layout = "EC2" /\ s \in {<<"minifan", 0>>, <<"lock", 0>>}
             /\ x = <<"speed1", 0>> /\ x \in Attributes!Changed(Running, Asked')
  <2>1. s \in Names /\ Switches'[s] # Switches[s]
    BY <1>4, Parts DEF Attributes!Changed, ByName
  <2>2. /\ Layout = "EC2" /\ s \in {<<"minifan", 0>>, <<"lock", 0>>}
        /\ <<"speed1", 0>> \in Cells /\ t[<<"speed1", 0>>] # Running[<<"speed1", 0>>]
    BY <2>1, WrittenSwitches
  <2>3. <<"speed1", 0>> \in Attributes!Changed(Running, Asked')
    BY <1>1, <2>2, Parts DEF Attributes!Changed, ByName
  <2> QED BY <1>3, <2>2, <2>3
<1>5. changes = {} \/ \E c \in changes : c \in DOMAIN Running /\ changes \subseteq Attributes!Touches(c)
  <2>1. CASE Attributes!Changed(Switches, Switches') = {}
    BY <1>3, <2>1 DEF Attributes!Touches, Attributes!Changed
  <2>2. CASE Attributes!Changed(Switches, Switches') # {}
    <3>1. /\ Layout = "EC2" /\ x = <<"speed1", 0>> /\ x \in Attributes!Changed(Running, Asked')
          /\ Attributes!Changed(Switches, Switches') \subseteq {<<"minifan", 0>>, <<"lock", 0>>}
      BY <1>4, <2>2
    <3>2. Attributes!Touches(x) = {<<"minifan", 0>>, <<"lock", 0>>, <<"speed1", 0>>}
      BY <3>1 DEF Attributes!Touches, Shared
    <3>3. x \in DOMAIN Running
      BY <3>1 DEF Attributes!Changed
    <3> QED BY <1>3, <3>1, <3>2, <3>3
  <2> QED BY <2>1, <2>2
<1> QED BY <1>2, <1>5 DEF Attributes!SetCell

LEMMA RamImplements ==
  ASSUME TypeOK, Cleared, NEW f \in Fields \cup {"size"}, NEW i, NEW v \in Int, NEW j \in Nat,
         AutopointRam(f, i, v, j)
  PROVE  Attributes!SetCell \/ Attributes!Shorten
<1> DEFINE t == NewTable(f, i, v, j)
<1>1. /\ TakesRam /\ WriteAllowed /\ UNCHANGED <<conf, fullspeed>>
      /\ Accepted(f, i, v, SizeShown) /\ t \in Tables /\ Stored(t)
  BY RamStores
<1>2. Running = Shown
  BY <1>1 DEF Running
<1>3. \A c \in Cells :
        t[c] = IF Layout = "EC" /\ c[2] >= SizeShown THEN 0
               ELSE Edited([table |-> Shown, size |-> SizeShown], f, i, v, j)[c]
  BY DEF NewTable, Padded
<1>4. \A c \in Cells : Layout = "EC" /\ c[2] >= SizeShown => t[c] = Running[c]
  BY <1>2, <1>3 DEF Cleared
<1> HIDE DEF t
<1>5. CASE f # "size"
  <2>1. \A c \in Cells : c # <<f, i>> => Edited([table |-> Shown, size |-> SizeShown], f, i, v, j)[c] = Running[c]
    BY <1>2, <1>5 DEF Edited
  <2>2. \A c \in Cells : c # <<f, i>> => t[c] = Running[c]
    BY <1>3, <1>4, <2>1
  <2> QED BY <1>1, <2>2, OneCellStore
<1>6. CASE f = "size" /\ ~(v < SizeShown)
  <2>1. \A c \in Cells : Edited([table |-> Shown, size |-> SizeShown], f, i, v, j)[c] = Running[c]
    BY <1>2, <1>6 DEF Edited
  <2>2. \A c \in Cells : t[c] = Running[c]
    BY <1>3, <1>4, <2>1
  <2> QED BY <1>1, <2>2, OneCellStore
<1>7. CASE f = "size" /\ v < SizeShown
  <2> DEFINE k == v - 1
  <2>1. k \in Points
    BY <1>1, <1>7 DEF Accepted, Points, MAXFANCURVESIZE, Speeds
  <2>2. \A c \in Cells : Edited([table |-> Shown, size |-> SizeShown], f, i, v, j)[c] =
                         IF c[2] = k /\ c[1] \in MaxTemps THEN 127 ELSE Running[c]
    BY <1>2, <1>7 DEF Edited
  <2>3. SizeShown \in Int
    BY SizeTyped DEF MAXFANCURVESIZE
  <2>4. \A c \in Cells : t[c] = IF c[2] = k /\ c[1] \in MaxTemps THEN 127 ELSE Running[c]
    BY <1>3, <1>4, <1>7, <2>2, <2>3
  <2>5. \A c \in Cells : Asked'[c] = t[c] /\ Running'[c] \in {t[c], Running[c]}
    BY <1>1, AskedWritten
  <2>6. Attributes!ByCells
    BY <2>5, Parts DEF Attributes!ByCells, Attributes!Changed, ByName
  <2>7. \A s \in Names : Switches'[s] = Switches[s]
    <3>1. <<"speed1", 0>> \in Cells => t[<<"speed1", 0>>] = Running[<<"speed1", 0>>]
      BY <2>4 DEF MaxTemps
    <3> QED BY <1>1, <3>1, WrittenSwitches
  <2>8. Switches' = Switches
    BY <2>7, SwitchesSame
  <2>9. \A c \in DOMAIN Running : Asked'[c] = IF c[2] = k /\ c[1] \in MaxTemps THEN 127 ELSE Running[c]
    BY <2>4, <2>5, Parts DEF ByName
  <2> HIDE DEF k
  <2>10. Attributes!Shorten
    BY <1>1, <2>1, <2>6, <2>8, <2>9 DEF Attributes!Shorten
  <2> QED BY <2>10
<1> QED BY <1>5, <1>6, <1>7

\* What the attributes show, and the table that runs, depend on nothing else.
LEMMA SameSwitches ==
  ASSUME UNCHANGED <<conf, ram, fullspeed>>
  PROVE  Switches' = Switches
<1>0. Layout' = Layout
  BY SameConf
<1>1. Pending' = Pending
  BY <1>0 DEF Pending
<1>2. CommandBits' = CommandBits
  BY <1>0, <1>1 DEF CommandBits
<1>3. FullspeedShown' = FullspeedShown
  BY <1>0 DEF FullspeedShown
<1>4. \A s \in Names : Switches'[s] = Switches[s]
  BY <1>2, <1>3, SwitchChange
<1> QED BY <1>4, SwitchesSame

LEMMA SameTables ==
  ASSUME UNCHANGED <<conf, ram, fw>>
  PROVE  Running' = Running /\ Asked' = Asked
<1>0. Layout' = Layout /\ Cells' = Cells /\ TakesRam' = TakesRam /\ Pending' = Pending
  BY SameConf DEF TakesRam, Pending, Layout
<1>1. Shown' = Shown
  BY <1>0 DEF Shown
<1>2. WmiTable(fw)' = WmiTable(fw)
  BY <1>0 DEF WmiTable, WmiSize
<1>3. Running' = Running
  BY <1>0, <1>1, <1>2 DEF Running
<1> QED BY <1>0, <1>3 DEF Asked

LEMMA WmiAtOnce ==
  ASSUME ~TakesRam
  PROVE  Running = WmiTable(fw) /\ Asked = Running
  BY DEF Running, Asked, Pending, TakesRam

LEMMA WmiImplements ==
  ASSUME TypeOK, NEW f \in Fields \cup {"size"}, NEW i, NEW v \in Int,
         NEW a \in BOOLEAN, NEW w \in BOOLEAN, NEW ok \in BOOLEAN, NEW b \in BOOLEAN,
         AutopointWmi(f, i, v, a, w, ok, b)
  PROVE  [Attributes!AttrNext]_<<Running, Asked, Switches>>
<1> DEFINE curve == ReadFancurve(a)
           t == Edited(curve, f, i, v, 0)
<1>1. /\ ~TakesRam /\ WriteAllowed /\ curve # Nothing
      /\ fw' = IF w THEN [fw EXCEPT !.table = t] ELSE fw
      /\ UNCHANGED <<conf, ram, fullspeed>>
  BY DEF AutopointWmi
<1>2. Switches' = Switches
  BY <1>1, SameSwitches
<1>3. Layout = "WMI3" /\ Layout' = Layout /\ Cells' = Cells /\ ~TakesRam'
  BY <1>1, SameConf DEF TakesRam
<1>4. /\ Running = WmiTable(fw) /\ Asked = Running
      /\ Running' = WmiTable(fw)' /\ Asked' = Running'
  BY <1>1, <1>3 DEF Running, Asked, Pending, TakesRam
<1>5. CASE ~w
  BY <1>1, <1>2, <1>5, SameTables
<1>6. CASE w /\ curve.table = WmiTable(fw)
  <2>0. \A c \in Cells : c[1] \notin MaxTemps
    BY <1>3 DEF Cells, CellsOf, Kept, Layouts, MaxTemps
  <2>1. \A c \in Cells : c # <<f, i>> => t[c] = WmiTable(fw)[c]
    BY <1>6, <2>0 DEF Edited
  <2> HIDE DEF curve, t
  <2>2. fw'.table = t /\ fw'.size = fw.size /\ conf' = conf
    BY <1>1, <1>6 DEF TypeOK
  <2>3. WmiSize(fw)' = WmiSize(fw)
    BY <2>2 DEF WmiSize
  <2>4. \A c \in Cells : c # <<f, i>> => Running'[c] = Running[c]
    BY <1>3, <1>4, <2>1, <2>2, <2>3 DEF WmiTable
  <2>5. Attributes!ByCells
    BY <1>4 DEF Attributes!ByCells
  <2>6. Attributes!Changed(Switches, Switches') = {}
    BY <1>2 DEF Attributes!Changed
  <2>7. Attributes!Changed(Running, Asked') \subseteq {<<f, i>>}
    BY <1>4, <2>4, Parts DEF Attributes!Changed, ByName
  <2>8. Attributes!SetCell
    BY <1>1, <2>5, <2>6, <2>7 DEF Attributes!SetCell, Attributes!Touches, Attributes!Changed
  <2> QED BY <2>8 DEF Attributes!AttrNext
<1>7. CASE w /\ curve.table # WmiTable(fw)
  <2>1. curve = cache
    BY <1>1, <1>7 DEF ReadFancurve
  <2>2. cache # Nothing /\ cache.table # WmiTable(fw)
    BY <1>1, <1>7, <2>1
  <2>3. Attributes!StaleStore
    BY <1>1, <1>2, <1>4, <2>2 DEF Attributes!StaleStore
  <2> QED BY <2>3 DEF Attributes!AttrNext
<1> QED BY <1>5, <1>6, <1>7

\* A register besides the table's holds no cell that runs or is to run.
LEMMA PokeSparesTables ==
  ASSUME TypeOK, NEW a, NEW v, Poke(a, v),
         Layout = "EC3" => a # Command,
         TakesRam => a \notin DOMAIN Home[Layout],
         Layout = "EC3" => a \notin DOMAIN Place["EC3"]
  PROVE  Running' = Running /\ Asked' = Asked
<1>0. /\ Layout' = Layout /\ Cells' = Cells /\ TakesRam' = TakesRam
      /\ UNCHANGED <<conf, fw>> /\ \A b : b # a => ram'[b] = ram[b]
  BY SameConf DEF Poke, TakesRam, Layout, TypeOK
<1>1. Pending' = Pending
  BY <1>0 DEF Pending
<1>2. Running' = Running
  <2>1. CASE TakesRam
    <3>1. \A c \in Cells : ReadAt[Layout][c] # a
      BY <2>1, ShownTyped, HomeOf DEF Cells
    <3> QED BY <1>0, <2>1, <3>1 DEF Running, Shown
  <2>2. CASE ~TakesRam
    BY <1>0, <2>2 DEF Running, WmiTable, WmiSize
  <2> QED BY <2>1, <2>2
<1>3. Pending => \A c \in Cells : ram'[Staged[c]] = ram[Staged[c]]
  <2> SUFFICES ASSUME Pending, NEW c \in Cells
               PROVE  Staged[c] # a
    BY <1>0
  <2>1. Layout = "EC3" /\ "EC3" \in InRam /\ c \in CellsOf["EC3"]
    BY DEF Pending, InRam, Layouts, Cells
  <2>2. Staged[c] \in DOMAIN Place["EC3"]
    BY <2>1, StagedWritten, PlaceOf
  <2> QED BY <2>1, <2>2
<1> QED BY <1>0, <1>1, <1>2, <1>3 DEF Asked

LEMMA OneSwitch ==
  ASSUME NEW s \in Names, Running' = Running, Asked' = Asked,
         \A x \in Names : Switches'[x] # Switches[x] => x \in Attributes!Touches(s)
  PROVE  Attributes!SetSwitch
<1>1. /\ Attributes!Changed(Running, Running') = {} /\ Attributes!Changed(Asked, Asked') = {}
      /\ Attributes!Changed(Switches, Switches') \subseteq Attributes!Touches(s)
  BY Parts DEF Attributes!Changed, ByName
<1>2. s \in DOMAIN Switches
  BY Parts DEF ByName
<1> QED BY <1>1, <1>2 DEF Attributes!SetSwitch

\* The byte at 0xC5A0 of layout EC2 is a speed and two switches.
LEMMA SharedByte ==
  ASSUME TypeOK, Layout = "EC2", NEW v, Poke(\hC5A0, v)
  PROVE  Attributes!SetSwitch
<1>0. /\ Layout' = Layout /\ Cells' = Cells /\ "EC2" \in InRam
      /\ UNCHANGED <<conf, fullspeed>> /\ \A b : b # \hC5A0 => ram'[b] = ram[b]
  BY SameConf DEF Poke, InRam, Layouts, TypeOK
<1>1. /\ Running = Shown /\ Asked = Shown /\ Running' = Shown' /\ Asked' = Shown'
  BY <1>0 DEF Running, Asked, Pending, TakesRam
<1>2. <<"speed1", 0>> \in CellsOf["EC2"]
  BY DEF CellsOf, Layouts, Kept, Speeds, PointsOf
<1>3. ReadAt["EC2"][<<"speed1", 0>>] = \hC5A0
  BY <1>0, <1>2, Bases DEF ReadAt, ReadStride
<1>4. ASSUME NEW c \in Cells, Shown'[c] # Shown[c]
      PROVE  c = <<"speed1", 0>>
  <2>1. c \in CellsOf["EC2"] /\ ReadAt["EC2"][c] = \hC5A0
    BY <1>0, <1>4 DEF Shown, Cells
  <2> QED BY <1>0, <1>2, <1>3, <2>1, ReadWritten, PlaceOf
<1>5. ASSUME NEW s \in Names, Switches'[s] # Switches[s]
      PROVE  s \in {<<"minifan", 0>>, <<"lock", 0>>}
  <2>1. FullspeedShown' = FullspeedShown /\ CommandBits' = CommandBits
    BY <1>0 DEF FullspeedShown, CommandBits
  <2> QED BY <1>0, <1>5, <2>1, SwitchChange
<1>6. Attributes!Touches(<<"minifan", 0>>) = {<<"minifan", 0>>, <<"lock", 0>>, <<"speed1", 0>>}
  BY DEF Attributes!Touches, Shared
<1>7. /\ Attributes!Changed(Running, Running') \subseteq {<<"speed1", 0>>}
      /\ Attributes!Changed(Asked, Asked') \subseteq {<<"speed1", 0>>}
      /\ Attributes!Changed(Switches, Switches') \subseteq {<<"minifan", 0>>, <<"lock", 0>>}
  BY <1>1, <1>4, <1>5, Parts DEF Attributes!Changed, ByName
<1>8. <<"minifan", 0>> \in DOMAIN Switches
  BY Parts DEF ByName, Names
<1> QED BY <1>6, <1>7, <1>8 DEF Attributes!SetSwitch

LEMMA PokeImplements ==
  ASSUME TypeOK, NEW on \in BOOLEAN, MinifanStore(on) \/ LockStore(on)
  PROVE  Attributes!SetSwitch
<1> DEFINE m == MinifanAt(Layout)
           k == LockAt(Layout)
           mini == <<"minifan", 0>>
           lock == <<"lock", 0>>
<1>1. PICK a, v : Poke(a, v) /\ (a = k \/ (a = m /\ conf.minifan))
  BY DEF MinifanStore, LockStore
<1>2. /\ Layout = "EC2" => m = \hC5A0 /\ k = \hC5A0
      /\ Layout = "EC3" => m = \hC5A0 /\ k = \hC5A0
      /\ Layout \notin {"EC2", "EC3"} => m = \hC536 /\ k = \hC4AB
      /\ Command = \hCFB6
  BY DEF MinifanAt, LockAt, Command
<1>3. CASE Layout = "EC2"
  BY <1>1, <1>2, <1>3, SharedByte
<1>4. CASE Layout # "EC2"
  <2>0. UNCHANGED <<conf, fullspeed>> /\ Layout' = Layout /\ \A b : b # a => ram'[b] = ram[b]
    BY <1>1, SameConf DEF Poke, TypeOK
  <2>1. TakesRam => a \notin DOMAIN Home[Layout]
    <3> SUFFICES ASSUME TakesRam PROVE a \notin DOMAIN Home[Layout]
      OBVIOUS
    <3>1. Layout \in InRam
      BY ShownTyped
    <3>2. CASE Layout = "EC3"
      BY <1>1, <1>2, <3>1, <3>2, HomeApart
    <3>3. CASE Layout # "EC3"
      <4>1. Home[Layout] = Place[Layout]
        BY <3>1, <3>3 DEF Home
      <4>2. a = m => Layout = "EC"
        BY <1>1, <1>2, <1>4, <3>1, <3>3, HidesSwitch DEF InRam, Layouts
      <4> QED BY <1>1, <1>4, <3>1, <4>1, <4>2, Apart
    <3> QED BY <3>2, <3>3
  <2>2. Layout = "EC3" => a \notin DOMAIN Place["EC3"]
    <3>1. "EC3" \in InRam
      BY DEF InRam, Layouts
    <3> QED BY <1>1, <3>1, Apart
  <2>3. a # Command
    BY <1>1, <1>2, <1>4
  <2>4. Running' = Running /\ Asked' = Asked
    BY <1>1, <2>1, <2>2, <2>3, PokeSparesTables
  <2>5. FullspeedShown' = FullspeedShown /\ CommandBits' = CommandBits
    BY <2>0, <2>3 DEF FullspeedShown, CommandBits, Pending
  <2>6. \A s \in Names : Switches'[s] # Switches[s] =>
          (s = mini /\ a = m) \/ (s = lock /\ a = k)
    BY <2>0, <2>5, SwitchChange
  <2>7. mini \in Names /\ lock \in Names
    BY DEF Names
  <2>8. CASE Layout = "EC3"
    <3>1. Attributes!Touches(mini) = {mini, lock}
      BY <2>8 DEF Attributes!Touches, Shared
    <3> QED BY <2>4, <2>6, <2>7, <3>1, OneSwitch
  <2>9. CASE Layout # "EC3"
    <3>1. m # k
      BY <1>2, <1>4, <2>9
    <3>2. \A s : s \in Attributes!Touches(s)
      BY DEF Attributes!Touches
    <3>3. CASE a = m
      BY <2>4, <2>6, <2>7, <3>1, <3>2, <3>3, OneSwitch
    <3>4. CASE a = k
      BY <2>4, <2>6, <2>7, <3>1, <3>2, <3>4, OneSwitch
    <3> QED BY <1>1, <3>3, <3>4
  <2> QED BY <2>8, <2>9
<1> QED BY <1>3, <1>4

LEMMA FullspeedImplements ==
  ASSUME TypeOK, NEW on \in BOOLEAN, FullspeedStore(on)
  PROVE  Attributes!SetSwitch
<1> DEFINE full == <<"fullspeed", 0>>
<1>1. Layout' = Layout /\ conf' = conf
  BY SameConf DEF FullspeedStore, Poke
<1>2. full \in Names /\ full \in Attributes!Touches(full)
  BY DEF Names, Attributes!Touches
<1>3. CASE Layout = "EC4"
  <2>1. Poke(Command, FullspeedBit(on))
    BY <1>3 DEF FullspeedStore
  <2>2. ram[Command] \in Byte /\ Command \in DOMAIN ram
    BY <1>3 DEF TypeOK, Addresses
  <2>3. ram'[Command] = FullspeedBit(on) /\ \A b : b # Command => ram'[b] = ram[b]
    BY <2>1, <2>2 DEF Poke, TypeOK
  <2>4. "EC4" \in InRam
    BY DEF InRam, Layouts
  <2>5. Running' = Running /\ Asked' = Asked
    BY <1>3, <2>1, <2>4, HomeApart, PokeSparesTables
  <2>6. CommandBits' = CommandBits
    <3>1. CommandBits = ram[Command] \div 2 /\ CommandBits' = FullspeedBit(on) \div 2
      BY <1>1, <1>3, <2>3 DEF CommandBits
    <3> QED BY <2>2, <3>1, BitsKept DEF FullspeedBit
  <2>7. MinifanAt(Layout) # Command /\ LockAt(Layout) # Command
    BY <1>3, <2>4, Apart
  <2>8. \A s \in Names : Switches'[s] # Switches[s] => s = full
    BY <1>1, <2>3, <2>6, <2>7, SwitchChange
  <2> QED BY <1>2, <2>5, <2>8, OneSwitch
<1>4. CASE Layout # "EC4"
  <2>1. UNCHANGED <<conf, ram, fw>>
    BY <1>4 DEF FullspeedStore
  <2>2. CommandBits' = CommandBits
    BY <1>1, <2>1 DEF CommandBits, Pending
  <2>3. \A s \in Names : Switches'[s] # Switches[s] => s = full
    BY <1>1, <2>1, <2>2, SwitchChange
  <2> QED BY <1>2, <2>1, <2>3, SameTables, OneSwitch
<1> QED BY <1>3, <1>4

\* The firmware loads a table: the register it shares with the switches of
\* layout EC2 changes with it, and no other switch does.
LEMMA LoadImplements ==
  ASSUME TypeOK, NEW s \in Stock[Layout], Load(s)
  PROVE  Attributes!Load
<1>0. Layout' = Layout /\ Cells' = Cells /\ TakesRam' = TakesRam /\ UNCHANGED <<conf, fullspeed>>
  BY SameConf DEF Load, TakesRam, Layout
<1>1. CASE TakesRam
  <2>1. Layout \in InRam /\ ram' = Loaded(s, ram)
    BY <1>1, ShownTyped DEF Load
  <2>2. \A c \in Cells : Running'[c] = s.table[c]
    <3> SUFFICES ASSUME NEW c \in Cells PROVE Running'[c] = s.table[c]
      OBVIOUS
    <3>1. ReadAt[Layout][c] \in DOMAIN ram /\ c \in CellsOf[Layout]
      BY <2>1, ReadAddress DEF TypeOK, Cells
    <3>2. ram'[ReadAt[Layout][c]] = s.table[c]
      BY <2>1, <3>1, CellLoaded
    <3> QED BY <1>0, <1>1, <3>2 DEF Running, Shown
  <2>3. \A a \in DOMAIN ram : a \notin DOMAIN Home[Layout] /\ a \notin Resets(Layout) /\ a # SizeAt => ram'[a] = ram[a]
    BY <2>1 DEF Loaded
  <2>4. Layout \in {"EC3", "EC4"} => ram'[Command] = ram[Command]
    <3>1. Layout \in {"EC3", "EC4"} => Command \in DOMAIN ram
      BY DEF TypeOK, Addresses
    <3> QED BY <2>1, <2>3, <3>1, Apart, HomeApart
  <2>5. Pending' = Pending /\ CommandBits' = CommandBits /\ FullspeedShown' = FullspeedShown
    BY <1>0, <2>4 DEF Pending, CommandBits, FullspeedShown
  <2>6. \A c \in Cells : Asked'[c] \in {Asked[c], Running'[c]}
    <3> SUFFICES ASSUME Pending, NEW c \in Cells
                 PROVE  Asked'[c] \in {Asked[c], Running'[c]}
      BY <1>0, <2>5 DEF Asked
    <3>1. Layout = "EC3" /\ c \in CellsOf["EC3"] /\ "EC3" \in InRam
      BY DEF Pending, Cells, InRam, Layouts
    <3>2. Asked[c] = ram[Staged[c]] /\ Asked'[c] = ram'[Staged[c]]
      BY <1>0, <2>5 DEF Asked
    <3>3. CASE Staged[c] = Active[c]
      BY <1>0, <1>1, <3>1, <3>2, <3>3, ActiveEC3 DEF Running, Shown
    <3>4. CASE Staged[c] \notin DOMAIN Home["EC3"]
      <4>1. Staged[c] \in DOMAIN Place["EC3"] /\ Staged[c] \in DOMAIN ram
        BY <3>1, StagedWritten, PlaceOf, StagedAddress DEF TypeOK
      <4>2. Staged[c] # SizeAt /\ Resets("EC3") = {}
        BY <3>1, <4>1, PlaceRange DEF SizeAt, Resets
      <4> QED BY <2>3, <3>1, <3>2, <3>4, <4>1, <4>2
    <3> QED BY <3>1, <3>3, <3>4, HandedOver
  <2>7. \A x \in Names : Switches'[x] # Switches[x] => x \in Shared(Layout)
    <3> SUFFICES ASSUME NEW x \in Names, Switches'[x] # Switches[x]
                 PROVE  x \in Shared(Layout)
      OBVIOUS
    <3>1. \/ x = <<"minifan", 0>> /\ conf.minifan /\ ram'[MinifanAt(Layout)] # ram[MinifanAt(Layout)]
          \/ x = <<"lock", 0>> /\ ram'[LockAt(Layout)] # ram[LockAt(Layout)]
      BY <1>0, <2>5, SwitchChange
    <3>2. MinifanAt(Layout) \in DOMAIN ram /\ LockAt(Layout) \in DOMAIN ram
      BY DEF TypeOK, Addresses
    <3>3. CASE Layout = "EC2"
      BY <3>1, <3>3 DEF Shared
    <3>4. CASE Layout = "EC3"
      BY <3>1, <3>4 DEF Shared
    <3>5. CASE Layout \in {"EC", "EC4"}
      <4>1. Home[Layout] = Place[Layout]
        BY <2>1, <3>5 DEF Home
      <4>2. ram'[LockAt(Layout)] = ram[LockAt(Layout)]
        BY <2>1, <2>3, <3>2, <3>5, <4>1, Apart
      <4>3. conf.minifan => Layout = "EC"
        BY <3>5, HidesSwitch
      <4>4. conf.minifan => ram'[MinifanAt(Layout)] = ram[MinifanAt(Layout)]
        BY <2>1, <2>3, <3>2, <4>1, <4>3, Apart
      <4> QED BY <3>1, <4>2, <4>4
    <3> QED BY <2>1, <3>3, <3>4, <3>5 DEF InRam, Layouts
  <2>8. Attributes!Changed(Switches, Switches') \subseteq Shared(Layout)
    BY <2>7, Parts DEF Attributes!Changed, ByName
  <2>9. s.table \in {IF TakesRam THEN z.table ELSE WmiTable(z) : z \in Stock[Layout]}
    BY <1>1
  <2> QED BY <2>2, <2>6, <2>8, <2>9, Parts DEF Attributes!Load, ByName
<1>2. CASE ~TakesRam
  <2>1. fw' = [table |-> [c \in Cells |-> s.table[c]], size |-> s.size] /\ ram' = ram
    BY <1>2 DEF Load
  <2>2. WmiTable(fw)' = WmiTable(s)
    BY <1>0, <2>1 DEF WmiTable, WmiSize
  <2>3. Running' = WmiTable(s) /\ Asked' = Running'
    BY <1>0, <1>2, <2>2 DEF Running, Asked, Pending, TakesRam
  <2>4. Attributes!Changed(Switches, Switches') = {}
    BY <1>0, <2>1, SameSwitches DEF Attributes!Changed
  <2>5. WmiTable(s) \in {IF TakesRam THEN z.table ELSE WmiTable(z) : z \in Stock[Layout]}
    BY <1>2
  <2> QED BY <2>3, <2>4, <2>5 DEF Attributes!Load
<1> QED BY <1>1, <1>2

LEMMA TakeUpImplements ==
  ASSUME TypeOK, Execute \/ Ignore
  PROVE  Attributes!TakeUp \/ Attributes!Refuse
<1>0. /\ Layout = "EC3" /\ "EC3" \in InRam /\ Pending /\ Layout' = Layout /\ Cells' = Cells /\ TakesRam /\ TakesRam'
      /\ UNCHANGED <<conf, fullspeed>>
  BY SameConf DEF Execute, Ignore, Pending, InRam, Layouts, TakesRam
<1>1. Command \in DOMAIN ram /\ ram[Command] \in Byte /\ \hC5A0 \in DOMAIN ram
  BY <1>0 DEF TypeOK, Addresses, LockAt
<1>2. Command \notin DOMAIN Home["EC3"] /\ \hC5A0 \notin DOMAIN Home["EC3"]
  BY <1>0, HomeApart
<1>3. ram'[Command] = ram[Command] - 16
  BY <1>0, <1>1, <1>2 DEF Execute, Ignore
<1>4. ~Pending'
  BY <1>0, <1>1, <1>3, BitsKept DEF Pending
<1>5. CommandBits' = CommandBits /\ FullspeedShown' = FullspeedShown
  <2>1. CommandBits = ram[Command] - 16 /\ CommandBits' = ram'[Command] - 0
    BY <1>0, <1>4 DEF CommandBits
  <2> QED BY <1>0, <1>1, <1>3, <2>1 DEF FullspeedShown, Byte
<1>6. ram'[\hC5A0] = ram[\hC5A0]
  <2>1. Command # \hC5A0
    BY DEF Command
  <2> QED BY <1>0, <1>1, <1>2, <2>1 DEF Execute, Ignore
<1>7. Switches' = Switches
  <2>1. MinifanAt(Layout) = \hC5A0 /\ LockAt(Layout) = \hC5A0
    BY <1>0 DEF MinifanAt, LockAt
  <2>2. \A s \in Names : Switches'[s] = Switches[s]
    BY <1>0, <1>5, <1>6, <2>1, SwitchChange
  <2> QED BY <2>2, SwitchesSame
<1>8. Asked' = Running'
  BY <1>0, <1>4 DEF Asked
<1>9. ASSUME NEW c \in Cells
      PROVE  /\ c \in CellsOf["EC3"] /\ ReadAt["EC3"][c] \in DOMAIN ram
             /\ ReadAt["EC3"][c] \in DOMAIN Home["EC3"] /\ Home["EC3"][ReadAt["EC3"][c]] = c
             /\ Running'[c] = ram'[ReadAt["EC3"][c]] /\ Running[c] = ram[ReadAt["EC3"][c]]
  <2>1. c \in CellsOf["EC3"]
    BY <1>0 DEF Cells
  <2>2. ReadAt["EC3"][c] \in DOMAIN ram
    BY <1>0, <2>1, ReadAddress DEF TypeOK
  <2> QED BY <1>0, <2>1, <2>2, HomeOf DEF Running, Shown
<1>10. CASE Execute
  <2>1. \A c \in Cells : Running'[c] = ram[Staged[c]]
    BY <1>0, <1>9, <1>10 DEF Execute
  <2>2. \A c \in Cells : Asked[c] = ram[Staged[c]]
    BY <1>0 DEF Asked
  <2>3. Running' = Asked
    BY <1>0, <2>1, <2>2, Parts, NextParts DEF ByName
  <2>4. Attributes!TakeUp
    BY <1>7, <1>8, <2>3 DEF Attributes!TakeUp
  <2> QED BY <2>4
<1>11. CASE Ignore
  <2>1. \A c \in Cells : Running'[c] = Running[c]
    <3>1. \A a : a # Command => ram'[a] = ram[a]
      BY <1>11 DEF Ignore, TypeOK
    <3> QED BY <1>2, <1>9, <3>1
  <2>3. Running' = Running
    BY <1>0, <2>1, Parts, NextParts DEF ByName
  <2>4. Attributes!Refuse
    BY <1>7, <1>8, <2>3 DEF Attributes!Refuse
  <2> QED BY <2>4
<1> QED BY <1>10, <1>11

LEMMA InitImplements == Init => Attributes!AttrInit
<1> SUFFICES ASSUME Init
             PROVE  Attributes!AttrInit
  OBVIOUS
<1> DEFINE blank == [a \in Addresses(Layout) |->
             IF a = LockAt(Layout) THEN 0 ELSE IF a = MinifanAt(Layout) THEN 160
             ELSE IF a = Command THEN 2 ELSE 0]
<1>1. PICK s \in Stock[Layout] :
        /\ ram = IF TakesRam THEN Loaded(s, blank) ELSE blank
        /\ fw = [table |-> [c \in Cells |-> s.table[c]], size |-> s.size]
  BY DEF Init
<1>2. Layout \in Layouts
  BY InitTyped, LayoutKnown
<1>3. \A c \in DOMAIN Running :
        Running[c] = (IF TakesRam THEN s.table ELSE WmiTable(s))[c]
  <2>1. CASE TakesRam
    <3>1. Layout \in InRam
      BY <1>2, <2>1 DEF InRam, TakesRam
    <3>2. ASSUME NEW c \in Cells PROVE Running[c] = s.table[c]
      <4>1. c \in CellsOf[Layout]
        BY DEF Cells
      <4>2. ReadAt[Layout][c] \in DOMAIN blank
        BY <3>1, <4>1, ReadAddress
      <4> HIDE DEF blank
      <4>3. ram[ReadAt[Layout][c]] = s.table[c]
        BY <1>1, <2>1, <3>1, <4>1, <4>2, CellLoaded
      <4> QED BY <2>1, <4>3 DEF Running, Shown
    <3> QED BY <2>1, <3>2, Parts DEF ByName
  <2>2. CASE ~TakesRam
    <3>1. WmiTable(fw) = WmiTable(s)
      BY <1>1 DEF WmiTable, WmiSize
    <3> QED BY <2>2, <3>1 DEF Running
  <2> QED BY <2>1, <2>2
<1>4. ~Pending
  <2> SUFFICES ASSUME Layout = "EC3" PROVE (ram[Command] \div 16) % 2 # 1
    BY DEF Pending
  <2>1. "EC3" \in InRam /\ Command \in DOMAIN blank /\ blank[Command] = 2
    BY Apart DEF InRam, Layouts, Addresses
  <2>2. Command \notin DOMAIN Home["EC3"] /\ Resets("EC3") = {}
    BY <2>1, HomeApart DEF Resets
  <2> HIDE DEF blank
  <2>3. ram[Command] = 2
    BY <1>1, <2>1, <2>2 DEF Loaded, TakesRam
  <2> QED BY <2>3
<1>5. Asked = Running
  BY <1>4 DEF Asked
<1> QED BY <1>1, <1>3, <1>5 DEF Attributes!AttrInit

LEMMA StepImplements ==
  TypeOK /\ Cleared /\ [Next]_vars => [Attributes!AttrNext]_<<Running, Asked, Switches>>
<1> SUFFICES ASSUME TypeOK, Cleared, [Next]_vars
             PROVE  Attributes!AttrNext \/ UNCHANGED <<Running, Asked, Switches>>
  OBVIOUS
<1>0. ASSUME UNCHANGED <<conf, ram, fw, fullspeed>>
      PROVE  UNCHANGED <<Running, Asked, Switches>>
  BY <1>0, SameTables, SameSwitches
<1>1. ASSUME NEW f \in Fields \cup {"size"}, NEW i, NEW v \in Int, Store(f, i, v)
      PROVE  Attributes!AttrNext \/ UNCHANGED <<Running, Asked, Switches>>
  <2>1. ASSUME NEW j \in JunkFor(f), AutopointRam(f, i, v, j)
        PROVE  Attributes!AttrNext
    <3>1. j \in Nat
      BY JunkAssumption DEF JunkFor
    <3> QED BY <2>1, <3>1, RamImplements DEF Attributes!AttrNext
  <2>2. ASSUME NEW a \in BOOLEAN, AutopointRefused(f, i, v, a)
        PROVE  UNCHANGED <<Running, Asked, Switches>>
    BY <1>0, <2>2 DEF AutopointRefused
  <2>3. ASSUME NEW a \in BOOLEAN, NEW w \in BOOLEAN, NEW ok \in BOOLEAN, NEW b \in BOOLEAN,
               AutopointWmi(f, i, v, a, w, ok, b)
        PROVE  Attributes!AttrNext \/ UNCHANGED <<Running, Asked, Switches>>
    BY <2>3, WmiImplements
  <2> QED BY <1>1, <2>1, <2>2, <2>3 DEF Store
<1>2. ASSUME NEW x \in Asks[Layout], Store(x.field, x.point, x.value)
      PROVE  Attributes!AttrNext \/ UNCHANGED <<Running, Asked, Switches>>
  <2>1. x.field \in Fields /\ x.value \in Int
    BY LayoutKnown, AskAssumption
  <2> QED BY <1>1, <1>2, <2>1
<1>3. ASSUME NEW k \in Sizes, Store("size", 0, k)
      PROVE  Attributes!AttrNext \/ UNCHANGED <<Running, Asked, Switches>>
  BY <1>1, <1>3, AskAssumption
<1>4. ASSUME NEW on \in BOOLEAN, MinifanStore(on) \/ LockStore(on) \/ FullspeedStore(on)
      PROVE  Attributes!AttrNext
  BY <1>4, PokeImplements, FullspeedImplements DEF Attributes!AttrNext
<1>5. ASSUME NEW s \in Stock[Layout], FirmwareLoads(s) \/ DefaultsStore(s)
      PROVE  Attributes!AttrNext
  BY <1>5, LoadImplements DEF FirmwareLoads, DefaultsStore, Attributes!AttrNext
<1>6. ASSUME Execute \/ Ignore
      PROVE  Attributes!AttrNext
  BY <1>6, TakeUpImplements DEF Attributes!AttrNext
<1>7. ASSUME \/ \E a \in BOOLEAN : AutopointShow(a) \/ DebugfsShow(a)
             \/ \E on, a \in BOOLEAN : UnlockStore(on, a)
             \/ DefaultsShow \/ UNCHANGED vars
      PROVE  UNCHANGED <<Running, Asked, Switches>>
  BY <1>0, <1>7 DEF AutopointShow, DebugfsShow, UnlockStore, DefaultsShow, vars
<1> QED BY <1>2, <1>3, <1>4, <1>5, <1>6, <1>7 DEF Next

\* Every fan attribute behaves as a register of its own, on every layout and whatever
\* tables the firmware loads: a store changes the cell or the switch it names, in the
\* table that runs, and nothing else, but for what FanAttributes excuses.
THEOREM AttributesIndependent == Spec => IndependentAttributes
<1>1. TypeOK /\ Cleared /\ [Next]_vars => [Attributes!AttrNext]_(Attributes!attrVars)
  BY StepImplements DEF Attributes!attrVars
<1> QED BY <1>1, InitImplements, InitCleared, StepCleared, TablesTyped, PTL
        DEF Spec, IndependentAttributes, Attributes!AttrSpec
=============================================================================
