----------------------------- MODULE FanLayouts -----------------------------
(***************************************************************************)
(* Where the driver keeps a fan table on each family of models, and how it *)
(* converts a duty cycle (pwm, 0..255) to the unit the table is kept in.   *)
(* A table is a function of cells <<field, point>>; the EC's four layouts  *)
(* differ in the fields they keep and in the address of each cell, and     *)
(* EC3 reads one copy of the table and writes another.                     *)
(***************************************************************************)
EXTENDS Integers

MAXFANCURVESIZE == 10
Points == 0..(MAXFANCURVESIZE - 1)
Speeds == {"speed1", "speed2"}
MaxTemps == {"cpu_max", "gpu_max", "ic_max"}
Temps == MaxTemps \cup {"cpu_min", "gpu_min", "ic_min"}
Fields == Speeds \cup {"accel", "decel"} \cup Temps
Byte == {n \in Nat : n < 256}
Layouts == {"EC", "EC2", "EC3", "EC4", "WMI3"}

\* What the driver's stores and reads depend on, of a model_config.
Model(l, u, r, c, mini, lock, fixed) ==
  [layout |-> l, unit |-> u, rpm |-> r, confirms |-> c, minifan |-> mini,
   locks |-> lock, speedOnly |-> fixed]
model_v0 == Model("EC", "rpm", 0, FALSE, TRUE, FALSE, FALSE)
model_9vcn == Model("EC2", "rpm", 0, FALSE, TRUE, FALSE, FALSE)
model_secn == Model("EC3", "rpm", 5400, FALSE, TRUE, FALSE, FALSE)
model_nmcn == Model("EC4", "rpm", 0, FALSE, FALSE, FALSE, FALSE)
model_n2cn == Model("WMI3", "nearest", 0, TRUE, FALSE, TRUE, TRUE)
model_nxcn == Model("WMI3", "percent", 0, FALSE, TRUE, FALSE, FALSE)
Models == {model_v0, model_9vcn, model_secn, model_nmcn, model_n2cn, model_nxcn}

-----------------------------------------------------------------------------
(* Cells and their addresses *)

Kept(l) ==
  CASE l = "EC" -> Fields
    [] l = "EC2" -> Speeds \cup {"cpu_max", "cpu_min", "gpu_max", "gpu_min"}
    [] l = "EC3" -> Speeds \cup Temps
    [] l = "EC4" -> Speeds \cup {"cpu_max", "gpu_max"}
    [] l = "WMI3" -> {"speed1"}
PointsOf(l) == IF l = "EC2" THEN 0..7 ELSE Points
CellsOf == [l \in Layouts |-> Kept(l) \X PointsOf(l)]

\* Seeded fault: the IC columns are read with the stride of the others.
ReadStrideNarrow(l, f) == IF l \in {"EC3", "EC4"} THEN 3 ELSE 1

\* Bytes from a point to the next in the copy that is read, and in the one written.
ReadStride(l, f) ==
  IF l = "EC3" /\ f \in {"ic_max", "ic_min"} THEN 6
  ELSE IF l \in {"EC3", "EC4"} THEN 3 ELSE 1
WriteStride(l) == IF l = "EC3" THEN 6 ELSE IF l = "EC4" THEN 3 ELSE 1

\* Address field f of the first point is read from.
ReadBase(l, f) ==
  CASE l = "EC" ->
         (CASE f = "speed1" -> \hC540 [] f = "speed2" -> \hC550 [] f = "accel" -> \hC560
            [] f = "decel" -> \hC570 [] f = "cpu_max" -> \hC580 [] f = "cpu_min" -> \hC590
            [] f = "gpu_max" -> \hC5A0 [] f = "gpu_min" -> \hC5B0
            [] f = "ic_max" -> \hC5C0 [] f = "ic_min" -> \hC5D0)
    [] l = "EC2" ->
         (CASE f = "speed1" -> \hC5A0 [] f = "speed2" -> \hC5A8 [] f = "cpu_max" -> \hC550
            [] f = "cpu_min" -> \hC590 [] f = "gpu_max" -> \hC5C0 [] f = "gpu_min" -> \hC5D0)
    [] l = "EC3" ->
         (CASE f = "speed1" -> \hC509 [] f = "cpu_max" -> \hC508 [] f = "cpu_min" -> \hC507
            [] f = "speed2" -> \hC53C [] f = "gpu_max" -> \hC53B [] f = "gpu_min" -> \hC53A
            [] f = "ic_max" -> \hCF79 [] f = "ic_min" -> \hCF78)
    [] l = "EC4" ->
         (CASE f = "cpu_max" -> \hC50A [] f = "gpu_max" -> \hC50B
            [] f = "speed1" -> \hC50C [] f = "speed2" -> \hC533)

\* Addresses field f of the first point is written to.
WriteBases(l, f) ==
  CASE l = "EC" -> {ReadBase(l, f)}
    [] l = "EC2" -> {ReadBase(l, f)} \cup (IF f \in Speeds THEN {} ELSE {ReadBase(l, f) + 8})
    [] l = "EC3" ->
         (CASE f = "speed1" -> {\hCF02} [] f = "cpu_max" -> {\hCF01} [] f = "cpu_min" -> {\hCF00}
            [] f = "speed2" -> {\hCF3E} [] f = "gpu_max" -> {\hCF3D} [] f = "gpu_min" -> {\hCF3C}
            [] f = "ic_max" -> {\hCF79} [] f = "ic_min" -> {\hCF78})
    [] l = "EC4" ->
         (CASE f = "cpu_max" -> {\hC50A, \hC531} [] f = "gpu_max" -> {\hC50B, \hC532}
            [] f = "speed1" -> {\hC50C} [] f = "speed2" -> {\hC533})

InRam == Layouts \ {"WMI3"}
ReadAt == [l \in InRam |->
  [c \in CellsOf[l] |-> ReadBase(l, c[1]) + ReadStride(l, c[1]) * c[2]]]
WriteAt(l, c) == {b + WriteStride(l) * c[2] : b \in WriteBases(l, c[1])}

\* The cell whose value a store leaves at an address of the layout.
Place == [l \in InRam |->
  [a \in UNION {WriteAt(l, c) : c \in CellsOf[l]} |-> CHOOSE c \in CellsOf[l] : a \in WriteAt(l, c)]]

\* The EC of layout EC3: where the table it runs lies, and the one it is to run.
Active == [c \in CellsOf["EC3"] |->
  CASE c[1] = "speed1" -> \hC509 + 3 * c[2] [] c[1] = "speed2" -> \hC53C + 3 * c[2]
    [] c[1] = "cpu_max" -> \hC508 + 3 * c[2] [] c[1] = "cpu_min" -> \hC507 + 3 * c[2]
    [] c[1] = "gpu_max" -> \hC53B + 3 * c[2] [] c[1] = "gpu_min" -> \hC53A + 3 * c[2]
    [] OTHER -> (IF c[1] = "ic_max" THEN \hCF79 ELSE \hCF78) + 6 * c[2]]
Staged == [c \in CellsOf["EC3"] |->
  CASE c[1] = "speed1" -> \hCF02 + 6 * c[2] [] c[1] = "speed2" -> \hCF3E + 6 * c[2]
    [] c[1] = "cpu_max" -> \hCF01 + 6 * c[2] [] c[1] = "cpu_min" -> \hCF00 + 6 * c[2]
    [] c[1] = "gpu_max" -> \hCF3D + 6 * c[2] [] c[1] = "gpu_min" -> \hCF3C + 6 * c[2]
    [] OTHER -> Active[c]]

\* The cell of the EC's own table that lies at an address.
Home == [l \in InRam |->
  IF l = "EC3" THEN [a \in {Active[c] : c \in CellsOf[l]} |-> CHOOSE c \in CellsOf[l] : a = Active[c]]
  ELSE Place[l]]

\* Registers besides the table's: the number of points, the command byte
\* (EC3: bit 4 hands the table over; EC4: bit 0 is full speed), the switches,
\* and the EC's counters and current levels that a store sets to 0.
SizeAt == \hC535
Command == \hCFB6
Resets(l) ==
  CASE l = "EC" -> {\hC534, \hC5FE, \hC5FF, \hC634, \hC635, \hC636}
    [] l = "EC2" -> {\hC5FE, \hC5FF}
    [] OTHER -> {}
MinifanAt(l) == IF l \in {"EC2", "EC3"} THEN \hC5A0 ELSE \hC536
LockAt(l) == IF l \in {"EC2", "EC3"} THEN \hC5A0 ELSE \hC4AB

Addresses(l) ==
  {MinifanAt(l), LockAt(l)} \cup Resets(l) \cup
  (IF l = "EC" THEN {SizeAt} ELSE {}) \cup (IF l \in {"EC3", "EC4"} THEN {Command} ELSE {}) \cup
  (IF l \in InRam THEN DOMAIN Place[l] \cup DOMAIN Home[l] \cup {ReadAt[l][c] : c \in CellsOf[l]} ELSE {})

\* Attributes the register tables give one address: 0xC5A0 stands for every
\* register that was not found, and is the first speed of the ideapad table.
Shared(l) ==
  CASE l = "EC2" -> {<<"minifan", 0>>, <<"lock", 0>>, <<"speed1", 0>>}
    [] l = "EC3" -> {<<"minifan", 0>>, <<"lock", 0>>}
    [] OTHER -> {}

-----------------------------------------------------------------------------
(* Duty cycles *)

MAX_RPM == 10000
Scale(r) == IF r = 0 THEN MAX_RPM ELSE r

\* Seeded fault: a duty cycle is rounded down to hundreds of rpm.
SetSpeedFloor(u, r, v) ==
  CASE u = "percent" -> (v * 100) \div 255
    [] u = "nearest" -> (v * 100 + 127) \div 255
    [] OTHER -> ((v * Scale(r)) \div 25500) % 256

\* Seeded fault: the speed is not cut to a byte.
SetSpeedWide(u, r, v) ==
  CASE u = "percent" -> (v * 100) \div 255
    [] u = "nearest" -> (v * 100 + 127) \div 255
    [] OTHER -> (v * Scale(r) + 25499) \div 25500

\* fancurve_set_speed_pwm, v in 0..255; r: max_rpm of the curve.
SetSpeed(u, r, v) ==
  CASE u = "percent" -> (v * 100) \div 255
    [] u = "nearest" -> (v * 100 + 127) \div 255
    [] OTHER -> ((v * Scale(r) + 25499) \div 25500) % 256

\* fancurve_get_speed_pwm
GetSpeed(u, r, s) ==
  IF u \in {"percent", "nearest"} THEN (s * 255) \div 100 ELSE (s * 25500) \div Scale(r)
=============================================================================
