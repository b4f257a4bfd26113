---------------------------- MODULE MCFanTables ----------------------------
(***************************************************************************)
(* All four EC layouts and both WMI models, with tables of the firmware    *)
(* among them a curve shorter than ten points, a length above ten, and     *)
(* (WMI) no points at all and a speed above a byte.                        *)
(***************************************************************************)
EXTENDS FanTables

\* Speeds in steps from base, temperatures rising to 127; z points in all.
Curve(base, z, size) ==
  [size |-> size,
   table |-> [c \in Fields \X Points |->
     IF c[2] >= z THEN 0
     ELSE IF c[1] \in Speeds THEN base + 3 * c[2]
     ELSE IF c[1] \in {"accel", "decel"} THEN 2
     ELSE 37 + 10 * c[2]]]

MCStock == [l \in Layouts |->
  CASE l = "EC" -> {Curve(10, 9, 9), Curve(16, 10, 12)}
    [] l = "WMI3" -> {Curve(30, 8, 8), Curve(61, 10, 10), Curve(240, 10, 10), Curve(0, 0, 0)}
    [] l = "EC3" -> {Curve(10, 10, 10)}
    [] OTHER -> {Curve(10, 10, 10), Curve(1, 10, 10)}]

A(f, i, v) == [field |-> f, point |-> i, value |-> v]
MCAsks == [l \in Layouts |->
  CASE l = "EC" -> {A("speed1", 0, 100), A("speed2", 9, 255), A("ic_max", 8, 90)}
    [] l = "EC2" -> {A("speed1", 0, 100), A("cpu_max", 7, 90), A("gpu_min", 8, 50)}
    [] l = "EC3" -> {A("speed1", 0, 255), A("cpu_max", 9, 90), A("ic_max", 9, 90)}
    [] l = "EC4" -> {A("speed1", 9, 100), A("gpu_max", 0, 90), A("cpu_min", 3, 40)}
    [] OTHER -> {A("speed1", 7, 128), A("speed1", 9, 255), A("cpu_max", 0, 60)}]
=============================================================================
