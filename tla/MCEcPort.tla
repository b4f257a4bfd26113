------------------------------ MODULE MCEcPort ------------------------------
(***************************************************************************)
(* Two threads on the registers of ec_register_offsets_v0, on a model      *)
(* whose sensors are in the EC, on one behind ACPI and on one behind WMI.  *)
(* Fan 1 turns at speeds on both sides of a multiple of 256, where both    *)
(* bytes change.                                                           *)
(***************************************************************************)
EXTENDS EcPort

CONSTANTS t1, t2   \* a reader, and one that also writes

MCReg == [n \in Names |->
  CASE n = "ECHIPID1" -> 8192 [] n = "ECHIPID2" -> 8193       \* 0x2000
    [] n = "ECHIPVER" -> 8194 [] n = "ECDEBUG" -> 8195
    [] n = "FAN1_LSB" -> 50656 [] n = "FAN1_MSB" -> 50657     \* 0xC5E0
    [] n = "FAN2_LSB" -> 50658 [] n = "FAN2_MSB" -> 50659
    [] n = "CPU_INPUT" -> 50488 [] n = "GPU_INPUT" -> 50489   \* 0xC538
    [] n = "IC_INPUT" -> 50664 [] n = "CPU" -> 50662 [] n = "GPU" -> 50663 [] n = "IC" -> 50664
    [] n = "FAN1_TARGET" -> 50688 [] n = "FAN2_TARGET" -> 50689   \* 0xC600
    [] n = "YLOGO" -> 50031 [] n = "POWERMODE" -> 50208]      \* 0xC36F, 0xC420
MCOffsets == {MCReg[n] : n \in Names}
MCContents == [o \in MCOffsets |->
  CASE o = 8192 -> 130 [] o = 8193 -> 39 [] o = 50662 -> 61 [] o = 50663 -> 55
    [] o = 50031 -> 2 [] OTHER -> 0]

C(f, t, r, d, o) ==
  [fanspeed |-> f, temperature |-> t, isRpm |-> r, isDuty |-> d, readonly |-> o]
MCConfs == {C("EC", "EC", FALSE, FALSE, FALSE), C("ACPI", "WMI3", FALSE, TRUE, TRUE)}

MCRpms == [f \in Fans |-> CASE f = 0 -> {511, 512} [] f = 1 -> {2400} [] OTHER -> {1950}]

J(k, a, b) == {[kind |-> k, arg |-> a, flip |-> b]}
MCJobs == [t \in Threads |->
  IF t = t1 THEN J("fan", 0, TRUE) \cup J("light_get", 0, FALSE)
  ELSE J("fan", 0, FALSE) \cup J("fan", 2, FALSE) \cup J("temp", 1, FALSE)
       \cup J("target", 0, FALSE) \cup J("light_set", 2, FALSE) \cup J("light_set", 3, FALSE)]
=============================================================================
