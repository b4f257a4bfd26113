------------------------- MODULE MCDriverLifecycle -------------------------
(***************************************************************************)
(* Two devices on five machines: model_rzcn with its checks; the WMI curve *)
(* of model_t2cn and the EC power mode and lights of model_khcn on kernels *)
(* before 6.14; a machine no list knows; and that machine with force and   *)
(* without platform profiles.                                              *)
(***************************************************************************)
EXTENDS DriverLifecycle

model_v0 ==
  [has |-> {"acpi_check_dev", "check_embedded_controller_id", "rapidcharge", "cpu_guid", "gpu_guid",
            "fan_fullspeed", "minifancurve", "keyboard"},
   powermode |-> "WMI", fancurve |-> "other"]
model_rzcn ==
  [has |-> {"acpi_check_dev", "check_embedded_controller_id", "cpu_guid", "skip_oc_controls",
            "skip_ic_temp", "four_fans", "skip_ylogo_light", "skip_ioport_light"},
   powermode |-> "WMI", fancurve |-> "NO_ACCESS"]
model_t2cn ==
  [has |-> {"check_embedded_controller_id", "cpu_guid", "fan_fullspeed", "fancurve_defaults",
            "skip_ylogo_light", "skip_ioport_light"},
   powermode |-> "WMI", fancurve |-> "WMI3"]
model_khcn == [model_v0 EXCEPT !.has = @ \ {"acpi_check_dev", "check_embedded_controller_id"}, !.powermode = "EC"]

Machine(c, allowed, force, profile, devm) ==
  [conf |-> c, allowed |-> allowed, force |-> force, enable_platformprofile |-> profile, devm |-> devm]
MCMachines == {
  Machine(model_rzcn, TRUE, FALSE, TRUE, TRUE),
  Machine(model_t2cn, TRUE, FALSE, TRUE, FALSE),
  Machine(model_khcn, TRUE, FALSE, TRUE, FALSE),
  Machine(model_v0, FALSE, FALSE, TRUE, TRUE),
  Machine(model_v0, FALSE, TRUE, FALSE, FALSE)}
=============================================================================
