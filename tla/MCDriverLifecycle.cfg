\* Two devices, five machines, three power modes.
SPECIFICATION FairSpec
CONSTANTS
  Devices = {d1, d2}
  Machines <- MCMachines
  FirstModel <- model_v0
  Modes = {1, 2, 255}
  Nothing = Nothing
INVARIANTS
  TypeOK
  SharedOwned
  PortsHeld
  AttributesFit
  NothingLeft
  NotifyReachesProfile
  FreshStart
  ModeKept
PROPERTIES
  Settles
