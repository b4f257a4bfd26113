\* Two programs write curves at once while the power mode changes.
CONSTANTS
  perf = perf
  custom = custom
  boot = boot
  gui = gui
  None = None
  N = 2
  MaxRpm = 5400
  Modes = {perf, custom}
  Custom = custom
  Writers = {boot, gui}
  Boot <- MCBoot
  Stock <- MCStock
  Asked <- MCAsked
SPECIFICATION FairSpec
INVARIANTS
  TypeOK
  NeverInverted
  CurveInEffect
PROPERTIES
  IndependentRegisters
  WalkEnds
