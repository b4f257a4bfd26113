\* Curves that do not fit each other are written over each other.
CONSTANTS
  perf = perf
  custom = custom
  gui = gui
  fan = fan
  None = None
  N = 3
  MaxRpm = 5400
  Modes = {perf, custom}
  Custom = custom
  Writers = {gui, fan}
  Boot <- MCBoot
  Stock <- MCStock
  Asked <- MCAsked
SPECIFICATION Spec
INVARIANT HighestFirst
