\* 83sc-fan apply gradual, from the factory table.
CONSTANTS
  fan = fan
  None = None
  N = 10
  MaxRpm = 5400
  Modes = {255}
  Custom = 255
  Writers = {fan}
  Boot <- MCBoot
  Stock <- MCStock
  Asked <- MCAsked
SPECIFICATION Spec
INVARIANT NeverInverted
