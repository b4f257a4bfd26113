\* All layouts and both WMI models; two tables of the firmware, stores of two cells.
SPECIFICATION Spec
CONSTANTS
  Confs <- Models
  Stock <- MCStock
  Asks <- MCAsks
  Sizes = {3, 11}
  Junk = {0, 65535}
  Nothing = Nothing
INVARIANTS
  TypeOK
  CopyStable
  StoreConfirmed
  CopiesTrue
PROPERTIES
  IndependentAttributes
