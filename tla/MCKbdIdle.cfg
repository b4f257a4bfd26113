\* The key, a slider and KDE write while the daemon dims and wakes.
CONSTANTS
  Max = 2
  Pending = 2
  None = None
SPECIFICATION FairSpec
INVARIANTS
  TypeOK
  QueueInStep
  ComesBack
PROPERTIES
  NoUndo
  WakesUp
