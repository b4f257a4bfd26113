\* A press of the Fn key against the echo of the daemon's own write.
CONSTANTS
  Max = 2
  Pending = 2
  None = None
SPECIFICATION Spec
PROPERTIES
  KeyTold
