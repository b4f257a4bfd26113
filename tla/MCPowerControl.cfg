\* Two tasks write the power nodes while the mode changes under them.
CONSTANTS
  perf = perf
  custom = custom
  t1 = t1
  t2 = t2
  None = None
  Unread = Unread
  Tasks = {t1, t2}
  Modes = {perf, custom}
  Custom = custom
  Watts = {42, 90}
  Cap <- MCCap
  Default <- MCDefault
SYMMETRY AnyTask
SPECIFICATION Spec
INVARIANTS
  TypeOK
  CoupledInOrder
  LimitsAdvertised
PROPERTIES
  SuccessIsEffect
  FullspeedGuarded
