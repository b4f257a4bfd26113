\* A limit is written after the key changed the mode.
CONSTANTS
  perf = perf
  custom = custom
  t1 = t1
  t2 = t2
  None = None
  Unread = Unread
  Tasks = {t1, t2}
  Modes = {perf, custom}
  Custom = custom
  Watts = {42, 90}
  Cap <- MCCap
  Default <- MCDefault
SPECIFICATION FairSpec
PROPERTY ClampedToMode
