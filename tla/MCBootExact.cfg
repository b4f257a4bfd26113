\* The boot script alone replays a snapshot of crossed limits.
CONSTANTS
  perf = perf
  custom = custom
  script = script
  user = user
  None = None
  Unread = Unread
  Tasks = {script}
  Boot = script
  Modes = {perf, custom}
  Custom = custom
  Watts = {}
  Cap <- MCCap
  Default <- MCDefault
  Snapshots <- MCCrossed
SPECIFICATION BootSpec
INVARIANT ReplaysExactly
