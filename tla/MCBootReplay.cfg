\* The boot script replays boot.conf while another task writes the power nodes.
CONSTANTS
  perf = perf
  custom = custom
  script = script
  user = user
  None = None
  Unread = Unread
  Tasks = {script, user}
  Boot = script
  Modes = {perf, custom}
  Custom = custom
  Watts = {}
  Cap <- MCCap
  Default <- MCDefault
  Snapshots <- MCSnapshots
SPECIFICATION FairBootSpec
INVARIANT ReplayRestores
PROPERTY StoreReturns
