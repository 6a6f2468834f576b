CONSTANTS
  c1 = c1
  c2 = c2
  l1 = l1
  NoConn = NoConn
  NoLoco = NoLoco
  Conns = {c1}
  Slots <- MCOneSlot
  Locos = {l1}
  Speeds = {5}
  Functions = {}
  Roster <- MCRoster
  HeartbeatTimeout = 1
  PatienceFactor = 2
  ClockSize = 8
  Assumed <- MCFallsSilent
SYMMETRY MCConnSymmetry
SPECIFICATION Spec
INVARIANT SilenceStops
