CONSTANTS
  c1 = c1
  c2 = c2
  l1 = l1
  NoConn = NoConn
  NoLoco = NoLoco
  Conns = {c1, c2}
  Slots <- MCTwoSlots
  Locos = {l1}
  Speeds <- MCSteps
  Functions = {0, 2, 5}
  Roster <- MCRoster
  HeartbeatTimeout = 1
  PatienceFactor = 1
  ClockSize = 5
  Assumed <- MCAllAssumed
SYMMETRY MCConnSymmetry
SPECIFICATION Spec
INVARIANTS SlotOwned QuietWhenFree ExpiredExactly PhoneMatchesBus FunctionsFollowKeys
PROPERTY ReverseOnlyStopped
