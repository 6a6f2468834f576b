CONSTANTS
  NoConn = NoConn
  NoLoco = NoLoco
  Conns = {c1}
  Slots <- MCOneSlot
  Locos = {l1}
  Speeds = {5}
  Functions = {}
  Roster <- MCRoster
  HeartbeatTimeout = 1
  PatienceFactor = 1
  ClockSize = 3
  Assumed <- MCAllAssumed
  Addresses = {63}
  Highest = 63
  Broadcast = 0
  Features = {1}
  FeatureMin <- MCBounds
  FeatureMax <- MCBounds
  FeatureDefault <- MCBounds
  Asked = {2}
  Room = 2
  NumSize = 4
  MaxMissing = 0
  Requests <- MCRequests
  LinkAssumed = {"single_ack"}
SPECIFICATION GatewaySpec
INVARIANTS OrdersArrive PhoneSeesStation
PROPERTY GentleOrders
