CONSTANTS
  p1 = p1
  p2 = p2
  p3 = p3
  Clients = {p1, p2, p3}
  NoMac = NoMac
  Foreign = Foreign
  MaxIp = 2
  ClockSize = 8
  ExpiryUnit = 2
  LeaseTime = 2
  MaxGone = 1
  StaTimeout = 1
SPECIFICATION FairSpec
INVARIANTS TypeOK HoldersKnown
PROPERTY EveryoneServed
