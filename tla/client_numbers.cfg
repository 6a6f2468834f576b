CONSTANTS
  Addresses = {63}
  Highest = 63
  Broadcast = 0
  Features = {1, 2}
  FeatureMin <- MCMin
  FeatureMax <- MCMax
  FeatureDefault <- MCDefault
  Asked = {3}
  Room = 2
  NumSize = 6
  MaxMissing = 2
  Requests <- MCNumberRequests
  Orders = {o}
  Assumed <- MCSingleAck
SPECIFICATION LiveSpec
INVARIANT NumbersFollow
PROPERTY StreamEnds
