CONSTANTS
  Addresses = {1, 63}
  Highest = 63
  Broadcast = 0
  Features = {1, 2}
  FeatureMin <- MCMin
  FeatureMax <- MCMax
  FeatureDefault <- MCDefault
  Asked = {0, 3}
  Room = 2
  NumSize = 4
  MaxMissing = 0
  Requests <- MCSessionRequests
  Orders = {o}
  Assumed <- MCAllAssumed
SPECIFICATION Spec
INVARIANTS MasterKnowsValues StreamSkipsNone SubscribedMeansAsked
