CONSTANTS
  TxBufSize = 4
  Reserve = 2
  LogonMsgSize = 3
  BackoffRange = 4
  RxPackets = 1
  b1 = b1
  b2 = b2
  Bytes <- MCBytes
  LogonByte = LogonByte
  ZeroByte = ZeroByte
  Messages <- MCPlainMessages
  Assumed <- MCNoneAssumed
SPECIFICATION FairSpec
CHECK_DEADLOCK FALSE
INVARIANT DriverHasOwner
PROPERTIES BusReleased QueueDrains KeepsApplying
