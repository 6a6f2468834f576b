CONSTANTS
  TxBufSize = 8
  Reserve = 3
  LogonMsgSize = 3
  BackoffRange = 4
  RxPackets = 2
  b1 = b1
  b2 = b2
  Bytes <- MCBytes
  LogonByte = LogonByte
  ZeroByte = ZeroByte
  Messages <- MCMessages
  Assumed <- MCAllAssumed
SPECIFICATION Spec
CHECK_DEADLOCK FALSE
INVARIANT RingAligned
PROPERTIES FrameNeverCut InFlightKept ImplementsTxQueue
