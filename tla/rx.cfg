CONSTANTS
  RxBufSize = 4
  PaketSize = 10
  Packets <- MCPackets
  Checksum <- MCChecksum
  Answers <- MCAnswers
  BusBytes <- MCBusBytes
  NoiseBytes <- MCNoiseBytes
  InStep = 10
  MaxLost = 2
  Assumed <- MCAllAssumed
SPECIFICATION FairSpec
INVARIANTS TypeOK CrcIsRemainder OnlySentDelivered
PROPERTIES ImplementsRxQueue WholePacketsDelivered HearsAgain
