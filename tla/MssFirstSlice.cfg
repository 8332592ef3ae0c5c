SPECIFICATION TestSpec
CONSTANTS
  kPacketMagic <- MCMagic
  kMaxBatchSize = 24
  Crc <- MCCrc
  Datagrams = {}
  MaxDatagrams = 0
  Options <- MCIdle
  SoRcvTimeoWorks = TRUE
  Uint32Values = 4
  Tests <- MCRestLikeFirst
  Payload <- MCPayload
  MaxFaults = 0
INVARIANT MssNeverFirstSlice
CHECK_DEADLOCK FALSE
