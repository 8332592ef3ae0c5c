SPECIFICATION ServerSpec
CONSTANTS
  kPacketMagic <- MCMagic
  kMaxBatchSize = 16
  Crc <- MCCrc
  Datagrams <- MCTraffic
  MaxDatagrams = 3
  Options <- MCPlainIdle
  SoRcvTimeoWorks = TRUE
  Uint32Values = 4
PROPERTY NoTimeoutWhileReassembling
CHECK_DEADLOCK FALSE
