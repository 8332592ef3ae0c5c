SPECIFICATION Spec
CONSTANTS
  kPacketMagic <- MCMagic
  kMaxBatchSize = 16
  Crc <- MCCrc
  Datagrams <- MCHeaderOnly
  MaxDatagrams = 4
INVARIANTS ValidatedWhenComplete
CHECK_DEADLOCK FALSE
