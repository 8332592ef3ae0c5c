SPECIFICATION TestSpec
CONSTANTS
  kPacketMagic <- MCMagic
  kMaxBatchSize = 24
  Crc <- MCCrc
  Datagrams = {}
  MaxDatagrams = 0
  Options <- MCIdle
  SoRcvTimeoWorks = TRUE
  Uint32Values = 4
  Tests <- MCTests
  Payload <- MCPayload
  MaxFaults = 2
INVARIANTS MssMatchesSender TestTypeOK OnlySentBatches InOrderDelivery DamageIsBounded
CHECK_DEADLOCK FALSE
