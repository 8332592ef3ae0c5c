SPECIFICATION FairSpec
CONSTANTS
  kPacketMagic <- MCMagic
  kMaxBatchSize = 16
  Crc <- MCCrc
  Datagrams <- MCAnyTraffic
  MaxDatagrams = 5
INVARIANTS SegmentsAccountForBytes CountersMatchHistory OpenedBatchesAccountedFor TypeOK ReassemblyConsistent OneTotalPerSession
PROPERTIES IngestReturns IngestProgresses TotalIsPinned ImplementsStream
CHECK_DEADLOCK FALSE
