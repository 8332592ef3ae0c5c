SPECIFICATION UsoSpec
CONSTANTS
  Hosts <- MCHosts
  Sources <- MCSources
  Destinations <- MCDestinations
  Unspecified <- MCUnspecified
  Loopback <- MCLoopback
  IPv6 <- MCIPv6
  SendOptions <- MCSendOptions
  Kernels <- MCKernels
  Uint32Values <- MCUint32Values
INVARIANTS UsoTypeOK SentOnce BufferStable MisledOnlyByMixing
           BoundToEgress PktinfoConsistent SocketReleased
PROPERTY RunEnds
CHECK_DEADLOCK FALSE
