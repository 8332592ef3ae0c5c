SPECIFICATION UsoSpec
CONSTANTS
  Hosts <- MCOneHost
  Sources <- MCAutoSource
  Destinations <- MCPeer
  Unspecified <- MCUnspecified
  Loopback <- MCLoopback
  IPv6 <- MCIPv6
  SendOptions <- MCOneAttempt
  Kernels <- MCOnlyEither
  Uint32Values <- MCUint32Values
INVARIANT FailureReported
CHECK_DEADLOCK FALSE
