SPECIFICATION ClientSpec
CONSTANTS
  None = None
  Truncated = Truncated
  p1 = p1
  p2 = p2
  a = a
  b = b
  h1 = h1
  h2 = h2
  c1 = c1
  c2 = c2
  Path <- MCMainnet
  Mainnet <- MCMainnet
  Byte <- MCByte
  Payload <- MCPayload
  AcceptedTx <- MCAccepted
  Capacity = 2
  HostsWait = FALSE
  Caller <- OneCaller
  HostPath <- MCHostPath
  DevicePath <- MCDevicePath
  PathBytes <- MCPathBytes
  Message <- MCMessage
  Request <- OneRequest
  ChunkSize = 1
INVARIANT SignedAsAsked
