SPECIFICATION FairClientSpec
CONSTANTS
  None = None
  Truncated = Truncated
  p1 = p1
  p2 = p2
  a = a
  b = b
  h1 = h1
  h2 = h2
  c1 = c1
  c2 = c2
  Path <- MCMainnet
  Mainnet <- MCMainnet
  Byte <- MCByte
  Payload <- MCPayload
  AcceptedTx <- MCAccepted
  Capacity = 2
  HostsWait = FALSE
  Caller <- TwoCallers
  HostPath <- MCHostPath
  DevicePath <- MCDevicePath
  PathBytes <- MCPathBytes
  Message <- MCMessage
  Request <- TwoRequests
  ChunkSize = 1
INVARIANT ClientTypeOK
INVARIANT SignatureWasApproved
INVARIANT SignedAsAskedOnceBegun
INVARIANT OkMeansDone
PROPERTY DeviceIsServed
PROPERTY CallsReturn
