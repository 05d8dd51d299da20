SPECIFICATION Spec
CONSTANTS
  None = None
  Truncated = Truncated
  p1 = p1
  p2 = p2
  foreign = foreign
  a = a
  b = b
  Path <- MCPath
  Mainnet <- MCMainnet
  Byte <- MCByte
  Payload <- MCPayload
  AcceptedTx <- MCAccepted
  Capacity = 3
  HostsWait = FALSE
INVARIANTS
  OpenUploadIsMainnet
PROPERTIES
  UploadOnlyGrows
  ReviewStartsFromUpload
