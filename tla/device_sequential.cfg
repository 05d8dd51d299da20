SPECIFICATION FairDeviceSpec
CONSTANTS
  None = None
  Truncated = Truncated
  p1 = p1
  p2 = p2
  foreign = foreign
  a = a
  b = b
  Path <- MCPath
  Mainnet <- MCMainnet
  Byte <- MCByte
  Payload <- MCPayload
  AcceptedTx <- MCAccepted
  Capacity = 2
  HostsWait = TRUE
  RlpItem <- MCRlpItem
  Items <- MCItems
  MANTX_EXTRALISTFIELD_COUNT = 2
  Width = 37
INVARIANTS
  DeviceTypeOK
  ReviewOwnsGlobals
  AnswerOwedIffReview
  ScreenIsOfTheAnswer
PROPERTIES
  Implements
  ImplementsApp
  EveryCommandAnswered
