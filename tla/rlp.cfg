SPECIFICATION Spec
CONSTANTS
  Base = 16
  BytePrefix = 5
  StringShort = 8
  StringLong = 10
  ListShort = 13
  LenModulus = 256
  RlpModulus = 256
  MaxFields <- MCMaxFields
  Writable <- MCWritable
  Sources <- MCSources
  Buffers <- MCBuffers
CHECK_DEADLOCK FALSE
INVARIANTS
  TypeOK
  InBounds
  ItemsAreAnnounced
  ReadsWhatWasWritten
