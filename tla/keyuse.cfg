SPECIFICATION Spec
CONSTANTS
  None = None
  thePath = thePath
  theText = theText
  hdPath <- thePath
  message <- theText
  DerLens <- MCDerLens
  Base58Lens <- MCBase58Lens
INVARIANT TypeOK
INVARIANT SecretsCleared
INVARIANT ShownIsAnswered
PROPERTY Implements
\* A call ends when its answer is sent.
CHECK_DEADLOCK FALSE
