SPECIFICATION ArithmeticSpec
CONSTANTS
  HalfBits = 2
  Numbers <- MCNumbers
  BaseParams = {1}
  OutLengths = {2}
  CallWords = {0, 15}
CHECK_DEADLOCK FALSE
INVARIANTS
  Mul256IsProduct
