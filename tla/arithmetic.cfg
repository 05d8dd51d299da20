SPECIFICATION ArithmeticSpec
CONSTANTS
  HalfBits = 2
  Numbers <- MCNumbers
  BaseParams = {1, 2, 3, 10}
  OutLengths = {2, 5, 6, 20}
  CallWords = {0, 9, 15}
\* A call ends with its result.
CHECK_DEADLOCK FALSE
INVARIANTS
  TypeOK
  StaysInBuffer
  DivisionIsExact
  WritesTheNumber
  RefusesOnlyTooLong
  AddsAndSubtracts
  Shifts
  Mul128IsProduct
  ReadsBigEndian
PROPERTIES
  Returns
