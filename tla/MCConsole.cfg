SPECIFICATION FairSpec
CONSTANTS
  t1 = t1
  t2 = t2
  Thread = {t1, t2}
  MaxInt = 15
  MaxPrintLength = 2
  Inputs <- MCInputs
  Numbers <- MCNumbers
  Letters <- MCLetters
  Strings <- MCStrings
  Lengths <- MCLengths
  MaxCalls = 2
INVARIANTS
  DevicesSound
  NothingLost
PROPERTIES
  InputRead
  Printed
  PrintsReturn
  ReaderServed
CHECK_DEADLOCK FALSE
