SPECIFICATION FileSpec
CONSTANTS
  Inputs <- MCInputs
  Files <- MCFiles
INVARIANTS
  EncodesGroups
  DecodesBack
  CrcIsRemainder
PROPERTY ImplementsSerialCrc
CHECK_DEADLOCK FALSE
