SPECIFICATION Spec
CONSTANTS
  BuffLen = 4
  Byte <- MCByte
INVARIANT TypeOK
PROPERTY ImplementsFifo
