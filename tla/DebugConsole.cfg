SPECIFICATION Spec
CONSTANTS
  Client <- MCClient
  Datagram <- MCDatagram
  DebugText <- MCDebugText
  BufLen = 3
INVARIANTS
  TypeOK
  AddressIsAskers
  DebugIsHeard
PROPERTIES
  AskerGetsLines
