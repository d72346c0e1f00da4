SPECIFICATION Spec
CONSTANTS
  Base = 4
  MqCap = 5
  ComCap = 9
  TabLen = 1
  UpSentPeriod <- MCUpSentPeriod
  BelongToOid <- MCBelongToOid
  Text <- MCText
  UIntWidth = 4
  PubBufLen = 3
  MQTP_REPORT = 4
  Msg <- MCMsg
  RecvLen = 4
  MQTPC2DTU = 13
  DTU2MQTPR = 6
  EchoBound = 1
  ArriveBound = 3
CONSTRAINT Bounds
INVARIANTS
  ControlIsServers
PROPERTIES
  StrayNeedsReport
  ImplementsUplink
  ImplementsLocks
