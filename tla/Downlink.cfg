SPECIFICATION FairSpec
CONSTANTS
  Base = 4
  Cap = 14
  Msg <- MCMsg
  RecvLen = 5
  MQTPC2DTU = 13
  DTU2MQTPR = 6
INVARIANTS
  TypeOK
  BacklogIsRecent
  SlotSuffices
PROPERTIES
  TreatedInOrder
  TreatedOnce
  EveryMessageTreated
