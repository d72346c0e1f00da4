SPECIFICATION Spec
CONSTANTS
  Base = 2
  Cap = 10
  TabLen <- MCTabLen
  UpSentPeriod <- MCUpSentPeriod
  BelongToOid <- MCBelongToOid
  Text <- MCText
  UIntWidth = 4
  PubBufLen = 3
  MQTP_REPORT = 2
CONSTRAINT LinkBound
INVARIANTS
  TypeOK
  SignalPending
  SubscribedUnlessRefused
  PacketSumCounts
  PubBufSuffices
PROPERTY ImplementsReportQueue
