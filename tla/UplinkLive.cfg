SPECIFICATION FairSpec
CONSTANTS
  Base = 2
  Cap = 6
  TabLen <- MCTabLen
  UpSentPeriod <- MCUpSentPeriod
  BelongToOid <- MCBelongToOid
  Text <- MCText
  UIntWidth = 4
  PubBufLen = 3
  MQTP_REPORT = 2
PROPERTIES
  PacketsAreTaken
  SubscriptionSettles
