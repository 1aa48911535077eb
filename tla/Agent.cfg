SPECIFICATION FairSpec
CONSTANTS
  Endpoints = {"local", "remote"}
  MaxTokens = 3
  MaxDuration = 2
  Tokens = {1, 2}
  Signals <- MCSignals
  MaxAvgEntropy = 1
  MaxLowConfidence = 50
  TrackerSize = 2
  StoreSize = 3
  MaxRetries = 1
  MaxCalls = 4
  MaxTime = 2
INVARIANTS EventsKeepLast OvershootOneReply DeliveriesBounded
PROPERTIES RunAnswersWithinLimits CallsReturn
CHECK_DEADLOCK FALSE
