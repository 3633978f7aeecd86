SPECIFICATION FairSpec
CONSTANTS
  ReqCap = 1
  MayCancel = TRUE
  MaxFault = 2
INVARIANTS HearsNodes WillCovers
PROPERTIES OnlineAgain CancelEnds
CHECK_DEADLOCK FALSE
