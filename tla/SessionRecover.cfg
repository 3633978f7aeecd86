SPECIFICATION FairSpec
CONSTANTS
  SeqMod = 4
  BdMod = 2
  PrimaryHost = TRUE
  Cap = 8
  WillReplies = {TRUE, FALSE}
  MayCancel = TRUE
  MaxLoss = 1
  MaxKick = 1
  MaxFlip = 1
  MaxOld = 0
  MaxRebirth = 0
  MaxCmd = 0
  MaxFail = 1
INVARIANTS TypeOK AttemptAhead EndsDead
PROPERTIES EventuallyBirthed CancelEndsRun
CHECK_DEADLOCK FALSE
