SPECIFICATION NodeSpec
CONSTANTS
  SeqMod = 4
  BdMod = 4
  PrimaryHost = FALSE
  Cap = 2
  WillReplies = {}
  MayCancel = FALSE
  MaxLoss = 0
  MaxKick = 1
  MaxFlip = 0
  MaxOld = 0
  MaxRebirth = 0
  MaxCmd = 1
  MaxFail = 1
  MaxFaults = 1
  Devices = {"d1", "d2"}
  NameOf <- MCSharedName
  Publishers = {"d1"}
  Requests = {"Enable", "Disable", "Rebirth"}
  MaxReq = 2
  MaxUnregister = 1
  MaxDevFail = 1
  MaxData = 1
  MayTry = TRUE
INVARIANTS NodeTypeOK EnabledBirthed BirthedAnnounced OnlyGivenUpGhosts NoHoles NobodyStuck
PROPERTY DataFromAlive
CHECK_DEADLOCK FALSE
ACTION_CONSTRAINT MCFewFaults
