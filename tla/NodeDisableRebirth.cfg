SPECIFICATION NodeSpec
CONSTANTS
  SeqMod = 8
  BdMod = 4
  PrimaryHost = FALSE
  Cap = 6
  WillReplies = {}
  MayCancel = FALSE
  MaxLoss = 0
  MaxKick = 0
  MaxFlip = 0
  MaxOld = 0
  MaxRebirth = 0
  MaxCmd = 1
  MaxFail = 0
  MaxFaults = 1
  Devices = {"d1"}
  NameOf <- MCOwnNames
  Publishers = {}
  Requests = {"Enable", "Disable"}
  MaxReq = 2
  MaxUnregister = 0
  MaxDevFail = 0
  MaxData = 0
  MayTry = FALSE
INVARIANT DisabledDead
CHECK_DEADLOCK FALSE
