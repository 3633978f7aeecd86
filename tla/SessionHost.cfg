SPECIFICATION Spec
CONSTANTS
  SeqMod = 4
  BdMod = 2
  PrimaryHost = TRUE
  Cap = 3
  WillReplies = {}
  MayCancel = FALSE
  MaxLoss = 0
  MaxKick = 1
  MaxFlip = 3
  MaxOld = 1
  MaxRebirth = 1
  MaxCmd = 1
  MaxFail = 0
INVARIANTS HostGate HostsAgree HostViewAgrees SubscribedFirst BirthCarriesWill NoGhost
CHECK_DEADLOCK FALSE
