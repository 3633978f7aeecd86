SPECIFICATION FairSpec
CONSTANTS
  SeqMod = 16
  Device = {"d1"}
  Configs <- MCConfigs
  Raw = {FALSE, TRUE}
  QCap = 1
  ReqCap = 4
  Window = 2
  OvertakeBirth = FALSE
  Faults = {"Undecodable", "Malformed", "InvalidValue"}
  MaxPub = 2
  MaxDeath = 1
  MaxFault = 1
INVARIANT StaleEmpty
PROPERTIES KeepsPromise GapEnds Convergence
CHECK_DEADLOCK FALSE
