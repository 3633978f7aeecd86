SPECIFICATION FairSpec
CONSTANTS
  SeqMod = 8
  MaxMsg = 12
  Window = 4
  MaxDup = 2
  MaxBirth = 1
INVARIANTS TypeOK NothingLost OnlyWrapHides
PROPERTIES InOrderSafe ArrivedIsApplied
CHECK_DEADLOCK FALSE
