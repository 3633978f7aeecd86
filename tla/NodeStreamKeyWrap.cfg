SPECIFICATION Spec
CONSTANTS
  SeqMod = 8
  MaxMsg = 10
  Window = 4
  MaxDup = 0
  MaxBirth = 0
INVARIANT DrainComplete
CHECK_DEADLOCK FALSE
