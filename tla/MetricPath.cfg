SPECIFICATION Spec
CONSTANTS
  Hash <- MCHash
  HashMod = 8
  Uses <- MCUses
  Offered = {"u"}
  Device = {"d1", "d2"}
  Names <- MCNames
  Late <- MCLate
  Commanded = {"c"}
  Alias <- MCAlias
  Template <- MCTemplate
  MaxTick = 2
  MaxBirth = 2
  MaxCmd = 1
ACTION_CONSTRAINT MCQuickSecond
INVARIANTS IdsAgree SharedOnlyByCarry HostCatchesUp InstancesDefined
CHECK_DEADLOCK FALSE
