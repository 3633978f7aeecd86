SPECIFICATION Spec
CONSTANTS
  Hash <- MCHash
  HashMod = 8
  Uses <- MCUses
  Offered = {"u"}
  Device = {"d1", "d2"}
  Names <- MCNames
  Late <- MCLate
  Commanded = {"c"}
  Alias <- MCAlias
  Template <- MCTemplate
  MaxTick = 0
  MaxBirth = 1
  MaxCmd = 0
INVARIANT AliasesUnique
CHECK_DEADLOCK FALSE
