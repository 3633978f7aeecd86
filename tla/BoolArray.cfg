SPECIFICATION Spec
CONSTANTS
  ByteBits = 2
  Items <- MCBools
  Elements <- MCElements
  Filters <- MCFilters
INVARIANT BoolArraysReadBack
CHECK_DEADLOCK FALSE
