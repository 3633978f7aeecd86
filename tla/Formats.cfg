SPECIFICATION FormatsSpec
CONSTANTS
  ByteBits = 2
  Items <- MCItems
  Elements <- MCElements
  Filters <- MCFilters
  Schemas <- MCSchemas
  SampleOf <- MCSampleOf
  MaxPublish = 4
  MaxSpoil = 1
INVARIANTS ReadsBack ForeignUnderstood DamageNoticed CopyAgrees
PROPERTY SpoiltChangesNothing
CHECK_DEADLOCK FALSE
