SPECIFICATION PoolSpec
CONSTANTS
  None = None
  Slots = {p1, p2}
  Changes = {c1, c2, c3, c4}
  MaxLives = 2
  MaxBytes = 8
  MaxAttempts = 3
  Base = 1
  ReservedWidth = 1
  WidestReceipt = 3
  WidestObservations = 1
  AllocationWidths = {1, 3}
  AccessWidths = {0, 1}
SYMMETRY Symmetry
INVARIANTS ReportedKept HeadroomKept
PROPERTIES OneAfterTheOther RefusedOnlyForAllocation
CHECK_DEADLOCK FALSE
