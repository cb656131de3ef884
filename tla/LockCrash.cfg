SPECIFICATION Spec
CONSTANTS
  None = None
  Slots = {p1, p2}
  Impatient = {}
  Inodes = {1, 2, 3, 4, 5, 6, 7}
  Leftovers <- AnyPast
  MaxCrashes = 1
  MaxFaults = 1
SYMMETRY ProcessSymmetry
INVARIANTS OneReclaimerUnlessElectedDies NothingLeft
PROPERTIES LiveLockKept StoreExclusion
