SPECIFICATION Spec
CONSTANTS
  None = None
  Slots = {p1, p2}
  Impatient = {}
  Inodes = {1, 2, 3, 4, 5, 6, 7}
  Leftovers <- DeadReclaimer
  MaxCrashes = 1
  MaxFaults = 1
SYMMETRY ProcessSymmetry
INVARIANTS OneReclaimer
