SPECIFICATION FairSpec
CONSTANTS
  None = None
  Slots = {p1, p2}
  Impatient = {p1}
  Inodes = {1, 2, 3, 4, 5, 6, 7}
  Leftovers <- DeadHolder
  MaxCrashes = 1
  MaxFaults = 1
PROPERTIES DeadReclaimed LateReturns
