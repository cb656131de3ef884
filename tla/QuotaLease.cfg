SPECIFICATION FairSpec
CONSTANTS
  Procs = {p, q}
  Slots = {1}
  MaxSessions = 2
  MaxMishaps = 3
  MaxBoots = 1
  None = None
INVARIANTS ContactFenced
PROPERTIES RemovalAccounted FenceLifted
