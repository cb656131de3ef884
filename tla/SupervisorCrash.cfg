SPECIFICATION Spec
CONSTANTS
  None = None
  Tasks = {a, b}
  Contents = {c1, c2}
  Outcomes = {"completed", "uncertain"}
  Retention = {TRUE, FALSE}
  Parents = {a, None}
  Shared = {a}
  Holdable = {b}
  MaxParallel = 2
  MaxQueued = 1
  MaxJobs = 2
SYMMETRY ContentSymmetry
INVARIANTS TypeOK NeverReplayed SettledMatchesLedger CleanStop FileStaysReadable
PROPERTIES StoppedStartsNothing JobsAreFinal
