SPECIFICATION FairSpec
CONSTANTS
  None = None
  Tasks = {a, b}
  Contents = {c1}
  Outcomes = {"completed"}
  Retention = {FALSE}
  Parents = {None}
  Shared = {}
  Holdable = {}
  MaxParallel = 1
  MaxQueued = 2
  MaxJobs = 2
PROPERTIES QueuedJobsAreTried DispatchesEnd
