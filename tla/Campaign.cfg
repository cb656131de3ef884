SPECIFICATION Spec
CHECK_DEADLOCK FALSE
CONSTANTS
  Campaigns = {c, d}
  Measured = {c}
  Queues = {q}
  Callers = {r}
  Requesters = {o}
  MaxGenerations = 2
  MaxEvents = 6
  MaxControls = 1
  MaxMishaps = 1
  None = None
INVARIANTS EvaluatorFenced WorkReserved
PROPERTIES PinHolds
