SPECIFICATION Spec
CONSTANTS
  s1 = s1
  s2 = s2
  bad = bad
  Services = {s1, s2, bad}
  Unusable = {bad}
  Processors = {p1}
  Cancellable = {p1}
  Requests <- MCRequests
  MaxJobs = 2
  BatchLimit = 2
  Overlap = FALSE
  MaxFaults = 1
INVARIANTS
  TypeOK
  Inductive
  AtMostOnceConfirmed
  AttemptsWithinBudget
  VerdictMatchesDelivery
  RunningIsHeld
PROPERTIES
  VerdictIsFinal
  RetryWaits
  ContractSpec
CHECK_DEADLOCK FALSE
