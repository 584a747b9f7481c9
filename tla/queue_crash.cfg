SPECIFICATION FairSpec
CONSTANTS
  s1 = s1
  s2 = s2
  bad = bad
  Services = {s1, s2, bad}
  Unusable = {bad}
  Processors = {p1}
  Cancellable = {}
  Requests <- MCRequests
  MaxJobs = 1
  BatchLimit = 1
  Overlap = FALSE
  MaxFaults = 1
PROPERTIES
  JobsAreSettled
CHECK_DEADLOCK FALSE
