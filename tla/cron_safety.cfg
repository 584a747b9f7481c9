SPECIFICATION Spec
CONSTANTS
  hourly = hourly
  junk = junk
  daily = daily
  r1 = r1
  r2 = r2
  c1 = c1
  MaxJobs = 1
  Exprs = {hourly, daily, junk}
  Invalid = {junk}
  Runs = {r1, r2}
  Callers = {c1}
  MaxQueued = 2
  MaxEntries = 2
  MaxFaults = 1
SYMMETRY MCSymmetry
INVARIANTS TypeOK EnabledIsScheduled LinksAreLive RunCountTellsTruth
PROPERTY RemovedIsQuiet
