\* One client, two requests at a time, two a window; the clock runs past the
\* removal of an entry and a window after it.  The program may be left alone.
CONSTANTS
  Clients = {c1}
  Requests = {r1, r2}
  MaxStops = 2
  RequestsPerMin = 2
  WindowSize = 2
  MaxTime = 7
  MaxEntries = 2
SPECIFICATION Spec
INVARIANTS
  TypeOK
  ClientBudget
  LateAreFew
PROPERTIES
  DeniedMeansSpent
  NothingForgotten
  StopEnds
CHECK_DEADLOCK FALSE
