SPECIFICATION Spec
CONSTANTS
  c1 = c1
  c2 = c2
  a = a
  a2 = a2
  b = b
  discord = discord
  slack = slack
  r1 = r1
  Calls = {c1}
  Slots = {a}
  Services = {discord, slack}
  ServiceOf <- MCServiceOf
  Readers = {r1}
INVARIANT FailuresCountedOnce
CHECK_DEADLOCK FALSE
