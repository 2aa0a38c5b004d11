SPECIFICATION MCSpec
CONSTANTS
  a1 = a1
  a2 = a2
  p1 = p1
  p2 = p2
  d1 = d1
  d2 = d2
  d3 = d3
  Proc = {a1, a2}
  Deployment = {d1, d2}
  Project = {p1, p2}
  ProjectOf <- MCProjectOf
  NullBranch = {}
  BatchSize = 2
  MaxLen = 1
  MaxEntries = 6
  MaxFaults = 1
  MaxCrashes = 1
INVARIANTS TypeOK OutboxLosesNothing DuplicatesNeedFaults
PROPERTY OutboxIsQueue
CHECK_DEADLOCK FALSE
