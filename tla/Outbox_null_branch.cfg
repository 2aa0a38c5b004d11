SPECIFICATION FairSpec
CONSTANTS
  a1 = a1
  a2 = a2
  p1 = p1
  p2 = p2
  d1 = d1
  d2 = d2
  d3 = d3
  Proc = {a1}
  Deployment = {d1, d3}
  Project = {p1, p2}
  ProjectOf <- MCProjectOf
  NullBranch = {d1}
  BatchSize = 2
  MaxLen = 9
  MaxEntries = 9
  MaxFaults = 0
  MaxCrashes = 0
PROPERTY EventsAreForwarded
CHECK_DEADLOCK FALSE
