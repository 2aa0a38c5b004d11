CONSTANTS
  a1 = a1
  w1 = w1
  s1 = s1
  d1 = d1
  proj = proj
  Deployment = {d1}
  Project = {proj}
  ProjectOf <- OneProject
  Proc = {a1}
  NullBranch = {}
  BatchSize = 1
  Pod = {w1}
  Slot = {s1}
  ReadCount = 2
  MaxEntries = 2
  MaxApiFaults = 1
  MaxApiCrashes = 1
  MaxPodFaults = 1
  MaxPodCrashes = 1
SPECIFICATION Spec
INVARIANTS
  TypeOK
  AcceptedIsUnderWay
PROPERTIES
  ApiIsOutbox
  PodsAreWorkers
CHECK_DEADLOCK FALSE
