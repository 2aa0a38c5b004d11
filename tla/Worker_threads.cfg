CONSTANTS
  p1 = p1
  p2 = p2
  s1 = s1
  s2 = s2
  d1 = d1
  d2 = d2
  proj = proj
  Pod = {p1}
  Slot = {s1, s2}
  Deployment = {d1, d2}
  Project = {proj}
  ProjectOf <- OneProject
  ReadCount = 2
  MaxEntries = 2
  MaxFaults = 0
  MaxCrashes = 0
SPECIFICATION Spec
SYMMETRY Symmetry
INVARIANTS
  DeployedHasImage
  StrandedNeedsFaults
  PermitsCoverThreads
CHECK_DEADLOCK FALSE
