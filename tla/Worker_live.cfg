CONSTANTS
  p1 = p1
  p2 = p2
  s1 = s1
  s2 = s2
  d1 = d1
  d2 = d2
  proj = proj
  Pod = {p1}
  Slot = {s1}
  Deployment = {d1}
  Project = {proj}
  ProjectOf <- OneProject
  ReadCount = 2
  MaxEntries = 2
  MaxFaults = 2
  MaxCrashes = 1
SPECIFICATION FairSpec
INVARIANTS
  TypeOK
  AckedIsHandled
  StrandedNeedsFaults
PROPERTIES
  EntriesAreHandled
  GracefulExit
CHECK_DEADLOCK FALSE
