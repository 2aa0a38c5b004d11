SPECIFICATION FairSpec
CONSTANTS
  Controller = {c1}
  Project = {p1}
  MaxRequests = 1
  MaxDrift = 0
  MaxFaults = 0
PROPERTY DeletionIsCarriedOut
CHECK_DEADLOCK FALSE
