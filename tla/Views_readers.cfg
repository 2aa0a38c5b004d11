SPECIFICATION FairSpec
CONSTANTS
  Deployment <- MCDeployment
  Subject = 2
  Writer = {w1, w2}
  Limit = 2
  MaxTime = 1
  MaxWrites = 2
  MaxFaults = 2
INVARIANTS TypeOK UntouchedShownOnce FinalIsOnItsWay
PROPERTIES FinalIsTold
CHECK_DEADLOCK FALSE
