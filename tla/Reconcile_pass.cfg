SPECIFICATION FairSpec
CONSTANTS
  Controller = {c1}
  MaxDeployments = 2
  MaxFailures = 1
  MaxFaults = 1
INVARIANTS TypeOK OneServing LeftoversNeedFaults
PROPERTIES ServingIsSpared DeploymentSettles OrphanIsDeleted DriftIsCorrected
CHECK_DEADLOCK FALSE
