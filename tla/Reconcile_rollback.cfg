SPECIFICATION Spec
CONSTANTS
  Controller = {c1}
  MaxDeployments = 3
  MaxFailures = 1
  MaxFaults = 0
INVARIANT QueuedAsksForReplica
CHECK_DEADLOCK FALSE
