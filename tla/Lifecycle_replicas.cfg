SPECIFICATION FairSpec
CONSTANTS
  Controller = {c1, c2}
  Project = {p1}
  MaxRequests = 2
  MaxDrift = 1
  MaxFaults = 4
INVARIANTS TypeOK TerminatedIsGone
PROPERTIES TenantIsKept NamespaceIsProvisioned
CHECK_DEADLOCK FALSE
