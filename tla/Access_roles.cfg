SPECIFICATION FairSpec
CONSTANTS
  Process = {p1}
  Request = {r1, r2}
  User = {u1, u2}
  AdminEmail = {u2}
  Threshold = 2
  MaxChanges = 1
  MaxFaults = 3
INVARIANTS TypeOK SomebodyIsAdmin AdminsAreAdmins
PROPERTIES BreakerSpares RevokedRoleExpires
CHECK_DEADLOCK FALSE
