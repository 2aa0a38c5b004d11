SPECIFICATION Spec
CONSTANTS
  Request = {r1, r2}
  Key = {k1, k2}
  Value = {v1}
PROPERTY NoUpdateIsLost
CHECK_DEADLOCK FALSE
