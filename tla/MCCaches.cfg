\* Three logins over two keys and three time units, or three calls over four,
\* with tokens that outlive the margin or do not even reach it.
CONSTANTS
  Logins = {l1, l2, l3}
  Calls = {c1, c2, c3}
  None = None
  Age = 1
  Margin = 1
  Lives = {0, 2}
  LastKey = 2
  LastEpoch = 1
  MaxTime = 3
SPECIFICATION Spec
SYMMETRY TaskSymmetry
CONSTRAINT Bounds
INVARIANTS
  TypeOK
  KeysFollowed
  TokenUsable
CHECK_DEADLOCK FALSE
