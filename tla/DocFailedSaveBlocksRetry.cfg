CONSTANTS
  Changes = {c1}
  Requests = {r1, r2}
  Users = {op, adm}
  Admins = {adm}
  None = None
SPECIFICATION Spec
INVARIANT FailedSaveBlocksRetry
CHECK_DEADLOCK FALSE
