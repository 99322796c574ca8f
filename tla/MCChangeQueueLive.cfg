\* Two changes, one proposal or handler each or two on the same change; no
\* symmetry, since a liveness property is checked.
CONSTANTS
  Changes = {c1, c2}
  Requests = {r1, r2}
  Users = {op, adm}
  Admins = {adm}
  None = None
SPECIFICATION FairSpec
PROPERTIES
  ImplementsLifecycle
  
CHECK_DEADLOCK FALSE
