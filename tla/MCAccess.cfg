\* Two users; any two requests, or three of a series.
CONSTANTS
  ann = ann
  bob = bob
  r3 = r3
  None = None
  Users = {ann, bob}
  Requests = {r1, r2, r3}
  Limit = 1
  Tasks <- MCTasks
SPECIFICATION Spec
SYMMETRY RequestSymmetry
CONSTRAINT Bounds
INVARIANTS
  TypeOK
  RoleFresh
  LimiterSound
  FlashOnce
  MismatchExplained
  SessionsEnd
  RoleAuditTrue
 
CHECK_DEADLOCK FALSE
