\* One change, one operator, one admin, one proposal and up to three handlers.
CONSTANTS
  Changes = {c1}
  Requests = {r1, r2, r3}
  Users = {op, adm}
  Admins = {adm}
  None = None
SPECIFICATION Spec
SYMMETRY RequestSymmetry
INVARIANTS
  TypeOK
  MutualExclusion
  AppliedOnce
  RejectedUntouched
  ApprovedApplied
  StoredIsFound
  AuditHasRecord
  AppliedAccounted
PROPERTY ResolutionFinal
CHECK_DEADLOCK FALSE
