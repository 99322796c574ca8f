\* Two changes, one of them the operator's; three pages of one row each.
CONSTANTS
  Proposals = 2
  Mine = {1}
  Requests = {r1, r2, r3}
  PageLimit = 1
  None = None
SPECIFICATION Spec
SYMMETRY RequestSymmetry
CONSTRAINT Bounds
INVARIANTS
  TypeOK
  
  ToldAtLeastOnce
  ListingComplete
  BadgeExact
  PagesExact
CHECK_DEADLOCK FALSE
