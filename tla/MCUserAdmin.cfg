\* Two requests, two accounts, one team at the top and one below it.
CONSTANTS
  u1 = u1
  u2 = u2
  j1 = j1
  j2 = j2
  ann = ann
  bob = bob
  eve = eve
  top = top
  nested = nested
  None = None
  Jobs = {j1, j2}
  Old = {u1, u2}
  Names = {ann, bob, eve}
  TopTeams = {top}
  NestedTeams = {nested}
  Tasks <- MCTasks
SPECIFICATION Spec
INVARIANTS
  TypeOK
  CreatedAsAsked
  DeletionTraced
  HistoryTrue
  BatchAnswered
  
  PasswordAttributed
CHECK_DEADLOCK FALSE
