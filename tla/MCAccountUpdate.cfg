\* Two writers of one account; two teams and one group that is not a team.
CONSTANTS
  A = A
  B = B
  p1 = p1
  p2 = p2
  away = away
  None = None
  Jobs = {j1, j2}
  Teams = {A, B}
  OtherGroups = {svc}
  Phones = {p1, p2}
  Texts = {away}
  Tasks <- MCTasks
SPECIFICATION Spec
INVARIANTS
  TypeOK
  
  
  
  MetaKept
CHECK_DEADLOCK FALSE
