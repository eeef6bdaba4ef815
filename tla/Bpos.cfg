SPECIFICATION Spec
CONSTANTS
  n1 = n1
  n2 = n2
  n3 = n3
  None = None
  Node = {n1, n2, n3}
  Dynasties <- OneDynasty
  Switch = 100
  RefreshInterval = 2
  MaxAge = 2
  MaxTime = 4
  VotesArrive = {1}
  MayRestart = {n1}
  RestartAt = {4}
  MaxRestarts = 1
INVARIANTS CommitHasPrepares EternalHasCommits InfoBacked
CHECK_DEADLOCK FALSE
