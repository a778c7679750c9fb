\* Two nodes, one job, deaths anywhere, and processes that may outlive their manager
SPECIFICATION Spec
CONSTANTS
  n1 = n1
  n2 = n2
  j1 = j1
  j2 = j2
  i1 = i1
  i2 = i2
  i3 = i3
  Node = {n1, n2}
  Job = {j1}
  Inode = {i1, i2}
  Nobody = Nobody
  NoName = NoName
  NoInode = NoInode
  RunTimes = {0, 2}
  RunLimit = 1
  SizeT = 256
  Exits = {"again", "other"}
  TryLimit = 2
  Delay = 2
  Age = 1
  MaxSkew = 1
  PromptStore = TRUE
  KidsDie = FALSE
  Abrupt = TRUE
  Doomed = {j1}
  MaxDeaths = 2
SYMMETRY Symmetry
INVARIANTS OwnerHoldsLock LogInOrder
PROPERTIES StateEdges KeepsPromise
CHECK_DEADLOCK FALSE
