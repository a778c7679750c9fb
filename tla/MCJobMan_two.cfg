\* Two nodes, two jobs, no deaths
SPECIFICATION Spec
CONSTANTS
  n1 = n1
  n2 = n2
  j1 = j1
  j2 = j2
  i1 = i1
  i2 = i2
  i3 = i3
  Node = {n1, n2}
  Job = {j1, j2}
  Inode = {i1, i2, i3}
  Nobody = Nobody
  NoName = NoName
  NoInode = NoInode
  RunTimes = {0}
  RunLimit = 1
  SizeT = 256
  Exits = {"again", "other"}
  TryLimit = 2
  Delay = 1
  Age = 1
  MaxSkew = 0
  PromptStore = TRUE
  KidsDie = TRUE
  Abrupt = FALSE
  Doomed = {}
  MaxDeaths = 0
SYMMETRY Symmetry
INVARIANTS OneRunner SingleState CommandKept RunLimitKept TryLimitKept
CHECK_DEADLOCK FALSE
