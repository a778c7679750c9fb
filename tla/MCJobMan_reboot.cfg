\* A crash anywhere
SPECIFICATION Spec
CONSTANTS
  n1 = n1
  n2 = n2
  j1 = j1
  j2 = j2
  i1 = i1
  i2 = i2
  i3 = i3
  Node = {n1, n2}
  Job = {j1}
  Inode = {i1, i2}
  Nobody = Nobody
  NoName = NoName
  NoInode = NoInode
  RunTimes = {0}
  RunLimit = 1
  SizeT = 256
  Exits = {"again", "other"}
  TryLimit = 2
  Delay = 1
  Age = 1
  MaxSkew = 0
  PromptStore = TRUE
  KidsDie = TRUE
  Abrupt = TRUE
  Doomed = {}
  MaxDeaths = 1
SYMMETRY Symmetry
INVARIANT CommandKept
CHECK_DEADLOCK FALSE
