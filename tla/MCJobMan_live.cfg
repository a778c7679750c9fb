\* One death anywhere, EINPROGRESS, children that die with their manager
SPECIFICATION FairSpec
CONSTANTS
  n1 = n1
  n2 = n2
  j1 = j1
  j2 = j2
  i1 = i1
  i2 = i2
  i3 = i3
  Node = {n1, n2}
  Job = {j1}
  Inode = {i1, i2}
  Nobody = Nobody
  NoName = NoName
  NoInode = NoInode
  RunTimes = {0}
  RunLimit = 1
  SizeT = 256
  Exits = {"again", "other", "remote"}
  TryLimit = 2
  Delay = 2
  Age = 1
  MaxSkew = 1
  PromptStore = TRUE
  KidsDie = TRUE
  Abrupt = TRUE
  Doomed = {}
  MaxDeaths = 1
INVARIANT IInv
PROPERTY EveryJobEnds
CHECK_DEADLOCK FALSE
