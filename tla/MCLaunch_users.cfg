\* Children with the user id of a submitter
SPECIFICATION Spec
CONSTANTS
  x1 = x1
  x2 = x2
  x3 = x3
  k1 = k1
  k2 = k2
  k3 = k3
  Pid = {x1, x2, x3}
  Pad = {k1, k2, k3}
  NoPad = NoPad
  Users = {x1, x2, x3}
  PromptKids = TRUE
SYMMETRY Symmetry
INVARIANT KidsDieWithParent
CHECK_DEADLOCK FALSE
