\* A manager that dies anywhere in the split or the walk
SPECIFICATION Spec
CONSTANTS
  n1 = n1
  n2 = n2
  m1 = m1
  m2 = m2
  k1 = k1
  k2 = k2
  k3 = k3
  Node = {n1, n2}
  Member = {m1, m2}
  Kid = {k1, k2, k3}
  NoKid = NoKid
  NoFile = NoFile
  Nobody = Nobody
  WholeStores = TRUE
  Purges = TRUE
  Abrupt = TRUE
  MaxCrashes = 1
  MaxFailures = 1
SYMMETRY Symmetry
INVARIANT MembersServed
CHECK_DEADLOCK FALSE
