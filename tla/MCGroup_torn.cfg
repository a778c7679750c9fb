\* A look at a group file that is being stored
SPECIFICATION Spec
CONSTANTS
  n1 = n1
  n2 = n2
  m1 = m1
  m2 = m2
  k1 = k1
  k2 = k2
  k3 = k3
  Node = {n1, n2}
  Member = {m1, m2}
  Kid = {k1, k2}
  NoKid = NoKid
  NoFile = NoFile
  Nobody = Nobody
  WholeStores = FALSE
  Purges = FALSE
  Abrupt = FALSE
  MaxCrashes = 0
  MaxFailures = 0
SYMMETRY Symmetry
INVARIANT GroupDoneLast
CHECK_DEADLOCK FALSE
