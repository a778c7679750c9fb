\* Managers do not die while they split, no child fails to be made or is purged
SPECIFICATION FairSpec
CONSTANTS
  n1 = n1
  n2 = n2
  m1 = m1
  m2 = m2
  k1 = k1
  k2 = k2
  k3 = k3
  Node = {n1, n2}
  Member = {m1, m2}
  Kid = {k1, k2}
  NoKid = NoKid
  NoFile = NoFile
  Nobody = Nobody
  WholeStores = TRUE
  Purges = FALSE
  Abrupt = FALSE
  MaxCrashes = 1
  MaxFailures = 0
INVARIANTS GroupDoneLast OneGroupFile OneKidEach
PROPERTY GroupEnds
CHECK_DEADLOCK FALSE
