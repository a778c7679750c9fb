\* p1 is a job manager, p2 is mkjob: eleven children, and one job
SPECIFICATION Spec
CONSTANTS
  p1 = p1
  p2 = p2
  s1 = s1
  s2 = s2
  Nobody = Nobody
  Site = {s1, s2}
  Proc = {p1, p2}
  Submitters = {p2}
  SiteOf <- MCSiteOf
  ZoneOf <- MCZoneOf
  Byte = {0, 1, 2, 3, 4, 5, 6, 7, 8, 9, 10, 11, 12, 13, 14, 15}
  Width = 1
  Last = 15
  BytesOf <- MCBytesOf
  Tears = FALSE
  MaxCalls = 12
INVARIANT SubmittedUnique
CHECK_DEADLOCK FALSE
