\* Children that stay root and get to their prctl() before the ACK; queues that come and go,
\* failing launches, dying job managers, with queman in the foreground
SPECIFICATION DaemonsSpec
CONSTANTS
  x1 = x1
  x2 = x2
  x3 = x3
  k1 = k1
  k2 = k2
  k3 = k3
  q1 = q1
  q2 = q2
  Pid = {x1, x2, x3}
  Pad = {k1, k2, k3}
  NoPad = NoPad
  Users = {}
  PromptKids = TRUE
  Queue = {q1, q2}
  Daemonised = FALSE
  MaxChanges = 2
  MaxFailures = 2
INVARIANTS NoLostChild RunsListed ZombieNoticed KidsDieWithParent OneManager KnownIsPadded NoneLeft
PROPERTIES QueuesServed HupRescans
CHECK_DEADLOCK FALSE
