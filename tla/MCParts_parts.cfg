\* Each part on its own; SeqNum without a death inside a write, the logger at "info"
SPECIFICATION PartsSpec
CONSTANTS
  p1 = p1
  p2 = p2
  p3 = p3
  s1 = s1
  s2 = s2
  Nobody = Nobody
  Task <- MCTask
  First <- MCFirst
  Every <- MCEvery
  Cap <- MCCap
  MaxWork = 1
  EarlySignals = FALSE
  Site = {s1, s2}
  Proc = {p1, p2, p3}
  Submitters = {p1, p2, p3}
  SiteOf <- MCSiteOf
  ZoneOf <- MCZoneOf
  Byte = {0, 1}
  Width = 3
  Last = 7
  BytesOf <- MCBytesOf
  Tears = FALSE
  MaxCalls = 3
  Limit = 3
  UIntMax = 7
  ClosesAnyway = FALSE
  Queue <- MCQueue
  MaxRetries = 1
  Job = {"j"}
  Orders <- MCOrders
  Cur = "info"
  Message <- MCMessage
  Received <- MCReceived
  Printed <- MCPrinted
  MaxTries = 3
  MaxOutput = 2
  LateOutput = FALSE
  \* Three digits stand for ten: a clock since 2001 and before 2038
  TimeWidth = 3
  IdWidth = 2
  MaxInt = 127
  Time = {9, 99, 100, 101, 102}
  Priority = {2, 9}
  Id = {1, 12, 123}
  Clock = {100, 101, 102}
  MaxJobs = 3
  TagChar = {"a", "b", "s"}
INVARIANTS TasksInTime CountsOn IdsDistinct AnswerIsTrue FoundUnlessBack MessagesWhole OutputKept DueInOrder AskedUnlessBack RemovedWhole ArgsArrive ConfigKept
PROPERTIES LoopEnds NeverReissued CallsReturn
CHECK_DEADLOCK FALSE
