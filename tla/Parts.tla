-------------------------------- MODULE Parts --------------------------------
(***************************************************************************)
(* The parts of the facility that work on their own and are reasoned about *)
(* for every value of their constants: the loop of a daemon (WorkLoop),    *)
(* job ids (SeqNum), interrupted system calls (Isafe), finding and loading *)
(* a job (Finder), making and removing a queue (QueueScripts), the logger  *)
(* (Logger), and the names of jobs (Names).  They do not interact; here    *)
(* each has its constants and variables under names of their own, so that  *)
(* a run and the proofs speak of the same formulas.                        *)
(***************************************************************************)
EXTENDS WorkLoop, Strings

CONSTANTS
  Site, Proc, Submitters, SiteOf, ZoneOf, Nobody,
  Byte, Width, Last, BytesOf, Tears, MaxCalls,                     \* SeqNum
  Limit, UIntMax, ClosesAnyway,                                    \* Isafe
  Queue, MaxRetries,                                               \* Finder
  Job, Orders,                                                     \* QueueScripts
  Cur, Message, Received,                                          \* Logger
  TimeWidth, IdWidth, MaxInt, Time, Priority, Id, Clock, MaxJobs   \* Names

VARIABLES
  idFile, idLock, idPc, idOp, value, given, idMade, calls,         \* SeqNum
  callOp, callPc, num, effect, errno, naps,                        \* Isafe
  jobState, queue, stored, version, findPc, findQ, findS, found, seen, back, moved,  \* Finder
  dirs, conf, place, hand, shPc, shS, active, asks, dir, names, todo, came, \* QueueScripts
  logPc, msg, arg, fmt, logI, last, out, signalled, told,          \* Logger
  pend, now,                                                       \* Names
  typed                                                            \* Strings

Ids == INSTANCE SeqNum WITH
  file <- idFile, lock <- idLock, pc <- idPc, op <- idOp, made <- idMade

Call == INSTANCE Isafe WITH op <- callOp, pc <- callPc

Search == INSTANCE Finder WITH state <- jobState, pc <- findPc, q <- findQ, s <- findS

Scripts == INSTANCE QueueScripts WITH pc <- shPc, s <- shS, asked <- asks, back <- came

Log == INSTANCE Logger WITH pc <- logPc, i <- logI

Listing == INSTANCE Names

-----------------------------------------------------------------------------
(* The properties of the parts, each stated in its module; TasksInTime and  *)
(* LoopEnds are WorkLoop's                                                  *)

\* No number of a sequence file is counted back (SeqNum).
CountsOn == Ids!CountsOn

\* Processes that make their ids in the same way never make the same one (SeqNum).
IdsDistinct == Ids!IdsDistinct

\* next() never returns what it has returned before (SeqNum).
NeverReissued == Ids!NeverReissued

\* Every call of next() or curr() returns (SeqNum).
CallsReturn == Ids!CallsReturn

\* A system call that is repeated reports what was done (Isafe).
AnswerIsTrue == Call!AnswerIsTrue

\* A job that only moves on is found while it moves (Finder).
FoundUnlessBack == Search!FoundUnlessBack

\* rmjobq asks before it removes an incomplete job that it could count (QueueScripts).
AskedUnlessBack == Scripts!AskedUnlessBack

\* What rmjobq says is removed is gone (QueueScripts).
RemovedWhole == Scripts!RemovedWhole

\* A message is logged as it was meant, and told to the user it is about (Logger).
MessagesWhole == Log!MessagesWhole

\* The jobs that are due are found, and taken in order (Names).
DueInOrder == Listing!DueInOrder

\* What someone types for a job arrives: as the words of two arguments, cut in
\* two anywhere; as one that is quoted; and taken apart and put together (Strings).
ArgsArrive ==
  /\ \A k \in 0..Len(typed) :
       ArgsKept(<<SubSeq(typed, 1, k), SubSeq(typed, k + 1, Len(typed))>>)
  /\ QqSafe(typed)
  /\ SplitsWhole(typed, <<SP>>) /\ SplitsWhole(typed, <<"a", SP>>)
=============================================================================
