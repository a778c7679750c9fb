-------------------------------- MODULE SeqNum --------------------------------
(***************************************************************************)
(* Job ids (job/seqnum.cxx and the constructor of a new job::file): each   *)
(* site has a sequence file whose bytes hold the last number given out; a  *)
(* call of next() locks it, reads it, adds one, writes it back and closes. *)
(* Reads and writes may move fewer bytes than asked for and are repeated   *)
(* from the top.  Sites that share queues keep their ids apart by a zone   *)
(* digit: mkjob sets it from its configuration, job managers do not.       *)
(***************************************************************************)
EXTENDS Integers, Sequences

CONSTANTS
  Site,        \* the places with a sequence file of their own
  Proc,        \* the processes that make job ids: mkjob, and jobman for the
               \* children of a group
  Submitters,  \* those that set job::file::zone: mkjob
  SiteOf,      \* SiteOf[p]: the site of process p
  ZoneOf,      \* ZoneOf[s]: the zone configured at site s, 0 for none
  Nobody,      \* "no lock holder": not a process
  Byte, Width, \* a number is Width bytes (8 in the code)
  Last,        \* the highest number (2^64 - 1)
  BytesOf,     \* BytesOf[v]: the bytes of number v in memory, as they are written
  Tears,       \* TRUE: a call may end between a short write and its repetition
  MaxCalls     \* bound: how often the numbers are asked for

VARIABLES
  file,        \* file[s]: the bytes of the sequence file, lowest first
  lock,        \* lock[s]: the process that has the flock on it
  pc,          \* pc[p]: the step of next() or curr() process p is about to take
  op,          \* op[p]: which of the two it is in
  value,       \* value[p]: the member of its job::seqnum
  given,       \* given[s]: the numbers next() has returned at site s
  made,        \* made[p]: the job ids that process p has made of them
  calls        \* how many calls there were

vars == <<file, lock, pc, op, value, given, made, calls>>

Numbers == 0..Last

SeqNumAssumption ==
  /\ SiteOf \in [Proc -> Site]
  /\ Submitters \subseteq Proc
  /\ ZoneOf \in [Site -> 0..9]
  /\ Nobody \notin Proc
  /\ Width \in Nat \ {0}
  /\ Last \in Nat
  /\ BytesOf \in [Numbers -> [1..Width -> Byte]]
  /\ \A v, w \in Numbers : BytesOf[v] = BytesOf[w] => v = w
  /\ \A bytes \in [1..Width -> Byte] : \E v \in Numbers : bytes = BytesOf[v]
  /\ MaxCalls \in Nat /\ MaxCalls < Last
  /\ Tears \in BOOLEAN

ToNumber(bytes) == CHOOSE v \in Numbers : bytes = BytesOf[v]

Steps == {"idle", "lock", "read", "write", "rewrite", "close"}

TypeOK ==
  /\ file \in [Site -> UNION {[1..k -> Byte] : k \in 0..Width}]
  /\ lock \in [Site -> Proc \cup {Nobody}]
  /\ pc \in [Proc -> Steps]
  /\ op \in [Proc -> {"next", "curr"}]
  /\ value \in [Proc -> Numbers]
  /\ given \in [Site -> SUBSET Numbers]
  /\ made \in [Proc -> SUBSET Nat]
  /\ calls \in Nat

Init ==
  /\ file = [s \in Site |-> <<>>]
  /\ lock = [s \in Site |-> Nobody]
  /\ pc = [p \in Proc |-> "idle"]
  /\ op = [p \in Proc |-> "next"]
  /\ value = [p \in Proc |-> 0]
  /\ given = [s \in Site |-> {}]
  /\ made = [p \in Proc |-> {}]
  /\ calls = 0

-----------------------------------------------------------------------------

Goto(p, step) == pc' = [pc EXCEPT ![p] = step]

\* Mutation: the descriptor leaks
UnlockNever(p) == UNCHANGED lock

\* close(2) drops the lock
Unlock(p) == lock' = [s \in Site |-> IF lock[s] = p THEN Nobody ELSE lock[s]]

Call(p) ==
  /\ pc[p] = "idle"
  /\ calls < MaxCalls
  /\ calls' = calls + 1
  /\ \E o \in {"next", "curr"} : op' = [op EXCEPT ![p] = o]
  /\ value' = [value EXCEPT ![p] = 0]
  /\ Goto(p, "lock")
  /\ UNCHANGED <<file, lock, given, made>>

\* Mutation: the lock is not waited for
LockIgnored(p) ==
  /\ pc[p] = "lock"
  /\ lock' = [lock EXCEPT ![SiteOf[p]] = p]
  /\ Goto(p, "read")
  /\ UNCHANGED <<file, op, value, given, made, calls>>

\* flock(LOCK_EX) waits
Lock(p) ==
  /\ pc[p] = "lock"
  /\ lock[SiteOf[p]] = Nobody
  /\ lock' = [lock EXCEPT ![SiteOf[p]] = p]
  /\ Goto(p, "read")
  /\ UNCHANGED <<file, op, value, given, made, calls>>

\* The loop around read(2) is left with nothing read (a new file) or all of it
Read(p) ==
  LET bytes == file[SiteOf[p]]
      v == IF bytes = <<>> THEN value[p] ELSE ToNumber(bytes) IN
  /\ pc[p] = "read"
  /\ Len(bytes) \in {0, Width}
  /\ \/ /\ op[p] = "next"
        /\ value' = [value EXCEPT ![p] = (v + 1) % (Last + 1)]
        /\ Goto(p, "write")
     \/ /\ op[p] = "curr"
        /\ value' = [value EXCEPT ![p] = v]
        /\ Goto(p, "close")
  /\ UNCHANGED <<file, lock, op, given, made, calls>>

\* The first k bytes of number v written over what was there
Overwritten(bytes, v, k) ==
  [i \in 1..(IF k > Len(bytes) THEN k ELSE Len(bytes)) |->
     IF i <= k THEN BytesOf[v][i] ELSE bytes[i]]

\* Mutation: a short write is taken for a whole one
WriteOnce(p) ==
  /\ pc[p] \in {"write", "rewrite"}
  /\ \E k \in 1..Width :
       file' = [file EXCEPT ![SiteOf[p]] = Overwritten(@, value[p], k)]
  /\ Goto(p, "close")
  /\ UNCHANGED <<lock, op, value, given, made, calls>>

\* write(2), all of it or less: then again from the top
Write(p) ==
  /\ pc[p] \in {"write", "rewrite"}
  /\ \E k \in 1..Width :
       /\ file' = [file EXCEPT ![SiteOf[p]] = Overwritten(@, value[p], k)]
       /\ Goto(p, IF k = Width THEN "close" ELSE "rewrite")
  /\ UNCHANGED <<lock, op, value, given, made, calls>>

\* job::file::zone in process p: 0 where nobody sets it
Zone(p) == IF p \in Submitters THEN ZoneOf[SiteOf[p]] ELSE 0

\* Mutation: the zone is left out
JobIdUnzoned(p, v) == v

\* job::file(): the number, with the zone as its last digit if there is one
JobId(p, v) == IF Zone(p) = 0 THEN v ELSE v * 10 + Zone(p)

\* next() returns to job::file(), curr() to whoever asks
Close(p) ==
  /\ pc[p] = "close"
  /\ Unlock(p)
  /\ made' = [made EXCEPT ![p] =
                IF op[p] = "next" THEN @ \cup {JobId(p, value[p])} ELSE @]
  /\ given' = [given EXCEPT ![SiteOf[p]] =
                 IF op[p] = "next" THEN @ \cup {value[p]} ELSE @]
  /\ Goto(p, "idle")
  /\ UNCHANGED <<file, op, value, calls>>

\* A system call fails and 0 is returned with the error set, or the process is
\* killed: either way the descriptor is closed and no number is given out.
GiveUp(p) ==
  /\ pc[p] # "idle"
  /\ pc[p] = "rewrite" => Tears
  /\ Unlock(p)
  /\ value' = [value EXCEPT ![p] = 0]
  /\ Goto(p, "idle")
  /\ UNCHANGED <<file, op, given, made, calls>>

Step(p) == Lock(p) \/ Read(p) \/ Write(p) \/ Close(p)

Next == \E p \in Proc : Call(p) \/ Step(p) \/ GiveUp(p)

Spec == Init /\ [][Next]_vars

\* A call goes on, whoever else waits for the lock; a write is short only
\* finitely often.
Fairness ==
  \A p \in Proc :
    /\ SF_vars(Lock(p))
    /\ WF_vars(Step(p))
    /\ SF_vars(Write(p) /\ pc'[p] = "close")

-----------------------------------------------------------------------------

\* "Competing processes won't issue the same number when using the same
\* sequence file" (seqnum.hxx): what next() returns it has not returned before.
NeverReissued ==
  [][\A p \in Proc :
       pc[p] = "close" /\ pc'[p] = "idle" /\ op[p] = "next" /\ value'[p] # 0
       => value[p] \notin given[SiteOf[p]]]_vars

\* Processes whose ids are made in the same way: numbers of one site as they are,
\* or with a zone behind them
Alike(p, q) ==
  \/ Zone(p) # 0 /\ Zone(q) # 0
  \/ Zone(p) = 0 /\ Zone(q) = 0 /\ SiteOf[p] = SiteOf[q]

\* Two processes, of one site or of two with zones of their own, never make the
\* same job id, if both set the zone or neither does and they share the file.
IdsDistinct ==
  \A p, q \in Proc : p # q /\ Alike(p, q) => made[p] \cap made[q] = {}

\* Whenever nobody has the lock, the file says a number that is at least as high
\* as all that were given out, or there was none: nothing is counted back.
CountsOn ==
  \A s \in Site : lock[s] = Nobody =>
    \/ file[s] = <<>> /\ given[s] = {}
    \/ Len(file[s]) = Width /\ \A v \in given[s] : v <= ToNumber(file[s])

\* Every call returns: nobody waits for the lock for ever.
CallsReturn == \A p \in Proc : pc[p] # "idle" ~> pc[p] = "idle"

-----------------------------------------------------------------------------
(* Not kept by the code: a job manager makes ids without a zone              *)

\* "Every submitted job is given a unique job identifier.  It may not be strictly
\* sequential (as on distributed clusters with zones), but will be unique" (job.pod).
SubmittedUnique ==
  \A p \in Submitters, q \in Proc : p # q => made[p] \cap made[q] = {}
=============================================================================
