-------------------------------- MODULE JobMan --------------------------------
(***************************************************************************)
(* Submission of jobs (mkjob.cxx) and the job managers that run them       *)
(* (jobman.cxx with job/file.cxx and job/launch.cxx): one daemon per node, *)
(* every node scanning the same queue directory.                           *)
(*                                                                         *)
(* A job manager is one thread: its work loop calls one task after         *)
(* another, and what happens between two file-system calls of a task is    *)
(* what the other nodes, the child processes, the users and the machine    *)
(* do.  proc[n] says where in which task node n is.                        *)
(***************************************************************************)
EXTENDS JobFile

CONSTANTS
  NoInode,     \* "no open descriptor": not an inode
  RunTimes,    \* the run times a user may ask for (JOB_ASAP, or --time)
  RunLimit,    \* run-limit: jobs one manager runs at a time
  SizeT,       \* the values of a size_t are 0..SizeT-1
  Exits,       \* how children end, of Exit below: {"again", "remote", "other"}
  TryLimit,    \* Try-Limit of every job
  Delay,       \* the 60 seconds of "60*try_count", in ticks
  Age,         \* age_clean, in ticks: done jobs older than this are purged
  MaxSkew,     \* how far a node's clock may run ahead of another's
  PromptStore, \* TRUE: a store that follows its rename ends within one tick
  KidsDie,     \* TRUE: a job's process dies with its job manager
  Abrupt,      \* TRUE: a manager may die anywhere, FALSE: only between tasks
  Doomed,      \* bound: the jobs for which a user may make a kill file
  MaxDeaths    \* bound: how often job managers die in a behaviour

VARIABLES
  now,         \* the clock, in ticks
  sub,         \* sub[j]: how far mkjob has got with job j
  kill,        \* kill[j]: has a kill file been made for j, or already unlinked?
  proc,        \* proc[n]: the step node n's job manager is about to take
  todo,        \* todo[n]: the directory listing it is working through
  need,        \* need[n]: how many more jobs this poll may start
  jf,          \* jf[n]: the job::file object in its hand
  pads,        \* pads[n]: its job::launch::finmap
  orphans,     \* jobs whose process outlived its job manager
  deaths       \* how many job managers have died

manVars == <<proc, todo, need, jf, pads>>
envVars == <<now, kill, orphans, deaths>>
vars == <<at, data, flk, now, sub, kill, proc, todo, need, jf, pads, orphans,
          deaths>>

ASSUME JobManAssumption ==
  /\ NoInode \notin Inode
  /\ RunTimes \subseteq Nat
  /\ SizeT \in Nat \ {0}
  /\ RunLimit \in 0..(SizeT - 1)
  /\ Exits \subseteq {"again", "remote", "other"}
  /\ TryLimit \in Nat \ {0}
  /\ Delay \in Nat \ {0}
  /\ Age \in Nat
  /\ MaxSkew \in Nat
  /\ Doomed \subseteq Job
  /\ MaxDeaths \in Nat
  /\ {PromptStore, KidsDie, Abrupt} \subseteq BOOLEAN

\* The object in hand: the name it will use next (oldnam), the inodes its
\* lockfd and its FILE* have open, and the contents loaded or to be stored.
Hand == [nm : Name \cup {NoName}, lock : Inode \cup {NoInode},
         file : Inode \cup {NoInode}, mem : Content]
EmptyHand == [nm |-> NoName, lock |-> NoInode, file |-> NoInode, mem |-> Empty]

\* A child process as its job::launch object sees it: alive, or exited and not
\* yet reaped with EAGAIN/SIGCONT, EINPROGRESS, or anything else.
Exit == {"again", "remote", "other"}
Pad == [nm : Name, ino : Inode, kid : {"alive"} \cup Exit]

Steps ==
  {"down", "idle",
   "solicit", "lock", "load", "reject", "claim", "truncRun", "writeRun", "launch",
   "dead", "raise", "hug", "hugMove", "truncEnd", "writeEnd"}

TypeOK ==
  /\ FsTypeOK
  /\ now \in Nat
  /\ sub \in [Job -> {"none", "empty", "stored", "released", "aborted"}]
  /\ kill \in [Job -> {"none", "ordered", "served"}]
  /\ proc \in [Node -> Steps]
  /\ todo \in [Node -> SUBSET Name]
  /\ need \in [Node -> Int]
  /\ jf \in [Node -> Hand]
  /\ pads \in [Node -> SUBSET Pad]
  /\ \A n \in Node : IsFiniteSet(pads[n])
  /\ orphans \in SUBSET Job
  /\ deaths \in Nat

Init ==
  /\ FsInit
  /\ now = 1
  /\ sub = [j \in Job |-> "none"]
  /\ kill = [j \in Job |-> "none"]
  /\ proc = [n \in Node |-> "idle"]
  /\ todo = [n \in Node |-> {}]
  /\ need = [n \in Node |-> 0]
  /\ jf = [n \in Node |-> EmptyHand]
  /\ pads = [n \in Node |-> {}]
  /\ orphans = {}
  /\ deaths = 0

-----------------------------------------------------------------------------
(* Helpers *)

Goto(n, step) == proc' = [proc EXCEPT ![n] = step]

\* The next entry of the listing is done with
Skip(n, nm, loop) ==
  /\ todo' = [todo EXCEPT ![n] = @ \ {nm}]
  /\ jf' = [jf EXCEPT ![n] = EmptyHand]
  /\ Goto(n, loop)

\* lock(), first half: open the name as it was listed, or ERR_MOVED
Open(n, nm, next, loop) ==
  \/ \E i \in Inode :
       /\ at[i] = nm
       /\ jf' = [jf EXCEPT ![n] = [EmptyHand EXCEPT !.nm = nm, !.lock = i]]
       /\ Goto(n, next)
       /\ UNCHANGED todo
  \/ ~Resolves(nm) /\ Skip(n, nm, loop)

\* Mutation: moved without trying the lock
MovedUnchecked(n, new) ==
  IF Resolves(jf[n].nm) THEN Renamed(jf[n].nm, new) ELSE at

\* repath(): what was opened is moved by name, unless somebody has it locked
MovedIfUnlocked(n, new) ==
  IF flk[jf[n].lock] = Nobody /\ Resolves(jf[n].nm)
  THEN Renamed(jf[n].nm, new) ELSE at

\* Mutation: the descriptor leaks
ReleaseNever(i) == UNCHANGED flk
Release(i) == flk' = [flk EXCEPT ![i] = Nobody]

\* An inode nothing refers to, so that creating a file may get it
Free(i) ==
  /\ at[i] = NoName
  /\ flk[i] = Nobody
  /\ \A n \in Node : jf[n].lock # i /\ jf[n].file # i

\* The ids in a manager's finmap (the job::file of every launch pad)
Mine(n) == {p.nm.id : p \in pads[n]}

\* fopen(nm, "w"): truncates what nm names, or creates it
OpenForWrite(n, next) ==
  \E i \in Inode :
    /\ IF Resolves(jf[n].nm) THEN at[i] = jf[n].nm ELSE Free(i)
    /\ at' = [at EXCEPT ![i] = jf[n].nm]
    /\ data' = [data EXCEPT ![i] = Empty]
    /\ jf' = [jf EXCEPT ![n].file = i]
    /\ Goto(n, next)

\* fputs and fclose: the contents reach the inode that was opened
Flush(n, next) ==
  /\ data' = [data EXCEPT ![jf[n].file] = jf[n].mem]
  /\ jf' = [jf EXCEPT ![n].file = NoInode]
  /\ Goto(n, next)

-----------------------------------------------------------------------------
(* mkjob: born in hold, filled, and only then moved to pend.  Nothing but    *)
(* mkjob itself touches a file in hold, so its repath (open, flock, rename,  *)
(* close) is one step.                                                       *)

CreateJob(j) ==
  /\ sub[j] = "none"
  /\ sub' = [sub EXCEPT ![j] = "empty"]
  /\ \E i \in Inode, t \in RunTimes :
       /\ Free(i)
       /\ at' = [at EXCEPT ![i] = [st |-> "hold", rt |-> t, id |-> j]]
       /\ data' = [data EXCEPT ![i] = Empty]
  /\ UNCHANGED <<flk, manVars, envVars>>

FillJob(j) ==
  /\ sub[j] = "empty"
  /\ sub' = [sub EXCEPT ![j] = "stored"]
  /\ data' = [i \in Inode |->
                IF at[i] \in Listing("hold") /\ at[i].id = j THEN Fresh ELSE data[i]]
  /\ UNCHANGED <<at, flk, manVars, envVars>>

\* Mutation: released before it is filled
ReleaseUnfilled(j) ==
  /\ sub[j] = "empty"
  /\ sub' = [sub EXCEPT ![j] = "released"]
  /\ \E nm \in Listing("hold") : nm.id = j /\ at' = Renamed(nm, In("pend", nm))
  /\ UNCHANGED <<data, flk, manVars, envVars>>

ReleaseJob(j) ==
  /\ sub[j] = "stored"
  /\ sub' = [sub EXCEPT ![j] = "released"]
  /\ \E nm \in Listing("hold") : nm.id = j /\ at' = Renamed(nm, In("pend", nm))
  /\ UNCHANGED <<data, flk, manVars, envVars>>

\* mkjob is interrupted and the file stays where it is, or its repath fails and
\* it removes the file.
AbortJob(j) ==
  /\ sub[j] \in {"empty", "stored"}
  /\ sub' = [sub EXCEPT ![j] = "aborted"]
  /\ \/ UNCHANGED at
     \/ /\ sub[j] = "stored"
        /\ \E nm \in Listing("hold") : nm.id = j /\ at' = Unlinked(nm)
  /\ UNCHANGED <<data, flk, manVars, envVars>>

-----------------------------------------------------------------------------
(* solicit_on_the_street and run_a_job: start pending jobs that are due.     *)

\* Mutation: the jobs that run already are not counted
RoomUnaware(n) == RunLimit % SizeT

\* How many jobs there is room for.  It is a size_t, so "need <= 0" in the code
\* is "need = 0", and more children than the limit would leave a huge room.
Room(n) == (RunLimit - Cardinality(pads[n])) % SizeT

Solicit(n) ==
  /\ proc[n] = "idle"
  /\ Room(n) > 0
  /\ \E skew \in 0..MaxSkew :
       /\ DueBy(now + skew) # {}
       /\ todo' = [todo EXCEPT ![n] = DueBy(now + skew)]
  /\ need' = [need EXCEPT ![n] = Room(n)]
  /\ Goto(n, "solicit")
  /\ UNCHANGED <<fsVars, sub, jf, pads, envVars>>

OpenPending(n) ==
  /\ proc[n] = "solicit"
  /\ need[n] > 0
  /\ \E nm \in todo[n] : Open(n, nm, "lock", "solicit")
  /\ UNCHANGED <<fsVars, sub, need, pads, envVars>>

\* lock(), second half: flock what was opened, or ERR_LOCKED
LockPending(n) ==
  /\ proc[n] = "lock"
  /\ \/ /\ flk[jf[n].lock] = Nobody
        /\ flk' = [flk EXCEPT ![jf[n].lock] = n]
        /\ Goto(n, "load")
        /\ UNCHANGED <<todo, jf>>
     \/ /\ flk[jf[n].lock] # Nobody
        /\ Skip(n, jf[n].nm, "solicit")
        /\ UNCHANGED flk
  /\ UNCHANGED <<at, data, sub, need, pads, envVars>>

\* load() by name.  A file that has gone cannot be loaded (and the repath to
\* done then fails too); one without a command is refused; else the sections
\* for the next try are put together.
LoadPending(n) ==
  /\ proc[n] = "load"
  /\ \/ /\ ~Resolves(jf[n].nm)
        /\ Release(jf[n].lock)
        /\ Skip(n, jf[n].nm, "solicit")
     \/ \E i \in Inode :
          /\ at[i] = jf[n].nm
          /\ jf' = [jf EXCEPT ![n].mem = WithNextTry(data[i])]
          /\ Goto(n, IF data[i].cmd THEN "claim" ELSE "reject")
          /\ UNCHANGED <<flk, todo>>
  /\ UNCHANGED <<at, data, sub, need, pads, envVars>>

\* "Empty command": to done, run time unchanged
RejectPending(n) ==
  /\ proc[n] = "reject"
  /\ at' = IF Resolves(jf[n].nm) THEN Renamed(jf[n].nm, In("done", jf[n].nm)) ELSE at
  /\ Release(jf[n].lock)
  /\ Skip(n, jf[n].nm, "solicit")
  /\ UNCHANGED <<data, sub, need, pads, envVars>>

\* store()'s repath: to run, and the lock stays.  The result of repath is not
\* looked at: when the rename fails the old name is written.
ClaimPending(n) ==
  /\ proc[n] = "claim"
  /\ LET nm == jf[n].nm IN
     \/ /\ Resolves(nm)
        /\ at' = Renamed(nm, In("run", nm))
        /\ jf' = [jf EXCEPT ![n].nm = In("run", nm)]
     \/ ~Resolves(nm) /\ UNCHANGED <<at, jf>>
  /\ todo' = [todo EXCEPT ![n] = @ \ {jf[n].nm}]
  /\ Goto(n, "truncRun")
  /\ UNCHANGED <<data, flk, sub, need, pads, envVars>>

TruncateRun(n) ==
  /\ proc[n] = "truncRun"
  /\ OpenForWrite(n, "writeRun")
  /\ UNCHANGED <<flk, sub, todo, need, pads, envVars>>

WriteRun(n) ==
  /\ proc[n] = "writeRun"
  /\ Flush(n, "launch")
  /\ UNCHANGED <<at, flk, sub, todo, need, pads, envVars>>

\* pad->start(): a child process, or (fork, pipe failed) the job to done with
\* its run time unchanged.  Either way one of the needed jobs is used up.
LaunchJob(n) ==
  /\ proc[n] = "launch"
  /\ LET nm == jf[n].nm IN
     \/ /\ pads' = [pads EXCEPT ![n] =
                      @ \cup {[nm |-> In("run", nm), ino |-> jf[n].lock, kid |-> "alive"]}]
        /\ UNCHANGED <<at, flk>>
     \/ /\ at' = IF Resolves(nm) THEN Renamed(nm, In("done", nm)) ELSE at
        /\ Release(jf[n].lock)
        /\ UNCHANGED pads
  /\ need' = [need EXCEPT ![n] = @ - 1]
  /\ jf' = [jf EXCEPT ![n] = EmptyHand]
  /\ Goto(n, "solicit")
  /\ UNCHANGED <<data, sub, todo, envVars>>

\* A loop over a listing is over
EndLoop(n) ==
  /\ \/ proc[n] \in {"solicit", "dead", "hug"} /\ todo[n] = {}
     \/ proc[n] = "solicit" /\ need[n] = 0
  /\ todo' = [todo EXCEPT ![n] = {}]
  /\ need' = [need EXCEPT ![n] = 0]
  /\ Goto(n, "idle")
  /\ UNCHANGED <<fsVars, sub, jf, pads, envVars>>

-----------------------------------------------------------------------------
(* reap_zombies and try_done: a child has exited.                            *)

\* Mutations of Verdict: a retry at once, one too many
RetryAtOnce(p, c) ==
  IF TryCount(c) < TryLimit /\ p.kid = "again"
  THEN [In("pend", p.nm) EXCEPT !.rt = now]
  ELSE DoneAt(now, p.nm)
RetryOnceMore(p, c) ==
  IF TryCount(c) <= TryLimit /\ p.kid = "again"
  THEN [In("pend", p.nm) EXCEPT !.rt = now + Delay * TryCount(c)]
  ELSE DoneAt(now, p.nm)

\* Retry, tie or done, by the exit status, the try count and the try limit
Verdict(p, c) ==
  LET more == TryCount(c) < TryLimit IN
  IF more /\ p.kid = "again"
  THEN [In("pend", p.nm) EXCEPT !.rt = now + Delay * TryCount(c)]
  ELSE IF more /\ p.kid = "remote"
  THEN In("tied", p.nm)
  ELSE DoneAt(now, p.nm)

\* load, decide, append the result, repath (rename, then unlock).  If the file
\* cannot be loaded the pad is deleted and the job::file, with its lock, leaks.
TryEnds(n, p) ==
  /\ p.kid \in Exit
  /\ pads' = [pads EXCEPT ![n] = @ \ {p}]
  /\ \/ ~Resolves(p.nm) /\ UNCHANGED <<at, flk, jf, proc>>
     \/ \E i \in Inode :
          LET c == data[i] IN
          /\ at[i] = p.nm
          /\ at' = Renamed(p.nm, Verdict(p, c))
          /\ Release(p.ino)
          /\ jf' = [jf EXCEPT ![n] =
               [EmptyHand EXCEPT !.nm = Verdict(p, c),
                                 !.mem = WithSection(c, "result", TryCount(c))]]
          /\ Goto(n, "truncEnd")

TryDone(n) ==
  /\ proc[n] = "idle"
  /\ \E p \in pads[n] : TryEnds(n, p)
  /\ UNCHANGED <<data, sub, todo, need, envVars>>

\* ...and the contents are stored after that, no longer under the lock
TruncateEnd(n) ==
  /\ proc[n] = "truncEnd"
  /\ OpenForWrite(n, "writeEnd")
  /\ UNCHANGED <<flk, sub, todo, need, pads, envVars>>

WriteEnd(n) ==
  /\ proc[n] = "writeEnd"
  /\ Flush(n, "idle")
  /\ UNCHANGED <<at, flk, sub, todo, need, pads, envVars>>

-----------------------------------------------------------------------------
(* bring_out_yer_dead: what is in run, is not ours and is not locked has     *)
(* lost its manager; back to pend.  flock, rename and close are one step:    *)
(* whoever tries the lock in between skips the job, as it would afterwards.  *)

BringOutYerDead(n) ==
  /\ proc[n] = "idle"
  /\ LET dead == {nm \in Listing("run") : nm.id \notin Mine(n)} IN
       /\ dead # {}
       /\ todo' = [todo EXCEPT ![n] = dead]
  /\ Goto(n, "dead")
  /\ UNCHANGED <<fsVars, sub, need, jf, pads, envVars>>

OpenDead(n) ==
  /\ proc[n] = "dead"
  /\ \E nm \in todo[n] : Open(n, nm, "raise", "dead")
  /\ UNCHANGED <<fsVars, sub, need, pads, envVars>>

RaiseDead(n) ==
  /\ proc[n] = "raise"
  /\ at' = MovedIfUnlocked(n, In("pend", jf[n].nm))
  /\ Skip(n, jf[n].nm, "dead")
  /\ UNCHANGED <<data, flk, sub, need, pads, envVars>>

-----------------------------------------------------------------------------
(* group_hug, for a tied job with no ties of its own (it exited with         *)
(* EINPROGRESS): nothing to wait for, so "all done".                         *)

GroupHug(n) ==
  /\ proc[n] = "idle"
  /\ Listing("tied") # {}
  /\ todo' = [todo EXCEPT ![n] = Listing("tied")]
  /\ Goto(n, "hug")
  /\ UNCHANGED <<fsVars, sub, need, jf, pads, envVars>>

OpenTied(n) ==
  /\ proc[n] = "hug"
  /\ \E nm \in todo[n] : Open(n, nm, "hugMove", "hug")
  /\ UNCHANGED <<fsVars, sub, need, pads, envVars>>

MoveTied(n) ==
  /\ proc[n] = "hugMove"
  /\ at' = MovedIfUnlocked(n, DoneAt(now, jf[n].nm))
  /\ Skip(n, jf[n].nm, "hug")
  /\ UNCHANGED <<data, flk, sub, need, pads, envVars>>

-----------------------------------------------------------------------------
(* terminate_with_predjudice and kellys_kleaning_kompany                     *)

\* Only for a job in our own finmap: the kill file is unlinked, then SIGTERM,
\* which ends a live process or is caught by it.
Terminate(n) ==
  /\ proc[n] = "idle"
  /\ \E p \in pads[n] :
       /\ kill[p.nm.id] = "ordered"
       /\ kill' = [kill EXCEPT ![p.nm.id] = "served"]
       /\ \/ UNCHANGED pads
          \/ /\ p.kid = "alive"
             /\ pads' = [pads EXCEPT ![n] = (@ \ {p}) \cup {[p EXCEPT !.kid = "other"]}]
  /\ UNCHANGED <<fsVars, sub, proc, todo, need, jf, now, orphans, deaths>>

Clean(n) ==
  /\ proc[n] = "idle"
  /\ \E nm \in Listing("done") :
       /\ nm.rt + Age < now
       /\ at' = Unlinked(nm)
  /\ UNCHANGED <<data, flk, sub, manVars, envVars>>

-----------------------------------------------------------------------------
(* The world: child processes, users, the clock, and deaths                  *)

KidExits(n) ==
  /\ \E p \in pads[n], e \in Exits :
       /\ p.kid = "alive"
       /\ pads' = [pads EXCEPT ![n] = (@ \ {p}) \cup {[p EXCEPT !.kid = e]}]
  /\ UNCHANGED <<fsVars, sub, proc, todo, need, jf, envVars>>

OrphanExits(j) ==
  /\ j \in orphans
  /\ orphans' = orphans \ {j}
  /\ UNCHANGED <<fsVars, sub, manVars, now, kill, deaths>>

KillOrder(j) ==
  /\ j \in Doomed
  /\ sub[j] = "released"
  /\ kill[j] = "none"
  /\ kill' = [kill EXCEPT ![j] = "ordered"]
  /\ UNCHANGED <<fsVars, sub, manVars, now, orphans, deaths>>

\* Time only matters relative to the times in names: it passes when one of them
\* lies ahead (bound: so the clock stops when nothing waits for it).
Tick ==
  /\ \E i \in Inode :
       \/ at[i] \in Listing("pend") /\ at[i].rt > now
       \/ at[i] \in Listing("done") /\ at[i].rt + Age >= now
  /\ PromptStore => \A n \in Node : proc[n] \notin {"truncEnd", "writeEnd"}
  /\ now' = now + 1
  /\ UNCHANGED <<fsVars, sub, manVars, kill, orphans, deaths>>

\* SIGTERM lets the current round of the work loop finish ("idle"); SIGKILL or
\* a crash does not.  The kernel closes its descriptors, which drops its locks.
Die(n) ==
  /\ deaths < MaxDeaths
  /\ deaths' = deaths + 1
  /\ proc[n] # "down"
  /\ proc[n] = "idle" \/ Abrupt
  /\ flk' = [i \in Inode |-> IF flk[i] = n THEN Nobody ELSE flk[i]]
  /\ \E left \in SUBSET {p.nm.id : p \in {q \in pads[n] : q.kid = "alive"}} :
       /\ KidsDie => left = {}
       /\ orphans' = orphans \cup left
  /\ Goto(n, "down")
  /\ todo' = [todo EXCEPT ![n] = {}]
  /\ need' = [need EXCEPT ![n] = 0]
  /\ jf' = [jf EXCEPT ![n] = EmptyHand]
  /\ pads' = [pads EXCEPT ![n] = {}]
  /\ UNCHANGED <<at, data, sub, now, kill>>

\* The queue manager (or init) starts it again
Restart(n) ==
  /\ proc[n] = "down"
  /\ Goto(n, "idle")
  /\ UNCHANGED <<fsVars, sub, todo, need, jf, pads, envVars>>

-----------------------------------------------------------------------------

\* The step of the task node n is in
Work(n) ==
  \/ OpenPending(n) \/ LockPending(n) \/ LoadPending(n) \/ RejectPending(n)
  \/ ClaimPending(n) \/ TruncateRun(n) \/ WriteRun(n) \/ LaunchJob(n)
  \/ EndLoop(n)
  \/ TruncateEnd(n) \/ WriteEnd(n)
  \/ OpenDead(n) \/ RaiseDead(n)
  \/ OpenTied(n) \/ MoveTied(n)

Submit(j) == CreateJob(j) \/ FillJob(j) \/ ReleaseJob(j) \/ AbortJob(j)

Next ==
  \/ \E j \in Job : Submit(j) \/ OrphanExits(j) \/ KillOrder(j)
  \/ \E n \in Node :
       \/ Work(n)
       \/ Solicit(n) \/ TryDone(n) \/ BringOutYerDead(n) \/ GroupHug(n)
       \/ Terminate(n) \/ Clean(n)
       \/ KidExits(n) \/ Die(n) \/ Restart(n)
  \/ Tick

Spec == Init /\ [][Next]_vars

-----------------------------------------------------------------------------
(* Correctness *)

\* No job has two live processes, wherever its job managers are: the flock that
\* is kept from the claim in run_a_job until try_done's repath, and the check
\* of it in bring_out_yer_dead, are there for this.
Live(n) == {p \in pads[n] : p.kid = "alive"}
OneRunner ==
  /\ \A n \in Node : \A p \in Live(n) :
       /\ p.nm.id \notin orphans
       /\ \A m \in Node : \A q \in Live(m) : q.nm.id = p.nm.id => m = n /\ q = p

\* Every job has at most one directory entry, hence one state at a time
\* (job.pod: "Every job is in a single job state at any time"): a move is one
\* rename, and a store never creates a second file.
SingleState ==
  \A i, k \in Inode :
    at[i] # NoName /\ at[k] # NoName /\ at[i].id = at[k].id => i = k

\* As long as a manager has a child process (or its exit status) for a job, the
\* job's file is in run under the name the manager will load, and the manager
\* holds the flock on just that file: nobody can call the job dead.
OwnerHoldsLock ==
  \A n \in Node : \A p \in pads[n] :
    /\ at[p.ino] = p.nm
    /\ p.nm.st = "run"
    /\ flk[p.ino] = n

\* The sections of a job file that has its command are output 1, result 1,
\* output 2, result 2, ...: across retries, resurrections and nodes no try is
\* lost, repeated or left without a result once the next one starts.
LogInOrder ==
  \A i \in Inode : LET log == data[i].log IN
    \A k \in 1..Len(log) :
      log[k] = [kind |-> IF k % 2 = 1 THEN "output" ELSE "result",
                try |-> (k + 1) \div 2]

\* A job file that nobody is writing has its command: what was submitted is
\* there for the next try (job.pod: "Jobs survive system reboots").
BeingWritten(i) == \E n \in Node : jf[n].file = i
CommandKept ==
  \A i \in Inode :
    at[i] # NoName /\ ~BeingWritten(i) /\ at[i].st # "hold" => data[i].cmd

\* run-limit bounds the children of a manager, also with those that the poll it
\* is in may still start (a job that cannot be had does not count against it).
RunLimitKept == \A n \in Node : Cardinality(pads[n]) + need[n] <= RunLimit

\* No job starts a try beyond its try limit (mkjob.pod: "a job that needs to
\* retry will run no more than this many times").
TryLimitKept == \A i \in Inode : TryCount(data[i]) <= TryLimit

\* The states of the man page: from hold to pend, around pend, run and tied, to
\* done, and out of the queue only by the housekeeper (or by an mkjob that fails).
Edges == {<<"hold", "pend">>, <<"pend", "run">>, <<"pend", "done">>,
          <<"run", "pend">>, <<"run", "tied">>, <<"run", "done">>,
          <<"tied", "done">>}
StateEdges ==
  [][\A i \in Inode :
       at[i] # NoName /\ at'[i] # at[i] =>
         \/ at'[i] = NoName /\ at[i].st \in {"hold", "done"}
         \/ /\ at'[i] # NoName
            /\ at'[i].id = at[i].id
            /\ <<at[i].st, at'[i].st>> \in Edges]_vars

-----------------------------------------------------------------------------
(* Refinement: a job's place is the directory its file is in, its holder is  *)
(* whoever has the flock on that file.                                       *)

FileOf(j) == {i \in Inode : at[i] # NoName /\ at[i].id = j}
placeOf == [j \in Job |->
  IF FileOf(j) # {} THEN at[CHOOSE i \in FileOf(j) : TRUE].st
  ELSE IF sub[j] = "none" THEN "new" ELSE "gone"]
holderOf == [j \in Job |->
  IF FileOf(j) # {} THEN flk[CHOOSE i \in FileOf(j) : TRUE] ELSE Nobody]

JQ == INSTANCE JobQueue WITH place <- placeOf, holder <- holderOf

\* The managers, for all their scanning, racing and dying, keep the promise of
\* JobQueue: a running job is moved by the manager that holds it or, once that
\* one has died, by one other.
KeepsPromise == JQ!QSpec

-----------------------------------------------------------------------------
(* Progress.  The work loop is one thread that reaches every task again and  *)
(* again (each has its own timer), but a task finds something to do only     *)
(* from time to time: hence strong fairness of the tasks.  A dead manager is *)
(* restarted by the queue manager; children are assumed to exit.             *)
Fairness ==
  /\ WF_vars(Tick)
  /\ \A n \in Node :
       /\ WF_vars(Work(n))
       /\ WF_vars(Restart(n))
       /\ WF_vars(KidExits(n))
       /\ SF_vars(Solicit(n))
       /\ SF_vars(TryDone(n))
       /\ SF_vars(BringOutYerDead(n))
       /\ SF_vars(GroupHug(n))

FairSpec == Spec /\ Fairness

\* Whatever managers die and however the tries end, a job that was released to
\* the queue gets to done (from which only the housekeeper takes it).
EveryJobEnds ==
  \A j \in Job : sub[j] = "released" ~> placeOf[j] \in {"done", "gone"}

-----------------------------------------------------------------------------
(* Stated by the sources, and not kept by the code: no run lists these, the  *)
(* README says how TLC refutes them.                                         *)

\* A kill file that a manager has acted on (and unlinked) ends its job: no
\* process is started for that job afterwards (job.pod: "if found they'll
\* cancel that job").
KillSticks ==
  [][\A n \in Node : \A p \in pads'[n] :
       p.nm.id \notin Mine(n) => kill[p.nm.id] # "served"]_vars

\* A job gets to done with the time of its end in its name, which is what the
\* housekeeper counts the 30 days from (job.pod: "any job in the done state for
\* more than 30 days will be purged").
AgeCountsFromDone ==
  [][\A i \in Inode :
       /\ at[i] # NoName /\ at[i].st # "done"
       /\ at'[i] # NoName /\ at'[i].st = "done"
       => at'[i].rt = now]_vars
=============================================================================
