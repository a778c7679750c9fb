------------------------------ MODULE JobManInv ------------------------------
(***************************************************************************)
(* Why no job ever has two processes: the inductive invariant behind       *)
(* JobMan!OneRunner.                                                       *)
(*                                                                         *)
(* The flock is on an inode and the moves go by name, so the argument is   *)
(* about how the two stay together: a job that can still run has one file, *)
(* an inode that was opened for a job stays that job's file for as long as *)
(* the job can run, and what a manager has claimed stays under the name it *)
(* gave it.  It needs three things of the environment, OneRunnerAssumption *)
(* below; without any one of them OneRunner fails.                         *)
(***************************************************************************)
EXTENDS JobMan

\* Children die with their manager; a store that follows its rename is over
\* before the clock moves on; clocks differ by less than the first retry delay.
OneRunnerAssumption == KidsDie /\ PromptStore /\ MaxSkew < Delay

-----------------------------------------------------------------------------

\* The steps of the three tasks that look through a listing
Starting == {"solicit", "lock", "load", "reject", "claim", "truncRun",
             "writeRun", "launch"}
Raising == {"dead", "raise"}
Hugging == {"hug", "hugMove"}

\* The types, and that a task which needs them has a name and a lock file in hand
Ending == {"truncEnd", "writeEnd"}
Opened == (Starting \ {"solicit"}) \cup {"raise", "hugMove"}
HandInUse(n) ==
  /\ proc[n] \in Opened \cup Ending => jf[n].nm \in Name
  /\ proc[n] \in Opened => jf[n].lock \in Inode
TInv == TypeOK /\ \A n \in Node : HandInUse(n)

\* Why the run limit is kept: a poll has room for the job it is working on, and
\* outside of a poll nothing is needed.
HasRoom(n) ==
  /\ Cardinality(pads[n]) + need[n] <= RunLimit
  /\ need[n] >= 0
  /\ proc[n] \in Starting \ {"solicit"} => need[n] > 0
  /\ proc[n] \notin Starting => need[n] = 0
RunInv == \A n \in Node : HasRoom(n)

-----------------------------------------------------------------------------

\* The states a job can still be run from
Active(i) == at[i] # NoName /\ at[i].st \in {"hold", "pend", "run"}

\* Job j can no longer run
Over(j) == \A k \in Inode : Active(k) => at[k].id # j

\* Inode i was job j's file when it was opened, and is unless j is over
Bound(i, j) == sub[j] # "none" /\ (Over(j) \/ (at[i] # NoName /\ at[i].id = j))

\* Names a poll may have listed, from now on
Due(nm) == nm.st = "pend" /\ nm.rt <= now + MaxSkew

\* The steps in which run_a_job has the lock
Locked == {"load", "reject", "claim", "truncRun", "writeRun", "launch"}
Claimed == {"truncRun", "writeRun", "launch"}

UniqueActive ==
  \A i, k \in Inode :
    Active(i) /\ at[k] # NoName /\ at[k].id = at[i].id => k = i

EntriesSubmitted == \A i \in Inode : at[i] # NoName => sub[at[i].id] # "none"

\* What node n's job manager lists, holds and has launched.  First, what is
\* in its listing was there, under that name, when it was listed.
ListingStale(n) ==
  \A nm \in todo[n] :
    /\ proc[n] \in Starting => Due(nm)
    /\ proc[n] \in Raising => nm.st = "run"
    /\ proc[n] \in Hugging => nm.st = "tied"

\* What the job::file in hand refers to before it is claimed
HandOpened(n) ==
  /\ proc[n] \in {"lock", "load", "reject", "claim"} =>
       /\ Due(jf[n].nm)
       /\ Bound(jf[n].lock, jf[n].nm.id)
  /\ proc[n] = "raise" =>
       /\ jf[n].nm.st = "run"
       /\ Bound(jf[n].lock, jf[n].nm.id)
  /\ proc[n] = "hugMove" => jf[n].nm.st = "tied"

\* ... while it is locked and claimed
HandLocked(n) ==
  /\ proc[n] \in Locked =>
       /\ flk[jf[n].lock] = n
       /\ \A p \in pads[n] : p.ino # jf[n].lock
  /\ proc[n] \in {"reject", "claim"} \cup Claimed => at[jf[n].lock] = jf[n].nm
  /\ proc[n] \in Claimed => jf[n].nm.st = "run"
  /\ proc[n] \in {"claim", "truncRun", "writeRun"} => TryCount(jf[n].mem) >= 1
  /\ proc[n] = "writeRun" => jf[n].file = jf[n].lock
  /\ proc[n] = "launch" => TryCount(data[jf[n].lock]) >= 1

\* ... and when try_done has renamed it and let the lock go
HandEnding(n) ==
  proc[n] \in Ending =>
    LET nm == jf[n].nm IN
      /\ sub[nm.id] # "none"
      /\ \/ nm.st = "pend" /\ nm.rt > now + MaxSkew /\ Resolves(nm)
         \/ nm.st \in {"tied", "done"} /\ Over(nm.id)
      /\ proc[n] = "writeEnd" =>
           /\ jf[n].file \in Inode
           /\ IF nm.st = "pend" THEN at[jf[n].file] = nm ELSE ~Active(jf[n].file)

PadsOwned(n) ==
  \A p \in pads[n] :
    /\ at[p.ino] = p.nm
    /\ p.nm.st = "run"
    /\ flk[p.ino] = n
    /\ TryCount(data[p.ino]) >= 1
    /\ \A q \in pads[n] : q.ino = p.ino => q = p

NodeInv(n) ==
  /\ ListingStale(n)
  /\ HandOpened(n)
  /\ HandLocked(n)
  /\ HandEnding(n)
  /\ PadsOwned(n)

IInv ==
  /\ TInv
  /\ UniqueActive
  /\ EntriesSubmitted
  /\ orphans = {}
  /\ \A n \in Node : NodeInv(n)

-----------------------------------------------------------------------------
(* What is needed besides to show that each step keeps the promise of        *)
(* JobQueue, when no job exits with EINPROGRESS.                             *)

\* No file is tied, and no child has asked for it
NoTies == \A i \in Inode : at[i] # NoName => at[i].st # "tied"
NoneRemote(n) == \A p \in pads[n] : p.kid # "remote"

\* What try_done has renamed and still has to store is where it put it: nobody
\* takes a retry before it is due, and nobody purges what has only just ended
EndingKept(n) ==
  proc[n] \in Ending =>
    LET nm == jf[n].nm IN
      /\ Resolves(nm)
      /\ \/ nm.st = "pend" /\ nm.rt > now + MaxSkew
         \/ nm.st = "done" /\ nm.rt = now

\* Only mkjob touches a file in hold
HoldFree ==
  \A i \in Inode :
    at[i] # NoName /\ at[i].st = "hold" =>
      flk[i] = Nobody /\ \A n \in Node : jf[n].lock # i

PInv ==
  /\ IInv
  /\ SingleState
  /\ NoTies
  /\ HoldFree
  /\ \A n \in Node : NoneRemote(n) /\ EndingKept(n)
=============================================================================
