---------------------------- MODULE PromiseProofs ----------------------------
(***************************************************************************)
(* The managers keep the promise of JobQueue: JobMan implements it, under  *)
(* OneRunnerAssumption and if no job exits with EINPROGRESS (a job that    *)
(* does gets a second file: see the run that shows it).                    *)
(*                                                                         *)
(* JobQueue knows places and holders of jobs, JobMan entries and locks of  *)
(* inodes.  The proof goes by way of a third view, FileStep: what a step   *)
(* of a manager does to one inode.  Each step of JobMan is a FileStep      *)
(* (here IInv is used, which ties names to inodes), each FileStep leaves a *)
(* job with one file, and with one file for each job it is a step of       *)
(* JobQueue.  The second half of the module is about what is in the files. *)
(***************************************************************************)
EXTENDS JobManProofs

PromiseAssumption == OneRunnerAssumption /\ "remote" \notin Exits

-----------------------------------------------------------------------------
(* What a step of a manager does to one inode *)

Moved(l, new) ==
  at[l] # NoName /\ new \in Name /\ new.id = at[l].id /\ at' = [at EXCEPT ![l] = new]
LetGo(n, l) == flk[l] = n /\ flk' = [flk EXCEPT ![l] = Nobody]
DueEntry(l) == at[l].st = "pend" /\ at[l].rt <= now + MaxSkew

FileTaken(n, l) ==
  flk[l] = Nobody /\ flk' = [flk EXCEPT ![l] = n] /\ UNCHANGED at
    /\ (at[l] # NoName => at[l].st # "hold")
FileLeft(n, l) == LetGo(n, l) /\ UNCHANGED at
FileStarted(n, l) ==
  /\ flk[l] = n /\ UNCHANGED flk
  /\ DueEntry(l) /\ \E new \in Name : new.st = "run" /\ Moved(l, new)
FileRefused(n, l) ==
  LetGo(n, l) /\ DueEntry(l) /\ \E new \in Name : new.st = "done" /\ Moved(l, new)
FileFinished(n, l) ==
  /\ LetGo(n, l)
  /\ at[l].st = "run" /\ \E new \in Name : new.st \in {"pend", "done"} /\ Moved(l, new)
FileRaised(l) ==
  /\ flk[l] = Nobody /\ UNCHANGED flk
  /\ at[l].st = "run" /\ \E new \in Name : new.st = "pend" /\ Moved(l, new)
FilePurged(l) ==
  /\ at[l] # NoName /\ at[l].st = "done" /\ at[l].rt < now
  /\ at' = [at EXCEPT ![l] = NoName] /\ UNCHANGED flk
AllLeft(n) ==
  UNCHANGED at /\ flk' = [i \in Inode |-> IF flk[i] = n THEN Nobody ELSE flk[i]]

FileStep(n) ==
  \/ UNCHANGED <<at, flk>>
  \/ \E l \in Inode :
       \/ FileTaken(n, l) \/ FileLeft(n, l) \/ FileStarted(n, l) \/ FileRefused(n, l)
       \/ FileFinished(n, l) \/ FileRaised(l) \/ FilePurged(l)
  \/ AllLeft(n)

\* What the step does to its own manager's part of PInv
OwnStep(n) ==
  /\ NoneRemote(n)' /\ EndingKept(n)'
  /\ jf'[n].lock \in Inode =>
       \/ jf'[n].lock = jf[n].lock
       \/ at[jf'[n].lock] # NoName /\ at[jf'[n].lock].st # "hold"

PStep(n) == FileStep(n) /\ OwnStep(n)

\* The parts of PInv, as the steps use them.
LEMMA PParts ==
  ASSUME PInv, NEW n \in Node
  PROVE  /\ IInv /\ SingleState /\ NoTies /\ HoldFree
         /\ NoneRemote(n) /\ EndingKept(n)
BY DEF PInv

\* The object in hand has been given up.
LEMMA NothingInHand ==
  ASSUME NEW n \in Node, proc'[n] \notin Ending, jf'[n] = EmptyHand, pads'[n] \subseteq pads[n],
         NoneRemote(n)
  PROVE  OwnStep(n)
BY JobManAssumption DEF OwnStep, NoneRemote, EndingKept, EmptyHand

\* The object in hand is kept.
LEMMA SameInHand ==
  ASSUME NEW n \in Node, proc'[n] \notin Ending, jf'[n].lock = jf[n].lock,
         pads'[n] \subseteq pads[n], NoneRemote(n)
  PROVE  OwnStep(n)
BY DEF OwnStep, NoneRemote, EndingKept

-----------------------------------------------------------------------------
(* The steps of a manager *)

\* A listing is made, worked off or given up.
LEMMA PListStep ==
  ASSUME PInv, NEW n \in Node,
         Solicit(n) \/ BringOutYerDead(n) \/ GroupHug(n) \/ EndLoop(n) \/ Restart(n)
  PROVE  PStep(n)
<1>1. UNCHANGED <<at, flk, jf, pads>>
  BY DEF Solicit, BringOutYerDead, GroupHug, EndLoop, Restart, fsVars
<1>2. proc'[n] \notin Ending
  BY PParts, Parts, GotoEffect DEF Solicit, BringOutYerDead, GroupHug, EndLoop, Restart, Ending
<1> QED
  BY <1>1, <1>2, PParts, SameInHand DEF PStep, FileStep

\* A child ends, and not with EINPROGRESS.
LEMMA PKidStep ==
  ASSUME PInv, "remote" \notin Exits, NEW n \in Node, KidExits(n) \/ Terminate(n)
  PROVE  PStep(n)
<1>1. UNCHANGED <<at, flk, jf, proc>> /\ now' = now
  BY DEF KidExits, Terminate, fsVars, envVars
<1>2. NoneRemote(n)'
  <2>1. \A p \in pads'[n] : p \in pads[n] \/ p.kid # "remote"
    <3>1. CASE UNCHANGED pads
      BY <3>1
    <3>2. ASSUME NEW p \in pads[n], NEW e, e # "remote",
                 pads' = [pads EXCEPT ![n] = (@ \ {p}) \cup {[p EXCEPT !.kid = e]}]
          PROVE  \A q \in pads'[n] : q \in pads[n] \/ q.kid # "remote"
      <4>1. p \in Pad
        BY PParts, Parts
      <4>2. [p EXCEPT !.kid = e].kid = e
        BY <4>1 DEF Pad
      <4>3. pads'[n] = (pads[n] \ {p}) \cup {[p EXCEPT !.kid = e]}
        BY <3>2, PParts, Parts DEF TypeOK
      <4> QED
        BY <3>2, <4>2, <4>3
    <3> QED
      BY <3>1, <3>2 DEF KidExits, Terminate
  <2> QED
    BY <2>1, PParts DEF NoneRemote
<1>3. EndingKept(n)'
  BY <1>1, PParts DEF EndingKept, Resolves
<1> QED
  BY <1>1, <1>2, <1>3 DEF PStep, FileStep, OwnStep

\* What is opened is not in hold: no listing has been of hold.
LEMMA POpenStep ==
  ASSUME PInv, NEW n \in Node, OpenPending(n) \/ OpenDead(n) \/ OpenTied(n)
  PROVE  PStep(n)
<1> USE PParts, Parts, JobFileAssumption
<1>1. UNCHANGED <<at, flk, pads>>
  BY DEF OpenPending, OpenDead, OpenTied, fsVars
<1>2. PICK nm \in todo[n], next \in {"lock", "raise", "hugMove"},
           loop \in {"solicit", "dead", "hug"} : Open(n, nm, next, loop)
  BY DEF OpenPending, OpenDead, OpenTied
<1>3. nm.st # "hold" /\ nm \in Name
  BY DEF OpenPending, OpenDead, OpenTied, ListingStale, Starting, Raising, Hugging, Due, TypeOK
<1>4. /\ proc'[n] \notin Ending
      /\ \/ \E i \in Inode : at[i] = nm /\ jf'[n].lock = i
         \/ jf'[n] = EmptyHand
  <2>1. ASSUME NEW i \in Inode, at[i] = nm, Goto(n, next),
               jf' = [jf EXCEPT ![n] = [EmptyHand EXCEPT !.nm = nm, !.lock = i]]
        PROVE  proc'[n] \notin Ending /\ jf'[n].lock = i
    BY <2>1, GotoEffect DEF TypeOK, EmptyHand, Ending
  <2>2. ASSUME Skip(n, nm, loop)
        PROVE  proc'[n] \notin Ending /\ jf'[n] = EmptyHand
    BY <2>2, SkipEffect DEF Ending
  <2> QED
    BY <1>2, <2>1, <2>2 DEF Open
<1>5. jf'[n].lock \in Inode => at[jf'[n].lock] # NoName /\ at[jf'[n].lock].st # "hold"
  BY <1>3, <1>4, JobManAssumption DEF EmptyHand
<1> QED
  BY <1>1, <1>4, <1>5 DEF PStep, FileStep, OwnStep, NoneRemote, EndingKept

\* A file that is locked is not in hold: somebody had it in hand.
LEMMA PLockStep ==
  ASSUME PInv, NEW n \in Node, LockPending(n)
  PROVE  PStep(n)
<1> USE PParts, Parts
<1> DEFINE l == jf[n].lock
<1>1. proc[n] = "lock" /\ l \in Inode /\ UNCHANGED <<at, pads>>
  BY DEF LockPending, HandInUse, Opened, Starting
<1>2. CASE flk[l] = Nobody /\ flk' = [flk EXCEPT ![l] = n] /\ Goto(n, "load") /\ UNCHANGED jf
  <2>1. at[l] # NoName => at[l].st # "hold"
    BY <1>1 DEF HoldFree
  <2>2. FileTaken(n, l)
    BY <1>1, <1>2, <2>1 DEF FileTaken
  <2>3. OwnStep(n)
    BY <1>1, <1>2, GotoEffect, SameInHand DEF Ending
  <2> QED
    BY <1>1, <2>2, <2>3 DEF PStep, FileStep
<1>3. CASE Skip(n, jf[n].nm, "solicit") /\ UNCHANGED flk
  <2>1. OwnStep(n)
    BY <1>1, <1>3, SkipEffect, NothingInHand DEF Ending
  <2> QED
    BY <1>1, <1>3, <2>1 DEF PStep, FileStep
<1> QED
  BY <1>2, <1>3 DEF LockPending

\* A job that has moved on is left.
LEMMA PLoadStep ==
  ASSUME PInv, NEW n \in Node, LoadPending(n)
  PROVE  PStep(n)
<1> USE PParts, Parts
<1> DEFINE l == jf[n].lock
<1>1. proc[n] = "load" /\ l \in Inode /\ UNCHANGED <<at, pads>> /\ flk[l] = n
  BY DEF LoadPending, HandInUse, Opened, Starting, HandLocked, Locked
<1>2. CASE Release(l) /\ Skip(n, jf[n].nm, "solicit")
  <2>1. FileLeft(n, l)
    BY <1>1, <1>2 DEF FileLeft, LetGo, Release
  <2>2. OwnStep(n)
    BY <1>1, <1>2, SkipEffect, NothingInHand DEF Ending
  <2> QED
    BY <1>1, <2>1, <2>2 DEF PStep, FileStep
<1>3. ASSUME NEW c, NEW step \in {"claim", "reject"}, UNCHANGED flk,
             jf' = [jf EXCEPT ![n].mem = c], Goto(n, step)
      PROVE  PStep(n)
  <2>1. jf'[n].lock = l
    BY <1>3 DEF TypeOK, Hand
  <2>2. OwnStep(n)
    BY <1>1, <1>3, <2>1, GotoEffect, SameInHand DEF Ending
  <2> QED
    BY <1>1, <1>3, <2>2 DEF PStep, FileStep
<1> QED
  BY <1>2, <1>3 DEF LoadPending

\* The file that a manager has loaded under its lock is moved where it says: it
\* still has the name in hand.
LEMMA MovedInHand ==
  ASSUME PInv, NEW n \in Node, NEW s \in State,
         proc[n] \in {"reject", "claim", "launch"},
         Resolves(jf[n].nm) => at' = Renamed(jf[n].nm, In(s, jf[n].nm))
  PROVE  LET l == jf[n].lock IN
         /\ l \in Inode /\ flk[l] = n
         /\ IF proc[n] = "launch" THEN at[l].st = "run" ELSE DueEntry(l)
         /\ \E new \in Name : new.st = s /\ Moved(l, new)
<1> USE PParts, Parts, JobFileAssumption
<1> DEFINE l == jf[n].lock
           new == In(s, jf[n].nm)
<1>1. l \in Inode /\ jf[n].nm \in Name /\ flk[l] = n /\ at[l] = jf[n].nm
  BY DEF HandInUse, Opened, Starting, HandLocked, Locked, Claimed
<1>2. IF proc[n] = "launch" THEN at[l].st = "run" ELSE DueEntry(l)
  BY <1>1 DEF HandOpened, HandLocked, Claimed, Due, DueEntry
<1>3. new \in Name /\ new.id = at[l].id /\ new.st = s
  BY <1>1, MovedNameType
<1>4. Active(l) /\ at[l] # NoName
  BY <1>1, <1>2 DEF Active, DueEntry
<1>5. at' = Renamed(at[l], new)
  BY <1>1 DEF Resolves
<1> HIDE DEF l, new
<1>6. at' = [at EXCEPT ![l] = new]
  BY <1>1, <1>3, <1>4, <1>5, RenamedOne
<1> QED
  BY <1>1, <1>2, <1>3, <1>4, <1>6 DEF Moved, l, new

\* An empty job is refused.
LEMMA PRejectStep ==
  ASSUME PInv, NEW n \in Node, RejectPending(n)
  PROVE  PStep(n)
<1> USE PParts, Parts
<1>1. proc[n] = "reject" /\ UNCHANGED pads /\ Release(jf[n].lock)
  BY DEF RejectPending
<1>2. FileRefused(n, jf[n].lock) /\ jf[n].lock \in Inode
  BY <1>1, MovedInHand DEF RejectPending, FileRefused, LetGo, Release, State
<1>3. OwnStep(n)
  BY <1>1, SkipEffect, NothingInHand DEF RejectPending, Ending
<1> QED
  BY <1>2, <1>3 DEF PStep, FileStep

\* A job is claimed by the manager that has its lock.
LEMMA PClaimStep ==
  ASSUME PInv, NEW n \in Node, ClaimPending(n)
  PROVE  PStep(n)
<1> USE PParts, Parts
<1>1. proc[n] = "claim" /\ UNCHANGED <<flk, pads>>
  BY DEF ClaimPending
<1>2. FileStarted(n, jf[n].lock) /\ jf[n].lock \in Inode
  BY <1>1, MovedInHand DEF ClaimPending, FileStarted, State
<1>3. jf'[n].lock = jf[n].lock
  BY DEF ClaimPending, TypeOK, Hand
<1>4. OwnStep(n)
  BY <1>1, <1>3, GotoEffect, SameInHand DEF ClaimPending, Ending
<1> QED
  BY <1>2, <1>4 DEF PStep, FileStep

\* It is launched, or, if that fails, it is finished.
LEMMA PLaunchStep ==
  ASSUME PInv, NEW n \in Node, LaunchJob(n)
  PROVE  PStep(n)
<1> USE PParts, Parts
<1>1. proc[n] = "launch" /\ jf'[n] = EmptyHand /\ proc'[n] \notin Ending
  BY GotoEffect DEF LaunchJob, TypeOK, Ending
<1>2. CASE UNCHANGED <<at, flk>>
  <2>1. \A p \in pads'[n] : p \in pads[n] \/ p.kid = "alive"
    BY <1>2 DEF LaunchJob, TypeOK
  <2>2. OwnStep(n)
    BY <1>1, <2>1, JobManAssumption DEF OwnStep, NoneRemote, EndingKept, EmptyHand
  <2> QED
    BY <1>2, <2>2 DEF PStep, FileStep
<1>3. CASE /\ at' = IF Resolves(jf[n].nm) THEN Renamed(jf[n].nm, In("done", jf[n].nm)) ELSE at
           /\ Release(jf[n].lock)
           /\ UNCHANGED pads
  <2>1. FileFinished(n, jf[n].lock) /\ jf[n].lock \in Inode
    BY <1>1, <1>3, MovedInHand DEF FileFinished, LetGo, Release, State
  <2>2. OwnStep(n)
    BY <1>1, <1>3, NothingInHand
  <2> QED
    BY <2>1, <2>2 DEF PStep, FileStep
<1> QED
  BY <1>2, <1>3 DEF LaunchJob

\* Contents are written: what is opened by name is there, so that no second file
\* is made.
LEMMA PWriteStep ==
  ASSUME PInv, NEW n \in Node,
         TruncateRun(n) \/ WriteRun(n) \/ TruncateEnd(n) \/ WriteEnd(n)
  PROVE  PStep(n)
<1> USE PParts, Parts, JobFileAssumption
<1>1. UNCHANGED <<flk, pads>> /\ now' = now
  BY DEF TruncateRun, WriteRun, TruncateEnd, WriteEnd, envVars
<1>2. jf'[n].lock = jf[n].lock /\ jf'[n].nm = jf[n].nm
  BY DEF TruncateRun, WriteRun, TruncateEnd, WriteEnd, OpenForWrite, Flush, TypeOK, Hand
<1>3. CASE TruncateRun(n)
  <2>1. proc[n] = "truncRun" /\ proc'[n] = "writeRun"
    BY <1>3, GotoEffect DEF TruncateRun, OpenForWrite
  <2>2. Resolves(jf[n].nm)
    BY <2>1 DEF HandLocked, Claimed, HandInUse, Opened, Starting, Resolves
  <2>3. UNCHANGED at
    BY <1>3, <2>2 DEF TruncateRun, OpenForWrite, FsTypeOK
  <2> QED
    BY <1>1, <1>2, <2>1, <2>3, SameInHand DEF PStep, FileStep, Ending
<1>4. CASE WriteRun(n) \/ WriteEnd(n)
  <2>1. UNCHANGED at /\ proc'[n] \in {"launch", "idle"}
    BY <1>4, GotoEffect DEF WriteRun, WriteEnd, Flush
  <2> QED
    BY <1>1, <1>2, <2>1, SameInHand DEF PStep, FileStep, Ending
<1>5. CASE TruncateEnd(n)
  <2>1. proc[n] = "truncEnd" /\ proc'[n] = "writeEnd"
    BY <1>5, GotoEffect DEF TruncateEnd, OpenForWrite
  <2>2. Resolves(jf[n].nm)
    BY <2>1 DEF EndingKept, Ending
  <2>3. UNCHANGED at
    BY <1>5, <2>2 DEF TruncateEnd, OpenForWrite, FsTypeOK
  <2>4. EndingKept(n)'
    BY <1>1, <1>2, <2>1, <2>3 DEF EndingKept, Ending, Resolves
  <2> QED
    BY <1>1, <1>2, <2>3, <2>4 DEF PStep, FileStep, OwnStep, NoneRemote
<1> QED
  BY <1>3, <1>4, <1>5

\* A job that has run goes back to pend, for later, or to done, as of now; in the
\* same step its lock is let go.
LEMMA PTryDoneStep ==
  ASSUME PInv, MaxSkew < Delay, NEW n \in Node, TryDone(n)
  PROVE  PStep(n)
<1> USE PParts, Parts, JobFileAssumption
<1>1. now' = now /\ now \in Nat
  BY DEF TryDone, envVars, TypeOK
<1>2. PICK p \in pads[n] : TryEnds(n, p)
  BY DEF TryDone
<1> DEFINE l == p.ino
<1>3. at[l] = p.nm /\ p.nm.st = "run" /\ flk[l] = n /\ TryCount(data[l]) >= 1 /\ l \in Inode
  BY DEF PadsOwned
<1>4. Active(l) /\ at[l] # NoName
  BY <1>3 DEF Active
<1>5. PICK i \in Inode :
        /\ at[i] = p.nm
        /\ at' = Renamed(p.nm, Verdict(p, data[i]))
        /\ Release(l)
        /\ jf' = [jf EXCEPT ![n] =
             [EmptyHand EXCEPT !.nm = Verdict(p, data[i]),
                               !.mem = WithSection(data[i], "result", TryCount(data[i]))]]
        /\ Goto(n, "truncEnd")
  BY <1>2, <1>3 DEF TryEnds, Resolves
<1>6. i = l
  BY <1>3, <1>4, <1>5 DEF UniqueActive
<1> DEFINE new == Verdict(p, data[l])
<1>7. data[l] \in Content /\ TryCount(data[l]) \in Nat
  BY <1>3, TryCountType DEF FsTypeOK
<1>8. /\ new \in Name
      /\ new.id = p.nm.id
      /\ \/ new.st = "pend" /\ new.rt = now + Delay * TryCount(data[l])
         \/ new.st = "done" /\ new.rt = now
  <2>1. p.kid # "remote"
    BY DEF NoneRemote
  <2>2. new = DoneAt(now, p.nm) \/ new = [In("pend", p.nm) EXCEPT !.rt = now + Delay * TryCount(data[l])]
    BY <2>1 DEF Verdict
  <2>3. DoneAt(now, p.nm).st = "done" /\ DoneAt(now, p.nm).rt = now
    BY DEF DoneAt, Name
  <2>4. [In("pend", p.nm) EXCEPT !.rt = now + Delay * TryCount(data[l])].rt
          = now + Delay * TryCount(data[l])
    BY DEF In, Name
  <2>5. [In("pend", p.nm) EXCEPT !.rt = now + Delay * TryCount(data[l])].st = "pend"
    BY DEF In, Name
  <2>6. new \in Name /\ new.id = p.nm.id
    BY <1>7, VerdictType
  <2> QED
    BY <2>2, <2>3, <2>4, <2>5, <2>6
<1>9. new.st = "pend" => new.rt > now + MaxSkew
  BY <1>1, <1>3, <1>7, <1>8, RetryLater
<1>10. jf'[n].nm = new /\ jf'[n].lock = NoInode
  BY <1>5, <1>6 DEF TypeOK, EmptyHand
<1>11. at' = Renamed(at[l], new) /\ pads'[n] = pads[n] \ {p} /\ flk' = [flk EXCEPT ![l] = Nobody]
  BY <1>2, <1>3, <1>5, <1>6 DEF TryEnds, TypeOK, Release
<1>12. proc'[n] = "truncEnd"
  BY <1>5, GotoEffect
<1> HIDE DEF new, l
<1>13. at' = [at EXCEPT ![l] = new]
  BY <1>3, <1>4, <1>8, <1>11, RenamedOne
<1>14. FileFinished(n, l)
  BY <1>3, <1>4, <1>8, <1>11, <1>13 DEF FileFinished, LetGo, Moved
<1>15. EndingKept(n)'
  <2>1. at'[l] = new
    BY <1>3, <1>13 DEF FsTypeOK
  <2> QED
    BY <1>1, <1>3, <1>8, <1>9, <1>10, <2>1 DEF EndingKept, Resolves
<1>16. OwnStep(n)
  BY <1>10, <1>11, <1>15, JobManAssumption DEF OwnStep, NoneRemote
<1> QED
  BY <1>3, <1>14, <1>16 DEF PStep, FileStep

\* A job without a manager is put back to pend.
LEMMA PRaiseStep ==
  ASSUME PInv, NEW n \in Node, RaiseDead(n)
  PROVE  PStep(n)
<1> USE PParts, Parts, JobFileAssumption
<1> DEFINE l == jf[n].lock
           nm == jf[n].nm
           new == In("pend", nm)
<1>1. proc[n] = "raise" /\ l \in Inode /\ nm \in Name /\ UNCHANGED <<flk, pads>>
  BY DEF RaiseDead, HandInUse, Opened
<1>2. nm.st = "run" /\ Bound(l, nm.id)
  BY <1>1 DEF HandOpened
<1>3. OwnStep(n)
  BY <1>1, SkipEffect, NothingInHand DEF RaiseDead, Ending
<1>4. CASE flk[l] = Nobody /\ Resolves(nm)
  <2>1. PICK i \in Inode : at[i] = nm
    BY <1>4 DEF Resolves
  <2>2. at[l] = nm
    BY <1>1, <1>2, <2>1, ResolvesOne
  <2>3. new \in Name /\ new.id = at[l].id /\ new.st = "pend"
    BY <1>1, <2>2, MovedNameType DEF State
  <2>4. Active(l) /\ at[l] # NoName
    BY <1>1, <1>2, <2>2 DEF Active
  <2>5. at' = Renamed(at[l], new)
    BY <1>4, <2>2 DEF RaiseDead, MovedIfUnlocked
  <2> HIDE DEF new
  <2>6. at' = [at EXCEPT ![l] = new]
    BY <1>1, <2>3, <2>4, <2>5, RenamedOne
  <2>7. FileRaised(l)
    BY <1>1, <1>2, <1>4, <2>2, <2>3, <2>4, <2>6 DEF FileRaised, Moved
  <2> QED
    BY <1>1, <1>3, <2>7 DEF PStep, FileStep
<1>5. CASE ~(flk[l] = Nobody /\ Resolves(nm))
  BY <1>1, <1>3, <1>5 DEF RaiseDead, MovedIfUnlocked, PStep, FileStep
<1> QED
  BY <1>4, <1>5

\* There is no tied job without ties.
LEMMA PMoveTiedStep ==
  ASSUME PInv, NEW n \in Node, MoveTied(n)
  PROVE  PStep(n)
<1> USE PParts, Parts, JobFileAssumption
<1>1. proc[n] = "hugMove" /\ jf[n].nm \in Name /\ UNCHANGED <<flk, pads>>
  BY DEF MoveTied, HandInUse, Opened
<1>2. ~Resolves(jf[n].nm)
  BY <1>1 DEF HandOpened, NoTies, Resolves
<1>3. UNCHANGED at
  BY <1>2 DEF MoveTied, MovedIfUnlocked
<1>4. OwnStep(n)
  BY <1>1, SkipEffect, NothingInHand DEF MoveTied, Ending
<1> QED
  BY <1>1, <1>3, <1>4 DEF PStep, FileStep

\* What is purged was done before now.
LEMMA PCleanStep ==
  ASSUME PInv, NEW n \in Node, Clean(n)
  PROVE  PStep(n)
<1> USE PParts, Parts, JobFileAssumption
<1>1. proc[n] = "idle" /\ UNCHANGED <<flk, proc, jf, pads>>
  BY DEF Clean, manVars
<1>2. PICK nm \in Listing("done") : nm.rt + Age < now /\ at' = Unlinked(nm)
  BY DEF Clean
<1>3. PICK l \in Inode : at[l] = nm /\ nm \in Name /\ nm.st = "done"
  BY <1>2 DEF Listing, FsTypeOK
<1>4. nm.rt < now
  BY <1>2, <1>3, JobManAssumption DEF Name, TypeOK
<1>5. at' = [at EXCEPT ![l] = NoName]
  <2>1. \A k \in Inode : at[k] = nm => k = l
    BY <1>3 DEF SingleState
  <2> QED
    BY <1>2, <1>3, <2>1 DEF Unlinked, FsTypeOK
<1>6. FilePurged(l)
  BY <1>1, <1>3, <1>4, <1>5 DEF FilePurged
<1>7. OwnStep(n)
  BY <1>1, SameInHand DEF Ending
<1> QED
  BY <1>3, <1>6, <1>7 DEF PStep, FileStep

\* A manager that dies lets go of all it had.
LEMMA PDieStep ==
  ASSUME PInv, NEW n \in Node, Die(n)
  PROVE  PStep(n)
<1> USE PParts, Parts
<1>1. /\ proc'[n] = "down" /\ pads'[n] = {} /\ jf'[n] = EmptyHand
      /\ AllLeft(n)
  BY GotoEffect DEF Die, TypeOK, AllLeft
<1> QED
  BY <1>1, NothingInHand DEF PStep, FileStep, Ending

\* So every step of a manager does one thing to one file, or lets go of all.
LEMMA PNodeStep ==
  ASSUME PInv, PromiseAssumption, NEW n \in Node, NodeStep(n)
  PROVE  PStep(n)
BY PListStep, PKidStep, POpenStep, PLockStep, PLoadStep, PRejectStep, PClaimStep, PLaunchStep,
   PWriteStep, PTryDoneStep, PRaiseStep, PMoveTiedStep, PCleanStep, PDieStep
DEF NodeStep, Work, PromiseAssumption, OneRunnerAssumption

-----------------------------------------------------------------------------
(* A job has one file, in every state *)

\* What a step of a manager may do to file k.
LEMMA FileChange ==
  ASSUME TypeOK, NEW n \in Node, FileStep(n), NEW k \in Inode
  PROVE  /\ at'[k] # NoName => at[k] # NoName /\ at'[k].id = at[k].id
         /\ at'[k] # at[k] =>
              /\ at[k] # NoName
              /\ DueEntry(k) \/ at[k].st = "run" \/ (at[k].st = "done" /\ at[k].rt < now)
              /\ at'[k] # NoName => at'[k].st \in {"pend", "run", "done"}
         /\ flk[k] = Nobody /\ flk'[k] # Nobody => (at[k] # NoName => at[k].st # "hold")
<1> USE JobFileAssumption
<1>1. CASE UNCHANGED <<at, flk>> \/ AllLeft(n)
  BY <1>1 DEF AllLeft, TypeOK, FsTypeOK
<1>2. ASSUME NEW l \in Inode, FileTaken(n, l) \/ FileLeft(n, l)
      PROVE  /\ at' = at
             /\ flk[k] = Nobody /\ flk'[k] # Nobody => (at[k] # NoName => at[k].st # "hold")
  BY <1>2 DEF FileTaken, FileLeft, LetGo, TypeOK, FsTypeOK
<1>3. ASSUME NEW l \in Inode,
             FileStarted(n, l) \/ FileRefused(n, l) \/ FileFinished(n, l) \/ FileRaised(l)
      PROVE  /\ \E new \in Name : new.st \in {"pend", "run", "done"} /\ Moved(l, new)
             /\ DueEntry(l) \/ at[l].st = "run"
             /\ flk[k] = Nobody => flk'[k] = Nobody
  BY <1>3 DEF FileStarted, FileRefused, FileFinished, FileRaised, LetGo, TypeOK, FsTypeOK
<1>4. ASSUME NEW l \in Inode, FilePurged(l)
      PROVE  /\ at'[k] = IF k = l THEN NoName ELSE at[k]
             /\ at[l] # NoName /\ at[l].st = "done" /\ at[l].rt < now
             /\ flk' = flk
  BY <1>4 DEF FilePurged, TypeOK, FsTypeOK
<1>5. ASSUME NEW l \in Inode, NEW new \in Name, Moved(l, new)
      PROVE  /\ at'[k] = IF k = l THEN new ELSE at[k]
             /\ at[l] # NoName /\ new.id = at[l].id /\ new # NoName
  BY <1>5 DEF Moved, TypeOK, FsTypeOK
<1> QED
  BY <1>1, <1>2, <1>3, <1>4, <1>5 DEF FileStep

\* So the parts of PInv that are not IInv's survive a manager's step.
LEMMA PManagerStep ==
  ASSUME PInv, PromiseAssumption, NEW n \in Node, NodeStep(n), IInv'
  PROVE  PInv'
<1> USE PParts, Parts, JobFileAssumption
<1>1. FileStep(n) /\ OwnStep(n) /\ Others(n)
  BY PNodeStep, OneNode DEF PStep
<1>2. now' = now
  BY DEF NodeStep, Work, Solicit, OpenPending, LockPending, LoadPending, RejectPending,
         ClaimPending, TruncateRun, WriteRun, LaunchJob, EndLoop, TryDone, TruncateEnd,
         WriteEnd, BringOutYerDead, OpenDead, RaiseDead, GroupHug, OpenTied, MoveTied,
         Terminate, Clean, KidExits, Die, Restart, envVars
<1>3. SingleState'
  BY <1>1, FileChange DEF SingleState
<1>4. NoTies'
  BY <1>1, FileChange DEF NoTies
<1>5. HoldFree'
  <2> SUFFICES ASSUME NEW k \in Inode, at'[k] # NoName, at'[k].st = "hold"
               PROVE  flk'[k] = Nobody /\ \A m \in Node : jf'[m].lock # k
    BY DEF HoldFree
  <2>1. at[k] = at'[k] /\ flk[k] = Nobody /\ flk'[k] = Nobody /\ \A m \in Node : jf[m].lock # k
    BY <1>1, FileChange DEF HoldFree
  <2>2. jf'[n].lock # k
    BY <1>1, <2>1 DEF OwnStep
  <2> QED
    BY <1>1, <2>1, <2>2 DEF Others
<1>6. ASSUME NEW m \in Node PROVE NoneRemote(m)' /\ EndingKept(m)'
  <2>1. CASE m = n
    BY <1>1, <2>1 DEF OwnStep
  <2>2. CASE m # n
    <3>1. proc'[m] = proc[m] /\ jf'[m] = jf[m] /\ pads'[m] = pads[m]
      BY <1>1, <2>2 DEF Others
    <3>2. ASSUME proc[m] \in Ending
          PROVE  /\ Resolves(jf[m].nm)'
                 /\ \/ jf[m].nm.st = "pend" /\ jf[m].nm.rt > now + MaxSkew
                    \/ jf[m].nm.st = "done" /\ jf[m].nm.rt = now
      <4>1. PICK i \in Inode : at[i] = jf[m].nm
        BY <3>2 DEF EndingKept, Resolves
      <4>2. jf[m].nm \in Name
        BY <3>2 DEF HandInUse
      <4>3. ~DueEntry(i) /\ at[i].st # "run" /\ ~(at[i].st = "done" /\ at[i].rt < now)
        BY <3>2, <4>1, <4>2, JobManAssumption DEF EndingKept, DueEntry, Name, TypeOK
      <4>4. at'[i] = at[i]
        BY <1>1, <4>3, FileChange
      <4> QED
        BY <3>1, <3>2, <4>1, <4>4 DEF EndingKept, Resolves
    <3>3. EndingKept(m)'
      BY <1>2, <3>1, <3>2 DEF EndingKept
    <3> QED
      BY <3>1, <3>3 DEF NoneRemote
  <2> QED
    BY <2>1, <2>2
<1> QED
  BY <1>3, <1>4, <1>5, <1>6 DEF PInv

\* What mkjob does, the entries apart, disturbs none of the managers' parts.
LEMMA PHandsKept ==
  ASSUME PInv, UNCHANGED manVars, now' = now, NEW n \in Node,
         \A i \in Inode : at[i] # NoName /\ at[i].st # "hold" => at'[i] = at[i]
  PROVE  NoneRemote(n)' /\ EndingKept(n)'
<1> USE PParts, Parts, JobFileAssumption
<1>1. UNCHANGED <<proc, jf, pads>>
  BY DEF manVars
<1>2. ASSUME proc[n] \in Ending PROVE Resolves(jf[n].nm)'
  <2>1. PICK i \in Inode : at[i] = jf[n].nm
    BY <1>2 DEF EndingKept, Resolves
  <2>2. jf[n].nm \in Name /\ jf[n].nm.st # "hold"
    BY <1>2 DEF HandInUse, EndingKept
  <2>3. at'[i] = at[i]
    BY <2>1, <2>2
  <2> QED
    BY <1>1, <2>1, <2>3 DEF Resolves
<1> QED
  BY <1>1, <1>2 DEF NoneRemote, EndingKept

\* A new job gets a free inode; none of its own is there.
LEMMA PCreateStep ==
  ASSUME PInv, NEW j \in Job, CreateJob(j), IInv'
  PROVE  /\ PInv'
         /\ \A k \in Inode : at[k] # NoName => at[k].id # j
         /\ \E i \in Inode, nm \in Name :
              nm.st = "hold" /\ nm.id = j /\ at[i] = NoName /\ flk[i] = Nobody
                /\ at' = [at EXCEPT ![i] = nm]
<1> USE JobFileAssumption
<1>0. TypeOK /\ FsTypeOK /\ EntriesSubmitted /\ SingleState /\ NoTies /\ HoldFree
  BY DEF PInv, IInv, TInv, TypeOK
<1>1. UNCHANGED <<flk, manVars>> /\ now' = now
  BY DEF CreateJob, envVars
<1>2. \A k \in Inode : at[k] # NoName => at[k].id # j /\ at[k].id \in Job
  BY <1>0 DEF EntriesSubmitted, CreateJob, FsTypeOK, Name
<1>3. PICK i \in Inode, t \in RunTimes :
        Free(i) /\ at' = [at EXCEPT ![i] = [st |-> "hold", rt |-> t, id |-> j]]
  BY DEF CreateJob
<1> DEFINE nm == [st |-> "hold", rt |-> t, id |-> j]
<1>4. nm \in Name /\ nm.st = "hold" /\ nm.id = j
  BY JobManAssumption DEF Name, State
<1>5. at' = [at EXCEPT ![i] = nm]
  BY <1>3
<1> HIDE DEF nm
<1>6. at'[i] = nm /\ nm # NoName /\ \A k \in Inode : k # i => at'[k] = at[k]
  BY <1>0, <1>4, <1>5 DEF FsTypeOK
<1>7. at[i] = NoName /\ flk[i] = Nobody /\ \A n \in Node : jf[n].lock # i
  BY <1>3 DEF Free
<1>8. SingleState'
  BY <1>0, <1>2, <1>4, <1>6 DEF SingleState
<1>9. NoTies'
  BY <1>0, <1>4, <1>6 DEF NoTies
<1>10. HoldFree'
  <2>1. flk' = flk /\ jf' = jf
    BY <1>1 DEF manVars
  <2> QED
    BY <1>0, <1>6, <1>7, <2>1 DEF HoldFree
<1>11. \A n \in Node : NoneRemote(n)' /\ EndingKept(n)'
  BY <1>1, <1>6, <1>7, PHandsKept
<1> QED
  BY <1>2, <1>4, <1>5, <1>7, <1>8, <1>9, <1>10, <1>11 DEF PInv

\* It is filled, released or given up: what is in hold goes to pend, or away.
HoldMoved(j) ==
  \E l \in Inode :
    /\ at[l] # NoName /\ at[l].st = "hold" /\ at[l].id = j
    /\ \/ \E new \in Name : new.st = "pend" /\ Moved(l, new)
       \/ at' = [at EXCEPT ![l] = NoName]

LEMMA PSubmitStep ==
  ASSUME PInv, NEW j \in Job, FillJob(j) \/ ReleaseJob(j) \/ AbortJob(j), IInv'
  PROVE  PInv' /\ (UNCHANGED at \/ HoldMoved(j))
<1> USE JobFileAssumption
<1>0. TypeOK /\ FsTypeOK /\ UniqueActive /\ SingleState /\ NoTies /\ HoldFree
  BY DEF PInv, IInv, TInv, TypeOK
<1>1. UNCHANGED <<flk, manVars>> /\ now' = now
  BY DEF FillJob, ReleaseJob, AbortJob, envVars
<1>2. UNCHANGED at \/ HoldMoved(j)
  <2>1. ASSUME NEW nm \in Listing("hold"), nm.id = j
        PROVE  \E l \in Inode :
                 /\ at[l] = nm /\ nm \in Name /\ nm.st = "hold" /\ at[l] # NoName
                 /\ Unlinked(nm) = [at EXCEPT ![l] = NoName]
    <3>1. PICK l \in Inode : at[l] = nm /\ nm \in Name /\ nm.st = "hold" /\ at[l] # NoName
      BY <1>0 DEF Listing, FsTypeOK
    <3>2. \A k \in Inode : at[k] = nm => k = l
      BY <1>0, <3>1 DEF SingleState
    <3>3. Unlinked(nm) = [at EXCEPT ![l] = NoName]
      BY <1>0, <3>1, <3>2 DEF Unlinked, FsTypeOK
    <3> QED
      BY <3>1, <3>3
  <2>2. ASSUME NEW nm \in Listing("hold"), nm.id = j, at' = Unlinked(nm)
        PROVE  HoldMoved(j)
    BY <2>1, <2>2 DEF HoldMoved
  <2>3. ASSUME NEW nm \in Listing("hold"), nm.id = j, at' = Renamed(nm, In("pend", nm))
        PROVE  HoldMoved(j)
    <3>1. PICK l \in Inode : at[l] = nm /\ nm \in Name /\ nm.st = "hold" /\ at[l] # NoName
      BY <2>1, <2>3
    <3> DEFINE new == In("pend", nm)
    <3>2. new \in Name /\ new.id = at[l].id /\ new.st = "pend"
      BY <3>1, MovedNameType DEF State
    <3>3. Active(l) /\ at' = Renamed(at[l], new)
      BY <2>3, <3>1 DEF Active
    <3> HIDE DEF new
    <3>4. at' = [at EXCEPT ![l] = new]
      BY <1>0, <3>2, <3>3, RenamedOne
    <3> QED
      BY <2>3, <3>1, <3>2, <3>4 DEF HoldMoved, Moved
  <2> QED
    BY <2>2, <2>3 DEF FillJob, ReleaseJob, AbortJob
<1>3. \A k \in Inode :
        \/ at'[k] = at[k]
        \/ /\ at[k] # NoName /\ at[k].st = "hold"
           /\ at'[k] # NoName => at'[k].st = "pend" /\ at'[k].id = at[k].id
  BY <1>0, <1>2 DEF HoldMoved, Moved, FsTypeOK
<1>4. SingleState'
  BY <1>0, <1>3 DEF SingleState
<1>5. NoTies'
  BY <1>0, <1>3 DEF NoTies
<1>6. HoldFree'
  BY <1>0, <1>1, <1>3 DEF HoldFree, manVars
<1>7. \A n \in Node : NoneRemote(n)' /\ EndingKept(n)'
  BY <1>1, <1>3, PHandsKept
<1> QED
  BY <1>2, <1>4, <1>5, <1>6, <1>7 DEF PInv

\* The clock moves only when no store that follows its rename is going on.
LEMMA PTickStep ==
  ASSUME PInv, PromptStore, Tick, IInv'
  PROVE  PInv'
<1>1. UNCHANGED <<at, flk, proc, jf, pads>> /\ \A n \in Node : proc[n] \notin Ending
  BY DEF Tick, fsVars, manVars, Ending
<1> QED
  BY <1>1 DEF PInv, SingleState, NoTies, HoldFree, NoneRemote, EndingKept

LEMMA PQuietStep ==
  ASSUME PInv, UNCHANGED <<at, flk, proc, jf, pads, now>>, IInv'
  PROVE  PInv'
BY DEF PInv, SingleState, NoTies, HoldFree, NoneRemote, EndingKept, Resolves

LEMMA PInvStep ==
  ASSUME PInv, PromiseAssumption, [Next]_vars
  PROVE  PInv'
<1>1. IInv'
  BY InvStep DEF PInv, PromiseAssumption
<1>2. CASE \E n \in Node : NodeStep(n)
  BY <1>1, <1>2, PManagerStep
<1>3. CASE \E j \in Job : Submit(j)
  BY <1>1, <1>3, PCreateStep, PSubmitStep DEF Submit
<1>4. CASE Tick
  BY <1>1, <1>4, PTickStep DEF PromiseAssumption, OneRunnerAssumption
<1>5. CASE UNCHANGED vars \/ \E j \in Job : OrphanExits(j) \/ KillOrder(j)
  BY <1>1, <1>5, PQuietStep DEF vars, OrphanExits, KillOrder, fsVars, manVars
<1> QED
  BY <1>2, <1>3, <1>4, <1>5 DEF Next, NodeStep

LEMMA PInvInit == Init => PInv
<1> SUFFICES ASSUME Init PROVE PInv
  OBVIOUS
<1>1. SingleState /\ NoTies /\ HoldFree
  BY DEF Init, FsInit, SingleState, NoTies, HoldFree
<1>2. \A n \in Node : NoneRemote(n) /\ EndingKept(n)
  BY DEF Init, NoneRemote, EndingKept, Ending
<1> QED
  BY <1>1, <1>2, InvInit DEF PInv

\* A job is never in two states at once: a move is one rename, and no store
\* brings back a file that was moved or purged in the meantime.
THEOREM SingleStateSafe == PromiseAssumption => (Spec => []SingleState)
<1> SUFFICES ASSUME PromiseAssumption PROVE Spec => []SingleState
  OBVIOUS
<1>1. PInv /\ [Next]_vars => PInv'
  BY PInvStep
<1>2. PInv => SingleState
  BY DEF PInv
<1> QED
  BY PInvInit, <1>1, <1>2, PTL DEF Spec

-----------------------------------------------------------------------------
(* The steps, as JobQueue sees them *)

\* Place and holder of a job with a file are those of the file.
Mapped ==
  /\ placeOf = [j \in Job |-> placeOf[j]]
  /\ holderOf = [j \in Job |-> holderOf[j]]
  /\ \A i \in Inode :
       at[i] # NoName =>
         /\ at[i].id \in Job
         /\ placeOf[at[i].id] = at[i].st
         /\ holderOf[at[i].id] = flk[i]
  /\ \A j \in Job :
       (\A i \in Inode : at[i] # NoName => at[i].id # j) =>
         /\ placeOf[j] = IF sub[j] = "none" THEN "new" ELSE "gone"
         /\ holderOf[j] = Nobody

LEMMA Mapping == PInv => Mapped
<1> SUFFICES ASSUME PInv PROVE Mapped
  OBVIOUS
<1>0. SingleState /\ FsTypeOK
  BY DEF PInv, IInv, TInv, TypeOK
<1>1. /\ placeOf = [j \in Job |-> placeOf[j]]
      /\ holderOf = [j \in Job |-> holderOf[j]]
  BY DEF placeOf, holderOf
<1>2. ASSUME NEW i \in Inode, at[i] # NoName
      PROVE  /\ at[i].id \in Job
             /\ placeOf[at[i].id] = at[i].st
             /\ holderOf[at[i].id] = flk[i]
  <2> DEFINE j == at[i].id
  <2>1. j \in Job
    BY <1>0, <1>2 DEF FsTypeOK, Name
  <2>2. FileOf(j) = {i}
    BY <1>0, <1>2 DEF FileOf, SingleState
  <2>3. (CHOOSE k \in FileOf(j) : TRUE) = i /\ FileOf(j) # {}
    BY <2>2
  <2> HIDE DEF j
  <2>4. placeOf[j] = at[i].st /\ holderOf[j] = flk[i]
    BY <2>1, <2>3 DEF placeOf, holderOf
  <2> QED
    BY <2>1, <2>4 DEF j
<1>3. ASSUME NEW j \in Job, \A i \in Inode : at[i] # NoName => at[i].id # j
      PROVE  /\ placeOf[j] = IF sub[j] = "none" THEN "new" ELSE "gone"
             /\ holderOf[j] = Nobody
  <2>1. FileOf(j) = {}
    BY <1>3 DEF FileOf
  <2> QED
    BY <2>1 DEF placeOf, holderOf
<1> QED
  BY <1>1, <1>2, <1>3 DEF Mapped

LEMMA MappingNext == PInv' => Mapped'
BY Mapping, PTL

LEMMA ExceptOne ==
  ASSUME NEW S, NEW f, NEW g, f = [i \in S |-> f[i]], g = [i \in S |-> g[i]],
         NEW j \in S, \A i \in S : i # j => g[i] = f[i]
  PROVE  g = [f EXCEPT ![j] = g[j]]
OBVIOUS

LEMMA ExceptSame ==
  ASSUME NEW S, NEW f, f = [i \in S |-> f[i]], NEW j
  PROVE  f = [f EXCEPT ![j] = f[j]]
OBVIOUS

\* What a step that concerns one file, or none, does to places and holders.
Submitted == \A j \in Job : sub'[j] = "none" <=> sub[j] = "none"

LEMMA QuietMapped ==
  ASSUME PInv, PInv', UNCHANGED at, Submitted,
         \A k \in Inode : flk'[k] = flk[k] \/ at[k] = NoName
  PROVE  UNCHANGED <<placeOf, holderOf>>
<1>1. Mapped /\ Mapped'
  BY Mapping, MappingNext
<1>2. ASSUME NEW j \in Job
      PROVE  placeOf'[j] = placeOf[j] /\ holderOf'[j] = holderOf[j]
  <2>1. CASE \E i \in Inode : at[i] # NoName /\ at[i].id = j
    BY <1>1, <2>1 DEF Mapped
  <2>2. CASE \A i \in Inode : at[i] # NoName => at[i].id # j
    BY <1>1, <2>2 DEF Mapped, Submitted
  <2> QED
    BY <2>1, <2>2
<1> QED
  BY <1>1, <1>2 DEF Mapped

LEMMA MovedMapped ==
  ASSUME PInv, PInv', Submitted, NEW l \in Inode, at[l] # NoName, NEW j, j = at[l].id,
         \A k \in Inode : k # l => at'[k] = at[k],
         \A k \in Inode : k # l => flk'[k] = flk[k] \/ at[k] = NoName,
         at'[l] # NoName => at'[l].id = j
  PROVE  /\ j \in Job /\ placeOf[j] = at[l].st /\ holderOf[j] = flk[l]
         /\ placeOf' = [placeOf EXCEPT ![j] = IF at'[l] = NoName THEN "gone" ELSE at'[l].st]
         /\ holderOf' = [holderOf EXCEPT ![j] = IF at'[l] = NoName THEN Nobody ELSE flk'[l]]
<1>1. Mapped /\ Mapped'
  BY Mapping, MappingNext
<1>2. SingleState /\ EntriesSubmitted
  BY DEF PInv, IInv
<1>3. j \in Job /\ placeOf[j] = at[l].st /\ holderOf[j] = flk[l] /\ sub[j] # "none"
  BY <1>1, <1>2 DEF Mapped, EntriesSubmitted
<1>4. /\ placeOf'[j] = IF at'[l] = NoName THEN "gone" ELSE at'[l].st
      /\ holderOf'[j] = IF at'[l] = NoName THEN Nobody ELSE flk'[l]
  <2>1. CASE at'[l] # NoName
    BY <1>1, <2>1 DEF Mapped
  <2>2. CASE at'[l] = NoName
    <3>1. \A k \in Inode : at'[k] # NoName => at'[k].id # j
      BY <1>2, <2>2 DEF SingleState
    <3>2. sub'[j] # "none"
      BY <1>3 DEF Submitted
    <3> QED
      BY <1>1, <1>3, <2>2, <3>1, <3>2 DEF Mapped
  <2> QED
    BY <2>1, <2>2
<1>5. ASSUME NEW i \in Job, i # j
      PROVE  placeOf'[i] = placeOf[i] /\ holderOf'[i] = holderOf[i]
  <2>1. CASE \E k \in Inode : at[k] # NoName /\ at[k].id = i
    <3>1. PICK k \in Inode : at[k] # NoName /\ at[k].id = i
      BY <2>1
    <3>2. k # l
      BY <1>5, <3>1
    <3>3. at'[k] = at[k] /\ flk'[k] = flk[k] /\ at'[k] # NoName /\ at'[k].id = i
      BY <3>1, <3>2
    <3>4. placeOf[i] = at[k].st /\ holderOf[i] = flk[k]
      BY <1>1, <3>1 DEF Mapped
    <3>5. placeOf'[i] = at'[k].st /\ holderOf'[i] = flk'[k]
      BY <1>1, <3>3 DEF Mapped
    <3> QED
      BY <3>3, <3>4, <3>5
  <2>2. CASE \A k \in Inode : at[k] # NoName => at[k].id # i
    <3>1. \A k \in Inode : at'[k] # NoName => at'[k].id # i
      BY <1>5, <2>2
    <3> QED
      BY <1>1, <2>2, <3>1 DEF Mapped, Submitted
  <2> QED
    BY <2>1, <2>2
<1>6. /\ placeOf = [i \in Job |-> placeOf[i]] /\ placeOf' = [i \in Job |-> placeOf'[i]]
      /\ holderOf = [i \in Job |-> holderOf[i]] /\ holderOf' = [i \in Job |-> holderOf'[i]]
  BY <1>1 DEF Mapped
<1>7. /\ placeOf' = [placeOf EXCEPT ![j] = placeOf'[j]]
      /\ holderOf' = [holderOf EXCEPT ![j] = holderOf'[j]]
  BY <1>3, <1>5, <1>6, ExceptOne
<1> QED
  BY <1>3, <1>4, <1>7

\* One file is taken, left, moved or purged: so is its job.
LEMMA OneFileMapped ==
  ASSUME PInv, PInv', Submitted, NEW n \in Node, NEW l \in Inode,
         \/ FileTaken(n, l) \/ FileLeft(n, l) \/ FileStarted(n, l) \/ FileRefused(n, l)
         \/ FileFinished(n, l) \/ FileRaised(l) \/ FilePurged(l)
  PROVE  JQ!QNext \/ UNCHANGED <<placeOf, holderOf>>
<1>0. FsTypeOK /\ JobFileAssumption
  BY JobFileAssumption DEF PInv, IInv, TInv, TypeOK
<1>1. CASE at[l] = NoName
  <2>1. UNCHANGED at /\ \A k \in Inode : flk'[k] = flk[k] \/ at[k] = NoName
    BY <1>0, <1>1 DEF FileTaken, FileLeft, FileStarted, FileRefused, FileFinished, FileRaised,
                      FilePurged, Moved, LetGo, FsTypeOK
  <2> QED
    BY <2>1, QuietMapped
<1>2. CASE at[l] # NoName
  <2> DEFINE j == at[l].id
  <2>1. /\ \A k \in Inode : k # l => at'[k] = at[k] /\ flk'[k] = flk[k]
        /\ at'[l] # NoName => at'[l].id = j
    BY <1>0, <1>2 DEF FileTaken, FileLeft, FileStarted, FileRefused, FileFinished, FileRaised,
                      FilePurged, Moved, LetGo, FsTypeOK
  <2> HIDE DEF j
  <2>2. j = at[l].id
    BY DEF j
  <2>3. /\ j \in Job /\ placeOf[j] = at[l].st /\ holderOf[j] = flk[l]
        /\ placeOf' = [placeOf EXCEPT ![j] = IF at'[l] = NoName THEN "gone" ELSE at'[l].st]
        /\ holderOf' = [holderOf EXCEPT ![j] = IF at'[l] = NoName THEN Nobody ELSE flk'[l]]
    BY <1>2, <2>1, <2>2, MovedMapped
  <2>4. /\ placeOf = [placeOf EXCEPT ![j] = placeOf[j]]
        /\ holderOf = [holderOf EXCEPT ![j] = holderOf[j]]
        /\ at[l].st \in State
    <3>1. at[l].st \in State
      BY <1>0, <1>2 DEF FsTypeOK, Name
    <3>2. /\ placeOf = [i \in Job |-> placeOf[i]]
          /\ holderOf = [i \in Job |-> holderOf[i]]
      BY Mapping DEF Mapped
    <3>3. placeOf = [placeOf EXCEPT ![j] = placeOf[j]]
      BY <3>2, ExceptSame
    <3>4. holderOf = [holderOf EXCEPT ![j] = holderOf[j]]
      BY <3>2, ExceptSame
    <3> QED
      BY <3>1, <3>3, <3>4
  <2>5. CASE FileTaken(n, l)
    <3>1. flk[l] = Nobody /\ at'[l] = at[l] /\ flk'[l] = n
      BY <1>0, <2>5 DEF FileTaken, FsTypeOK
    <3>2. JQ!Take(n, j)
      BY <1>2, <2>3, <2>4, <3>1 DEF JQ!Take, State
    <3> QED
      BY <2>3, <3>2 DEF JQ!QNext
  <2>6. CASE FileLeft(n, l)
    <3>1. flk[l] = n /\ at'[l] = at[l] /\ flk'[l] = Nobody
      BY <1>0, <2>6 DEF FileLeft, LetGo, FsTypeOK
    <3>2. JQ!Leave(n, j)
      BY <1>2, <2>3, <2>4, <3>1 DEF JQ!Leave, JQ!LetsGo
    <3> QED
      BY <2>3, <3>2 DEF JQ!QNext
  <2>7. CASE FileStarted(n, l)
    <3>1. /\ flk[l] = n /\ flk'[l] = flk[l]
          /\ at[l].st = "pend" /\ at'[l] # NoName /\ at'[l].st = "run"
      BY <1>0, <2>7 DEF FileStarted, DueEntry, Moved, FsTypeOK
    <3>2. JQ!Start(n, j)
      BY <2>3, <2>4, <3>1 DEF JQ!Start, JQ!Moves
    <3> QED
      BY <2>3, <3>2 DEF JQ!QNext
  <2>8. CASE FileRefused(n, l)
    <3>1. /\ flk[l] = n /\ flk'[l] = Nobody
          /\ at[l].st = "pend" /\ at'[l] # NoName /\ at'[l].st = "done"
      BY <1>0, <2>8 DEF FileRefused, DueEntry, LetGo, Moved, FsTypeOK
    <3>2. JQ!Refuse(n, j)
      BY <2>3, <3>1 DEF JQ!Refuse, JQ!Moves, JQ!LetsGo
    <3> QED
      BY <2>3, <3>2 DEF JQ!QNext
  <2>9. CASE FileFinished(n, l)
    <3>1. /\ flk[l] = n /\ flk'[l] = Nobody
          /\ at[l].st = "run" /\ at'[l] # NoName /\ at'[l].st \in {"pend", "done"}
      BY <1>0, <2>9 DEF FileFinished, LetGo, Moved, FsTypeOK
    <3>2. JQ!Finish(n, j)
      BY <2>3, <3>1 DEF JQ!Finish, JQ!Moves, JQ!LetsGo
    <3> QED
      BY <2>3, <3>2 DEF JQ!QNext
  <2>10. CASE FileRaised(l)
    <3>1. /\ flk[l] = Nobody /\ flk'[l] = flk[l]
          /\ at[l].st = "run" /\ at'[l] # NoName /\ at'[l].st = "pend"
      BY <1>0, <2>10 DEF FileRaised, Moved, FsTypeOK
    <3>2. JQ!Resurrect(j)
      BY <2>3, <2>4, <3>1 DEF JQ!Resurrect, JQ!Moves
    <3> QED
      BY <2>3, <3>2 DEF JQ!QNext
  <2>11. CASE FilePurged(l)
    <3>1. at[l].st = "done" /\ at'[l] = NoName
      BY <1>0, <2>11 DEF FilePurged, FsTypeOK
    <3>2. JQ!Purge(j)
      BY <2>3, <3>1 DEF JQ!Purge, JQ!Moves, JQ!LetsGo
    <3> QED
      BY <2>3, <3>2 DEF JQ!QNext
  <2> QED
    BY <2>5, <2>6, <2>7, <2>8, <2>9, <2>10, <2>11
<1> QED
  BY <1>1, <1>2

\* A manager dies: every job it had is let go.
LEMMA AllLeftMapped ==
  ASSUME PInv, PInv', Submitted, NEW n \in Node, AllLeft(n)
  PROVE  JQ!QNext
<1> USE JobFileAssumption
<1>0. FsTypeOK /\ Mapped /\ Mapped'
  BY Mapping, MappingNext DEF PInv, IInv, TInv, TypeOK
<1>1. ASSUME NEW j \in Job
      PROVE  /\ placeOf'[j] = placeOf[j]
             /\ holderOf'[j] = IF holderOf[j] = n THEN Nobody ELSE holderOf[j]
  <2>1. CASE \E k \in Inode : at[k] # NoName /\ at[k].id = j
    <3>1. PICK k \in Inode : at[k] # NoName /\ at[k].id = j
      BY <2>1
    <3>2. /\ at'[k] = at[k] /\ at'[k] # NoName /\ at'[k].id = j
          /\ flk'[k] = IF flk[k] = n THEN Nobody ELSE flk[k]
      BY <3>1 DEF AllLeft
    <3>3. placeOf[j] = at[k].st /\ holderOf[j] = flk[k]
      BY <1>0, <3>1 DEF Mapped
    <3>4. placeOf'[j] = at'[k].st /\ holderOf'[j] = flk'[k]
      BY <1>0, <3>2 DEF Mapped
    <3> QED
      BY <3>2, <3>3, <3>4
  <2>2. CASE \A k \in Inode : at[k] # NoName => at[k].id # j
    BY <1>0, <2>2 DEF Mapped, Submitted, AllLeft
  <2> QED
    BY <2>1, <2>2
<1>2. /\ placeOf = [j \in Job |-> placeOf[j]] /\ placeOf' = [j \in Job |-> placeOf'[j]]
      /\ holderOf' = [j \in Job |-> holderOf'[j]]
  BY <1>0 DEF Mapped
<1>3. placeOf' = placeOf
  BY <1>1, <1>2
<1>4. holderOf' = [j \in Job |-> IF holderOf[j] = n THEN Nobody ELSE holderOf[j]]
  BY <1>1, <1>2
<1>5. JQ!Die(n)
  BY <1>3, <1>4 DEF JQ!Die
<1> QED
  BY <1>5 DEF JQ!QNext

\* A new job is submitted.
LEMMA CreateMapped ==
  ASSUME PInv, NEW j \in Job, CreateJob(j), IInv'
  PROVE  JQ!QNext
<1> USE JobFileAssumption
<1>1. PInv' /\ \A k \in Inode : at[k] # NoName => at[k].id # j
  BY PCreateStep
<1>2. PICK i \in Inode, nm \in Name :
        nm.st = "hold" /\ nm.id = j /\ at[i] = NoName /\ flk[i] = Nobody
          /\ at' = [at EXCEPT ![i] = nm]
  BY PCreateStep
<1>3. FsTypeOK /\ Mapped /\ Mapped'
  BY <1>1, Mapping, MappingNext DEF PInv, IInv, TInv, TypeOK
<1>4. /\ sub[j] = "none" /\ flk' = flk
      /\ \A k \in Job : k # j => sub'[k] = sub[k]
  BY DEF CreateJob, PInv, IInv, TInv, TypeOK
<1>5. at'[i] = nm /\ nm # NoName /\ \A k \in Inode : k # i => at'[k] = at[k]
  BY <1>2, <1>3 DEF FsTypeOK
<1>6. placeOf[j] = "new" /\ holderOf[j] = Nobody
  BY <1>1, <1>3, <1>4 DEF Mapped
<1>7. placeOf'[j] = "hold" /\ holderOf'[j] = Nobody
  BY <1>2, <1>3, <1>4, <1>5 DEF Mapped
<1>8. ASSUME NEW m \in Job, m # j
      PROVE  placeOf'[m] = placeOf[m] /\ holderOf'[m] = holderOf[m]
  <2>1. CASE \E k \in Inode : at[k] # NoName /\ at[k].id = m
    <3>1. PICK k \in Inode : at[k] # NoName /\ at[k].id = m
      BY <2>1
    <3>2. at'[k] = at[k] /\ flk'[k] = flk[k] /\ at'[k] # NoName /\ at'[k].id = m
      BY <1>2, <1>4, <1>5, <3>1
    <3>3. placeOf[m] = at[k].st /\ holderOf[m] = flk[k]
      BY <1>3, <3>1 DEF Mapped
    <3>4. placeOf'[m] = at'[k].st /\ holderOf'[m] = flk'[k]
      BY <1>3, <3>2 DEF Mapped
    <3> QED
      BY <3>2, <3>3, <3>4
  <2>2. CASE \A k \in Inode : at[k] # NoName => at[k].id # m
    <3>1. \A k \in Inode : at'[k] # NoName => at'[k].id # m
      BY <1>2, <1>5, <1>8, <2>2
    <3>2. sub'[m] = sub[m]
      BY <1>4, <1>8
    <3> QED
      BY <1>3, <2>2, <3>1, <3>2 DEF Mapped
  <2> QED
    BY <2>1, <2>2
<1>9. /\ placeOf = [k \in Job |-> placeOf[k]] /\ placeOf' = [k \in Job |-> placeOf'[k]]
      /\ holderOf = [k \in Job |-> holderOf[k]] /\ holderOf' = [k \in Job |-> holderOf'[k]]
  BY <1>3 DEF Mapped
<1>10. placeOf' = [placeOf EXCEPT ![j] = "hold"]
  BY <1>7, <1>8, <1>9, ExceptOne
<1>11. \A k \in Job : holderOf'[k] = holderOf[k]
  BY <1>6, <1>7, <1>8
<1>12. holderOf' = holderOf
  BY <1>9, <1>11
<1>13. JQ!Submit(j)
  BY <1>6, <1>10, <1>12 DEF JQ!Submit, JQ!Moves
<1> QED
  BY <1>13 DEF JQ!QNext

\* It goes from hold to pend, or it is withdrawn.
LEMMA HoldMovedMapped ==
  ASSUME PInv, PInv', Submitted, UNCHANGED flk, NEW j \in Job, HoldMoved(j)
  PROVE  JQ!QNext
<1> USE JobFileAssumption
<1>0. FsTypeOK /\ HoldFree
  BY DEF PInv, IInv, TInv, TypeOK
<1>1. PICK l \in Inode :
        /\ at[l] # NoName /\ at[l].st = "hold" /\ at[l].id = j
        /\ \/ \E new \in Name : new.st = "pend" /\ Moved(l, new)
           \/ at' = [at EXCEPT ![l] = NoName]
  BY DEF HoldMoved
<1>2. /\ \A k \in Inode : k # l => at'[k] = at[k] /\ flk'[k] = flk[k]
      /\ at'[l] # NoName => at'[l].id = j /\ at'[l].st = "pend"
      /\ flk[l] = Nobody /\ flk'[l] = Nobody
  BY <1>0, <1>1 DEF Moved, FsTypeOK, HoldFree
<1>3. /\ placeOf[j] = "hold" /\ holderOf[j] = Nobody
      /\ placeOf' = [placeOf EXCEPT ![j] = IF at'[l] = NoName THEN "gone" ELSE at'[l].st]
      /\ holderOf' = [holderOf EXCEPT ![j] = IF at'[l] = NoName THEN Nobody ELSE flk'[l]]
  BY <1>1, <1>2, MovedMapped
<1>4. holderOf = [holderOf EXCEPT ![j] = holderOf[j]]
  <2>1. holderOf = [i \in Job |-> holderOf[i]]
    BY Mapping DEF Mapped
  <2> QED
    BY <2>1, ExceptSame
<1>5. holderOf' = holderOf
  BY <1>2, <1>3, <1>4
<1>6. CASE at'[l] = NoName
  <2>1. JQ!Withdraw(j)
    BY <1>3, <1>5, <1>6 DEF JQ!Withdraw, JQ!Moves
  <2> QED
    BY <2>1 DEF JQ!QNext
<1>7. CASE at'[l] # NoName
  <2>1. JQ!Enqueue(j)
    BY <1>2, <1>3, <1>5, <1>7 DEF JQ!Enqueue, JQ!Moves
  <2> QED
    BY <2>1 DEF JQ!QNext
<1> QED
  BY <1>6, <1>7

\* So every step of JobMan is a step of JobQueue, or none.
LEMMA PromiseStep ==
  ASSUME PInv, PInv', PromiseAssumption, [Next]_vars
  PROVE  JQ!QNext \/ UNCHANGED <<placeOf, holderOf>>
<1>1. CASE \E n \in Node : NodeStep(n)
  <2>1. PICK n \in Node : NodeStep(n)
    BY <1>1
  <2>2. FileStep(n)
    BY <2>1, PNodeStep DEF PStep
  <2>3. Submitted
    <3>1. sub' = sub
      BY <2>1 DEF NodeStep, Work, Solicit, OpenPending, LockPending, LoadPending, RejectPending,
         ClaimPending, TruncateRun, WriteRun, LaunchJob, EndLoop, TryDone, TruncateEnd,
         WriteEnd, BringOutYerDead, OpenDead, RaiseDead, GroupHug, OpenTied, MoveTied,
         Terminate, Clean, KidExits, Die, Restart
    <3> QED
      BY <3>1 DEF Submitted
  <2> QED
    BY <2>2, <2>3, QuietMapped, OneFileMapped, AllLeftMapped DEF FileStep
<1>2. ASSUME NEW j \in Job, CreateJob(j)
      PROVE  JQ!QNext
  BY <1>2, CreateMapped DEF PInv
<1>3. ASSUME NEW j \in Job, FillJob(j) \/ ReleaseJob(j) \/ AbortJob(j)
      PROVE  JQ!QNext \/ UNCHANGED <<placeOf, holderOf>>
  <2>1. UNCHANGED flk /\ Submitted
    BY <1>3 DEF FillJob, ReleaseJob, AbortJob, Submitted, PInv, IInv, TInv, TypeOK
  <2>2. UNCHANGED at \/ HoldMoved(j)
    BY <1>3, PSubmitStep DEF PInv
  <2> QED
    BY <2>1, <2>2, QuietMapped, HoldMovedMapped
<1>4. CASE UNCHANGED vars \/ Tick \/ \E j \in Job : OrphanExits(j) \/ KillOrder(j)
  <2>1. UNCHANGED <<at, flk, sub>>
    BY <1>4 DEF vars, Tick, OrphanExits, KillOrder, fsVars
  <2> QED
    BY <2>1, QuietMapped DEF Submitted
<1> QED
  BY <1>1, <1>2, <1>3, <1>4 DEF Next, NodeStep, Submit

LEMMA PromiseInit == Init => JQ!QInit
<1> SUFFICES ASSUME Init PROVE JQ!QInit
  OBVIOUS
<1>1. \A j \in Job : placeOf[j] = "new" /\ holderOf[j] = Nobody
  <2>1. Mapped
    BY PInvInit, Mapping
  <2> QED
    BY <2>1 DEF Mapped, Init, FsInit
<1>2. placeOf = [j \in Job |-> placeOf[j]] /\ holderOf = [j \in Job |-> holderOf[j]]
  BY PInvInit, Mapping DEF Mapped
<1> QED
  BY <1>1, <1>2 DEF JQ!QInit

\* For any number of nodes and jobs, however often managers die in the middle of
\* anything and are restarted: a job is moved along the documented states, by
\* the manager that holds it or, once that has let go, by one other.
THEOREM PromiseKept == PromiseAssumption => (Spec => KeepsPromise)
<1> SUFFICES ASSUME PromiseAssumption PROVE Spec => KeepsPromise
  OBVIOUS
<1>1. PInv /\ [Next]_vars => PInv'
  BY PInvStep
<1>2. PInv /\ PInv' /\ [Next]_vars => [JQ!QNext]_(JQ!qVars)
  BY PromiseStep DEF JQ!qVars
<1> QED
  BY PInvInit, PromiseInit, <1>1, <1>2, PTL DEF Spec, KeepsPromise, JQ!QSpec

-----------------------------------------------------------------------------
(* The states of the man page *)

\* Every change of an entry is along an edge.
LEMMA AlongEdges ==
  ASSUME PInv, PromiseAssumption, [Next]_vars,
         NEW i \in Inode, at[i] # NoName, at'[i] # at[i]
  PROVE  \/ at'[i] = NoName /\ at[i].st \in {"hold", "done"}
         \/ /\ at'[i] # NoName
            /\ at'[i].id = at[i].id
            /\ <<at[i].st, at'[i].st>> \in Edges
<1> USE JobFileAssumption
<1>1. FsTypeOK /\ IInv'
  BY PInvStep DEF PInv, IInv, TInv, TypeOK
<1>2. ASSUME NEW l \in Inode, NEW new \in Name, Moved(l, new)
      PROVE  i = l /\ at'[i] = new /\ at'[i] # NoName /\ at'[i].id = at[i].id
  BY <1>1, <1>2 DEF Moved, FsTypeOK
<1>3. CASE \E n \in Node : NodeStep(n)
  <2>1. PICK n \in Node : FileStep(n)
    BY <1>3, PNodeStep DEF PStep
  <2>2. PICK l \in Inode :
          \/ FileStarted(n, l) \/ FileRefused(n, l) \/ FileFinished(n, l)
          \/ FileRaised(l) \/ FilePurged(l)
    BY <2>1 DEF FileStep, FileTaken, FileLeft, AllLeft
  <2>3. CASE FilePurged(l)
    BY <1>1, <2>3 DEF FilePurged, FsTypeOK
  <2>4. CASE FileStarted(n, l) \/ FileRefused(n, l) \/ FileFinished(n, l) \/ FileRaised(l)
    BY <1>2, <2>4 DEF FileStarted, FileRefused, FileFinished, FileRaised, DueEntry, Edges
  <2> QED
    BY <2>2, <2>3, <2>4
<1>4. CASE \E j \in Job : Submit(j)
  <2>1. PICK j \in Job : Submit(j)
    BY <1>4
  <2>2. CASE CreateJob(j)
    BY <1>1, <2>2 DEF CreateJob, Free, FsTypeOK
  <2>3. CASE FillJob(j)
    BY <2>3 DEF FillJob
  <2>4. CASE ReleaseJob(j) \/ AbortJob(j)
    <3>1. UNCHANGED at \/ HoldMoved(j)
      BY <1>1, <2>4, PSubmitStep
    <3>2. PICK l \in Inode :
            /\ at[l] # NoName /\ at[l].st = "hold"
            /\ \/ \E new \in Name : new.st = "pend" /\ Moved(l, new)
               \/ at' = [at EXCEPT ![l] = NoName]
      BY <3>1 DEF HoldMoved
    <3>3. CASE at' = [at EXCEPT ![l] = NoName]
      BY <1>1, <3>2, <3>3 DEF FsTypeOK
    <3> QED
      BY <1>2, <3>2, <3>3 DEF Edges
  <2> QED
    BY <2>1, <2>2, <2>3, <2>4 DEF Submit
<1>5. CASE Tick \/ UNCHANGED vars \/ \E j \in Job : OrphanExits(j) \/ KillOrder(j)
  BY <1>5 DEF Tick, vars, OrphanExits, KillOrder, fsVars
<1> QED
  BY <1>3, <1>4, <1>5 DEF Next, NodeStep

\* Under the same assumptions files move along the edges of the man page's diagram
\* only, and leave the queue only from hold (mkjob) or done (the housekeeper).
THEOREM StateEdgesSafe == PromiseAssumption => (Spec => StateEdges)
<1> SUFFICES ASSUME PromiseAssumption PROVE Spec => StateEdges
  OBVIOUS
<1>1. PInv /\ [Next]_vars => PInv'
  BY PInvStep
<1>2. PInv /\ [Next]_vars =>
        [\A i \in Inode :
           at[i] # NoName /\ at'[i] # at[i] =>
             \/ at'[i] = NoName /\ at[i].st \in {"hold", "done"}
             \/ /\ at'[i] # NoName
                /\ at'[i].id = at[i].id
                /\ <<at[i].st, at'[i].st>> \in Edges]_vars
  BY AlongEdges
<1> QED
  BY PInvInit, <1>1, <1>2, PTL DEF Spec, StateEdges

-----------------------------------------------------------------------------
(***************************************************************************)
(* What is in the files of jobs, through tries, retries and deaths: the    *)
(* sections of a file are in order (LogInOrder), if managers only end      *)
(* between two tasks nothing that was submitted is lost (CommandKept), and *)
(* if they do not end at all no job is tried too often (TryLimitKept).     *)
(*                                                                         *)
(* A manager writes a file from a copy that it loaded some steps before,   *)
(* so the invariants say of files and of copies in hand what a step that   *)
(* will write, rename or load them needs; that nobody else has written the *)
(* file in the meantime is IInv's part.                                    *)
(***************************************************************************)

InOrder(log) ==
  \A k \in 1..Len(log) :
    log[k] = [kind |-> IF k % 2 = 1 THEN "output" ELSE "result",
              try |-> (k + 1) \div 2]

\* The last try has no result yet
Trying(c) == c.log # <<>> /\ c.log[Len(c.log)].kind = "output"

\* What is claimed, launched or running has an unfinished try
TryInHand(n) ==
  /\ proc[n] \in {"claim", "truncRun", "writeRun"} => Trying(jf[n].mem)
  /\ proc[n] = "launch" => Trying(data[jf[n].lock])
  /\ \A p \in pads[n] : Trying(data[p.ino])

LogInv ==
  /\ \A i \in Inode : InOrder(data[i].log)
  /\ \A n \in Node : InOrder(jf[n].mem.log) /\ TryInHand(n)

-----------------------------------------------------------------------------
(* If nobody dies in the middle of a task *)

\* Managers end between two tasks (SIGTERM), if they do
KeptAssumption == OneRunnerAssumption /\ (Abrupt => MaxDeaths = 0)

\* ... and they do not: what is said of tries and owners only holds then
NoDeaths == MaxDeaths = 0

\* A text has its command
Commanded(c) == c.cmd

\* The steps in which a manager holds contents that it is about to write
Storing == {"claim", "truncRun", "writeRun"} \cup Ending

\* What is about to be written is whole, and not tried too often
StoreWhole(n) ==
  /\ proc[n] \notin {"writeRun", "writeEnd"} => jf[n].file = NoInode
  /\ proc[n] \in Storing => Commanded(jf[n].mem)
  /\ proc[n] \in Storing /\ NoDeaths => TryCount(jf[n].mem) <= TryLimit
  /\ proc[n] \in Ending /\ jf[n].nm.st = "pend" /\ NoDeaths => TryCount(jf[n].mem) < TryLimit
  /\ proc[n] = "launch" => Commanded(data[jf[n].lock])
  /\ \A p \in pads[n] : Commanded(data[p.ino])

\* What is in run is the file of a manager that has claimed or launched it
Held(n, i) ==
  /\ flk[i] = n
  /\ \/ proc[n] \in Claimed /\ jf[n].lock = i
     \/ \E p \in pads[n] : p.ino = i
Owned(i) == \E n \in Node : Held(n, i)

FileWhole(i) ==
  /\ NoDeaths => TryCount(data[i]) <= TryLimit
  /\ at[i] # NoName =>
       /\ at[i].st # "hold" /\ ~BeingWritten(i) => Commanded(data[i])
       /\ at[i].st = "hold" /\ sub[at[i].id] = "stored" => Commanded(data[i])
       /\ at[i].st \in {"hold", "pend"} /\ NoDeaths => TryCount(data[i]) < TryLimit
       /\ at[i].st = "run" /\ NoDeaths => Owned(i)

KInv ==
  /\ \A i \in Inode : FileWhole(i)
  /\ \A n \in Node : StoreWhole(n)

-----------------------------------------------------------------------------
(* Contents *)

\* What a section more does to a text.
LEMMA SectionAdded ==
  ASSUME NEW c \in Content, NEW kind \in {"output", "result"}, NEW try \in Nat
  PROVE  LET d == WithSection(c, kind, try) IN
         /\ d \in Content /\ d.cmd = c.cmd
         /\ Len(d.log) = Len(c.log) + 1 /\ Len(c.log) \in Nat
         /\ \A k \in 1..Len(c.log) : d.log[k] = c.log[k]
         /\ d.log[Len(c.log) + 1] = [kind |-> kind, try |-> try]
         /\ TryCount(d) = try
<1> DEFINE d == WithSection(c, kind, try)
<1>1. d = [c EXCEPT !.log = Append(@, [kind |-> kind, try |-> try])]
  BY DEF WithSection
<1>2. [kind |-> kind, try |-> try] \in Section
  BY DEF Section
<1>3. c.log \in Seq(Section) /\ d.log = Append(c.log, [kind |-> kind, try |-> try]) /\ d.cmd = c.cmd
  BY <1>1 DEF Content
<1>4. d \in Content
  BY WithSectionType
<1>5. /\ Len(d.log) = Len(c.log) + 1 /\ Len(c.log) \in Nat
      /\ \A k \in 1..Len(c.log) : d.log[k] = c.log[k]
      /\ d.log[Len(c.log) + 1] = [kind |-> kind, try |-> try]
  BY <1>2, <1>3
<1>6. d.log # <<>>
  BY <1>5
<1>7. TryCount(d) = try
  BY <1>5, <1>6 DEF TryCount
<1> QED
  BY <1>3, <1>4, <1>5, <1>7

\* Sections come in pairs.
LEMMA Halves ==
  ASSUME NEW n \in Nat
  PROVE  /\ n % 2 = 0 \/ n % 2 = 1
         /\ n % 2 = 1 => (n + 1) \div 2 = (n + 2) \div 2 /\ (n + 1) % 2 = 0
         /\ n % 2 = 0 => (n + 1) \div 2 + 1 = (n + 2) \div 2 /\ (n + 1) % 2 = 1
OBVIOUS

\* The last section of a text in order says how many tries there were.
LEMMA LastInOrder ==
  ASSUME NEW c \in Content, InOrder(c.log)
  PROVE  /\ Len(c.log) \in Nat
         /\ TryCount(c) = (Len(c.log) + 1) \div 2
         /\ Trying(c) <=> Len(c.log) % 2 = 1
<1> DEFINE n == Len(c.log)
<1>1. n \in Nat /\ (c.log = <<>> <=> n = 0)
  BY DEF Content
<1>2. CASE c.log = <<>>
  BY <1>1, <1>2 DEF TryCount, Trying
<1>3. CASE c.log # <<>>
  <2>1. n \in 1..n
    BY <1>1, <1>3
  <2>2. c.log[n] = [kind |-> IF n % 2 = 1 THEN "output" ELSE "result", try |-> (n + 1) \div 2]
    BY <2>1 DEF InOrder
  <2>3. /\ c.log[n].try = (n + 1) \div 2
        /\ c.log[n].kind = IF n % 2 = 1 THEN "output" ELSE "result"
    <3> DEFINE s == c.log[n]
    <3>1. s = [kind |-> IF n % 2 = 1 THEN "output" ELSE "result", try |-> (n + 1) \div 2]
      BY <2>2
    <3> HIDE DEF s, n
    <3> QED
      BY <3>1 DEF s
  <2>4. TryCount(c) = c.log[n].try /\ (Trying(c) <=> c.log[n].kind = "output")
    BY <1>3 DEF TryCount, Trying
  <2>5. TryCount(c) = (n + 1) \div 2
    BY <2>3, <2>4
  <2>6. Trying(c) <=> n % 2 = 1
    BY <2>3, <2>4
  <2> QED
    BY <1>1, <2>5, <2>6
<1> QED
  BY <1>2, <1>3

\* The right next section keeps a text in order.
LEMMA NextInOrder ==
  ASSUME NEW c \in Content, InOrder(c.log), NEW kind \in {"output", "result"}, NEW try \in Nat,
         IF Trying(c)
         THEN kind = "result" /\ try = TryCount(c)
         ELSE kind = "output" /\ try = TryCount(c) + 1
  PROVE  InOrder(WithSection(c, kind, try).log)
<1> DEFINE d == WithSection(c, kind, try)
           n == Len(c.log)
<1>1. /\ Len(d.log) = n + 1 /\ n \in Nat
      /\ \A k \in 1..n : d.log[k] = c.log[k]
      /\ d.log[n + 1] = [kind |-> kind, try |-> try]
  BY SectionAdded
<1>2. TryCount(c) = (n + 1) \div 2 /\ (Trying(c) <=> n % 2 = 1)
  BY LastInOrder
<1>3. \A k \in 1..n :
        c.log[k] = [kind |-> IF k % 2 = 1 THEN "output" ELSE "result",
                    try |-> (k + 1) \div 2]
  BY DEF InOrder
<1> HIDE DEF d, n
<1>4. try = (n + 2) \div 2 /\ (kind = "output" <=> (n + 1) % 2 = 1)
  <2>1. CASE n % 2 = 1
    <3>1. kind = "result" /\ try = (n + 1) \div 2
      BY <1>2, <2>1
    <3>2. (n + 1) % 2 = 0 /\ (n + 1) \div 2 = (n + 2) \div 2
      BY <1>1, <2>1, Halves
    <3> QED
      BY <3>1, <3>2
  <2>2. CASE n % 2 = 0
    <3>1. kind = "output" /\ try = (n + 1) \div 2 + 1
      BY <1>2, <2>2
    <3>2. (n + 1) % 2 = 1 /\ (n + 1) \div 2 + 1 = (n + 2) \div 2
      BY <1>1, <2>2, Halves
    <3> QED
      BY <3>1, <3>2
  <2> QED
    BY <1>1, <2>1, <2>2, Halves
<1>5. kind = IF (n + 1) % 2 = 1 THEN "output" ELSE "result"
  BY <1>4
<1>6. d.log[n + 1] = [kind |-> IF (n + 1) % 2 = 1 THEN "output" ELSE "result",
                      try |-> ((n + 1) + 1) \div 2]
  <2>1. (n + 1) + 1 = n + 2
    BY <1>1
  <2> QED
    BY <1>1, <1>4, <1>5, <2>1
<1>7. ASSUME NEW k \in 1..(n + 1)
      PROVE  d.log[k] = [kind |-> IF k % 2 = 1 THEN "output" ELSE "result",
                         try |-> (k + 1) \div 2]
  <2>1. CASE k \in 1..n
    BY <1>1, <1>3, <2>1
  <2>2. CASE k = n + 1
    BY <1>6, <2>2
  <2> QED
    BY <1>1, <2>1, <2>2
<1> QED
  BY <1>1, <1>7 DEF InOrder, d

\* try_done: the result of the try that is in hand.
LEMMA ResultInOrder ==
  ASSUME NEW c \in Content, InOrder(c.log), Trying(c)
  PROVE  InOrder(WithSection(c, "result", TryCount(c)).log)
BY LastInOrder, NextInOrder, TryCountType

\* run_a_job: the result that is missing, if one is, and the next try.
LEMMA NextTryInOrder ==
  ASSUME NEW c \in Content, InOrder(c.log)
  PROVE  /\ InOrder(WithNextTry(c).log) /\ Trying(WithNextTry(c))
         /\ WithNextTry(c).cmd = c.cmd
         /\ TryCount(WithNextTry(c)) = TryCount(c) + 1
<1> DEFINE r == WithMissingResult(c)
           t == TryCount(c)
<1>1. t \in Nat
  BY TryCountType
<1>2. /\ r \in Content /\ r.cmd = c.cmd /\ TryCount(r) = t
      /\ InOrder(r.log) /\ ~Trying(r)
  <2>1. CASE Trying(c)
    <3>1. r = WithSection(c, "result", t)
      BY <2>1 DEF WithMissingResult, Trying
    <3>2. /\ r \in Content /\ r.cmd = c.cmd /\ TryCount(r) = t
          /\ Len(r.log) = Len(c.log) + 1 /\ Len(c.log) \in Nat
          /\ r.log[Len(c.log) + 1] = [kind |-> "result", try |-> t]
      BY <1>1, <3>1, SectionAdded
    <3>3. ~Trying(r)
      BY <3>2 DEF Trying
    <3> QED
      BY <2>1, <3>1, <3>2, <3>3, ResultInOrder
  <2>2. CASE ~Trying(c)
    BY <2>2 DEF WithMissingResult, Trying
  <2> QED
    BY <2>1, <2>2
<1> DEFINE d == WithSection(r, "output", t + 1)
<1>3. WithNextTry(c) = d
  BY DEF WithNextTry
<1> HIDE DEF r, t
<1>4. /\ d \in Content /\ d.cmd = r.cmd /\ TryCount(d) = t + 1
      /\ Len(d.log) = Len(r.log) + 1 /\ Len(r.log) \in Nat
      /\ d.log[Len(r.log) + 1] = [kind |-> "output", try |-> t + 1]
  BY <1>1, <1>2, SectionAdded
<1>5. InOrder(d.log)
  BY <1>1, <1>2, NextInOrder
<1> HIDE DEF d
<1>6. Trying(d)
  BY <1>4 DEF Trying
<1> QED
  BY <1>2, <1>3, <1>4, <1>5, <1>6 DEF t

\* The command is kept.
LEMMA NextTryCmd ==
  ASSUME NEW c \in Content
  PROVE  WithNextTry(c).cmd = c.cmd
<1> DEFINE r == WithMissingResult(c)
<1>1. TryCount(c) \in Nat
  BY TryCountType
<1>2. r \in Content /\ r.cmd = c.cmd
  BY <1>1, WithSectionType DEF WithMissingResult
<1> DEFINE t == TryCount(c) + 1
<1>3. t \in Nat /\ WithNextTry(c) = WithSection(r, "output", t)
  BY <1>1 DEF WithNextTry
<1> HIDE DEF r, t
<1> QED
  BY <1>2, <1>3, WithSectionType

\* Texts without sections are in order.
LEMMA EmptyInOrder == InOrder(Empty.log) /\ InOrder(Fresh.log)
BY DEF InOrder, Empty, Fresh

-----------------------------------------------------------------------------
(* What is running is not written by others *)

\* What manager m has launched, or is about to launch, has the contents it had.
LEMMA RunUnwritten ==
  ASSUME IInv, NEW m \in Node,
         \A k \in Inode : flk[k] = m /\ at[k] # NoName /\ at[k].st = "run" => data'[k] = data[k]
  PROVE  /\ proc[m] = "launch" => data'[jf[m].lock] = data[jf[m].lock]
         /\ \A p \in pads[m] : data'[p.ino] = data[p.ino]
<1> USE Parts, JobFileAssumption
<1>1. ASSUME proc[m] = "launch" PROVE data'[jf[m].lock] = data[jf[m].lock]
  <2>1. jf[m].lock \in Inode /\ jf[m].nm \in Name
    BY <1>1 DEF HandInUse, Opened, Starting
  <2>2. flk[jf[m].lock] = m /\ at[jf[m].lock] = jf[m].nm /\ jf[m].nm.st = "run"
    BY <1>1 DEF HandLocked, Locked, Claimed
  <2> QED
    BY <2>1, <2>2
<1>2. ASSUME NEW p \in pads[m] PROVE data'[p.ino] = data[p.ino]
  BY DEF PadsOwned
<1> QED
  BY <1>1, <1>2

\* So it has when another manager takes a step.
LEMMA OthersUnwritten ==
  ASSUME IInv, NEW n \in Node, KeepsInv(n), NEW m \in Node \ {n}
  PROVE  /\ proc[m] = "launch" => data'[jf[m].lock] = data[jf[m].lock]
         /\ \A p \in pads[m] : data'[p.ino] = data[p.ino]
BY RunUnwritten DEF KeepsInv, FsStep, FsKeeps, LocksRespected

\* Steps that write no file and load none
Untouched(n) ==
  /\ data' = data
  /\ \A q \in pads'[n] : \E p \in pads[n] : q.ino = p.ino
  /\ \/ proc'[n] = proc[n] /\ jf'[n] = jf[n]
     \/ /\ proc'[n] \notin Storing \cup {"launch"}
        /\ jf'[n].mem \in {jf[n].mem, Empty}
        /\ \/ jf'[n].file = NoInode
           \/ jf'[n].file = jf[n].file /\ proc[n] \notin {"writeRun", "writeEnd"}

\* The object in hand is given up.
LEMMA GivenUpUntouched ==
  ASSUME NEW n \in Node, data' = data, pads'[n] \subseteq pads[n],
         proc'[n] \in {"idle", "down", "solicit", "dead", "hug"},
         jf'[n] = EmptyHand
  PROVE  Untouched(n)
BY DEF Untouched, EmptyHand, Storing, Ending

\* Steps that only concern the listing.
LEMMA ListUntouched ==
  ASSUME IInv, NEW n \in Node,
         Solicit(n) \/ BringOutYerDead(n) \/ GroupHug(n) \/ EndLoop(n) \/ Restart(n)
  PROVE  Untouched(n)
BY Parts, GotoEffect
DEF Solicit, BringOutYerDead, GroupHug, EndLoop, Restart, fsVars, Storing, Ending, Untouched

\* A child that ends, or is told to: it stays listed until it is reaped.
LEMMA KidUntouched ==
  ASSUME IInv, NEW n \in Node, KidExits(n) \/ Terminate(n)
  PROVE  /\ Untouched(n) /\ UNCHANGED <<at, data, flk, sub, proc, jf>>
         /\ \A p \in pads[n] : \E q \in pads'[n] : q.ino = p.ino
<1> USE Parts
<1>1. UNCHANGED <<at, data, flk, sub, proc, jf>>
  BY DEF KidExits, Terminate, fsVars
<1>2. CASE UNCHANGED pads
  BY <1>1, <1>2 DEF Untouched
<1>3. ASSUME NEW p \in pads[n], NEW e,
             pads' = [pads EXCEPT ![n] = (@ \ {p}) \cup {[p EXCEPT !.kid = e]}]
      PROVE  /\ \A q \in pads'[n] : \E r \in pads[n] : q.ino = r.ino
             /\ \A r \in pads[n] : \E q \in pads'[n] : q.ino = r.ino
  <2>1. [p EXCEPT !.kid = e].ino = p.ino
    BY DEF Pad
  <2>2. pads'[n] = (pads[n] \ {p}) \cup {[p EXCEPT !.kid = e]}
    BY <1>3 DEF TypeOK
  <2> QED
    BY <2>1, <2>2
<1> QED
  BY <1>1, <1>2, <1>3 DEF Untouched, KidExits, Terminate

\* Opening a listed name loads nothing.
LEMMA OpenUntouched ==
  ASSUME IInv, NEW n \in Node, OpenPending(n) \/ OpenDead(n) \/ OpenTied(n)
  PROVE  Untouched(n)
<1> USE Parts
<1>1. UNCHANGED <<data, pads>>
  BY DEF OpenPending, OpenDead, OpenTied, fsVars
<1>2. PICK nm \in todo[n], next \in {"lock", "raise", "hugMove"},
           loop \in {"solicit", "dead", "hug"} : Open(n, nm, next, loop)
  BY DEF OpenPending, OpenDead, OpenTied
<1>3. CASE \E i \in Inode :
             /\ jf' = [jf EXCEPT ![n] = [EmptyHand EXCEPT !.nm = nm, !.lock = i]]
             /\ Goto(n, next)
  <2>1. jf'[n].mem = Empty /\ jf'[n].file = NoInode
    BY <1>3 DEF TypeOK, EmptyHand
  <2>2. proc'[n] = next
    BY <1>3, GotoEffect
  <2> QED
    BY <1>1, <2>1, <2>2 DEF Untouched, Storing, Ending
<1>4. CASE Skip(n, nm, loop)
  BY <1>1, <1>4, SkipEffect, GivenUpUntouched
<1> QED
  BY <1>2, <1>3, <1>4 DEF Open

\* Nor does locking it.
LEMMA LockUntouched ==
  ASSUME IInv, NEW n \in Node, LockPending(n)
  PROVE  Untouched(n)
<1> USE Parts
<1>1. UNCHANGED <<data, pads>> /\ proc[n] = "lock"
  BY DEF LockPending
<1>2. CASE Goto(n, "load") /\ UNCHANGED jf
  BY <1>1, <1>2, GotoEffect DEF Untouched, Storing, Ending
<1>3. CASE Skip(n, jf[n].nm, "solicit")
  BY <1>1, <1>3, SkipEffect, GivenUpUntouched
<1> QED
  BY <1>2, <1>3 DEF LockPending

\* A task is done with what it has in hand.
LEMMA SkipUntouched ==
  ASSUME IInv, NEW n \in Node, RejectPending(n) \/ RaiseDead(n) \/ MoveTied(n)
  PROVE  Untouched(n)
BY Parts, SkipEffect, GivenUpUntouched DEF RejectPending, RaiseDead, MoveTied

\* A manager that dies leaves files as they are.
LEMMA DieUntouched ==
  ASSUME IInv, NEW n \in Node, Die(n)
  PROVE  Untouched(n)
BY Parts, GotoEffect, GivenUpUntouched DEF Die, TypeOK

\* All of them.
LEMMA QuietUntouched ==
  ASSUME IInv, NEW n \in Node,
         \/ Solicit(n) \/ BringOutYerDead(n) \/ GroupHug(n) \/ EndLoop(n) \/ Restart(n)
         \/ KidExits(n) \/ Terminate(n) \/ OpenPending(n) \/ OpenDead(n) \/ OpenTied(n)
         \/ LockPending(n) \/ RejectPending(n) \/ RaiseDead(n) \/ MoveTied(n) \/ Clean(n)
         \/ Die(n)
  PROVE  Untouched(n)
<1>1. CASE Clean(n)
  BY <1>1 DEF Clean, manVars, Untouched
<1> QED
  BY <1>1, ListUntouched, KidUntouched, OpenUntouched, LockUntouched, SkipUntouched,
     DieUntouched

-----------------------------------------------------------------------------
(* What the others do to files and hands *)

\* A file that has gone cannot be loaded; the contents of another are taken for
\* the next try.
LEMMA LoadEffect ==
  ASSUME IInv, NEW n \in Node, LoadPending(n)
  PROVE  /\ proc[n] = "load" /\ data' = data /\ at' = at /\ pads' = pads /\ sub' = sub
         /\ \/ Untouched(n) /\ flk' = [flk EXCEPT ![jf[n].lock] = Nobody]
                 /\ proc'[n] = "solicit"
            \/ \E i \in Inode :
                 /\ at[i] = jf[n].nm /\ flk' = flk
                 /\ jf'[n].mem = WithNextTry(data[i]) /\ jf'[n].file = jf[n].file
                 /\ proc'[n] = IF data[i].cmd THEN "claim" ELSE "reject"
<1> USE Parts
<1>1. proc[n] = "load" /\ data' = data /\ at' = at /\ pads' = pads /\ sub' = sub
  BY DEF LoadPending
<1>2. CASE Release(jf[n].lock) /\ Skip(n, jf[n].nm, "solicit")
  BY <1>1, <1>2, SkipEffect, GivenUpUntouched DEF Release
<1>3. ASSUME NEW i \in Inode, at[i] = jf[n].nm,
             jf' = [jf EXCEPT ![n].mem = WithNextTry(data[i])],
             Goto(n, IF data[i].cmd THEN "claim" ELSE "reject")
      PROVE  /\ jf'[n].mem = WithNextTry(data[i]) /\ jf'[n].file = jf[n].file
             /\ proc'[n] = IF data[i].cmd THEN "claim" ELSE "reject"
  BY <1>3, GotoEffect DEF TypeOK, Hand
<1> QED
  BY <1>1, <1>2, <1>3 DEF LoadPending

\* The locked file is renamed; the contents stay in hand.
LEMMA ClaimEffect ==
  ASSUME IInv, NEW n \in Node, ClaimPending(n)
  PROVE  LET l == jf[n].lock IN
         /\ proc[n] = "claim" /\ l \in Inode /\ flk[l] = n
         /\ data' = data /\ flk' = flk /\ pads' = pads /\ sub' = sub
         /\ at[l] # NoName /\ at[l].st = "pend" /\ at'[l].st = "run"
         /\ \A k \in Inode : k # l => at'[k] = at[k]
         /\ jf'[n].mem = jf[n].mem /\ jf'[n].file = jf[n].file /\ jf'[n].lock = l
         /\ proc'[n] = "truncRun"
<1> USE Parts, JobFileAssumption
<1> DEFINE l == jf[n].lock
           new == In("run", jf[n].nm)
<1>1. /\ data' = data /\ flk' = flk /\ pads' = pads /\ sub' = sub
      /\ proc[n] = "claim" /\ l \in Inode /\ jf[n].nm \in Name
      /\ proc'[n] = "truncRun"
  BY GotoEffect DEF ClaimPending, HandInUse, Opened, Starting
<1>2. flk[l] = n /\ at[l] = jf[n].nm /\ jf[n].nm.st = "pend"
  BY <1>1 DEF HandLocked, HandOpened, Locked, Due
<1>3. at' = Renamed(jf[n].nm, new) /\ jf' = [jf EXCEPT ![n].nm = new]
  BY <1>1, <1>2 DEF ClaimPending, Resolves
<1>4. jf'[n].mem = jf[n].mem /\ jf'[n].file = jf[n].file /\ jf'[n].lock = l
  BY <1>3 DEF TypeOK, Hand
<1>5. new \in Name /\ new.id = at[l].id /\ new.st = "run" /\ Active(l)
  BY <1>1, <1>2, MovedNameType DEF State, Active
<1> HIDE DEF l, new
<1>6. at' = [at EXCEPT ![l] = new]
  BY <1>1, <1>2, <1>3, <1>5, RenamedOne
<1>7. at'[l] = new /\ \A k \in Inode : k # l => at'[k] = at[k]
  BY <1>1, <1>6 DEF FsTypeOK, l
<1> QED
  BY <1>1, <1>2, <1>4, <1>5, <1>7 DEF l, Active

\* The claimed file is truncated,
LEMMA TruncateRunEffect ==
  ASSUME IInv, NEW n \in Node, TruncateRun(n)
  PROVE  LET l == jf[n].lock IN
         /\ proc[n] = "truncRun" /\ l \in Inode /\ at[l] # NoName /\ at[l].st = "run"
         /\ at' = at /\ flk' = flk /\ pads' = pads /\ sub' = sub
         /\ data'[l] = Empty /\ \A k \in Inode : k # l => data'[k] = data[k]
         /\ \A p \in pads[n] : p.ino # l
         /\ jf'[n].mem = jf[n].mem /\ jf'[n].file = l /\ jf'[n].lock = l
         /\ proc'[n] = "writeRun"
<1> USE Parts, JobFileAssumption
<1> DEFINE l == jf[n].lock
<1>1. /\ flk' = flk /\ pads' = pads /\ sub' = sub
      /\ proc[n] = "truncRun" /\ l \in Inode /\ jf[n].nm \in Name
      /\ proc'[n] = "writeRun"
  BY GotoEffect DEF TruncateRun, OpenForWrite, HandInUse, Opened, Starting
<1>2. at[l] = jf[n].nm /\ jf[n].nm.st = "run" /\ \A p \in pads[n] : p.ino # l
  BY <1>1 DEF HandLocked, Locked, Claimed
<1>3. PICK i \in Inode :
        /\ at[i] = jf[n].nm
        /\ at' = [at EXCEPT ![i] = jf[n].nm]
        /\ data' = [data EXCEPT ![i] = Empty]
        /\ jf' = [jf EXCEPT ![n].file = i]
  BY <1>1, <1>2 DEF TruncateRun, OpenForWrite, Resolves
<1>4. i = l
  BY <1>1, <1>2, <1>3 DEF UniqueActive, Active
<1>5. /\ at' = at /\ data'[l] = Empty
      /\ \A k \in Inode : k # l => data'[k] = data[k]
      /\ jf'[n].lock = l /\ jf'[n].mem = jf[n].mem /\ jf'[n].file = l
  BY <1>3, <1>4 DEF FsTypeOK, TypeOK, Hand
<1> QED
  BY <1>1, <1>2, <1>5

\* ... and written.
LEMMA WriteRunEffect ==
  ASSUME IInv, NEW n \in Node, WriteRun(n)
  PROVE  LET l == jf[n].lock IN
         /\ proc[n] = "writeRun" /\ l \in Inode /\ at[l] # NoName /\ at[l].st = "run"
         /\ at' = at /\ flk' = flk /\ pads' = pads /\ sub' = sub
         /\ data'[l] = jf[n].mem /\ \A k \in Inode : k # l => data'[k] = data[k]
         /\ \A p \in pads[n] : p.ino # l
         /\ jf[n].file = l
         /\ jf'[n].mem = jf[n].mem /\ jf'[n].file = NoInode /\ jf'[n].lock = l
         /\ proc'[n] = "launch"
<1> USE Parts, JobFileAssumption
<1> DEFINE l == jf[n].lock
<1>1. /\ at' = at /\ flk' = flk /\ pads' = pads /\ sub' = sub
      /\ proc[n] = "writeRun" /\ l \in Inode /\ jf[n].nm \in Name
      /\ proc'[n] = "launch"
  BY GotoEffect DEF WriteRun, Flush, HandInUse, Opened, Starting
<1>2. /\ at[l] = jf[n].nm /\ jf[n].nm.st = "run" /\ jf[n].file = l
      /\ \A p \in pads[n] : p.ino # l
  BY <1>1 DEF HandLocked, Locked, Claimed
<1>3. /\ data'[l] = jf[n].mem
      /\ \A k \in Inode : k # l => data'[k] = data[k]
      /\ jf'[n].lock = l /\ jf'[n].mem = jf[n].mem /\ jf'[n].file = NoInode
  BY <1>1, <1>2 DEF WriteRun, Flush, FsTypeOK, TypeOK, Hand
<1> QED
  BY <1>1, <1>2, <1>3

\* It is launched, or given up.
LEMMA LaunchEffect ==
  ASSUME IInv, NEW n \in Node, LaunchJob(n)
  PROVE  LET l == jf[n].lock IN
         /\ proc[n] = "launch" /\ data' = data /\ sub' = sub
         /\ jf'[n] = EmptyHand /\ proc'[n] = "solicit"
         /\ \/ /\ at' = at /\ flk' = flk
               /\ \A p \in pads[n] : p \in pads'[n]
               /\ \E q \in pads'[n] : q.ino = l
               /\ \A q \in pads'[n] : q \in pads[n] \/ q.ino = l
            \/ /\ pads' = pads /\ flk' = [flk EXCEPT ![l] = Nobody]
               /\ Resolves(jf[n].nm) => at' = Renamed(jf[n].nm, In("done", jf[n].nm))
<1> USE Parts
<1>1. proc[n] = "launch" /\ data' = data /\ sub' = sub /\ jf'[n] = EmptyHand
      /\ proc'[n] = "solicit"
  BY GotoEffect DEF LaunchJob, TypeOK
<1> DEFINE pad == [nm |-> In("run", jf[n].nm), ino |-> jf[n].lock, kid |-> "alive"]
<1>2. CASE pads' = [pads EXCEPT ![n] = @ \cup {pad}] /\ UNCHANGED <<at, flk>>
  <2>1. pads'[n] = pads[n] \cup {pad} /\ pad.ino = jf[n].lock
    BY <1>2 DEF TypeOK
  <2> HIDE DEF pad
  <2> QED
    BY <1>1, <1>2, <2>1
<1>3. CASE /\ at' = IF Resolves(jf[n].nm) THEN Renamed(jf[n].nm, In("done", jf[n].nm)) ELSE at
           /\ Release(jf[n].lock)
           /\ UNCHANGED pads
  BY <1>1, <1>3 DEF Release
<1> QED
  BY <1>2, <1>3 DEF LaunchJob

\* A child has ended: its file is renamed and let go, and its result is in hand.
LEMMA TryDoneEffect ==
  ASSUME IInv, NEW n \in Node, TryDone(n)
  PROVE  \E p \in pads[n] :
           LET l == p.ino
               new == Verdict(p, data[l]) IN
           /\ proc[n] = "idle" /\ l \in Inode /\ data' = data /\ sub' = sub
           /\ at[l] # NoName /\ at[l].st = "run" /\ flk[l] = n
           /\ new \in Name /\ at' = [at EXCEPT ![l] = new]
           /\ flk' = [flk EXCEPT ![l] = Nobody]
           /\ pads'[n] = pads[n] \ {p}
           /\ jf'[n].nm = new /\ jf'[n].file = NoInode
           /\ jf'[n].mem = WithSection(data[l], "result", TryCount(data[l]))
           /\ proc'[n] = "truncEnd"
<1> USE Parts, JobFileAssumption
<1>1. data' = data /\ sub' = sub /\ proc[n] = "idle"
  BY DEF TryDone
<1>2. PICK p \in pads[n] : TryEnds(n, p)
  BY DEF TryDone
<1> DEFINE l == p.ino
           new == Verdict(p, data[l])
<1>3. at[l] = p.nm /\ p.nm.st = "run" /\ flk[l] = n /\ l \in Inode
  BY DEF PadsOwned
<1>4. Active(l) /\ at[l] # NoName
  BY <1>3 DEF Active
<1>5. PICK i \in Inode :
        /\ at[i] = p.nm
        /\ at' = Renamed(p.nm, Verdict(p, data[i]))
        /\ Release(l)
        /\ jf' = [jf EXCEPT ![n] =
             [EmptyHand EXCEPT !.nm = Verdict(p, data[i]),
                               !.mem = WithSection(data[i], "result", TryCount(data[i]))]]
        /\ Goto(n, "truncEnd")
  BY <1>2, <1>3 DEF TryEnds, Resolves
<1>6. i = l
  BY <1>3, <1>4, <1>5 DEF UniqueActive
<1>7. data[l] \in Content
  BY <1>3 DEF FsTypeOK
<1>8. new \in Name /\ new.id = p.nm.id
  BY <1>7, VerdictType
<1>9. /\ jf'[n].nm = new /\ jf'[n].file = NoInode
      /\ jf'[n].mem = WithSection(data[l], "result", TryCount(data[l]))
  BY <1>5, <1>6 DEF TypeOK, EmptyHand
<1>10. at' = Renamed(at[l], new) /\ pads'[n] = pads[n] \ {p} /\ flk' = [flk EXCEPT ![l] = Nobody]
  BY <1>2, <1>3, <1>5, <1>6 DEF TryEnds, TypeOK, Release
<1>11. proc'[n] = "truncEnd"
  BY <1>5, GotoEffect
<1>12. at' = [at EXCEPT ![l] = new]
  <2> HIDE DEF new, l
  <2> QED
    BY <1>3, <1>4, <1>8, <1>10, RenamedOne
<1> QED
  BY <1>1, <1>3, <1>4, <1>8, <1>9, <1>10, <1>11, <1>12

\* The file that has the name it was given, or a new one, is truncated,
LEMMA TruncateEndEffect ==
  ASSUME IInv, NEW n \in Node, TruncateEnd(n)
  PROVE  \E i \in Inode :
           /\ proc[n] = "truncEnd"
           /\ IF Resolves(jf[n].nm) THEN at[i] = jf[n].nm ELSE at[i] = NoName
           /\ at[i] # NoName => at[i].st \notin {"hold", "run"}
           /\ at' = [at EXCEPT ![i] = jf[n].nm]
           /\ flk' = flk /\ pads' = pads /\ sub' = sub
           /\ data'[i] = Empty /\ \A k \in Inode : k # i => data'[k] = data[k]
           /\ \A p \in pads[n] : p.ino # i
           /\ jf'[n].nm = jf[n].nm /\ jf'[n].mem = jf[n].mem /\ jf'[n].file = i
           /\ proc'[n] = "writeEnd"
<1> USE Parts, JobFileAssumption
<1>1. /\ flk' = flk /\ pads' = pads /\ sub' = sub
      /\ proc[n] = "truncEnd" /\ jf[n].nm \in Name
      /\ proc'[n] = "writeEnd"
  BY GotoEffect DEF TruncateEnd, OpenForWrite, HandInUse, Ending
<1>2. PICK i \in Inode :
        /\ IF Resolves(jf[n].nm) THEN at[i] = jf[n].nm ELSE Free(i)
        /\ at' = [at EXCEPT ![i] = jf[n].nm]
        /\ data' = [data EXCEPT ![i] = Empty]
        /\ jf' = [jf EXCEPT ![n].file = i]
  BY DEF TruncateEnd, OpenForWrite
<1>3. /\ data'[i] = Empty /\ \A k \in Inode : k # i => data'[k] = data[k]
      /\ jf'[n].nm = jf[n].nm /\ jf'[n].mem = jf[n].mem /\ jf'[n].file = i
  BY <1>2 DEF FsTypeOK, TypeOK, Hand
<1>4. IF Resolves(jf[n].nm) THEN at[i] = jf[n].nm ELSE at[i] = NoName
  BY <1>2 DEF Free
<1>5. jf[n].nm.st \in {"pend", "tied", "done"}
  BY <1>1 DEF HandEnding, Ending
<1>6. at[i] # NoName => at[i].st \notin {"hold", "run"}
  BY <1>4, <1>5
<1>7. \A p \in pads[n] : p.ino # i
  BY <1>6 DEF PadsOwned
<1> QED
  BY <1>1, <1>2, <1>3, <1>4, <1>6, <1>7

\* ... and written.
LEMMA WriteEndEffect ==
  ASSUME IInv, NEW n \in Node, WriteEnd(n)
  PROVE  LET i == jf[n].file IN
         /\ proc[n] = "writeEnd" /\ i \in Inode
         /\ at[i] # NoName => at[i].st \notin {"hold", "run"}
         /\ at[i] # NoName /\ at[i].st = "pend" => jf[n].nm.st = "pend"
         /\ at' = at /\ flk' = flk /\ pads' = pads /\ sub' = sub
         /\ data'[i] = jf[n].mem /\ \A k \in Inode : k # i => data'[k] = data[k]
         /\ \A p \in pads[n] : p.ino # i
         /\ jf'[n].mem = jf[n].mem /\ jf'[n].file = NoInode
         /\ proc'[n] = "idle"
<1> USE Parts, JobFileAssumption
<1> DEFINE i == jf[n].file
<1>1. /\ at' = at /\ flk' = flk /\ pads' = pads /\ sub' = sub
      /\ proc[n] = "writeEnd"
      /\ proc'[n] = "idle"
  BY GotoEffect DEF WriteEnd, Flush
<1>2. /\ i \in Inode
      /\ IF jf[n].nm.st = "pend" THEN at[i] = jf[n].nm ELSE ~Active(i)
  BY <1>1 DEF HandEnding, Ending
<1>3. /\ at[i] # NoName => at[i].st \notin {"hold", "run"}
      /\ at[i] # NoName /\ at[i].st = "pend" => jf[n].nm.st = "pend"
  BY <1>2 DEF Active
<1>4. /\ data'[i] = jf[n].mem
      /\ \A k \in Inode : k # i => data'[k] = data[k]
      /\ jf'[n].mem = jf[n].mem /\ jf'[n].file = NoInode
  BY <1>2 DEF WriteEnd, Flush, FsTypeOK, TypeOK, Hand
<1>5. \A p \in pads[n] : p.ino # i
  BY <1>3 DEF PadsOwned
<1> QED
  BY <1>1, <1>2, <1>3, <1>4, <1>5

-----------------------------------------------------------------------------
(* The sections stay in order *)

LogStep(n) ==
  /\ \A i \in Inode : InOrder(data'[i].log)
  /\ InOrder(jf'[n].mem.log)
  /\ TryInHand(n)'

\* What a manager has running or launched, it has if it does not write there.
LEMMA PadsTrying ==
  ASSUME NEW n \in Node, TryInHand(n),
         \A q \in pads'[n] : \E p \in pads[n] : q.ino = p.ino,
         \A p \in pads[n] : data'[p.ino] = data[p.ino]
  PROVE  \A q \in pads'[n] : Trying(data'[q.ino])
BY DEF TryInHand

\* A step that writes no file and loads none keeps the order.
LEMMA UntouchedLog ==
  ASSUME LogInv, NEW n \in Node, Untouched(n)
  PROVE  LogStep(n)
<1>1. TryInHand(n) /\ InOrder(jf[n].mem.log) /\ \A i \in Inode : InOrder(data[i].log)
  BY DEF LogInv
<1>2. \A q \in pads'[n] : Trying(data'[q.ino])
  BY <1>1, PadsTrying DEF Untouched
<1>3. CASE proc'[n] = proc[n] /\ jf'[n] = jf[n]
  BY <1>1, <1>2, <1>3 DEF Untouched, TryInHand, LogStep
<1>4. CASE proc'[n] \notin Storing \cup {"launch"} /\ jf'[n].mem \in {jf[n].mem, Empty}
  BY <1>1, <1>2, <1>4, EmptyInOrder DEF Untouched, TryInHand, LogStep, Storing
<1> QED
  BY <1>3, <1>4 DEF Untouched

\* What is loaded gets the section of the next try.
LEMMA LoadLog ==
  ASSUME IInv, LogInv, NEW n \in Node, LoadPending(n)
  PROVE  LogStep(n)
<1>1. TryInHand(n) /\ \A i \in Inode : InOrder(data[i].log) /\ data[i] \in Content
  BY Parts DEF LogInv, FsTypeOK
<1>2. ASSUME NEW i \in Inode, data' = data, pads' = pads,
             jf'[n].mem = WithNextTry(data[i]), proc'[n] \in {"claim", "reject"}
      PROVE  LogStep(n)
  BY <1>1, <1>2, NextTryInOrder DEF TryInHand, LogStep
<1> QED
  BY <1>2, LoadEffect, UntouchedLog

\* The claim renames only.
LEMMA ClaimLog ==
  ASSUME IInv, LogInv, NEW n \in Node, ClaimPending(n)
  PROVE  LogStep(n)
<1>1. /\ TryInHand(n) /\ InOrder(jf[n].mem.log) /\ \A i \in Inode : InOrder(data[i].log)
  BY DEF LogInv
<1>2. /\ proc[n] = "claim" /\ proc'[n] = "truncRun" /\ data' = data /\ pads' = pads
      /\ jf'[n].mem = jf[n].mem
  BY ClaimEffect
<1> QED
  BY <1>1, <1>2 DEF TryInHand, LogStep

\* The claimed file gets the contents in hand.
LEMMA StoreRunLog ==
  ASSUME IInv, LogInv, NEW n \in Node, TruncateRun(n) \/ WriteRun(n)
  PROVE  LogStep(n)
<1>1. TryInHand(n) /\ InOrder(jf[n].mem.log) /\ \A i \in Inode : InOrder(data[i].log)
  BY DEF LogInv
<1> DEFINE l == jf[n].lock
<1>2. /\ \A k \in Inode : k # l => data'[k] = data[k]
      /\ \A p \in pads[n] : p.ino # l /\ p.ino \in Inode
      /\ pads' = pads /\ jf'[n].mem = jf[n].mem /\ jf'[n].lock = l /\ l \in Inode
      /\ Trying(jf[n].mem)
      /\ \/ data'[l] = Empty /\ proc'[n] = "writeRun"
         \/ data'[l] = jf[n].mem /\ proc'[n] = "launch"
  BY <1>1, Parts, TruncateRunEffect, WriteRunEffect DEF TryInHand
<1>3. \A q \in pads'[n] : Trying(data'[q.ino])
  BY <1>1, <1>2, PadsTrying
<1> QED
  BY <1>1, <1>2, <1>3, EmptyInOrder DEF TryInHand, LogStep

\* What is launched has its unfinished try on file.
LEMMA LaunchLog ==
  ASSUME IInv, LogInv, NEW n \in Node, LaunchJob(n)
  PROVE  LogStep(n)
<1>1. TryInHand(n) /\ \A i \in Inode : InOrder(data[i].log)
  BY DEF LogInv
<1>2. /\ proc[n] = "launch" /\ proc'[n] = "solicit" /\ data' = data
      /\ jf'[n].mem = Empty
      /\ \A q \in pads'[n] : q \in pads[n] \/ q.ino = jf[n].lock
  BY LaunchEffect DEF EmptyHand
<1> QED
  BY <1>1, <1>2, EmptyInOrder DEF TryInHand, LogStep

\* The result is appended to an unfinished try.
LEMMA TryDoneLog ==
  ASSUME IInv, LogInv, NEW n \in Node, TryDone(n)
  PROVE  LogStep(n)
<1>1. TryInHand(n) /\ \A i \in Inode : InOrder(data[i].log) /\ data[i] \in Content
  BY Parts DEF LogInv, FsTypeOK
<1>2. PICK p \in pads[n] :
        /\ p.ino \in Inode /\ data' = data /\ pads'[n] = pads[n] \ {p}
        /\ jf'[n].mem = WithSection(data[p.ino], "result", TryCount(data[p.ino]))
        /\ proc'[n] = "truncEnd"
  BY TryDoneEffect
<1>3. InOrder(jf'[n].mem.log)
  BY <1>1, <1>2, ResultInOrder DEF TryInHand
<1> QED
  BY <1>1, <1>2, <1>3 DEF TryInHand, LogStep

\* What try_done has put together is written.
LEMMA StoreEndLog ==
  ASSUME IInv, LogInv, NEW n \in Node, TruncateEnd(n) \/ WriteEnd(n)
  PROVE  LogStep(n)
<1>1. TryInHand(n) /\ InOrder(jf[n].mem.log) /\ \A i \in Inode : InOrder(data[i].log)
  BY DEF LogInv
<1>2. PICK i \in Inode :
        /\ \A k \in Inode : k # i => data'[k] = data[k]
        /\ \A p \in pads[n] : p.ino # i /\ p.ino \in Inode
        /\ pads' = pads /\ jf'[n].mem = jf[n].mem
        /\ data'[i] \in {Empty, jf[n].mem}
        /\ proc'[n] \in {"writeEnd", "idle"}
  BY Parts, TruncateEndEffect, WriteEndEffect
<1>3. \A q \in pads'[n] : Trying(data'[q.ino])
  BY <1>1, <1>2, PadsTrying
<1> QED
  BY <1>1, <1>2, <1>3, EmptyInOrder DEF TryInHand, LogStep

\* All that a manager does.
LEMMA NodeLog ==
  ASSUME IInv, LogInv, NEW n \in Node, NodeStep(n)
  PROVE  LogStep(n)
BY QuietUntouched, UntouchedLog, LoadLog, ClaimLog, StoreRunLog, LaunchLog, TryDoneLog,
   StoreEndLog
DEF NodeStep, Work

\* What every step of a manager keeps of IInv.
LEMMA NodeKeeps ==
  ASSUME IInv, OneRunnerAssumption, NEW n \in Node, NodeStep(n)
  PROVE  KeepsInv(n) /\ Others(n)
<1>1. KeepsInv(n)
  BY ListStep, KidStep, OpenStep, LockStep, LoadStep, RejectStep, ClaimStep,
     TruncateRunStep, WriteRunStep, LaunchStep, TryDoneStep, TruncateEndStep,
     WriteEndStep, RaiseStep, MoveTiedStep, CleanStep, DieStep
  DEF NodeStep, Work, OneRunnerAssumption
<1> QED
  BY <1>1, Parts, OneNode

\* A manager's step is no other's.
LEMMA LogManagerStep ==
  ASSUME IInv, OneRunnerAssumption, LogInv, NEW n \in Node, NodeStep(n)
  PROVE  LogInv'
<1>1. LogStep(n)
  BY NodeLog
<1>2. KeepsInv(n) /\ Others(n)
  BY NodeKeeps
<1>3. ASSUME NEW m \in Node PROVE InOrder(jf'[m].mem.log) /\ TryInHand(m)'
  <2>1. CASE m = n
    BY <1>1, <2>1 DEF LogStep
  <2>2. CASE m # n
    <3>1. proc'[m] = proc[m] /\ jf'[m] = jf[m] /\ pads'[m] = pads[m]
      BY <1>2, <2>2 DEF Others
    <3>2. /\ proc[m] = "launch" => data'[jf[m].lock] = data[jf[m].lock]
          /\ \A p \in pads[m] : data'[p.ino] = data[p.ino]
      BY <1>2, <2>2, OthersUnwritten
    <3> QED
      BY <3>1, <3>2 DEF LogInv, TryInHand
  <2> QED
    BY <2>1, <2>2
<1> QED
  BY <1>1, <1>3 DEF LogStep, LogInv

\* mkjob writes only files in hold, and one that nothing refers to.
LEMMA SubmitUnwritten ==
  ASSUME IInv, NEW j \in Job, Submit(j)
  PROVE  \A i \in Inode :
           /\ data'[i] \in {data[i], Empty, Fresh}
           /\ at[i] # NoName /\ at[i].st # "hold" => data'[i] = data[i]
<1>1. FsTypeOK
  BY DEF IInv, TInv, TypeOK
<1>2. CASE CreateJob(j)
  BY <1>1, <1>2 DEF CreateJob, Free, FsTypeOK
<1>3. CASE FillJob(j)
  BY <1>1, <1>3 DEF FillJob, Listing
<1> QED
  BY <1>2, <1>3 DEF Submit, ReleaseJob, AbortJob

\* ... so its steps keep the order.
LEMMA LogSubmitStep ==
  ASSUME IInv, LogInv, NEW j \in Job, Submit(j)
  PROVE  LogInv'
<1>1. \A i \in Inode : InOrder(data'[i].log)
  BY SubmitUnwritten, EmptyInOrder DEF LogInv
<1>2. UNCHANGED <<proc, jf, pads>>
  BY DEF Submit, CreateJob, FillJob, ReleaseJob, AbortJob, manVars
<1>3. ASSUME NEW m \in Node PROVE InOrder(jf'[m].mem.log) /\ TryInHand(m)'
  <2>1. /\ proc[m] = "launch" => data'[jf[m].lock] = data[jf[m].lock]
        /\ \A p \in pads[m] : data'[p.ino] = data[p.ino]
    BY SubmitUnwritten, RunUnwritten
  <2> QED
    BY <1>2, <2>1 DEF LogInv, TryInHand
<1> QED
  BY <1>1, <1>3 DEF LogInv

\* LogInv is inductive, together with IInv.
LEMMA LogInvStep ==
  ASSUME IInv, OneRunnerAssumption, LogInv, [Next]_vars
  PROVE  LogInv'
<1>2. CASE \E n \in Node : NodeStep(n)
  BY <1>2, LogManagerStep
<1>3. CASE \E j \in Job : Submit(j)
  BY <1>3, LogSubmitStep
<1>4. CASE Tick \/ UNCHANGED vars \/ \E j \in Job : OrphanExits(j) \/ KillOrder(j)
  <2>1. UNCHANGED <<data, proc, jf, pads>>
    BY <1>4 DEF Tick, vars, OrphanExits, KillOrder, fsVars, manVars
  <2> QED
    BY <2>1 DEF LogInv, TryInHand
<1> QED
  BY <1>2, <1>3, <1>4 DEF Next, NodeStep

\* It holds at first.
LEMMA LogInvInit == Init => LogInv
BY EmptyInOrder DEF Init, FsInit, LogInv, TryInHand, EmptyHand

\* No try is lost, repeated or left without a result once the next one starts: the
\* sections of every file are output 1, result 1, output 2, ..., whoever writes it,
\* and whoever dies over it.
THEOREM LogSafe == OneRunnerAssumption => (Spec => []LogInOrder)
<1> SUFFICES ASSUME OneRunnerAssumption PROVE Spec => []LogInOrder
  OBVIOUS
<1>1. Init => IInv /\ LogInv
  BY InvInit, LogInvInit
<1>2. IInv /\ LogInv /\ [Next]_vars => IInv' /\ LogInv'
  BY InvStep, LogInvStep
<1>3. LogInv => LogInOrder
  BY DEF LogInv, LogInOrder, InOrder
<1> QED
  BY <1>1, <1>2, <1>3, PTL DEF Spec

-----------------------------------------------------------------------------
(* What each step does to entries, claims and contents, if nobody dies in    *)
(* the middle of a task                                                      *)

\* An entry moves on, to run only with its owner, back to pend only for one more
\* try, or after its manager died
EntryStep(n) ==
  \A k \in Inode : at'[k] # NoName =>
    \/ at'[k] = at[k]
    \/ /\ at'[k].st \in {"tied", "done"}
       /\ IF at[k] = NoName THEN jf'[n].file = k ELSE at[k].st # "hold"
    \/ /\ at[k] # NoName /\ at[k].st # "hold"
       /\ \/ at'[k].st = "run" /\ Held(n, k)'
          \/ at'[k].st = "pend" /\ (NoDeaths => TryCount(data[k]) < TryLimit)

\* What stays in run stays claimed or launched
HoldStep(n) ==
  NoDeaths => \A k \in Inode :
    at'[k] = at[k] /\ at[k] # NoName /\ at[k].st = "run" /\ Held(n, k) => Held(n, k)'

\* Contents are left alone, truncated, or written
Left(n, k) == data'[k] = data[k] /\ (jf[n].file = k => jf'[n].file = k)
Emptied(n, k) ==
  /\ data'[k] = Empty /\ jf'[n].file = k
  /\ at'[k] # NoName => at'[k].st # "hold"
Written(n, k) ==
  /\ data'[k] = jf[n].mem /\ proc[n] \in {"writeRun", "writeEnd"} /\ at'[k] = at[k]
  /\ at[k] # NoName => at[k].st # "hold"
  /\ at[k] # NoName /\ at[k].st = "pend" => proc[n] = "writeEnd" /\ jf[n].nm.st = "pend"
DataStep(n) == \A k \in Inode : Left(n, k) \/ Emptied(n, k) \/ Written(n, k)

KStep(n) == EntryStep(n) /\ HoldStep(n) /\ DataStep(n) /\ StoreWhole(n)'

\* The parts of KInv, as the steps use them.
LEMMA KParts ==
  ASSUME KInv, NEW n \in Node
  PROVE  StoreWhole(n) /\ \A k \in Inode : FileWhole(k)
BY DEF KInv

\* A step that leaves entries, locks and contents alone.
LEMMA UntouchedStore ==
  ASSUME IInv, KInv, NEW n \in Node, Untouched(n),
         jf'[n] = jf[n] \/ proc[n] \notin {"writeRun", "writeEnd"}
  PROVE  DataStep(n) /\ StoreWhole(n)'
<1> USE KParts, JobManAssumption
<1>1. DataStep(n)
  BY DEF DataStep, Left, Untouched, StoreWhole
<1>2. \A q \in pads'[n] : Commanded(data'[q.ino])
  BY DEF Untouched, StoreWhole
<1>3. CASE proc'[n] = proc[n] /\ jf'[n] = jf[n]
  BY <1>1, <1>2, <1>3 DEF Untouched, StoreWhole
<1>4. CASE /\ proc'[n] \notin Storing \cup {"launch"}
           /\ \/ jf'[n].file = NoInode
              \/ jf'[n].file = jf[n].file /\ proc[n] \notin {"writeRun", "writeEnd"}
  BY <1>1, <1>2, <1>4 DEF StoreWhole, Storing
<1> QED
  BY <1>1, <1>3, <1>4 DEF Untouched

\* Nothing is moved or let go.
LEMMA StillHeld ==
  ASSUME IInv, NEW n \in Node, at' = at,
         \A k \in Inode : flk[k] = n => flk'[k] = n,
         \A p \in pads[n] : \E q \in pads'[n] : q.ino = p.ino,
         proc[n] \in Claimed => proc'[n] \in Claimed /\ jf'[n].lock = jf[n].lock
  PROVE  EntryStep(n) /\ HoldStep(n)
<1>1. EntryStep(n)
  BY DEF EntryStep
<1>2. HoldStep(n)
  BY DEF HoldStep, Held
<1> QED
  BY <1>1, <1>2

\* Steps that only concern the listing, and opening what is listed.
LEMMA ListKeepsWhole ==
  ASSUME IInv, KInv, NEW n \in Node,
         \/ Solicit(n) \/ BringOutYerDead(n) \/ GroupHug(n) \/ EndLoop(n) \/ Restart(n)
         \/ OpenPending(n) \/ OpenDead(n) \/ OpenTied(n)
  PROVE  KStep(n)
<1>1. UNCHANGED <<at, flk, pads>>
      /\ proc[n] \notin Claimed \cup {"writeRun", "writeEnd"}
  BY DEF Solicit, BringOutYerDead, GroupHug, EndLoop, Restart, OpenPending, OpenDead, OpenTied,
         fsVars, Claimed
<1>2. Untouched(n)
  BY QuietUntouched
<1> QED
  BY <1>1, <1>2, UntouchedStore, StillHeld DEF KStep

\* A child that ends keeps its place, and its manager the file.
LEMMA KidKeepsWhole ==
  ASSUME IInv, KInv, NEW n \in Node, KidExits(n) \/ Terminate(n)
  PROVE  KStep(n)
BY KidUntouched, UntouchedStore, StillHeld DEF KStep

\* A lock more.
LEMMA LockKeepsWhole ==
  ASSUME IInv, KInv, NEW n \in Node, LockPending(n)
  PROVE  KStep(n)
<1>1. at' = at /\ pads' = pads /\ proc[n] = "lock"
  BY DEF LockPending
<1>2. \A k \in Inode : flk[k] = n => flk'[k] = n
  BY Parts DEF LockPending, FsTypeOK
<1> QED
  BY <1>1, <1>2, LockUntouched, UntouchedStore, StillHeld DEF KStep, Claimed

\* What is let go was locked by a task, and belongs to no child.
LEMMA LetGoHeld ==
  ASSUME IInv, NEW n \in Node, proc[n] \in {"load", "reject"},
         flk' = [flk EXCEPT ![jf[n].lock] = Nobody], pads' = pads
  PROVE  HoldStep(n)
<1> USE Parts
<1>1. \A p \in pads[n] : p.ino # jf[n].lock
  BY DEF HandLocked, Locked
<1>2. \A k \in Inode : k # jf[n].lock => flk'[k] = flk[k]
  BY DEF FsTypeOK
<1> QED
  BY <1>1, <1>2 DEF HoldStep, Held, Claimed

\* What is loaded from pend is whole, and has a try left.
LEMMA LoadKeepsWhole ==
  ASSUME IInv, KInv, NEW n \in Node, LoadPending(n)
  PROVE  KStep(n)
<1> USE Parts, KParts, JobFileAssumption
<1>1. proc[n] = "load" /\ data' = data /\ at' = at /\ pads' = pads
  BY LoadEffect
<1>2. CASE Untouched(n) /\ flk' = [flk EXCEPT ![jf[n].lock] = Nobody]
  <2>1. EntryStep(n)
    BY <1>1 DEF EntryStep
  <2> QED
    BY <1>1, <1>2, <2>1, LetGoHeld, UntouchedStore DEF KStep
<1>3. ASSUME NEW i \in Inode, at[i] = jf[n].nm, flk' = flk,
             jf'[n].mem = WithNextTry(data[i]), jf'[n].file = jf[n].file,
             proc'[n] = IF data[i].cmd THEN "claim" ELSE "reject"
      PROVE  KStep(n)
  <2>1. at[i] # NoName /\ at[i].st = "pend"
    BY <1>1, <1>3 DEF HandInUse, Opened, Starting, HandOpened, Due
  <2>2. (NoDeaths => TryCount(data[i]) < TryLimit) /\ data[i] \in Content
    BY <2>1 DEF FileWhole, FsTypeOK
  <2>3. /\ TryCount(jf'[n].mem) = TryCount(data[i]) + 1 /\ TryCount(data[i]) \in Nat
        /\ data[i].cmd => Commanded(jf'[n].mem)
    BY <1>3, <2>2, NextTryCmd, NextTryType, TryCountType DEF Commanded
  <2>4. NoDeaths => TryCount(jf'[n].mem) <= TryLimit
    BY <2>2, <2>3, JobManAssumption
  <2>5. EntryStep(n) /\ HoldStep(n)
    BY <1>1, <1>3, StillHeld DEF Claimed
  <2>6. DataStep(n)
    BY <1>1, <1>3 DEF DataStep, Left
  <2>7. StoreWhole(n)'
    BY <1>1, <1>3, <2>3, <2>4 DEF StoreWhole, Storing, Ending
  <2> QED
    BY <2>5, <2>6, <2>7 DEF KStep
<1> QED
  BY <1>1, <1>2, <1>3, LoadEffect

\* The claim moves a locked file to run.
LEMMA ClaimKeepsWhole ==
  ASSUME IInv, KInv, NEW n \in Node, ClaimPending(n)
  PROVE  KStep(n)
<1> USE KParts
<1> DEFINE l == jf[n].lock
<1>1. /\ proc[n] = "claim" /\ l \in Inode /\ flk[l] = n
      /\ data' = data /\ flk' = flk /\ pads' = pads
      /\ at[l] # NoName /\ at[l].st = "pend" /\ at'[l].st = "run"
      /\ \A k \in Inode : k # l => at'[k] = at[k]
      /\ jf'[n].mem = jf[n].mem /\ jf'[n].file = jf[n].file /\ jf'[n].lock = l
      /\ proc'[n] = "truncRun"
  BY ClaimEffect
<1> HIDE DEF l
<1>2. proc'[n] \in Claimed /\ flk'[l] = n
  BY <1>1 DEF Claimed
<1>3. EntryStep(n)
  BY <1>1, <1>2 DEF EntryStep, Held
<1>4. HoldStep(n)
  BY <1>1 DEF HoldStep, Held, Claimed
<1>5. DataStep(n)
  BY <1>1 DEF DataStep, Left
<1>6. StoreWhole(n)'
  BY <1>1 DEF StoreWhole, Storing, Ending
<1> QED
  BY <1>3, <1>4, <1>5, <1>6 DEF KStep

\* While the claimed file is empty it is being written.
LEMMA TruncateRunKeepsWhole ==
  ASSUME IInv, KInv, NEW n \in Node, TruncateRun(n)
  PROVE  KStep(n)
<1> USE KParts, JobManAssumption
<1> DEFINE l == jf[n].lock
<1>1. /\ proc[n] = "truncRun" /\ l \in Inode /\ at[l] # NoName /\ at[l].st = "run"
      /\ at' = at /\ flk' = flk /\ pads' = pads
      /\ data'[l] = Empty /\ \A k \in Inode : k # l => data'[k] = data[k]
      /\ \A p \in pads[n] : p.ino # l
      /\ jf'[n].mem = jf[n].mem /\ jf'[n].file = l /\ jf'[n].lock = l
      /\ proc'[n] = "writeRun"
  BY TruncateRunEffect
<1>2. EntryStep(n) /\ HoldStep(n)
  BY <1>1, StillHeld DEF Claimed
<1> HIDE DEF l
<1>3. \A k \in Inode : k # l => Left(n, k)
  BY <1>1 DEF Left, StoreWhole
<1>4. Emptied(n, l)
  BY <1>1 DEF Emptied
<1>5. DataStep(n)
  BY <1>3, <1>4 DEF DataStep
<1>6. \A p \in pads[n] : p.ino \in Inode
  BY Parts
<1>7. StoreWhole(n)'
  BY <1>1, <1>6 DEF StoreWhole, Storing, Ending
<1> QED
  BY <1>2, <1>5, <1>7 DEF KStep

\* What is written to run is whole.
LEMMA WriteRunKeepsWhole ==
  ASSUME IInv, KInv, NEW n \in Node, WriteRun(n)
  PROVE  KStep(n)
<1> USE KParts
<1> DEFINE l == jf[n].lock
<1>1. /\ proc[n] = "writeRun" /\ l \in Inode /\ at[l] # NoName /\ at[l].st = "run"
      /\ at' = at /\ flk' = flk /\ pads' = pads
      /\ data'[l] = jf[n].mem /\ \A k \in Inode : k # l => data'[k] = data[k]
      /\ \A p \in pads[n] : p.ino # l
      /\ jf[n].file = l
      /\ jf'[n].file = NoInode /\ jf'[n].lock = l
      /\ proc'[n] = "launch"
  BY WriteRunEffect
<1>2. EntryStep(n) /\ HoldStep(n)
  BY <1>1, StillHeld DEF Claimed
<1> HIDE DEF l
<1>3. \A k \in Inode : k # l => Left(n, k)
  BY <1>1 DEF Left
<1>4. Written(n, l)
  BY <1>1 DEF Written
<1>5. DataStep(n)
  BY <1>3, <1>4 DEF DataStep
<1>6. \A p \in pads[n] : p.ino \in Inode
  BY Parts
<1>7. Commanded(jf[n].mem)
  BY <1>1 DEF StoreWhole, Storing
<1>8. StoreWhole(n)'
  BY <1>1, <1>6, <1>7 DEF StoreWhole, Storing, Ending
<1> QED
  BY <1>2, <1>5, <1>8 DEF KStep

\* The child inherits the claim, or the job is done.
LEMMA LaunchKeepsWhole ==
  ASSUME IInv, KInv, NEW n \in Node, LaunchJob(n)
  PROVE  KStep(n)
<1> USE Parts, KParts, JobFileAssumption
<1> DEFINE l == jf[n].lock
<1>1. /\ proc[n] = "launch" /\ data' = data
      /\ jf'[n] = EmptyHand /\ proc'[n] = "solicit"
  BY LaunchEffect
<1>2. /\ l \in Inode /\ jf[n].nm \in Name
      /\ at[l] = jf[n].nm /\ jf[n].nm.st = "run" /\ flk[l] = n /\ \A p \in pads[n] : p.ino # l
  BY <1>1 DEF HandInUse, HandLocked, Locked, Claimed, Opened, Starting
<1>3. DataStep(n)
  <2>1. jf[n].file = NoInode
    BY <1>1 DEF StoreWhole
  <2> QED
    BY <1>1, <2>1, JobManAssumption DEF DataStep, Left
<1>4. CASE /\ at' = at /\ flk' = flk
           /\ \A p \in pads[n] : p \in pads'[n]
           /\ \E q \in pads'[n] : q.ino = l
           /\ \A q \in pads'[n] : q \in pads[n] \/ q.ino = l
  <2>1. EntryStep(n)
    BY <1>4 DEF EntryStep
  <2>2. HoldStep(n)
    BY <1>4, <1>1 DEF HoldStep, Held
  <2>3. \A q \in pads'[n] : Commanded(data'[q.ino])
    BY <1>1, <1>4 DEF StoreWhole
  <2>4. StoreWhole(n)'
    BY <1>1, <2>3 DEF StoreWhole, Storing, Ending, EmptyHand
  <2> QED
    BY <1>3, <2>1, <2>2, <2>4 DEF KStep
<1>5. CASE /\ pads' = pads /\ flk' = [flk EXCEPT ![l] = Nobody]
           /\ Resolves(jf[n].nm) => at' = Renamed(jf[n].nm, In("done", jf[n].nm))
  <2> DEFINE new == In("done", jf[n].nm)
  <2>1. new \in Name /\ new.st = "done" /\ new.id = at[l].id /\ Active(l)
    BY <1>2, MovedNameType DEF State, Active
  <2>2. at' = Renamed(at[l], new)
    BY <1>2, <1>5 DEF Resolves
  <2> HIDE DEF new, l
  <2>3. at' = [at EXCEPT ![l] = new]
    BY <1>2, <2>1, <2>2, RenamedOne
  <2>4. /\ at'[l] = new /\ \A k \in Inode : k # l => at'[k] = at[k] /\ flk'[k] = flk[k]
    BY <1>2, <1>5, <2>3 DEF FsTypeOK
  <2>5. EntryStep(n)
    BY <1>2, <2>1, <2>4 DEF EntryStep
  <2>6. HoldStep(n)
    <3>1. at'[l] # at[l]
      BY <1>2, <2>1, <2>4
    <3> QED
      BY <1>1, <1>5, <2>4, <3>1 DEF HoldStep, Held, l
  <2>7. StoreWhole(n)'
    BY <1>1, <1>5 DEF StoreWhole, Storing, Ending, EmptyHand
  <2> QED
    BY <1>3, <2>5, <2>6, <2>7 DEF KStep
<1> QED
  BY <1>4, <1>5, LaunchEffect

\* A job goes back to pend only if it has a try left.
LEMMA TryDoneKeepsWhole ==
  ASSUME IInv, KInv, NEW n \in Node, TryDone(n)
  PROVE  KStep(n)
<1> USE Parts, KParts
<1>1. PICK p \in pads[n] :
        LET l == p.ino
            new == Verdict(p, data[l]) IN
        /\ proc[n] = "idle" /\ l \in Inode /\ data' = data
        /\ at[l] # NoName /\ at[l].st = "run"
        /\ new \in Name /\ at' = [at EXCEPT ![l] = new]
        /\ flk' = [flk EXCEPT ![l] = Nobody]
        /\ pads'[n] = pads[n] \ {p}
        /\ jf'[n].nm = new /\ jf'[n].file = NoInode
        /\ jf'[n].mem = WithSection(data[l], "result", TryCount(data[l]))
        /\ proc'[n] = "truncEnd"
  BY TryDoneEffect
<1> DEFINE l == p.ino
           new == Verdict(p, data[l])
<1>2. p \in Pad /\ data[l] \in Content
  BY <1>1 DEF FsTypeOK
<1>3. new.st \in {"pend", "tied", "done"} /\ (new.st = "pend" => TryCount(data[l]) < TryLimit)
  <2>1. p.nm \in Name
    BY <1>2 DEF Pad
  <2>2. In("tied", p.nm).st = "tied" /\ DoneAt(now, p.nm).st = "done"
    BY <2>1 DEF In, DoneAt, Name
  <2> QED
    BY <1>2, <2>2, VerdictType DEF Verdict
<1>4. Commanded(data[l]) /\ (NoDeaths => TryCount(data[l]) <= TryLimit)
  <2>1. StoreWhole(n) /\ FileWhole(l)
    BY <1>1
  <2>2. Commanded(data[l])
    BY <2>1 DEF StoreWhole
  <2>3. NoDeaths => TryCount(data[l]) <= TryLimit
    BY <2>1 DEF FileWhole
  <2> QED
    BY <2>2, <2>3
<1>5. TryCount(data[l]) \in Nat
  BY <1>2, TryCountType
<1>6. Commanded(jf'[n].mem) /\ TryCount(jf'[n].mem) = TryCount(data[l])
  <2> DEFINE c == data[l]
             d == WithSection(c, "result", TryCount(c))
  <2>1. jf'[n].mem = d
    BY <1>1
  <2>2. c \in Content /\ TryCount(c) \in Nat
    BY <1>2, <1>5
  <2>3. d.cmd = c.cmd /\ TryCount(d) = TryCount(c)
    <3> HIDE DEF c
    <3> QED
      BY <2>2, SectionAdded
  <2> HIDE DEF d
  <2> QED
    BY <1>4, <2>1, <2>3 DEF Commanded
<1>7. \A q \in pads[n] : q.ino = l => q = p
  BY DEF PadsOwned
<1>8. /\ proc[n] = "idle" /\ l \in Inode /\ data' = data
      /\ at[l] # NoName /\ at[l].st = "run"
      /\ at'[l] = new /\ \A k \in Inode : k # l => at'[k] = at[k] /\ flk'[k] = flk[k]
      /\ pads'[n] = pads[n] \ {p}
      /\ jf'[n].nm = new /\ jf'[n].file = NoInode
      /\ proc'[n] = "truncEnd"
  BY <1>1 DEF FsTypeOK
<1> HIDE DEF new
<1>9. EntryStep(n)
  BY <1>3, <1>8 DEF EntryStep
<1>10. HoldStep(n)
  <2>1. at'[l] # at[l]
    BY <1>3, <1>8
  <2> QED
    BY <1>8, <2>1 DEF HoldStep, Held, Claimed
<1>11. DataStep(n)
  <2>1. jf[n].file = NoInode
    BY <1>8 DEF StoreWhole
  <2> QED
    BY <1>8, <2>1, JobManAssumption DEF DataStep, Left
<1>12. StoreWhole(n)'
  BY <1>3, <1>4, <1>6, <1>8 DEF StoreWhole, Storing, Ending
<1> QED
  BY <1>9, <1>10, <1>11, <1>12 DEF KStep

\* The file of a job that has ended may be created anew, but not in pend.
LEMMA TruncateEndKeepsWhole ==
  ASSUME IInv, KInv, NEW n \in Node, TruncateEnd(n)
  PROVE  KStep(n)
<1> USE Parts, KParts
<1>1. PICK i \in Inode :
        /\ proc[n] = "truncEnd"
        /\ IF Resolves(jf[n].nm) THEN at[i] = jf[n].nm ELSE at[i] = NoName
        /\ at[i] # NoName => at[i].st \notin {"hold", "run"}
        /\ at' = [at EXCEPT ![i] = jf[n].nm]
        /\ flk' = flk /\ pads' = pads
        /\ data'[i] = Empty /\ \A k \in Inode : k # i => data'[k] = data[k]
        /\ \A p \in pads[n] : p.ino # i
        /\ jf'[n].nm = jf[n].nm /\ jf'[n].mem = jf[n].mem /\ jf'[n].file = i
        /\ proc'[n] = "writeEnd"
  BY TruncateEndEffect
<1>2. at'[i] = jf[n].nm /\ \A k \in Inode : k # i => at'[k] = at[k]
  BY <1>1 DEF FsTypeOK
<1>3. /\ jf[n].nm.st \in {"pend", "tied", "done"}
      /\ jf[n].nm.st = "pend" => Resolves(jf[n].nm)
  BY <1>1 DEF HandEnding, Ending
<1>4. EntryStep(n)
  BY <1>1, <1>2, <1>3 DEF EntryStep
<1>5. HoldStep(n)
  BY <1>1, <1>2 DEF HoldStep, Held, Claimed
<1>6. DataStep(n)
  <2>1. jf[n].file = NoInode
    BY <1>1 DEF StoreWhole
  <2>2. \A k \in Inode : k # i => Left(n, k)
    BY <1>1, <2>1, JobManAssumption DEF Left
  <2>3. Emptied(n, i)
    BY <1>1, <1>2, <1>3 DEF Emptied
  <2> QED
    BY <2>2, <2>3 DEF DataStep
<1>7. StoreWhole(n)'
  BY <1>1 DEF StoreWhole, Storing, Ending
<1> QED
  BY <1>4, <1>5, <1>6, <1>7 DEF KStep

\* What is written after try_done is whole.
LEMMA WriteEndKeepsWhole ==
  ASSUME IInv, KInv, NEW n \in Node, WriteEnd(n)
  PROVE  KStep(n)
<1> USE Parts, KParts
<1> DEFINE i == jf[n].file
<1>1. /\ proc[n] = "writeEnd" /\ i \in Inode
      /\ at[i] # NoName => at[i].st \notin {"hold", "run"}
      /\ at[i] # NoName /\ at[i].st = "pend" => jf[n].nm.st = "pend"
      /\ at' = at /\ flk' = flk /\ pads' = pads
      /\ data'[i] = jf[n].mem /\ \A k \in Inode : k # i => data'[k] = data[k]
      /\ \A p \in pads[n] : p.ino # i
      /\ jf'[n].file = NoInode
      /\ proc'[n] = "idle"
  BY WriteEndEffect
<1>2. EntryStep(n) /\ HoldStep(n)
  BY <1>1, StillHeld DEF Claimed
<1>3. \A k \in Inode : k # i => Left(n, k)
  BY <1>1 DEF Left
<1>4. Written(n, i)
  BY <1>1 DEF Written
<1>5. DataStep(n)
  <2> HIDE DEF i
  <2> QED
    BY <1>3, <1>4 DEF DataStep
<1>6. StoreWhole(n)'
  BY <1>1 DEF StoreWhole, Storing, Ending
<1> QED
  BY <1>2, <1>5, <1>6 DEF KStep

\* What has no command goes to done.
LEMMA RejectKeepsWhole ==
  ASSUME IInv, KInv, NEW n \in Node, RejectPending(n)
  PROVE  KStep(n)
<1> USE Parts, KParts, JobFileAssumption
<1>1. /\ proc[n] = "reject" /\ pads' = pads
      /\ flk' = [flk EXCEPT ![jf[n].lock] = Nobody]
      /\ at' = at \/ at' = Renamed(jf[n].nm, In("done", jf[n].nm))
  BY DEF RejectPending, Release
<1>2. jf[n].nm \in Name /\ jf[n].nm.st = "pend"
  BY <1>1 DEF HandInUse, Opened, Starting, HandOpened, Due
<1>3. In("done", jf[n].nm).st = "done"
  BY <1>2, MovedNameType DEF State
<1>4. EntryStep(n)
  BY <1>1, <1>2, <1>3 DEF EntryStep, Renamed
<1>5. Untouched(n)
  BY QuietUntouched
<1> QED
  BY <1>1, <1>4, <1>5, LetGoHeld, UntouchedStore DEF KStep

\* What is in run has its manager, so bring_out_yer_dead finds it locked, or its
\* manager died and it goes back to pend.
LEMMA RaiseKeepsWhole ==
  ASSUME IInv, KInv, NEW n \in Node, RaiseDead(n)
  PROVE  KStep(n)
<1> USE Parts, KParts, JobFileAssumption
<1> DEFINE l == jf[n].lock
<1>1. proc[n] = "raise" /\ pads' = pads /\ flk' = flk /\ at' = MovedIfUnlocked(n, In("pend", jf[n].nm))
  BY DEF RaiseDead
<1>2. l \in Inode /\ jf[n].nm \in Name /\ jf[n].nm.st = "run" /\ Bound(l, jf[n].nm.id)
  BY <1>1 DEF HandInUse, HandOpened, Opened
<1>3. ASSUME NEW i \in Inode, at[i] = jf[n].nm
      PROVE  i = l /\ (NoDeaths => flk[l] # Nobody)
  <2>1. Active(i) /\ at[i].id = jf[n].nm.id
    BY <1>2, <1>3 DEF Active
  <2>2. i = l
    BY <1>2, <1>3, <2>1 DEF Bound, Over, UniqueActive
  <2>3. NoDeaths => Owned(i)
    BY <1>2, <1>3 DEF FileWhole
  <2> QED
    BY <2>2, <2>3 DEF Owned, Held
<1>4. In("pend", jf[n].nm).st = "pend"
  BY <1>2, MovedNameType DEF State
<1>5. EntryStep(n)
  <2>1. \A k \in Inode : at'[k] = at[k] \/ (at[k] = jf[n].nm /\ at'[k] = In("pend", jf[n].nm))
                        \/ at'[k] = NoName
    BY <1>1 DEF MovedIfUnlocked, Renamed
  <2>2. NoDeaths => at' = at
    BY <1>1, <1>3 DEF MovedIfUnlocked, Resolves
  <2> QED
    BY <1>2, <1>4, <2>1, <2>2 DEF EntryStep
<1>6. HoldStep(n)
  <2>1. NoDeaths => at' = at
    BY <1>1, <1>3 DEF MovedIfUnlocked, Resolves
  <2> QED
    BY <1>1, <2>1 DEF HoldStep, Held, Claimed
<1>7. Untouched(n)
  BY QuietUntouched
<1> QED
  BY <1>1, <1>5, <1>6, <1>7, UntouchedStore DEF KStep

\* A tied job goes to done.
LEMMA MoveTiedKeepsWhole ==
  ASSUME IInv, KInv, NEW n \in Node, MoveTied(n)
  PROVE  KStep(n)
<1> USE Parts, KParts, JobFileAssumption
<1>1. /\ proc[n] = "hugMove" /\ pads' = pads /\ flk' = flk
      /\ at' = at \/ at' = Renamed(jf[n].nm, DoneAt(now, jf[n].nm))
  BY DEF MoveTied, MovedIfUnlocked
<1>2. jf[n].nm \in Name /\ jf[n].nm.st = "tied"
  BY <1>1 DEF HandInUse, HandOpened, Opened
<1>3. DoneAt(now, jf[n].nm).st = "done"
  BY <1>2 DEF DoneAt, Name
<1>4. EntryStep(n)
  BY <1>1, <1>2, <1>3 DEF EntryStep, Renamed
<1>5. HoldStep(n)
  BY <1>1 DEF HoldStep, Held, Claimed
<1>6. Untouched(n)
  BY QuietUntouched
<1> QED
  BY <1>1, <1>4, <1>5, <1>6, UntouchedStore DEF KStep

\* The housekeeper removes.
LEMMA CleanKeepsWhole ==
  ASSUME IInv, KInv, NEW n \in Node, Clean(n)
  PROVE  KStep(n)
<1>1. UNCHANGED <<data, flk, proc, jf, pads>> /\ proc[n] = "idle"
  BY DEF Clean, manVars
<1>2. \A k \in Inode : at'[k] \in {at[k], NoName}
  BY Parts DEF Clean, Unlinked
<1>3. EntryStep(n)
  BY <1>2 DEF EntryStep
<1>4. HoldStep(n)
  BY <1>1 DEF HoldStep, Held
<1>5. Untouched(n)
  BY QuietUntouched
<1> QED
  BY <1>1, <1>3, <1>4, <1>5, UntouchedStore DEF KStep

\* A manager that ends between two tasks writes nothing.
LEMMA DieKeepsWhole ==
  ASSUME IInv, KInv, KeptAssumption, NEW n \in Node, Die(n)
  PROVE  KStep(n)
<1>1. ~NoDeaths /\ proc[n] = "idle" /\ at' = at
  BY Parts DEF Die, TypeOK, KeptAssumption, NoDeaths
<1>2. Untouched(n)
  BY QuietUntouched
<1> QED
  BY <1>1, <1>2, UntouchedStore DEF KStep, EntryStep, HoldStep

\* All that a manager does.
LEMMA NodeKeepsWhole ==
  ASSUME IInv, KInv, KeptAssumption, NEW n \in Node, NodeStep(n)
  PROVE  KStep(n)
BY DieKeepsWhole, ListKeepsWhole, KidKeepsWhole, LockKeepsWhole, LoadKeepsWhole, RejectKeepsWhole,
   ClaimKeepsWhole, TruncateRunKeepsWhole, WriteRunKeepsWhole, LaunchKeepsWhole,
   TryDoneKeepsWhole, TruncateEndKeepsWhole, WriteEndKeepsWhole, RaiseKeepsWhole,
   MoveTiedKeepsWhole, CleanKeepsWhole
   DEF NodeStep, Work

-----------------------------------------------------------------------------
(* What the other managers have *)

\* What a manager has claimed it keeps while others take a step.
LEMMA OthersHold ==
  ASSUME IInv, NEW n \in Node, KeepsInv(n), Others(n), NEW m \in Node \ {n}, NEW k \in Inode,
         Held(m, k)
  PROVE  Held(m, k)'
<1>1. flk'[k] = m
  BY DEF KeepsInv, FsStep, FsKeeps, LocksRespected, Held
<1> QED
  BY <1>1 DEF Others, Held

\* What it is about to write is its own.
LEMMA OthersStore ==
  ASSUME IInv, KInv, NEW n \in Node, KeepsInv(n), Others(n), NEW m \in Node \ {n}
  PROVE  StoreWhole(m)'
<1>1. proc'[m] = proc[m] /\ jf'[m] = jf[m] /\ pads'[m] = pads[m]
  BY DEF Others
<1>2. /\ proc[m] = "launch" => data'[jf[m].lock] = data[jf[m].lock]
      /\ \A p \in pads[m] : data'[p.ino] = data[p.ino]
  BY OthersUnwritten
<1>3. StoreWhole(m)
  BY KParts
<1> QED
  BY <1>1, <1>2, <1>3 DEF StoreWhole

\* What is in run after a manager's step has its owner.
LEMMA OwnerKept ==
  ASSUME IInv, KInv, NoDeaths, NEW n \in Node, KeepsInv(n), Others(n), KStep(n), NEW k \in Inode,
         at'[k] # NoName, at'[k].st = "run"
  PROVE  Owned(k)'
<1>1. CASE Held(n, k)'
  BY <1>1 DEF Owned
<1>2. CASE at'[k] = at[k]
  <2>1. Owned(k)
    BY <1>2, KParts DEF FileWhole
  <2>2. PICK m \in Node : Held(m, k)
    BY <2>1 DEF Owned
  <2>3. Held(m, k)'
    BY <1>2, <2>2, OthersHold DEF KStep, HoldStep
  <2> QED
    BY <2>3 DEF Owned
<1> QED
  BY <1>1, <1>2 DEF KStep, EntryStep

\* Contents after a manager's step.
LEMMA TryCountKept ==
  ASSUME IInv, KInv, NoDeaths, NEW n \in Node, KStep(n), NEW k \in Inode
  PROVE  /\ TryCount(data'[k]) <= TryLimit
         /\ at'[k] # NoName /\ at'[k].st \in {"hold", "pend"} => TryCount(data'[k]) < TryLimit
<1>1. StoreWhole(n) /\ FileWhole(k)
  BY KParts
<1>2. TryCount(Empty) = 0 /\ TryLimit \in Nat \ {0}
  BY JobManAssumption DEF TryCount, Empty
<1>3. CASE Left(n, k)
  <2>1. data'[k] = data[k]
    BY <1>3 DEF Left
  <2> QED
    BY <1>1, <2>1 DEF FileWhole, KStep, EntryStep
<1>4. CASE Emptied(n, k)
  BY <1>2, <1>4 DEF Emptied
<1>5. CASE Written(n, k)
  BY <1>1, <1>5 DEF Written, StoreWhole, Storing, Ending
<1> QED
  BY <1>3, <1>4, <1>5 DEF KStep, DataStep

\* Commands after a manager's step.
LEMMA CommandStays ==
  ASSUME IInv, KInv, NEW n \in Node, Others(n), KStep(n), NEW k \in Inode,
         at'[k] # NoName
  PROVE  /\ at'[k].st # "hold" /\ ~BeingWritten(k)' => Commanded(data'[k])
         /\ at'[k].st = "hold" => at'[k] = at[k] /\ data'[k] = data[k]
<1>1. StoreWhole(n) /\ FileWhole(k)
  BY KParts
<1>2. at'[k].st = "hold" => at'[k] = at[k]
  BY DEF KStep, EntryStep
<1>3. at'[k].st # "hold" /\ at[k] # NoName => at[k].st # "hold"
  BY DEF KStep, EntryStep
<1>4. CASE Left(n, k)
  <2>1. data'[k] = data[k]
    BY <1>4 DEF Left
  <2>2. ASSUME BeingWritten(k) PROVE BeingWritten(k)'
    <3>1. PICK m \in Node : jf[m].file = k
      BY <2>2 DEF BeingWritten
    <3>2. jf'[m].file = k
      BY <1>4, <3>1 DEF Left, Others
    <3> QED
      BY <3>2 DEF BeingWritten
  <2>3. at[k] = NoName /\ at'[k].st # "hold" => BeingWritten(k)'
    BY DEF KStep, EntryStep, BeingWritten
  <2> QED
    BY <1>1, <1>2, <1>3, <2>1, <2>2, <2>3 DEF FileWhole
<1>5. CASE Emptied(n, k)
  BY <1>5 DEF Emptied, BeingWritten
<1>6. CASE Written(n, k)
  BY <1>1, <1>6 DEF Written, StoreWhole, Storing, Ending
<1> QED
  BY <1>4, <1>5, <1>6 DEF KStep, DataStep

\* A manager's step keeps it all.
LEMMA KManagerStep ==
  ASSUME IInv, KInv, KeptAssumption, NEW n \in Node, NodeStep(n)
  PROVE  KInv'
<1>1. KeepsInv(n) /\ Others(n) /\ KStep(n)
  BY NodeKeeps, NodeKeepsWhole DEF KeptAssumption
<1>2. sub' = sub
  BY DEF NodeStep, Work, OpenPending, LockPending, LoadPending, RejectPending, ClaimPending,
     TruncateRun, WriteRun, LaunchJob, EndLoop, TruncateEnd, WriteEnd, OpenDead, RaiseDead,
     OpenTied, MoveTied, Solicit, TryDone, BringOutYerDead, GroupHug, Terminate, Clean,
     KidExits, Die, Restart
<1>3. ASSUME NEW k \in Inode PROVE FileWhole(k)'
  <2>1. FileWhole(k)
    BY KParts, <1>1
  <2> QED
    BY <1>1, <1>2, <2>1, OwnerKept, TryCountKept, CommandStays DEF FileWhole
<1>4. ASSUME NEW m \in Node PROVE StoreWhole(m)'
  BY <1>1, OthersStore DEF KStep
<1> QED
  BY <1>3, <1>4 DEF KInv

-----------------------------------------------------------------------------
(* mkjob, and the rest *)

\* mkjob's steps leave managers what they have.
LEMMA SubmitStore ==
  ASSUME IInv, KInv, NEW j \in Job, Submit(j)
  PROVE  /\ \A n \in Node : StoreWhole(n)'
         /\ \A k \in Inode : (Owned(k)' <=> Owned(k)) /\ (BeingWritten(k)' <=> BeingWritten(k))
<1>1. UNCHANGED <<flk, proc, jf, pads>>
  BY DEF Submit, CreateJob, FillJob, ReleaseJob, AbortJob, manVars
<1>2. ASSUME NEW n \in Node PROVE StoreWhole(n)'
  <2>1. /\ proc[n] = "launch" => data'[jf[n].lock] = data[jf[n].lock]
        /\ \A p \in pads[n] : data'[p.ino] = data[p.ino]
    BY SubmitUnwritten, RunUnwritten
  <2>2. StoreWhole(n)
    BY KParts
  <2> QED
    BY <1>1, <2>1, <2>2 DEF StoreWhole
<1>3. \A k \in Inode : (Owned(k)' <=> Owned(k)) /\ (BeingWritten(k)' <=> BeingWritten(k))
  BY <1>1 DEF Owned, Held, BeingWritten
<1> QED
  BY <1>2, <1>3

\* What they do to entries and contents
SubmitKeepsFile(k) ==
  \/ data'[k] = data[k] /\ at'[k] \in {at[k], NoName}
     /\ (at'[k] # NoName /\ at'[k].st = "hold" /\ sub'[at'[k].id] = "stored"
         => sub[at'[k].id] = "stored")
  \/ data'[k] = Empty /\ at'[k] # NoName /\ at'[k].st = "hold" /\ sub'[at'[k].id] # "stored"
  \/ data'[k] = Fresh /\ at'[k] = at[k] /\ (at[k] # NoName => at[k].st = "hold")
  \/ /\ data'[k] = data[k] /\ at[k] # NoName /\ at[k].st = "hold"
     /\ sub[at[k].id] = "stored"
     /\ at'[k] # NoName /\ at'[k].st = "pend"

\* mkjob creates, fills, releases or removes its own file only.
LEMMA SubmitFile ==
  ASSUME IInv, NEW j \in Job, Submit(j), NEW k \in Inode
  PROVE  SubmitKeepsFile(k)
<1>1. FsTypeOK /\ EntriesSubmitted /\ sub \in [Job -> {"none", "empty", "stored", "released", "aborted"}]
  BY DEF IInv, TInv, TypeOK
<1>2. CASE CreateJob(j)
  <2>1. PICK i \in Inode, t \in RunTimes :
          /\ at' = [at EXCEPT ![i] = [st |-> "hold", rt |-> t, id |-> j]]
          /\ data' = [data EXCEPT ![i] = Empty]
    BY <1>2 DEF CreateJob
  <2>2. sub[j] = "none" /\ sub' = [sub EXCEPT ![j] = "empty"]
    BY <1>2 DEF CreateJob
  <2>3. CASE k = i
    <3>1. at'[k] = [st |-> "hold", rt |-> t, id |-> j] /\ data'[k] = Empty /\ sub'[j] = "empty"
      BY <1>1, <2>1, <2>2, <2>3 DEF FsTypeOK
    <3>2. at'[k] \in Name
      BY <2>1, <3>1, JobManAssumption DEF Name, State
    <3> QED
      BY <3>1, <3>2, JobFileAssumption DEF SubmitKeepsFile
  <2>4. CASE k # i
    <3>1. at'[k] = at[k] /\ data'[k] = data[k]
      BY <1>1, <2>1, <2>4 DEF FsTypeOK
    <3>2. at[k] # NoName => at[k] \in Name /\ sub[at[k].id] # "none"
      BY <1>1 DEF FsTypeOK, EntriesSubmitted
    <3>3. at[k] # NoName => at[k].id \in Job /\ sub'[at[k].id] = sub[at[k].id]
      BY <1>1, <2>2, <3>2 DEF Name
    <3> QED
      BY <3>1, <3>3 DEF SubmitKeepsFile
  <2> QED
    BY <2>3, <2>4
<1>3. CASE FillJob(j)
  <2>1. /\ sub' = [sub EXCEPT ![j] = "stored"] /\ at' = at
        /\ data'[k] = IF at[k] \in Listing("hold") /\ at[k].id = j THEN Fresh ELSE data[k]
    BY <1>3 DEF FillJob
  <2>2. at[k] # NoName => at[k] \in Name
    BY <1>1 DEF FsTypeOK
  <2>3. CASE at[k] # NoName /\ at[k].st = "hold" /\ at[k].id = j
    BY <2>1, <2>3 DEF SubmitKeepsFile, Listing
  <2>4. CASE ~(at[k] # NoName /\ at[k].st = "hold" /\ at[k].id = j)
    <3>1. data'[k] = data[k]
      BY <2>1, <2>4 DEF Listing
    <3>2. at[k] # NoName /\ at[k].st = "hold" => sub'[at[k].id] = sub[at[k].id]
      BY <1>1, <2>1, <2>2, <2>4 DEF Name
    <3> QED
      BY <2>1, <3>1, <3>2 DEF SubmitKeepsFile
  <2> QED
    BY <2>3, <2>4
<1>4. CASE ReleaseJob(j)
  <2>1. PICK nm \in Listing("hold") : nm.id = j /\ at' = Renamed(nm, In("pend", nm))
    BY <1>4 DEF ReleaseJob
  <2>2. sub[j] = "stored" /\ sub' = [sub EXCEPT ![j] = "released"] /\ data' = data
    BY <1>4 DEF ReleaseJob
  <2>3. nm \in Name /\ nm.st = "hold" /\ nm # NoName
    BY <1>1 DEF Listing, FsTypeOK
  <2>4. In("pend", nm) \in Name /\ In("pend", nm).st = "pend"
    BY <2>3, MovedNameType DEF State
  <2>5. CASE at[k] = nm
    BY <2>1, <2>2, <2>3, <2>4, <2>5, JobFileAssumption DEF Renamed, SubmitKeepsFile
  <2>6. CASE at[k] # nm
    <3>1. at'[k] \in {at[k], NoName} /\ data'[k] = data[k]
      BY <2>1, <2>2, <2>6 DEF Renamed
    <3>2. at[k] # NoName => at[k] \in Name
      BY <1>1 DEF FsTypeOK
    <3>3. at'[k] # NoName /\ sub'[at'[k].id] = "stored" => sub[at'[k].id] = "stored"
      BY <1>1, <2>2, <3>1, <3>2 DEF Name
    <3> QED
      BY <3>1, <3>3 DEF SubmitKeepsFile
  <2> QED
    BY <2>5, <2>6
<1>5. CASE AbortJob(j)
  <2>1. sub' = [sub EXCEPT ![j] = "aborted"] /\ data' = data
    BY <1>5 DEF AbortJob
  <2>2. at'[k] \in {at[k], NoName}
    BY <1>5 DEF AbortJob, Unlinked
  <2>3. at[k] # NoName => at[k] \in Name
    BY <1>1 DEF FsTypeOK
  <2>4. at'[k] # NoName /\ sub'[at'[k].id] = "stored" => sub[at'[k].id] = "stored"
    BY <1>1, <2>1, <2>2, <2>3 DEF Name
  <2> QED
    BY <2>1, <2>2, <2>4 DEF SubmitKeepsFile
<1> QED
  BY <1>2, <1>3, <1>4, <1>5 DEF Submit

\* mkjob releases only what it has filled, so its steps keep it all.
LEMMA KSubmitStep ==
  ASSUME IInv, KInv, NEW j \in Job, Submit(j)
  PROVE  KInv'
<1>1. TryCount(Empty) = 0 /\ TryCount(Fresh) = 0 /\ Commanded(Fresh) /\ TryLimit \in Nat \ {0}
  BY JobManAssumption DEF TryCount, Empty, Fresh, Commanded
<1>2. ASSUME NEW k \in Inode PROVE FileWhole(k)'
  <2>1. FileWhole(k)
    BY DEF KInv
  <2>2. (Owned(k)' <=> Owned(k)) /\ (BeingWritten(k)' <=> BeingWritten(k))
    BY SubmitStore
  <2> QED
    BY <1>1, <2>1, <2>2, SubmitFile DEF SubmitKeepsFile, FileWhole
<1> QED
  BY <1>2, SubmitStore DEF KInv

\* KInv is inductive, together with IInv, if nobody dies in the middle of a task.
LEMMA KInvStep ==
  ASSUME IInv, KInv, KeptAssumption, [Next]_vars
  PROVE  KInv'
<1>1. CASE \E n \in Node : NodeStep(n)
  BY <1>1, KManagerStep
<1>2. CASE \E j \in Job : Submit(j)
  BY <1>2, KSubmitStep
<1>3. CASE Tick \/ UNCHANGED vars \/ \E j \in Job : OrphanExits(j) \/ KillOrder(j)
  <2>1. UNCHANGED <<at, data, flk, sub, proc, jf, pads>>
    BY <1>3 DEF Tick, vars, OrphanExits, KillOrder, fsVars, manVars
  <2> QED
    BY <2>1 DEF KInv, FileWhole, StoreWhole, Owned, Held, BeingWritten
<1> QED
  BY <1>1, <1>2, <1>3 DEF Next, NodeStep

\* It holds at first.
LEMMA KInvInit == Init => KInv
<1>1. TryCount(Empty) = 0 /\ TryLimit \in Nat \ {0}
  BY JobManAssumption DEF TryCount, Empty
<1> QED
  BY <1>1 DEF Init, FsInit, KInv, FileWhole, StoreWhole, EmptyHand, Storing, Ending

\* Both hold throughout.
LEMMA KSafe == KeptAssumption => (Spec => [](IInv /\ KInv))
<1> SUFFICES ASSUME KeptAssumption PROVE Spec => [](IInv /\ KInv)
  OBVIOUS
<1>1. Init => IInv /\ KInv
  BY InvInit, KInvInit
<1>2. IInv /\ KInv /\ [Next]_vars => IInv' /\ KInv'
  BY InvStep, KInvStep DEF KeptAssumption
<1> QED
  BY <1>1, <1>2, PTL DEF Spec

\* As long as managers only end between two tasks, however often they do and are
\* started again, every job file that nobody is writing has its command, through
\* retries and ties and whoever takes the job.
THEOREM CommandKeptSafe == KeptAssumption => (Spec => []CommandKept)
<1> SUFFICES ASSUME KeptAssumption PROVE Spec => []CommandKept
  OBVIOUS
<1>1. Spec => [](IInv /\ KInv)
  BY KSafe
<1>2. KInv => CommandKept
  BY DEF KInv, FileWhole, CommandKept, Commanded
<1> QED
  BY <1>1, <1>2, PTL

\* ... and if no manager ends, no job starts a try beyond its limit.
THEOREM TryLimitSafe == KeptAssumption /\ NoDeaths => (Spec => []TryLimitKept)
<1> SUFFICES ASSUME KeptAssumption, NoDeaths PROVE Spec => []TryLimitKept
  OBVIOUS
<1>1. Spec => [](IInv /\ KInv)
  BY KSafe
<1>2. KInv => TryLimitKept
  BY DEF KInv, FileWhole, TryLimitKept
<1> QED
  BY <1>1, <1>2, PTL
=============================================================================
