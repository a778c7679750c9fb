---------------------------- MODULE JobManProofs ----------------------------
(***************************************************************************)
(* Proofs about JobMan, for any nodes, jobs, inodes, clocks and limits:    *)
(* its type correctness, that the run limit is kept, and that no job ever  *)
(* has two processes.                                                      *)
(***************************************************************************)
EXTENDS JobManInv, FiniteSetTheorems, TLAPS

-----------------------------------------------------------------------------
(* Names and contents *)

\* A section can be added to any contents, and TryCount then is its Try-Count.
LEMMA WithSectionType ==
  ASSUME NEW c \in Content, NEW kind \in {"output", "result"}, NEW try \in Nat
  PROVE  /\ WithSection(c, kind, try) \in Content
         /\ WithSection(c, kind, try).cmd = c.cmd
         /\ TryCount(WithSection(c, kind, try)) = try
<1> DEFINE s == [kind |-> kind, try |-> try]
<1>1. s \in Section
  BY DEF Section
<1>2. c.log \in Seq(Section) /\ c.cmd \in BOOLEAN
  BY DEF Content
<1>3. /\ Append(c.log, s) \in Seq(Section)
      /\ Len(Append(c.log, s)) = Len(c.log) + 1
      /\ Append(c.log, s)[Len(c.log) + 1] = s
      /\ Append(c.log, s) # <<>>
  BY <1>1, <1>2
<1>4. WithSection(c, kind, try) = [cmd |-> c.cmd, log |-> Append(c.log, s)]
  <2>1. PICK x : x = Append(c.log, s)
    OBVIOUS
  <2>2. WithSection(c, kind, try) = [c EXCEPT !.log = x]
    BY <2>1, Zenon DEF WithSection
  <2>3. [c EXCEPT !.log = x] = [cmd |-> c.cmd, log |-> x]
    BY DEF Content
  <2> QED
    BY <2>1, <2>2, <2>3, Zenon
<1> QED
  BY <1>2, <1>3, <1>4 DEF Content, TryCount

\* The Try-Count of any contents is a number.
LEMMA TryCountType ==
  ASSUME NEW c \in Content
  PROVE  TryCount(c) \in Nat
<1>1. c.log \in Seq(Section)
  BY DEF Content
<1>2. c.log # <<>> => Len(c.log) \in 1..Len(c.log)
  BY <1>1
<1>3. c.log # <<>> => c.log[Len(c.log)] \in Section
  BY <1>1, <1>2
<1> QED
  BY <1>3 DEF TryCount, Section

\* run_a_job's sections for the next try: the try count goes up by one.
LEMMA NextTryType ==
  ASSUME NEW c \in Content
  PROVE  /\ WithNextTry(c) \in Content
         /\ TryCount(WithNextTry(c)) = TryCount(c) + 1
<1> DEFINE r == WithMissingResult(c)
<1>1. TryCount(c) \in Nat
  BY TryCountType
<1>2. r \in Content /\ TryCount(r) = TryCount(c)
  BY <1>1, WithSectionType DEF WithMissingResult
<1> HIDE DEF r
<1> DEFINE t == TryCount(c) + 1
<1>3. t \in Nat
  BY <1>1, <1>2
<1> HIDE DEF t
<1>4. WithSection(r, "output", t) \in Content /\ TryCount(WithSection(r, "output", t)) = t
  BY <1>2, <1>3, WithSectionType
<1>5. WithNextTry(c) = WithSection(r, "output", t)
  BY DEF WithNextTry, r, t
<1> QED
  BY <1>4, <1>5 DEF t

\* The contents of a file just truncated, and of one just submitted.
LEMMA EmptyFreshType == Empty \in Content /\ Fresh \in Content
BY DEF Empty, Fresh, Content

\* The names a move gives a file.
LEMMA MovedNameType ==
  ASSUME NEW nm \in Name, NEW s \in State
  PROVE  /\ In(s, nm) \in Name
         /\ In(s, nm).st = s
         /\ In(s, nm).id = nm.id
         /\ In(s, nm).rt = nm.rt
BY DEF In, Name, State

LEMMA RetryNameType ==
  ASSUME NEW nm \in Name, NEW s \in State, NEW t \in Nat
  PROVE  /\ [In(s, nm) EXCEPT !.rt = t] \in Name
         /\ [In(s, nm) EXCEPT !.rt = t].st = s
         /\ [In(s, nm) EXCEPT !.rt = t].id = nm.id
         /\ [In(s, nm) EXCEPT !.rt = t].rt = t
BY DEF In, Name, State

LEMMA DoneNameType ==
  ASSUME NEW nm \in Name, NEW t \in Nat
  PROVE  /\ DoneAt(t, nm) \in Name
         /\ DoneAt(t, nm).st = "done"
         /\ DoneAt(t, nm).id = nm.id
BY DEF DoneAt, Name, State

\* rename(2) keeps the directory well formed.
LEMMA RenamedType ==
  ASSUME FsTypeOK, NEW old, NEW new \in Name
  PROVE  Renamed(old, new) \in [Inode -> Name \cup {NoName}]
BY DEF FsTypeOK, Renamed

LEMMA ListingType ==
  ASSUME FsTypeOK, NEW s, NEW t
  PROVE  Listing(s) \subseteq Name /\ DueBy(t) \subseteq Name
BY DEF FsTypeOK, Listing, DueBy

-----------------------------------------------------------------------------
(* Type correctness *)

\* A job::file object that has only just been constructed or destructed.
LEMMA HandType ==
  /\ EmptyHand \in Hand
  /\ \A nm \in Name, i \in Inode : [EmptyHand EXCEPT !.nm = nm, !.lock = i] \in Hand
  /\ \A nm \in Name, c \in Content : [EmptyHand EXCEPT !.nm = nm, !.mem = c] \in Hand
BY EmptyFreshType DEF Hand, EmptyHand

\* A new object for a listed name, with its lock file open.
LEMMA OpenedType ==
  ASSUME TypeOK, NEW n \in Node, NEW nm \in Name, NEW i \in Inode,
         jf' = [jf EXCEPT ![n] = [EmptyHand EXCEPT !.nm = nm, !.lock = i]]
  PROVE  jf' \in [Node -> Hand]
<1> DEFINE h == [EmptyHand EXCEPT !.nm = nm, !.lock = i]
<1>1. h \in Hand
  BY HandType
<1> HIDE DEF h
<1>2. jf' = [jf EXCEPT ![n] = h]
  BY DEF h
<1> QED
  BY <1>1, <1>2 DEF TypeOK

\* Dropping an entry of a listing, and with it the job::file.
LEMMA SkipType ==
  ASSUME TypeOK, NEW n \in Node, NEW nm, NEW loop \in Steps, Skip(n, nm, loop)
  PROVE  /\ todo' \in [Node -> SUBSET Name]
         /\ jf' \in [Node -> Hand]
         /\ proc' \in [Node -> Steps]
BY HandType DEF TypeOK, Skip, Goto

LEMMA GotoType ==
  ASSUME TypeOK, NEW n \in Node, NEW step \in Steps, Goto(n, step)
  PROVE  proc' \in [Node -> Steps]
BY DEF TypeOK, Goto

\* Starting on an entry of a listing: open it, or drop it.
LEMMA OpenType ==
  ASSUME TypeOK, NEW n \in Node, NEW nm \in todo[n], NEW next \in Steps,
         NEW loop \in Steps, Open(n, nm, next, loop)
  PROVE  /\ todo' \in [Node -> SUBSET Name]
         /\ jf' \in [Node -> Hand]
         /\ proc' \in [Node -> Steps]
<1>1. nm \in Name
  BY DEF TypeOK
<1>2. CASE \E i \in Inode :
             /\ jf' = [jf EXCEPT ![n] = [EmptyHand EXCEPT !.nm = nm, !.lock = i]]
             /\ Goto(n, next)
             /\ UNCHANGED todo
  BY <1>1, <1>2, OpenedType, GotoType DEF TypeOK
<1>3. CASE Skip(n, nm, loop)
  BY <1>3, SkipType
<1> QED
  BY <1>2, <1>3 DEF Open

LEMMA OpenForWriteType ==
  ASSUME TypeOK, NEW n \in Node, NEW step \in Steps, OpenForWrite(n, step)
  PROVE  /\ at' \in [Inode -> Name \cup {NoName}]
         /\ data' \in [Inode -> Content]
         /\ jf' \in [Node -> Hand]
         /\ proc' \in [Node -> Steps]
<1>1. PICK i \in Inode :
        /\ at' = [at EXCEPT ![i] = jf[n].nm]
        /\ data' = [data EXCEPT ![i] = Empty]
        /\ jf' = [jf EXCEPT ![n].file = i]
        /\ Goto(n, step)
  BY DEF OpenForWrite
<1>2. jf[n].nm \in Name \cup {NoName}
  BY DEF TypeOK, Hand
<1>3. jf' \in [Node -> Hand]
  BY <1>1 DEF TypeOK, Hand
<1> QED
  BY <1>1, <1>2, <1>3, EmptyFreshType, GotoType DEF TypeOK, FsTypeOK

LEMMA FlushType ==
  ASSUME TypeOK, NEW n \in Node, NEW step \in Steps, Flush(n, step)
  PROVE  /\ data' \in [Inode -> Content]
         /\ jf' \in [Node -> Hand]
         /\ proc' \in [Node -> Steps]
BY GotoType DEF TypeOK, FsTypeOK, Flush, Hand

\* A manager's launch pads are replaced by a finite set of launch pads.
LEMMA PadsType ==
  ASSUME TypeOK, NEW n \in Node, NEW P \in SUBSET Pad, IsFiniteSet(P),
         pads' = [pads EXCEPT ![n] = P]
  PROVE  pads' \in [Node -> SUBSET Pad] /\ \A m \in Node : IsFiniteSet(pads'[m])
BY DEF TypeOK

\* A child changing its status.
LEMMA KidType ==
  ASSUME TypeOK, NEW n \in Node, NEW p \in pads[n], NEW e \in Exit,
         \/ UNCHANGED pads
         \/ pads' = [pads EXCEPT ![n] = (@ \ {p}) \cup {[p EXCEPT !.kid = e]}]
  PROVE  pads' \in [Node -> SUBSET Pad] /\ \A m \in Node : IsFiniteSet(pads'[m])
<1> DEFINE q == [p EXCEPT !.kid = e]
           P == (pads[n] \ {p}) \cup {q}
<1>1. p \in Pad
  BY DEF TypeOK
<1>2. q \in Pad
  BY <1>1 DEF Pad
<1>3. UNCHANGED pads \/ pads' = [pads EXCEPT ![n] = P]
  BY DEF TypeOK
<1> HIDE DEF q
<1>4. P \in SUBSET Pad
  BY <1>2 DEF TypeOK
<1>5. IsFiniteSet(P)
  BY FS_AddElement, FS_RemoveElement DEF TypeOK
<1> HIDE DEF P
<1>6. CASE UNCHANGED pads
  BY <1>6 DEF TypeOK
<1>7. CASE pads' = [pads EXCEPT ![n] = P]
  BY <1>4, <1>5, <1>7, PadsType
<1> QED
  BY <1>3, <1>6, <1>7

\* Where try_done sends a job.
LEMMA VerdictType ==
  ASSUME TypeOK, NEW p \in Pad, NEW c \in Content
  PROVE  /\ Verdict(p, c) \in Name
         /\ Verdict(p, c).id = p.nm.id
         /\ \/ Verdict(p, c).st \in {"tied", "done"}
            \/ Verdict(p, c).st = "pend" /\ Verdict(p, c).rt = now + Delay * TryCount(c)
<1>1. p.nm \in Name /\ now \in Nat
  BY DEF TypeOK, Pad
<1> DEFINE t == now + Delay * TryCount(c)
<1>2. t \in Nat
  BY <1>1, TryCountType, JobManAssumption
<1>3. Verdict(p, c) \in {[In("pend", p.nm) EXCEPT !.rt = t], In("tied", p.nm), DoneAt(now, p.nm)}
  BY DEF Verdict
<1> HIDE DEF t
<1>a. /\ [In("pend", p.nm) EXCEPT !.rt = t] \in Name
      /\ [In("pend", p.nm) EXCEPT !.rt = t].id = p.nm.id
      /\ [In("pend", p.nm) EXCEPT !.rt = t].st = "pend"
      /\ [In("pend", p.nm) EXCEPT !.rt = t].rt = t
  BY <1>1, <1>2, RetryNameType DEF State
<1>b. /\ In("tied", p.nm) \in Name
      /\ In("tied", p.nm).id = p.nm.id
      /\ In("tied", p.nm).st = "tied"
  BY <1>1, MovedNameType DEF State
<1>c. /\ DoneAt(now, p.nm) \in Name
      /\ DoneAt(now, p.nm).id = p.nm.id
      /\ DoneAt(now, p.nm).st = "done"
  BY <1>1, DoneNameType
<1>4. /\ Verdict(p, c) \in Name
      /\ Verdict(p, c).id = p.nm.id
      /\ \/ Verdict(p, c).st \in {"tied", "done"}
         \/ Verdict(p, c).st = "pend" /\ Verdict(p, c).rt = t
  BY <1>3, <1>a, <1>b, <1>c
<1> QED
  BY <1>4 DEF t

\* Every step of a job manager, of mkjob and of the world keeps the types.
LEMMA TypeStep ==
  ASSUME TInv, [Next]_vars
  PROVE  TypeOK'
<1> USE JobFileAssumption, JobManAssumption
<1>0. TypeOK /\ FsTypeOK /\ \A n \in Node : HandInUse(n)
  BY DEF TInv, TypeOK
<1>1. ASSUME NEW j \in Job, CreateJob(j) PROVE TypeOK'
  BY <1>0, <1>1, EmptyFreshType DEF TypeOK, FsTypeOK, CreateJob, Name, State, manVars, envVars
<1>2. ASSUME NEW j \in Job, FillJob(j) PROVE TypeOK'
  BY <1>0, <1>2, EmptyFreshType DEF TypeOK, FsTypeOK, FillJob, manVars, envVars
<1>3. ASSUME NEW j \in Job, ReleaseJob(j) PROVE TypeOK'
  <2>1. PICK nm \in Listing("hold") : at' = Renamed(nm, In("pend", nm))
    BY <1>3 DEF ReleaseJob
  <2>2. nm \in Name
    BY <1>0, <2>1 DEF Listing, FsTypeOK
  <2>3. In("pend", nm) \in Name
    BY <2>2, MovedNameType DEF State
  <2>4. at' \in [Inode -> Name \cup {NoName}]
    BY <1>0, <2>1, <2>3, RenamedType
  <2> QED
    BY <1>0, <1>3, <2>4 DEF TypeOK, FsTypeOK, ReleaseJob, manVars, envVars
<1>4. ASSUME NEW j \in Job, AbortJob(j) PROVE TypeOK'
  BY <1>0, <1>4 DEF Unlinked, TypeOK, FsTypeOK, AbortJob, fsVars, manVars, envVars
<1>5. ASSUME NEW n \in Node, Solicit(n) PROVE TypeOK'
  <2>1. \A t : DueBy(t) \subseteq Name
    BY <1>0, ListingType
  <2>2. todo' \in [Node -> SUBSET Name]
    BY <1>0, <1>5, <2>1 DEF Solicit, TypeOK
  <2>3. Room(n) \in Int
    <3>1. Cardinality(pads[n]) \in Nat
      BY <1>0, FS_CardinalityType DEF TypeOK
    <3> QED
      BY <3>1 DEF Room
  <2>4. need' \in [Node -> Int]
    BY <1>0, <1>5, <2>3 DEF Solicit, TypeOK
  <2>5. proc' \in [Node -> Steps]
    BY <1>0, <1>5, GotoType DEF Solicit, Steps
  <2> QED
    BY <1>0, <1>5, <2>2, <2>4, <2>5 DEF Solicit, TypeOK, FsTypeOK, fsVars, envVars
<1>6. ASSUME NEW n \in Node, OpenPending(n) PROVE TypeOK'
  <2>1. PICK nm \in todo[n] : Open(n, nm, "lock", "solicit")
    BY <1>6 DEF OpenPending
  <2> QED
    BY <1>0, <1>6, <2>1, OpenType
    DEF OpenPending, TypeOK, FsTypeOK, Steps, fsVars, envVars
<1>7. ASSUME NEW n \in Node, LockPending(n) PROVE TypeOK'
  <2>1. flk' \in [Inode -> Node \cup {Nobody}]
    BY <1>0, <1>7 DEF LockPending, FsTypeOK
  <2>2. /\ todo' \in [Node -> SUBSET Name]
        /\ jf' \in [Node -> Hand]
        /\ proc' \in [Node -> Steps]
    BY <1>0, <1>7, SkipType, GotoType DEF LockPending, TypeOK, Steps
  <2> QED
    BY <1>0, <1>7, <2>1, <2>2 DEF LockPending, TypeOK, FsTypeOK, envVars
<1>8. ASSUME NEW n \in Node, LoadPending(n) PROVE TypeOK'
  <2>1. flk' \in [Inode -> Node \cup {Nobody}]
    BY <1>0, <1>8 DEF LoadPending, Release, FsTypeOK
  <2>2. CASE Skip(n, jf[n].nm, "solicit")
    BY <1>0, <1>8, <2>1, <2>2, SkipType DEF LoadPending, TypeOK, FsTypeOK, Steps, envVars
  <2>3. CASE \E i \in Inode :
               /\ jf' = [jf EXCEPT ![n].mem = WithNextTry(data[i])]
               /\ Goto(n, IF data[i].cmd THEN "claim" ELSE "reject")
               /\ UNCHANGED <<flk, todo>>
    <3>1. PICK i \in Inode :
               /\ jf' = [jf EXCEPT ![n].mem = WithNextTry(data[i])]
               /\ Goto(n, IF data[i].cmd THEN "claim" ELSE "reject")
               /\ UNCHANGED <<flk, todo>>
      BY <2>3
    <3>2. WithNextTry(data[i]) \in Content
      BY <1>0, NextTryType DEF FsTypeOK
    <3>3. jf' \in [Node -> Hand]
      BY <1>0, <3>1, <3>2, SMTT(30) DEF TypeOK, Hand
    <3>4. proc' \in [Node -> Steps]
      BY <1>0, <3>1, GotoType DEF Steps
    <3> QED
      BY <1>0, <1>8, <2>1, <3>1, <3>3, <3>4 DEF LoadPending, TypeOK, FsTypeOK, envVars
  <2> QED
    BY <1>8, <2>2, <2>3 DEF LoadPending
<1>9. ASSUME NEW n \in Node, RejectPending(n) PROVE TypeOK'
  <2>1. jf[n].nm \in Name
    BY <1>0, <1>9 DEF RejectPending, HandInUse, Opened, Starting
  <2>2. at' \in [Inode -> Name \cup {NoName}]
    BY <1>0, <1>9, <2>1, RenamedType, MovedNameType DEF RejectPending, State, FsTypeOK
  <2>3. flk' \in [Inode -> Node \cup {Nobody}]
    BY <1>0, <1>9 DEF RejectPending, Release, FsTypeOK
  <2> QED
    BY <1>0, <1>9, <2>2, <2>3, SkipType DEF RejectPending, TypeOK, FsTypeOK, Steps, envVars
<1>10. ASSUME NEW n \in Node, ClaimPending(n) PROVE TypeOK'
  <2>1. jf[n].nm \in Name
    BY <1>0, <1>10 DEF ClaimPending, HandInUse, Opened, Starting
  <2>2. In("run", jf[n].nm) \in Name
    BY <2>1, MovedNameType DEF State
  <2>3. at' \in [Inode -> Name \cup {NoName}]
    BY <1>0, <1>10, <2>2, RenamedType DEF ClaimPending, FsTypeOK
  <2>4. jf' \in [Node -> Hand]
    BY <1>0, <1>10, <2>2 DEF ClaimPending, TypeOK, Hand
  <2>5. todo' \in [Node -> SUBSET Name]
    BY <1>0, <1>10 DEF ClaimPending, TypeOK
  <2>6. proc' \in [Node -> Steps]
    BY <1>0, <1>10, GotoType DEF ClaimPending, Steps
  <2> QED
    BY <1>0, <1>10, <2>3, <2>4, <2>5, <2>6 DEF ClaimPending, TypeOK, FsTypeOK, envVars
<1>11. ASSUME NEW n \in Node, TruncateRun(n) PROVE TypeOK'
  BY <1>0, <1>11, OpenForWriteType DEF TruncateRun, TypeOK, FsTypeOK, Steps, envVars
<1>12. ASSUME NEW n \in Node, WriteRun(n) PROVE TypeOK'
  BY <1>0, <1>12, FlushType DEF WriteRun, TypeOK, FsTypeOK, Steps, envVars
<1>13. ASSUME NEW n \in Node, LaunchJob(n) PROVE TypeOK'
  <2> DEFINE nm == jf[n].nm
             pad == [nm |-> In("run", nm), ino |-> jf[n].lock, kid |-> "alive"]
  <2>1. nm \in Name /\ jf[n].lock \in Inode
    BY <1>0, <1>13 DEF LaunchJob, HandInUse, Opened, Starting
  <2>2. pad \in Pad /\ In("done", nm) \in Name
    BY <2>1, MovedNameType DEF Pad, State
  <2> HIDE DEF pad, nm
  <2>3. \/ pads' = [pads EXCEPT ![n] = @ \cup {pad}] /\ UNCHANGED <<at, flk>>
        \/ /\ at' = IF Resolves(nm) THEN Renamed(nm, In("done", nm)) ELSE at
           /\ Release(jf[n].lock)
           /\ UNCHANGED pads
    BY <1>13 DEF LaunchJob, pad, nm
  <2>4. /\ at' \in [Inode -> Name \cup {NoName}]
        /\ flk' \in [Inode -> Node \cup {Nobody}]
    <3>1. Renamed(nm, In("done", nm)) \in [Inode -> Name \cup {NoName}]
      BY <1>0, <2>2, RenamedType
    <3> QED
      BY <1>0, <2>3, <3>1 DEF Release, FsTypeOK
  <2>5. pads' \in [Node -> SUBSET Pad] /\ \A m \in Node : IsFiniteSet(pads'[m])
    <3> DEFINE P == pads[n] \cup {pad}
    <3>1. P \in SUBSET Pad /\ IsFiniteSet(P)
      BY <1>0, <2>2, FS_AddElement DEF TypeOK
    <3>2. UNCHANGED pads \/ pads' = [pads EXCEPT ![n] = P]
      BY <2>3
    <3> HIDE DEF P
    <3> QED
      BY <1>0, <3>1, <3>2, PadsType DEF TypeOK
  <2>6. need' \in [Node -> Int] /\ jf' \in [Node -> Hand] /\ proc' \in [Node -> Steps]
    <3>1. /\ need' = [need EXCEPT ![n] = @ - 1]
          /\ jf' = [jf EXCEPT ![n] = EmptyHand]
          /\ Goto(n, "solicit")
      BY <1>13 DEF LaunchJob
    <3>2. need' \in [Node -> Int]
      BY <1>0, <3>1 DEF TypeOK
    <3>3. jf' \in [Node -> Hand]
      BY <1>0, <3>1, HandType DEF TypeOK
    <3> QED
      BY <1>0, <3>1, <3>2, <3>3, GotoType DEF Steps
  <2> QED
    BY <1>0, <1>13, <2>4, <2>5, <2>6 DEF LaunchJob, TypeOK, FsTypeOK, envVars
<1>14. ASSUME NEW n \in Node, EndLoop(n) PROVE TypeOK'
  BY <1>0, <1>14, GotoType DEF EndLoop, TypeOK, FsTypeOK, Steps, fsVars, envVars
<1>15. ASSUME NEW n \in Node, TryDone(n) PROVE TypeOK'
  <2>1. PICK p \in pads[n] :
          /\ pads' = [pads EXCEPT ![n] = @ \ {p}]
          /\ \/ ~Resolves(p.nm) /\ UNCHANGED <<at, flk, jf, proc>>
             \/ \E i \in Inode, new \in Name :
                  /\ at' = Renamed(p.nm, new)
                  /\ Release(p.ino)
                  /\ jf' = [jf EXCEPT ![n] =
                       [EmptyHand EXCEPT
                          !.nm = new,
                          !.mem = WithSection(data[i], "result", TryCount(data[i]))]]
                  /\ Goto(n, "truncEnd")
    <3>1. PICK p \in pads[n] : TryEnds(n, p)
      BY <1>15 DEF TryDone
    <3>2. p \in Pad
      BY <1>0 DEF TypeOK
    <3>3. \A c \in Content : Verdict(p, c) \in Name
      BY <1>0, <3>2, VerdictType
    <3>4. \A i \in Inode : data[i] \in Content
      BY <1>0 DEF FsTypeOK
    <3> QED
      BY <3>1, <3>3, <3>4 DEF TryEnds
  <2>2. pads' \in [Node -> SUBSET Pad] /\ \A m \in Node : IsFiniteSet(pads'[m])
    BY <1>0, <2>1, FS_RemoveElement DEF TypeOK
  <2>3. CASE UNCHANGED <<at, flk, jf, proc>>
    BY <1>0, <1>15, <2>2, <2>3 DEF TryDone, TypeOK, FsTypeOK, envVars
  <2>4. CASE \E i \in Inode, new \in Name :
               /\ at' = Renamed(p.nm, new)
               /\ Release(p.ino)
               /\ jf' = [jf EXCEPT ![n] =
                    [EmptyHand EXCEPT
                       !.nm = new,
                       !.mem = WithSection(data[i], "result", TryCount(data[i]))]]
               /\ Goto(n, "truncEnd")
    <3>1. PICK i \in Inode, new \in Name :
               /\ at' = Renamed(p.nm, new)
               /\ Release(p.ino)
               /\ jf' = [jf EXCEPT ![n] =
                    [EmptyHand EXCEPT
                       !.nm = new,
                       !.mem = WithSection(data[i], "result", TryCount(data[i]))]]
               /\ Goto(n, "truncEnd")
      BY <2>4
    <3>2. WithSection(data[i], "result", TryCount(data[i])) \in Content
      BY <1>0, WithSectionType, TryCountType DEF FsTypeOK
    <3>3. jf' \in [Node -> Hand]
      BY <1>0, <3>1, <3>2, HandType DEF TypeOK
    <3>4. /\ at' \in [Inode -> Name \cup {NoName}]
          /\ flk' \in [Inode -> Node \cup {Nobody}]
          /\ proc' \in [Node -> Steps]
      BY <1>0, <3>1, RenamedType, GotoType DEF Release, FsTypeOK, Steps
    <3> QED
      BY <1>0, <1>15, <2>2, <3>3, <3>4 DEF TryDone, TypeOK, FsTypeOK, envVars
  <2> QED
    BY <2>1, <2>3, <2>4
<1>16. ASSUME NEW n \in Node, TruncateEnd(n) PROVE TypeOK'
  BY <1>0, <1>16, OpenForWriteType DEF TruncateEnd, TypeOK, FsTypeOK, Steps, envVars
<1>17. ASSUME NEW n \in Node, WriteEnd(n) PROVE TypeOK'
  BY <1>0, <1>17, FlushType DEF WriteEnd, TypeOK, FsTypeOK, Steps, envVars
<1>18. ASSUME NEW n \in Node, BringOutYerDead(n) PROVE TypeOK'
  <2>1. {nm \in Listing("run") : nm.id \notin Mine(n)} \subseteq Name
    BY <1>0, ListingType
  <2> QED
    BY <1>0, <1>18, <2>1, GotoType
    DEF BringOutYerDead, TypeOK, FsTypeOK, Steps, fsVars, envVars
<1>19. ASSUME NEW n \in Node, OpenDead(n) PROVE TypeOK'
  <2>1. PICK nm \in todo[n] : Open(n, nm, "raise", "dead")
    BY <1>19 DEF OpenDead
  <2> QED
    BY <1>0, <1>19, <2>1, OpenType
    DEF OpenDead, TypeOK, FsTypeOK, Steps, fsVars, envVars
<1>20. ASSUME NEW n \in Node, RaiseDead(n) PROVE TypeOK'
  <2>1. jf[n].nm \in Name
    BY <1>0, <1>20 DEF RaiseDead, HandInUse, Opened
  <2>2. at' \in [Inode -> Name \cup {NoName}]
    BY <1>0, <1>20, <2>1, RenamedType, MovedNameType DEF MovedIfUnlocked, RaiseDead, State, FsTypeOK
  <2> QED
    BY <1>0, <1>20, <2>2, SkipType DEF RaiseDead, TypeOK, FsTypeOK, Steps, envVars
<1>21. ASSUME NEW n \in Node, GroupHug(n) PROVE TypeOK'
  <2>1. Listing("tied") \subseteq Name
    BY <1>0, ListingType
  <2> QED
    BY <1>0, <1>21, <2>1, GotoType
    DEF GroupHug, TypeOK, FsTypeOK, Steps, fsVars, envVars
<1>22. ASSUME NEW n \in Node, OpenTied(n) PROVE TypeOK'
  <2>1. PICK nm \in todo[n] : Open(n, nm, "hugMove", "hug")
    BY <1>22 DEF OpenTied
  <2> QED
    BY <1>0, <1>22, <2>1, OpenType
    DEF OpenTied, TypeOK, FsTypeOK, Steps, fsVars, envVars
<1>23. ASSUME NEW n \in Node, MoveTied(n) PROVE TypeOK'
  <2>1. jf[n].nm \in Name /\ now \in Nat
    BY <1>0, <1>23 DEF MoveTied, HandInUse, Opened, TypeOK
  <2>2. DoneAt(now, jf[n].nm) \in Name
    BY <2>1, DoneNameType
  <2>3. at' \in [Inode -> Name \cup {NoName}]
    BY <1>0, <1>23, <2>2, RenamedType DEF MovedIfUnlocked, MoveTied, FsTypeOK
  <2> QED
    BY <1>0, <1>23, <2>3, SkipType DEF MoveTied, TypeOK, FsTypeOK, Steps, envVars
<1>24. ASSUME NEW n \in Node, Terminate(n) PROVE TypeOK'
  <2>1. PICK p \in pads[n] :
          /\ kill' = [kill EXCEPT ![p.nm.id] = "served"]
          /\ \/ UNCHANGED pads
             \/ pads' = [pads EXCEPT ![n] = (@ \ {p}) \cup {[p EXCEPT !.kid = "other"]}]
    BY <1>24 DEF Terminate
  <2>2. pads' \in [Node -> SUBSET Pad] /\ \A m \in Node : IsFiniteSet(pads'[m])
    BY <1>0, <2>1, KidType DEF Exit
  <2> QED
    BY <1>0, <1>24, <2>1, <2>2 DEF Terminate, TypeOK, FsTypeOK, fsVars
<1>25. ASSUME NEW n \in Node, Clean(n) PROVE TypeOK'
  BY <1>0, <1>25 DEF Unlinked, Clean, TypeOK, FsTypeOK, manVars, envVars
<1>26. ASSUME NEW n \in Node, KidExits(n) PROVE TypeOK'
  <2>1. PICK p \in pads[n], e \in Exit :
          pads' = [pads EXCEPT ![n] = (@ \ {p}) \cup {[p EXCEPT !.kid = e]}]
    BY <1>26 DEF KidExits, Exit
  <2>2. pads' \in [Node -> SUBSET Pad] /\ \A m \in Node : IsFiniteSet(pads'[m])
    BY <1>0, <2>1, KidType
  <2> QED
    BY <1>0, <1>26, <2>2 DEF KidExits, TypeOK, FsTypeOK, fsVars, envVars
<1>27. ASSUME NEW j \in Job, OrphanExits(j) PROVE TypeOK'
  BY <1>0, <1>27 DEF OrphanExits, TypeOK, FsTypeOK, fsVars, manVars
<1>28. ASSUME NEW j \in Job, KillOrder(j) PROVE TypeOK'
  BY <1>0, <1>28 DEF KillOrder, TypeOK, FsTypeOK, fsVars, manVars
<1>29. ASSUME Tick PROVE TypeOK'
  BY <1>0, <1>29 DEF Tick, TypeOK, FsTypeOK, fsVars, manVars
<1>30. ASSUME NEW n \in Node, Die(n) PROVE TypeOK'
  <2>1. orphans' \in SUBSET Job
    <3>1. \A p \in pads[n] : p.nm.id \in Job
      BY <1>0 DEF TypeOK, Pad, Name
    <3> QED
      BY <1>0, <1>30, <3>1 DEF Die, TypeOK
  <2>2. pads' \in [Node -> SUBSET Pad] /\ \A m \in Node : IsFiniteSet(pads'[m])
    BY <1>0, <1>30, FS_EmptySet DEF Die, TypeOK
  <2>3. jf' \in [Node -> Hand] /\ proc' \in [Node -> Steps]
    BY <1>0, <1>30, HandType, GotoType DEF Die, TypeOK, Steps
  <2>4. flk' \in [Inode -> Node \cup {Nobody}]
    BY <1>0, <1>30 DEF Die, FsTypeOK
  <2> QED
    BY <1>0, <1>30, <2>1, <2>2, <2>3, <2>4 DEF Die, TypeOK, FsTypeOK
<1>31. ASSUME NEW n \in Node, Restart(n) PROVE TypeOK'
  BY <1>0, <1>31, GotoType DEF Restart, TypeOK, FsTypeOK, Steps, fsVars, envVars
<1>32. CASE UNCHANGED vars
  BY <1>0, <1>32 DEF vars, TypeOK, FsTypeOK
<1> QED
  BY <1>1, <1>2, <1>3, <1>4, <1>5, <1>6, <1>7, <1>8, <1>9, <1>10, <1>11, <1>12,
     <1>13, <1>14, <1>15, <1>16, <1>17, <1>18, <1>19, <1>20, <1>21, <1>22,
     <1>23, <1>24, <1>25, <1>26, <1>27, <1>28, <1>29, <1>30, <1>31, <1>32
  DEF Next, Work, Submit

-----------------------------------------------------------------------------
(* What a step of one job manager does to it, and that it leaves the others  *)

Others(n) == \A m \in Node \ {n} :
  /\ proc'[m] = proc[m]
  /\ todo'[m] = todo[m]
  /\ need'[m] = need[m]
  /\ jf'[m] = jf[m]
  /\ pads'[m] = pads[m]

LEMMA GotoEffect ==
  ASSUME TypeOK, NEW n \in Node, NEW step, Goto(n, step)
  PROVE  proc'[n] = step /\ \A m \in Node \ {n} : proc'[m] = proc[m]
BY DEF TypeOK, Goto

LEMMA SkipEffect ==
  ASSUME TypeOK, NEW n \in Node, NEW nm, NEW loop, Skip(n, nm, loop)
  PROVE  /\ proc'[n] = loop
         /\ jf'[n] = EmptyHand
         /\ todo'[n] = todo[n] \ {nm}
         /\ \A m \in Node \ {n} : /\ proc'[m] = proc[m]
                                   /\ todo'[m] = todo[m]
                                   /\ jf'[m] = jf[m]
BY DEF TypeOK, Skip, Goto

LEMMA OpenEffect ==
  ASSUME TypeOK, NEW n \in Node, NEW nm \in todo[n], NEW next, NEW loop,
         Open(n, nm, next, loop)
  PROVE  /\ \/ \E i \in Inode : /\ at[i] = nm
                               /\ proc'[n] = next
                               /\ jf'[n].nm = nm
                               /\ jf'[n].lock = i
                               /\ todo'[n] = todo[n]
            \/ /\ proc'[n] = loop
               /\ todo'[n] = todo[n] \ {nm}
         /\ \A m \in Node \ {n} : /\ proc'[m] = proc[m]
                                   /\ todo'[m] = todo[m]
                                   /\ jf'[m] = jf[m]
<1>1. CASE \E i \in Inode :
             /\ at[i] = nm
             /\ jf' = [jf EXCEPT ![n] = [EmptyHand EXCEPT !.nm = nm, !.lock = i]]
             /\ Goto(n, next)
             /\ UNCHANGED todo
  <2>1. PICK i \in Inode :
             /\ at[i] = nm
             /\ jf' = [jf EXCEPT ![n] = [EmptyHand EXCEPT !.nm = nm, !.lock = i]]
             /\ Goto(n, next)
             /\ UNCHANGED todo
    BY <1>1
  <2>2. jf'[n].nm = nm /\ jf'[n].lock = i
    BY <2>1 DEF TypeOK, EmptyHand
  <2>3. \A m \in Node \ {n} : jf'[m] = jf[m]
    BY <2>1 DEF TypeOK
  <2> QED
    BY <2>1, <2>2, <2>3, GotoEffect
<1>2. CASE Skip(n, nm, loop)
  BY <1>2, SkipEffect
<1> QED
  BY <1>1, <1>2 DEF Open

\* One manager's task goes on with a name and a lock file in hand.
LEMMA HandInUseOthers ==
  ASSUME TInv, NEW n \in Node, Others(n), HandInUse(n)'
  PROVE  \A m \in Node : HandInUse(m)'
<1> SUFFICES ASSUME NEW m \in Node, m # n PROVE HandInUse(m)'
  OBVIOUS
<1>1. proc'[m] = proc[m] /\ jf'[m] = jf[m]
  BY DEF Others
<1>2. HandInUse(m)
  BY DEF TInv
<1> QED
  BY <1>1, <1>2 DEF HandInUse

LEMMA OpenHand ==
  ASSUME TInv, NEW n \in Node, NEW nm \in todo[n], NEW next,
         NEW loop \in {"solicit", "dead", "hug"}, Open(n, nm, next, loop)
  PROVE  HandInUse(n)'
<1>1. nm \in Name
  BY DEF TInv, TypeOK
<1>2. \/ proc'[n] = loop
      \/ jf'[n].nm = nm /\ jf'[n].lock \in Inode
  BY OpenEffect DEF TInv
<1> QED
  BY <1>1, <1>2 DEF HandInUse, Opened, Ending, Starting

\* A node's step is about that node alone.
NodeStep(n) ==
  \/ Work(n) \/ Solicit(n) \/ TryDone(n) \/ BringOutYerDead(n) \/ GroupHug(n)
  \/ Terminate(n) \/ Clean(n) \/ KidExits(n) \/ Die(n) \/ Restart(n)

LEMMA OneNode ==
  ASSUME TypeOK, NEW n \in Node, NodeStep(n)
  PROVE  Others(n)
<1> USE DEF Others
<1>1. CASE Solicit(n)
  BY <1>1, GotoEffect DEF Solicit, TypeOK, manVars, envVars, fsVars
<1>2. CASE OpenPending(n)
  BY <1>2, OpenEffect DEF OpenPending, TypeOK, manVars, envVars, fsVars
<1>3. CASE LockPending(n)
  BY <1>3, SkipEffect, GotoEffect DEF LockPending, TypeOK, manVars, envVars, fsVars
<1>4. CASE LoadPending(n)
  BY <1>4, SkipEffect, GotoEffect DEF LoadPending, TypeOK, manVars, envVars, fsVars
<1>5. CASE RejectPending(n)
  BY <1>5, SkipEffect, GotoEffect DEF RejectPending, TypeOK, manVars, envVars, fsVars
<1>6. CASE ClaimPending(n)
  BY <1>6, GotoEffect DEF ClaimPending, TypeOK, manVars, envVars, fsVars
<1>7. CASE TruncateRun(n)
  BY <1>7, GotoEffect DEF TruncateRun, OpenForWrite, TypeOK, manVars, envVars, fsVars
<1>8. CASE WriteRun(n)
  BY <1>8, GotoEffect DEF WriteRun, Flush, TypeOK, manVars, envVars, fsVars
<1>9. CASE LaunchJob(n)
  BY <1>9, GotoEffect DEF LaunchJob, TypeOK, manVars, envVars, fsVars
<1>10. CASE EndLoop(n)
  BY <1>10, GotoEffect DEF EndLoop, TypeOK, manVars, envVars, fsVars
<1>11. CASE TryDone(n)
  BY <1>11, GotoEffect DEF TryDone, TryEnds, TypeOK, manVars, envVars, fsVars
<1>12. CASE TruncateEnd(n)
  BY <1>12, GotoEffect DEF TruncateEnd, OpenForWrite, TypeOK, manVars, envVars, fsVars
<1>13. CASE WriteEnd(n)
  BY <1>13, GotoEffect DEF WriteEnd, Flush, TypeOK, manVars, envVars, fsVars
<1>14. CASE BringOutYerDead(n)
  BY <1>14, GotoEffect DEF BringOutYerDead, TypeOK, manVars, envVars, fsVars
<1>15. CASE OpenDead(n)
  BY <1>15, OpenEffect DEF OpenDead, TypeOK, manVars, envVars, fsVars
<1>16. CASE RaiseDead(n)
  BY <1>16, SkipEffect, GotoEffect DEF RaiseDead, TypeOK, manVars, envVars, fsVars
<1>17. CASE GroupHug(n)
  BY <1>17, GotoEffect DEF GroupHug, TypeOK, manVars, envVars, fsVars
<1>18. CASE OpenTied(n)
  BY <1>18, OpenEffect DEF OpenTied, TypeOK, manVars, envVars, fsVars
<1>19. CASE MoveTied(n)
  BY <1>19, SkipEffect, GotoEffect DEF MoveTied, TypeOK, manVars, envVars, fsVars
<1>20. CASE Terminate(n)
  BY <1>20, GotoEffect DEF Terminate, TypeOK, manVars, envVars, fsVars
<1>21. CASE Clean(n)
  BY <1>21, GotoEffect DEF Clean, TypeOK, manVars, envVars, fsVars
<1>22. CASE KidExits(n)
  BY <1>22, GotoEffect DEF KidExits, TypeOK, manVars, envVars, fsVars
<1>23. CASE Die(n)
  BY <1>23, GotoEffect DEF Die, TypeOK, manVars, envVars, fsVars
<1>24. CASE Restart(n)
  BY <1>24, GotoEffect DEF Restart, TypeOK, manVars, envVars, fsVars
<1> QED
  BY <1>1, <1>2, <1>3, <1>4, <1>5, <1>6, <1>7, <1>8, <1>9, <1>10, <1>11, <1>12, <1>13, <1>14, <1>15, <1>16, <1>17, <1>18, <1>19, <1>20, <1>21, <1>22, <1>23, <1>24 DEF NodeStep, Work

LEMMA HandStep ==
  ASSUME TInv, [Next]_vars
  PROVE  \A m \in Node : HandInUse(m)'
<1>0. TypeOK /\ \A n \in Node : HandInUse(n)
  BY DEF TInv
<1>1. ASSUME NEW n \in Node, NodeStep(n) PROVE HandInUse(n)'
  <2> USE <1>0 DEF Opened, Ending, Starting
  <2>1. CASE Solicit(n)
    BY <2>1, GotoEffect DEF Solicit, HandInUse
  <2>2. CASE OpenPending(n)
    BY <2>2, OpenHand DEF OpenPending
  <2>3. CASE LockPending(n)
    BY <2>3, SkipEffect, GotoEffect DEF LockPending, HandInUse
  <2>4. CASE LoadPending(n)
    <3>1. CASE Skip(n, jf[n].nm, "solicit")
      BY <3>1, SkipEffect DEF HandInUse
    <3>2. CASE \E c : jf' = [jf EXCEPT ![n].mem = c]
      <4>1. jf'[n].nm = jf[n].nm /\ jf'[n].lock = jf[n].lock
        BY <3>2 DEF TypeOK, Hand
      <4> QED
        BY <2>4, <4>1 DEF LoadPending, HandInUse
    <3> QED
      BY <2>4, <3>1, <3>2 DEF LoadPending
  <2>5. CASE RejectPending(n)
    BY <2>5, SkipEffect DEF RejectPending, HandInUse
  <2>6. CASE ClaimPending(n)
    BY <2>6, GotoEffect, MovedNameType DEF ClaimPending, HandInUse, TypeOK, Hand, State
  <2>7. CASE TruncateRun(n)
    BY <2>7, GotoEffect DEF TruncateRun, OpenForWrite, HandInUse, TypeOK, Hand
  <2>8. CASE WriteRun(n)
    BY <2>8, GotoEffect DEF WriteRun, Flush, HandInUse, TypeOK, Hand
  <2>9. CASE LaunchJob(n)
    BY <2>9, GotoEffect DEF LaunchJob, HandInUse
  <2>10. CASE EndLoop(n)
    BY <2>10, GotoEffect DEF EndLoop, HandInUse
  <2>11. CASE TryDone(n)
    <3>1. PICK p \in pads[n] : TryEnds(n, p)
      BY <2>11 DEF TryDone
    <3>2. p \in Pad /\ \A i \in Inode : data[i] \in Content
      BY DEF TypeOK, FsTypeOK
    <3>3. CASE UNCHANGED <<jf, proc>>
      BY <3>3 DEF HandInUse
    <3>4. CASE \E i \in Inode :
                 /\ jf' = [jf EXCEPT ![n] =
                      [EmptyHand EXCEPT
                         !.nm = Verdict(p, data[i]),
                         !.mem = WithSection(data[i], "result", TryCount(data[i]))]]
                 /\ Goto(n, "truncEnd")
      <4>1. jf'[n].nm \in Name
        BY <3>2, <3>4, VerdictType DEF TypeOK, EmptyHand
      <4> QED
        BY <3>4, <4>1, GotoEffect DEF HandInUse
    <3> QED
      BY <3>1, <3>3, <3>4 DEF TryEnds
  <2>12. CASE TruncateEnd(n)
    BY <2>12, GotoEffect DEF TruncateEnd, OpenForWrite, HandInUse, TypeOK, Hand
  <2>13. CASE WriteEnd(n)
    BY <2>13, GotoEffect DEF WriteEnd, Flush, HandInUse, TypeOK, Hand
  <2>14. CASE BringOutYerDead(n)
    BY <2>14, GotoEffect DEF BringOutYerDead, HandInUse
  <2>15. CASE OpenDead(n)
    BY <2>15, OpenHand DEF OpenDead
  <2>16. CASE RaiseDead(n)
    BY <2>16, SkipEffect DEF RaiseDead, HandInUse
  <2>17. CASE GroupHug(n)
    BY <2>17, GotoEffect DEF GroupHug, HandInUse
  <2>18. CASE OpenTied(n)
    BY <2>18, OpenHand DEF OpenTied
  <2>19. CASE MoveTied(n)
    BY <2>19, SkipEffect DEF MoveTied, HandInUse
  <2>20. CASE Terminate(n)
    BY <2>20 DEF Terminate, HandInUse, manVars, fsVars
  <2>21. CASE Clean(n)
    BY <2>21 DEF Clean, HandInUse, manVars, fsVars
  <2>22. CASE KidExits(n)
    BY <2>22 DEF KidExits, HandInUse, manVars, fsVars
  <2>23. CASE Die(n)
    BY <2>23, GotoEffect DEF Die, HandInUse
  <2>24. CASE Restart(n)
    BY <2>24, GotoEffect DEF Restart, HandInUse
  <2> QED
    BY <1>1, <2>1, <2>2, <2>3, <2>4, <2>5, <2>6, <2>7, <2>8, <2>9, <2>10, <2>11, <2>12, <2>13, <2>14, <2>15, <2>16, <2>17, <2>18, <2>19, <2>20, <2>21, <2>22, <2>23, <2>24 DEF NodeStep, Work
<1>2. CASE \E n \in Node : NodeStep(n)
  <2>1. PICK n \in Node : NodeStep(n)
    BY <1>2
  <2> QED
    BY <1>0, <1>1, <2>1, OneNode, HandInUseOthers
<1>3. CASE UNCHANGED manVars
  BY <1>0, <1>3 DEF HandInUse, manVars
<1>4. CASE UNCHANGED vars
  BY <1>0, <1>4 DEF HandInUse, vars
<1> QED
  BY <1>2, <1>3, <1>4
  DEF Next, NodeStep, Submit, CreateJob, FillJob, ReleaseJob, AbortJob, OrphanExits,
      KillOrder, Tick

\* The types hold initially.
LEMMA TypeInit == Init => TInv
<1> SUFFICES ASSUME Init PROVE TInv
  OBVIOUS
<1>1. FsTypeOK
  BY EmptyFreshType DEF Init, FsInit, FsTypeOK
<1>a. EmptyHand \in Hand
  BY HandType
<1>b. pads \in [Node -> SUBSET Pad] /\ \A n \in Node : IsFiniteSet(pads[n])
  BY FS_EmptySet DEF Init
<1>2. TypeOK
  BY <1>1, <1>a, <1>b DEF Init, TypeOK, Steps
<1> QED
  BY <1>2 DEF Init, TInv, HandInUse, Opened, Ending, Starting

\* Every variable of a job manager, of the queue directory and of the world keeps
\* its type, for any number of nodes, jobs and inodes; and a task that goes on
\* with a job file has its name and its lock file in hand.
THEOREM TypeCorrect == Spec => [](TypeOK /\ \A n \in Node : HandInUse(n))
<1>1. TInv /\ [Next]_vars => TInv'
  BY TypeStep, HandStep DEF TInv
<1> QED
  BY <1>1, TypeInit, PTL DEF Spec, TInv

-----------------------------------------------------------------------------
(* The run limit *)

LEMMA ModSmall ==
  ASSUME NEW N \in Nat \ {0}, NEW x \in 0..(N - 1)
  PROVE  x % N = x
OBVIOUS

\* A launch pad more, a launch pad less, or one with another status.
LEMMA PadsCount ==
  ASSUME TypeOK, NEW n \in Node
  PROVE  /\ Cardinality(pads[n]) \in Nat
         /\ \A q : /\ Cardinality(pads[n] \cup {q}) \in Nat
                  /\ Cardinality(pads[n] \cup {q}) <= Cardinality(pads[n]) + 1
         /\ \A p : /\ Cardinality(pads[n] \ {p}) \in Nat
                  /\ Cardinality(pads[n] \ {p}) <= Cardinality(pads[n])
         /\ \A p \in pads[n] : \A q :
              /\ Cardinality((pads[n] \ {p}) \cup {q}) \in Nat
              /\ Cardinality((pads[n] \ {p}) \cup {q}) <= Cardinality(pads[n])
<1>1. IsFiniteSet(pads[n]) /\ Cardinality(pads[n]) \in Nat
  BY FS_CardinalityType DEF TypeOK
<1>2. ASSUME NEW S, IsFiniteSet(S), NEW q
      PROVE  /\ IsFiniteSet(S \cup {q})
             /\ Cardinality(S \cup {q}) \in Nat
             /\ Cardinality(S \cup {q}) <= Cardinality(S) + 1
  <2>1. /\ IsFiniteSet(S \cup {q})
        /\ Cardinality(S \cup {q}) = IF q \in S THEN Cardinality(S) ELSE Cardinality(S) + 1
    BY <1>2, FS_AddElement
  <2>2. Cardinality(S) \in Nat
    BY <1>2, FS_CardinalityType
  <2> QED
    BY <2>1, <2>2
<1>3. ASSUME NEW S, IsFiniteSet(S), NEW p
      PROVE  /\ IsFiniteSet(S \ {p})
             /\ Cardinality(S \ {p}) \in Nat
             /\ Cardinality(S \ {p}) <= Cardinality(S)
             /\ p \in S => Cardinality(S \ {p}) = Cardinality(S) - 1
  <2>1. /\ IsFiniteSet(S \ {p})
        /\ Cardinality(S \ {p}) = IF p \in S THEN Cardinality(S) - 1 ELSE Cardinality(S)
    BY <1>3, FS_RemoveElement
  <2>2. Cardinality(S) \in Nat /\ Cardinality(S \ {p}) \in Nat
    BY <1>3, <2>1, FS_CardinalityType
  <2> QED
    BY <2>1, <2>2
<1>4. ASSUME NEW p \in pads[n], NEW q
      PROVE  /\ Cardinality((pads[n] \ {p}) \cup {q}) \in Nat
             /\ Cardinality((pads[n] \ {p}) \cup {q}) <= Cardinality(pads[n])
  <2>1. IsFiniteSet(pads[n] \ {p}) /\ Cardinality(pads[n] \ {p}) = Cardinality(pads[n]) - 1
    BY <1>1, <1>3
  <2>2. /\ Cardinality((pads[n] \ {p}) \cup {q}) \in Nat
        /\ Cardinality((pads[n] \ {p}) \cup {q}) <= Cardinality(pads[n] \ {p}) + 1
    BY <1>2, <2>1
  <2> QED
    BY <1>1, <2>1, <2>2
<1> QED
  BY <1>1, <1>2, <1>3, <1>4

\* A manager that does not finish a poll has room for the job it goes on with.
LEMMA RunStep ==
  ASSUME TInv, RunInv, [Next]_vars
  PROVE  RunInv'
<1>0. TypeOK /\ \A n \in Node : HandInUse(n)
  BY DEF TInv
<1>1. ASSUME NEW n \in Node, NodeStep(n) PROVE HasRoom(n)'
  <2> USE <1>0, JobManAssumption DEF HasRoom, Starting
  <2>a. HasRoom(n)
    BY DEF RunInv
  <2>b. need[n] \in Int /\ need \in [Node -> Int] /\ Cardinality(pads[n]) \in Nat
    BY PadsCount DEF TypeOK
  <2>1. CASE Solicit(n)
    <3>1. Room(n) = RunLimit - Cardinality(pads[n])
      BY <2>1, <2>a, <2>b, ModSmall DEF Solicit, Room
    <3> QED
      BY <2>1, <2>a, <2>b, <3>1, GotoEffect DEF Solicit
  <2>2. CASE OpenPending(n)
    <3>1. proc'[n] \in {"lock", "solicit"}
      BY <2>2, OpenEffect DEF OpenPending
    <3> QED
      BY <2>2, <2>a, <2>b, <3>1 DEF OpenPending
  <2>3. CASE LockPending(n)
    BY <2>3, <2>a, <2>b, GotoEffect, SkipEffect DEF LockPending, manVars
  <2>4. CASE LoadPending(n)
    BY <2>4, <2>a, <2>b, GotoEffect, SkipEffect DEF LoadPending, manVars
  <2>5. CASE RejectPending(n)
    BY <2>5, <2>a, <2>b, GotoEffect, SkipEffect DEF RejectPending, manVars
  <2>6. CASE ClaimPending(n)
    BY <2>6, <2>a, <2>b, GotoEffect DEF ClaimPending, manVars
  <2>7. CASE TruncateRun(n)
    BY <2>7, <2>a, <2>b, GotoEffect DEF TruncateRun, OpenForWrite, manVars
  <2>8. CASE WriteRun(n)
    BY <2>8, <2>a, <2>b, GotoEffect DEF WriteRun, Flush, manVars
  <2>9. CASE LaunchJob(n)
    <3>1. Cardinality(pads'[n]) <= Cardinality(pads[n]) + 1 /\ Cardinality(pads'[n]) \in Nat
      <4>1. \/ pads'[n] = pads[n]
            \/ \E q : pads'[n] = pads[n] \cup {q}
        BY <2>9 DEF LaunchJob, TypeOK
      <4>2. CASE pads'[n] = pads[n]
        BY <2>b, <4>2
      <4>3. ASSUME NEW q, pads'[n] = pads[n] \cup {q}
            PROVE  /\ Cardinality(pads'[n]) <= Cardinality(pads[n]) + 1
                   /\ Cardinality(pads'[n]) \in Nat
        <5>1. /\ Cardinality(pads[n] \cup {q}) \in Nat
              /\ Cardinality(pads[n] \cup {q}) <= Cardinality(pads[n]) + 1
          BY PadsCount
        <5> QED
          BY <4>3, <5>1
      <4> QED
        BY <4>1, <4>2, <4>3
    <3>2. need'[n] = need[n] - 1 /\ proc'[n] = "solicit"
      BY <2>9, <2>b, GotoEffect DEF LaunchJob
    <3> QED
      BY <2>9, <2>a, <2>b, <3>1, <3>2 DEF LaunchJob
  <2>10. CASE EndLoop(n)
    BY <2>10, <2>a, <2>b, GotoEffect DEF EndLoop, manVars
  <2>11. CASE TryDone(n)
    <3>1. \E p : pads'[n] = pads[n] \ {p}
      BY <2>11 DEF TryDone, TryEnds, TypeOK
    <3>2. Cardinality(pads'[n]) \in Nat /\ Cardinality(pads'[n]) <= Cardinality(pads[n])
      BY <2>b, <3>1, PadsCount
    <3>4. proc'[n] \in {"idle", "truncEnd"} /\ need' = need
      BY <2>11, GotoEffect DEF TryDone, TryEnds
    <3> QED
      BY <2>11, <2>a, <2>b, <3>2, <3>4 DEF TryDone
  <2>12. CASE TruncateEnd(n)
    BY <2>12, <2>a, <2>b, GotoEffect DEF TruncateEnd, OpenForWrite, manVars
  <2>13. CASE WriteEnd(n)
    BY <2>13, <2>a, <2>b, GotoEffect DEF WriteEnd, Flush, manVars
  <2>14. CASE BringOutYerDead(n)
    BY <2>14, <2>a, <2>b, GotoEffect DEF BringOutYerDead, manVars
  <2>15. CASE OpenDead(n)
    <3>1. proc'[n] \in {"raise", "dead"}
      BY <2>15, OpenEffect DEF OpenDead
    <3> QED
      BY <2>15, <2>a, <2>b, <3>1 DEF OpenDead
  <2>16. CASE RaiseDead(n)
    BY <2>16, <2>a, <2>b, GotoEffect, SkipEffect DEF RaiseDead, manVars
  <2>17. CASE GroupHug(n)
    BY <2>17, <2>a, <2>b, GotoEffect DEF GroupHug, manVars
  <2>18. CASE OpenTied(n)
    <3>1. proc'[n] \in {"hugMove", "hug"}
      BY <2>18, OpenEffect DEF OpenTied
    <3> QED
      BY <2>18, <2>a, <2>b, <3>1 DEF OpenTied
  <2>19. CASE MoveTied(n)
    BY <2>19, <2>a, <2>b, GotoEffect, SkipEffect DEF MoveTied, manVars
  <2>20. CASE Terminate(n)
    <3>1. pads'[n] = pads[n] \/ \E p \in pads[n] : \E q : pads'[n] = (pads[n] \ {p}) \cup {q}
      <4>1. PICK p \in pads[n] :
              \/ UNCHANGED pads
              \/ pads' = [pads EXCEPT ![n] = (@ \ {p}) \cup {[p EXCEPT !.kid = "other"]}]
        BY <2>20 DEF Terminate
      <4> QED
        BY <4>1 DEF TypeOK
    <3>2. Cardinality(pads'[n]) \in Nat /\ Cardinality(pads'[n]) <= Cardinality(pads[n])
      <4>1. CASE pads'[n] = pads[n]
        BY <2>b, <4>1
      <4>2. ASSUME NEW p \in pads[n], NEW q, pads'[n] = (pads[n] \ {p}) \cup {q}
            PROVE  /\ Cardinality(pads'[n]) \in Nat
                   /\ Cardinality(pads'[n]) <= Cardinality(pads[n])
        <5>1. /\ Cardinality((pads[n] \ {p}) \cup {q}) \in Nat
              /\ Cardinality((pads[n] \ {p}) \cup {q}) <= Cardinality(pads[n])
          BY PadsCount
        <5> QED
          BY <4>2, <5>1
      <4> QED
        BY <3>1, <4>1, <4>2
    <3>4. proc' = proc /\ need' = need
      BY <2>20, GotoEffect DEF Terminate
    <3> QED
      BY <2>20, <2>a, <2>b, <3>2, <3>4 DEF Terminate
  <2>21. CASE Clean(n)
    BY <2>21, <2>a, <2>b, GotoEffect DEF Clean, manVars
  <2>22. CASE KidExits(n)
    <3>1. \E p \in pads[n] : \E q : pads'[n] = (pads[n] \ {p}) \cup {q}
      BY <2>22 DEF KidExits, TypeOK
    <3>2. Cardinality(pads'[n]) \in Nat /\ Cardinality(pads'[n]) <= Cardinality(pads[n])
      BY <2>b, <3>1, PadsCount
    <3>4. proc' = proc /\ need' = need
      BY <2>22, GotoEffect DEF KidExits
    <3> QED
      BY <2>22, <2>a, <2>b, <3>2, <3>4 DEF KidExits
  <2>23. CASE Die(n)
    <3>1. pads'[n] = {} /\ need'[n] = 0 /\ proc'[n] = "down"
      BY <2>23, <2>b, GotoEffect DEF Die, TypeOK
    <3> QED
      BY <3>1, FS_EmptySet
  <2>24. CASE Restart(n)
    BY <2>24, <2>a, <2>b, GotoEffect DEF Restart, manVars
  <2> QED
    BY <1>1, <2>1, <2>2, <2>3, <2>4, <2>5, <2>6, <2>7, <2>8, <2>9, <2>10, <2>11, <2>12, <2>13, <2>14, <2>15, <2>16, <2>17, <2>18, <2>19, <2>20, <2>21, <2>22, <2>23, <2>24 DEF NodeStep, Work
<1>2. CASE \E n \in Node : NodeStep(n)
  <2>1. PICK n \in Node : NodeStep(n)
    BY <1>2
  <2> SUFFICES ASSUME NEW m \in Node, m # n PROVE HasRoom(m)'
    BY <1>1, <2>1 DEF RunInv
  <2> QED
    BY <1>0, <2>1, OneNode DEF Others, RunInv, HasRoom
<1>3. CASE UNCHANGED manVars
  BY <1>3 DEF RunInv, HasRoom, manVars
<1>4. CASE UNCHANGED vars
  BY <1>4 DEF RunInv, HasRoom, vars
<1> QED
  BY <1>2, <1>3, <1>4
  DEF Next, NodeStep, Submit, CreateJob, FillJob, ReleaseJob, AbortJob, OrphanExits,
      KillOrder, Tick

\* However polls, completions, kill orders and deaths interleave, a manager never
\* has more children than its run limit, nor sets out to start more.
THEOREM RunLimitSafe == Spec => []RunLimitKept
<1>1. Init => RunInv
  <2> SUFFICES ASSUME Init, NEW n \in Node PROVE HasRoom(n)
    BY DEF RunInv
  <2> QED
    BY FS_EmptySet, JobManAssumption DEF Init, HasRoom, Starting
<1>2. RunInv => RunLimitKept
  BY DEF RunInv, HasRoom, RunLimitKept
<1>3. TInv /\ RunInv /\ [Next]_vars => TInv' /\ RunInv'
  BY TypeStep, HandStep, RunStep DEF TInv
<1> QED
  BY <1>1, <1>2, <1>3, TypeInit, PTL DEF Spec

-----------------------------------------------------------------------------
(***************************************************************************)
(* No job ever has two processes: IInv of JobManInv is an invariant of     *)
(* JobMan under OneRunnerAssumption, and implies JobMan!OneRunner.         *)
(*                                                                         *)
(* Most of what a manager's part of IInv says is about the file system,    *)
(* which every other manager, mkjob and the housekeepers change too.  So   *)
(* the proof first states what such a change has to leave alone for        *)
(* manager m (FsKeeps), shows that NodeInv(m) then survives (NodeKept),    *)
(* and then goes through the steps: what each does to the file system      *)
(* (FsStep) and to the part of the manager that takes it.                  *)
(***************************************************************************)

-----------------------------------------------------------------------------
(* What a change of the file system must leave alone *)

\* A file becomes one that can be run only when it is created for a new job.
NoNewActive ==
  \A k \in Inode : Active(k)' =>
    \/ Active(k) /\ at'[k].id = at[k].id
    \/ Free(k) /\ sub[at'[k].id] = "none"

\* The file of a job that can still run stays that job's file, or the job is over.
StillFiled ==
  \A k \in Inode, j \in Job : Active(k) /\ at[k].id = j =>
    (at'[k] # NoName /\ at'[k].id = j) \/ Over(j)'

StillSubmitted == \A j \in Job : sub[j] # "none" => sub'[j] # "none"

\* What m has locked stays locked; in pend and in run it is not moved, and in
\* run it is not written.
LocksRespected(m) ==
  \A k \in Inode : flk[k] = m =>
    /\ flk'[k] = m
    /\ at[k] # NoName /\ at[k].st \in {"pend", "run"} => at'[k] = at[k]
    /\ at[k] # NoName /\ at[k].st = "run" => data'[k] = data[k]

\* What is not yet due for anybody is not moved.
LaterKept ==
  \A k \in Inode :
    at[k] # NoName /\ at[k].st = "pend" /\ at[k].rt > now + MaxSkew => at'[k] = at[k]

FsKeeps(m) ==
  /\ NoNewActive
  /\ StillFiled
  /\ StillSubmitted
  /\ LocksRespected(m)
  /\ LaterKept

\* A job that is over stays over, and what was opened for a job stays that job's
\* file until then.
LEMMA BoundKept ==
  ASSUME TypeOK, UniqueActive, NoNewActive, StillFiled, StillSubmitted
  PROVE  /\ \A j \in Job : Over(j) /\ sub[j] # "none" => Over(j)'
         /\ \A i \in Inode, j \in Job : Bound(i, j) => Bound(i, j)'
<1>1. ASSUME NEW j \in Job, Over(j), sub[j] # "none" PROVE Over(j)'
  BY <1>1 DEF NoNewActive, Over
<1>2. ASSUME NEW i \in Inode, NEW j \in Job, Bound(i, j) PROVE Bound(i, j)'
  <2>1. sub[j] # "none" /\ sub'[j] # "none"
    BY <1>2 DEF Bound, StillSubmitted
  <2>2. CASE Over(j)
    BY <1>1, <2>1, <2>2 DEF Bound
  <2>3. CASE ~Over(j)
    <3>1. PICK k \in Inode : Active(k) /\ at[k].id = j
      BY <2>3 DEF Over
    <3>2. at[i] # NoName /\ at[i].id = j
      BY <1>2, <2>3 DEF Bound
    <3>3. k = i
      BY <3>1, <3>2 DEF UniqueActive
    <3>4. (at'[i] # NoName /\ at'[i].id = j) \/ Over(j)'
      BY <3>1, <3>3 DEF StillFiled
    <3> QED
      BY <2>1, <3>4 DEF Bound
  <2> QED
    BY <2>2, <2>3
<1> QED
  BY <1>1, <1>2

\* A manager that does not itself take a step keeps its part of the invariant.
LEMMA NodeKept ==
  ASSUME TInv, UniqueActive, NEW m \in Node, NodeInv(m), FsKeeps(m),
         proc'[m] = proc[m], todo'[m] = todo[m], jf'[m] = jf[m], pads'[m] = pads[m],
         now' = now
  PROVE  NodeInv(m)'
<1>0. TypeOK /\ HandInUse(m) /\ jf[m] \in Hand /\ pads[m] \subseteq Pad
  BY DEF TInv, TypeOK
<1>a. /\ \A j \in Job : Over(j) /\ sub[j] # "none" => Over(j)'
      /\ \A i \in Inode, j \in Job : Bound(i, j) => Bound(i, j)'
  BY <1>0, BoundKept DEF FsKeeps
<1>1. ListingStale(m)'
  BY DEF NodeInv, ListingStale, Due
<1>2. HandOpened(m)'
  <2>1. ASSUME proc[m] \in {"lock", "load", "reject", "claim", "raise"}
        PROVE  jf[m].lock \in Inode /\ jf[m].nm.id \in Job
    BY <1>0, <2>1 DEF HandInUse, Opened, Starting, Name
  <2>2. HandOpened(m)
    BY DEF NodeInv
  <2> QED
    BY <1>a, <2>1, <2>2 DEF HandOpened, Due, Bound, Over, Active
<1>3. HandLocked(m)'
  <2>1. HandLocked(m) /\ HandOpened(m) /\ LocksRespected(m)
    BY DEF NodeInv, FsKeeps
  <2>2. proc[m] \in Locked => jf[m].lock \in Inode /\ jf[m].nm \in Name
    BY <1>0 DEF HandInUse, Opened, Starting, Locked
  <2>3. proc[m] \in {"reject", "claim"} \cup Claimed =>
          at[jf[m].lock] # NoName /\ at[jf[m].lock].st \in {"pend", "run"}
    BY <2>1, <2>2, JobFileAssumption DEF HandLocked, HandOpened, Due, Claimed, Locked
  <2>4. proc[m] = "launch" => at[jf[m].lock].st = "run"
    BY <2>1 DEF HandLocked, Claimed
  <2> QED
    BY <2>1, <2>2, <2>3, <2>4 DEF HandLocked, LocksRespected, Claimed, Locked
<1>4. HandEnding(m)'
  <2>1. SUFFICES ASSUME proc[m] \in Ending PROVE HandEnding(m)'
    BY DEF HandEnding
  <2>2. HandEnding(m) /\ jf[m].nm \in Name
    BY <1>0, <2>1 DEF NodeInv, HandInUse
  <2>3. jf[m].nm.id \in Job
    BY <2>2 DEF Name
  <2>4. sub'[jf[m].nm.id] # "none"
    BY <2>1, <2>2, <2>3 DEF HandEnding, FsKeeps, StillSubmitted
  <2>5. CASE jf[m].nm.st = "pend"
    <3>1. jf[m].nm.rt > now + MaxSkew /\ Resolves(jf[m].nm)
      BY <2>1, <2>2, <2>5 DEF HandEnding
    <3>2. \A k \in Inode : at[k] = jf[m].nm => at'[k] = jf[m].nm
      BY <2>2, <2>5, <3>1, JobFileAssumption DEF FsKeeps, LaterKept
    <3> QED
      BY <2>1, <2>2, <2>4, <2>5, <3>1, <3>2 DEF HandEnding, Resolves
  <2>6. CASE jf[m].nm.st # "pend"
    <3>1. jf[m].nm.st \in {"tied", "done"} /\ Over(jf[m].nm.id)
      BY <2>1, <2>2, <2>6 DEF HandEnding
    <3>2. \A k \in Inode : Active(k) => at[k].id # jf[m].nm.id
      BY <3>1 DEF Over
    <3>3. \A k \in Inode : Active(k)' => at'[k].id # jf[m].nm.id
      BY <2>1, <2>2, <3>2 DEF FsKeeps, NoNewActive, HandEnding
    <3>4. proc[m] = "writeEnd" => jf[m].file \in Inode /\ ~Active(jf[m].file)
      BY <2>1, <2>2, <2>6 DEF HandEnding
    <3>5. \A k \in Inode : Active(k)' /\ ~Active(k) => jf[m].file # k
      BY DEF FsKeeps, NoNewActive, Free
    <3> QED
      BY <2>1, <2>4, <2>6, <3>1, <3>3, <3>4, <3>5 DEF HandEnding, Over, Active
  <2> QED
    BY <2>5, <2>6
<1>5. PadsOwned(m)'
  <2>1. \A p \in pads[m] : p.ino \in Inode /\ p.nm \in Name
    BY <1>0 DEF Pad
  <2>2. \A p \in pads[m] : at[p.ino] # NoName /\ at[p.ino].st = "run"
    BY <2>1, JobFileAssumption DEF NodeInv, PadsOwned
  <2> QED
    BY <2>1, <2>2 DEF NodeInv, PadsOwned, FsKeeps, LocksRespected
<1> QED
  BY <1>1, <1>2, <1>3, <1>4, <1>5 DEF NodeInv

-----------------------------------------------------------------------------
(* What steps do to the file system *)

\* The parts of IInv that are not about one manager, and what a step of node n
\* leaves alone for the other managers.
FsStep(n) ==
  /\ UniqueActive'
  /\ EntriesSubmitted'
  /\ \A m \in Node \ {n} : FsKeeps(m)

\* No entry appears, changes its job, or gets back to where the job can be run.
MoveOnly ==
  \A k \in Inode : at'[k] # NoName =>
    /\ at[k] # NoName
    /\ at'[k].id = at[k].id
    /\ Active(k)' => Active(k)

LEMMA MoveOnlyKeeps ==
  ASSUME TypeOK, UniqueActive, EntriesSubmitted, StillSubmitted, MoveOnly
  PROVE  UniqueActive' /\ EntriesSubmitted' /\ NoNewActive
<1>1. \A k \in Inode : at[k] # NoName => at[k].id \in Job
  BY DEF TypeOK, FsTypeOK, Name
<1>2. \A k \in Inode : Active(k)' => at'[k] # NoName
  BY DEF Active
<1>3. UniqueActive'
  BY <1>2 DEF UniqueActive, MoveOnly
<1>4. EntriesSubmitted'
  BY <1>1 DEF EntriesSubmitted, StillSubmitted, MoveOnly
<1>5. NoNewActive
  BY <1>2 DEF NoNewActive, MoveOnly
<1> QED
  BY <1>3, <1>4, <1>5

\* Nothing moves; at most locks that nobody has are taken, and node n's let go.
LEMMA NothingMoved ==
  ASSUME TypeOK, UniqueActive, EntriesSubmitted, NEW n \in Node,
         UNCHANGED <<at, data, sub>>,
         \A k \in Inode : flk'[k] = flk[k] \/ flk[k] \in {n, Nobody}
  PROVE  FsStep(n)
<1>1. MoveOnly /\ StillSubmitted
  BY DEF MoveOnly, StillSubmitted, Active
<1>2. StillFiled
  BY DEF StillFiled, Active
<1>3. \A m \in Node \ {n} : LocksRespected(m)
  BY JobFileAssumption DEF LocksRespected
<1>4. LaterKept
  BY DEF LaterKept
<1> QED
  BY <1>1, <1>2, <1>3, <1>4, MoveOnlyKeeps DEF FsStep, FsKeeps

\* The one file of a job that can still run is renamed: no other entry has its
\* name or its new one.
LEMMA RenamedOne ==
  ASSUME TypeOK, UniqueActive, NEW l \in Inode, Active(l),
         NEW new \in Name, new.id = at[l].id
  PROVE  Renamed(at[l], new) = [at EXCEPT ![l] = new]
<1>1. \A k \in Inode : at[k] \in {at[l], new} => k = l
  BY JobFileAssumption DEF Active, UniqueActive
<1> QED
  BY <1>1 DEF Renamed, TypeOK, FsTypeOK

\* A name that resolves is that of its job's one file.
LEMMA ResolvesOne ==
  ASSUME TypeOK, UniqueActive, NEW nm \in Name, nm.st \in {"hold", "pend", "run"},
         NEW i \in Inode, at[i] = nm, NEW l \in Inode, Bound(l, nm.id)
  PROVE  i = l
<1>1. Active(i) /\ at[i].id = nm.id
  BY JobFileAssumption DEF Active
<1>2. at[l] # NoName /\ at[l].id = nm.id
  BY <1>1 DEF Bound, Over
<1> QED
  BY <1>1, <1>2 DEF UniqueActive

\* A file that can be run, is due, and is not locked by another is moved.
LEMMA FileMoved ==
  ASSUME TypeOK, UniqueActive, EntriesSubmitted, NEW n \in Node,
         NEW l \in Inode, Active(l), flk[l] \in {n, Nobody},
         at[l].st = "pend" => at[l].rt <= now + MaxSkew,
         NEW new \in Name, new.id = at[l].id,
         at' = [at EXCEPT ![l] = new],
         UNCHANGED <<data, sub>>,
         \A k \in Inode : flk'[k] = flk[k] \/ k = l
  PROVE  FsStep(n)
<1> USE JobFileAssumption, JobManAssumption
<1>0. /\ at'[l] = new /\ new # NoName
      /\ \A k \in Inode : k # l => at'[k] = at[k]
  BY DEF TypeOK, FsTypeOK
<1>1. MoveOnly /\ StillSubmitted
  BY <1>0 DEF MoveOnly, StillSubmitted, Active
<1>2. StillFiled
  BY <1>0 DEF StillFiled, Active
<1>3. ASSUME NEW m \in Node \ {n} PROVE LocksRespected(m)
  <2>1. flk[l] # m
    OBVIOUS
  <2> QED
    BY <1>0, <2>1 DEF LocksRespected
<1>4. LaterKept
  <2>1. at[l] \in Name /\ now \in Nat
    BY DEF TypeOK, FsTypeOK, Active
  <2>2. ~(at[l].st = "pend" /\ at[l].rt > now + MaxSkew)
    BY <2>1 DEF Name
  <2> QED
    BY <1>0, <2>2 DEF LaterKept
<1> QED
  BY <1>1, <1>2, <1>3, <1>4, MoveOnlyKeeps DEF FsStep, FsKeeps

\* A file is written that is not in run, or that node n has locked.
LEMMA FileWritten ==
  ASSUME TypeOK, UniqueActive, EntriesSubmitted, NEW n \in Node, NEW l \in Inode,
         at[l] = NoName \/ at[l].st # "run" \/ flk[l] \in {n, Nobody},
         \A k \in Inode : k # l => data'[k] = data[k],
         UNCHANGED <<at, flk, sub>>
  PROVE  FsStep(n)
<1>1. MoveOnly /\ StillSubmitted
  BY DEF MoveOnly, StillSubmitted, Active
<1>2. StillFiled
  BY DEF StillFiled, Active
<1>3. \A m \in Node \ {n} : LocksRespected(m)
  BY JobFileAssumption DEF LocksRespected
<1>4. LaterKept
  BY DEF LaterKept
<1> QED
  BY <1>1, <1>2, <1>3, <1>4, MoveOnlyKeeps DEF FsStep, FsKeeps

\* Files that can no longer be run are moved on, or away.
LEMMA OverMoved ==
  ASSUME TypeOK, UniqueActive, EntriesSubmitted, NEW n \in Node, MoveOnly,
         \A k \in Inode : Active(k) => at'[k] = at[k],
         UNCHANGED <<data, flk, sub>>
  PROVE  FsStep(n)
<1>1. StillSubmitted
  BY DEF StillSubmitted
<1>2. StillFiled
  BY DEF StillFiled, Active
<1>3. \A m \in Node \ {n} : LocksRespected(m)
  BY DEF LocksRespected, Active
<1>4. LaterKept
  BY DEF LaterKept, Active
<1> QED
  BY <1>1, <1>2, <1>3, <1>4, MoveOnlyKeeps DEF FsStep, FsKeeps

-----------------------------------------------------------------------------
(* The part of the manager that takes the step *)

\* What it has launched is left alone.
LEMMA PadsKept ==
  ASSUME TypeOK, NEW n \in Node, PadsOwned(n), pads'[n] \subseteq pads[n],
         \A p \in pads'[n] : /\ at'[p.ino] = at[p.ino]
                            /\ data'[p.ino] = data[p.ino]
                            /\ flk'[p.ino] = flk[p.ino]
  PROVE  PadsOwned(n)'
BY DEF PadsOwned, TryCount

\* It goes on with its listing.
LEMMA ListingKept ==
  ASSUME NEW n \in Node, ListingStale(n), todo'[n] \subseteq todo[n], now' = now,
         proc'[n] \in Starting => proc[n] \in Starting,
         proc'[n] \in Raising => proc[n] \in Raising,
         proc'[n] \in Hugging => proc[n] \in Hugging
  PROVE  ListingStale(n)'
BY DEF ListingStale, Due

\* It has nothing in hand.
LEMMA BetweenFiles ==
  ASSUME NEW n \in Node, proc'[n] \in {"idle", "down", "solicit", "dead", "hug"},
         ListingStale(n)', PadsOwned(n)'
  PROVE  NodeInv(n)'
BY DEF NodeInv, HandOpened, HandLocked, HandEnding, Locked, Claimed, Ending

\* What a step of node n establishes.
KeepsInv(n) == FsStep(n) /\ NodeInv(n)'

\* The parts of IInv, as the steps use them.
LEMMA Parts ==
  ASSUME IInv, NEW n \in Node
  PROVE  /\ TInv /\ TypeOK /\ FsTypeOK /\ UniqueActive /\ EntriesSubmitted
         /\ HandInUse(n) /\ NodeInv(n)
         /\ ListingStale(n) /\ HandOpened(n) /\ HandLocked(n) /\ HandEnding(n)
         /\ PadsOwned(n)
         /\ jf[n] \in Hand
         /\ \A p \in pads[n] : p \in Pad /\ p.ino \in Inode /\ p.nm \in Name
BY DEF IInv, TInv, TypeOK, NodeInv, Pad

-----------------------------------------------------------------------------
(* Steps that only concern the listing, and children that end *)

LEMMA ListStep ==
  ASSUME IInv, NEW n \in Node,
         Solicit(n) \/ BringOutYerDead(n) \/ GroupHug(n) \/ EndLoop(n) \/ Restart(n)
  PROVE  KeepsInv(n)
<1> USE Parts, JobManAssumption
<1>1. UNCHANGED <<fsVars, sub, jf, pads>> /\ now' = now
  BY DEF Solicit, BringOutYerDead, GroupHug, EndLoop, Restart, envVars
<1>2. FsStep(n)
  BY <1>1, NothingMoved DEF fsVars
<1>3. PadsOwned(n)'
  BY <1>1, PadsKept DEF fsVars
<1>4. proc'[n] \in {"idle", "down", "solicit", "dead", "hug"} /\ ListingStale(n)'
  <2>1. CASE Solicit(n)
    <3>1. PICK skew \in 0..MaxSkew : todo'[n] = DueBy(now + skew)
      BY <2>1 DEF Solicit, TypeOK
    <3>2. now \in Nat /\ \A nm \in DueBy(now + skew) : nm \in Name
      BY ListingType DEF TypeOK
    <3>3. \A nm \in DueBy(now + skew) : Due(nm)
      BY <3>2 DEF DueBy, Listing, Due, Name
    <3>4. proc'[n] = "solicit"
      BY <2>1, GotoEffect DEF Solicit
    <3> QED
      BY <1>1, <3>1, <3>3, <3>4 DEF ListingStale, Due, Raising, Hugging
  <2>2. CASE BringOutYerDead(n)
    BY <1>1, <2>2, GotoEffect
    DEF BringOutYerDead, TypeOK, Listing, ListingStale, Starting, Raising, Hugging
  <2>3. CASE GroupHug(n)
    BY <1>1, <2>3, GotoEffect
    DEF GroupHug, TypeOK, Listing, ListingStale, Starting, Raising, Hugging
  <2>4. CASE EndLoop(n)
    BY <2>4, GotoEffect DEF EndLoop, TypeOK, ListingStale
  <2>5. CASE Restart(n)
    BY <2>5, GotoEffect DEF Restart, ListingStale, Starting, Raising, Hugging
  <2> QED
    BY <2>1, <2>2, <2>3, <2>4, <2>5
<1> QED
  BY <1>2, <1>3, <1>4, BetweenFiles DEF KeepsInv

\* A manager that does not move and has the same launch pads, but for the status
\* of a child, keeps its part of the invariant.
LEMMA KidStep ==
  ASSUME IInv, NEW n \in Node, KidExits(n) \/ Terminate(n)
  PROVE  KeepsInv(n)
<1> USE Parts
<1>1. UNCHANGED <<fsVars, sub, proc, todo, jf>> /\ now' = now
  BY DEF KidExits, Terminate, envVars
<1>2. FsStep(n)
  BY <1>1, NothingMoved DEF fsVars
<1>3. /\ \A q \in pads'[n] : \E p \in pads[n] : q.ino = p.ino /\ q.nm = p.nm
      /\ \A q, r \in pads'[n] : q.ino = r.ino => q = r
  <2>1. CASE UNCHANGED pads
    BY <2>1 DEF PadsOwned
  <2>2. CASE \E p \in pads[n], e \in Exit :
               pads' = [pads EXCEPT ![n] = (@ \ {p}) \cup {[p EXCEPT !.kid = e]}]
    <3>1. PICK p \in pads[n], e \in Exit :
            pads' = [pads EXCEPT ![n] = (@ \ {p}) \cup {[p EXCEPT !.kid = e]}]
      BY <2>2
    <3> DEFINE x == [p EXCEPT !.kid = e]
    <3>2. x.ino = p.ino /\ x.nm = p.nm
      BY DEF Pad
    <3>3. pads'[n] = (pads[n] \ {p}) \cup {x}
      BY <3>1 DEF TypeOK
    <3> HIDE DEF x
    <3> QED
      BY <3>2, <3>3 DEF PadsOwned
  <2> QED
    BY <2>1, <2>2, JobManAssumption DEF KidExits, Terminate, Exit
<1>4. PadsOwned(n)'
  BY <1>1, <1>3 DEF PadsOwned, fsVars
<1>5. HandLocked(n)'
  BY <1>1, <1>3 DEF HandLocked, fsVars
<1>6. ListingStale(n)' /\ HandOpened(n)' /\ HandEnding(n)'
  BY <1>1 DEF ListingStale, HandOpened, HandEnding, Due, Bound, Over, Active, Resolves, fsVars
<1> QED
  BY <1>2, <1>4, <1>5, <1>6 DEF KeepsInv, NodeInv

\* The next entry of a listing is opened, if it is still there.
LEMMA OpenStep ==
  ASSUME IInv, NEW n \in Node, OpenPending(n) \/ OpenDead(n) \/ OpenTied(n)
  PROVE  KeepsInv(n)
<1> USE Parts
<1>1. UNCHANGED <<fsVars, sub, pads>> /\ now' = now
  BY DEF OpenPending, OpenDead, OpenTied, envVars
<1>2. FsStep(n)
  BY <1>1, NothingMoved DEF fsVars
<1>3. PadsOwned(n)'
  BY <1>1, PadsKept DEF fsVars
<1>4. PICK next \in {"lock", "raise", "hugMove"}, loop \in {"solicit", "dead", "hug"} :
        \E nm \in todo[n] :
          /\ proc[n] = loop
          /\ loop = "solicit" <=> next = "lock"
          /\ loop = "dead" <=> next = "raise"
          /\ Open(n, nm, next, loop)
  <2>1. CASE OpenPending(n)
    BY <2>1 DEF OpenPending
  <2>2. CASE OpenDead(n)
    BY <2>2 DEF OpenDead
  <2>3. CASE OpenTied(n)
    BY <2>3 DEF OpenTied
  <2> QED
    BY <2>1, <2>2, <2>3
<1>a. PICK nm \in todo[n] :
        /\ proc[n] = loop
        /\ loop = "solicit" <=> next = "lock"
        /\ loop = "dead" <=> next = "raise"
        /\ Open(n, nm, next, loop)
  BY <1>4
<1>5. ListingStale(n)'
  BY <1>1, <1>a, OpenEffect, ListingKept DEF Starting, Raising, Hugging
<1>6. CASE proc'[n] = loop
  BY <1>2, <1>3, <1>a, <1>5, <1>6, BetweenFiles DEF KeepsInv
<1>7. CASE \E i \in Inode : at[i] = nm /\ proc'[n] = next /\ jf'[n].nm = nm /\ jf'[n].lock = i
  <2>1. PICK i \in Inode : at[i] = nm /\ proc'[n] = next /\ jf'[n].nm = nm /\ jf'[n].lock = i
    BY <1>7
  <2>2. nm \in Name /\ sub[nm.id] # "none"
    BY <2>1, JobFileAssumption DEF TypeOK, EntriesSubmitted
  <2>3. at'[i] # NoName /\ at'[i].id = nm.id /\ sub'[nm.id] # "none"
    BY <1>1, <2>1, <2>2, JobFileAssumption DEF fsVars
  <2>4. HandOpened(n)'
    BY <1>1, <1>a, <2>1, <2>3
    DEF HandOpened, ListingStale, Bound, Due, Starting, Raising, Hugging
  <2>5. HandLocked(n)' /\ HandEnding(n)'
    BY <1>a, <2>1 DEF HandLocked, HandEnding, Locked, Claimed, Ending
  <2> QED
    BY <1>2, <1>3, <1>5, <2>4, <2>5 DEF KeepsInv, NodeInv
<1> QED
  BY <1>a, <1>6, <1>7, OpenEffect

-----------------------------------------------------------------------------
(* run_a_job *)

\* What is opened is locked, unless somebody has it: then none of the files this
\* manager has launched is the one, for those it has locked itself.
LEMMA LockStep ==
  ASSUME IInv, NEW n \in Node, LockPending(n)
  PROVE  KeepsInv(n)
<1> USE Parts, JobFileAssumption
<1> DEFINE l == jf[n].lock
<1>1. /\ UNCHANGED <<at, data, sub, pads>> /\ now' = now
      /\ proc[n] = "lock" /\ l \in Inode
  BY DEF LockPending, envVars, HandInUse, Opened, Starting
<1>2. CASE /\ flk[l] = Nobody
           /\ flk' = [flk EXCEPT ![l] = n]
           /\ Goto(n, "load")
           /\ UNCHANGED <<todo, jf>>
  <2>1. flk'[l] = n /\ \A k \in Inode : k # l => flk'[k] = flk[k]
    BY <1>1, <1>2 DEF FsTypeOK
  <2>2. FsStep(n)
    BY <1>1, <1>2, <2>1, NothingMoved
  <2>3. \A p \in pads[n] : p.ino # l
    BY <1>2 DEF PadsOwned
  <2>4. PadsOwned(n)'
    BY <1>1, <2>1, <2>3, PadsKept
  <2>5. proc'[n] = "load"
    BY <1>2, GotoEffect
  <2>6. ListingStale(n)'
    BY <1>1, <1>2, <2>5, ListingKept DEF Starting, Raising, Hugging
  <2>7. HandOpened(n)'
    BY <1>1, <1>2, <2>5 DEF HandOpened, Due, Bound, Over, Active
  <2>8. HandLocked(n)' /\ HandEnding(n)'
    BY <1>1, <1>2, <2>1, <2>3, <2>5 DEF HandLocked, HandEnding, Claimed, Locked, Ending
  <2> QED
    BY <2>2, <2>4, <2>6, <2>7, <2>8 DEF KeepsInv, NodeInv
<1>3. CASE Skip(n, jf[n].nm, "solicit") /\ UNCHANGED flk
  <2>1. FsStep(n)
    BY <1>1, <1>3, NothingMoved
  <2>2. PadsOwned(n)'
    BY <1>1, <1>3, PadsKept
  <2>3. proc'[n] = "solicit" /\ ListingStale(n)'
    BY <1>1, <1>3, SkipEffect, ListingKept DEF Starting, Raising, Hugging
  <2> QED
    BY <2>1, <2>2, <2>3, BetweenFiles DEF KeepsInv
<1> QED
  BY <1>2, <1>3 DEF LockPending

\* What the name finds, once it is locked, is what was opened: had it been taken
\* by another manager meanwhile, the name would be gone.
LEMMA LoadStep ==
  ASSUME IInv, NEW n \in Node, LoadPending(n)
  PROVE  KeepsInv(n)
<1> USE Parts, JobFileAssumption
<1> DEFINE l == jf[n].lock
<1>1. /\ UNCHANGED <<at, data, sub, pads>> /\ now' = now
      /\ proc[n] = "load" /\ l \in Inode /\ jf[n].nm \in Name
  BY DEF LoadPending, envVars, HandInUse, Opened, Starting
<1>2. flk[l] = n /\ \A p \in pads[n] : p.ino # l
  BY <1>1 DEF HandLocked, Locked
<1>3. CASE Release(l) /\ Skip(n, jf[n].nm, "solicit")
  <2>1. \A k \in Inode : k # l => flk'[k] = flk[k]
    BY <1>3 DEF Release, FsTypeOK
  <2>2. FsStep(n)
    BY <1>1, <1>2, <2>1, NothingMoved
  <2>3. PadsOwned(n)'
    BY <1>1, <1>2, <2>1, PadsKept
  <2>4. proc'[n] = "solicit" /\ ListingStale(n)'
    BY <1>1, <1>3, SkipEffect, ListingKept DEF Starting, Raising, Hugging
  <2> QED
    BY <2>2, <2>3, <2>4, BetweenFiles DEF KeepsInv
<1>4. CASE \E i \in Inode :
             /\ at[i] = jf[n].nm
             /\ jf' = [jf EXCEPT ![n].mem = WithNextTry(data[i])]
             /\ Goto(n, IF data[i].cmd THEN "claim" ELSE "reject")
             /\ UNCHANGED <<flk, todo>>
  <2>1. PICK i \in Inode :
             /\ at[i] = jf[n].nm
             /\ jf' = [jf EXCEPT ![n].mem = WithNextTry(data[i])]
             /\ Goto(n, IF data[i].cmd THEN "claim" ELSE "reject")
             /\ UNCHANGED <<flk, todo>>
    BY <1>4
  <2>2. Due(jf[n].nm) /\ Bound(l, jf[n].nm.id)
    BY <1>1 DEF HandOpened
  <2>3. at[l] = jf[n].nm
    BY <1>1, <2>1, <2>2, ResolvesOne DEF Due
  <2>4. jf'[n].nm = jf[n].nm /\ jf'[n].lock = l /\ jf'[n].mem = WithNextTry(data[i])
    BY <2>1 DEF TypeOK, Hand
  <2>5. TryCount(jf'[n].mem) >= 1
    BY <2>4, NextTryType, TryCountType DEF FsTypeOK
  <2>6. proc'[n] \in {"claim", "reject"}
    BY <2>1, GotoEffect
  <2>7. FsStep(n)
    BY <1>1, <2>1, NothingMoved
  <2>8. PadsOwned(n)'
    BY <1>1, <2>1, PadsKept
  <2>9. ListingStale(n)'
    BY <1>1, <2>1, <2>6, ListingKept DEF Starting, Raising, Hugging
  <2>10. HandOpened(n)'
    BY <1>1, <2>2, <2>4, <2>6 DEF HandOpened, Due, Bound, Over, Active
  <2>11. HandLocked(n)' /\ HandEnding(n)'
    BY <1>1, <1>2, <2>1, <2>3, <2>4, <2>5, <2>6
    DEF HandLocked, HandEnding, Claimed, Locked, Ending
  <2> QED
    BY <2>7, <2>8, <2>9, <2>10, <2>11 DEF KeepsInv, NodeInv
<1> QED
  BY <1>3, <1>4 DEF LoadPending

\* The locked file goes to done, without its job having been launched.
LEMMA GivenUp ==
  ASSUME IInv, NEW n \in Node, proc[n] \in {"reject", "launch"},
         at' = IF Resolves(jf[n].nm) THEN Renamed(jf[n].nm, In("done", jf[n].nm)) ELSE at,
         Release(jf[n].lock), UNCHANGED <<data, sub, pads>>, now' = now,
         proc'[n] = "solicit", todo'[n] \subseteq todo[n]
  PROVE  KeepsInv(n)
<1> USE Parts, JobFileAssumption
<1> DEFINE l == jf[n].lock
           new == In("done", jf[n].nm)
<1>1. l \in Inode /\ jf[n].nm \in Name
  BY DEF HandInUse, Opened, Starting
<1>2. /\ flk[l] = n /\ at[l] = jf[n].nm
      /\ \A p \in pads[n] : p.ino # l
  BY DEF HandLocked, Locked, Claimed
<1>3. jf[n].nm.st \in {"pend", "run"} /\ (jf[n].nm.st = "pend" => jf[n].nm.rt <= now + MaxSkew)
  BY DEF HandOpened, HandLocked, Claimed, Due
<1>4. new \in Name /\ new.id = at[l].id
  BY <1>1, <1>2, MovedNameType DEF State
<1>5. Active(l)
  BY <1>1, <1>2, <1>3 DEF Active
<1> HIDE DEF l, new
<1>6. at' = [at EXCEPT ![l] = new]
  BY <1>1, <1>2, <1>4, <1>5, RenamedOne DEF Resolves, l, new
<1>7. \A k \in Inode : flk'[k] = flk[k] \/ k = l
  BY DEF Release, FsTypeOK, l
<1>8. FsStep(n)
  BY <1>1, <1>2, <1>3, <1>4, <1>5, <1>6, <1>7, FileMoved DEF l
<1>9. \A p \in pads[n] : at'[p.ino] = at[p.ino]
  BY <1>2, <1>6 DEF FsTypeOK
<1>10. PadsOwned(n)'
  BY <1>2, <1>7, <1>9, PadsKept
<1>11. ListingStale(n)'
  BY ListingKept DEF Starting, Raising, Hugging
<1> QED
  BY <1>8, <1>10, <1>11, BetweenFiles DEF KeepsInv

LEMMA RejectStep ==
  ASSUME IInv, NEW n \in Node, RejectPending(n)
  PROVE  KeepsInv(n)
<1>1. proc'[n] = "solicit" /\ todo'[n] \subseteq todo[n]
  BY Parts, SkipEffect DEF RejectPending
<1> QED
  BY <1>1, GivenUp DEF RejectPending, envVars

\* The locked file is moved to run; it is still where it was loaded from.
LEMMA ClaimStep ==
  ASSUME IInv, NEW n \in Node, ClaimPending(n)
  PROVE  KeepsInv(n)
<1> USE Parts, JobFileAssumption
<1> DEFINE l == jf[n].lock
           new == In("run", jf[n].nm)
<1>1. /\ UNCHANGED <<data, flk, sub, pads>> /\ now' = now
      /\ proc[n] = "claim" /\ l \in Inode /\ jf[n].nm \in Name
      /\ todo'[n] \subseteq todo[n]
      /\ proc'[n] = "truncRun"
  BY GotoEffect DEF ClaimPending, envVars, HandInUse, Opened, Starting, TypeOK
<1>2. /\ flk[l] = n /\ at[l] = jf[n].nm
      /\ TryCount(jf[n].mem) >= 1
      /\ \A p \in pads[n] : p.ino # l
  BY <1>1 DEF HandLocked, Locked, Claimed
<1>3. Due(jf[n].nm)
  BY <1>1 DEF HandOpened
<1>4. new \in Name /\ new.id = at[l].id /\ new.st = "run"
  BY <1>1, <1>2, MovedNameType DEF State
<1>5. Active(l)
  BY <1>1, <1>2, <1>3 DEF Active, Due
<1>6. /\ at' = Renamed(jf[n].nm, new)
      /\ jf'[n].nm = new /\ jf'[n].lock = l /\ jf'[n].mem = jf[n].mem
  <2>1. Resolves(jf[n].nm)
    BY <1>1, <1>2 DEF Resolves
  <2> QED
    BY <2>1 DEF ClaimPending, TypeOK, Hand
<1> HIDE DEF l, new
<1>7. at' = [at EXCEPT ![l] = new]
  BY <1>1, <1>2, <1>4, <1>5, <1>6, RenamedOne
<1>8. FsStep(n)
  BY <1>1, <1>2, <1>3, <1>4, <1>5, <1>7, FileMoved DEF Due
<1>9. \A p \in pads[n] : at'[p.ino] = at[p.ino]
  BY <1>2, <1>7 DEF FsTypeOK
<1>10. PadsOwned(n)'
  BY <1>1, <1>9, PadsKept
<1>11. ListingStale(n)'
  BY <1>1, ListingKept DEF Starting, Raising, Hugging
<1>12. at'[l] = new
  BY <1>1, <1>7 DEF FsTypeOK
<1>13. HandOpened(n)' /\ HandLocked(n)' /\ HandEnding(n)'
  BY <1>1, <1>2, <1>4, <1>6, <1>12
  DEF HandOpened, HandLocked, HandEnding, Claimed, Locked, Ending
<1> QED
  BY <1>8, <1>10, <1>11, <1>13 DEF KeepsInv, NodeInv

\* The claimed file is truncated, through its new name.
LEMMA TruncateRunStep ==
  ASSUME IInv, NEW n \in Node, TruncateRun(n)
  PROVE  KeepsInv(n)
<1> USE Parts, JobFileAssumption
<1> DEFINE l == jf[n].lock
<1>1. /\ UNCHANGED <<flk, sub, todo, pads>> /\ now' = now
      /\ proc[n] = "truncRun" /\ l \in Inode /\ jf[n].nm \in Name
      /\ proc'[n] = "writeRun"
  BY GotoEffect DEF TruncateRun, OpenForWrite, envVars, HandInUse, Opened, Starting
<1>2. /\ flk[l] = n /\ at[l] = jf[n].nm /\ jf[n].nm.st = "run"
      /\ TryCount(jf[n].mem) >= 1
      /\ \A p \in pads[n] : p.ino # l
  BY <1>1 DEF HandLocked, Locked, Claimed
<1>3. PICK i \in Inode :
        /\ at[i] = jf[n].nm
        /\ at' = [at EXCEPT ![i] = jf[n].nm]
        /\ data' = [data EXCEPT ![i] = Empty]
        /\ jf' = [jf EXCEPT ![n].file = i]
  BY <1>1, <1>2 DEF TruncateRun, OpenForWrite, Resolves
<1>4. i = l
  BY <1>1, <1>2, <1>3 DEF UniqueActive, Active
<1>5. /\ at' = at
      /\ \A k \in Inode : k # l => data'[k] = data[k]
      /\ jf'[n].nm = jf[n].nm /\ jf'[n].lock = l /\ jf'[n].mem = jf[n].mem /\ jf'[n].file = l
  BY <1>3, <1>4 DEF FsTypeOK, TypeOK, Hand
<1>6. FsStep(n)
  BY <1>1, <1>2, <1>5, FileWritten
<1>7. PadsOwned(n)'
  BY <1>1, <1>2, <1>5, PadsKept
<1>8. ListingStale(n)'
  BY <1>1, ListingKept DEF Starting, Raising, Hugging
<1>9. HandOpened(n)' /\ HandLocked(n)' /\ HandEnding(n)'
  BY <1>1, <1>2, <1>5
  DEF HandOpened, HandLocked, HandEnding, Claimed, Locked, Ending
<1> QED
  BY <1>6, <1>7, <1>8, <1>9 DEF KeepsInv, NodeInv

LEMMA WriteRunStep ==
  ASSUME IInv, NEW n \in Node, WriteRun(n)
  PROVE  KeepsInv(n)
<1> USE Parts, JobFileAssumption
<1> DEFINE l == jf[n].lock
<1>1. /\ UNCHANGED <<at, flk, sub, todo, pads>> /\ now' = now
      /\ proc[n] = "writeRun" /\ l \in Inode /\ jf[n].nm \in Name
      /\ proc'[n] = "launch"
  BY GotoEffect DEF WriteRun, Flush, envVars, HandInUse, Opened, Starting
<1>2. /\ flk[l] = n /\ at[l] = jf[n].nm /\ jf[n].nm.st = "run"
      /\ TryCount(jf[n].mem) >= 1 /\ jf[n].file = l
      /\ \A p \in pads[n] : p.ino # l
  BY <1>1 DEF HandLocked, Locked, Claimed
<1>3. /\ data'[l] = jf[n].mem
      /\ \A k \in Inode : k # l => data'[k] = data[k]
      /\ jf'[n].nm = jf[n].nm /\ jf'[n].lock = l
  BY <1>1, <1>2 DEF WriteRun, Flush, FsTypeOK, TypeOK, Hand
<1>4. FsStep(n)
  BY <1>1, <1>2, <1>3, FileWritten
<1>5. PadsOwned(n)'
  BY <1>1, <1>2, <1>3, PadsKept
<1>6. ListingStale(n)'
  BY <1>1, ListingKept DEF Starting, Raising, Hugging
<1>7. TryCount(data'[l]) >= 1
  BY <1>2, <1>3
<1>8. HandOpened(n)' /\ HandEnding(n)'
  BY <1>1 DEF HandOpened, HandEnding, Ending
<1>9. HandLocked(n)'
  BY <1>1, <1>2, <1>3, <1>7 DEF HandLocked, Claimed, Locked, TryCount
<1> QED
  BY <1>4, <1>5, <1>6, <1>8, <1>9 DEF KeepsInv, NodeInv

\* The child's pad keeps the lock; if there is no child the job goes to done.
LEMMA LaunchStep ==
  ASSUME IInv, NEW n \in Node, LaunchJob(n)
  PROVE  KeepsInv(n)
<1> USE Parts, JobFileAssumption
<1> DEFINE l == jf[n].lock
           pad == [nm |-> In("run", jf[n].nm), ino |-> l, kid |-> "alive"]
<1>1. /\ UNCHANGED <<data, sub, todo>> /\ now' = now
      /\ proc[n] = "launch" /\ l \in Inode /\ jf[n].nm \in Name
      /\ proc'[n] = "solicit"
  BY GotoEffect DEF LaunchJob, envVars, HandInUse, Opened, Starting
<1>2. CASE pads' = [pads EXCEPT ![n] = @ \cup {pad}] /\ UNCHANGED <<at, flk>>
  <2>1. /\ flk[l] = n /\ at[l] = jf[n].nm /\ jf[n].nm.st = "run"
        /\ TryCount(data[l]) >= 1
        /\ \A p \in pads[n] : p.ino # l
    BY <1>1 DEF HandLocked, Locked, Claimed
  <2>2. pad.ino = l /\ pad.nm = jf[n].nm
    BY <1>1, <2>1 DEF In, Name
  <2>3. pads'[n] = pads[n] \cup {pad}
    BY <1>2 DEF TypeOK
  <2> HIDE DEF pad
  <2>4. FsStep(n)
    BY <1>1, <1>2, NothingMoved
  <2>5. PadsOwned(n)'
    BY <1>1, <1>2, <2>1, <2>2, <2>3 DEF PadsOwned
  <2>6. ListingStale(n)'
    BY <1>1, ListingKept DEF Starting, Raising, Hugging
  <2> QED
    BY <1>1, <2>4, <2>5, <2>6, BetweenFiles DEF KeepsInv
<1>3. CASE /\ at' = IF Resolves(jf[n].nm) THEN Renamed(jf[n].nm, In("done", jf[n].nm)) ELSE at
           /\ Release(jf[n].lock)
           /\ UNCHANGED pads
  BY <1>1, <1>3, GivenUp
<1> QED
  BY <1>2, <1>3 DEF LaunchJob

-----------------------------------------------------------------------------
(* try_done, and the store that follows its rename *)

\* The first retry is later than any clock.
LEMMA RetryLater ==
  ASSUME MaxSkew < Delay, NEW try \in Nat, try >= 1, NEW t \in Nat
  PROVE  t + Delay * try > t + MaxSkew
<1>1. Delay \in Nat /\ MaxSkew \in Nat
  BY JobManAssumption
<1>2. Delay * try >= Delay
  <2>1. PICK k \in Nat : try = k + 1
    <3>1. try - 1 \in Nat /\ try = (try - 1) + 1
      OBVIOUS
    <3> QED
      BY <3>1
  <2>2. Delay * (k + 1) = Delay * k + Delay
    BY <1>1
  <2>3. Delay * k \in Nat
    BY <1>1
  <2> QED
    BY <1>1, <2>1, <2>2, <2>3
<1>3. Delay * try \in Nat
  BY <1>1
<1> QED
  BY <1>1, <1>2, <1>3

\* A job whose child has ended goes to pend, for later than any clock says it is,
\* or it is over; only then is its lock let go.
LEMMA TryDoneStep ==
  ASSUME IInv, MaxSkew < Delay, NEW n \in Node, TryDone(n)
  PROVE  KeepsInv(n)
<1> USE Parts, JobFileAssumption
<1>1. UNCHANGED <<data, sub, todo>> /\ now' = now /\ proc[n] = "idle" /\ now \in Nat
  BY DEF TryDone, envVars, TypeOK
<1>2. PICK p \in pads[n] : TryEnds(n, p)
  BY DEF TryDone
<1> DEFINE l == p.ino
<1>3. at[l] = p.nm /\ p.nm.st = "run" /\ flk[l] = n /\ TryCount(data[l]) >= 1 /\ l \in Inode
  BY DEF PadsOwned
<1>4. Active(l) /\ at[l] # NoName
  BY <1>3 DEF Active
<1>5. PICK i \in Inode :
        /\ at[i] = p.nm
        /\ at' = Renamed(p.nm, Verdict(p, data[i]))
        /\ Release(l)
        /\ jf' = [jf EXCEPT ![n] =
             [EmptyHand EXCEPT !.nm = Verdict(p, data[i]),
                               !.mem = WithSection(data[i], "result", TryCount(data[i]))]]
        /\ Goto(n, "truncEnd")
  BY <1>2, <1>3 DEF TryEnds, Resolves
<1>6. i = l
  BY <1>3, <1>4, <1>5 DEF UniqueActive
<1> DEFINE new == Verdict(p, data[l])
<1>7. data[l] \in Content /\ TryCount(data[l]) \in Nat
  BY <1>3, TryCountType DEF FsTypeOK
<1>8. /\ new \in Name
      /\ new.id = p.nm.id
      /\ new.st \in {"tied", "done"} \/ (new.st = "pend" /\ new.rt = now + Delay * TryCount(data[l]))
  BY <1>7, VerdictType
<1>9. new.st = "pend" => new.rt > now + MaxSkew
  BY <1>1, <1>3, <1>7, <1>8, RetryLater
<1>10. jf'[n].nm = new
  BY <1>5, <1>6 DEF TypeOK, EmptyHand
<1>11. at' = Renamed(at[l], new) /\ pads'[n] = pads[n] \ {p}
  BY <1>2, <1>3, <1>5, <1>6 DEF TryEnds, TypeOK
<1> HIDE DEF new, l
<1>12. at' = [at EXCEPT ![l] = new]
  BY <1>3, <1>4, <1>8, <1>11, RenamedOne
<1>13. /\ at'[l] = new
       /\ \A k \in Inode : k # l => at'[k] = at[k] /\ flk'[k] = flk[k]
  BY <1>3, <1>5, <1>12 DEF FsTypeOK, Release
<1>14. FsStep(n)
  BY <1>1, <1>3, <1>4, <1>8, <1>12, <1>13, FileMoved, ZenonT(40)
<1>15. PadsOwned(n)'
  <2>1. \A q \in pads'[n] : q \in pads[n] /\ q.ino # l /\ q.ino \in Inode
    BY <1>11 DEF PadsOwned, l
  <2> QED
    BY <1>1, <1>13, <2>1, PadsKept
<1>16. proc'[n] = "truncEnd"
  BY <1>5, GotoEffect
<1>17. ListingStale(n)'
  BY <1>1, <1>16, ListingKept DEF Starting, Raising, Hugging
<1>18. HandOpened(n)' /\ HandLocked(n)'
  BY <1>16 DEF HandOpened, HandLocked, Claimed, Locked
<1>19. HandEnding(n)'
  <2>1. sub'[new.id] # "none"
    BY <1>1, <1>3, <1>4, <1>8 DEF EntriesSubmitted
  <2>2. \A k \in Inode : k # l /\ Active(k) => at[k].id # new.id
    BY <1>3, <1>4, <1>8 DEF UniqueActive
  <2>3. new.st \in {"tied", "done"} => \A k \in Inode : Active(k)' => at'[k].id # new.id
    BY <1>13, <2>2 DEF Active
  <2> QED
    BY <1>1, <1>3, <1>8, <1>9, <1>10, <1>13, <1>16, <2>1, <2>3
    DEF HandEnding, Over, Resolves
<1> QED
  BY <1>14, <1>15, <1>17, <1>18, <1>19 DEF KeepsInv, NodeInv

\* The file of a job in pend is there; for a job that is over there may be none
\* any more, and one that is made then cannot be run.
LEMMA TruncateEndStep ==
  ASSUME IInv, NEW n \in Node, TruncateEnd(n)
  PROVE  KeepsInv(n)
<1> USE Parts, JobFileAssumption
<1> DEFINE nm == jf[n].nm
<1>1. /\ UNCHANGED <<flk, sub, todo, pads>> /\ now' = now
      /\ proc[n] = "truncEnd" /\ nm \in Name
      /\ proc'[n] = "writeEnd"
  BY GotoEffect DEF TruncateEnd, OpenForWrite, envVars, HandInUse, Ending
<1>2. PICK i \in Inode :
        /\ IF Resolves(nm) THEN at[i] = nm ELSE Free(i)
        /\ at' = [at EXCEPT ![i] = nm]
        /\ data' = [data EXCEPT ![i] = Empty]
        /\ jf' = [jf EXCEPT ![n].file = i]
  BY DEF TruncateEnd, OpenForWrite
<1>3. /\ at'[i] = nm
      /\ \A k \in Inode : k # i => at'[k] = at[k] /\ data'[k] = data[k]
      /\ jf'[n].nm = nm /\ jf'[n].file = i
  BY <1>2 DEF FsTypeOK, TypeOK, Hand
<1>4. /\ sub[nm.id] # "none"
      /\ \/ nm.st = "pend" /\ nm.rt > now + MaxSkew /\ Resolves(nm)
         \/ nm.st \in {"tied", "done"} /\ Over(nm.id)
  BY <1>1 DEF HandEnding, Ending
<1> HIDE DEF nm
<1>5. at[i] = nm \/ (Free(i) /\ nm.st \in {"tied", "done"} /\ Over(nm.id))
  BY <1>2, <1>4
<1>6. at[i] = NoName \/ at[i].st # "run"
  BY <1>4, <1>5 DEF Free
<1>7. PadsOwned(n)'
  <2>1. \A p \in pads[n] : p.ino # i
    BY <1>6 DEF PadsOwned
  <2> QED
    BY <1>1, <1>3, <2>1, PadsKept
<1>8. ListingStale(n)'
  BY <1>1, ListingKept DEF Starting, Raising, Hugging
<1>9. HandOpened(n)' /\ HandLocked(n)'
  BY <1>1 DEF HandOpened, HandLocked, Claimed, Locked
<1>10. CASE at[i] = nm
  <2>1. at' = at
    BY <1>2, <1>10 DEF FsTypeOK
  <2>2. FsStep(n)
    BY <1>1, <1>3, <1>6, <2>1, FileWritten
  <2>3. HandEnding(n)'
    BY <1>1, <1>3, <1>4, <1>10, <2>1 DEF HandEnding, Ending, Over, Active, Resolves
  <2> QED
    BY <1>7, <1>8, <1>9, <2>2, <2>3 DEF KeepsInv, NodeInv
<1>11. CASE Free(i) /\ nm.st \in {"tied", "done"} /\ Over(nm.id)
  <2>1. at[i] = NoName /\ flk[i] = Nobody
    BY <1>11 DEF Free
  <2>2. \A k \in Inode : Active(k)' => k # i /\ Active(k) /\ at'[k] = at[k]
    BY <1>3, <1>11 DEF Active
  <2>3. \A k \in Inode : Active(k) => k # i /\ at'[k] = at[k]
    BY <1>3, <2>1 DEF Active
  <2>4. \A k \in Inode : Active(k)' => at'[k].id # nm.id
    BY <1>11, <2>2 DEF Over
  <2>5. UniqueActive'
    BY <1>3, <2>2, <2>4 DEF UniqueActive
  <2>6. EntriesSubmitted'
    BY <1>1, <1>3, <1>4 DEF EntriesSubmitted
  <2>7. NoNewActive /\ StillFiled /\ StillSubmitted
    BY <1>1, <2>2, <2>3 DEF NoNewActive, StillFiled, StillSubmitted, Active
  <2>8. LaterKept
    BY <2>3 DEF LaterKept, Active
  <2>9. \A m \in Node : LocksRespected(m)
    BY <1>1, <1>3, <2>1 DEF LocksRespected
  <2>10. HandEnding(n)'
    BY <1>1, <1>3, <1>4, <1>11, <2>2, <2>4 DEF HandEnding, Ending, Over
  <2> QED
    BY <1>7, <1>8, <1>9, <2>5, <2>6, <2>7, <2>8, <2>9, <2>10
    DEF KeepsInv, FsStep, FsKeeps, NodeInv
<1> QED
  BY <1>5, <1>10, <1>11

LEMMA WriteEndStep ==
  ASSUME IInv, NEW n \in Node, WriteEnd(n)
  PROVE  KeepsInv(n)
<1> USE Parts, JobFileAssumption
<1>1. /\ UNCHANGED <<at, flk, sub, todo, pads>> /\ now' = now
      /\ proc[n] = "writeEnd"
      /\ proc'[n] = "idle"
  BY GotoEffect DEF WriteEnd, Flush, envVars
<1> DEFINE i == jf[n].file
<1>2. i \in Inode /\ (at[i] = NoName \/ at[i].st # "run")
  BY <1>1 DEF HandEnding, Ending, Active
<1>3. \A k \in Inode : k # i => data'[k] = data[k]
  BY DEF WriteEnd, Flush, FsTypeOK
<1>4. FsStep(n)
  BY <1>1, <1>2, <1>3, FileWritten
<1>5. \A p \in pads[n] : p.ino # i
  BY <1>2 DEF PadsOwned
<1>6. PadsOwned(n)'
  BY <1>1, <1>3, <1>5, PadsKept
<1>7. ListingStale(n)'
  BY <1>1, ListingKept DEF Starting, Raising, Hugging
<1> QED
  BY <1>1, <1>4, <1>6, <1>7, BetweenFiles DEF KeepsInv

-----------------------------------------------------------------------------
(* bring_out_yer_dead, group_hug, the housekeeper, and deaths *)

\* What is moved back to pend is the very file that was opened and has no lock.
LEMMA RaiseStep ==
  ASSUME IInv, NEW n \in Node, RaiseDead(n)
  PROVE  KeepsInv(n)
<1> USE Parts, JobFileAssumption
<1> DEFINE l == jf[n].lock
           nm == jf[n].nm
           new == In("pend", nm)
<1>1. /\ UNCHANGED <<data, flk, sub, pads>> /\ now' = now
      /\ proc[n] = "raise" /\ l \in Inode /\ nm \in Name
      /\ proc'[n] = "dead" /\ todo'[n] \subseteq todo[n]
  BY SkipEffect DEF RaiseDead, envVars, HandInUse, Opened
<1>2. nm.st = "run" /\ Bound(l, nm.id)
  BY <1>1 DEF HandOpened
<1>3. ListingStale(n)'
  BY <1>1, ListingKept DEF Starting, Raising, Hugging
<1>4. new \in Name /\ new.id = nm.id
  BY <1>1, MovedNameType DEF State
<1>5. at' = MovedIfUnlocked(n, new)
  BY DEF RaiseDead
<1>6. CASE flk[l] = Nobody /\ Resolves(nm)
  <2>1. PICK i \in Inode : at[i] = nm
    BY <1>6 DEF Resolves
  <2>2. at[l] = nm
    BY <1>1, <1>2, <2>1, ResolvesOne
  <2>3. Active(l)
    BY <1>1, <1>2, <2>2 DEF Active
  <2>4. at' = Renamed(nm, new)
    BY <1>5, <1>6 DEF MovedIfUnlocked
  <2> HIDE DEF l, nm, new
  <2>5. at' = [at EXCEPT ![l] = new]
    BY <1>1, <1>4, <2>2, <2>3, <2>4, RenamedOne
  <2>6. FsStep(n)
    BY <1>1, <1>2, <1>4, <1>6, <2>2, <2>3, <2>5, FileMoved
  <2>7. \A p \in pads[n] : p.ino # l
    BY <1>6 DEF PadsOwned
  <2>8. \A p \in pads[n] : at'[p.ino] = at[p.ino]
    BY <2>5, <2>7 DEF FsTypeOK
  <2>9. PadsOwned(n)'
    BY <1>1, <2>8, PadsKept
  <2> QED
    BY <1>1, <1>3, <2>6, <2>9, BetweenFiles DEF KeepsInv
<1>7. CASE ~(flk[l] = Nobody /\ Resolves(nm))
  <2>1. at' = at
    BY <1>5, <1>7 DEF MovedIfUnlocked
  <2> HIDE DEF l, nm, new
  <2>2. FsStep(n)
    BY <1>1, <2>1, NothingMoved
  <2>3. PadsOwned(n)'
    BY <1>1, <2>1, PadsKept
  <2> QED
    BY <1>1, <1>3, <2>2, <2>3, BetweenFiles DEF KeepsInv
<1> QED
  BY <1>6, <1>7

\* A tied job, or what is left of it, goes to done: it is over.
LEMMA MoveTiedStep ==
  ASSUME IInv, NEW n \in Node, MoveTied(n)
  PROVE  KeepsInv(n)
<1> USE Parts, JobFileAssumption
<1> DEFINE nm == jf[n].nm
           new == DoneAt(now, nm)
<1>1. /\ UNCHANGED <<data, flk, sub, pads>> /\ now' = now
      /\ proc[n] = "hugMove" /\ nm \in Name
      /\ proc'[n] = "hug" /\ todo'[n] \subseteq todo[n]
  BY SkipEffect DEF MoveTied, envVars, HandInUse, Opened
<1>2. nm.st = "tied" /\ now \in Nat
  BY <1>1 DEF HandOpened, TypeOK
<1>3. new \in Name /\ new.id = nm.id /\ new.st = "done"
  BY <1>1, <1>2, DoneNameType
<1>4. at' = Renamed(nm, new) \/ at' = at
  BY DEF MoveTied, MovedIfUnlocked
<1> HIDE DEF nm, new
<1>5. \A k \in Inode : Active(k) => at'[k] = at[k]
  BY <1>2, <1>3, <1>4 DEF Active, Renamed
<1>6. MoveOnly
  BY <1>1, <1>2, <1>3, <1>4 DEF MoveOnly, Active, Renamed
<1>7. FsStep(n)
  BY <1>1, <1>5, <1>6, OverMoved
<1>8. \A p \in pads[n] : Active(p.ino)
  BY DEF PadsOwned, Active
<1>9. PadsOwned(n)'
  BY <1>1, <1>5, <1>8, PadsKept
<1>10. ListingStale(n)'
  BY <1>1, ListingKept DEF Starting, Raising, Hugging
<1> QED
  BY <1>1, <1>7, <1>9, <1>10, BetweenFiles DEF KeepsInv

LEMMA CleanStep ==
  ASSUME IInv, NEW n \in Node, Clean(n)
  PROVE  KeepsInv(n)
<1> USE Parts, JobFileAssumption
<1>1. UNCHANGED <<data, flk, sub, proc, todo, jf, pads>> /\ now' = now /\ proc[n] = "idle"
  BY DEF Clean, manVars, envVars
<1>2. PICK nm \in Listing("done") : at' = Unlinked(nm)
  BY DEF Clean
<1>3. nm.st = "done"
  BY DEF Listing
<1>4. \A k \in Inode : Active(k) => at'[k] = at[k]
  BY <1>2, <1>3 DEF Active, Unlinked
<1>5. MoveOnly
  BY <1>2 DEF MoveOnly, Active, Unlinked
<1>6. FsStep(n)
  BY <1>1, <1>4, <1>5, OverMoved
<1>7. \A p \in pads[n] : Active(p.ino)
  BY DEF PadsOwned, Active
<1>8. PadsOwned(n)'
  BY <1>1, <1>4, <1>7, PadsKept
<1>9. ListingStale(n)'
  BY <1>1, ListingKept
<1> QED
  BY <1>1, <1>6, <1>8, <1>9, BetweenFiles DEF KeepsInv

LEMMA DieStep ==
  ASSUME IInv, NEW n \in Node, Die(n)
  PROVE  KeepsInv(n)
<1> USE Parts, JobFileAssumption
<1>1. /\ UNCHANGED <<at, data, sub>>
      /\ \A k \in Inode : flk'[k] = flk[k] \/ flk[k] = n
      /\ proc'[n] = "down" /\ todo'[n] = {} /\ pads'[n] = {}
  BY GotoEffect DEF Die, TypeOK
<1>2. FsStep(n)
  BY <1>1, NothingMoved
<1>3. PadsOwned(n)' /\ ListingStale(n)'
  BY <1>1 DEF PadsOwned, ListingStale
<1> QED
  BY <1>1, <1>2, <1>3, BetweenFiles DEF KeepsInv

\* Whatever step a manager takes, its part of IInv and the others' survive it.
LEMMA ManagerStep ==
  ASSUME IInv, OneRunnerAssumption, NEW n \in Node, NodeStep(n), TInv'
  PROVE  IInv'
<1>1. KeepsInv(n)
  BY ListStep, KidStep, OpenStep, LockStep, LoadStep, RejectStep, ClaimStep,
     TruncateRunStep, WriteRunStep, LaunchStep, TryDoneStep, TruncateEndStep,
     WriteEndStep, RaiseStep, MoveTiedStep, CleanStep, DieStep
  DEF NodeStep, Work, OneRunnerAssumption
<1>2. Others(n)
  BY Parts, OneNode
<1>3. now' = now
  BY DEF NodeStep, Work, Solicit, OpenPending, LockPending, LoadPending, RejectPending,
         ClaimPending, TruncateRun, WriteRun, LaunchJob, EndLoop, TryDone, TruncateEnd,
         WriteEnd, BringOutYerDead, OpenDead, RaiseDead, GroupHug, OpenTied, MoveTied,
         Terminate, Clean, KidExits, Die, Restart, envVars
<1>4. orphans' = {}
  <2>1. orphans = {} /\ KidsDie
    BY DEF IInv, OneRunnerAssumption
  <2>2. CASE Die(n)
    BY <2>1, <2>2 DEF Die
  <2>3. CASE ~Die(n)
    BY <2>1, <2>3
    DEF NodeStep, Work, Solicit, OpenPending, LockPending, LoadPending, RejectPending,
         ClaimPending, TruncateRun, WriteRun, LaunchJob, EndLoop, TryDone, TruncateEnd,
         WriteEnd, BringOutYerDead, OpenDead, RaiseDead, GroupHug, OpenTied, MoveTied,
         Terminate, Clean, KidExits, Restart, envVars
  <2> QED
    BY <2>2, <2>3
<1>5. \A m \in Node \ {n} : NodeInv(m)'
  BY <1>1, <1>2, <1>3, Parts, NodeKept DEF KeepsInv, FsStep, Others
<1> QED
  BY <1>1, <1>4, <1>5 DEF KeepsInv, FsStep, IInv

-----------------------------------------------------------------------------
(* mkjob, users, and the clock *)

LEMMA EnvironmentStep ==
  ASSUME IInv, TInv', UniqueActive', EntriesSubmitted', \A m \in Node : FsKeeps(m),
         UNCHANGED manVars, now' = now, orphans' = {}
  PROVE  IInv'
<1>1. ASSUME NEW m \in Node PROVE NodeInv(m)'
  BY Parts, NodeKept DEF manVars
<1> QED
  BY <1>1 DEF IInv

\* A new job gets a file nothing refers to, for an id nothing is known of.
LEMMA CreateStep ==
  ASSUME IInv, TInv', NEW j \in Job, CreateJob(j)
  PROVE  IInv'
<1> USE JobFileAssumption
<1>0. TypeOK /\ FsTypeOK /\ UniqueActive /\ EntriesSubmitted /\ orphans = {}
  BY DEF IInv, TInv, TypeOK
<1>1. /\ UNCHANGED <<flk, manVars>> /\ now' = now /\ orphans' = orphans
      /\ sub[j] = "none" /\ sub'[j] = "empty"
      /\ \A k \in Job : k # j => sub'[k] = sub[k]
  BY <1>0 DEF CreateJob, envVars, TypeOK
<1>2. PICK i \in Inode, t \in RunTimes :
        /\ Free(i)
        /\ at' = [at EXCEPT ![i] = [st |-> "hold", rt |-> t, id |-> j]]
        /\ data' = [data EXCEPT ![i] = Empty]
  BY DEF CreateJob
<1>3. /\ at[i] = NoName /\ flk[i] = Nobody
      /\ at'[i] # NoName
      /\ at'[i].id = j /\ at'[i].st = "hold"
      /\ \A k \in Inode : k # i => at'[k] = at[k] /\ data'[k] = data[k]
  <2>1. [st |-> "hold", rt |-> t, id |-> j] \in Name
    BY JobManAssumption DEF Name, State
  <2> QED
    BY <1>0, <1>2, <2>1 DEF Free, FsTypeOK
<1>4. \A k \in Inode : at[k] # NoName => at[k].id # j /\ at[k].id \in Job
  BY <1>0, <1>1 DEF EntriesSubmitted, FsTypeOK, Name
<1>5. UniqueActive'
  BY <1>0, <1>3, <1>4 DEF UniqueActive, Active
<1>6. EntriesSubmitted'
  BY <1>0, <1>1, <1>3, <1>4 DEF EntriesSubmitted
<1>7. NoNewActive /\ StillFiled /\ StillSubmitted
  BY <1>1, <1>2, <1>3 DEF NoNewActive, StillFiled, StillSubmitted, Active
<1>8. LaterKept
  BY <1>3 DEF LaterKept
<1>9. \A m \in Node : LocksRespected(m)
  BY <1>1, <1>3 DEF LocksRespected
<1> QED
  BY <1>0, <1>1, <1>5, <1>6, <1>7, <1>8, <1>9, EnvironmentStep DEF FsKeeps

\* What mkjob does after that is to a file in hold, which no manager has in hand.
LEMMA SubmitStep ==
  ASSUME IInv, TInv', NEW j \in Job, FillJob(j) \/ ReleaseJob(j) \/ AbortJob(j)
  PROVE  IInv'
<1> USE JobFileAssumption
<1>0. TypeOK /\ FsTypeOK /\ UniqueActive /\ EntriesSubmitted /\ orphans = {}
  BY DEF IInv, TInv, TypeOK
<1>1. /\ UNCHANGED <<flk, manVars>> /\ now' = now /\ orphans' = orphans
      /\ StillSubmitted
  BY <1>0 DEF FillJob, ReleaseJob, AbortJob, envVars, TypeOK, StillSubmitted
<1>2. /\ MoveOnly
      /\ \A k \in Inode : at[k] # NoName /\ at[k].st # "hold" => at'[k] = at[k] /\ data'[k] = data[k]
      /\ StillFiled
  <2>1. CASE UNCHANGED at
    <3>1. MoveOnly /\ StillFiled
      BY <2>1 DEF MoveOnly, StillFiled, Active
    <3>2. \A k \in Inode : at[k] # NoName /\ at[k].st # "hold" => data'[k] = data[k]
      BY <1>0 DEF FillJob, ReleaseJob, AbortJob, Listing, FsTypeOK
    <3> QED
      BY <2>1, <3>1, <3>2
  <2>2. CASE /\ UNCHANGED data
             /\ \E nm \in Listing("hold") : at' = Renamed(nm, In("pend", nm))
    <3>1. PICK nm \in Listing("hold") : at' = Renamed(nm, In("pend", nm))
      BY <2>2
    <3>2. PICK l \in Inode : at[l] = nm /\ nm \in Name /\ nm.st = "hold"
      BY <1>0, <3>1 DEF Listing, FsTypeOK
    <3> DEFINE new == In("pend", nm)
    <3>3. new \in Name /\ new.id = at[l].id /\ new.st = "pend"
      BY <3>2, MovedNameType DEF State
    <3>4. Active(l)
      BY <3>2 DEF Active
    <3> HIDE DEF new
    <3>5. at' = [at EXCEPT ![l] = new]
      BY <1>0, <3>1, <3>2, <3>3, <3>4, RenamedOne DEF new
    <3>6. at'[l] = new /\ \A k \in Inode : k # l => at'[k] = at[k]
      BY <1>0, <3>5 DEF FsTypeOK
    <3> QED
      BY <2>2, <3>2, <3>3, <3>4, <3>6 DEF MoveOnly, StillFiled, Active
  <2>3. CASE /\ UNCHANGED data
             /\ \E nm \in Listing("hold") : at' = Unlinked(nm)
    <3>1. PICK nm \in Listing("hold") : at' = Unlinked(nm)
      BY <2>3
    <3>2. nm.st = "hold" /\ nm # NoName
      BY <3>1 DEF Listing
    <3>3. MoveOnly
      BY <3>1 DEF MoveOnly, Unlinked, Active
    <3>4. StillFiled
      <4> SUFFICES ASSUME NEW k \in Inode, Active(k), at'[k] = NoName,
                          NEW i \in Inode, Active(i)', at'[i].id = at[k].id
                   PROVE  FALSE
        BY <3>1 DEF StillFiled, Unlinked, Over, Active
      <4>1. Active(i) /\ at[i].id = at[k].id /\ i # k
        BY <3>3 DEF MoveOnly, Active
      <4> QED
        BY <1>0, <4>1 DEF UniqueActive, Active
    <3> QED
      BY <2>3, <3>1, <3>2, <3>3, <3>4 DEF Unlinked
  <2> QED
    BY <2>1, <2>2, <2>3 DEF FillJob, ReleaseJob, AbortJob
<1>3. UniqueActive' /\ EntriesSubmitted' /\ NoNewActive
  BY <1>0, <1>1, <1>2, MoveOnlyKeeps
<1>4. LaterKept
  BY <1>2 DEF LaterKept
<1>5. \A m \in Node : LocksRespected(m)
  BY <1>1, <1>2 DEF LocksRespected
<1> QED
  BY <1>0, <1>1, <1>2, <1>3, <1>4, <1>5, EnvironmentStep DEF FsKeeps

\* The clock stands still while a store that follows its rename is going on.
LEMMA TickStep ==
  ASSUME IInv, TInv', PromptStore, Tick
  PROVE  IInv'
<1>1. /\ UNCHANGED <<fsVars, sub, manVars, orphans>>
      /\ now' = now + 1 /\ now \in Nat
      /\ \A n \in Node : proc[n] \notin Ending
  BY DEF Tick, IInv, TInv, TypeOK, Ending
<1>2. UniqueActive' /\ EntriesSubmitted' /\ orphans' = {}
  BY <1>1 DEF IInv, UniqueActive, EntriesSubmitted, Active, fsVars
<1>3. ASSUME NEW n \in Node PROVE NodeInv(n)'
  <2> USE Parts, JobManAssumption
  <2>1. UNCHANGED <<at, data, flk, sub, proc, todo, jf, pads>>
    BY <1>1 DEF fsVars, manVars
  <2>2. \A nm \in Name : Due(nm) => Due(nm)'
    BY <1>1 DEF Due, Name
  <2>3. ListingStale(n)'
    <3>1. todo[n] \subseteq Name
      BY DEF TypeOK
    <3> QED
      BY <2>1, <2>2, <3>1 DEF ListingStale, Due
  <2>4. HandOpened(n)'
    <3>1. proc[n] \in {"lock", "load", "reject", "claim"} => jf[n].nm \in Name
      BY DEF HandInUse, Opened, Starting
    <3> QED
      BY <2>1, <2>2, <3>1 DEF HandOpened, Due, Bound, Over, Active
  <2>5. HandLocked(n)' /\ PadsOwned(n)'
    BY <2>1 DEF HandLocked, PadsOwned
  <2>6. HandEnding(n)'
    BY <1>1, <2>1 DEF HandEnding
  <2> QED
    BY <2>3, <2>4, <2>5, <2>6 DEF NodeInv
<1> QED
  BY <1>2, <1>3 DEF IInv

-----------------------------------------------------------------------------

\* Every step of the managers, of mkjob, of the users and of the clock.
LEMMA InvStep ==
  ASSUME IInv, OneRunnerAssumption, [Next]_vars
  PROVE  IInv'
<1>1. TInv'
  BY TypeStep, HandStep DEF IInv, TInv
<1>2. CASE \E n \in Node : NodeStep(n)
  BY <1>1, <1>2, ManagerStep
<1>3. CASE \E j \in Job : Submit(j)
  BY <1>1, <1>3, CreateStep, SubmitStep DEF Submit
<1>4. CASE Tick
  BY <1>1, <1>4, TickStep DEF OneRunnerAssumption
<1>5. CASE UNCHANGED vars \/ \E j \in Job : OrphanExits(j) \/ KillOrder(j)
  <2>1. UNCHANGED <<at, data, flk, sub, manVars, now>> /\ orphans' = {}
    BY <1>5 DEF IInv, OrphanExits, KillOrder, vars, fsVars, manVars
  <2>2. UniqueActive' /\ EntriesSubmitted'
    BY <2>1 DEF IInv, UniqueActive, EntriesSubmitted, Active
  <2>3. \A m \in Node : FsKeeps(m)
    BY <2>1 DEF FsKeeps, NoNewActive, StillFiled, StillSubmitted, LocksRespected, LaterKept,
                Active
  <2> QED
    BY <1>1, <2>1, <2>2, <2>3, EnvironmentStep
<1> QED
  BY <1>2, <1>3, <1>4, <1>5 DEF Next, NodeStep

LEMMA InvInit == Init => IInv
<1> SUFFICES ASSUME Init PROVE IInv
  OBVIOUS
<1>1. TInv
  BY TypeInit
<1>2. UniqueActive /\ EntriesSubmitted /\ orphans = {}
  BY DEF Init, FsInit, UniqueActive, EntriesSubmitted, Active
<1>3. ASSUME NEW n \in Node PROVE NodeInv(n)
  BY DEF Init, NodeInv, ListingStale, HandOpened, HandLocked, HandEnding, PadsOwned,
         Locked, Claimed, Ending
<1> QED
  BY <1>1, <1>2, <1>3 DEF IInv

\* Two launch pads with the same job have the same file, hence the same holder of
\* its lock, who has one launch pad for it.
LEMMA OwnersAlone ==
  ASSUME IInv
  PROVE  OneRunner /\ OwnerHoldsLock
<1>1. OwnerHoldsLock
  BY DEF IInv, NodeInv, PadsOwned, OwnerHoldsLock
<1>2. ASSUME NEW n \in Node, NEW p \in pads[n], NEW m \in Node, NEW q \in pads[m],
             q.nm.id = p.nm.id
      PROVE  m = n /\ q = p
  <2>1. p.ino \in Inode /\ q.ino \in Inode /\ p.nm \in Name /\ q.nm \in Name
    BY Parts
  <2>2. at[p.ino] = p.nm /\ at[q.ino] = q.nm /\ p.nm.st = "run" /\ flk[p.ino] = n /\ flk[q.ino] = m
    BY <1>1 DEF OwnerHoldsLock
  <2>3. q.ino = p.ino
    BY <1>2, <2>1, <2>2, Parts, JobFileAssumption DEF UniqueActive, Active
  <2>4. m = n
    BY <2>2, <2>3
  <2> QED
    BY <2>3, <2>4, Parts DEF PadsOwned
<1>3. OneRunner
  BY <1>2 DEF OneRunner, Live, IInv
<1> QED
  BY <1>1, <1>3

\* What managers take for granted from one step of a task to the next is so: what
\* each has listed, opened, locked, claimed or renamed is still where its task
\* needs it, for any number of managers and jobs.
THEOREM IInvSafe == OneRunnerAssumption => (Spec => []IInv)
<1> SUFFICES ASSUME OneRunnerAssumption PROVE Spec => []IInv
  OBVIOUS
<1>1. IInv /\ [Next]_vars => IInv'
  BY InvStep
<1> QED
  BY InvInit, <1>1, PTL DEF Spec

\* However managers scan, race, retry and die, and however far their clocks are
\* apart (up to the first retry delay), no job has two processes at a time.
THEOREM OneRunnerSafe == OneRunnerAssumption => (Spec => []OneRunner)
<1> SUFFICES ASSUME OneRunnerAssumption PROVE Spec => []OneRunner
  OBVIOUS
<1>1. IInv /\ [Next]_vars => IInv'
  BY InvStep
<1>2. IInv => OneRunner
  BY OwnersAlone
<1> QED
  BY InvInit, <1>1, <1>2, PTL DEF Spec

\* And as long as a manager has a process, or its exit status, for a job, it has
\* the lock on the job's file, and the file has the name it knows.
THEOREM LockSafe == OneRunnerAssumption => (Spec => []OwnerHoldsLock)
<1> SUFFICES ASSUME OneRunnerAssumption PROVE Spec => []OwnerHoldsLock
  OBVIOUS
<1>1. IInv /\ [Next]_vars => IInv'
  BY InvStep
<1>2. IInv => OwnerHoldsLock
  BY OwnersAlone
<1> QED
  BY InvInit, <1>1, <1>2, PTL DEF Spec
=============================================================================
