------------------------------ MODULE PartsProofs ------------------------------
(***************************************************************************)
(* Theorems about the parts of the facility that work on their own: the    *)
(* loop of a daemon (WorkLoop), job ids (SeqNum), interrupted system calls *)
(* (Isafe), finding and loading a job (Finder), making and removing a      *)
(* queue (QueueScripts), what is typed (Strings), the logger (Logger) and  *)
(* the names of jobs (Names).                                              *)
(* Each part with a state has an inductive invariant of its own, stated    *)
(* with what its property needs to be kept:                                *)
(*                                                                         *)
(*   LInv      how long a task has waited says nothing of how long it      *)
(*             still will: Timers adds what is left of its timer, and that *)
(*             a SIGHUP which has not yet cut the timers is not older than *)
(*             the round;                                                  *)
(*   IdsInv    one process is in the file at a time (Locked), and a number *)
(*             n that each site has come to (Reached), which its file says *)
(*             unless it is being written, and which with the calls still  *)
(*             on their way is not above their bound: nothing wraps round; *)
(*             of which numbers the job ids are made is added (Made) and   *)
(*             that no number makes two (Apart);                           *)
(*   CallInv   the errno and the naps that go with what was done;          *)
(*   FindInv   a job that has not come back is in a directory that is      *)
(*             still to be read (Ahead);                                   *)
(*   ShInv     a file is in a directory that is there, a manager stores a  *)
(*             job where it was or where rm took it away, and no job was   *)
(*             missed by the count unless it came back (CountedNone);      *)
(*   LogInv    the object holds what the message says up to the values     *)
(*             that are in, and the rest of the format (InFormat);         *)
(*   NamesInv  the jobs in pend have names; what the names are worth is    *)
(*             shown of the digits in them (DigitsRead, FilterIs) and of   *)
(*             how they are split (NameSplit).                             *)
(*                                                                         *)
(* Parts instantiates the parts; the theorems hold for every value of      *)
(* their constants.                                                        *)
(***************************************************************************)
EXTENDS Parts, StringsProofs, FiniteSetTheorems, SequenceTheorems, TLAPS

-----------------------------------------------------------------------------
(* WorkLoop                                                                  *)

\* Types and timers, task by task
LInv == TypeOK /\ Timers

\* The first states of a daemon: no task has waited, no signal has come.
THEOREM LInvInit == Init => LInv
<1> SUFFICES ASSUME Init PROVE LInv
  OBVIOUS
<1> USE WorkLoopAssumption DEF Init
<1>1. elapsed \in 0..(MaxWork + 1)
  OBVIOUS
<1>2. /\ when \in [Task -> Nat]
      /\ since \in [Task -> Nat]
      /\ asked \in [Task -> Nat]
  OBVIOUS
<1>3. TypeOK
  BY <1>1, <1>2 DEF TypeOK
<1>4. Timers
  BY DEF Timers, Longest
<1> QED
  BY <1>3, <1>4 DEF LInv

\* The handlers and the clock: d seconds pass where that is allowed, no timer
\* is set, and the request of a SIGHUP is noted with the flag.
LEMMA PassKeeps ==
  ASSUME LInv, NEW d \in {0, 1}, NEW hup \in BOOLEAN, Pass(d, hup),
         UNCHANGED when,
         checkSoon' \in BOOLEAN, checkSoon => checkSoon', hup => checkSoon',
         pc' \in {"boot", "top", "work", "exit"},
         d = 1 => pc \in {"work", "sleep"},
         d = 1 => elapsed < MaxWork \/ pc' \in {"top", "exit"},
         pc = "boot" <=> pc' = "boot",
         pc' = "work" => pc = "work",
         elapsed > MaxWork => pc' \in {"top", "exit"},
         runJobs' \in BOOLEAN, term' \in BOOLEAN
  PROVE  LInv'
<1> USE WorkLoopAssumption DEF LInv, TypeOK, Timers, Pass
<1>1. TypeOK'
  OBVIOUS
<1>2. /\ elapsed' <= MaxWork + (IF pc' \in {"top", "exit"} THEN 1 ELSE 0)
      /\ pc' = "boot" => elapsed' = 0
  OBVIOUS
<1>3. ASSUME NEW x \in Task
      PROVE  /\ since'[x] + when'[x] <= Longest(x) + elapsed'
             /\ \/ asked'[x] = 0
                \/ checkSoon' /\ asked'[x] <= elapsed' + 1
                \/ asked'[x] + when'[x] <= Cap[x] + MaxWork + 2 + elapsed'
             /\ when'[x] = 0 =>
                  pc' \in {"boot", "top", "exit"} /\ elapsed' = 0 /\ since'[x] = 0 /\ asked'[x] <= 1
  <2> Longest(x) \in Nat
    BY DEF Longest
  <2>1. since'[x] + when'[x] <= Longest(x) + elapsed'
    OBVIOUS
  <2>2. \/ asked'[x] = 0
        \/ checkSoon' /\ asked'[x] <= elapsed' + 1
        \/ asked'[x] + when'[x] <= Cap[x] + MaxWork + 2 + elapsed'
    OBVIOUS
  <2>3. when'[x] = 0 =>
          pc' \in {"boot", "top", "exit"} /\ elapsed' = 0 /\ since'[x] = 0 /\ asked'[x] <= 1
    OBVIOUS
  <2> QED
    BY <2>1, <2>2, <2>3
<1>4. Timers'
  BY <1>2, <1>3 DEF Longest
<1> QED
  BY <1>1, <1>4

\* The loop begins with the first waits of the tasks.
LEMMA StartKeeps ==
  ASSUME LInv, Start PROVE LInv'
BY DEF LInv, TypeOK, Timers, Start, Longest

\* What Soon leaves: no more than was left, and no more than the cap if cut
LEMMA SoonBounds ==
  ASSUME LInv, NEW x \in Task, ~Runs(x)
  PROVE  /\ Soon(x) \in Nat \ {0}
         /\ Soon(x) <= when[x] - elapsed
         /\ checkSoon => Soon(x) <= Cap[x]
BY WorkLoopAssumption DEF LInv, TypeOK, Runs, Soon, Left

\* A round: what is due runs and is set anew, the rest waits on or is cut.
LEMMA RoundKeeps ==
  ASSUME LInv, Round PROVE LInv'
<1> USE WorkLoopAssumption DEF Round
<1>0. \A x \in Task : Soon(x) \in Nat
  BY DEF LInv, TypeOK, Soon, Left
<1>1. TypeOK'
  <2>1. /\ when' \in [Task -> Nat]
        /\ since' \in [Task -> Nat]
        /\ asked' \in [Task -> Nat]
    BY <1>0 DEF LInv, TypeOK
  <2>2. elapsed' \in 0..(MaxWork + 1)
    OBVIOUS
  <2> QED
    BY <2>1, <2>2 DEF LInv, TypeOK
<1>2. ASSUME NEW x \in Task
      PROVE  /\ when'[x] # 0
             /\ since'[x] + when'[x] <= Longest(x)
             /\ asked'[x] = 0 \/ asked'[x] + when'[x] <= Cap[x] + MaxWork + 2
  <2>1. CASE Runs(x)
    BY <2>1 DEF LInv, TypeOK, Longest
  <2>2. CASE ~Runs(x)
    <3>1. when'[x] = Soon(x) /\ since'[x] = since[x] /\ asked'[x] = asked[x]
      BY <2>2 DEF LInv, TypeOK
    <3>2. /\ Soon(x) \in Nat \ {0}
          /\ Soon(x) <= when[x] - elapsed
          /\ checkSoon => Soon(x) <= Cap[x]
      BY <2>2, SoonBounds
    <3>3. /\ when[x] \in Nat /\ since[x] \in Nat /\ asked[x] \in Nat
          /\ elapsed \in Nat /\ MaxWork \in Nat /\ Cap[x] \in Nat /\ Longest(x) \in Nat
      BY DEF LInv, TypeOK, Longest
    <3>4. /\ elapsed <= MaxWork + 1
          /\ since[x] + when[x] <= Longest(x) + elapsed
          /\ \/ asked[x] = 0
             \/ checkSoon /\ asked[x] <= elapsed + 1
             \/ asked[x] + when[x] <= Cap[x] + MaxWork + 2 + elapsed
      BY <3>3 DEF LInv, Timers
    <3> HIDE DEF Round
    <3>5. CASE checkSoon /\ asked[x] <= elapsed + 1
      BY <3>1, <3>2, <3>3, <3>4, <3>5
    <3>6. CASE ~(checkSoon /\ asked[x] <= elapsed + 1)
      BY <3>1, <3>2, <3>3, <3>4, <3>6
    <3> QED
      BY <3>5, <3>6
  <2> QED
    BY <2>1, <2>2
<1>3. Timers'
  BY <1>2 DEF Timers, Longest
<1> QED
  BY <1>1, <1>3 DEF LInv

\* A second of work
LEMMA BusyKeeps ==
  ASSUME LInv, Busy PROVE LInv'
<1>1. pc = "work" /\ elapsed < MaxWork /\ Pass(1, FALSE)
  BY DEF Busy
<1>2. UNCHANGED <<pc, when, runJobs, checkSoon, term>>
  BY DEF Busy
<1>3. /\ checkSoon' \in BOOLEAN /\ runJobs' \in BOOLEAN /\ term' \in BOOLEAN
      /\ ~(elapsed > MaxWork)
  BY <1>1, <1>2, WorkLoopAssumption DEF LInv, TypeOK
<1> QED
  BY <1>1, <1>2, <1>3, PassKeeps

\* The tasks of a round are over.
LEMMA WorkedKeeps ==
  ASSUME LInv, Worked PROVE LInv'
BY DEF LInv, TypeOK, Timers, Worked, Longest

\* A sleep that nothing cut short
LEMMA SleptKeeps ==
  ASSUME LInv, Slept PROVE LInv'
<1>1. pc' \in {"top", "exit"}
  BY DEF Slept, After
<1>2. Pass(1, FALSE) /\ pc = "sleep" /\ UNCHANGED <<when, runJobs, checkSoon, term>>
  BY DEF Slept
<1>3. TypeOK
  BY DEF LInv
<1> QED
  BY <1>1, <1>2, <1>3, PassKeeps DEF TypeOK

\* Hup, Term and Chld
LEMMA InterruptKeeps ==
  ASSUME LInv, NEW hup \in BOOLEAN, Interrupt(hup),
         UNCHANGED when, checkSoon' = (checkSoon \/ hup),
         runJobs' \in BOOLEAN, term' \in BOOLEAN
  PROVE  LInv'
<1>0. TypeOK
  BY DEF LInv
<1>1. CASE pc \in {"top", "work", "boot"} /\ Pass(0, hup) /\ UNCHANGED pc
  <2>1. pc = "work" => elapsed <= MaxWork
    BY <1>0, WorkLoopAssumption DEF LInv, Timers, TypeOK
  <2>2. pc = "boot" => elapsed = 0
    BY DEF LInv, Timers
  <2> QED
    BY <1>0, <1>1, <2>1, <2>2, PassKeeps, WorkLoopAssumption DEF TypeOK
<1>2. CASE pc = "sleep" /\ \E d \in {0, 1} : Pass(d, hup)
  <2>1. PICK d \in {0, 1} : Pass(d, hup)
    BY <1>2
  <2>2. pc' \in {"top", "exit"}
    BY <1>2 DEF Interrupt, After
  <2> QED
    BY <1>0, <1>2, <2>1, <2>2, PassKeeps DEF TypeOK
<1> QED
  BY <1>1, <1>2 DEF Interrupt

\* Every step of the loop, and every signal, keeps the timers.
THEOREM LInvNext == LInv /\ [Next]_vars => LInv'
<1> SUFFICES ASSUME LInv, [Next]_vars PROVE LInv'
  OBVIOUS
<1>0. TypeOK
  BY DEF LInv
<1>1. CASE Start
  BY <1>1, StartKeeps
<1>2. CASE Round
  BY <1>2, RoundKeeps
<1>3. CASE Busy
  BY <1>3, BusyKeeps
<1>4. CASE Worked
  BY <1>4, WorkedKeeps
<1>5. CASE Slept
  BY <1>5, SleptKeeps
<1>6. CASE Hup
  BY <1>0, <1>6, InterruptKeeps DEF Hup, TypeOK
<1>7. CASE Term
  BY <1>0, <1>7, InterruptKeeps DEF Term, TypeOK
<1>8. CASE Chld
  BY <1>0, <1>8, InterruptKeeps DEF Chld, TypeOK
<1>9. CASE UNCHANGED vars
  BY <1>9 DEF vars, LInv, TypeOK, Timers, Longest
<1> QED
  BY <1>1, <1>2, <1>3, <1>4, <1>5, <1>6, <1>7, <1>8, <1>9 DEF Next

\* A timer that is set is at least a second away, or its task has just run
LEMMA TimersInTime == LInv => TasksInTime
<1> SUFFICES ASSUME LInv, pc # "exit", NEW x \in Task
             PROVE  /\ since[x] <= Longest(x) + MaxWork
                    /\ asked[x] <= Cap[x] + 2 * (MaxWork + 1)
  BY DEF TasksInTime
<1> DEFINE w == when[x]
           s == since[x]
           a == asked[x]
           e == elapsed
           c == Cap[x]
           l == Longest(x)
<1>1. /\ w \in Nat /\ s \in Nat /\ a \in Nat /\ e \in Nat
      /\ MaxWork \in Nat /\ c \in Nat /\ l \in Nat
  BY WorkLoopAssumption DEF LInv, TypeOK, Longest
<1>2. /\ e <= MaxWork + 1
      /\ s + w <= l + e
      /\ a <= e + 1 \/ a + w <= c + MaxWork + 2 + e
      /\ w = 0 => e = 0 /\ a <= 1
  BY <1>1 DEF LInv, Timers
<1>3. s <= l + MaxWork /\ a <= c + 2 * (MaxWork + 1)
  <2> HIDE DEF w, s, a, e, c, l
  <2>1. CASE w = 0
    BY <1>1, <1>2, <2>1
  <2>2. CASE w # 0
    BY <1>1, <1>2, <2>2
  <2> QED
    BY <2>1, <2>2
<1> QED
  BY <1>3

\* Whatever signals come to a daemon, no task runs later than its interval and
\* the time of one round after it last did, and after a SIGHUP none runs later
\* than its cap and the time of two rounds.
THEOREM TasksInTimeSafe == Spec => []TasksInTime
<1>1. LInv => TasksInTime
  BY TimersInTime
<1> QED
  BY <1>1, LInvInit, LInvNext, PTL DEF Spec

-----------------------------------------------------------------------------
(* SeqNum                                                                    *)

\* A file of k bytes is a sequence of k bytes.
LEMMA FileLen ==
  ASSUME NEW k \in Nat, NEW f \in [1..k -> Byte]
  PROVE  f \in Seq(Byte) /\ Len(f) = k /\ (f = <<>> <=> k = 0)
<1>1. f \in Seq(Byte)
  BY SeqDef
<1>2. Len(f) = k
  BY <1>1
<1> QED BY <1>1, <1>2

\* The file of a site is some bytes, at most those of a number.
LEMMA FileTypes ==
  ASSUME Ids!TypeOK, NEW s \in Site
  PROVE  \E k \in 0..Width : idFile[s] \in [1..k -> Byte]
<1>1. idFile[s] \in UNION {[1..k -> Byte] : k \in 0..Width}
  BY DEF Ids!TypeOK
<1> QED BY <1>1

\* What a number's bytes are read back as is that number.
LEMMA BytesBack ==
  ASSUME Ids!SeqNumAssumption, NEW v \in Ids!Numbers
  PROVE  /\ BytesOf[v] \in [1..Width -> Byte] /\ Len(BytesOf[v]) = Width /\ BytesOf[v] # <<>>
         /\ Ids!ToNumber(BytesOf[v]) = v
<1>1. BytesOf[v] \in [1..Width -> Byte] /\ Width \in Nat \ {0}
  BY DEF Ids!SeqNumAssumption
<1>2. Len(BytesOf[v]) = Width /\ BytesOf[v] # <<>>
  BY <1>1, FileLen
<1>3. \A w \in Ids!Numbers : BytesOf[v] = BytesOf[w] => v = w
  BY DEF Ids!SeqNumAssumption
<1>4. Ids!ToNumber(BytesOf[v]) = v
  BY <1>3 DEF Ids!ToNumber
<1> QED BY <1>1, <1>2, <1>4

\* Any Width bytes are some number.
LEMMA NumberOfBytes ==
  ASSUME Ids!SeqNumAssumption, NEW bytes \in [1..Width -> Byte]
  PROVE  Ids!ToNumber(bytes) \in Ids!Numbers
BY DEF Ids!SeqNumAssumption, Ids!ToNumber

\* What a write of k bytes leaves in the file.
LEMMA WrittenOver ==
  ASSUME Ids!SeqNumAssumption, NEW v \in Ids!Numbers, NEW k \in 1..Width,
         NEW l \in 0..Width, NEW f \in [1..l -> Byte]
  PROVE  /\ \E m \in 1..Width : Ids!Overwritten(f, v, k) \in [1..m -> Byte]
         /\ k = Width => Ids!Overwritten(f, v, k) = BytesOf[v]
<1> DEFINE m == IF k > l THEN k ELSE l
<1>0. Width \in Nat /\ BytesOf[v] \in [1..Width -> Byte] /\ Len(f) = l
  BY BytesBack, FileLen DEF Ids!SeqNumAssumption
<1>1. Ids!Overwritten(f, v, k) = [i \in 1..m |-> IF i <= k THEN BytesOf[v][i] ELSE f[i]]
  BY <1>0 DEF Ids!Overwritten
<1>2. m \in 1..Width /\ (k = Width => m = Width)
  BY <1>0
<1>3. [i \in 1..m |-> IF i <= k THEN BytesOf[v][i] ELSE f[i]] \in [1..m -> Byte]
  BY <1>0, <1>2
<1>4. k = Width =>
        [i \in 1..Width |-> IF i <= k THEN BytesOf[v][i] ELSE f[i]] = BytesOf[v]
  BY <1>0
<1> QED BY <1>1, <1>2, <1>3, <1>4

\* A zone is a digit.
LEMMA ZoneType ==
  ASSUME Ids!SeqNumAssumption, NEW p \in Proc PROVE Ids!Zone(p) \in 0..9
<1>1. SiteOf[p] \in Site
  BY DEF Ids!SeqNumAssumption
<1>2. ZoneOf[SiteOf[p]] \in 0..9
  BY <1>1 DEF Ids!SeqNumAssumption
<1> QED BY <1>2 DEF Ids!Zone

\* A job id is a number.
LEMMA JobIdType ==
  ASSUME Ids!SeqNumAssumption, NEW p \in Proc, NEW v \in Ids!Numbers
  PROVE  Ids!JobId(p, v) \in Nat
<1>1. v \in Nat
  BY DEF Ids!SeqNumAssumption, Ids!Numbers
<1> QED BY <1>1, ZoneType DEF Ids!JobId

\* Without sequence files the types hold.
LEMMA IdsTypeInit ==
  ASSUME Ids!SeqNumAssumption, Ids!Init PROVE Ids!TypeOK
<1>1. idFile \in [Site -> UNION {[1..k -> Byte] : k \in 0..Width}]
  <2>1. <<>> \in [1..0 -> Byte] /\ 0 \in 0..Width
    BY DEF Ids!SeqNumAssumption
  <2>2. <<>> \in UNION {[1..k -> Byte] : k \in 0..Width}
    BY <2>1
  <2> QED BY <2>2 DEF Ids!Init
<1>2. 0 \in Ids!Numbers
  BY DEF Ids!SeqNumAssumption, Ids!Numbers
<1> QED BY <1>1, <1>2 DEF Ids!Init, Ids!TypeOK, Ids!Steps

\* Closing a file leaves every lock with a process or with nobody.
LEMMA UnlockType ==
  ASSUME Ids!TypeOK, NEW p \in Proc, Ids!Unlock(p)
  PROVE  idLock' \in [Site -> Proc \cup {Nobody}]
BY DEF Ids!TypeOK, Ids!Unlock

\* Every step keeps the types, torn writes or not: whoever reads has all the
\* bytes of a number or none.
LEMMA IdsTypeNext ==
  ASSUME Ids!SeqNumAssumption, Ids!TypeOK, [Ids!Next]_(Ids!vars)
  PROVE  Ids!TypeOK'
<1> USE DEF Ids!TypeOK, Ids!Steps, Ids!Goto
<1>0. 0 \in Ids!Numbers /\ SiteOf \in [Proc -> Site] /\ Last \in Nat
  BY DEF Ids!SeqNumAssumption, Ids!Numbers
<1>1. ASSUME NEW p \in Proc, Ids!Call(p) PROVE Ids!TypeOK'
  BY <1>0, <1>1 DEF Ids!Call
<1>2. ASSUME NEW p \in Proc, Ids!Lock(p) PROVE Ids!TypeOK'
  BY <1>0, <1>2 DEF Ids!Lock
<1>3. ASSUME NEW p \in Proc, Ids!Read(p) PROVE Ids!TypeOK'
  <2> DEFINE bytes == idFile[SiteOf[p]]
             v == IF bytes = <<>> THEN value[p] ELSE Ids!ToNumber(bytes)
  <2>1. v \in Ids!Numbers
    <3>1. PICK k \in 0..Width : bytes \in [1..k -> Byte]
      BY <1>0, FileTypes
    <3>2. k \in Nat /\ Len(bytes) = k /\ (bytes = <<>> <=> k = 0)
      BY <3>1, FileLen DEF Ids!SeqNumAssumption
    <3>3. Len(bytes) \in {0, Width}
      BY <1>3 DEF Ids!Read
    <3>4. bytes = <<>> \/ bytes \in [1..Width -> Byte]
      BY <3>1, <3>2, <3>3
    <3> QED BY <3>4, NumberOfBytes
  <2>2. (v + 1) % (Last + 1) \in Ids!Numbers
    BY <1>0, <2>1 DEF Ids!Numbers
  <2>3. \/ value' = [value EXCEPT ![p] = (v + 1) % (Last + 1)]
        \/ value' = [value EXCEPT ![p] = v]
    BY <1>3 DEF Ids!Read
  <2>4. value' \in [Proc -> Ids!Numbers]
    BY <2>1, <2>2, <2>3
  <2> QED BY <1>3, <2>4 DEF Ids!Read
<1>4. ASSUME NEW p \in Proc, Ids!Write(p) PROVE Ids!TypeOK'
  <2>1. PICK k \in 1..Width :
          /\ idFile' = [idFile EXCEPT ![SiteOf[p]] =
                          Ids!Overwritten(idFile[SiteOf[p]], value[p], k)]
          /\ idPc' = [idPc EXCEPT ![p] = IF k = Width THEN "close" ELSE "rewrite"]
    BY <1>4 DEF Ids!Write
  <2>2. PICK l \in 0..Width : idFile[SiteOf[p]] \in [1..l -> Byte]
    BY <1>0, FileTypes
  <2>3. \E m \in 0..Width : Ids!Overwritten(idFile[SiteOf[p]], value[p], k) \in [1..m -> Byte]
    <3>1. value[p] \in Ids!Numbers /\ Width \in Nat
      BY DEF Ids!SeqNumAssumption
    <3>2. \E m \in 1..Width : Ids!Overwritten(idFile[SiteOf[p]], value[p], k) \in [1..m -> Byte]
      BY <2>2, <3>1, WrittenOver
    <3> QED BY <3>1, <3>2
  <2>4. Ids!Overwritten(idFile[SiteOf[p]], value[p], k) \in
          UNION {[1..m -> Byte] : m \in 0..Width}
    BY <2>3
  <2>5. idFile' \in [Site -> UNION {[1..m -> Byte] : m \in 0..Width}]
    <3> HIDE DEF Ids!Overwritten
    <3> DEFINE Files == UNION {[1..m -> Byte] : m \in 0..Width}
    <3>1. idFile \in [Site -> Files]
      OBVIOUS
    <3>2. Ids!Overwritten(idFile[SiteOf[p]], value[p], k) \in Files
      BY <2>4
    <3> HIDE DEF Files
    <3>3. idFile' \in [Site -> Files]
      BY <1>0, <2>1, <3>1, <3>2
    <3> QED BY <3>3 DEF Files
  <2> QED BY <1>4, <2>1, <2>5 DEF Ids!Write
<1>5. ASSUME NEW p \in Proc, Ids!Close(p) PROVE Ids!TypeOK'
  <2>1. idLock' \in [Site -> Proc \cup {Nobody}]
    BY <1>5, UnlockType DEF Ids!Close
  <2>2. given' \in [Site -> SUBSET Ids!Numbers]
    <3>1. PICK x \in SUBSET Ids!Numbers : given' = [given EXCEPT ![SiteOf[p]] = x]
      BY <1>0, <1>5 DEF Ids!Close
    <3> QED BY <1>0, <3>1
  <2>3. idPc' = [idPc EXCEPT ![p] = "idle"] /\ UNCHANGED <<idFile, idOp, value, calls>>
    BY <1>5 DEF Ids!Close
  <2>4. idMade' \in [Proc -> SUBSET Nat]
    <3>1. Ids!JobId(p, value[p]) \in Nat
      BY JobIdType
    <3>2. PICK x \in SUBSET Nat : idMade' = [idMade EXCEPT ![p] = x]
      BY <1>5, <3>1 DEF Ids!Close
    <3> QED BY <3>2
  <2> QED BY <2>1, <2>2, <2>3, <2>4
<1>6. ASSUME NEW p \in Proc, Ids!GiveUp(p) PROVE Ids!TypeOK'
  <2>1. idLock' \in [Site -> Proc \cup {Nobody}]
    BY <1>6, UnlockType DEF Ids!GiveUp
  <2> QED BY <1>0, <1>6, <2>1 DEF Ids!GiveUp
<1>7. CASE UNCHANGED Ids!vars
  BY <1>7 DEF Ids!vars
<1> QED
  BY <1>1, <1>2, <1>3, <1>4, <1>5, <1>6, <1>7 DEF Ids!Next, Ids!Step

-----------------------------------------------------------------------------

\* Who reads or writes the file of its site has the lock on it, and nobody else.
Locked ==
  /\ \A p \in Proc :
       idPc[p] \in {"read", "write", "rewrite", "close"} <=> idLock[SiteOf[p]] = p
  /\ \A s \in Site : idLock[s] # Nobody => SiteOf[idLock[s]] = s

\* Those that may still write a number at site s
Bound(s) == {p \in Proc : SiteOf[p] = s /\ idPc[p] \in {"lock", "read", "write", "rewrite"}}

\* Site s has come to number n: its file says so unless it is being written; a
\* writer makes it n + 1, one that has written gives out n; and there were calls
\* for all of these numbers and for those that may follow.
Reached(s, n) ==
  /\ IsFiniteSet(Bound(s)) /\ n + Cardinality(Bound(s)) <= calls
  /\ \A v \in given[s] : v \in 1..n
  /\ (\A p \in Proc : SiteOf[p] = s => idPc[p] # "rewrite") =>
       idFile[s] = IF n = 0 THEN <<>> ELSE BytesOf[n]
  /\ \A p \in Proc : SiteOf[p] = s =>
       /\ idPc[p] \in {"write", "rewrite"} => value[p] = n + 1
       /\ idPc[p] = "close" /\ idOp[p] = "next" => value[p] = n /\ n > 0 /\ n \notin given[s]

\* The inductive invariant of the sequence files, when no write is torn
IdsInv ==
  /\ Ids!TypeOK
  /\ calls <= MaxCalls
  /\ Locked
  /\ \A p \in Proc : /\ idPc[p] \in {"lock", "read"} => value[p] = 0
                     /\ idPc[p] \in {"write", "rewrite"} => idOp[p] = "next"
  /\ \A s \in Site : \E n \in Nat : Reached(s, n)

\* Without sequence files every site has come to 0.
LEMMA IdsInvInit ==
  ASSUME Ids!SeqNumAssumption, Ids!Init PROVE IdsInv
<1>1. \A s \in Site : Reached(s, 0)
  <2> SUFFICES ASSUME NEW s \in Site PROVE Reached(s, 0)
    OBVIOUS
  <2>1. Bound(s) = {}
    BY DEF Bound, Ids!Init
  <2> QED BY <2>1, FS_EmptySet DEF Reached, Ids!Init
<1>2. Locked
  BY DEF Locked, Ids!Init, Ids!SeqNumAssumption
<1> QED BY <1>1, <1>2, IdsTypeInit DEF IdsInv, Ids!Init, Ids!SeqNumAssumption

\* Nobody else of the site is in the file with the one that has the lock.
LEMMA AloneInFile ==
  ASSUME Ids!SeqNumAssumption, Locked, NEW p \in Proc, NEW q \in Proc,
         SiteOf[p] = SiteOf[q],
         idPc[p] \in {"read", "write", "rewrite", "close"},
         idPc[q] \in {"read", "write", "rewrite", "close"}
  PROVE  p = q
BY DEF Locked

\* What a process does leaves the other sites where they were.
LEMMA OtherSite ==
  ASSUME Ids!TypeOK, calls' >= calls, calls' \in Nat,
         NEW p \in Proc, NEW s \in Site, s # SiteOf[p], NEW n \in Nat, Reached(s, n),
         \A q \in Proc \ {p} : idPc'[q] = idPc[q] /\ value'[q] = value[q] /\ idOp'[q] = idOp[q],
         idFile'[s] = idFile[s], given'[s] = given[s]
  PROVE  Reached(s, n)'
<1>1. Bound(s)' = Bound(s)
  BY DEF Bound
<1>2. Cardinality(Bound(s)) \in Nat /\ calls \in Nat
  BY FS_CardinalityType DEF Reached, Ids!TypeOK
<1> QED BY <1>1, <1>2 DEF Reached

\* What changes of one process
Alone(p) ==
  /\ \A q \in Proc \ {p} : idPc'[q] = idPc[q] /\ value'[q] = value[q] /\ idOp'[q] = idOp[q]
  /\ \A s \in Site \ {SiteOf[p]} : idFile'[s] = idFile[s] /\ given'[s] = given[s]

\* A step of one process is a matter of its own site.
LEMMA OthersReached ==
  ASSUME Ids!SeqNumAssumption, IdsInv, NEW p \in Proc, Alone(p),
         calls' >= calls, calls' \in Nat,
         NEW n \in Nat, Reached(SiteOf[p], n)'
  PROVE  (\A s \in Site : \E m \in Nat : Reached(s, m))'
<1> SUFFICES ASSUME NEW s \in Site PROVE \E m \in Nat : Reached(s, m)'
  OBVIOUS
<1>1. CASE s = SiteOf[p]
  BY <1>1
<1>2. CASE s # SiteOf[p]
  <2>1. PICK m \in Nat : Reached(s, m)
    BY DEF IdsInv
  <2> QED BY <1>2, <2>1, OtherSite DEF IdsInv, Alone
<1> QED BY <1>1, <1>2

\* A process that stops being one that may write makes the count one less.
LEMMA BoundLess ==
  ASSUME NEW p \in Proc, NEW n \in Nat, Reached(SiteOf[p], n), calls \in Nat,
         \A q \in Proc \ {p} : idPc'[q] = idPc[q],
         idPc'[p] \notin {"lock", "read", "write", "rewrite"}
  PROVE  /\ IsFiniteSet(Bound(SiteOf[p])') /\ Cardinality(Bound(SiteOf[p])') \in Nat
         /\ Cardinality(Bound(SiteOf[p])') + n <= calls
         /\ idPc[p] \in {"lock", "read", "write", "rewrite"} =>
              Cardinality(Bound(SiteOf[p])') + n + 1 <= calls
<1> DEFINE B == Bound(SiteOf[p])
<1>1. B' = B \ {p}
  BY DEF Bound
<1>2. IsFiniteSet(B) /\ Cardinality(B) \in Nat /\ n + Cardinality(B) <= calls
  BY FS_CardinalityType DEF Reached
<1>3. IsFiniteSet(B \ {p})
      /\ Cardinality(B \ {p}) = IF p \in B THEN Cardinality(B) - 1 ELSE Cardinality(B)
  BY <1>2, FS_RemoveElement
<1>4. Cardinality(B \ {p}) \in Nat
  BY <1>3, FS_CardinalityType
<1>5. idPc[p] \in {"lock", "read", "write", "rewrite"} => p \in B
  BY DEF Bound
<1> HIDE DEF B
<1> QED BY <1>1, <1>2, <1>3, <1>4, <1>5 DEF B

-----------------------------------------------------------------------------

\* Closing the file gives the lock up, and no other lock.
LEMMA UnlockKeeps ==
  ASSUME Ids!SeqNumAssumption, Ids!TypeOK, Locked, NEW p \in Proc, Ids!Unlock(p),
         idPc' = [idPc EXCEPT ![p] = "idle"]
  PROVE  Locked'
<1>1. \A s \in Site : idLock'[s] = IF idLock[s] = p THEN Nobody ELSE idLock[s]
  BY DEF Ids!Unlock
<1>2. \A q \in Proc : SiteOf[q] \in Site /\ q # Nobody
  BY DEF Ids!SeqNumAssumption
<1>3. \A q \in Proc : idPc'[q] = IF q = p THEN "idle" ELSE idPc[q]
  BY DEF Ids!TypeOK
<1> QED BY <1>1, <1>2, <1>3 DEF Locked

\* Steps that leave the lock alone, and the process in the file if it was there
LEMMA LockKept ==
  ASSUME Ids!TypeOK, Locked, UNCHANGED idLock, NEW p \in Proc,
         NEW x, idPc' = [idPc EXCEPT ![p] = x],
         x \in {"read", "write", "rewrite", "close"}
           <=> idPc[p] \in {"read", "write", "rewrite", "close"}
  PROVE  Locked'
BY DEF Locked, Ids!TypeOK

\* A call more may give out a number more: that is what it is counted for.
LEMMA CallKeeps ==
  ASSUME Ids!SeqNumAssumption, IdsInv, NEW p \in Proc, Ids!Call(p)
  PROVE  Locked' /\ calls' <= MaxCalls /\ (\A s \in Site : \E n \in Nat : Reached(s, n))'
<1>0. Ids!TypeOK /\ Locked /\ SiteOf[p] \in Site
  BY DEF IdsInv, Ids!SeqNumAssumption
<1>1. /\ idPc[p] = "idle" /\ idPc' = [idPc EXCEPT ![p] = "lock"]
      /\ \A q \in Proc \ {p} : idPc'[q] = idPc[q] /\ value'[q] = value[q] /\ idOp'[q] = idOp[q]
      /\ idPc'[p] = "lock"
      /\ UNCHANGED <<idFile, idLock, given>>
      /\ calls \in Nat /\ calls' = calls + 1 /\ calls < MaxCalls
  BY <1>0 DEF Ids!Call, Ids!Goto, Ids!TypeOK
<1>2. Locked'
  BY <1>0, <1>1, LockKept
<1>3. PICK n \in Nat : Reached(SiteOf[p], n)
  BY <1>0 DEF IdsInv
<1>4. Bound(SiteOf[p])' = Bound(SiteOf[p]) \cup {p}
  BY <1>1 DEF Bound
<1>5. IsFiniteSet(Bound(SiteOf[p])') /\ Cardinality(Bound(SiteOf[p])') <= Cardinality(Bound(SiteOf[p])) + 1
      /\ Cardinality(Bound(SiteOf[p])) \in Nat /\ Cardinality(Bound(SiteOf[p])') \in Nat
  <2> DEFINE B == Bound(SiteOf[p])
  <2>1. IsFiniteSet(B) /\ Cardinality(B) \in Nat
    BY <1>3, FS_CardinalityType DEF Reached
  <2>2. /\ IsFiniteSet(B \cup {p})
        /\ Cardinality(B \cup {p}) = IF p \in B THEN Cardinality(B) ELSE Cardinality(B) + 1
    BY <2>1, FS_AddElement
  <2>3. Cardinality(B \cup {p}) \in Nat
    BY <2>2, FS_CardinalityType
  <2>4. B' = B \cup {p}
    BY <1>4
  <2> HIDE DEF B
  <2>5. IsFiniteSet(B') /\ Cardinality(B') <= Cardinality(B) + 1
        /\ Cardinality(B) \in Nat /\ Cardinality(B') \in Nat
    BY <2>1, <2>2, <2>3, <2>4
  <2> QED BY <2>5 DEF B
<1>6. Reached(SiteOf[p], n)'
  BY <1>1, <1>3, <1>5 DEF Reached
<1>7. Alone(p)
  BY <1>1 DEF Alone
<1>8. (\A s \in Site : \E m \in Nat : Reached(s, m))'
  BY <1>1, <1>6, <1>7, OthersReached
<1> QED BY <1>1, <1>2, <1>8 DEF Ids!SeqNumAssumption

\* The lock is given to one process only.
LEMMA LockKeeps ==
  ASSUME Ids!SeqNumAssumption, IdsInv, NEW p \in Proc, Ids!Lock(p)
  PROVE  Locked' /\ (\A s \in Site : \E n \in Nat : Reached(s, n))'
<1>0. Ids!TypeOK /\ Locked /\ SiteOf[p] \in Site
  BY DEF IdsInv, Ids!SeqNumAssumption
<1>1. /\ idPc[p] = "lock" /\ idLock[SiteOf[p]] = Nobody
      /\ \A q \in Proc : idPc'[q] = IF q = p THEN "read" ELSE idPc[q]
      /\ \A s \in Site : idLock'[s] = IF s = SiteOf[p] THEN p ELSE idLock[s]
      /\ UNCHANGED <<idFile, idOp, value, given, calls>>
      /\ calls \in Nat
  BY <1>0 DEF Ids!Lock, Ids!Goto, Ids!TypeOK
<1>2. Locked'
  <2>1. \A q \in Proc : SiteOf[q] \in Site /\ q # Nobody
    BY DEF Ids!SeqNumAssumption
  <2> QED BY <1>0, <1>1, <2>1 DEF Locked
<1>3. PICK n \in Nat : Reached(SiteOf[p], n)
  BY <1>0 DEF IdsInv
<1>4. Bound(SiteOf[p])' = Bound(SiteOf[p])
  BY <1>1 DEF Bound
<1>5. Reached(SiteOf[p], n)'
  BY <1>1, <1>3, <1>4 DEF Reached
<1>6. Alone(p)
  BY <1>1 DEF Alone
<1> QED BY <1>1, <1>2, <1>5, <1>6, OthersReached

\* A reader finds the number that its site has come to, and the next one is no
\* more than the last: it does not wrap round.
LEMMA ReadKeeps ==
  ASSUME Ids!SeqNumAssumption, IdsInv, NEW p \in Proc, Ids!Read(p)
  PROVE  Locked' /\ (\A s \in Site : \E n \in Nat : Reached(s, n))'
<1> DEFINE bytes == idFile[SiteOf[p]]
           v == IF bytes = <<>> THEN value[p] ELSE Ids!ToNumber(bytes)
<1>0. /\ Ids!TypeOK /\ Locked /\ SiteOf[p] \in Site
      /\ value[p] = 0 /\ calls \in Nat /\ calls <= MaxCalls
      /\ MaxCalls \in Nat /\ Last \in Nat /\ MaxCalls < Last
  BY DEF IdsInv, Ids!TypeOK, Ids!SeqNumAssumption, Ids!Read
<1>1. PICK x : /\ idPc[p] = "read" /\ idPc' = [idPc EXCEPT ![p] = x]
               /\ \/ idOp[p] = "next" /\ x = "write"
                     /\ value' = [value EXCEPT ![p] = (v + 1) % (Last + 1)]
                  \/ idOp[p] = "curr" /\ x = "close" /\ value' = [value EXCEPT ![p] = v]
               /\ UNCHANGED <<idFile, idLock, idOp, given, calls>>
  BY DEF Ids!Read, Ids!Goto
<1>2. Locked'
  BY <1>0, <1>1, LockKept
<1>3. PICK n \in Nat : Reached(SiteOf[p], n)
  BY <1>0 DEF IdsInv
<1>4. /\ IsFiniteSet(Bound(SiteOf[p])) /\ Cardinality(Bound(SiteOf[p])) \in Nat \ {0}
      /\ n + Cardinality(Bound(SiteOf[p])) <= calls
  <2>1. p \in Bound(SiteOf[p])
    BY <1>1 DEF Bound
  <2> QED BY <1>3, <2>1, FS_CardinalityType, FS_EmptySet DEF Reached
<1>5. v = n
  <2>1. \A q \in Proc : SiteOf[q] = SiteOf[p] => idPc[q] # "rewrite"
    BY <1>0, <1>1, AloneInFile
  <2>2. bytes = IF n = 0 THEN <<>> ELSE BytesOf[n]
    BY <1>3, <2>1 DEF Reached
  <2>3. n \in Ids!Numbers
    BY <1>0, <1>4 DEF Ids!Numbers
  <2> QED BY <1>0, <2>2, <2>3, BytesBack
<1>6. (n + 1) % (Last + 1) = n + 1
  BY <1>0, <1>4
<1>7. /\ \A q \in Proc : /\ idPc'[q] = IF q = p THEN x ELSE idPc[q]
                         /\ q # p => value'[q] = value[q]
      /\ \/ idOp[p] = "next" /\ x = "write" /\ value'[p] = n + 1
         \/ idOp[p] = "curr" /\ x = "close"
  <2> HIDE DEF v
  <2> QED BY <1>0, <1>1, <1>5, <1>6 DEF Ids!TypeOK
<1>8. Reached(SiteOf[p], n)'
  <2>1. CASE x = "write"
    <3>1. Bound(SiteOf[p])' = Bound(SiteOf[p])
      BY <1>1, <1>7, <2>1 DEF Bound
    <3> QED BY <1>1, <1>3, <1>7, <2>1, <3>1 DEF Reached
  <2>2. CASE x = "close"
    <3>1. /\ IsFiniteSet(Bound(SiteOf[p])') /\ Cardinality(Bound(SiteOf[p])') \in Nat
          /\ Cardinality(Bound(SiteOf[p])') + n <= calls
      BY <1>0, <1>3, <1>7, <2>2, BoundLess
    <3> QED BY <1>1, <1>3, <1>7, <2>2, <3>1 DEF Reached
  <2> QED BY <1>1, <2>1, <2>2
<1>9. Alone(p)
  BY <1>1, <1>7 DEF Alone
<1> QED BY <1>0, <1>1, <1>2, <1>8, <1>9, OthersReached

\* With its last byte written the number is that of the site, not given out yet.
LEMMA WriteKeeps ==
  ASSUME Ids!SeqNumAssumption, IdsInv, NEW p \in Proc, Ids!Write(p)
  PROVE  Locked' /\ (\A s \in Site : \E n \in Nat : Reached(s, n))'
<1>0. /\ Ids!TypeOK /\ Locked /\ SiteOf[p] \in Site /\ calls \in Nat
      /\ idOp[p] = "next" /\ idPc[p] \in {"write", "rewrite"}
  BY DEF IdsInv, Ids!TypeOK, Ids!SeqNumAssumption, Ids!Write
<1>1. PICK k \in 1..Width :
        /\ idFile' = [idFile EXCEPT ![SiteOf[p]] =
                        Ids!Overwritten(idFile[SiteOf[p]], value[p], k)]
        /\ idPc' = [idPc EXCEPT ![p] = IF k = Width THEN "close" ELSE "rewrite"]
  BY DEF Ids!Write, Ids!Goto
<1>2. UNCHANGED <<idLock, idOp, value, given, calls>>
  BY DEF Ids!Write
<1>3. Locked'
  BY <1>0, <1>1, <1>2, LockKept
<1>4. /\ \A q \in Proc : idPc'[q] = IF q = p THEN IF k = Width THEN "close" ELSE "rewrite"
                                    ELSE idPc[q]
      /\ \A s \in Site : s # SiteOf[p] => idFile'[s] = idFile[s]
      /\ idFile'[SiteOf[p]] = Ids!Overwritten(idFile[SiteOf[p]], value[p], k)
  BY <1>0, <1>1 DEF Ids!TypeOK
<1>5. PICK n \in Nat : Reached(SiteOf[p], n)
  BY <1>0 DEF IdsInv
<1>6. value[p] = n + 1 /\ value[p] \in Ids!Numbers
  BY <1>0, <1>5 DEF Reached, Ids!TypeOK
<1>7. \A q \in Proc : q # p /\ SiteOf[q] = SiteOf[p] =>
        idPc[q] \notin {"read", "write", "rewrite", "close"}
  BY <1>0, AloneInFile
<1>8. Alone(p)
  BY <1>2, <1>4 DEF Alone
<1>9. CASE k # Width
  <2>1. Bound(SiteOf[p])' = Bound(SiteOf[p])
    BY <1>0, <1>4, <1>9 DEF Bound
  <2>2. Reached(SiteOf[p], n)'
    BY <1>2, <1>4, <1>5, <1>6, <1>7, <1>9, <2>1 DEF Reached
  <2> QED BY <1>0, <1>2, <1>3, <1>8, <2>2, OthersReached
<1>10. CASE k = Width
  <2>1. /\ IsFiniteSet(Bound(SiteOf[p])') /\ Cardinality(Bound(SiteOf[p])') \in Nat
        /\ Cardinality(Bound(SiteOf[p])') + n + 1 <= calls
    BY <1>0, <1>4, <1>5, <1>10, BoundLess
  <2>2. idFile'[SiteOf[p]] = BytesOf[n + 1]
    <3>1. PICK l \in 0..Width : idFile[SiteOf[p]] \in [1..l -> Byte]
      BY <1>0, FileTypes
    <3> QED BY <1>4, <1>6, <1>10, <3>1, WrittenOver
  <2>3. Reached(SiteOf[p], n + 1)'
    <3>1. \A w \in given[SiteOf[p]] : w \in 1..n
      BY <1>5 DEF Reached
    <3>2. \A v \in given'[SiteOf[p]] : v \in 1..(n + 1)
      BY <1>2, <3>1
    <3>3. n + 1 # 0 /\ n + 1 + Cardinality(Bound(SiteOf[p])') <= calls'
      BY <1>2, <2>1
    <3>4. \A q \in Proc : SiteOf[q] = SiteOf[p] =>
            /\ idPc'[q] \notin {"write", "rewrite"}
            /\ idPc'[q] = "close" => q = p
      BY <1>4, <1>7, <1>10
    <3>5. value'[p] = n + 1 /\ n + 1 > 0 /\ n + 1 \notin given'[SiteOf[p]]
      BY <1>2, <1>6, <3>1
    <3> QED BY <2>1, <2>2, <3>2, <3>3, <3>4, <3>5 DEF Reached
  <2>4. n + 1 \in Nat /\ calls' >= calls /\ calls' \in Nat
    BY <1>0, <1>2
  <2>5. (\A s \in Site : \E m \in Nat : Reached(s, m))'
    BY <1>8, <2>3, <2>4, OthersReached
  <2> QED BY <1>3, <2>5
<1> QED BY <1>9, <1>10

\* The number is given out, and the lock given up.
LEMMA CloseKeeps ==
  ASSUME Ids!SeqNumAssumption, IdsInv, NEW p \in Proc, Ids!Close(p)
  PROVE  Locked' /\ (\A s \in Site : \E n \in Nat : Reached(s, n))'
<1>0. /\ Ids!TypeOK /\ Locked /\ SiteOf[p] \in Site /\ calls \in Nat
      /\ idPc[p] = "close" /\ idPc' = [idPc EXCEPT ![p] = "idle"] /\ Ids!Unlock(p)
      /\ UNCHANGED <<idFile, idOp, value, calls>>
  BY DEF IdsInv, Ids!TypeOK, Ids!SeqNumAssumption, Ids!Close, Ids!Goto
<1>1. Locked'
  BY <1>0, UnlockKeeps
<1>2. /\ \A q \in Proc : idPc'[q] = IF q = p THEN "idle" ELSE idPc[q]
      /\ \A s \in Site : s # SiteOf[p] => given'[s] = given[s]
      /\ given'[SiteOf[p]] = IF idOp[p] = "next" THEN given[SiteOf[p]] \cup {value[p]}
                             ELSE given[SiteOf[p]]
  BY <1>0 DEF Ids!TypeOK, Ids!Close
<1>3. PICK n \in Nat : Reached(SiteOf[p], n)
  BY <1>0 DEF IdsInv
<1>4. /\ IsFiniteSet(Bound(SiteOf[p])') /\ Cardinality(Bound(SiteOf[p])') \in Nat
      /\ Cardinality(Bound(SiteOf[p])') + n <= calls
  BY <1>0, <1>2, <1>3, BoundLess
<1>5. \A v \in given'[SiteOf[p]] : v \in 1..n
  <2>1. idOp[p] = "next" => value[p] = n /\ n > 0
    BY <1>0, <1>3 DEF Reached
  <2> QED BY <1>2, <1>3, <2>1 DEF Reached
<1>6. \A q \in Proc : q # p /\ SiteOf[q] = SiteOf[p] =>
        idPc[q] \notin {"read", "write", "rewrite", "close"}
  BY <1>0, AloneInFile
<1>7. Reached(SiteOf[p], n)'
  BY <1>0, <1>2, <1>3, <1>4, <1>5, <1>6 DEF Reached
<1>8. Alone(p)
  BY <1>0, <1>2 DEF Alone
<1> QED BY <1>0, <1>1, <1>7, <1>8, OthersReached

\* Without torn writes, who gives up leaves the file as it found or wrote it.
LEMMA GiveUpKeeps ==
  ASSUME Ids!SeqNumAssumption, ~Tears, IdsInv, NEW p \in Proc, Ids!GiveUp(p)
  PROVE  Locked' /\ (\A s \in Site : \E n \in Nat : Reached(s, n))'
<1>0. /\ Ids!TypeOK /\ Locked /\ SiteOf[p] \in Site /\ calls \in Nat
      /\ idPc[p] # "rewrite" /\ idPc' = [idPc EXCEPT ![p] = "idle"] /\ Ids!Unlock(p)
      /\ value' = [value EXCEPT ![p] = 0]
      /\ UNCHANGED <<idFile, idOp, given, calls>>
  BY DEF IdsInv, Ids!TypeOK, Ids!SeqNumAssumption, Ids!GiveUp, Ids!Goto
<1>1. Locked'
  BY <1>0, UnlockKeeps
<1>2. \A q \in Proc : /\ idPc'[q] = IF q = p THEN "idle" ELSE idPc[q]
                      /\ q # p => value'[q] = value[q]
  BY <1>0 DEF Ids!TypeOK
<1>3. PICK n \in Nat : Reached(SiteOf[p], n)
  BY <1>0 DEF IdsInv
<1>4. /\ IsFiniteSet(Bound(SiteOf[p])') /\ Cardinality(Bound(SiteOf[p])') \in Nat
      /\ Cardinality(Bound(SiteOf[p])') + n <= calls
  BY <1>0, <1>2, <1>3, BoundLess
<1>5. Reached(SiteOf[p], n)'
  BY <1>0, <1>2, <1>3, <1>4 DEF Reached
<1>6. Alone(p)
  BY <1>0, <1>2 DEF Alone
<1> QED BY <1>0, <1>1, <1>5, <1>6, OthersReached

\* The values and operations of the steps of a call
Valued == \A p \in Proc : /\ idPc[p] \in {"lock", "read"} => value[p] = 0
                          /\ idPc[p] \in {"write", "rewrite"} => idOp[p] = "next"

\* Every step keeps them.
LEMMA ValuedNext ==
  ASSUME Ids!TypeOK, Valued, [Ids!Next]_(Ids!vars) PROVE Valued'
<1> USE DEF Ids!Goto, Ids!TypeOK, Valued
<1>1. ASSUME NEW p \in Proc, Ids!Call(p) PROVE Valued'
  BY <1>1 DEF Ids!Call
<1>2. ASSUME NEW p \in Proc, Ids!Lock(p) PROVE Valued'
  BY <1>2 DEF Ids!Lock
<1>3. ASSUME NEW p \in Proc, Ids!Read(p) PROVE Valued'
  <2>1. PICK v : value' = [value EXCEPT ![p] = v]
    BY <1>3 DEF Ids!Read
  <2>2. /\ UNCHANGED idOp
        /\ \/ idOp[p] = "next" /\ idPc' = [idPc EXCEPT ![p] = "write"]
           \/ idOp[p] = "curr" /\ idPc' = [idPc EXCEPT ![p] = "close"]
    BY <1>3 DEF Ids!Read
  <2> QED BY <2>1, <2>2
<1>4. ASSUME NEW p \in Proc, Ids!Write(p) PROVE Valued'
  BY <1>4 DEF Ids!Write
<1>5. ASSUME NEW p \in Proc, Ids!Close(p) PROVE Valued'
  BY <1>5 DEF Ids!Close
<1>6. ASSUME NEW p \in Proc, Ids!GiveUp(p) PROVE Valued'
  BY <1>6 DEF Ids!GiveUp
<1>7. CASE UNCHANGED Ids!vars
  BY <1>7 DEF Ids!vars
<1> QED
  BY <1>1, <1>2, <1>3, <1>4, <1>5, <1>6, <1>7 DEF Ids!Next, Ids!Step

\* Every step keeps the invariant, if no write is torn.
LEMMA IdsInvNext ==
  ASSUME Ids!SeqNumAssumption, ~Tears, IdsInv, [Ids!Next]_(Ids!vars)
  PROVE  IdsInv'
<1> DEFINE Sites == \A s \in Site : \E n \in Nat : Reached(s, n)
<1>0. Ids!TypeOK /\ Locked /\ Sites /\ calls <= MaxCalls /\ Valued
  BY DEF IdsInv, Valued
<1>1. Ids!TypeOK' /\ Valued'
  BY <1>0, IdsTypeNext, ValuedNext
<1>2. Locked' /\ Sites' /\ calls' <= MaxCalls
  <2>1. ASSUME NEW p \in Proc, Ids!Call(p) PROVE Locked' /\ Sites' /\ calls' <= MaxCalls
    BY <2>1, CallKeeps
  <2>2. ASSUME NEW p \in Proc, Ids!Lock(p) PROVE Locked' /\ Sites' /\ calls' <= MaxCalls
    <3>1. calls' = calls
      BY <2>2 DEF Ids!Lock
    <3> QED BY <1>0, <2>2, <3>1, LockKeeps
  <2>3. ASSUME NEW p \in Proc, Ids!Read(p) PROVE Locked' /\ Sites' /\ calls' <= MaxCalls
    <3>1. calls' = calls
      BY <2>3 DEF Ids!Read
    <3> QED BY <1>0, <2>3, <3>1, ReadKeeps
  <2>4. ASSUME NEW p \in Proc, Ids!Write(p) PROVE Locked' /\ Sites' /\ calls' <= MaxCalls
    <3>1. calls' = calls
      BY <2>4 DEF Ids!Write
    <3> QED BY <1>0, <2>4, <3>1, WriteKeeps
  <2>5. ASSUME NEW p \in Proc, Ids!Close(p) PROVE Locked' /\ Sites' /\ calls' <= MaxCalls
    <3>1. calls' = calls
      BY <2>5 DEF Ids!Close
    <3> QED BY <1>0, <2>5, <3>1, CloseKeeps
  <2>6. ASSUME NEW p \in Proc, Ids!GiveUp(p) PROVE Locked' /\ Sites' /\ calls' <= MaxCalls
    <3>1. calls' = calls
      BY <2>6 DEF Ids!GiveUp
    <3> QED BY <1>0, <2>6, <3>1, GiveUpKeeps
  <2>7. CASE UNCHANGED Ids!vars
    <3>1. UNCHANGED <<idFile, idLock, idPc, idOp, value, given, calls>>
      BY <2>7 DEF Ids!vars
    <3>2. Locked'
      BY <1>0, <3>1 DEF Locked
    <3>3. \A s \in Site, n \in Nat : Reached(s, n) => Reached(s, n)'
      <4>1. \A s \in Site : Bound(s)' = Bound(s)
        BY <3>1 DEF Bound
      <4> QED BY <3>1, <4>1 DEF Reached
    <3> QED BY <1>0, <3>1, <3>2, <3>3
  <2> QED BY <2>1, <2>2, <2>3, <2>4, <2>5, <2>6, <2>7 DEF Ids!Next, Ids!Step
<1> HIDE DEF Sites
<1> QED BY <1>1, <1>2 DEF IdsInv, Valued, Sites

-----------------------------------------------------------------------------

\* When no call ends between a short write and its repetition, the file whose
\* lock is free says the highest number that was given out, or a higher one:
\* whatever is left half done, a later call counts on from there.
THEOREM CountsOnSafe == Ids!SeqNumAssumption /\ ~Tears => (Ids!Spec => []CountsOn)
<1>1. ASSUME Ids!SeqNumAssumption, IdsInv PROVE CountsOn
  <2> SUFFICES ASSUME NEW s \in Site, idLock[s] = Nobody
               PROVE  \/ idFile[s] = <<>> /\ given[s] = {}
                      \/ Len(idFile[s]) = Width
                         /\ \A v \in given[s] : v <= Ids!ToNumber(idFile[s])
    BY DEF CountsOn, Ids!CountsOn
  <2>1. PICK n \in Nat : Reached(s, n)
    BY <1>1 DEF IdsInv
  <2>2. \A p \in Proc : SiteOf[p] = s => idPc[p] # "rewrite"
    BY <1>1 DEF IdsInv, Locked, Ids!SeqNumAssumption
  <2>3. idFile[s] = IF n = 0 THEN <<>> ELSE BytesOf[n]
    BY <2>1, <2>2 DEF Reached
  <2>4. CASE n = 0
    BY <2>1, <2>3, <2>4 DEF Reached
  <2>5. CASE n # 0
    <3>1. IsFiniteSet(Bound(s)) /\ n + Cardinality(Bound(s)) <= calls /\ calls <= MaxCalls
      BY <1>1, <2>1 DEF Reached, IdsInv
    <3>2. Cardinality(Bound(s)) \in Nat /\ calls \in Nat /\ MaxCalls \in Nat /\ Last \in Nat
          /\ MaxCalls < Last
      BY <1>1, <3>1, FS_CardinalityType DEF IdsInv, Ids!TypeOK, Ids!SeqNumAssumption
    <3>3. n \in Ids!Numbers
      BY <3>1, <3>2 DEF Ids!Numbers
    <3>4. Len(idFile[s]) = Width /\ Ids!ToNumber(idFile[s]) = n
      BY <1>1, <2>3, <2>5, <3>3, BytesBack
    <3> QED BY <2>1, <3>4 DEF Reached
  <2> QED BY <2>4, <2>5
<1>2. CASE Ids!SeqNumAssumption /\ ~Tears
  <2>1. Ids!Init => IdsInv
    BY <1>2, IdsInvInit
  <2>2. IdsInv /\ [Ids!Next]_(Ids!vars) => IdsInv'
    BY <1>2, IdsInvNext
  <2>3. IdsInv => CountsOn
    BY <1>1, <1>2
  <2> QED BY <2>1, <2>2, <2>3, PTL DEF Ids!Spec
<1> QED BY <1>2

\* The number of a call that returns is a new one at its site.
LEMMA FreshNumber ==
  ASSUME Ids!SeqNumAssumption, IdsInv, NEW p \in Proc, idPc[p] = "close", idOp[p] = "next"
  PROVE  value[p] \notin given[SiteOf[p]]
<1>1. PICK n \in Nat : Reached(SiteOf[p], n)
  BY DEF IdsInv, Ids!SeqNumAssumption
<1> QED BY <1>1 DEF Reached

\* Under the same condition what next() returns it has never returned before,
\* from whichever process it was called and however the other calls ended.
THEOREM NeverReissuedSafe == Ids!SeqNumAssumption /\ ~Tears => (Ids!Spec => NeverReissued)
<1> DEFINE Fresh ==
      \A p \in Proc :
        idPc[p] = "close" /\ idPc'[p] = "idle" /\ idOp[p] = "next" /\ value'[p] # 0
        => value[p] \notin given[SiteOf[p]]
<1>1. ASSUME Ids!SeqNumAssumption, IdsInv PROVE Fresh
  BY <1>1, FreshNumber
<1>2. CASE Ids!SeqNumAssumption /\ ~Tears
  <2>1. Ids!Init => IdsInv
    BY <1>2, IdsInvInit
  <2>2. IdsInv /\ [Ids!Next]_(Ids!vars) => IdsInv'
    BY <1>2, IdsInvNext
  <2>3. IdsInv => [Fresh]_(Ids!vars)
    BY <1>1, <1>2
  <2> QED BY <2>1, <2>2, <2>3, PTL DEF Ids!Spec, NeverReissued, Ids!NeverReissued
<1> QED BY <1>2

-----------------------------------------------------------------------------

\* A process makes its ids of numbers that were given out at its site,
Made == \A p \in Proc : \A i \in idMade[p] : \E v \in given[SiteOf[p]] : i = Ids!JobId(p, v)

\* and no two of a site of the same number, if both or neither have a zone.
Apart ==
  \A p, q \in Proc :
    p # q /\ SiteOf[p] = SiteOf[q] /\ Ids!Zone(p) = Ids!Zone(q) => idMade[p] \cap idMade[q] = {}

\* In one way of making ids each number has its own.
LEMMA JobIdOneToOne ==
  ASSUME Ids!SeqNumAssumption, NEW p \in Proc, NEW q \in Proc, Ids!Zone(p) = Ids!Zone(q),
         NEW v \in Ids!Numbers, NEW w \in Ids!Numbers, Ids!JobId(p, v) = Ids!JobId(q, w)
  PROVE  v = w
<1>1. v \in Nat /\ w \in Nat
  BY DEF Ids!SeqNumAssumption, Ids!Numbers
<1> QED BY <1>1, ZoneType DEF Ids!JobId

\* Ids are made when a call returns, of the number it returns.
LEMMA CloseMakes ==
  ASSUME Ids!SeqNumAssumption, IdsInv, Made, Apart, NEW p \in Proc, Ids!Close(p)
  PROVE  Made' /\ Apart'
<1> DEFINE new == IF idOp[p] = "next" THEN {Ids!JobId(p, value[p])} ELSE {}
<1>0. /\ Ids!TypeOK /\ \A q \in Proc : SiteOf[q] \in Site
      /\ idPc[p] = "close" /\ value[p] \in Ids!Numbers
  BY DEF IdsInv, Ids!TypeOK, Ids!SeqNumAssumption, Ids!Close
<1>1. \A q \in Proc : /\ q # p => idMade'[q] = idMade[q]
                      /\ given[SiteOf[q]] \subseteq given'[SiteOf[q]]
  BY <1>0 DEF Ids!TypeOK, Ids!Close
<1>2. /\ idMade'[p] = idMade[p] \cup new
      /\ idOp[p] = "next" => value[p] \in given'[SiteOf[p]]
  BY <1>0 DEF Ids!TypeOK, Ids!Close
<1>3. \A q \in Proc : \A v : Ids!JobId(q, v)' = Ids!JobId(q, v)
  BY DEF Ids!JobId, Ids!Zone
<1>4. Made'
  <2> SUFFICES ASSUME NEW q \in Proc, NEW i \in idMade'[q]
               PROVE  \E v \in given'[SiteOf[q]] : i = Ids!JobId(q, v)
    BY <1>3 DEF Made
  <2>1. CASE i \in idMade[q]
    <3>1. PICK v \in given[SiteOf[q]] : i = Ids!JobId(q, v)
      BY <2>1 DEF Made
    <3> QED BY <1>1, <3>1
  <2>2. CASE i \notin idMade[q]
    BY <1>1, <1>2, <2>2
  <2> QED BY <2>1, <2>2
<1>5. ASSUME NEW q \in Proc, q # p, SiteOf[p] = SiteOf[q], Ids!Zone(p) = Ids!Zone(q)
      PROVE  new \cap idMade[q] = {}
  <2> SUFFICES ASSUME idOp[p] = "next", Ids!JobId(p, value[p]) \in idMade[q] PROVE FALSE
    OBVIOUS
  <2>1. PICK v \in given[SiteOf[q]] : Ids!JobId(p, value[p]) = Ids!JobId(q, v)
    BY DEF Made
  <2>2. v \in Ids!Numbers
    BY <1>0 DEF Ids!TypeOK
  <2>3. value[p] = v
    BY <1>0, <1>5, <2>1, <2>2, JobIdOneToOne
  <2> QED BY <1>0, <1>5, <2>3, FreshNumber
<1>6. Apart'
  <2> SUFFICES ASSUME NEW q \in Proc, NEW r \in Proc, q # r, SiteOf[q] = SiteOf[r],
                      Ids!Zone(q) = Ids!Zone(r)
               PROVE  idMade'[q] \cap idMade'[r] = {}
    BY DEF Apart, Ids!Zone
  <2>1. idMade[q] \cap idMade[r] = {}
    BY DEF Apart
  <2>2. CASE q = p
    BY <1>1, <1>2, <1>5, <2>1, <2>2
  <2>3. CASE r = p
    BY <1>1, <1>2, <1>5, <2>1, <2>3
  <2>4. CASE q # p /\ r # p
    BY <1>1, <2>1, <2>4
  <2> QED BY <2>2, <2>3, <2>4
<1> QED BY <1>4, <1>6

\* No other step makes ids.
LEMMA MadeNext ==
  ASSUME Ids!SeqNumAssumption, IdsInv, Made, Apart, [Ids!Next]_(Ids!vars)
  PROVE  Made' /\ Apart'
<1>1. ASSUME UNCHANGED <<given, idMade>> PROVE Made' /\ Apart'
  BY <1>1 DEF Made, Apart, Ids!JobId, Ids!Zone
<1>2. ASSUME NEW p \in Proc,
             Ids!Call(p) \/ Ids!Lock(p) \/ Ids!Read(p) \/ Ids!Write(p) \/ Ids!GiveUp(p)
      PROVE  UNCHANGED <<given, idMade>>
  BY <1>2 DEF Ids!Call, Ids!Lock, Ids!Read, Ids!Write, Ids!GiveUp
<1>3. CASE UNCHANGED Ids!vars
  BY <1>1, <1>3 DEF Ids!vars
<1> QED BY <1>1, <1>2, <1>3, CloseMakes DEF Ids!Next, Ids!Step

\* As long as no call ends within a write, and sites with zones have zones of their
\* own, processes that make their ids in the same way never make the same one: of two
\* sites the last digit tells them apart, at one site the number does.
THEOREM IdsDistinctSafe ==
  /\ Ids!SeqNumAssumption /\ ~Tears
  /\ \A s, t \in Site : s # t /\ ZoneOf[s] # 0 => ZoneOf[s] # ZoneOf[t]
  => (Ids!Spec => []IdsDistinct)
<1> DEFINE Zones == \A s, t \in Site : s # t /\ ZoneOf[s] # 0 => ZoneOf[s] # ZoneOf[t]
           MInv == IdsInv /\ Made /\ Apart
<1>1. ASSUME Ids!SeqNumAssumption, Zones, MInv PROVE IdsDistinct
  <2> SUFFICES ASSUME NEW p \in Proc, NEW q \in Proc, p # q, Ids!Alike(p, q),
                      NEW i \in idMade[p], i \in idMade[q]
               PROVE  FALSE
    BY DEF IdsDistinct, Ids!IdsDistinct
  <2>1. SiteOf[p] # SiteOf[q] /\ Ids!Zone(p) # 0 /\ Ids!Zone(q) # 0
    BY <1>1 DEF Apart, Ids!Alike, Ids!Zone
  <2>2. PICK v \in given[SiteOf[p]] : i = Ids!JobId(p, v)
    BY <1>1 DEF Made
  <2>3. PICK w \in given[SiteOf[q]] : i = Ids!JobId(q, w)
    BY <1>1 DEF Made
  <2>4. v \in Nat /\ w \in Nat
    BY <1>1 DEF IdsInv, Ids!TypeOK, Ids!Numbers, Ids!SeqNumAssumption
  <2>5. Ids!Zone(p) \in 1..9 /\ Ids!Zone(q) \in 1..9 /\ Ids!Zone(p) # Ids!Zone(q)
    BY <1>1, <2>1, ZoneType DEF Ids!SeqNumAssumption, Ids!Zone
  <2>6. v * 10 + Ids!Zone(p) = w * 10 + Ids!Zone(q)
    BY <2>1, <2>2, <2>3 DEF Ids!JobId
  <2> QED BY <2>4, <2>5, <2>6
<1>2. CASE Ids!SeqNumAssumption /\ ~Tears /\ Zones
  <2>1. Ids!Init => MInv
    BY <1>2, IdsInvInit DEF Made, Apart, Ids!Init
  <2>2. MInv /\ [Ids!Next]_(Ids!vars) => MInv'
    BY <1>2, IdsInvNext, MadeNext
  <2>3. MInv => IdsDistinct
    BY <1>1, <1>2
  <2> QED BY <2>1, <2>2, <2>3, PTL DEF Ids!Spec
<1> QED BY <1>2

-----------------------------------------------------------------------------
(* Isafe                                                                     *)

\* The inductive invariant of a repeated call: a retry is only after nothing was
\* done, and success is only told when it was.
CallInv ==
  /\ Call!TypeOK
  /\ num + naps = Limit
  /\ callPc = "nap" => num > 0 /\ effect = 0
  /\ callPc = "try" => effect = 0
  /\ callPc = "back" =>
       /\ effect = IF errno = "OK" THEN 1 ELSE 0
       /\ errno \in Call!Transient => num = 0

\* Before the first try nothing was done.
LEMMA CallInit == Call!IsafeAssumption /\ Call!Init => CallInv
BY DEF Call!IsafeAssumption, Call!Init, CallInv, Call!TypeOK, Call!Op

\* Every try and every nap keeps the invariant.
LEMMA CallNext ==
  ASSUME Call!IsafeAssumption, ~ClosesAnyway, CallInv, [Call!Next]_(Call!vars)
  PROVE  CallInv'
<1> USE DEF Call!IsafeAssumption, CallInv, Call!TypeOK, Call!Op, Call!Freed, Call!Transient
<1>1. CASE Call!Succeed
  BY <1>1 DEF Call!Succeed
<1>2. CASE Call!Interrupted
  BY <1>2 DEF Call!Interrupted, Call!Aborted
<1>3. ASSUME NEW e \in {"EBUSY", "EIO", "EBADF"}, Call!Fail(e) PROVE CallInv'
  BY <1>3 DEF Call!Fail, Call!Aborted, Call!Again
<1>4. CASE Call!Nap
  BY <1>4 DEF Call!Nap
<1>5. CASE UNCHANGED Call!vars
  BY <1>5 DEF Call!vars
<1> QED
  BY <1>1, <1>2, <1>3, <1>4, <1>5 DEF Call!Next

\* For every retry limit, a system call that was interrupted or met a busy file
\* system answers what it did: success if it was done, once, an error if it was
\* not, and a passing error only after all the further tries it has (as long as
\* a close that reports an error has not freed its descriptor).
THEOREM AnswerSafe == Call!IsafeAssumption /\ ~ClosesAnyway => (Call!Spec => []AnswerIsTrue)
<1>1. CallInv => AnswerIsTrue
  BY DEF CallInv, AnswerIsTrue, Call!AnswerIsTrue, Call!TypeOK
<1>2. ASSUME Call!IsafeAssumption, ~ClosesAnyway PROVE Call!Spec => []AnswerIsTrue
  BY <1>1, <1>2, CallInit, CallNext, PTL DEF Call!Spec
<1> QED BY <1>2

-----------------------------------------------------------------------------
(* Finder                                                                    *)

\* The job is in a directory that is still to be read
Ahead ==
  \/ findQ < queue
  \/ findQ = queue /\ \E i \in findS..6 : jobState = Search!StateOrder[i]

\* The inductive invariant of a search
FindInv ==
  /\ queue \in 1..Len(Queue)
  /\ findS \in 1..7
  /\ findQ \in 1..(Len(Queue) + 1)
  /\ Len(Queue) \in Nat
  /\ ~back => \E i \in 1..6 : jobState = Search!StateOrder[i]
  /\ findPc = "scan" /\ ~back => Ahead
  /\ findPc = "load" /\ ~moved => found = Search!Name
  /\ Search!FoundUnlessBack

\* The six directories and the order in which they are read
LEMMA StateOrderIs ==
  /\ Len(Search!StateOrder) = 6
  /\ Search!StateOrder[1] = "hold" /\ Search!StateOrder[2] = "pend" /\ Search!StateOrder[3] = "run"
  /\ Search!StateOrder[4] = "tied" /\ Search!StateOrder[5] = "kill" /\ Search!StateOrder[6] = "done"
BY DEF Search!StateOrder

\* Before the search every directory is still to be read.
LEMMA FindInit == 
  ASSUME Search!FinderAssumption, Search!Init PROVE FindInv
<1>1. \E i \in 1..6 : jobState = Search!StateOrder[i]
  <2>1. jobState \in {"hold", "pend", "run", "tied", "done"}
    BY DEF Search!Init
  <2> QED BY <2>1, StateOrderIs
<1>2. Len(Queue) \in Nat /\ DOMAIN Queue = 1..Len(Queue)
  BY DEF Search!FinderAssumption
<1>3. Ahead
  BY <1>1, <1>2 DEF Ahead, Search!Init
<1> QED
  BY <1>1, <1>2, <1>3 DEF FindInv, Search!Init, Search!FoundUnlessBack

\* A job that moves on goes to a directory that is read later.
LEMMA MovesAhead ==
  ASSUME NEW i \in 1..6, jobState = Search!StateOrder[i], Search!MovesOn
  PROVE  \E k \in (i + 1)..6 : jobState' = Search!StateOrder[k]
<1>1. <<jobState, jobState'>> \in Search!Forward
  <2>1. PICK e \in Search!Forward : jobState = e[1] /\ jobState' = e[2]
    BY DEF Search!MovesOn
  <2> QED BY <2>1 DEF Search!Forward
<1> QED BY <1>1, StateOrderIs DEF Search!Forward

\* A directory that was read and did not have the job is not where it is.
LEMMA ScanKeeps ==
  ASSUME FindInv, Search!Scan PROVE FindInv'
<1> USE DEF Search!Scan, FindInv, Search!FoundUnlessBack, Search!Name
<1>1. Len(Search!StateOrder) = 6
  BY StateOrderIs
<1>2. CASE queue = findQ /\ jobState = Search!StateOrder[findS]
  BY <1>1, <1>2
<1>3. CASE ~(queue = findQ /\ jobState = Search!StateOrder[findS])
  <2>1. ~back' => Ahead'
    BY <1>1, <1>3 DEF Ahead
  <2> QED BY <1>1, <1>3, <2>1
<1> QED BY <1>2, <1>3

\* Every step of the search, and of those that move the job, keeps the invariant.
LEMMA FindNext ==
  ASSUME Search!FinderAssumption, FindInv, [Search!Next]_(Search!vars)
  PROVE  FindInv'
<1> USE DEF Search!jobVars, Search!catVars
<1>0. Len(Search!StateOrder) = 6
  BY StateOrderIs
<1>1. CASE Search!Scan
  BY <1>1, ScanKeeps
<1>2. CASE Search!NextQueue
  <2>1. ~back' => Ahead'
    BY <1>0, <1>2 DEF Search!NextQueue, FindInv, Ahead
  <2> QED BY <1>0, <1>2, <2>1 DEF Search!NextQueue, FindInv, Search!FoundUnlessBack, Search!Name
<1>3. CASE Search!NotFound
  <2>1. back
    BY <1>3 DEF Search!NotFound, FindInv, Ahead
  <2> QED BY <1>3, <2>1 DEF Search!NotFound, FindInv, Search!FoundUnlessBack, Search!Name
<1>4. CASE Search!Load
  BY <1>4 DEF Search!Load, FindInv, Search!FoundUnlessBack, Search!Name
<1>5. CASE Search!MovesOn
  <2>1. /\ ~back' => \E i \in 1..6 : jobState' = Search!StateOrder[i]
        /\ findPc' = "scan" /\ ~back' => Ahead'
    <3> SUFFICES ASSUME ~back'
                 PROVE  /\ \E i \in 1..6 : jobState' = Search!StateOrder[i]
                        /\ findPc' = "scan" => Ahead'
      OBVIOUS
    <3>1. ~back /\ UNCHANGED <<queue, findQ, findS, findPc>>
      BY <1>5 DEF Search!MovesOn
    <3>2. PICK i \in 1..6 : /\ jobState = Search!StateOrder[i]
                            /\ findPc = "scan" => findQ < queue \/ (findQ = queue /\ findS <= i)
      BY <3>1, StateOrderIs DEF FindInv, Ahead
    <3>3. PICK k \in (i + 1)..6 : jobState' = Search!StateOrder[k]
      BY <1>5, <3>2, MovesAhead
    <3> QED BY <3>1, <3>2, <3>3 DEF FindInv, Ahead
  <2> QED BY <1>5, <2>1 DEF Search!MovesOn, FindInv, Search!FoundUnlessBack
<1>6. CASE Search!GoesBack
  BY <1>6 DEF Search!GoesBack, FindInv, Search!FoundUnlessBack
<1>7. CASE Search!Purged
  BY <1>7 DEF Search!Purged, FindInv, Search!FoundUnlessBack
<1>8. CASE Search!Stores
  BY <1>8 DEF Search!Stores, FindInv, Ahead, Search!FoundUnlessBack, Search!Name
<1>9. CASE UNCHANGED Search!vars
  BY <1>9 DEF Search!vars, FindInv, Ahead, Search!FoundUnlessBack, Search!Name
<1> QED
  BY <1>1, <1>2, <1>3, <1>4, <1>5, <1>6, <1>7, <1>8, <1>9 DEF Search!Next

\* For every number of queues and of retries: a job that is in a queue while it
\* is looked for is found, unless it went back to a directory that had been read
\* (or was removed); and what was found and cannot be loaded has moved since.
THEOREM FoundSafe == Search!FinderAssumption => (Search!Spec => []FoundUnlessBack)
<1>1. FindInv => FoundUnlessBack
  BY DEF FindInv, FoundUnlessBack
<1>2. ASSUME Search!FinderAssumption PROVE Search!Spec => []FoundUnlessBack
  BY <1>1, <1>2, FindInit, FindNext, PTL DEF Search!Spec
<1> QED BY <1>2

-----------------------------------------------------------------------------
(* QueueScripts                                                              *)

\* Every file is in a directory that is there, every directory in the queue's
DirsStand ==
  /\ \A j \in Job : place[j] \in Scripts!JobDirs => place[j] \in dirs
  /\ "queue" \notin dirs => dirs = {}
  /\ shPc = "make" => "queue" \in dirs
  /\ shPc = "unlink" => dir \in Scripts!StateDirs
  /\ shPc = "removed" => dirs = {}

\* A manager stores a job under a name that it still has, unless rm took it
HandsHold == \A j \in Job : hand[j] # "none" => place[j] \in {hand[j], "gone"}

\* No incomplete job is in a directory that was counted, unless it came back
CountedNone ==
  shPc = "count" /\ active = {} =>
    \A j \in Job, i \in 1..4 : i < shS /\ place[j] = Scripts!RmStates[i] => came[j]

\* The inductive invariant of the scripts and the files of a queue
ShInv ==
  Scripts!TypeOK /\ DirsStand /\ HandsHold /\ CountedNone /\ AskedUnlessBack

\* The directories, by name
LEMMA ShStates ==
  /\ Scripts!StateDirs = {"hold", "pend", "run", "tied", "kill", "done"}
  /\ Scripts!JobDirs = {"hold", "pend", "run", "tied", "done"}
  /\ Scripts!Incomplete = {"hold", "pend", "run", "tied"}
<1>1. Scripts!StateDirs = {"hold", "pend", "run", "tied", "kill", "done"}
  BY DEF Scripts!StateDirs, Scripts!MkStates, Scripts!Range
<1> QED BY <1>1 DEF Scripts!JobDirs, Scripts!Incomplete

\* The order in which rmjobq counts
LEMMA RmStatesAre ==
  /\ Len(Scripts!RmStates) = 5
  /\ Scripts!RmStates[1] = "hold" /\ Scripts!RmStates[2] = "pend" /\ Scripts!RmStates[3] = "run"
  /\ Scripts!RmStates[4] = "tied" /\ Scripts!RmStates[5] = "done"
BY DEF Scripts!RmStates

\* The order in which mkjobq makes them
LEMMA MkStatesAre ==
  /\ Len(Scripts!MkStates) = 6
  /\ \A i \in 1..6 : Scripts!MkStates[i] \in Scripts!StateDirs
<1>1. Len(Scripts!MkStates) = 6 /\ DOMAIN Scripts!MkStates = 1..6
  BY DEF Scripts!MkStates
<1> QED BY <1>1 DEF Scripts!StateDirs, Scripts!Range

\* There is no queue at first.
LEMMA ShInit ==
  ASSUME Scripts!Init PROVE ShInv
<1>1. /\ place \in [Job -> Scripts!JobDirs \cup {"new", "gone"}]
      /\ hand \in [Job -> Scripts!JobDirs \cup {"none"}]
      /\ came \in [Job -> BOOLEAN]
      /\ todo \in Seq(Scripts!StateDirs)
  BY DEF Scripts!Init
<1>2. /\ dirs = {} /\ conf = FALSE /\ shPc = "idle" /\ shS = 1 /\ active = {}
      /\ asks = FALSE /\ dir = "none" /\ names = {}
      /\ \A j \in Job : place[j] = "new" /\ hand[j] = "none"
  BY DEF Scripts!Init
<1>3. Scripts!TypeOK
  <2>1. dirs \in SUBSET ({"queue"} \cup Scripts!StateDirs) /\ names \in SUBSET Job
    BY <1>2
  <2>2. dir \in Scripts!StateDirs \cup {"none"} /\ conf \in BOOLEAN /\ asks \in BOOLEAN
    BY <1>2
  <2>3. shPc \in {"idle", "make", "count", "rm", "unlink", "removed", "failed"}
    BY <1>2
  <2>4. shS \in 1..7 /\ active \in SUBSET Job
    BY <1>2
  <2> QED BY <1>1, <2>1, <2>2, <2>3, <2>4 DEF Scripts!TypeOK
<1>4. DirsStand
  BY <1>2, ShStates DEF DirsStand
<1>5. HandsHold /\ CountedNone /\ AskedUnlessBack
  BY <1>2 DEF HandsHold, CountedNone, AskedUnlessBack, Scripts!AskedUnlessBack
<1> QED BY <1>3, <1>4, <1>5 DEF ShInv

-----------------------------------------------------------------------------

\* What mkjob and the managers do to one job: its file goes to where there is a
\* directory, and goes back to be incomplete only with a note of it.
LEMMA JobKeeps ==
  ASSUME ShInv, UNCHANGED Scripts!scriptVars, NEW j \in Job,
         NEW x \in Scripts!JobDirs \cup {"new", "gone"}, place' = [place EXCEPT ![j] = x],
         NEW h \in Scripts!JobDirs \cup {"none"}, hand' = [hand EXCEPT ![j] = h],
         NEW b \in BOOLEAN, came' = [came EXCEPT ![j] = b], came[j] => b,
         x \in Scripts!JobDirs => x \in dirs,
         h # "none" => x \in {h, "gone"},
         \A i \in 1..4 : x = Scripts!RmStates[i] /\ ~b =>
           \E k \in 1..i : place[j] = Scripts!RmStates[k]
  PROVE  ShInv'
<1> USE DEF Scripts!scriptVars, Scripts!rmVars
<1>0. /\ place \in [Job -> Scripts!JobDirs \cup {"new", "gone"}]
      /\ hand \in [Job -> Scripts!JobDirs \cup {"none"}]
      /\ came \in [Job -> BOOLEAN]
      /\ shS \in 1..7
  BY DEF ShInv, Scripts!TypeOK
<1>1. \A k \in Job : /\ place'[k] = IF k = j THEN x ELSE place[k]
                     /\ hand'[k] = IF k = j THEN h ELSE hand[k]
                     /\ came'[k] = IF k = j THEN b ELSE came[k]
  BY <1>0
<1>2. Scripts!TypeOK'
  <2>1. /\ place' \in [Job -> Scripts!JobDirs \cup {"new", "gone"}]
        /\ hand' \in [Job -> Scripts!JobDirs \cup {"none"}]
        /\ came' \in [Job -> BOOLEAN]
    BY <1>0
  <2> QED BY <2>1 DEF ShInv, Scripts!TypeOK
<1>3. DirsStand'
  BY <1>1 DEF ShInv, DirsStand
<1>4. HandsHold'
  BY <1>1 DEF ShInv, HandsHold
<1>5. CountedNone'
  <2> SUFFICES ASSUME shPc = "count", active = {}, NEW k \in Job, NEW i \in 1..4,
                      i < shS, place'[k] = Scripts!RmStates[i]
               PROVE  came'[k]
    BY DEF CountedNone
  <2>1. CASE k = j /\ ~b
    <3>1. PICK l \in 1..i : place[j] = Scripts!RmStates[l]
      BY <1>1, <2>1
    <3>2. l \in 1..4 /\ l < shS
      BY <1>0
    <3> QED BY <2>1, <3>1, <3>2 DEF ShInv, CountedNone
  <2>2. CASE k # j
    BY <1>1, <2>2 DEF ShInv, CountedNone
  <2> QED BY <1>1, <2>1, <2>2
<1>6. AskedUnlessBack'
  <2> SUFFICES ASSUME shPc \in {"rm", "unlink"}, ~asks, NEW k \in Job,
                      place'[k] \in Scripts!Incomplete
               PROVE  came'[k]
    BY DEF AskedUnlessBack, Scripts!AskedUnlessBack
  <2>0. \A l \in Job : place[l] \in Scripts!Incomplete => came[l]
    BY DEF ShInv, AskedUnlessBack, Scripts!AskedUnlessBack
  <2>1. CASE k = j /\ ~b
    <3>1. PICK i \in 1..4 : x = Scripts!RmStates[i]
      BY <1>1, <2>1, RmStatesAre, ShStates
    <3>2. PICK l \in 1..i : place[j] = Scripts!RmStates[l]
      BY <2>1, <3>1
    <3>3. place[j] \in Scripts!Incomplete
      BY <3>2, RmStatesAre, ShStates
    <3> QED BY <2>0, <2>1, <3>3
  <2>2. CASE k # j
    BY <1>1, <2>0, <2>2
  <2> QED BY <1>1, <2>1, <2>2
<1> QED BY <1>2, <1>3, <1>4, <1>5, <1>6 DEF ShInv

\* A job's file goes on, or from run back to pend.
LEMMA ForwardLater ==
  ASSUME NEW e \in Scripts!Forward
  PROVE  /\ e[1] \in Scripts!JobDirs /\ e[2] \in Scripts!JobDirs
         /\ \A i \in 1..4 : e[2] = Scripts!RmStates[i] =>
              \E k \in 1..i : e[1] = Scripts!RmStates[k]
BY RmStatesAre, ShStates DEF Scripts!Forward

\* Submission and the managers keep the invariant.
LEMMA WorkKeeps ==
  ASSUME ShInv, NEW j \in Job, Scripts!Work(j) PROVE ShInv'
<1>0. /\ place \in [Job -> Scripts!JobDirs \cup {"new", "gone"}]
      /\ hand \in [Job -> Scripts!JobDirs \cup {"none"}]
      /\ came \in [Job -> BOOLEAN]
      /\ \A k \in Job : place[k] \in Scripts!JobDirs => place[k] \in dirs
      /\ hand[j] # "none" => place[j] \in {hand[j], "gone"}
  BY DEF ShInv, Scripts!TypeOK, DirsStand, HandsHold
<1>1. place = [place EXCEPT ![j] = place[j]] /\ hand = [hand EXCEPT ![j] = hand[j]]
      /\ came = [came EXCEPT ![j] = came[j]]
  BY <1>0
<1>2. CASE Scripts!Submit(j)
  <2>1. /\ place' = [place EXCEPT ![j] = "hold"] /\ came' = [came EXCEPT ![j] = TRUE]
        /\ hand' = hand /\ UNCHANGED Scripts!scriptVars /\ "hold" \in dirs
        /\ place[j] = "new"
    BY <1>2 DEF Scripts!Submit
  <2>2. hand[j] = "none"
    BY <1>0, <2>1, ShStates
  <2> QED BY <1>0, <1>1, <2>1, <2>2, JobKeeps, ShStates
<1>3. CASE Scripts!MovesOn(j)
  <2>1. PICK e \in Scripts!Forward :
          /\ place[j] = e[1]
          /\ \/ e[2] \in dirs /\ place' = [place EXCEPT ![j] = e[2]]
             \/ e[1] = "hold" /\ e[2] \notin dirs /\ place' = [place EXCEPT ![j] = "gone"]
    BY <1>3 DEF Scripts!MovesOn
  <2>2. PICK x : /\ place' = [place EXCEPT ![j] = x]
                 /\ (x \in dirs /\ x = e[2]) \/ x = "gone"
    BY <2>1
  <2>3. hand' = hand /\ came' = came /\ UNCHANGED Scripts!scriptVars /\ hand[j] = "none"
    BY <1>3 DEF Scripts!MovesOn
  <2>4. /\ x \in Scripts!JobDirs \cup {"new", "gone"}
        /\ x \in Scripts!JobDirs => x \in dirs
        /\ \A i \in 1..4 : x = Scripts!RmStates[i] =>
             \E k \in 1..i : place[j] = Scripts!RmStates[k]
    BY <2>1, <2>2, ForwardLater, RmStatesAre, ShStates
  <2>5. came[j] \in BOOLEAN /\ hand[j] \in Scripts!JobDirs \cup {"none"}
    BY <1>0
  <2> QED BY <1>1, <2>2, <2>3, <2>4, <2>5, JobKeeps
<1>4. CASE Scripts!GoesBack(j)
  <2>1. /\ place' = [place EXCEPT ![j] = "pend"] /\ came' = [came EXCEPT ![j] = TRUE]
        /\ hand' = hand /\ UNCHANGED Scripts!scriptVars /\ "pend" \in dirs
        /\ hand[j] = "none"
    BY <1>4 DEF Scripts!GoesBack
  <2> QED BY <1>0, <1>1, <2>1, JobKeeps, ShStates
<1>5. CASE Scripts!Purged(j)
  <2>1. /\ place' = [place EXCEPT ![j] = "gone"] /\ came' = came
        /\ hand' = hand /\ UNCHANGED Scripts!scriptVars
        /\ hand[j] = "none"
    BY <1>5 DEF Scripts!Purged
  <2>2. \A i \in 1..4 : "gone" # Scripts!RmStates[i]
    BY RmStatesAre
  <2>3. came[j] \in BOOLEAN /\ "gone" \notin Scripts!JobDirs
    BY <1>0, ShStates
  <2> QED BY <1>0, <1>1, <2>1, <2>2, <2>3, JobKeeps
<1>6. CASE Scripts!Loads(j)
  <2>1. /\ place' = place /\ came' = came /\ UNCHANGED Scripts!scriptVars
        /\ hand' = [hand EXCEPT ![j] = place[j]] /\ place[j] \in Scripts!JobDirs
    BY <1>6 DEF Scripts!Loads
  <2>2. came[j] \in BOOLEAN /\ place[j] \in dirs
    BY <1>0, <2>1
  <2>3. \A i \in 1..4 : place[j] = Scripts!RmStates[i] =>
          \E k \in 1..i : place[j] = Scripts!RmStates[k]
    OBVIOUS
  <2> QED BY <1>1, <2>1, <2>2, <2>3, JobKeeps
<1>7. CASE Scripts!Stores(j)
  <2>1. /\ hand[j] # "none" /\ hand' = [hand EXCEPT ![j] = "none"]
        /\ place' = IF hand[j] \in dirs THEN [place EXCEPT ![j] = hand[j]] ELSE place
        /\ came' = [came EXCEPT ![j] = came[j] \/ place[j] = "gone"]
        /\ UNCHANGED Scripts!scriptVars
    BY <1>7 DEF Scripts!Stores
  <2>2. PICK x \in {hand[j], place[j]} : /\ place' = [place EXCEPT ![j] = x]
                                         /\ x \in Scripts!JobDirs => x \in dirs
    BY <1>0, <1>1, <2>1
  <2>3. x \in Scripts!JobDirs \cup {"new", "gone"} /\ (x = place[j] \/ place[j] = "gone")
    BY <1>0, <2>1, <2>2
  <2>4. PICK b \in BOOLEAN : b = (came[j] \/ place[j] = "gone")
    BY <1>0
  <2>5. came' = [came EXCEPT ![j] = b] /\ (came[j] => b) /\ (~b => x = place[j])
    BY <2>1, <2>3, <2>4
  <2>6. \A i \in 1..4 : x = Scripts!RmStates[i] /\ ~b =>
          \E k \in 1..i : place[j] = Scripts!RmStates[k]
    BY <2>5
  <2> QED BY <2>1, <2>2, <2>3, <2>5, <2>6, JobKeeps
<1> QED
  BY <1>2, <1>3, <1>4, <1>5, <1>6, <1>7 DEF Scripts!Work

-----------------------------------------------------------------------------

\* A step of a script that moves no file keeps what is said of files and of the
\* count, if the directories of files stay.
LEMMA ScriptKeeps ==
  ASSUME ShInv, Scripts!TypeOK', UNCHANGED <<place, hand>>,
         \A j \in Job : place[j] \in Scripts!JobDirs /\ place[j] \in dirs => place[j] \in dirs',
         "queue" \notin dirs' => dirs' = {},
         shPc' = "make" => "queue" \in dirs',
         shPc' = "unlink" => dir' \in Scripts!StateDirs,
         shPc' = "removed" => dirs' = {},
         CountedNone', AskedUnlessBack'
  PROVE  ShInv'
<1>1. DirsStand'
  BY DEF ShInv, DirsStand
<1>2. HandsHold'
  BY DEF ShInv, HandsHold
<1> QED BY <1>1, <1>2 DEF ShInv

\* mkjobq keeps the invariant.
LEMMA MakeKeeps ==
  ASSUME ShInv, Scripts!Make PROVE ShInv'
<1> USE DEF Scripts!jobVars, Scripts!rmVars
<1>0. DirsStand /\ Scripts!TypeOK
  BY DEF ShInv
<1>1. CASE Scripts!MakeQueue
  <2>1. Scripts!TypeOK'
    BY <1>0, <1>1 DEF Scripts!MakeQueue, Scripts!TypeOK
  <2>2. CountedNone' /\ AskedUnlessBack'
    BY <1>1 DEF Scripts!MakeQueue, CountedNone, AskedUnlessBack, Scripts!AskedUnlessBack
  <2>3. dirs = {}
    BY <1>0, <1>1 DEF DirsStand, Scripts!MakeQueue
  <2> QED BY <1>1, <2>1, <2>2, <2>3, ScriptKeeps DEF Scripts!MakeQueue
<1>2. CASE Scripts!MakeState
  <2>1. shS \in 1..6 /\ Scripts!MkStates[shS] \in Scripts!StateDirs
    BY <1>0, <1>2, MkStatesAre DEF Scripts!MakeState, Scripts!TypeOK
  <2>2. Scripts!TypeOK'
    <3>1. dirs' \in SUBSET ({"queue"} \cup Scripts!StateDirs) /\ shS' \in 1..7
      <4>1. PICK d \in Scripts!StateDirs : dirs' = dirs \cup {d}
        BY <1>2, <2>1 DEF Scripts!MakeState
      <4>2. dirs \subseteq {"queue"} \cup Scripts!StateDirs /\ shS' = shS + 1
        BY <1>0, <1>2 DEF Scripts!MakeState, Scripts!TypeOK
      <4>3. dirs' \subseteq {"queue"} \cup Scripts!StateDirs
        BY <4>1, <4>2
      <4>4. shS' \in 1..7
        BY <2>1, <4>2
      <4> QED BY <4>3, <4>4
    <3>2. UNCHANGED <<conf, shPc, place, hand, came, active, asks, dir, names, todo>>
      BY <1>2 DEF Scripts!MakeState
    <3> QED BY <1>0, <3>1, <3>2 DEF Scripts!TypeOK
  <2>3. CountedNone' /\ AskedUnlessBack'
    BY <1>2 DEF Scripts!MakeState, CountedNone, AskedUnlessBack, Scripts!AskedUnlessBack
  <2> QED BY <1>0, <1>2, <2>2, <2>3, ScriptKeeps DEF Scripts!MakeState, DirsStand
<1>3. CASE Scripts!MakeConf
  <2>1. Scripts!TypeOK'
    BY <1>0, <1>3 DEF Scripts!MakeConf, Scripts!TypeOK
  <2>2. CountedNone' /\ AskedUnlessBack'
    BY <1>3 DEF Scripts!MakeConf, CountedNone, AskedUnlessBack, Scripts!AskedUnlessBack
  <2> QED BY <1>0, <1>3, <2>1, <2>2, ScriptKeeps DEF Scripts!MakeConf, DirsStand
<1> QED BY <1>1, <1>2, <1>3 DEF Scripts!Make

\* rmjobq keeps the invariant.
LEMMA RemovalKeeps ==
  ASSUME Scripts!QueueScriptsAssumption, ShInv, Scripts!Removal PROVE ShInv'
<1> USE DEF Scripts!jobVars, Scripts!rmVars
<1>0. DirsStand /\ Scripts!TypeOK /\ CountedNone /\ AskedUnlessBack
  BY DEF ShInv
<1>1. CASE Scripts!StartCount
  <2>1. Scripts!TypeOK'
    <3>1. came' \in [Job -> BOOLEAN]
      BY <1>1 DEF Scripts!StartCount
    <3>2. shPc' = "count" /\ shS' = 1 /\ active' = {}
      BY <1>1 DEF Scripts!StartCount
    <3>3. UNCHANGED <<dirs, conf, place, hand, asks, dir, names, todo>>
      BY <1>1 DEF Scripts!StartCount
    <3> QED BY <1>0, <3>1, <3>2, <3>3 DEF Scripts!TypeOK
  <2>2. CountedNone' /\ AskedUnlessBack'
    BY <1>1 DEF Scripts!StartCount, CountedNone, AskedUnlessBack, Scripts!AskedUnlessBack
  <2> QED BY <1>0, <1>1, <2>1, <2>2, ScriptKeeps DEF Scripts!StartCount, DirsStand
<1>2. CASE Scripts!Count
  <2> DEFINE d == Scripts!RmStates[shS]
             here == {j \in Job : place[j] = d}
  <2>1. shS \in 1..5 /\ shS' = shS + 1 /\ active \in SUBSET Job
    BY <1>0, <1>2, RmStatesAre DEF Scripts!Count, Scripts!TypeOK
  <2>2. active' = IF d = "done" THEN active ELSE active \cup here
    BY <1>2 DEF Scripts!Count, Scripts!Files
  <2>3. shPc = "count" /\ UNCHANGED <<dirs, conf, shPc, asks, dir, names, todo, place, hand, came>>
    BY <1>2 DEF Scripts!Count
  <2>4. Scripts!TypeOK'
    <3>1. active' \in SUBSET Job /\ shS' \in 1..7
      BY <2>1, <2>2
    <3> QED BY <1>0, <2>3, <3>1 DEF Scripts!TypeOK
  <2>5. CountedNone'
    <3> SUFFICES ASSUME active' = {}, NEW j \in Job, NEW i \in 1..4,
                        i < shS + 1, place[j] = Scripts!RmStates[i]
                 PROVE  came[j]
      BY <2>1, <2>3 DEF CountedNone
    <3>1. active = {} /\ (d = "done" \/ here = {})
      BY <2>2
    <3>2. CASE i < shS
      BY <1>0, <2>3, <3>1, <3>2 DEF CountedNone
    <3>3. CASE i = shS
      BY <3>1, <3>3, RmStatesAre
    <3> QED BY <2>1, <3>2, <3>3
  <2>6. AskedUnlessBack'
    BY <2>3 DEF AskedUnlessBack, Scripts!AskedUnlessBack
  <2> QED BY <1>0, <2>3, <2>4, <2>5, <2>6, ScriptKeeps DEF DirsStand
<1>3. CASE Scripts!Decide
  <2>1. todo' \in Seq(Scripts!StateDirs) /\ shPc' \in {"rm", "idle"} /\ active' = {}
    BY <1>0, <1>3 DEF Scripts!Decide, Scripts!TypeOK, Scripts!QueueScriptsAssumption
  <2>2. Scripts!TypeOK'
    BY <1>0, <1>3, <2>1 DEF Scripts!Decide, Scripts!TypeOK
  <2>3. CountedNone'
    BY <2>1 DEF CountedNone
  <2>4. AskedUnlessBack'
    <3> SUFFICES ASSUME ~asks', NEW j \in Job, place[j] \in Scripts!Incomplete
                 PROVE  came[j]
      BY <1>3 DEF AskedUnlessBack, Scripts!AskedUnlessBack, Scripts!Decide
    <3>1. shPc = "count" /\ active = {} /\ shS > 5
      BY <1>3, RmStatesAre DEF Scripts!Decide
    <3>2. PICK i \in 1..4 : place[j] = Scripts!RmStates[i]
      BY RmStatesAre, ShStates
    <3>3. i < shS
      BY <1>0, <3>1 DEF Scripts!TypeOK
    <3> QED BY <1>0, <3>1, <3>2, <3>3 DEF CountedNone
  <2> QED BY <1>0, <1>3, <2>1, <2>2, <2>3, <2>4, ScriptKeeps DEF Scripts!Decide, DirsStand
<1>4. CASE Scripts!ReadDir
  <2>1. dir' \in Scripts!StateDirs /\ todo' \in Seq(Scripts!StateDirs) /\ names' \in SUBSET Job
    BY <1>0, <1>4 DEF Scripts!ReadDir, Scripts!TypeOK, Scripts!Files
  <2>2. Scripts!TypeOK'
    BY <1>0, <1>4, <2>1 DEF Scripts!ReadDir, Scripts!TypeOK
  <2>3. CountedNone' /\ AskedUnlessBack'
    BY <1>0, <1>4 DEF Scripts!ReadDir, CountedNone, AskedUnlessBack, Scripts!AskedUnlessBack
  <2> QED BY <1>0, <1>4, <2>1, <2>2, <2>3, ScriptKeeps DEF Scripts!ReadDir, DirsStand
<1>5. CASE Scripts!Unlink
  <2>1. PICK j \in names : /\ names' = names \ {j}
                           /\ place' = IF place[j] = dir THEN [place EXCEPT ![j] = "gone"] ELSE place
    BY <1>5 DEF Scripts!Unlink
  <2>2. /\ shPc = "unlink" /\ j \in Job
        /\ UNCHANGED <<dirs, conf, hand, came, shPc, shS, active, asks, dir, todo>>
    BY <1>0, <1>5 DEF Scripts!Unlink, Scripts!TypeOK
  <2>3. /\ place \in [Job -> Scripts!JobDirs \cup {"new", "gone"}]
        /\ place' \in [Job -> Scripts!JobDirs \cup {"new", "gone"}]
        /\ \A k \in Job : place'[k] = place[k] \/ place'[k] = "gone"
    BY <1>0, <2>1 DEF Scripts!TypeOK
  <2>4. Scripts!TypeOK'
    BY <1>0, <2>1, <2>2, <2>3 DEF Scripts!TypeOK
  <2>5. DirsStand' /\ CountedNone'
    BY <1>0, <2>2, <2>3, ShStates DEF DirsStand, CountedNone
  <2>6. HandsHold'
    BY <2>2, <2>3 DEF ShInv, HandsHold
  <2>7. AskedUnlessBack'
    BY <1>0, <2>2, <2>3, ShStates DEF AskedUnlessBack, Scripts!AskedUnlessBack
  <2> QED BY <2>4, <2>5, <2>6, <2>7 DEF ShInv
<1>6. CASE Scripts!RemoveDir
  <2>1. /\ dirs' = dirs \/ (dirs' = dirs \ {dir} /\ \A j \in Job : place[j] # dir)
        /\ dir \in Scripts!StateDirs /\ dir # "queue"
    BY <1>0, <1>6, ShStates DEF Scripts!RemoveDir, Scripts!Files, DirsStand
  <2>2. Scripts!TypeOK'
    BY <1>0, <1>6, <2>1 DEF Scripts!RemoveDir, Scripts!TypeOK
  <2>3. CountedNone' /\ AskedUnlessBack'
    BY <1>0, <1>6 DEF Scripts!RemoveDir, CountedNone, AskedUnlessBack, Scripts!AskedUnlessBack
  <2>4. "queue" \notin dirs' => dirs' = {}
    BY <1>0, <2>1 DEF DirsStand
  <2> QED BY <1>0, <1>6, <2>1, <2>2, <2>3, <2>4, ScriptKeeps DEF Scripts!RemoveDir, DirsStand
<1>7. CASE Scripts!RemoveQueue
  <2>1. /\ dirs' = dirs \/ (dirs = {"queue"} /\ dirs' = {})
        /\ shPc' \in {"removed", "failed"} /\ (shPc' = "removed" => dirs' = {})
    BY <1>7 DEF Scripts!RemoveQueue, Scripts!EndOf
  <2>2. Scripts!TypeOK'
    BY <1>0, <1>7, <2>1 DEF Scripts!RemoveQueue, Scripts!TypeOK
  <2>3. CountedNone' /\ AskedUnlessBack'
    BY <2>1 DEF CountedNone, AskedUnlessBack, Scripts!AskedUnlessBack
  <2> QED BY <1>0, <1>7, <2>1, <2>2, <2>3, ScriptKeeps, ShStates DEF Scripts!RemoveQueue, DirsStand
<1>8. CASE Scripts!Exit
  <2>1. Scripts!TypeOK'
    BY <1>0, <1>8 DEF Scripts!Exit, Scripts!TypeOK
  <2>2. CountedNone' /\ AskedUnlessBack'
    BY <1>8 DEF Scripts!Exit, CountedNone, AskedUnlessBack, Scripts!AskedUnlessBack
  <2> QED BY <1>0, <1>8, <2>1, <2>2, ScriptKeeps DEF Scripts!Exit, DirsStand
<1> QED
  BY <1>1, <1>2, <1>3, <1>4, <1>5, <1>6, <1>7, <1>8 DEF Scripts!Removal

\* Every step of the scripts, mkjob and the managers keeps the invariant.
LEMMA ShNext ==
  ASSUME Scripts!QueueScriptsAssumption, ShInv, [Scripts!Next]_(Scripts!vars)
  PROVE  ShInv'
<1>1. CASE UNCHANGED Scripts!vars
  BY <1>1 DEF Scripts!vars, ShInv, Scripts!TypeOK, DirsStand, HandsHold, CountedNone,
              AskedUnlessBack, Scripts!AskedUnlessBack
<1> QED BY <1>1, WorkKeeps, MakeKeeps, RemovalKeeps DEF Scripts!Next

\* For any jobs and however rm orders the directories: rmjobq does not begin to
\* remove without having asked while an incomplete job is in the queue, unless
\* the job came, or came back, after its directory had been counted.
THEOREM AskedSafe == Scripts!QueueScriptsAssumption => (Scripts!Spec => []AskedUnlessBack)
<1>1. ShInv => AskedUnlessBack
  BY DEF ShInv
<1>2. ASSUME Scripts!QueueScriptsAssumption PROVE Scripts!Spec => []AskedUnlessBack
  BY <1>1, <1>2, ShInit, ShNext, PTL DEF Scripts!Spec
<1> QED BY <1>2

\* A queue that rmjobq says is removed has no directory left, whatever was done
\* in it meanwhile.
THEOREM RemovedSafe == Scripts!QueueScriptsAssumption => (Scripts!Spec => []RemovedWhole)
<1>1. ShInv => RemovedWhole
  BY DEF ShInv, DirsStand, RemovedWhole, Scripts!RemovedWhole
<1>2. ASSUME Scripts!QueueScriptsAssumption PROVE Scripts!Spec => []RemovedWhole
  BY <1>1, <1>2, ShInit, ShNext, PTL DEF Scripts!Spec
<1> QED BY <1>2
-----------------------------------------------------------------------------
(* Strings                                                                   *)

\* Whatever someone types arrives, wherever it is cut in two.
THEOREM ArgsArriveSafe == [](typed \in Seq(STRING)) => []ArgsArrive
PROOF
  <1>1. typed \in Seq(STRING) => ArgsArrive
    <2>0. SUFFICES ASSUME typed \in Seq(STRING) PROVE ArgsArrive
      OBVIOUS
    <2>1. typed \in Text /\ Len(typed) \in Nat
      BY <2>0, TextsOfStrings, LenProperties
    <2>2. ASSUME NEW k \in 0..Len(typed)
          PROVE  ArgsKept(<<SubSeq(typed, 1, k), SubSeq(typed, k + 1, Len(typed))>>)
      <3> DEFINE x == SubSeq(typed, 1, k)
                 y == SubSeq(typed, k + 1, Len(typed))
      <3>1. x \in Text /\ y \in Text
        BY <2>1, SubText
      <3> HIDE DEF x, y
      <3>2. <<x, y>> \in Seq(Text)
        BY <3>1
      <3>3. ArgsKept(<<x, y>>)
        BY <3>2, ArgsAreRead
      <3> QED BY <3>3 DEF x, y
    <2>3. QqSafe(typed)
      BY <2>0, QqSafeForAll
    <2>4. \A d \in Text : d # <<>> => SplitsWhole(typed, d)
      BY <2>1, SplitAndJoin
    <2>5. <<SP>> \in Text /\ <<SP>> # <<>> /\ <<"a", SP>> \in Text /\ <<"a", SP>> # <<>>
      <3>1. SP \in Char /\ "a" \in Char
        BY CharFacts
      <3> QED BY <3>1 DEF Text
    <2>6. SplitsWhole(typed, <<SP>>) /\ SplitsWhole(typed, <<"a", SP>>)
      BY <2>4, <2>5
    <2> QED BY <2>2, <2>3, <2>6 DEF ArgsArrive
  <1> QED BY <1>1, PTL
-----------------------------------------------------------------------------
(* Logger                                                                    *)

\* Messages, in texts of the lemmas about strings.
LogValue ==
  [type : {"status", "text", "number", "bool", "char", "double", "pointer"}, text : Text, num : Text]
LogMessage ==
  [level : {"silent", "always", "fatal", "error", "warn", "info", "verbose", "debug", "dump"},
   format : Text, args : Seq(LogValue)]
SaidType == [n : Nat, read : Nat, text : Text]

\* The logger finds as everyone does.
LEMMA LogFind == \A s, d, b : Log!Find(s, d, b) = Find(s, d, b)
  BY DEF Log!Find, Find

\* The characters that a format gives a meaning to.
LEMMA PercentFacts ==
  Log!Percent \in Char /\ Log!Escape \in Char /\ "#" \in Char
  BY Zenon DEF Log!Percent, Log!Escape, Char

LEMMA ShownType ==
  ASSUME NEW v \in LogValue, NEW c \in Text
  PROVE  Log!Shown(v, c) \in Text
PROOF
  <1> DEFINE hashes == [k \in DOMAIN c |-> "#"]
  <1>1. hashes \in Text
    <2>1. Len(c) \in Nat /\ DOMAIN c = 1..Len(c)
      BY LenProperties DEF Text
    <2>2. hashes \in [1..Len(c) -> Char]
      BY <2>1, PercentFacts
    <2> HIDE DEF hashes
    <2> QED BY <2>1, <2>2, SeqDef DEF Text
  <1>2. v.text \in Text /\ v.num \in Text
    BY DEF LogValue
  <1> HIDE DEF hashes
  <1>3. \/ Log!Shown(v, c) = hashes \/ Log!Shown(v, c) = v.text \/ Log!Shown(v, c) = v.num
    BY DEF Log!Shown, hashes
  <1> QED BY <1>1, <1>2, <1>3

LEMMA SaidIs ==
  ASSUME NEW n \in Nat, NEW r \in Nat, NEW t \in Text
  PROVE  /\ Log!Said(n, r, t) \in SaidType
         /\ Log!Said(n, r, t).n = n /\ Log!Said(n, r, t).read = r /\ Log!Said(n, r, t).text = t
  BY DEF Log!Said, SaidType

LEMMA SaysNextType ==
  ASSUME NEW m \in LogMessage, NEW said \in SaidType, NEW k \in 1..Len(m.format)
  PROVE  Log!SaysNext(m, said, k) \in SaidType
PROOF
  <1>0. /\ m.format \in Text /\ Len(m.format) \in Nat /\ m.format[k] \in Char
        /\ m.args \in Seq(LogValue) /\ Len(m.args) \in Nat
        /\ said.n \in Nat /\ said.read \in Nat /\ said.text \in Text
    <2>1. m.format \in Text /\ m.args \in Seq(LogValue)
      BY DEF LogMessage
    <2>2. said.n \in Nat /\ said.read \in Nat /\ said.text \in Text
      BY DEF SaidType
    <2> QED BY <2>1, <2>2, LenProperties, ElementOfSeq DEF Text
  <1>1. CASE k <= said.read
    <2>1. ~(k > said.read)
      BY <1>0, <1>1
    <2> QED BY <1>1, <2>1 DEF Log!SaysNext
  <1> DEFINE conv == k < Len(m.format) /\ m.format[k] = Log!Percent /\ said.n < Len(m.args)
             chunk == SubSeq(m.format, k, k + 1)
             shown == Log!Shown(m.args[said.n + 1], chunk)
  <1>2. CASE ~(k <= said.read) /\ conv
    <2>1. chunk \in Text
      <3>1. k \in Nat \ {0} /\ k + 1 \in Nat /\ k + 1 <= Len(m.format) /\ k <= (k + 1) + 1
        BY <1>0, <1>2
      <3> QED BY <1>0, <3>1, SubText
    <2>2. m.args[said.n + 1] \in LogValue
      BY <1>0, <1>2, ElementOfSeq
    <2>3. shown \in Text
      <3> HIDE DEF chunk
      <3> QED BY <2>1, <2>2, ShownType
    <2> HIDE DEF shown
    <2>4. said.text \o shown \in Text
      BY <1>0, <2>3, Concat
    <2>5. Log!SaysNext(m, said, k) = Log!Said(said.n + 1, k + 1, said.text \o shown)
      BY <1>0, <1>2 DEF Log!SaysNext, shown
    <2>6. PICK t \in Text : t = said.text \o shown
      BY <2>4
    <2> QED BY <1>0, <2>5, <2>6, SaidIs
  <1>3. CASE ~(k <= said.read) /\ ~conv
    <2>1. Log!SaysNext(m, said, k) = Log!Said(said.n, k, Append(said.text, m.format[k]))
      <3>1. ~(k > said.read /\ k < Len(m.format) /\ m.format[k] = Log!Percent /\ said.n < Len(m.args))
        BY <1>3
      <3> QED BY <1>3, <3>1 DEF Log!SaysNext
    <2>2. PICK t \in Text : t = Append(said.text, m.format[k])
      BY <1>0, AppendText
    <2> QED BY <1>0, <2>1, <2>2, SaidIs
  <1> QED BY <1>1, <1>2, <1>3

\* What a message says, place by place.
LEMMA SayLoop ==
  ASSUME NEW m \in LogMessage
  PROVE  /\ \A k \in 0..Len(m.format) : Log!Saying(m, k) \in SaidType
         /\ Log!Saying(m, 0) = Log!Said(0, 0, <<>>)
         /\ \A k \in 1..Len(m.format) :
              Log!Saying(m, k) = Log!SaysNext(m, Log!Saying(m, k - 1), k)
PROOF
  <1> DEFINE len == Len(m.format)
             s0 == Log!Said(0, 0, <<>>)
             Loop(f) == f = [k \in 0..Len(m.format) |->
                              IF k = 0 THEN Log!Said(0, 0, <<>>) ELSE Log!SaysNext(m, f[k - 1], k)]
             step == [x \in (1..len) \X SaidType |-> Log!SaysNext(m, x[2], x[1])]
  <1>1. len \in Nat /\ s0 \in SaidType
    <2>1. <<>> \in Text /\ m.format \in Text
      BY EmptySeq DEF Text, LogMessage
    <2>2. PICK t \in Text : t = <<>>
      BY <2>1
    <2> QED BY <2>1, <2>2, SaidIs, LenProperties DEF Text
  <1>2. step \in [(1..len) \X SaidType -> SaidType]
    BY SaysNextType
  <1>3. PICK f \in [0..len -> SaidType] :
               f[0] = s0 /\ \A k \in 1..len : f[k] = step[<<k, f[k - 1]>>]
    <2> HIDE DEF step, s0, len
    <2>1. \E f : History(f, len, SaidType, s0, step)
      BY <1>1, <1>2, Iterates
    <2> QED BY <2>1 DEF History
  <1>4. ASSUME NEW k \in 1..len PROVE f[k] = Log!SaysNext(m, f[k - 1], k)
    <2>1. k - 1 \in 0..len
      BY <1>1
    <2>2. <<k, f[k - 1]>> \in (1..len) \X SaidType
      BY <1>3, <2>1
    <2> QED BY <1>3, <2>2
  <1>5. Loop(f)
    BY <1>3, <1>4
  <1> DEFINE at == CHOOSE g : Loop(g)
  <1>6. Loop(at)
    <2> HIDE DEF Loop
    <2> QED BY <1>5
  <1>7. \A k : Log!Saying(m, k) = at[k]
    BY DEF Log!Saying
  <1> HIDE DEF at
  <1>8. at[0] = s0 /\ \A k \in 1..len : at[k] = Log!SaysNext(m, at[k - 1], k)
    <2>1. at = [k \in 0..len |-> IF k = 0 THEN s0 ELSE Log!SaysNext(m, at[k - 1], k)]
      BY <1>6
    <2> HIDE DEF Loop, s0, len
    <2>2. \A k \in 0..len : at[k] = IF k = 0 THEN s0 ELSE Log!SaysNext(m, at[k - 1], k)
      BY <2>1
    <2>3. 0 \in 0..len /\ \A k \in 1..len : k \in 0..len /\ k # 0
      BY <1>1
    <2> QED BY <2>2, <2>3
  <1>9. \A k \in 0..len : at[k] = f[k]
    <2>1. Together(at, f, len)
      BY <1>3, <1>4, <1>8 DEF Together
    <2> QED BY <1>1, <2>1, SameHistory
  <1>10. \A k \in 0..len : at[k] \in SaidType
    BY <1>3, <1>9
  <1> QED BY <1>7, <1>8, <1>10

\* What a message says up to j, and from there on if there is no value or no
\* place for one.
LEMMA SayPlain ==
  ASSUME NEW m \in LogMessage, NEW j \in 0..Len(m.format), Log!Saying(m, j).read <= j,
         NEW e \in j..Len(m.format),
         Log!Saying(m, j).n < Len(m.args) => \A k \in (j + 1)..e : m.format[k] # Log!Percent
  PROVE  /\ Log!Saying(m, e).n = Log!Saying(m, j).n
         /\ Log!Saying(m, e).read <= e
         /\ Log!Saying(m, e).text = Log!Saying(m, j).text \o SubSeq(m.format, j + 1, e)
PROOF
  <1> DEFINE len == Len(m.format)
             sj == Log!Saying(m, j)
             Good(k) == LET sk == Log!Saying(m, k) IN
                        /\ sk.n = sj.n /\ sk.read <= k
                        /\ sk.text = sj.text \o SubSeq(m.format, j + 1, k)
             S == {n \in Nat : j + n <= e => Good(j + n)}
  <1>0. /\ m.format \in Text /\ len \in Nat /\ j \in Nat /\ e \in Nat /\ e <= len /\ Len(m.args) \in Nat
    BY LenProperties DEF LogMessage, Text
  <1>1. /\ sj \in SaidType /\ sj.n \in Nat /\ sj.read \in Nat /\ sj.text \in Text /\ sj.read <= j
        /\ sj.n < Len(m.args) => \A k \in (j + 1)..e : m.format[k] # Log!Percent
    BY SayLoop DEF SaidType
  <1> HIDE DEF sj
  <1>2. Good(j)
    <2>1. SubSeq(m.format, j + 1, j) = <<>>
      <3>1. j + 1 \in Nat /\ j < j + 1 /\ m.format \in Seq(Char)
        BY <1>0 DEF Text
      <3> QED BY <1>0, <3>1, SubEmpty
    <2>2. sj.text \o <<>> = sj.text
      BY <1>1, ConcatEmptySeq DEF Text
    <2> QED BY <1>1, <2>1, <2>2 DEF sj
  <1>3. ASSUME NEW k \in j..(e - 1), Good(k) PROVE Good(k + 1)
    <2> DEFINE sk == Log!Saying(m, k)
               sn == Log!Saying(m, k + 1)
    <2>0. /\ k \in Nat /\ k \in 0..len /\ k + 1 \in 1..len /\ (k + 1) - 1 = k
          /\ k + 1 \in (j + 1)..e /\ m.format[k + 1] \in Char
      <3>1. k + 1 \in 1..len
        BY <1>0
      <3> QED BY <1>0, <3>1, ElementOfSeq DEF Text
    <2>1. /\ sk.n \in Nat /\ sk.read \in Nat /\ sk.text \in Text
          /\ sk.n = sj.n /\ sk.read <= k /\ sk.text = sj.text \o SubSeq(m.format, j + 1, k)
      BY <1>3, <2>0, SayLoop DEF SaidType
    <2>2. sn = Log!SaysNext(m, sk, k + 1)
      BY <2>0, SayLoop
    <2> HIDE DEF sk, sn
    <2>3. sn = Log!Said(sk.n, k + 1, Append(sk.text, m.format[k + 1]))
      <3>1. ~(k + 1 <= sk.read)
        BY <2>0, <2>1
      <3>2. ~(/\ k + 1 > sk.read /\ k + 1 < Len(m.format) /\ m.format[k + 1] = Log!Percent
              /\ sk.n < Len(m.args))
        BY <1>1, <2>0, <2>1
      <3> QED BY <2>2, <3>1, <3>2 DEF Log!SaysNext
    <2>4. /\ sn.n = sk.n /\ sn.read = k + 1 /\ sn.text = Append(sk.text, m.format[k + 1])
      <3>1. PICK t \in Text : t = Append(sk.text, m.format[k + 1])
        BY <2>0, <2>1, AppendText
      <3>2. k + 1 \in Nat
        BY <2>0
      <3>3. sn = Log!Said(sk.n, k + 1, t)
        BY <2>3, <3>1
      <3>4. /\ Log!Said(sk.n, k + 1, t).n = sk.n /\ Log!Said(sk.n, k + 1, t).read = k + 1
            /\ Log!Said(sk.n, k + 1, t).text = t
        <4>1. PICK n \in Nat, r \in Nat : n = sk.n /\ r = k + 1
          BY <2>1, <3>2
        <4>2. Log!Said(n, r, t).n = n /\ Log!Said(n, r, t).read = r /\ Log!Said(n, r, t).text = t
          BY SaidIs
        <4> QED BY <4>1, <4>2
      <3> QED BY <3>1, <3>3, <3>4
    <2>5. Append(sk.text, m.format[k + 1]) = sj.text \o SubSeq(m.format, j + 1, k + 1)
      <3>1. /\ SubSeq(m.format, j + 1, k) \in Text
            /\ SubSeq(m.format, j + 1, k + 1) = Append(SubSeq(m.format, j + 1, k), m.format[k + 1])
        <4>1. /\ j + 1 \in Nat \ {0} /\ k \in Nat /\ k < len /\ j + 1 <= k + 1 /\ k + 1 \in Nat
              /\ k + 1 <= len /\ k <= len /\ j + 1 <= (k + 1) + 1
          BY <1>0, <2>0
        <4> DEFINE a == SubSeq(m.format, j + 1, k)
                   b == SubSeq(m.format, j + 1, k + 1)
        <4>2. /\ a \in Text /\ Len(a) = k - (j + 1) + 1
              /\ \A i \in 1..(k - (j + 1) + 1) : a[i] = m.format[(j + 1) + i - 1]
          BY <1>0, <4>1, SubText
        <4>3. /\ b \in Text /\ Len(b) = (k + 1) - (j + 1) + 1
              /\ \A i \in 1..((k + 1) - (j + 1) + 1) : b[i] = m.format[(j + 1) + i - 1]
          BY <1>0, <4>1, SubText
        <4> HIDE DEF a, b
        <4> DEFINE c == Append(a, m.format[k + 1])
        <4>4. /\ c \in Text /\ Len(c) = Len(a) + 1 /\ c[Len(a) + 1] = m.format[k + 1]
              /\ \A i \in 1..Len(a) : c[i] = a[i]
          <5>1. PICK x \in Char : x = m.format[k + 1]
            BY <2>0
          <5>2. a \in Seq(Char)
            BY <4>2 DEF Text
          <5> QED BY <5>1, <5>2, AppendProperties DEF Text
        <4> HIDE DEF c
        <4>5. Len(b) = Len(c)
          BY <4>1, <4>2, <4>3, <4>4
        <4>6. ASSUME NEW i \in 1..Len(b) PROVE b[i] = c[i]
          <5>1. i \in 1..((k + 1) - (j + 1) + 1)
            BY <4>3
          <5>2. CASE i \in 1..Len(a)
            BY <4>2, <4>3, <4>4, <5>1, <5>2
          <5>3. CASE i \notin 1..Len(a)
            <6>1. i = Len(a) + 1 /\ (j + 1) + i - 1 = k + 1
              BY <1>0, <2>0, <4>2, <4>3, <5>1, <5>3
            <6> QED BY <4>3, <4>4, <5>1, <6>1
          <5> QED BY <5>2, <5>3
        <4>7. b = c
          BY <4>3, <4>4, <4>5, <4>6, SeqEqual DEF Text
        <4> QED BY <4>2, <4>7 DEF a, b, c
      <3>2. PICK x \in Text, y \in Text : /\ x = SubSeq(m.format, j + 1, k)
                                          /\ y = <<m.format[k + 1]>>
        BY <2>0, <3>1, AppendText
      <3>3. Append(sj.text \o x, m.format[k + 1]) = (sj.text \o x) \o y /\ Append(x, m.format[k + 1]) = x \o y
        BY <1>1, <2>0, <3>2, AppendText, Concat
      <3>4. (sj.text \o x) \o y = sj.text \o (x \o y)
        BY <1>1, Assoc
      <3>5. sk.text = sj.text \o x
        BY <2>1, <3>2
      <3>6. SubSeq(m.format, j + 1, k + 1) = x \o y
        BY <3>1, <3>2, <3>3
      <3> QED BY <3>3, <3>4, <3>5, <3>6
    <2>6. /\ sn.n = sj.n /\ sn.read <= k + 1
          /\ sn.text = sj.text \o SubSeq(m.format, j + 1, k + 1)
      <3>1. sn.n = sj.n /\ sn.read <= k + 1
        <4>1. sn.read = k + 1 /\ sn.n = sk.n
          BY <2>4
        <4> QED BY <2>0, <2>1, <4>1
      <3>2. sn.text = sj.text \o SubSeq(m.format, j + 1, k + 1)
        BY <2>4, <2>5, Zenon
      <3> QED BY <3>1, <3>2
    <2> QED BY <2>6 DEF sn
  <1> HIDE DEF Good
  <1>4. 0 \in S
    BY <1>0, <1>2
  <1>5. ASSUME NEW n \in Nat, n \in S PROVE n + 1 \in S
    <2>1. SUFFICES ASSUME j + (n + 1) <= e PROVE Good(j + (n + 1))
      OBVIOUS
    <2>2. j + n \in j..(e - 1) /\ j + n <= e /\ (j + n) + 1 = j + (n + 1)
      BY <1>0, <2>1
    <2>3. Good(j + n)
      BY <1>5, <2>2
    <2>4. Good((j + n) + 1)
      BY <1>3, <2>2, <2>3
    <2> QED BY <2>2, <2>4
  <1> HIDE DEF S
  <1>6. Nat \subseteq S
    BY <1>4, <1>5, NatInd
  <1>7. e - j \in Nat /\ j + (e - j) = e /\ e <= e
    BY <1>0
  <1>8. Good(e)
    BY <1>6, <1>7 DEF S
  <1> QED BY <1>8 DEF Good, sj

\* What get_chunk() finds, if there is nothing in its way.
LEMMA ChunkIs ==
  ASSUME NEW s \in Text, NEW b \in Nat, NEW c1,
         Log!ChunkRound(Log!Chunk(s, b, 0, "on")) = c1, Log!ChunkRound(c1) = c1
  PROVE  Log!GetChunk(s, b) = c1
PROOF
  <1> DEFINE c0 == Log!Chunk(s, b, 0, "on")
             n == Len(s) + 1
             Loop(f) == f = [k \in 0..(Len(s) + 1) |->
                              IF k = 0 THEN Log!Chunk(s, b, 0, "on") ELSE Log!ChunkRound(f[k - 1])]
             f1 == [k \in 0..n |-> IF k = 0 THEN c0 ELSE c1]
  <1>1. n \in Nat /\ n # 0 /\ n \in 0..n
    BY LenProperties DEF Text
  <1>2. f1[0] = c0 /\ \A k \in 1..n : f1[k] = Log!ChunkRound(f1[k - 1])
    <2> HIDE DEF c0
    <2>1. \A k \in 1..n : k \in 0..n /\ k - 1 \in 0..n /\ k # 0
      BY <1>1
    <2>2. 0 \in 0..n
      BY <1>1
    <2>3. \A k \in 1..n : f1[k] = c1 /\ (f1[k - 1] = c0 \/ f1[k - 1] = c1)
      BY <2>1
    <2>4. Log!ChunkRound(c0) = c1
      BY DEF c0
    <2> HIDE DEF n
    <2> QED BY <2>2, <2>3, <2>4
  <1>3. Loop(f1)
    <2> HIDE DEF c0
    <2>1. \A k \in 0..n : f1[k] = IF k = 0 THEN c0 ELSE Log!ChunkRound(f1[k - 1])
      <3>1. \A k \in 0..n : k = 0 \/ k \in 1..n
        BY <1>1
      <3> HIDE DEF f1, n
      <3> QED BY <1>2, <3>1
    <2>2. f1 = [k \in 0..n |-> f1[k]]
      OBVIOUS
    <2> HIDE DEF f1
    <2>3. f1 = [k \in 0..n |-> IF k = 0 THEN c0 ELSE Log!ChunkRound(f1[k - 1])]
      BY <2>1, <2>2
    <2> QED BY <2>3 DEF c0
  <1> DEFINE at == CHOOSE g : Loop(g)
  <1>4. Loop(at)
    <2> HIDE DEF Loop, f1
    <2> QED BY <1>3
  <1>5. Log!GetChunk(s, b) = at[n]
    BY DEF Log!GetChunk
  <1> HIDE DEF at
  <1>6. at[0] = c0 /\ \A k \in 1..n : at[k] = Log!ChunkRound(at[k - 1])
    <2>1. at = [k \in 0..n |-> IF k = 0 THEN c0 ELSE Log!ChunkRound(at[k - 1])]
      BY <1>4
    <2> HIDE DEF Loop, c0
    <2>2. \A k \in 0..n : at[k] = IF k = 0 THEN c0 ELSE Log!ChunkRound(at[k - 1])
      BY <2>1
    <2>3. 0 \in 0..n /\ \A k \in 1..n : k \in 0..n /\ k # 0
      BY <1>1
    <2> HIDE DEF n
    <2> QED BY <2>2, <2>3
  <1> HIDE DEF f1, c0
  <1>7. \A k \in 0..n : at[k] = f1[k]
    <2>1. Together(at, f1, n)
      BY <1>2, <1>6 DEF Together
    <2> QED BY <1>1, <2>1, SameHistory
  <1>8. f1[n] = c1
    BY <1>1 DEF f1
  <1> QED BY <1>1, <1>5, <1>7, <1>8

LEMMA ChunkFields ==
  ASSUME NEW s, NEW a, NEW e, NEW l
  PROVE  /\ Log!Chunk(s, a, e, l).fmt = s /\ Log!Chunk(s, a, e, l).at = a
         /\ Log!Chunk(s, a, e, l).end = e /\ Log!Chunk(s, a, e, l).look = l
  BY DEF Log!Chunk

\* No conversion is left.
LEMMA ChunkNone ==
  ASSUME NEW s \in Text, NEW b \in Nat, b = 0 \/ \A i \in b..Len(s) : s[i] # Log!Percent
  PROVE  Log!GetChunk(s, b) = Log!Chunk(s, 0, 0, "none")
PROOF
  <1> DEFINE c0 == Log!Chunk(s, b, 0, "on")
             c1 == Log!Chunk(s, 0, 0, "none")
  <1>1. /\ c0.fmt = s /\ c0.at = b /\ c0.look = "on" /\ c1.look # "on"
    BY ChunkFields
  <1>2. b # 0 => Log!Find(s, <<Log!Percent>>, b) = 0
    <2>1. SUFFICES ASSUME b # 0 PROVE Find(s, <<Log!Percent>>, b) = 0
      BY LogFind
    <2>2. b \in Nat \ {0} /\ Len(s) \in Nat
      BY <2>1, LenProperties DEF Text
    <2>3. PICK c \in Char : c = Log!Percent
      BY PercentFacts
    <2>4. \A i \in b..Len(s) : s[i] # c
      BY <2>1, <2>3
    <2>5. Find(s, <<c>>, b) = 0
      BY <2>2, <2>4, FindChar
    <2> QED BY <2>3, <2>5
  <1>3. Log!ChunkRound(c0) = c1
    <2> HIDE DEF c0
    <2> QED BY <1>1, <1>2 DEF Log!ChunkRound, Log!NPos
  <1>4. Log!ChunkRound(c1) = c1
    <2> HIDE DEF c1
    <2> QED BY <1>1 DEF Log!ChunkRound
  <1>5. PICK c : c = c1
    OBVIOUS
  <1> QED BY <1>3, <1>4, ChunkIs

\* The next conversion, of two characters.
LEMMA ChunkFound ==
  ASSUME NEW s \in Text, NEW b \in Nat \ {0}, NEW p \in b..(Len(s) - 1), s[p] = Log!Percent,
         \A i \in b..(p - 1) : s[i] # Log!Percent,
         s[p + 1] \in Log!Conversion \ {Log!Percent},
         p > 1 => s[p - 1] # Log!Escape
  PROVE  Log!GetChunk(s, b) = Log!Chunk(s, p, p + 1, "found")
PROOF
  <1> DEFINE c0 == Log!Chunk(s, b, 0, "on")
             c1 == Log!Chunk(s, p, p + 1, "found")
             at == IF c0.at = Log!NPos THEN Log!NPos ELSE Log!Find(c0.fmt, <<Log!Percent>>, c0.at)
             ends == {e \in (at + 1)..Len(c0.fmt) : c0.fmt[e] \in Log!Conversion}
             end == CHOOSE x \in ends : \A y \in ends : x <= y
             round ==
               IF c0.look # "on" THEN c0
               ELSE IF at = Log!NPos THEN Log!Chunk(c0.fmt, Log!NPos, 0, "none")
               ELSE IF at > 1 /\ c0.fmt[at - 1] = Log!Escape THEN Log!Chunk(c0.fmt, at + 1, 0, "on")
               ELSE IF ends = {} THEN Log!Chunk(c0.fmt, at + 1, 0, "none")
               ELSE IF c0.fmt[end] = Log!Percent
                    THEN Log!Chunk(SubSeq(c0.fmt, 1, at - 1) \o <<Log!Escape, Log!Percent>>
                                     \o SubSeq(c0.fmt, end + 1, Len(c0.fmt)), at + 2, 0, "on")
               ELSE Log!Chunk(c0.fmt, at, end, "found")
  <1>0. b \in Nat /\ b # 0 /\ Len(s) \in Nat /\ p \in Nat /\ p # 0 /\ p + 1 \in (p + 1)..Len(s)
    BY LenProperties DEF Text
  <1>1. /\ c0.fmt = s /\ c0.at = b /\ c0.look = "on" /\ c1.look # "on"
    BY ChunkFields
  <1>2. Log!Find(s, <<Log!Percent>>, b) = p
    <2>1. PICK c \in Char : c = Log!Percent
      BY PercentFacts
    <2> DEFINE x == Find(s, <<c>>, b)
    <2>2. \/ x = 0 /\ \A i \in b..Len(s) : s[i] # c
          \/ x \in b..Len(s) /\ s[x] = c /\ \A i \in b..(x - 1) : s[i] # c
      BY FindChar
    <2> HIDE DEF x
    <2>3. p \in b..Len(s) /\ s[p] = c /\ \A i \in b..(p - 1) : s[i] # c
      BY <1>0, <2>1
    <2>4. x = p
      <3>1. x # 0
        BY <2>2, <2>3
      <3>2. x \in b..Len(s) /\ s[x] = c /\ \A i \in b..(x - 1) : s[i] # c
        BY <2>2, <3>1
      <3>3. ~(x < p)
        BY <1>0, <2>3, <3>2
      <3>4. ~(p < x)
        BY <1>0, <2>3, <3>2
      <3> QED BY <1>0, <3>2, <3>3, <3>4
    <2> QED BY <2>1, <2>4, LogFind DEF x
  <1>3. c0.fmt = s /\ at = p
    BY <1>0, <1>1, <1>2 DEF Log!NPos
  <1>4. Log!ChunkRound(c0) = round
    BY DEF Log!ChunkRound
  <1> HIDE DEF c0, at
  <1>5. ends # {} /\ end = p + 1
    <2>1. \A e : e \in ends <=> e \in (p + 1)..Len(s) /\ s[e] \in Log!Conversion
      BY <1>3
    <2> HIDE DEF ends
    <2>2. p + 1 \in ends
      BY <1>0, <2>1
    <2>3. \A y \in ends : y \in Int /\ p + 1 <= y
      BY <1>0, <2>1
    <2>4. end \in ends /\ \A y \in ends : end <= y
      BY <1>0, <2>2, <2>3
    <2> HIDE DEF end
    <2>5. end <= p + 1 /\ p + 1 <= end /\ end \in Int
      BY <2>2, <2>3, <2>4
    <2> QED BY <1>0, <2>2, <2>5
  <1> HIDE DEF ends, end
  <1>6. round = Log!Chunk(s, p, p + 1, "found")
    <2>1. ~(p > 1 /\ s[p - 1] = Log!Escape) /\ p # 0 /\ s[p + 1] # Log!Percent
      BY <1>0
    <2>2. round = Log!Chunk(c0.fmt, at, end, "found")
      BY <1>1, <1>3, <1>5, <2>1 DEF Log!NPos
    <2> QED BY <1>3, <1>5, <2>2
  <1>7. Log!ChunkRound(c1) = c1
    <2> HIDE DEF c1
    <2> QED BY <1>1 DEF Log!ChunkRound
  <1>8. Log!ChunkRound(c0) = c1
    BY <1>4, <1>6
  <1> QED BY <1>0, <1>7, <1>8, ChunkIs DEF c0

\* Where the object is in the message m, with n values in: at a place j of the
\* format, or at its end.
InFormat(m, n, text, where) ==
  \/ \E j \in 0..Len(m.format) :
       /\ Log!Saying(m, j).n = n /\ Log!Saying(m, j).read <= j
       /\ text = Log!Saying(m, j).text \o SubSeq(m.format, j + 1, Len(m.format))
       /\ where = Len(Log!Saying(m, j).text) + 1
  \/ where = 0 /\ text = Log!Says(m)

LEMMA FilledNone ==
  ASSUME NEW s \in Text, NEW b \in Nat, NEW v, Log!GetChunk(s, b) = Log!Chunk(s, 0, 0, "none")
  PROVE  Log!Filled([fmt |-> s, at |-> b], v) = [fmt |-> s, at |-> 0]
PROOF
  <1> DEFINE c == Log!Chunk(s, 0, 0, "none")
  <1>1. c.fmt = s /\ c.at = 0 /\ c.look # "found"
    BY ChunkFields
  <1>2. Log!GetChunk(s, b) = c
    OBVIOUS
  <1> HIDE DEF c
  <1> QED BY <1>1, <1>2 DEF Log!Filled

\* A text cut in two.
LEMMA CutInTwo ==
  ASSUME NEW s \in Text, NEW i \in 1..(Len(s) + 1), NEW k \in i..(Len(s) + 1)
  PROVE  SubSeq(s, i, Len(s)) = SubSeq(s, i, k - 1) \o SubSeq(s, k, Len(s))
PROOF
  <1> DEFINE x == SubSeq(s, i, Len(s))
             a == SubSeq(s, i, k - 1)
             b == SubSeq(s, k, Len(s))
             c == a \o b
  <1>0. /\ Len(s) \in Nat /\ i \in Nat \ {0} /\ k \in Nat \ {0} /\ k - 1 \in Nat /\ k - 1 <= Len(s)
        /\ i <= (k - 1) + 1 /\ i <= Len(s) + 1 /\ k <= Len(s) + 1 /\ Len(s) <= Len(s)
    BY LenProperties DEF Text
  <1>1. x \in Text /\ Len(x) = Len(s) - i + 1 /\ \A n \in 1..(Len(s) - i + 1) : x[n] = s[i + n - 1]
    BY <1>0, SubText
  <1>2. a \in Text /\ Len(a) = (k - 1) - i + 1 /\ \A n \in 1..((k - 1) - i + 1) : a[n] = s[i + n - 1]
    BY <1>0, SubText
  <1>3. b \in Text /\ Len(b) = Len(s) - k + 1 /\ \A n \in 1..(Len(s) - k + 1) : b[n] = s[k + n - 1]
    BY <1>0, SubText
  <1> HIDE DEF x, a, b
  <1>4. c \in Text /\ Len(c) = Len(a) + Len(b)
        /\ \A n \in 1..(Len(a) + Len(b)) : c[n] = IF n <= Len(a) THEN a[n] ELSE b[n - Len(a)]
    BY <1>2, <1>3, Concat
  <1> HIDE DEF c
  <1>5. Len(x) = Len(c)
    BY <1>0, <1>1, <1>2, <1>3, <1>4
  <1>6. ASSUME NEW n \in 1..Len(x) PROVE x[n] = c[n]
    <2>1. x[n] = s[i + n - 1] /\ n \in 1..(Len(a) + Len(b)) /\ n \in Nat
      BY <1>1, <1>4, <1>5
    <2>2. CASE n <= Len(a)
      BY <1>0, <1>2, <1>4, <2>1, <2>2
    <2>3. CASE ~(n <= Len(a))
      <3>1. n - Len(a) \in 1..(Len(s) - k + 1) /\ k + (n - Len(a)) - 1 = i + n - 1
        <4>1. Len(a) = k - i /\ Len(b) = Len(s) - k + 1 /\ i \in Nat /\ k \in Nat /\ n \in Nat
          BY <1>0, <1>2, <1>3, <2>1
        <4>2. n > k - i /\ n <= (k - i) + (Len(s) - k + 1)
          BY <1>0, <2>1, <2>3, <4>1
        <4> HIDE DEF a, b
        <4> QED BY <1>0, <4>1, <4>2
      <3>2. c[n] = b[n - Len(a)]
        BY <1>4, <2>1, <2>3
      <3> QED BY <1>3, <2>1, <3>1, <3>2
    <2> QED BY <2>2, <2>3
  <1>7. x = c
    BY <1>1, <1>4, <1>5, <1>6, SeqEqual DEF Text
  <1> QED BY <1>7 DEF x, c, a, b

LEMMA Behind ==
  ASSUME NEW s \in Text, NEW t \in Text, NEW m \in Nat \ {0}
  PROVE  SubSeq(s \o t, Len(s) + m, Len(s \o t)) = SubSeq(t, m, Len(t))
  BY SubConcat DEF Text

\* A value takes the place of the first conversion behind the place b.
LEMMA FilledIn ==
  ASSUME NEW t \in Text, NEW r \in Text, NEW v \in LogValue, NEW b \in 1..(Len(t) + 1),
         \A i \in b..Len(t) : t[i] # Log!Percent,
         Len(r) >= 2, r[1] = Log!Percent, r[2] \in Log!Conversion \ {Log!Percent},
         t = <<>> \/ t[Len(t)] # Log!Escape
  PROVE  LET buf == Log!Shown(v, SubSeq(r, 1, 2)) IN
         Log!Filled([fmt |-> t \o r, at |-> b], v)
           = [fmt |-> t \o buf \o SubSeq(r, 3, Len(r)), at |-> Len(t) + 1 + Len(buf)]
PROOF
  <1> DEFINE s == t \o r
             p == Len(t) + 1
  <1>0. /\ s \in Text /\ Len(t) \in Nat /\ Len(r) \in Nat /\ Len(s) = Len(t) + Len(r)
        /\ \A i \in 1..(Len(t) + Len(r)) : s[i] = IF i <= Len(t) THEN t[i] ELSE r[i - Len(t)]
    BY Concat
  <1>1. b \in Nat \ {0} /\ p \in b..(Len(s) - 1) /\ p \in Nat
    BY <1>0
  <1> HIDE DEF s
  <1>2. s[p] = Log!Percent /\ s[p + 1] = r[2]
    <2>1. p \in 1..(Len(t) + Len(r)) /\ p + 1 \in 1..(Len(t) + Len(r))
      BY <1>0
    <2>2. ~(p <= Len(t)) /\ ~(p + 1 <= Len(t)) /\ p - Len(t) = 1 /\ (p + 1) - Len(t) = 2
      BY <1>0
    <2> HIDE DEF p
    <2> QED BY <1>0, <2>1, <2>2
  <1>3. \A i \in b..(p - 1) : s[i] # Log!Percent
    BY <1>0
  <1>4. p > 1 => s[p - 1] # Log!Escape
    <2>1. SUFFICES ASSUME Len(t) # 0 PROVE s[Len(t)] # Log!Escape
      BY <1>0
    <2>2. t # <<>>
      BY <2>1, EmptySeq
    <2>3. s[Len(t)] = t[Len(t)]
      BY <1>0, <2>1
    <2> QED BY <2>2, <2>3
  <1>5. Log!GetChunk(s, b) = Log!Chunk(s, p, p + 1, "found")
    <2> HIDE DEF p
    <2> QED BY <1>0, <1>1, <1>2, <1>3, <1>4, ChunkFound
  <1>6. SubSeq(s, 1, p - 1) = t
    <2>1. t \in Seq(Char) /\ r \in Seq(Char) /\ 0 \in 0..Len(r) /\ Len(t) + 0 = p - 1
      BY <1>0 DEF Text
    <2>2. SubSeq(s, 1, Len(t) + 0) = t \o SubSeq(r, 1, 0)
      BY <2>1, SubConcat DEF s
    <2>3. SubSeq(r, 1, 0) = <<>>
      BY <2>1, SubEmpty
    <2>4. t \o <<>> = t
      BY <2>1, ConcatEmptySeq
    <2> QED BY <2>1, <2>2, <2>3, <2>4
  <1>7. SubSeq(s, p + 1 + 1, Len(s)) = SubSeq(r, 3, Len(r))
    <2>1. t \in Seq(Char) /\ r \in Seq(Char) /\ 3 \in Nat \ {0} /\ Len(t) + 3 = p + 1 + 1
      BY <1>0 DEF Text
    <2>2. PICK m \in Nat \ {0} : m = 3
      BY <2>1
    <2>3. SubSeq(t \o r, Len(t) + m, Len(t \o r)) = SubSeq(r, m, Len(r))
      BY Behind
    <2>4. SubSeq(s, Len(t) + 3, Len(s)) = SubSeq(r, 3, Len(r))
      BY <2>2, <2>3 DEF s
    <2> QED BY <2>1, <2>4
  <1>8. SubSeq(s, p, p + 1) = SubSeq(r, 1, 2)
    <2> DEFINE x == SubSeq(s, p, p + 1)
               y == SubSeq(r, 1, 2)
    <2>1. x \in Text /\ Len(x) = 2 /\ \A i \in 1..2 : x[i] = s[p + i - 1]
      <3>1. p \in Nat \ {0} /\ p + 1 \in Nat /\ p + 1 <= Len(s) /\ p <= (p + 1) + 1 /\ (p + 1) - p + 1 = 2
        BY <1>0
      <3> HIDE DEF p
      <3>2. x \in Text /\ Len(x) = (p + 1) - p + 1 /\ \A i \in 1..((p + 1) - p + 1) : x[i] = s[p + i - 1]
        BY <1>0, <3>1, SubText
      <3> HIDE DEF x
      <3> QED BY <3>1, <3>2
    <2>2. y \in Text /\ Len(y) = 2 /\ \A i \in 1..2 : y[i] = r[i]
      <3>1. 1 \in Nat \ {0} /\ 2 \in Nat /\ 2 <= Len(r) /\ 1 <= 2 + 1
        BY <1>0
      <3>2. y \in Text /\ Len(y) = 2 - 1 + 1 /\ \A i \in 1..(2 - 1 + 1) : y[i] = r[1 + i - 1]
        BY <3>1, SubText
      <3> HIDE DEF y
      <3> QED BY <3>2
    <2> HIDE DEF x, y
    <2>3. \A i \in 1..2 : x[i] = y[i]
      <3>1. \A i \in 1..2 : i = 1 \/ i = 2
        OBVIOUS
      <3>2. p + 1 - 1 = p /\ p + 2 - 1 = p + 1
        BY <1>1
      <3> HIDE DEF p
      <3>3. x[1] = r[1] /\ x[2] = r[2] /\ y[1] = r[1] /\ y[2] = r[2]
        BY <1>2, <2>1, <2>2, <3>2
      <3> QED BY <3>1, <3>3
    <2>4. x = y
      BY <2>1, <2>2, <2>3, SeqEqual, SMTT(30) DEF Text
    <2> QED BY <2>4 DEF x, y
  <1> HIDE DEF p
  <1>9. LET buf == Log!Shown(v, SubSeq(s, p, p + 1)) IN
        Log!Filled([fmt |-> s, at |-> b], v)
          = [fmt |-> SubSeq(s, 1, p - 1) \o buf \o SubSeq(s, p + 1 + 1, Len(s)), at |-> p + Len(buf)]
    <2> DEFINE c == Log!Chunk(s, p, p + 1, "found")
    <2>1. c.fmt = s /\ c.at = p /\ c.end = p + 1 /\ c.look = "found"
      BY ChunkFields
    <2>2. Log!GetChunk(s, b) = c
      BY <1>5
    <2> HIDE DEF c
    <2> QED BY <2>1, <2>2 DEF Log!Filled
  <1> QED BY <1>6, <1>7, <1>8, <1>9, Zenon DEF s, p
\* A value is put where the message wants it.
LEMMA FilledIsSaid ==
  ASSUME NEW m \in LogMessage, Log!WellMade(m), NEW n \in Nat, n < Len(m.args),
         NEW f \in Text, NEW b \in Nat, InFormat(m, n, f, b)
  PROVE  LET obj == Log!Filled([fmt |-> f, at |-> b], m.args[n + 1]) IN
         InFormat(m, n + 1, obj.fmt, obj.at) /\ obj.fmt \in Text /\ obj.at \in Nat
PROOF
  <1> DEFINE F == m.format
             len == Len(m.format)
             v == m.args[n + 1]
             obj == Log!Filled([fmt |-> f, at |-> b], m.args[n + 1])
  <1>0. F \in Text /\ len \in Nat /\ v \in LogValue
    <2>1. F \in Text /\ m.args \in Seq(LogValue)
      BY DEF LogMessage
    <2>2. n + 1 \in 1..Len(m.args)
      BY <2>1, LenProperties
    <2> QED BY <2>1, <2>2, LenProperties, ElementOfSeq DEF Text
  <1>1. ASSUME b = 0 \/ \A k \in b..Len(f) : f[k] # Log!Percent, f = Log!Says(m)
        PROVE  InFormat(m, n + 1, obj.fmt, obj.at) /\ obj.fmt \in Text /\ obj.at \in Nat
    <2>1. Log!GetChunk(f, b) = Log!Chunk(f, 0, 0, "none")
      BY <1>1, ChunkNone
    <2>2. obj = [fmt |-> f, at |-> 0]
      BY <2>1, FilledNone
    <2> HIDE DEF obj
    <2>3. obj.fmt = f /\ obj.at = 0
      BY <2>2
    <2> QED BY <1>1, <2>3 DEF InFormat
  <1>2. ASSUME b = 0, f = Log!Says(m)
        PROVE  InFormat(m, n + 1, obj.fmt, obj.at) /\ obj.fmt \in Text /\ obj.at \in Nat
    BY <1>1, <1>2
  <1>3. ASSUME NEW j \in 0..len, Log!Saying(m, j).n = n, Log!Saying(m, j).read <= j,
               f = Log!Saying(m, j).text \o SubSeq(F, j + 1, len),
               b = Len(Log!Saying(m, j).text) + 1
        PROVE  InFormat(m, n + 1, obj.fmt, obj.at) /\ obj.fmt \in Text /\ obj.at \in Nat
    <2> DEFINE t == Log!Saying(m, j).text
               left == {k \in (j + 1)..len : F[k] = Log!Percent}
    <2>0. t \in Text /\ j \in Nat /\ Len(t) \in Nat
      <3>1. t \in Text
        BY SayLoop DEF SaidType
      <3> HIDE DEF t
      <3> QED BY <3>1, LenProperties DEF Text
    <2>1. CASE left = {}
      <3>1. \A k \in (j + 1)..len : F[k] # Log!Percent
        BY <2>1
      <3>2. len \in j..len
        BY <1>0
      <3>3. Log!Saying(m, len).text = t \o SubSeq(F, j + 1, len)
        BY <1>3, <3>1, <3>2, SayPlain
      <3>4. f = Log!Says(m)
        BY <1>3, <3>3 DEF Log!Says
      <3> DEFINE r == SubSeq(F, j + 1, len)
      <3>5. r \in Text /\ Len(r) = len - (j + 1) + 1 /\ \A i \in 1..(len - (j + 1) + 1) : r[i] = F[(j + 1) + i - 1]
        <4>1. j + 1 \in Nat \ {0} /\ j + 1 <= len + 1 /\ len <= len
          BY <1>0, <2>0
        <4> QED BY <1>0, <4>1, SubText
      <3> HIDE DEF r, t
      <3>6. /\ f = t \o r /\ Len(f) = Len(t) + Len(r)
            /\ \A i \in 1..(Len(t) + Len(r)) : f[i] = IF i <= Len(t) THEN t[i] ELSE r[i - Len(t)]
        <4>1. f = t \o r
          BY <1>3 DEF t, r
        <4> QED BY <2>0, <3>5, <4>1, Concat
      <3>7. ASSUME NEW k \in b..Len(f) PROVE f[k] # Log!Percent
        <4>1. b = Len(t) + 1
          BY <1>3 DEF t
        <4>2. /\ k \in 1..(Len(t) + Len(r)) /\ ~(k <= Len(t)) /\ k - Len(t) \in 1..(len - (j + 1) + 1)
              /\ (j + 1) + (k - Len(t)) - 1 \in (j + 1)..len
          BY <1>0, <2>0, <3>5, <3>6, <4>1, SMTT(30)
        <4>3. f[k] = F[(j + 1) + (k - Len(t)) - 1]
          BY <3>5, <3>6, <4>2
        <4> QED BY <3>1, <4>2, <4>3
      <3> QED BY <1>1, <3>4, <3>7
    <2>2. CASE left # {}
      <3>1. PICK q \in left : \A k \in left : q <= k
        <4>1. left \subseteq Nat
          BY <1>0, <2>0
        <4> HIDE DEF left
        <4> QED BY <2>2, <4>1, Least
      <3>2. /\ q \in 1..len /\ q - 1 \in j..len /\ q \in Nat /\ q - 1 \in Nat /\ F[q] = Log!Percent /\ j + 1 <= q
            /\ \A k \in (j + 1)..(q - 1) : F[k] # Log!Percent
        <4>1. q \in (j + 1)..len /\ F[q] = Log!Percent /\ j \in Nat /\ len \in Nat
          BY <1>0, <2>0
        <4>2. ASSUME NEW k \in (j + 1)..(q - 1) PROVE F[k] # Log!Percent
          <5>1. k \in (j + 1)..len /\ ~(q <= k)
            BY <4>1
          <5> QED BY <3>1, <5>1
        <4> HIDE DEF len, left, F
        <4> QED BY <4>1, <4>2
      <3> HIDE DEF left
      <3> DEFINE x == SubSeq(F, j + 1, q - 1)
                 t2 == Log!Saying(m, q - 1).text
                 r == SubSeq(F, q, len)
                 buf == Log!Shown(v, SubSeq(r, 1, 2))
      <3>3. /\ Log!Saying(m, q - 1).n = n /\ Log!Saying(m, q - 1).read <= q - 1 /\ t2 = t \o x
            /\ Log!Saying(m, q - 1) \in SaidType
        <4>1. q - 1 \in 0..len
          BY <1>0, <3>2
        <4> QED BY <1>3, <3>2, <4>1, SayPlain, SayLoop
      <3>4. x \in Text /\ Len(x) = (q - 1) - (j + 1) + 1
            /\ \A i \in 1..((q - 1) - (j + 1) + 1) : x[i] = F[(j + 1) + i - 1]
        <4>1. j + 1 \in Nat \ {0} /\ j + 1 <= (q - 1) + 1 /\ q - 1 <= len
          BY <1>0, <2>0, <3>2
        <4> QED BY <1>0, <3>2, <4>1, SubText
      <3>5. /\ q < len /\ F[q + 1] \in Log!Conversion \ {Log!Percent}
            /\ t2 = <<>> \/ t2[Len(t2)] # Log!Escape
        <4>1. q \in DOMAIN F
          BY <1>0, <3>2, LenProperties DEF Text
        <4>2. q > Log!Saying(m, q - 1).read
          <5>1. Log!Saying(m, q - 1).read \in Nat
            BY <3>3 DEF SaidType
          <5> QED BY <3>2, <3>3, <5>1
        <4> QED BY <3>2, <3>3, <4>1, <4>2 DEF Log!WellMade
      <3>6. r \in Text /\ Len(r) >= 2 /\ r[1] = F[q] /\ r[2] = F[q + 1] /\ Len(r) = len - q + 1
        <4>1. q \in Nat \ {0} /\ q <= len + 1 /\ len <= len
          BY <1>0, <3>2
        <4>2. r \in Text /\ Len(r) = len - q + 1 /\ \A i \in 1..(len - q + 1) : r[i] = F[q + i - 1]
          BY <1>0, <4>1, SubText
        <4> HIDE DEF r
        <4>3. 1 \in 1..(len - q + 1) /\ 2 \in 1..(len - q + 1) /\ q + 1 - 1 = q /\ q + 2 - 1 = q + 1
              /\ len - q + 1 >= 2
          <5>1. q \in Nat /\ len \in Nat /\ q < len
            BY <1>0, <3>2, <3>5
          <5> HIDE DEF len
          <5> QED BY <5>1
        <4> QED BY <4>2, <4>3
      <3>7. f = t2 \o r
        <4>1. SubSeq(F, j + 1, len) = x \o r
          <5>1. j + 1 \in 1..(len + 1) /\ q \in (j + 1)..(len + 1)
            BY <1>0, <2>0, <3>2
          <5> QED BY <1>0, <5>1, CutInTwo
        <4> HIDE DEF x, r, t
        <4>2. (t \o x) \o r = t \o (x \o r)
          BY <2>0, <3>4, <3>6, Assoc
        <4>3. f = t \o SubSeq(F, j + 1, len)
          BY <1>3 DEF t
        <4> QED BY <3>3, <4>1, <4>2, <4>3
      <3>8. t2 \in Text /\ b \in 1..(Len(t2) + 1) /\ \A i \in b..Len(t2) : t2[i] # Log!Percent
        <4> HIDE DEF t, x
        <4>1. /\ t \o x \in Text /\ Len(t \o x) = Len(t) + Len(x)
              /\ \A i \in 1..(Len(t) + Len(x)) : (t \o x)[i] = IF i <= Len(t) THEN t[i] ELSE x[i - Len(t)]
          BY <2>0, <3>4, Concat
        <4> HIDE DEF t2
        <4>2. b = Len(t) + 1 /\ t2 \in Text /\ Len(t2) = Len(t) + Len(x) /\ Len(x) \in Nat
          BY <1>3, <2>0, <3>2, <3>3, <3>4, <4>1 DEF t
        <4>3. ASSUME NEW i \in b..Len(t2) PROVE t2[i] # Log!Percent
          <5>1. /\ i \in 1..(Len(t) + Len(x)) /\ ~(i <= Len(t)) /\ i - Len(t) \in 1..((q - 1) - (j + 1) + 1)
                /\ (j + 1) + (i - Len(t)) - 1 \in (j + 1)..(q - 1)
            <6>1. Len(x) = (q - 1) - (j + 1) + 1
              BY <3>4
            <6> QED BY <2>0, <3>2, <4>2, <6>1
          <5>2. t2[i] = F[(j + 1) + (i - Len(t)) - 1]
            BY <3>3, <3>4, <4>1, <5>1
          <5> QED BY <3>2, <5>1, <5>2
        <4> QED BY <2>0, <4>2, <4>3
      <3>9. obj = [fmt |-> t2 \o buf \o SubSeq(r, 3, Len(r)), at |-> Len(t2) + 1 + Len(buf)]
        <4> HIDE DEF t2, r, v
        <4>1. r[1] = Log!Percent /\ r[2] \in Log!Conversion \ {Log!Percent}
          BY <3>2, <3>5, <3>6
        <4>2. Log!Filled([fmt |-> t2 \o r, at |-> b], v)
                = [fmt |-> t2 \o buf \o SubSeq(r, 3, Len(r)), at |-> Len(t2) + 1 + Len(buf)]
          BY <1>0, <3>5, <3>6, <3>8, <4>1, FilledIn, ZenonT(40)
        <4> QED BY <3>7, <4>2 DEF v
      <3>10. SubSeq(r, 1, 2) = SubSeq(F, q, q + 1) /\ SubSeq(r, 3, Len(r)) = SubSeq(F, q + 2, len)
        <4>1. /\ q \in 1..(len + 1) /\ 1 \in Nat \ {0} /\ 2 \in Nat /\ 3 \in Nat \ {0}
              /\ 2 <= len + 1 - q /\ Len(r) \in Nat /\ Len(r) <= len + 1 - q
          <5>1. q \in Nat /\ len \in Nat /\ q \in 1..len /\ q < len /\ Len(r) = len - q + 1
            BY <1>0, <3>2, <3>5, <3>6
          <5> HIDE DEF len, r
          <5> QED BY <5>1
        <4>2. SubSeq(SubSeq(F, q, len), 1, 2) = SubSeq(F, q + 1 - 1, q + 2 - 1)
          BY <1>0, <4>1, SubOfEnd
        <4>3. PICK k \in Nat : k = Len(r)
          BY <4>1
        <4>4. SubSeq(SubSeq(F, q, len), 3, k) = SubSeq(F, q + 3 - 1, q + k - 1)
          BY <1>0, <4>1, <4>3, SubOfEnd
        <4>5. q + 1 - 1 = q /\ q + 2 - 1 = q + 1 /\ q + 3 - 1 = q + 2 /\ q + k - 1 = len
          <5>1. q \in Nat /\ len \in Nat /\ k = len - q + 1
            BY <1>0, <3>2, <3>6, <4>3
          <5> HIDE DEF len
          <5> QED BY <5>1
        <4> QED BY <4>2, <4>3, <4>4, <4>5
      <3>11. buf \in Text
        <4>1. SubSeq(r, 1, 2) \in Text
          <5>1. 1 \in Nat \ {0} /\ 2 \in Nat /\ 1 <= 2 + 1 /\ 2 <= Len(r)
            BY <3>6
          <5> HIDE DEF r
          <5> QED BY <3>6, <5>1, SubText
        <4> HIDE DEF r, v
        <4> QED BY <1>0, <4>1, ShownType
      <3>12. PICK w \in Text : w = t2 \o buf /\ Len(w) = Len(t2) + Len(buf)
        <4> HIDE DEF t2, buf
        <4> QED BY <3>8, <3>11, Concat
      <3>13. /\ q + 1 \in 0..len /\ Log!Saying(m, q + 1).n = n + 1 /\ Log!Saying(m, q + 1).read = q + 1
             /\ Log!Saying(m, q + 1).text = w
        <4>1. Log!Saying(m, q) = Log!SaysNext(m, Log!Saying(m, q - 1), q)
          BY <3>2, SayLoop
        <4>2. Log!SaysNext(m, Log!Saying(m, q - 1), q) = Log!Said(n + 1, q + 1, w)
          <5> DEFINE a == Log!Saying(m, q - 1)
          <5>1. a.read \in Nat /\ a.n = n /\ a.text = t2
            BY <3>3 DEF SaidType
          <5>2. ~(q <= a.read) /\ q > a.read
            BY <3>2, <3>3, <5>1, SMTT(30)
          <5>3. q < Len(m.format) /\ m.format[q] = Log!Percent /\ a.n < Len(m.args)
            BY <3>2, <3>5, <5>1
          <5> HIDE DEF a, t2
          <5>4. Log!SaysNext(m, a, q) = Log!Said(a.n + 1, q + 1,
                  a.text \o Log!Shown(m.args[a.n + 1], SubSeq(m.format, q, q + 1)))
            BY <5>2, <5>3 DEF Log!SaysNext
          <5>5. a.text \o Log!Shown(m.args[a.n + 1], SubSeq(m.format, q, q + 1)) = w
            BY <3>10, <3>12, <5>1
          <5> QED BY <5>1, <5>4, <5>5 DEF a
        <4>3. PICK n1 \in Nat, q1 \in Nat : n1 = n + 1 /\ q1 = q + 1
          BY <3>2
        <4>4. /\ Log!Said(n1, q1, w).n = n1 /\ Log!Said(n1, q1, w).read = q1 /\ Log!Said(n1, q1, w).text = w
          BY SaidIs
        <4>5. q1 \in 1..len /\ q1 - 1 = q
          BY <1>0, <3>2, <3>5, <4>3, SMTT(30)
        <4>6. Log!Saying(m, q1) = Log!SaysNext(m, Log!Saying(m, q), q1)
          BY <4>5, SayLoop
        <4>7. Log!Saying(m, q) = Log!Said(n1, q1, w)
          BY <4>1, <4>2, <4>3
        <4>8. Log!SaysNext(m, Log!Saying(m, q), q1) = Log!Saying(m, q)
          <5>1. q1 <= Log!Saying(m, q).read /\ ~(q1 > Log!Saying(m, q).read)
            BY <4>3, <4>4, <4>7
          <5> QED BY <5>1 DEF Log!SaysNext
        <4> QED BY <4>3, <4>4, <4>5, <4>6, <4>7, <4>8
      <3>14. obj.fmt = w \o SubSeq(F, q + 2, len) /\ obj.at = Len(w) + 1
        <4> HIDE DEF obj, t2, buf, r
        <4>1. obj.fmt = t2 \o buf \o SubSeq(r, 3, Len(r)) /\ obj.at = Len(t2) + 1 + Len(buf)
          BY <3>9
        <4>2. Len(t2) + 1 + Len(buf) = Len(w) + 1
          <5>1. Len(t2) \in Nat /\ Len(buf) \in Nat
            BY <3>8, <3>11, LenProperties DEF Text
          <5> QED BY <3>12, <5>1
        <4> QED BY <3>10, <3>12, <4>1, <4>2
      <3>15. obj.fmt \in Text /\ obj.at \in Nat
        <4>1. SubSeq(F, q + 2, len) \in Text
          <5>1. q + 2 \in Nat \ {0} /\ q + 2 <= len + 1 /\ len <= len
            BY <1>0, <3>2, <3>5
          <5> QED BY <1>0, <5>1, SubText
        <4> HIDE DEF obj
        <4> QED BY <3>14, <4>1, Concat
      <3>16. InFormat(m, n + 1, obj.fmt, obj.at)
        <4> HIDE DEF obj
        <4>1. PICK k \in 0..len : k = q + 1
          BY <3>13
        <4>2. /\ Log!Saying(m, k).n = n + 1 /\ Log!Saying(m, k).read <= k
              /\ obj.fmt = Log!Saying(m, k).text \o SubSeq(m.format, k + 1, Len(m.format))
              /\ obj.at = Len(Log!Saying(m, k).text) + 1
          <5>1. k + 1 = q + 2 /\ q + 1 <= q + 1
            BY <3>2, <4>1
          <5> QED BY <3>13, <3>14, <4>1, <5>1
        <4> QED BY <4>2 DEF InFormat
      <3> QED BY <3>15, <3>16
    <2> QED BY <2>1, <2>2
  <1> HIDE DEF obj
  <1>4. InFormat(m, n + 1, obj.fmt, obj.at) /\ obj.fmt \in Text /\ obj.at \in Nat
    <2>1. CASE b = 0 /\ f = Log!Says(m)
      BY <1>2, <2>1
    <2>2. CASE \E j \in 0..len : /\ Log!Saying(m, j).n = n /\ Log!Saying(m, j).read <= j
                                 /\ f = Log!Saying(m, j).text \o SubSeq(F, j + 1, len)
                                 /\ b = Len(Log!Saying(m, j).text) + 1
      BY <1>3, <2>2
    <2> QED BY <2>1, <2>2 DEF InFormat
  <1> QED BY <1>4 DEF obj
LEMMA MessageType ==
  ASSUME Log!LoggerAssumption, NEW m \in Message
  PROVE  m \in LogMessage
PROOF
  <1> DEFINE types == {"status", "text", "number", "bool", "char", "double", "pointer"}
             levels == {"always", "fatal", "error", "warn", "info", "verbose", "debug", "dump"}
             valued == [type : types, text : Seq(STRING), num : Seq(STRING)]
  <1>1. valued \subseteq LogValue
    BY TextsOfStrings DEF LogValue
  <1>2. m \in [level : levels, format : Seq(STRING), args : Seq(valued)]
    BY DEF Log!LoggerAssumption
  <1> HIDE DEF valued
  <1>3. Seq(valued) \subseteq Seq(LogValue)
    BY <1>1, SeqMonotonic
  <1> QED BY <1>2, <1>3, TextsOfStrings DEF LogMessage

\* What a logged message says: at its start, and after its last valued.
LEMMA SaidAtStart ==
  ASSUME NEW m \in LogMessage
  PROVE  /\ InFormat(m, 0, m.format, 1) /\ m.format \in Text
         /\ m.format = <<>> => Log!Says(m) = <<>>
PROOF
  <1>1. m.format \in Text /\ Len(m.format) \in Nat /\ m.format \in Seq(Char)
    BY LenProperties DEF LogMessage, Text
  <1>2. /\ Log!Saying(m, 0).n = 0 /\ Log!Saying(m, 0).read = 0 /\ Log!Saying(m, 0).text = <<>>
    <2>1. PICK t \in Text, n \in Nat : t = <<>> /\ n = 0
      BY EmptySeq DEF Text
    <2>2. Log!Said(n, n, t).n = n /\ Log!Said(n, n, t).read = n /\ Log!Said(n, n, t).text = t
      BY SaidIs
    <2>3. Log!Saying(m, 0) = Log!Said(n, n, t)
      BY <2>1, SayLoop
    <2> QED BY <2>1, <2>2, <2>3
  <1>3. /\ 0 \in 0..Len(m.format) /\ 0 + 1 = 1 /\ Len(<<>>) = 0 /\ 0 <= 0
        /\ m.format = <<>> \o SubSeq(m.format, 1, Len(m.format))
    <2>1. SubSeq(m.format, 1, Len(m.format)) = m.format
      BY <1>1, SubSeqFull
    <2>2. <<>> \o m.format = m.format
      BY <1>1, ConcatEmptySeq
    <2> QED BY <1>1, <2>1, <2>2, EmptySeq
  <1>4. InFormat(m, 0, m.format, 1)
    BY <1>2, <1>3 DEF InFormat
  <1>5. m.format = <<>> => Log!Says(m) = <<>>
    BY <1>2, EmptySeq DEF Log!Says
  <1> QED BY <1>1, <1>4, <1>5

LEMMA SaidAtEnd ==
  ASSUME NEW m \in LogMessage, NEW f, NEW b, InFormat(m, Len(m.args), f, b)
  PROVE  f = Log!Says(m)
PROOF
  <1>0. Len(m.format) \in Nat /\ Len(m.args) \in Nat
    BY LenProperties DEF LogMessage, Text
  <1>1. SUFFICES ASSUME NEW j \in 0..Len(m.format),
                        Log!Saying(m, j).n = Len(m.args), Log!Saying(m, j).read <= j,
                        f = Log!Saying(m, j).text \o SubSeq(m.format, j + 1, Len(m.format))
                 PROVE  f = Log!Says(m)
    BY DEF InFormat
  <1>2. Len(m.format) \in j..Len(m.format) /\ ~(Log!Saying(m, j).n < Len(m.args))
    BY <1>0, <1>1
  <1>3. Log!Saying(m, Len(m.format)).text
          = Log!Saying(m, j).text \o SubSeq(m.format, j + 1, Len(m.format))
    BY <1>1, <1>2, SayPlain
  <1> QED BY <1>1, <1>3 DEF Log!Says

\* Between two steps of main the object holds what the message says up to the
\* values that are in, and what was logged and told is what a message says.
LogInv ==
  /\ logPc \in {"idle", "made", "logged"}
  /\ msg \in LogMessage
  /\ logPc = "made" => /\ Log!WellMade(msg)
                       /\ arg \in 0..Len(msg.args) /\ fmt \in Text /\ logI \in Nat
                       /\ InFormat(msg, arg, fmt, logI)
  /\ logPc = "logged" => out = Log!Says(msg) /\ last = Log!Says(msg)
  /\ told[2] = Log!Says(told[1])

\* The messages on a job are well made and loud enough to be logged, and that of
\* the signal handler is not.
JobMessages ==
  /\ Log!LoggerAssumption
  /\ \A m \in Message : Log!WellMade(m) /\ Log!Logs(m.level)
  /\ ~Log!Logs("verbose")

LEMMA LogInit ==
  ASSUME Log!Init PROVE LogInv
PROOF
  <1>1. Log!NoMessage \in LogMessage /\ Log!NoMessage.format = <<>>
    <2>1. <<>> \in Text /\ <<>> \in Seq(LogValue)
      BY EmptySeq DEF Text
    <2> QED BY <2>1 DEF Log!NoMessage, LogMessage
  <1>2. logPc = "idle" /\ msg = Log!NoMessage /\ told = <<Log!NoMessage, <<>>>>
    BY DEF Log!Init
  <1>3. told[1] = Log!NoMessage /\ told[2] = <<>>
    BY <1>2
  <1>4. Log!Says(Log!NoMessage) = <<>>
    BY <1>1, SaidAtStart
  <1> QED BY <1>1, <1>2, <1>3, <1>4 DEF LogInv

LEMMA LogStep ==
  ASSUME JobMessages, LogInv, [Log!Next]_Log!vars
  PROVE  LogInv'
PROOF
  <1>1. ASSUME NEW m \in Message, Log!Begin(m) PROVE LogInv'
    <2>1. m \in LogMessage /\ Log!WellMade(m) /\ Log!Logs(m.level)
      BY MessageType DEF JobMessages
    <2>2. logPc' = "made" /\ msg' = m /\ arg' = 0 /\ fmt' = m.format /\ logI' = 1 /\ told' = told
      BY <1>1, <2>1 DEF Log!Begin
    <2>3. InFormat(m, 0, m.format, 1) /\ m.format \in Text /\ 0 \in 0..Len(m.args)
      BY <2>1, SaidAtStart, LenProperties DEF LogMessage
    <2>4. InFormat(msg, arg, fmt, logI)'
      BY <2>2, <2>3 DEF InFormat
    <2>5. Log!WellMade(msg)'
      BY <2>1, <2>2
    <2>6. (told[2] = Log!Says(told[1]))'
      BY <2>2 DEF LogInv
    <2> QED BY <2>1, <2>2, <2>3, <2>4, <2>5, <2>6 DEF LogInv
  <1>2. ASSUME Log!PutValue PROVE LogInv'
    <2> DEFINE obj == Log!Filled([fmt |-> fmt, at |-> logI], msg.args[arg + 1])
    <2>1. /\ logPc = "made" /\ arg < Len(msg.args) /\ fmt' = obj.fmt /\ logI' = obj.at /\ arg' = arg + 1
          /\ logPc' = logPc /\ msg' = msg /\ told' = told
      BY <1>2 DEF Log!PutValue
    <2>2. /\ msg \in LogMessage /\ Log!WellMade(msg) /\ arg \in 0..Len(msg.args) /\ fmt \in Text /\ logI \in Nat
          /\ InFormat(msg, arg, fmt, logI) /\ Len(msg.args) \in Nat
      BY <2>1, LenProperties DEF LogInv, LogMessage
    <2>3. InFormat(msg, arg + 1, obj.fmt, obj.at) /\ obj.fmt \in Text /\ obj.at \in Nat
      <3>1. arg \in Nat
        BY <2>2
      <3> QED BY <2>1, <2>2, <3>1, FilledIsSaid
    <2> HIDE DEF obj
    <2>4. InFormat(msg, arg, fmt, logI)'
      BY <2>1, <2>3 DEF InFormat
    <2>5. arg' \in 0..Len(msg'.args)
      BY <2>1, <2>2
    <2>6. (told[2] = Log!Says(told[1]))' /\ Log!WellMade(msg)'
      BY <2>1, <2>2 DEF LogInv
    <2> QED BY <2>1, <2>2, <2>3, <2>4, <2>5, <2>6 DEF LogInv
  <1>3. ASSUME Log!Out PROVE LogInv'
    <2>1. /\ logPc = "made" /\ arg = Len(msg.args) /\ out' = fmt /\ last' = fmt
          /\ logPc' = "logged" /\ msg' = msg /\ told' = told
      BY <1>3 DEF Log!Out
    <2>2. msg \in LogMessage /\ InFormat(msg, Len(msg.args), fmt, logI)
      BY <2>1 DEF LogInv
    <2>3. fmt = Log!Says(msg)
      BY <2>2, SaidAtEnd
    <2>4. (told[2] = Log!Says(told[1]))' /\ out' = Log!Says(msg)' /\ last' = Log!Says(msg)'
      BY <2>1, <2>3 DEF LogInv
    <2> QED BY <2>1, <2>2, <2>4 DEF LogInv
  <1>4. ASSUME Log!Notify PROVE LogInv'
    <2>1. logPc = "logged" /\ told' = <<msg, last>> /\ logPc' = "idle" /\ msg' = msg
      BY <1>4 DEF Log!Notify
    <2>2. told'[1] = msg /\ told'[2] = last /\ last = Log!Says(msg)
      BY <2>1 DEF LogInv
    <2>3. (told[2] = Log!Says(told[1]))'
      BY <2>2
    <2> QED BY <2>1, <2>3 DEF LogInv
  <1>5. ASSUME UNCHANGED <<logPc, msg, arg, fmt, logI, last, out, told>> PROVE LogInv'
    <2>1. InFormat(msg, arg, fmt, logI)' = InFormat(msg, arg, fmt, logI)
      BY <1>5 DEF InFormat
    <2>2. Log!WellMade(msg)' = Log!WellMade(msg) /\ Log!Says(msg)' = Log!Says(msg)
      BY <1>5
    <2>3. (told[2] = Log!Says(told[1]))'
      BY <1>5 DEF LogInv
    <2> QED BY <1>5, <2>1, <2>2, <2>3 DEF LogInv
  <1>6. ASSUME Log!SignalHandler PROVE LogInv'
    <2>1. UNCHANGED <<logPc, msg, arg, fmt, logI, last, out, told>>
      BY <1>6 DEF Log!SignalHandler, JobMessages
    <2> QED BY <1>5, <2>1
  <1>7. CASE UNCHANGED Log!vars
    <2>1. UNCHANGED <<logPc, msg, arg, fmt, logI, last, out, told>>
      BY <1>7 DEF Log!vars
    <2> QED BY <1>5, <2>1
  <1> QED BY <1>1, <1>2, <1>3, <1>4, <1>6, <1>7 DEF Log!Next

\* A message on a job is logged as it was meant, whatever its values hold, and
\* the submitter is told what was said of this job and no other; for any
\* messages of any number of values.
THEOREM MessagesWholeSafe == JobMessages => (Log!Spec => []MessagesWhole)
PROOF
  <1>0. SUFFICES ASSUME JobMessages PROVE Log!Spec => []MessagesWhole
    OBVIOUS
  <1>1. LogInv => MessagesWhole
    BY DEF LogInv, MessagesWhole, Log!MessagesWhole
  <1>2. LogInv /\ [Log!Next]_Log!vars => LogInv'
    BY <1>0, LogStep
  <1>3. Log!Init => LogInv
    BY LogInit
  <1> QED BY <1>1, <1>2, <1>3, PTL DEF Log!Spec

-----------------------------------------------------------------------------
(* Names: numbers in texts *)

DigitChar == {Listing!Digit[d + 1] : d \in 0..9}

\* The digits of a number, and what goes before the last.
LEMMA DigitFacts ==
  /\ \A k \in 1..10 : Listing!Digit[k] \in DigitChar
  /\ DigitChar \subseteq Char
  /\ "0" \in DigitChar /\ Listing!Digit[1] = "0"
  /\ \A d, e \in 0..9 : Listing!Digit[d + 1] = Listing!Digit[e + 1] => d = e
PROOF
  <1> DEFINE D == Listing!Digit
  <1>1. /\ D[1] = "0" /\ D[2] = "1" /\ D[3] = "2" /\ D[4] = "3" /\ D[5] = "4"
        /\ D[6] = "5" /\ D[7] = "6" /\ D[8] = "7" /\ D[9] = "8" /\ D[10] = "9"
    BY DEF Listing!Digit
  <1>2. \A x \in {"0", "1", "2", "3", "4", "5", "6", "7", "8", "9"} : x \in Char
    BY Zenon DEF Char, NameChar
  <1> HIDE DEF D
  <1>3. \A d \in 0..9 : D[d + 1] \in Char
    BY <1>1, <1>2
  <1>4. \A d, e \in 0..9 : D[d + 1] = D[e + 1] => d = e
    BY <1>1
  <1>5. \A k \in 1..10 : k - 1 \in 0..9 /\ (k - 1) + 1 = k
    OBVIOUS
  <1>6. \A k \in 1..10 : D[k] \in DigitChar
    BY <1>5 DEF DigitChar, D
  <1>7. 0 \in 0..9 /\ 0 + 1 = 1
    OBVIOUS
  <1> QED BY <1>1, <1>3, <1>4, <1>6, <1>7 DEF DigitChar, D

\* A number is ten times what is left without its last digit, and that digit.
LEMMA Tens ==
  ASSUME NEW m \in Nat
  PROVE  /\ m \div 10 \in Nat /\ m % 10 \in 0..9 /\ m = 10 * (m \div 10) + (m % 10)
         /\ m >= 10 => m \div 10 < m
PROOF
  <1>1. m \div 10 \in Int
    OBVIOUS
  <1>2. m % 10 \in 0..9
    OBVIOUS
  <1>3. m = 10 * (m \div 10) + (m % 10)
    OBVIOUS
  <1> DEFINE q == m \div 10
             r == m % 10
  <1>4. q \in Int /\ r \in 0..9 /\ m = 10 * q + r
    BY <1>1, <1>2, <1>3
  <1> HIDE DEF q, r
  <1>5. q \in Nat /\ (m >= 10 => q < m)
    BY <1>4
  <1> QED BY <1>4, <1>5 DEF q, r

\* The rounds of %d for all numbers up to n.
DigitRounds(g, n) ==
  \A m \in 0..n :
    g[m] = IF m < 10 THEN <<Listing!Digit[m + 1]>>
           ELSE Append(g[m \div 10], Listing!Digit[(m % 10) + 1])

\* The digits of a number are those of one function, in steps of ten.
LEMMA DigitRound ==
  ASSUME NEW n \in Nat, NEW g, DigitRounds(g, n), NEW m \in 0..n
  PROVE  /\ m < 10 => g[m] = <<Listing!Digit[m + 1]>>
         /\ m >= 10 => g[m] = Append(g[m \div 10], Listing!Digit[(m % 10) + 1])
PROOF
  <1>1. g[m] = IF m < 10 THEN <<Listing!Digit[m + 1]>>
               ELSE Append(g[m \div 10], Listing!Digit[(m % 10) + 1])
    BY Zenon DEF DigitRounds
  <1>2. m >= 10 => ~(m < 10)
    OBVIOUS
  <1> QED BY <1>1, <1>2

\* Such a function for one number more.
LEMMA DigitsMore ==
  ASSUME NEW n \in Nat, NEW g, DigitRounds(g, n)
  PROVE  \E h : DOMAIN h = 0..(n + 1) /\ DigitRounds(h, n + 1)
PROOF
  <1> DEFINE Next10(f, m) == IF m < 10 THEN <<Listing!Digit[m + 1]>>
                             ELSE Append(f[m \div 10], Listing!Digit[(m % 10) + 1])
             h == [m \in 0..(n + 1) |-> IF m = n + 1 THEN Next10(g, n + 1) ELSE g[m]]
  <1>1. ASSUME NEW m \in 0..(n + 1) PROVE h[m] = Next10(g, m)
    <2>1. CASE m = n + 1
      BY <2>1
    <2>2. CASE m # n + 1
      <3>1. m \in 0..n /\ h[m] = g[m]
        BY <2>2
      <3> QED BY <3>1 DEF DigitRounds
    <2> QED BY <2>1, <2>2
  <1>2. ASSUME NEW m \in 0..(n + 1) PROVE Next10(h, m) = Next10(g, m)
    <2>1. CASE m < 10
      BY <2>1
    <2>2. CASE m >= 10
      <3>1. m \div 10 \in 0..n
        <4>1. m \in Nat /\ m <= n + 1
          OBVIOUS
        <4>2. m \div 10 \in Nat /\ m \div 10 < m
          BY <2>2, <4>1, Tens
        <4> QED BY <4>1, <4>2
      <3>2. h[m \div 10] = g[m \div 10]
        BY <3>1
      <3> QED BY <3>2
    <2> QED BY <2>1, <2>2
  <1>3. DOMAIN h = 0..(n + 1)
    OBVIOUS
  <1> HIDE DEF h
  <1>4. \A m \in 0..(n + 1) : h[m] = Next10(h, m)
    BY <1>1, <1>2
  <1> QED BY <1>3, <1>4 DEF DigitRounds

\* There is such a function for every number.
LEMMA DigitsLoop ==
  ASSUME NEW n \in Nat
  PROVE  \E g : DigitRounds(g, n) /\ Listing!Digits(n) = g[n]
PROOF
  <1> DEFINE S == {m \in Nat : \E g : DOMAIN g = 0..m /\ DigitRounds(g, m)}
             Loop(g) == g = [m \in 0..n |-> IF m < 10 THEN <<Listing!Digit[m + 1]>>
                             ELSE Append(g[m \div 10], Listing!Digit[(m % 10) + 1])]
  <1>1. 0 \in S
    <2> DEFINE h == [m \in 0..0 |-> <<Listing!Digit[m + 1]>>]
    <2>1. DOMAIN h = 0..0 /\ DigitRounds(h, 0)
      BY DEF DigitRounds
    <2> QED BY <2>1
  <1>2. ASSUME NEW m \in Nat, m \in S PROVE m + 1 \in S
    BY <1>2, DigitsMore
  <1> HIDE DEF S
  <1>3. n \in S
    BY <1>1, <1>2, NatInd
  <1>4. PICK f : DOMAIN f = 0..n /\ DigitRounds(f, n)
    BY <1>3 DEF S
  <1>5. Loop([m \in 0..n |-> f[m]])
    <2> DEFINE h == [m \in 0..n |-> f[m]]
    <2>1. ASSUME NEW m \in 0..n, m >= 10 PROVE h[m \div 10] = f[m \div 10]
      <3>1. m \in Nat
        OBVIOUS
      <3>2. m \div 10 \in Nat /\ m \div 10 < m
        BY <2>1, <3>1, Tens
      <3>3. m \div 10 \in 0..n
        BY <3>2
      <3> QED BY <3>3
    <2>2. ASSUME NEW m \in 0..n
          PROVE  f[m] = IF m < 10 THEN <<Listing!Digit[m + 1]>>
                        ELSE Append(h[m \div 10], Listing!Digit[(m % 10) + 1])
      <3> HIDE DEF h
      <3>1. CASE m < 10
        BY <1>4, <3>1, DigitRound
      <3>2. CASE m >= 10
        <4>1. f[m] = Append(f[m \div 10], Listing!Digit[(m % 10) + 1])
          BY <1>4, <3>2, DigitRound
        <4>2. h[m \div 10] = f[m \div 10]
          BY <2>1, <3>2
        <4>3. ~(m < 10)
          BY <3>2
        <4> QED BY <4>1, <4>2, <4>3, Zenon
      <3> QED BY <3>1, <3>2
    <2> QED BY <2>2
  <1> DEFINE digits == CHOOSE g : Loop(g)
  <1>6. Loop(digits)
    <2> HIDE DEF Loop
    <2> QED BY <1>5
  <1>7. Listing!Digits(n) = digits[n]
    BY DEF Listing!Digits
  <1> HIDE DEF digits
  <1>8. DigitRounds(digits, n)
    BY <1>6 DEF DigitRounds
  <1> QED BY <1>7, <1>8

\* What goes before is the same for all numbers.
LEMMA SameDigits ==
  ASSUME NEW n \in Nat, NEW g, DigitRounds(g, n), NEW k \in Nat, NEW h, DigitRounds(h, k)
  PROVE  \A m \in Nat : m <= n /\ m <= k => g[m] = h[m]
PROOF
  <1> DEFINE S == {j \in Nat : \A m \in 0..j : m <= n /\ m <= k => g[m] = h[m]}
  <1>1. 0 \in S
    <2>1. ASSUME NEW m \in 0..0 PROVE g[m] = h[m]
      <3>1. m = 0 /\ m \in 0..n /\ m \in 0..k /\ m < 10
        OBVIOUS
      <3> QED BY <3>1 DEF DigitRounds
    <2> QED BY <2>1
  <1>2. ASSUME NEW j \in Nat, j \in S PROVE j + 1 \in S
    <2>1. SUFFICES ASSUME NEW m \in 0..(j + 1), m <= n, m <= k PROVE g[m] = h[m]
      OBVIOUS
    <2>2. m \in 0..n /\ m \in 0..k /\ m \in Nat
      BY <2>1
    <2>3. CASE m < 10
      <3>1. g[m] = <<Listing!Digit[m + 1]>> /\ h[m] = <<Listing!Digit[m + 1]>>
        BY <2>2, <2>3, DigitRound
      <3> QED BY <3>1
    <2>4. CASE m >= 10
      <3>1. m \div 10 \in Nat /\ m \div 10 < m
        BY <2>2, <2>4, Tens
      <3>2. m \div 10 \in 0..j /\ m \div 10 <= n /\ m \div 10 <= k
        BY <2>1, <3>1
      <3>3. g[m \div 10] = h[m \div 10]
        BY <1>2, <3>2
      <3>4. /\ g[m] = Append(g[m \div 10], Listing!Digit[(m % 10) + 1])
            /\ h[m] = Append(h[m \div 10], Listing!Digit[(m % 10) + 1])
        BY <2>2, <2>4, DigitRound
      <3> QED BY <3>3, <3>4, Zenon
    <2> QED BY <2>2, <2>3, <2>4
  <1> HIDE DEF S
  <1>3. Nat \subseteq S
    BY <1>1, <1>2, NatInd
  <1>4. ASSUME NEW m \in Nat PROVE m <= n /\ m <= k => g[m] = h[m]
    <2>1. m \in S /\ m \in 0..m
      BY <1>3
    <2> QED BY <2>1 DEF S
  <1> QED BY <1>4

\* The digits of a number are those before the last, and the last.
LEMMA DigitsAre ==
  ASSUME NEW n \in Nat
  PROVE  Listing!Digits(n) = IF n < 10 THEN <<Listing!Digit[n + 1]>>
           ELSE Append(Listing!Digits(n \div 10), Listing!Digit[(n % 10) + 1])
PROOF
  <1>1. PICK g : DigitRounds(g, n) /\ Listing!Digits(n) = g[n]
    BY DigitsLoop
  <1>2. n \in 0..n
    OBVIOUS
  <1>3. CASE n < 10
    BY <1>1, <1>2, <1>3 DEF DigitRounds
  <1>4. CASE n >= 10
    <2> DEFINE q == n \div 10
    <2>1. q \in Nat /\ q < n
      BY <1>4, Tens
    <2>2. PICK h : DigitRounds(h, q) /\ Listing!Digits(q) = h[q]
      BY <2>1, DigitsLoop
    <2>3. g[q] = h[q]
      <3> HIDE DEF q
      <3>1. q <= n /\ q <= q
        BY <2>1
      <3> QED BY <1>1, <2>1, <2>2, <3>1, SameDigits
    <2>4. ~(n < 10)
      BY <1>4
    <2> QED BY <1>1, <1>2, <2>2, <2>3, <2>4 DEF DigitRounds
  <1> QED BY <1>3, <1>4

\* What a digit is worth.
LEMMA ValueIs ==
  /\ \A d \in 0..9 : Listing!Value(Listing!Digit[d + 1]) = d
  /\ \A c \in DigitChar : Listing!Value(c) \in 0..9 /\ Listing!Digit[Listing!Value(c) + 1] = c
PROOF
  <1>1. ASSUME NEW d \in 0..9 PROVE Listing!Value(Listing!Digit[d + 1]) = d
    <2> DEFINE v == CHOOSE e \in 0..9 : Listing!Digit[e + 1] = Listing!Digit[d + 1]
    <2>1. v \in 0..9 /\ Listing!Digit[v + 1] = Listing!Digit[d + 1]
      BY Zenon
    <2>2. Listing!Value(Listing!Digit[d + 1]) = v
      BY DEF Listing!Value
    <2> HIDE DEF v
    <2>3. v = d
      BY <2>1, DigitFacts
    <2> QED BY <2>2, <2>3
  <1>2. ASSUME NEW c \in DigitChar
        PROVE  Listing!Value(c) \in 0..9 /\ Listing!Digit[Listing!Value(c) + 1] = c
    <2>1. PICK d \in 0..9 : c = Listing!Digit[d + 1]
      BY DEF DigitChar
    <2>2. Listing!Value(c) = d
      BY <1>1, <2>1
    <2> QED BY <2>1, <2>2
  <1> QED BY <1>1, <1>2

\* One more digit.
TenOf(n, c) == 10 * n + Listing!Value(c)

\* One more digit makes a number of a number.
LEMMA TenType ==
  ASSUME NEW n \in Nat, NEW c \in DigitChar
  PROVE  TenOf(n, c) \in Nat
PROOF
  <1>1. Listing!Value(c) \in Nat
    BY ValueIs
  <1> QED BY <1>1 DEF TenOf

\* There is a function that reads digit by digit.
LEMMA NumberLoop ==
  ASSUME NEW s \in Seq(DigitChar)
  PROVE  \E at \in [0..Len(s) -> Nat] :
           /\ at[0] = 0
           /\ \A k \in 1..Len(s) : at[k] = TenOf(at[k - 1], s[k])
           /\ Listing!Number(s) = at[Len(s)]
PROOF
  <1> DEFINE Loop(f) == f = [k \in 0..Len(s) |->
                               IF k = 0 THEN 0 ELSE 10 * f[k - 1] + Listing!Value(s[k])]
             step == [x \in (1..Len(s)) \X Nat |-> TenOf(x[2], s[x[1]])]
  <1>1. Len(s) \in Nat /\ \A k \in 1..Len(s) : s[k] \in DigitChar
    BY ElementOfSeq, LenProperties
  <1>2. step \in [(1..Len(s)) \X Nat -> Nat]
    BY <1>1, TenType
  <1>3. PICK f \in [0..Len(s) -> Nat] :
               f[0] = 0 /\ \A k \in 1..Len(s) : f[k] = step[<<k, f[k - 1]>>]
    <2> HIDE DEF step
    <2>1. \E f : History(f, Len(s), Nat, 0, step)
      BY <1>1, <1>2, Iterates
    <2> QED BY <2>1 DEF History
  <1>4. ASSUME NEW k \in 1..Len(s) PROVE f[k] = TenOf(f[k - 1], s[k])
    <2>1. k - 1 \in 0..Len(s)
      BY <1>1
    <2>2. <<k, f[k - 1]>> \in (1..Len(s)) \X Nat
      BY <1>3, <2>1
    <2> QED BY <1>3, <2>2
  <1>5. Loop(f)
    BY <1>3, <1>4 DEF TenOf
  <1> DEFINE at == CHOOSE g : Loop(g)
  <1>6. Loop(at)
    <2> HIDE DEF Loop
    <2> QED BY <1>5
  <1>7. Listing!Number(s) = at[Len(s)]
    BY DEF Listing!Number
  <1> HIDE DEF at
  <1>8. at[0] = 0 /\ \A k \in 1..Len(s) : at[k] = TenOf(at[k - 1], s[k])
    BY <1>1, <1>6 DEF TenOf
  <1>9. \A k \in 0..Len(s) : at[k] = f[k]
    <2>1. Together(at, f, Len(s))
      BY <1>3, <1>4, <1>8 DEF Together
    <2> QED BY <1>1, <2>1, SameHistory
  <1>10. Listing!Number(s) = f[Len(s)]
    BY <1>1, <1>7, <1>9
  <1> QED BY <1>3, <1>4, <1>10

\* Horner, digit by digit.
LEMMA NumberOf ==
  /\ Listing!Number(<<>>) = 0
  /\ \A s \in Seq(DigitChar), c \in DigitChar :
       /\ Listing!Number(s) \in Nat
       /\ Listing!Number(Append(s, c)) = TenOf(Listing!Number(s), c)
PROOF
  <1>1. Listing!Number(<<>>) = 0
    <2>1. <<>> \in Seq(DigitChar) /\ Len(<<>>) = 0
      BY EmptySeq
    <2> QED BY <2>1, NumberLoop
  <1>2. ASSUME NEW s \in Seq(DigitChar), NEW c \in DigitChar
        PROVE  /\ Listing!Number(s) \in Nat
               /\ Listing!Number(Append(s, c)) = TenOf(Listing!Number(s), c)
    <2> DEFINE t == Append(s, c)
    <2>1. /\ t \in Seq(DigitChar) /\ Len(t) = Len(s) + 1 /\ Len(s) \in Nat
          /\ t[Len(s) + 1] = c /\ \A k \in 1..Len(s) : t[k] = s[k]
      BY AppendProperties, LenProperties
    <2> HIDE DEF t
    <2>2. PICK f \in [0..Len(s) -> Nat] :
             /\ f[0] = 0
             /\ \A k \in 1..Len(s) : f[k] = TenOf(f[k - 1], s[k])
             /\ Listing!Number(s) = f[Len(s)]
      BY NumberLoop
    <2>3. PICK g \in [0..Len(t) -> Nat] :
             /\ g[0] = 0
             /\ \A k \in 1..Len(t) : g[k] = TenOf(g[k - 1], t[k])
             /\ Listing!Number(t) = g[Len(t)]
      BY <2>1, NumberLoop
    <2>4. \A k \in 0..Len(s) : f[k] = g[k]
      <3>1. \A k \in 1..Len(s) : k \in 1..Len(t)
        BY <2>1
      <3>2. Together(f, g, Len(s))
        BY <2>1, <2>2, <2>3, <3>1 DEF Together
      <3> QED BY <2>1, <3>2, SameHistory
    <2>5. g[Len(s) + 1] = TenOf(g[Len(s)], c)
      <3>1. Len(s) + 1 \in 1..Len(t) /\ (Len(s) + 1) - 1 = Len(s)
        BY <2>1
      <3> QED BY <2>1, <2>3, <3>1
    <2>6. Len(s) \in 0..Len(s) /\ g[Len(s)] = f[Len(s)]
      BY <2>1, <2>4
    <2> QED BY <2>1, <2>2, <2>3, <2>5, <2>6 DEF t
  <1> QED BY <1>1, <1>2

\* Digits are read as the number they were written for.
LEMMA DigitsRead ==
  ASSUME NEW n \in Nat
  PROVE  /\ Listing!Digits(n) \in Seq(DigitChar)
         /\ Listing!Number(Listing!Digits(n)) = n
PROOF
  <1> DEFINE Good(m) == /\ Listing!Digits(m) \in Seq(DigitChar)
                        /\ Listing!Number(Listing!Digits(m)) = m
             S == {j \in Nat : \A m \in 0..j : Good(m)}
  <1>1. ASSUME NEW m \in 0..9 PROVE Good(m)
    <2> DEFINE c == Listing!Digit[m + 1]
    <2>1. c \in DigitChar /\ m \in Nat /\ m < 10
      BY DEF DigitChar
    <2>2. Listing!Digits(m) = <<c>>
      BY <2>1, DigitsAre
    <2>3. Listing!Value(c) = m
      BY ValueIs
    <2> HIDE DEF c
    <2>4. <<c>> = Append(<<>>, c) /\ <<>> \in Seq(DigitChar) /\ <<c>> \in Seq(DigitChar)
      BY <2>1
    <2>5. Listing!Number(<<c>>) = TenOf(0, c)
      BY <2>1, <2>4, NumberOf, Zenon
    <2>6. TenOf(0, c) = m
      BY <2>1, <2>3 DEF TenOf
    <2> QED BY <2>2, <2>4, <2>5, <2>6
  <1>2. ASSUME NEW m \in Nat, m >= 10, Good(m \div 10) PROVE Good(m)
    <2> DEFINE c == Listing!Digit[(m % 10) + 1]
               q == m \div 10
               s == Listing!Digits(q)
    <2>1. m % 10 \in 0..9 /\ q \in Nat /\ m = 10 * q + (m % 10) /\ ~(m < 10)
      BY <1>2, Tens
    <2>2. c \in DigitChar /\ Listing!Value(c) = m % 10
      BY <2>1, ValueIs DEF DigitChar
    <2>3. Listing!Digits(m) = Append(s, c)
      BY <2>1, DigitsAre, Zenon
    <2>4. s \in Seq(DigitChar) /\ Listing!Number(s) = q
      BY <1>2
    <2> HIDE DEF s, c, q
    <2>5. Append(s, c) \in Seq(DigitChar) /\ Listing!Number(Append(s, c)) = TenOf(q, c)
      BY <2>2, <2>4, NumberOf, AppendProperties
    <2>6. TenOf(q, c) = m
      BY <2>1, <2>2 DEF TenOf
    <2> QED BY <2>3, <2>5, <2>6
  <1> HIDE DEF Good
  <1>3. 0 \in S
    BY <1>1
  <1>4. ASSUME NEW j \in Nat, j \in S PROVE j + 1 \in S
    <2>1. SUFFICES Good(j + 1)
      BY <1>4
    <2>2. CASE j + 1 < 10
      BY <1>1, <2>2
    <2>3. CASE j + 1 >= 10
      <3> DEFINE m == j + 1
      <3>1. m \in Nat /\ m >= 10
        BY <2>3
      <3>2. m \div 10 \in Nat /\ m \div 10 < m
        BY <3>1, Tens
      <3>3. m \div 10 \in 0..j
        BY <3>2
      <3>4. Good(m \div 10)
        BY <1>4, <3>3
      <3> QED BY <1>2, <3>1, <3>4
    <2> QED BY <2>2, <2>3
  <1> HIDE DEF S
  <1>5. n \in S
    BY <1>3, <1>4, NatInd
  <1>6. Good(n)
    BY <1>5 DEF S
  <1> QED BY <1>6 DEF Good

\* Digits are texts.
LEMMA DigitTexts ==
  /\ Seq(DigitChar) \subseteq Text
  /\ \A s, t \in Seq(DigitChar) : s \o t \in Seq(DigitChar)
PROOF
  <1>1. \A s \in Seq(DigitChar) : s \in Seq(Char)
    BY DigitFacts, SeqMonotonic
  <1> QED BY <1>1, ConcatProperties DEF Text

\* Zeros in front of a number are not seen.
Zeros(z) == [k \in 1..z |-> "0"]

\* Zeros alone are read as zero.
LEMMA ZerosAre ==
  ASSUME NEW z \in Nat
  PROVE  /\ Zeros(z) \in Seq(DigitChar) /\ Len(Zeros(z)) = z
         /\ Listing!Number(Zeros(z)) = 0
PROOF
  <1>1. \A y \in Nat : Zeros(y) \in Seq(DigitChar) /\ Len(Zeros(y)) = y
    <2>1. SUFFICES ASSUME NEW y \in Nat PROVE Zeros(y) \in Seq(DigitChar) /\ Len(Zeros(y)) = y
      OBVIOUS
    <2>2. "0" \in DigitChar
      BY DigitFacts
    <2>3. Zeros(y) \in [1..y -> DigitChar] /\ DOMAIN Zeros(y) = 1..y
      BY <2>2 DEF Zeros
    <2> QED BY <2>3, SeqDef, LenProperties
  <1> DEFINE S == {y \in Nat : Listing!Number(Zeros(y)) = 0}
  <1>2. 0 \in S
    <2>1. Zeros(0) = <<>>
      BY <1>1, EmptySeq
    <2> QED BY <2>1, NumberOf
  <1>3. ASSUME NEW y \in Nat, y \in S PROVE y + 1 \in S
    <2> DEFINE s == Zeros(y)
               t == Zeros(y + 1)
    <2>1. s \in Seq(DigitChar) /\ Len(s) = y /\ t \in Seq(DigitChar) /\ Len(t) = y + 1
      BY <1>1
    <2>2. "0" \in DigitChar
      BY DigitFacts
    <2>3. /\ Append(s, "0") \in Seq(DigitChar) /\ Len(Append(s, "0")) = y + 1
          /\ Append(s, "0")[y + 1] = "0" /\ \A k \in 1..y : Append(s, "0")[k] = s[k]
      BY <2>1, <2>2, AppendProperties
    <2>4. \A k \in 1..y : s[k] = "0"
      BY DEF Zeros
    <2>5. \A k \in 1..(y + 1) : t[k] = "0"
      BY DEF Zeros
    <2> HIDE DEF s, t
    <2>6. \A k \in 1..(y + 1) : t[k] = Append(s, "0")[k]
      BY <2>3, <2>4, <2>5
    <2>7. t = Append(s, "0")
      BY <2>1, <2>3, <2>6, SeqEqual
    <2>8. Listing!Number(s) = 0
      BY <1>3 DEF s
    <2>9. Listing!Number(t) = TenOf(0, "0")
      BY <2>1, <2>2, <2>7, <2>8, NumberOf
    <2>10. Listing!Value("0") = 0
      <3>1. 0 \in 0..9 /\ Listing!Digit[0 + 1] = "0"
        BY DigitFacts
      <3> QED BY <3>1, ValueIs
    <2>11. TenOf(0, "0") = 0
      BY <2>10 DEF TenOf
    <2> QED BY <2>9, <2>11 DEF t
  <1> HIDE DEF S
  <1>4. z \in S
    BY <1>2, <1>3, NatInd
  <1> QED BY <1>1, <1>4 DEF S

\* What is read as zero adds nothing to what is behind it.
LEMMA ZerosUnseen ==
  ASSUME NEW z \in Seq(DigitChar), Listing!Number(z) = 0, NEW s \in Seq(DigitChar)
  PROVE  Listing!Number(z \o s) = Listing!Number(s)
PROOF
  <1> DEFINE Good == {t \in Seq(DigitChar) : Listing!Number(z \o t) = Listing!Number(t)}
  <1>1. <<>> \in Good
    <2>1. z \o <<>> = z /\ <<>> \in Seq(DigitChar)
      BY ConcatEmptySeq
    <2> QED BY <2>1, NumberOf
  <1>2. ASSUME NEW t \in Seq(DigitChar), NEW c \in DigitChar, t \in Good
        PROVE  Append(t, c) \in Good
    <2>1. z \o Append(t, c) = Append(z \o t, c)
      <3>1. z \in Text /\ t \in Text /\ z \o t \in Text /\ c \in Char
        BY DigitTexts, DigitFacts, Concat
      <3>2. /\ Append(t, c) = t \o <<c>> /\ Append(z \o t, c) = (z \o t) \o <<c>>
            /\ <<c>> \in Text
        BY <3>1, AppendText
      <3>3. (z \o t) \o <<c>> = z \o (t \o <<c>>)
        BY <3>1, <3>2, Assoc
      <3> QED BY <3>2, <3>3
    <2>2. Append(t, c) \in Seq(DigitChar) /\ z \o t \in Seq(DigitChar)
      BY AppendProperties, DigitTexts
    <2>3. Listing!Number(z \o t) = Listing!Number(t)
      BY <1>2
    <2>4. Listing!Number(Append(z \o t, c)) = TenOf(Listing!Number(t), c)
      BY <2>2, <2>3, NumberOf
    <2>5. Listing!Number(Append(t, c)) = TenOf(Listing!Number(t), c)
      BY NumberOf
    <2> QED BY <2>1, <2>2, <2>4, <2>5
  <1> HIDE DEF Good
  <1>3. s \in Good
    BY <1>1, <1>2, SeqInd
  <1> QED BY <1>3 DEF Good

\* A number in a name, with zeros or without, is read as it is.
LEMMA PaddedRead ==
  ASSUME NEW n \in Nat, NEW w \in Nat
  PROVE  /\ Listing!Padded(n, w) \in Seq(DigitChar)
         /\ Listing!Number(Listing!Padded(n, w)) = n
         /\ Len(Listing!Digits(n)) <= w => Len(Listing!Padded(n, w)) = w
PROOF
  <1> DEFINE s == Listing!Digits(n)
             z == IF Len(s) < w THEN w - Len(s) ELSE 0
  <1>1. s \in Seq(DigitChar) /\ Listing!Number(s) = n /\ Len(s) \in Nat
    BY DigitsRead, LenProperties
  <1>2. Listing!Padded(n, w) = Zeros(z) \o s
    BY DEF Listing!Padded, Zeros
  <1> HIDE DEF s
  <1>3. z \in Nat /\ (Len(s) <= w => z + Len(s) = w)
    BY <1>1
  <1> HIDE DEF z
  <1>4. Zeros(z) \in Seq(DigitChar) /\ Len(Zeros(z)) = z /\ Listing!Number(Zeros(z)) = 0
    BY <1>3, ZerosAre
  <1>5. /\ Zeros(z) \o s \in Seq(DigitChar)
        /\ Len(Zeros(z) \o s) = z + Len(s)
        /\ Listing!Number(Zeros(z) \o s) = n
    BY <1>1, <1>4, ZerosUnseen, ConcatProperties
  <1> QED BY <1>2, <1>3, <1>5 DEF s

-----------------------------------------------------------------------------
(* Names: the order of texts and of numbers *)

\* Two numbers of as many digits are as their first digits that differ.
LEMMA FirstDigit ==
  ASSUME NEW a \in Seq(DigitChar), NEW b \in Seq(DigitChar), Len(a) = Len(b),
         NEW k \in 1..Len(a), \A i \in 1..(k - 1) : a[i] = b[i],
         Listing!Value(a[k]) < Listing!Value(b[k])
  PROVE  Listing!Number(a) < Listing!Number(b)
PROOF
  <1> DEFINE Less(s, t) ==
               \A l \in 1..Len(s) :
                 (\A i \in 1..(l - 1) : s[i] = t[i]) /\ Listing!Value(s[l]) < Listing!Value(t[l])
                   => Listing!Number(s) < Listing!Number(t)
             N == {n \in Nat : \A s, t \in Seq(DigitChar) : Len(s) = n /\ Len(t) = n => Less(s, t)}
  <1>1. 0 \in N
    OBVIOUS
  <1>2. ASSUME NEW n \in Nat, n \in N PROVE n + 1 \in N
    <2>1. SUFFICES ASSUME NEW s \in Seq(DigitChar), NEW t \in Seq(DigitChar),
                          Len(s) = n + 1, Len(t) = n + 1, NEW l \in 1..(n + 1),
                          \A i \in 1..(l - 1) : s[i] = t[i],
                          Listing!Value(s[l]) < Listing!Value(t[l])
                   PROVE  Listing!Number(s) < Listing!Number(t)
      OBVIOUS
    <2>2. s # <<>> /\ t # <<>>
      BY <2>1, EmptySeq
    <2>3. PICK u \in Seq(DigitChar), c \in DigitChar : s = Append(u, c)
      BY <2>2, SequenceEmptyOrAppend
    <2>4. PICK v \in Seq(DigitChar), d \in DigitChar : t = Append(v, d)
      BY <2>2, SequenceEmptyOrAppend
    <2>5. /\ Len(u) = n /\ Len(v) = n /\ s[n + 1] = c /\ t[n + 1] = d
          /\ \A i \in 1..n : s[i] = u[i] /\ t[i] = v[i]
      BY <2>1, <2>3, <2>4, AppendProperties, LenProperties
    <2> DEFINE x == Listing!Number(u)
               y == Listing!Number(v)
               p == Listing!Value(c)
               q == Listing!Value(d)
    <2>6. /\ x \in Nat /\ y \in Nat /\ p \in 0..9 /\ q \in 0..9
          /\ Listing!Number(s) = TenOf(x, c) /\ Listing!Number(t) = TenOf(y, d)
      BY <2>3, <2>4, NumberOf, ValueIs
    <2>7. TenOf(x, c) = 10 * x + p /\ TenOf(y, d) = 10 * y + q
      BY DEF TenOf
    <2>8. CASE l = n + 1
      <3>1. \A i \in 1..n : u[i] = v[i]
        BY <2>1, <2>5, <2>8
      <3>2. u = v
        BY <2>5, <3>1, SeqEqual
      <3>3. p < q
        BY <2>1, <2>5, <2>8
      <3>4. x = y
        BY <3>2
      <3> HIDE DEF x, y, p, q
      <3> QED BY <2>6, <2>7, <3>3, <3>4
    <2>9. CASE l \in 1..n
      <3>1. \A i \in 1..(l - 1) : u[i] = v[i]
        <4>1. ASSUME NEW i \in 1..(l - 1) PROVE u[i] = v[i]
          <5>1. i \in 1..n
            BY <2>9
          <5> QED BY <2>1, <2>5, <5>1
        <4> QED BY <4>1
      <3>2. Listing!Value(u[l]) < Listing!Value(v[l])
        BY <2>1, <2>5, <2>9
      <3>3. Less(u, v)
        <4> HIDE DEF Less
        <4> QED BY <1>2, <2>5
      <3>4. x < y
        BY <2>5, <2>9, <3>1, <3>2, <3>3
      <3> HIDE DEF x, y, p, q
      <3>5. x + 1 <= y
        BY <2>6, <3>4
      <3> QED BY <2>6, <2>7, <3>5
    <2> QED BY <2>8, <2>9
  <1> HIDE DEF N
  <1>3. Len(a) \in N
    BY <1>1, <1>2, NatInd, LenProperties
  <1>4. Less(a, b)
    <2> HIDE DEF Less
    <2> QED BY <1>3 DEF N
  <1> QED BY <1>4

\* The characters of names in their order.
LEMMA CodesAre ==
  /\ \A d \in 0..9 : Listing!Code(Listing!Digit[d + 1]) = d + 3
  /\ Listing!Code("p") = 13 /\ Listing!Code("z") = 16
PROOF
  <1> DEFINE D == Listing!Digit
             C == <<"-", ".", "0", "1", "2", "3", "4", "5", "6", "7", "8", "9", "p", "t", "u", "z">>
  <1>1. /\ D[1] = "0" /\ D[2] = "1" /\ D[3] = "2" /\ D[4] = "3" /\ D[5] = "4"
        /\ D[6] = "5" /\ D[7] = "6" /\ D[8] = "7" /\ D[9] = "8" /\ D[10] = "9"
    BY DEF Listing!Digit
  <1>2. /\ C[1] = "-" /\ C[2] = "." /\ C[3] = "0" /\ C[4] = "1" /\ C[5] = "2" /\ C[6] = "3"
        /\ C[7] = "4" /\ C[8] = "5" /\ C[9] = "6" /\ C[10] = "7" /\ C[11] = "8" /\ C[12] = "9"
        /\ C[13] = "p" /\ C[14] = "t" /\ C[15] = "u" /\ C[16] = "z"
    OBVIOUS
  <1>3. \A c : Listing!Code(c) = CHOOSE k \in 1..16 : C[k] = c
    BY DEF Listing!Code
  <1> HIDE DEF C, D
  <1>4. \A k, l \in 1..16 : C[k] = C[l] => k = l
    BY <1>2
  <1>5. ASSUME NEW k \in 1..16 PROVE Listing!Code(C[k]) = k
    <2> DEFINE v == CHOOSE l \in 1..16 : C[l] = C[k]
    <2>1. v \in 1..16 /\ C[v] = C[k]
      BY Zenon
    <2>2. Listing!Code(C[k]) = v
      BY <1>3
    <2> HIDE DEF v
    <2> QED BY <1>4, <2>1, <2>2
  <1>6. \A d \in 0..9 : D[d + 1] = C[d + 3] /\ d + 3 \in 1..16
    BY <1>1, <1>2
  <1>7. 13 \in 1..16 /\ 16 \in 1..16
    OBVIOUS
  <1> QED BY <1>2, <1>5, <1>6, <1>7 DEF D

\* The order of two strings is that of the first place where they differ.
LEMMA AtMostIs ==
  ASSUME NEW a \in Text, NEW b \in Text, NEW k \in 1..Len(a), k <= Len(b),
         \A i \in 1..(k - 1) : a[i] = b[i], a[k] # b[k]
  PROVE  Listing!AtMost(a, b) <=> Listing!Code(a[k]) < Listing!Code(b[k])
PROOF
  <1> DEFINE differ == {x \in DOMAIN a \cap DOMAIN b : a[x] # b[x]}
             first == CHOOSE x \in differ : \A y \in differ : x <= y
  <1>1. /\ DOMAIN a = 1..Len(a) /\ DOMAIN b = 1..Len(b) /\ Len(a) \in Nat /\ Len(b) \in Nat
    BY LenProperties DEF Text
  <1>2. k \in differ /\ \A y \in differ : k <= y
    BY <1>1
  <1>3. \A y \in differ : y \in Nat
    BY <1>1
  <1>4. Listing!AtMost(a, b) <=> Listing!Code(a[first]) < Listing!Code(b[first])
    <2>1. differ # {}
      BY <1>2
    <2> QED BY <2>1, Zenon DEF Listing!AtMost
  <1> HIDE DEF differ
  <1>5. first \in differ /\ \A y \in differ : first <= y
    BY <1>2, Zenon
  <1> HIDE DEF first
  <1>6. first = k
    BY <1>2, <1>3, <1>5
  <1> QED BY <1>4, <1>6

\* A text of two, of m and k characters.
Two(w, s, m, u, k) ==
  /\ m \in Nat /\ k \in Nat /\ w \in Text /\ Len(w) = m + k
  /\ \A i \in 1..m : w[i] = s[i]
  /\ \A i \in 1..k : w[m + i] = u[i]

\* A concatenation is such a text.
LEMMA TwoTexts ==
  ASSUME NEW s \in Text, NEW u \in Text
  PROVE  Two(s \o u, s, Len(s), u, Len(u))
PROOF
  <1> DEFINE m == Len(s)
             k == Len(u)
             w == s \o u
  <1>1. /\ w \in Text /\ m \in Nat /\ k \in Nat /\ Len(w) = m + k
        /\ \A i \in 1..(m + k) : w[i] = IF i <= m THEN s[i] ELSE u[i - m]
    BY Concat
  <1> HIDE DEF m, k, w
  <1>2. ASSUME NEW i \in 1..m PROVE w[i] = s[i]
    BY <1>1
  <1>3. ASSUME NEW i \in 1..k PROVE w[m + i] = u[i]
    <2>1. m + i \in 1..(m + k) /\ ~(m + i <= m) /\ (m + i) - m = i
      BY <1>1
    <2> QED BY <1>1, <2>1
  <1>4. Two(w, s, m, u, k)
    BY <1>1, <1>2, <1>3 DEF Two
  <1> QED BY <1>4 DEF m, k, w

\* A text that begins with a letter and n digits, and k characters behind them.
Lettered(a, c, P, n, y, k) ==
  /\ n \in Nat /\ k \in Nat /\ a \in Text /\ Len(a) = n + 1 + k
  /\ a[1] = c
  /\ \A i \in 1..n : a[i + 1] = P[i]
  /\ \A i \in 1..k : a[n + 1 + i] = y[i]

\* So is what a name and a limit begin with.
LEMMA LetteredText ==
  ASSUME NEW t \in Text, Len(t) = 1, NEW P \in Text, NEW y \in Text
  PROVE  Lettered((t \o P) \o y, t[1], P, Len(P), y, Len(y))
PROOF
  <1> DEFINE x == t \o P
             a == x \o y
             n == Len(P)
             k == Len(y)
  <1>1. Two(x, t, 1, P, n)
    <2>1. Two(x, t, Len(t), P, n)
      BY TwoTexts
    <2> QED BY <2>1
  <1> HIDE DEF x, n
  <1>2. Two(a, x, 1 + n, y, k)
    <2>1. x \in Text /\ Len(x) = 1 + n
      BY <1>1 DEF Two
    <2>2. Two(a, x, Len(x), y, k)
      BY <2>1, TwoTexts
    <2> QED BY <2>1, <2>2
  <1> HIDE DEF a, k
  <1>3. a[1] = t[1]
    <2>1. 1 \in 1..1 /\ 1 \in 1..(1 + n)
      BY <1>1 DEF Two
    <2> QED BY <1>1, <1>2, <2>1 DEF Two
  <1>4. ASSUME NEW i \in 1..n PROVE a[i + 1] = P[i]
    <2>1. i + 1 \in 1..(1 + n) /\ 1 + i = i + 1
      BY <1>1 DEF Two
    <2>2. a[i + 1] = x[i + 1] /\ x[1 + i] = P[i]
      BY <1>1, <1>2, <2>1 DEF Two
    <2> QED BY <2>1, <2>2
  <1>5. ASSUME NEW i \in 1..k PROVE a[n + 1 + i] = y[i]
    <2>1. n + 1 + i = (1 + n) + i
      BY <1>1, <1>2 DEF Two
    <2>2. a[(1 + n) + i] = y[i]
      BY <1>2 DEF Two
    <2> QED BY <2>1, <2>2
  <1>6. Lettered(a, t[1], P, n, y, k)
    BY <1>1, <1>2, <1>3, <1>4, <1>5 DEF Two, Lettered
  <1> QED BY <1>6 DEF a, x, n, k

\* The order of two names is that of their digits.
LEMMA DigitsOrder ==
  ASSUME NEW P \in Seq(DigitChar), NEW D \in Seq(DigitChar), NEW n \in Nat,
         Len(P) = n, Len(D) = n, NEW a \in Text, NEW b \in Text,
         Len(a) >= n + 3, Len(b) >= n + 3, a[1] = b[1], a[n + 2] = b[n + 2],
         \A i \in 1..n : a[i + 1] = P[i] /\ b[i + 1] = D[i],
         a[n + 3] = "p", b[n + 3] = "z"
  PROVE  Listing!AtMost(a, b) <=> Listing!Number(P) <= Listing!Number(D)
PROOF
  <1>0. Len(a) \in Nat /\ Len(b) \in Nat
    BY LenProperties DEF Text
  <1>1. Listing!Number(P) \in Nat /\ Listing!Number(D) \in Nat
    <2>1. "0" \in DigitChar
      BY DigitFacts
    <2> QED BY <2>1, NumberOf
  <1>2. ASSUME NEW j \in 0..n, \A i \in 1..j : P[i] = D[i]
        PROVE  \A i \in 1..(j + 1) : a[i] = b[i]
    <2>1. SUFFICES ASSUME NEW i \in 1..(j + 1) PROVE a[i] = b[i]
      OBVIOUS
    <2>2. CASE i = 1
      BY <2>2
    <2>3. CASE i # 1
      <3>1. PICK h \in 1..j : i = h + 1
        <4>1. i - 1 \in 1..j /\ i = (i - 1) + 1
          BY <2>3
        <4> QED BY <4>1
      <3>2. h \in 1..n
        BY <3>1
      <3>3. a[h + 1] = P[h] /\ b[h + 1] = D[h]
        BY <3>2
      <3> QED BY <1>2, <3>1, <3>3
    <2> QED BY <2>2, <2>3
  <1>3. CASE P = D
    <2>1. ASSUME NEW i \in 1..((n + 3) - 1) PROVE a[i] = b[i]
      <3>1. \A h \in 1..(n + 1) : a[h] = b[h]
        <4>1. n \in 0..n /\ \A h \in 1..n : P[h] = D[h]
          BY <1>3
        <4> QED BY <1>2, <4>1
      <3>2. i \in 1..(n + 1) \/ i = n + 2
        OBVIOUS
      <3> QED BY <3>1, <3>2
    <2>2. n + 3 \in 1..Len(a) /\ n + 3 <= Len(b)
      BY <1>0
    <2>3. Listing!AtMost(a, b) <=> Listing!Code(a[n + 3]) < Listing!Code(b[n + 3])
      <3>1. a[n + 3] # b[n + 3]
        OBVIOUS
      <3> QED BY <2>1, <2>2, <3>1, AtMostIs
    <2>4. Listing!Code(a[n + 3]) < Listing!Code(b[n + 3])
      BY CodesAre
    <2>5. Listing!Number(P) <= Listing!Number(D)
      BY <1>1, <1>3
    <2> QED BY <2>3, <2>4, <2>5
  <1>4. CASE P # D
    <2> DEFINE X == {i \in 1..n : P[i] # D[i]}
    <2>1. X # {}
      BY <1>4, SeqEqual
    <2>2. X \subseteq Nat
      OBVIOUS
    <2>3. PICK k \in X : \A y \in X : k <= y
      <3> HIDE DEF X
      <3> QED BY <2>1, <2>2, Least
    <2>4. /\ k \in 1..n /\ P[k] # D[k] /\ \A i \in 1..(k - 1) : P[i] = D[i]
      <3>1. ASSUME NEW i \in 1..(k - 1) PROVE P[i] = D[i]
        <4>1. i \in 1..n /\ ~(k <= i)
          BY <2>3
        <4> QED BY <2>3, <4>1
      <3> QED BY <2>3, <3>1
    <2> HIDE DEF X
    <2>5. P[k] \in DigitChar /\ D[k] \in DigitChar
      BY <2>4, ElementOfSeq
    <2> DEFINE v == Listing!Value(P[k])
               w == Listing!Value(D[k])
    <2>6. /\ v \in 0..9 /\ w \in 0..9
          /\ Listing!Digit[v + 1] = P[k] /\ Listing!Digit[w + 1] = D[k]
      BY <2>5, ValueIs
    <2>7. Listing!Code(P[k]) = v + 3 /\ Listing!Code(D[k]) = w + 3
      <3> HIDE DEF v, w
      <3>1. Listing!Code(Listing!Digit[v + 1]) = v + 3 /\ Listing!Code(Listing!Digit[w + 1]) = w + 3
        BY <2>6, CodesAre
      <3> QED BY <2>6, <3>1
    <2>8. v < w => Listing!Number(P) < Listing!Number(D)
      BY <2>4, FirstDigit
    <2>9. w < v => Listing!Number(D) < Listing!Number(P)
      <3>1. \A i \in 1..(k - 1) : D[i] = P[i]
        BY <2>4
      <3> QED BY <2>4, <3>1, FirstDigit
    <2> HIDE DEF v, w
    <2>10. v # w
      BY <2>4, <2>6
    <2>11. \A i \in 1..((k + 1) - 1) : a[i] = b[i]
      <3>1. k - 1 \in 0..n /\ (k - 1) + 1 = k /\ (k + 1) - 1 = k
        BY <2>4
      <3>2. \A i \in 1..((k - 1) + 1) : a[i] = b[i]
        BY <1>2, <2>4, <3>1
      <3> QED BY <3>1, <3>2
    <2>12. k + 1 \in 1..Len(a) /\ k + 1 <= Len(b) /\ a[k + 1] = P[k] /\ b[k + 1] = D[k]
      BY <1>0, <2>4
    <2>13. Listing!AtMost(a, b) <=> Listing!Code(a[k + 1]) < Listing!Code(b[k + 1])
      <3>1. a[k + 1] # b[k + 1]
        BY <2>4, <2>12
      <3> QED BY <2>11, <2>12, <3>1, AtMostIs
    <2>14. Listing!AtMost(a, b) <=> v < w
      <3>1. Listing!AtMost(a, b) <=> v + 3 < w + 3
        BY <2>7, <2>12, <2>13
      <3> QED BY <2>6, <3>1
    <2> QED BY <1>1, <2>6, <2>8, <2>9, <2>10, <2>14
  <1> QED BY <1>3, <1>4

\* The time filter compares the digits of a name with those of the limit.
LEMMA FilterIs ==
  ASSUME NEW P \in Seq(DigitChar), NEW D \in Seq(DigitChar), Len(P) = Len(D), NEW rest \in Text
  PROVE  Listing!AtMost((<<"t">> \o P) \o (<<".", "p">> \o rest),
                        (<<"t">> \o D) \o <<".", "z", "z", "z">>)
           <=> Listing!Number(P) <= Listing!Number(D)
PROOF
  <1> DEFINE t == <<"t">>
             p == <<".", "p">>
             z == <<".", "z", "z", "z">>
  <1>1. /\ t \in Text /\ Len(t) = 1 /\ t[1] = "t"
        /\ p \in Text /\ Len(p) = 2 /\ p[1] = "." /\ p[2] = "p"
        /\ z \in Text /\ Len(z) = 4 /\ z[1] = "." /\ z[2] = "z"
    <2>1. "t" \in Char /\ "." \in Char /\ "p" \in Char /\ "z" \in Char
      BY Zenon DEF Char, NameChar
    <2> QED BY <2>1 DEF Text
  <1> HIDE DEF t, p, z
  <1>2. P \in Text /\ D \in Text
    BY DigitTexts
  <1> DEFINE y == p \o rest
             k == Len(y)
  <1>3. y \in Text /\ k \in Nat /\ k >= 2 /\ y[1] = "." /\ y[2] = "p"
    <2>1. Two(y, p, 2, rest, Len(rest))
      <3>1. Two(y, p, Len(p), rest, Len(rest))
        BY <1>1, TwoTexts
      <3> QED BY <1>1, <3>1
    <2> HIDE DEF y
    <2>2. 1 \in 1..2 /\ 2 \in 1..2
      OBVIOUS
    <2> QED BY <1>1, <2>1, <2>2 DEF Two
  <1> HIDE DEF y, k
  <1> DEFINE n == Len(P)
             a == (t \o P) \o y
             b == (t \o D) \o z
  <1>4. Lettered(a, "t", P, n, y, k)
    <2>1. Lettered(a, t[1], P, n, y, Len(y))
      BY <1>1, <1>2, <1>3, LetteredText
    <2> QED BY <1>1, <2>1 DEF k
  <1>5. Lettered(b, "t", D, n, z, 4)
    <2>1. Lettered(b, t[1], D, Len(D), z, Len(z))
      BY <1>1, <1>2, LetteredText
    <2> QED BY <1>1, <2>1
  <1>6. Len(P) = n /\ Len(D) = n
    OBVIOUS
  <1> HIDE DEF n, a, b
  <1>7. /\ n \in Nat /\ a \in Text /\ b \in Text
        /\ Len(a) >= n + 3 /\ Len(b) >= n + 3 /\ a[1] = b[1]
    BY <1>3, <1>4, <1>5 DEF Lettered
  <1>8. \A i \in 1..n : a[i + 1] = P[i] /\ b[i + 1] = D[i]
    BY <1>4, <1>5 DEF Lettered
  <1>9. a[n + 2] = b[n + 2] /\ a[n + 3] = "p" /\ b[n + 3] = "z"
    <2>1. 1 \in 1..k /\ 2 \in 1..k /\ 1 \in 1..4 /\ 2 \in 1..4
          /\ n + 1 + 1 = n + 2 /\ n + 1 + 2 = n + 3
      BY <1>3, <1>7
    <2>2. /\ a[n + 1 + 1] = y[1] /\ a[n + 1 + 2] = y[2]
          /\ b[n + 1 + 1] = z[1] /\ b[n + 1 + 2] = z[2]
      BY <1>4, <1>5, <2>1 DEF Lettered
    <2> QED BY <1>1, <1>3, <2>1, <2>2
  <1>10. Listing!AtMost(a, b) <=> Listing!Number(P) <= Listing!Number(D)
    BY <1>6, <1>7, <1>8, <1>9, DigitsOrder
  <1> QED BY <1>10 DEF a, b, y, t, p, z

-----------------------------------------------------------------------------
(* Names: taken apart *)

\* The parts that are cut off a text, and the rest of it.
CutTo(s, sp, list, rest) ==
  /\ sp \in Parted /\ sp.b <= Len(s) + 1 /\ sp.ret = list
  /\ SubSeq(s, sp.b, Len(s)) = rest

\* The next part is what comes before the next separator.
LEMMA NextPiece ==
  ASSUME NEW s \in Text, NEW c \in Char, NEW parts \in Nat, NEW sp, NEW list,
         NEW piece \in Text, NEW rest \in Text,
         CutTo(s, sp, list, piece \o (<<c>> \o rest)),
         \A i \in 1..Len(piece) : piece[i] # c,
         list = <<>> \/ parts = 0 \/ Len(list) # parts - 1
  PROVE  CutTo(s, SplitOnce(s, <<c>>, parts, sp), Append(list, piece), rest)
PROOF
  <1> DEFINE d == <<c>>
             L == Len(s)
             b == sp.b
             v == d \o rest
             u == piece \o v
             m == Len(piece)
             r == Len(rest)
  <1>1. /\ sp \in Parted /\ b \in Nat \ {0} /\ b <= L + 1 /\ sp.ret = list
        /\ list \in Seq(Text) /\ SubSeq(s, b, L) = u
    BY DEF CutTo, Parted
  <1>2. L \in Nat /\ m \in Nat /\ r \in Nat
    BY LenProperties DEF Text
  <1>3. d \in Text /\ Len(d) = 1 /\ d[1] = c /\ d # <<>>
    BY DEF Text
  <1>4. Two(v, d, 1, rest, r)
    <2>1. Two(v, d, Len(d), rest, r)
      BY <1>3, TwoTexts
    <2> QED BY <1>3, <2>1
  <1> HIDE DEF d, v, r, L, b, m
  <1>5. Two(u, piece, m, v, 1 + r)
    <2>1. v \in Text /\ Len(v) = 1 + r
      BY <1>4 DEF Two
    <2>2. Two(u, piece, Len(piece), v, Len(v))
      BY <2>1, TwoTexts
    <2> QED BY <2>1, <2>2 DEF m
  <1> HIDE DEF u
  <1>6. Len(u) = L - b + 1 /\ \A i \in 1..(L - b + 1) : u[i] = s[b + i - 1]
    <2>1. b \in Nat \ {0} /\ L \in Nat /\ L <= Len(s) /\ b <= L + 1
      BY <1>1, <1>2 DEF L
    <2>2. /\ Len(SubSeq(s, b, L)) = L - b + 1
          /\ \A i \in 1..(L - b + 1) : SubSeq(s, b, L)[i] = s[b + i - 1]
      BY <2>1, SubText
    <2> QED BY <1>1, <2>2
  <1>7. L - b + 1 = m + (1 + r)
    BY <1>5, <1>6 DEF Two
  <1> DEFINE e == b + m
  <1>8. e \in b..L /\ e \in Nat \ {0} /\ s[e] = c
    <2>1. e \in b..L /\ e \in Nat \ {0}
      BY <1>1, <1>2, <1>7
    <2>2. m + 1 \in 1..(L - b + 1) /\ 1 \in 1..(1 + r) /\ 1 \in 1..1 /\ b + (m + 1) - 1 = e
      BY <1>1, <1>2, <1>7
    <2>3. u[m + 1] = s[b + (m + 1) - 1]
      BY <1>6, <2>2
    <2>4. u[m + 1] = v[1]
      BY <1>5, <2>2 DEF Two
    <2>5. v[1] = d[1]
      BY <1>4, <2>2 DEF Two
    <2> QED BY <1>3, <2>1, <2>2, <2>3, <2>4, <2>5
  <1>9. ASSUME NEW i \in 1..m PROVE s[b + i - 1] = piece[i]
    <2>1. i \in 1..(L - b + 1)
      BY <1>2, <1>7
    <2> QED BY <1>5, <1>6, <2>1 DEF Two
  <1>10. ASSUME NEW i \in 1..r PROVE s[e + i] = rest[i]
    <2>1. /\ m + (1 + i) \in 1..(L - b + 1) /\ 1 + i \in 1..(1 + r)
          /\ b + (m + (1 + i)) - 1 = e + i
      <3>1. i \in Nat /\ i >= 1 /\ i <= r /\ b \in Nat
        BY <1>1, <1>2
      <3>2. m + (1 + i) \in Nat /\ m + (1 + i) >= 1 /\ m + (1 + i) <= L - b + 1
        BY <1>1, <1>2, <1>7, <3>1
      <3>3. b + (m + (1 + i)) - 1 = e + i
        BY <1>2, <3>1
      <3>4. 1 + i \in 1..(1 + r)
        BY <1>2, <3>1
      <3> QED BY <1>1, <1>2, <3>2, <3>3, <3>4
    <2>2. u[m + (1 + i)] = s[b + (m + (1 + i)) - 1]
      BY <1>6, <2>1
    <2>3. u[m + (1 + i)] = v[1 + i]
      BY <1>5, <2>1 DEF Two
    <2>4. v[1 + i] = rest[i]
      BY <1>4 DEF Two
    <2> QED BY <2>1, <2>2, <2>3, <2>4
  <1>11. \A i \in b..(e - 1) : s[i] # c
    <2>1. ASSUME NEW i \in b..(e - 1) PROVE s[i] # c
      <3> DEFINE h == i - b + 1
      <3>1. h \in 1..m /\ b + h - 1 = i
        BY <1>1, <1>2
      <3> HIDE DEF h
      <3>2. s[i] = piece[h]
        BY <1>9, <3>1
      <3> QED BY <3>1, <3>2 DEF m
    <2> QED BY <2>1
  <1> HIDE DEF e
  <1>12. Find(s, d, b) = e
    <2> DEFINE f == Find(s, d, b)
    <2>1. \/ f = 0 /\ \A i \in b..Len(s) : s[i] # c
          \/ f \in b..Len(s) /\ s[f] = c /\ \A i \in b..(f - 1) : s[i] # c
      BY <1>1, FindChar DEF d
    <2> HIDE DEF f
    <2>2. f \in b..L /\ s[f] = c /\ \A i \in b..(f - 1) : s[i] # c
      BY <1>8, <2>1 DEF L
    <2>3. ~(f < e)
      <3>1. f < e => f \in b..(e - 1)
        BY <1>1, <1>2, <1>8, <2>2
      <3> QED BY <1>11, <2>2, <3>1
    <2>4. ~(e < f)
      <3>1. e < f => e \in b..(f - 1)
        BY <1>1, <1>2, <1>8, <2>2
      <3> QED BY <1>8, <2>2, <3>1
    <2>5. f = e
      BY <1>1, <1>2, <1>8, <2>2, <2>3, <2>4
    <2> QED BY <2>5 DEF f
  <1>13. SubSeq(s, b, e - 1) = piece
    <2> DEFINE p == SubSeq(s, b, e - 1)
    <2>1. e - 1 \in Nat /\ e - 1 <= Len(s) /\ b <= (e - 1) + 1 /\ (e - 1) - b + 1 = m
      BY <1>1, <1>2, <1>8 DEF e, L
    <2>2. p \in Text /\ Len(p) = (e - 1) - b + 1 /\ \A i \in 1..((e - 1) - b + 1) : p[i] = s[b + i - 1]
      BY <1>1, <2>1, SubText
    <2> HIDE DEF p
    <2>3. Len(p) = m /\ \A i \in 1..m : p[i] = piece[i]
      BY <1>9, <2>1, <2>2
    <2>4. p = piece
      BY <2>2, <2>3, SeqEqual DEF Text, m
    <2> QED BY <2>4 DEF p
  <1>14. SubSeq(s, e + 1, L) = rest
    <2> DEFINE p == SubSeq(s, e + 1, L)
    <2>1. e + 1 \in Nat \ {0} /\ L \in Nat /\ L <= Len(s) /\ e + 1 <= L + 1 /\ L - (e + 1) + 1 = r
      BY <1>1, <1>2, <1>7, <1>8 DEF e, L
    <2>2. p \in Text /\ Len(p) = L - (e + 1) + 1 /\ \A i \in 1..(L - (e + 1) + 1) : p[i] = s[(e + 1) + i - 1]
      BY <2>1, SubText
    <2> HIDE DEF p
    <2>3. \A i \in 1..r : (e + 1) + i - 1 = e + i
      BY <1>8
    <2>4. Len(p) = r /\ \A i \in 1..r : p[i] = rest[i]
      BY <1>10, <2>1, <2>2, <2>3
    <2>5. p = rest
      BY <2>2, <2>4, SeqEqual DEF Text, r
    <2> QED BY <2>5 DEF p
  <1>15. SplitOnce(s, d, parts, sp) = [ret |-> Append(sp.ret, SubSeq(s, sp.b, e - 1)), b |-> e + Len(d)]
    <2>1. LET f == Find(s, d, sp.b) IN
          IF (sp.ret = <<>> \/ parts = 0 \/ Len(sp.ret) # parts - 1) /\ f # 0
          THEN SplitOnce(s, d, parts, sp)
                 = [ret |-> Append(sp.ret, SubSeq(s, sp.b, f - 1)), b |-> f + Len(d)]
          ELSE SplitOnce(s, d, parts, sp) = sp
      BY <1>1, <1>3, SplitOnceIs
    <2>2. Find(s, d, sp.b) = e /\ e # 0
      BY <1>8, <1>12 DEF b
    <2> QED BY <1>1, <2>1, <2>2
  <1>16. SplitOnce(s, d, parts, sp) = [ret |-> Append(list, piece), b |-> e + 1]
    BY <1>1, <1>3, <1>13, <1>15 DEF b
  <1>17. [ret |-> Append(list, piece), b |-> e + 1] \in Parted
    <2>1. Append(list, piece) \in Seq(Text)
      BY <1>1, AppendProperties
    <2> QED BY <1>8, <2>1 DEF Parted
  <1>18. e + 1 <= L + 1
    BY <1>2, <1>8
  <1> QED BY <1>14, <1>16, <1>17, <1>18 DEF CutTo, L, d

\* Without a separator, or at the limit, no part is cut off.
LEMMA LastPiece ==
  ASSUME NEW s \in Text, NEW c \in Char, NEW parts \in Nat, NEW sp, NEW list, NEW rest \in Text,
         CutTo(s, sp, list, rest),
         \/ \A i \in 1..Len(rest) : rest[i] # c
         \/ list # <<>> /\ parts # 0 /\ Len(list) = parts - 1
  PROVE  SplitOnce(s, <<c>>, parts, sp) = sp
PROOF
  <1> DEFINE d == <<c>>
             b == sp.b
             L == Len(s)
  <1>1. /\ sp \in Parted /\ b \in Nat \ {0} /\ b <= L + 1 /\ sp.ret = list
        /\ SubSeq(s, b, L) = rest /\ L \in Nat
    BY LenProperties DEF CutTo, Parted, Text
  <1>2. d \in Text /\ Len(d) = 1 /\ d # <<>>
    BY DEF Text
  <1>3. LET f == Find(s, d, sp.b) IN
          IF (sp.ret = <<>> \/ parts = 0 \/ Len(sp.ret) # parts - 1) /\ f # 0
          THEN SplitOnce(s, d, parts, sp)
                 = [ret |-> Append(sp.ret, SubSeq(s, sp.b, f - 1)), b |-> f + Len(d)]
          ELSE SplitOnce(s, d, parts, sp) = sp
    BY <1>1, <1>2, SplitOnceIs, ZenonT(40)
  <1>4. CASE list # <<>> /\ parts # 0 /\ Len(list) = parts - 1
    BY <1>1, <1>3, <1>4, Zenon
  <1>5. CASE \A i \in 1..Len(rest) : rest[i] # c
    <2> DEFINE f == Find(s, d, b)
    <2>1. \/ f = 0 /\ \A i \in b..Len(s) : s[i] # c
          \/ f \in b..Len(s) /\ s[f] = c /\ \A i \in b..(f - 1) : s[i] # c
      BY <1>1, FindChar
    <2> HIDE DEF f
    <2>2. /\ Len(rest) = L - b + 1 /\ \A i \in 1..(L - b + 1) : rest[i] = s[b + i - 1]
      <3> HIDE DEF b
      <3>1. L <= Len(s)
        BY <1>1
      <3> QED BY <1>1, <3>1, SubText
    <2> HIDE DEF b, L
    <2>3. \A i \in b..L : s[i] # c
      <3>1. ASSUME NEW i \in b..L PROVE s[i] # c
        <4> DEFINE h == i - b + 1
        <4>1. h \in 1..(L - b + 1) /\ b + h - 1 = i
          BY <1>1
        <4> HIDE DEF h
        <4>2. rest[h] = s[i] /\ h \in 1..Len(rest)
          BY <2>2, <4>1
        <4> QED BY <1>5, <4>2
      <3> QED BY <3>1
    <2>4. f = 0
      BY <2>1, <2>3 DEF L
    <2>5. Find(s, d, sp.b) = 0
      BY <2>4 DEF f, b
    <2> QED BY <1>3, <2>5, Zenon
  <1> QED BY <1>4, <1>5

\* When no part is cut off any more, that is how it ends.
LEMMA SplitStops ==
  ASSUME NEW s \in Text, NEW d, NEW parts, NEW f, SplitRounds(f, s, d, parts),
         NEW m \in 0..Len(s), SplitOnce(s, d, parts, f[m]) = f[m]
  PROVE  Split(s, d, parts) = Append(f[m].ret, SubSeq(s, f[m].b, Len(s)))
PROOF
  <1> DEFINE L == Len(s)
             S == {k \in Nat : m + k <= L => f[m + k] = f[m]}
  <1>1. L \in Nat /\ m \in Nat
    BY LenProperties DEF Text
  <1>2. /\ \A k \in 1..L : f[k] = SplitOnce(s, d, parts, f[k - 1])
        /\ Split(s, d, parts) = Append(f[L].ret, SubSeq(s, f[L].b, L))
    BY DEF SplitRounds
  <1> HIDE DEF L
  <1>3. 0 \in S
    BY <1>1
  <1>4. ASSUME NEW k \in Nat, k \in S PROVE k + 1 \in S
    <2>1. SUFFICES ASSUME m + (k + 1) <= L PROVE f[m + (k + 1)] = f[m]
      OBVIOUS
    <2>2. m + (k + 1) \in 1..L /\ (m + (k + 1)) - 1 = m + k /\ m + k <= L
      BY <1>1, <2>1
    <2>3. f[m + (k + 1)] = SplitOnce(s, d, parts, f[m + k])
      BY <1>2, <2>2
    <2>4. f[m + k] = f[m]
      BY <1>4, <2>2
    <2> QED BY <2>3, <2>4
  <1> HIDE DEF S
  <1>5. L - m \in Nat /\ m + (L - m) = L
    BY <1>1 DEF L
  <1>6. L - m \in S
    BY <1>3, <1>4, <1>5, NatInd
  <1>7. f[L] = f[m]
    BY <1>1, <1>5, <1>6 DEF S
  <1> QED BY <1>2, <1>7 DEF L

\* Before the first round nothing is cut off.
LEMMA NoPieceYet ==
  ASSUME NEW s \in Text
  PROVE  CutTo(s, [ret |-> <<>>, b |-> 1], <<>>, s)
PROOF
  <1> DEFINE sp == [ret |-> <<>>, b |-> 1]
  <1>1. sp \in Parted /\ sp.b = 1 /\ sp.ret = <<>>
    BY DEF Parted
  <1>2. SubSeq(s, 1, Len(s)) = s /\ 1 <= Len(s) + 1
    <2>1. s \in Seq(Char)
      BY DEF Text
    <2> QED BY <2>1, SubSeqFull, LenProperties
  <1> HIDE DEF sp
  <1>3. CutTo(s, sp, <<>>, s)
    BY <1>1, <1>2 DEF CutTo
  <1> QED BY <1>3 DEF sp

\* Texts without a character.
Without(c) == Seq(Char \ {c})

\* Such a text is a text, and does not have the character.
LEMMA WithoutIs ==
  ASSUME NEW c, NEW x \in Without(c)
  PROVE  x \in Text /\ \A i \in 1..Len(x) : x[i] # c
PROOF
  <1>1. x \in Seq(Char)
    <2>1. Char \ {c} \subseteq Char
      OBVIOUS
    <2> QED BY <2>1, SeqMonotonic DEF Without
  <1>2. \A i \in 1..Len(x) : x[i] \in Char \ {c}
    BY ElementOfSeq DEF Without
  <1> QED BY <1>1, <1>2 DEF Text

\* A part, a separator and the rest.
LEMMA OnePart ==
  ASSUME NEW x \in Text, NEW c \in Char, NEW y \in Text
  PROVE  /\ x \o (<<c>> \o y) \in Text
         /\ Len(x \o (<<c>> \o y)) = Len(x) + 1 + Len(y)
PROOF
  <1>1. <<c>> \in Text /\ Len(<<c>>) = 1 /\ Len(y) \in Nat /\ Len(x) \in Nat
    BY LenProperties DEF Text
  <1>2. <<c>> \o y \in Text /\ Len(<<c>> \o y) = 1 + Len(y)
    BY <1>1, Concat
  <1> DEFINE v == <<c>> \o y
  <1> HIDE DEF v
  <1>3. x \o v \in Text /\ Len(x \o v) = Len(x) + Len(v)
    BY <1>2, Concat DEF v
  <1> QED BY <1>1, <1>2, <1>3 DEF v

\* A list with one more at its end.
LEMMA OneMore ==
  ASSUME NEW S, NEW s \in Seq(S), NEW e \in S, NEW t \in Seq(S), Len(t) = Len(s) + 1,
         \A i \in 1..Len(s) : t[i] = s[i], t[Len(s) + 1] = e
  PROVE  Append(s, e) = t
PROOF
  <1> DEFINE a == Append(s, e)
             n == Len(s)
  <1>1. n \in Nat /\ a \in Seq(S) /\ Len(a) = n + 1 /\ a[n + 1] = e /\ \A i \in 1..n : a[i] = s[i]
    BY AppendProperties, LenProperties
  <1> HIDE DEF a
  <1>2. Len(t) = n + 1 /\ t[n + 1] = e /\ \A i \in 1..n : t[i] = s[i]
    OBVIOUS
  <1> HIDE DEF n
  <1>3. \A i \in 1..(n + 1) : a[i] = t[i]
    BY <1>1, <1>2
  <1>4. a = t
    BY <1>1, <1>2, <1>3, SeqEqual
  <1> QED BY <1>4 DEF a

\* Lists written out.
Listed(x, y, z, w, v) ==
  /\ Append(<<>>, x) = <<x>> /\ Append(<<x>>, y) = <<x, y>>
  /\ Append(<<x, y>>, z) = <<x, y, z>> /\ Append(<<x, y, z>>, w) = <<x, y, z, w>>
  /\ Append(<<x, y, z, w>>, v) = <<x, y, z, w, v>>

\* Lists written out are lists that grew by one at a time.
LEMMA Lists ==
  ASSUME NEW S, NEW x \in S, NEW y \in S, NEW z \in S, NEW w \in S, NEW v \in S
  PROVE  Listed(x, y, z, w, v)
PROOF
  <1> DEFINE a == <<x>>
             b == <<x, y>>
             c == <<x, y, z>>
             d == <<x, y, z, w>>
             e == <<x, y, z, w, v>>
  <1>2. a \in Seq(S) /\ Len(a) = 1 /\ a[1] = x
    OBVIOUS
  <1>3. b \in Seq(S) /\ Len(b) = 2 /\ b[1] = x /\ b[2] = y
    OBVIOUS
  <1>4. c \in Seq(S) /\ Len(c) = 3 /\ c[1] = x /\ c[2] = y /\ c[3] = z
    OBVIOUS
  <1>5. d \in Seq(S) /\ Len(d) = 4 /\ d[1] = x /\ d[2] = y /\ d[3] = z /\ d[4] = w
    OBVIOUS
  <1>5a. /\ e \in Seq(S) /\ Len(e) = 5
         /\ e[1] = x /\ e[2] = y /\ e[3] = z /\ e[4] = w /\ e[5] = v
    OBVIOUS
  <1>6. Append(<<>>, x) = a
    OBVIOUS
  <1> HIDE DEF a, b, c, d, e
  <1>7. Append(a, y) = b
    <2>1. /\ Len(b) = Len(a) + 1 /\ b[Len(a) + 1] = y
          /\ \A i \in 1..Len(a) : b[i] = a[i]
      BY <1>2, <1>3
    <2> QED BY <1>2, <1>3, <2>1, OneMore, Zenon
  <1>8. Append(b, z) = c
    <2>1. /\ Len(c) = Len(b) + 1 /\ c[Len(b) + 1] = z
          /\ \A i \in 1..Len(b) : c[i] = b[i]
      BY <1>3, <1>4
    <2> QED BY <1>3, <1>4, <2>1, OneMore, Zenon
  <1>9. Append(c, w) = d
    <2>1. /\ Len(d) = Len(c) + 1 /\ d[Len(c) + 1] = w
          /\ \A i \in 1..Len(c) : d[i] = c[i]
      BY <1>4, <1>5
    <2> QED BY <1>4, <1>5, <2>1, OneMore, Zenon
  <1>10. Append(d, v) = e
    <2>1. /\ Len(e) = Len(d) + 1 /\ e[Len(d) + 1] = v
          /\ \A i \in 1..Len(d) : e[i] = d[i]
      BY <1>5, <1>5a
    <2> QED BY <1>5, <1>5a, <2>1, OneMore, Zenon
  <1> QED BY <1>6, <1>7, <1>8, <1>9, <1>10 DEF Listed, a, b, c, d, e

Spelled(x, y, z, w, v) ==
  /\ <<x, y>> = <<x>> \o <<y>>
  /\ <<x, y, z, w, v>> = (((<<x>> \o <<y>>) \o <<z>>) \o <<w>>) \o <<v>>

\* Texts written out are put together from characters.
LEMMA TextsOfFive ==
  \A x, y, z, w, v \in Char : Spelled(x, y, z, w, v)
PROOF
  <1>1. SUFFICES ASSUME NEW x \in Char, NEW y \in Char, NEW z \in Char, NEW w \in Char,
                        NEW v \in Char
                 PROVE  Spelled(x, y, z, w, v)
    OBVIOUS
  <1> DEFINE a == <<x>>
             b == <<x, y>>
             c == <<x, y, z>>
             d == <<x, y, z, w>>
             e == <<x, y, z, w, v>>
  <1>2. /\ Append(a, y) = b /\ Append(b, z) = c /\ Append(c, w) = d
        /\ Append(d, v) = e
    <2>1. Listed(x, y, z, w, v)
      BY Lists
    <2> QED BY <2>1, Zenon DEF Listed
  <1>3. a \in Text /\ b \in Text /\ c \in Text /\ d \in Text
    BY DEF Text
  <1> HIDE DEF a, b, c, d, e
  <1>4. /\ Append(a, y) = a \o <<y>> /\ Append(b, z) = b \o <<z>>
        /\ Append(c, w) = c \o <<w>> /\ Append(d, v) = d \o <<v>>
    BY <1>3, AppendText
  <1>5. b = a \o <<y>> /\ e = (((a \o <<y>>) \o <<z>>) \o <<w>>) \o <<v>>
    BY <1>2, <1>4, Zenon
  <1> QED BY <1>5, Zenon DEF Spelled, a, b, e

\* A text with two separators is split into three.
LEMMA SplitThree ==
  ASSUME NEW c \in Char, NEW x \in Without(c), NEW y \in Without(c), NEW z \in Without(c)
  PROVE  Split(x \o (<<c>> \o (y \o (<<c>> \o z))), <<c>>, 0) = <<x, y, z>>
PROOF
  <1> DEFINE s1 == y \o (<<c>> \o z)
             s == x \o (<<c>> \o s1)
             d == <<c>>
             L == Len(s)
  <1>1. /\ x \in Text /\ \A i \in 1..Len(x) : x[i] # c
        /\ y \in Text /\ \A i \in 1..Len(y) : y[i] # c
        /\ z \in Text /\ \A i \in 1..Len(z) : z[i] # c
        /\ Len(x) \in Nat /\ Len(y) \in Nat /\ Len(z) \in Nat
    BY WithoutIs, LenProperties DEF Text
  <1>2. s1 \in Text /\ Len(s1) = Len(y) + 1 + Len(z)
    BY <1>1, OnePart
  <1> HIDE DEF s1
  <1>3. s \in Text /\ Len(s) = Len(x) + 1 + Len(s1)
    BY <1>1, <1>2, OnePart
  <1>4. d \in Text /\ d # <<>>
    BY DEF Text
  <1> HIDE DEF d, s
  <1>5. 1 \in 1..Len(s) /\ 2 \in 1..Len(s) /\ 2 \in 0..Len(s)
    BY <1>1, <1>2, <1>3
  <1>6. PICK f : SplitRounds(f, s, d, 0)
    BY <1>3, <1>4, SplitLoop
  <1>7. CutTo(s, f[0], <<>>, s)
    <2>1. f[0] = [ret |-> <<>>, b |-> 1]
      BY <1>6 DEF SplitRounds
    <2> QED BY <1>3, <2>1, NoPieceYet
  <1>8. f[1] = SplitOnce(s, d, 0, f[0]) /\ f[2] = SplitOnce(s, d, 0, f[1])
    <2>1. 1 - 1 = 0 /\ 2 - 1 = 1
      OBVIOUS
    <2>2. f[1] = SplitOnce(s, d, 0, f[1 - 1]) /\ f[2] = SplitOnce(s, d, 0, f[2 - 1])
      BY <1>5, <1>6 DEF SplitRounds
    <2> QED BY <2>1, <2>2
  <1>9. CutTo(s, f[1], Append(<<>>, x), s1)
    <2>1. CutTo(s, f[0], <<>>, x \o (<<c>> \o s1))
      BY <1>7 DEF s
    <2>2. CutTo(s, SplitOnce(s, <<c>>, 0, f[0]), Append(<<>>, x), s1)
      BY <1>1, <1>2, <1>3, <2>1, NextPiece
    <2> QED BY <1>8, <2>2 DEF d
  <1>10. CutTo(s, f[2], Append(Append(<<>>, x), y), z)
    <2>1. CutTo(s, f[1], Append(<<>>, x), y \o (<<c>> \o z))
      BY <1>9 DEF s1
    <2>2. CutTo(s, SplitOnce(s, <<c>>, 0, f[1]), Append(Append(<<>>, x), y), z)
      BY <1>1, <1>3, <2>1, NextPiece
    <2> QED BY <1>8, <2>2 DEF d
  <1>11. SplitOnce(s, d, 0, f[2]) = f[2]
    BY <1>1, <1>3, <1>10, LastPiece DEF d
  <1>12. Split(s, d, 0) = Append(f[2].ret, SubSeq(s, f[2].b, Len(s)))
    BY <1>3, <1>5, <1>6, <1>11, SplitStops
  <1>13. Split(s, d, 0) = Append(Append(Append(<<>>, x), y), z)
    BY <1>10, <1>12 DEF CutTo
  <1>14. Append(Append(Append(<<>>, x), y), z) = <<x, y, z>>
    <2>1. x \in Text /\ y \in Text /\ z \in Text
      BY <1>1
    <2>2. Listed(x, y, z, x, x)
      BY <2>1, Lists
    <2> QED BY <2>2, Zenon DEF Listed
  <1> QED BY <1>13, <1>14 DEF s, s1, d

\* One with three, into no more than four.
LEMMA SplitFour ==
  ASSUME NEW c \in Char, NEW x \in Without(c), NEW y \in Without(c), NEW z \in Without(c),
         NEW w \in Text
  PROVE  Split(x \o (<<c>> \o (y \o (<<c>> \o (z \o (<<c>> \o w))))), <<c>>, 4) = <<x, y, z, w>>
PROOF
  <1> DEFINE s2 == z \o (<<c>> \o w)
             s1 == y \o (<<c>> \o s2)
             s == x \o (<<c>> \o s1)
             d == <<c>>
  <1>1. /\ x \in Text /\ \A i \in 1..Len(x) : x[i] # c
        /\ y \in Text /\ \A i \in 1..Len(y) : y[i] # c
        /\ z \in Text /\ \A i \in 1..Len(z) : z[i] # c
        /\ Len(x) \in Nat /\ Len(y) \in Nat /\ Len(z) \in Nat /\ Len(w) \in Nat
    BY WithoutIs, LenProperties DEF Text
  <1>2. s2 \in Text /\ Len(s2) = Len(z) + 1 + Len(w)
    BY <1>1, OnePart
  <1> HIDE DEF s2
  <1>3. s1 \in Text /\ Len(s1) = Len(y) + 1 + Len(s2)
    BY <1>1, <1>2, OnePart
  <1> HIDE DEF s1
  <1>4. s \in Text /\ Len(s) = Len(x) + 1 + Len(s1)
    BY <1>1, <1>3, OnePart
  <1>5. d \in Text /\ d # <<>>
    BY DEF Text
  <1> HIDE DEF d, s
  <1>6. 1 \in 1..Len(s) /\ 2 \in 1..Len(s) /\ 3 \in 1..Len(s) /\ 3 \in 0..Len(s)
    BY <1>1, <1>2, <1>3, <1>4
  <1>7. PICK f : SplitRounds(f, s, d, 4)
    BY <1>4, <1>5, SplitLoop
  <1>8. CutTo(s, f[0], <<>>, s)
    <2>1. f[0] = [ret |-> <<>>, b |-> 1]
      BY <1>7 DEF SplitRounds
    <2> QED BY <1>4, <2>1, NoPieceYet
  <1>9. /\ f[1] = SplitOnce(s, d, 4, f[0]) /\ f[2] = SplitOnce(s, d, 4, f[1])
        /\ f[3] = SplitOnce(s, d, 4, f[2])
    <2>1. 1 - 1 = 0 /\ 2 - 1 = 1 /\ 3 - 1 = 2
      OBVIOUS
    <2>2. /\ f[1] = SplitOnce(s, d, 4, f[1 - 1]) /\ f[2] = SplitOnce(s, d, 4, f[2 - 1])
          /\ f[3] = SplitOnce(s, d, 4, f[3 - 1])
      BY <1>6, <1>7 DEF SplitRounds
    <2> QED BY <2>1, <2>2
  <1> DEFINE a1 == Append(<<>>, x)
             a2 == Append(a1, y)
             a3 == Append(a2, z)
  <1>10. /\ a1 \in Seq(Text) /\ Len(a1) = 1 /\ a2 \in Seq(Text) /\ Len(a2) = 2
         /\ Len(a3) = 3 /\ a3 # <<>> /\ Append(a3, w) = <<x, y, z, w>>
    <2>1. a1 = <<x>> /\ a2 = <<x, y>> /\ a3 = <<x, y, z>> /\ Append(a3, w) = <<x, y, z, w>>
      <3>1. x \in Text /\ y \in Text /\ z \in Text /\ w \in Text
        BY <1>1
      <3>2. Listed(x, y, z, w, x)
        BY <3>1, Lists
      <3> QED BY <3>2, Zenon DEF Listed
    <2> HIDE DEF a1, a2, a3
    <2> QED BY <1>1, <2>1
  <1> HIDE DEF a1, a2, a3
  <1>11. CutTo(s, f[1], a1, s1)
    <2>1. CutTo(s, f[0], <<>>, x \o (<<c>> \o s1))
      BY <1>8 DEF s
    <2>2. CutTo(s, SplitOnce(s, <<c>>, 4, f[0]), Append(<<>>, x), s1)
      BY <1>1, <1>3, <1>4, <2>1, NextPiece
    <2> QED BY <1>9, <2>2 DEF d, a1
  <1>12. CutTo(s, f[2], a2, s2)
    <2>1. CutTo(s, f[1], a1, y \o (<<c>> \o s2))
      BY <1>11 DEF s1
    <2>2. Len(a1) # 4 - 1
      BY <1>10
    <2>3. CutTo(s, SplitOnce(s, <<c>>, 4, f[1]), Append(a1, y), s2)
      BY <1>1, <1>2, <1>4, <2>1, <2>2, NextPiece
    <2> QED BY <1>9, <2>3 DEF d, a2
  <1>13. CutTo(s, f[3], a3, w)
    <2>1. CutTo(s, f[2], a2, z \o (<<c>> \o w))
      BY <1>12 DEF s2
    <2>2. Len(a2) # 4 - 1
      BY <1>10
    <2>3. CutTo(s, SplitOnce(s, <<c>>, 4, f[2]), Append(a2, z), w)
      BY <1>1, <1>4, <2>1, <2>2, NextPiece
    <2> QED BY <1>9, <2>3 DEF d, a3
  <1>14. SplitOnce(s, d, 4, f[3]) = f[3]
    <2>1. a3 # <<>> /\ 4 # 0 /\ Len(a3) = 4 - 1
      BY <1>10
    <2> QED BY <1>4, <1>13, <2>1, LastPiece, ZenonT(40) DEF d
  <1>15. Split(s, d, 4) = Append(f[3].ret, SubSeq(s, f[3].b, Len(s)))
    BY <1>4, <1>6, <1>7, <1>14, SplitStops
  <1>16. Split(s, d, 4) = Append(a3, w)
    BY <1>13, <1>15 DEF CutTo
  <1> QED BY <1>10, <1>16 DEF s, s1, s2, d

-----------------------------------------------------------------------------
(* Names: a name is taken apart into what it was put together from *)

\* What associativity says of three texts.
Regroups(a, b, c) == (a \o b) \o c = a \o (b \o c)

\* It says so of all texts.
LEMMA Regrouped == \A a, b, c \in Text : Regroups(a, b, c)
BY Assoc DEF Regroups

\* Seven texts, put together from the right.
LEMMA ToRight ==
  ASSUME NEW a \in Text, NEW b \in Text, NEW c \in Text, NEW d \in Text, NEW e \in Text,
         NEW f \in Text, NEW g \in Text
  PROVE  (((((a \o b) \o c) \o d) \o e) \o f) \o g
           = a \o (b \o (c \o (d \o (e \o (f \o g)))))
PROOF
  <1> DEFINE a2 == a \o b
             a3 == a2 \o c
             a4 == a3 \o d
             a5 == a4 \o e
             z5 == f \o g
             z4 == e \o z5
             z3 == d \o z4
             z2 == c \o z3
  <1>1. /\ a2 \in Text /\ a3 \in Text /\ a4 \in Text /\ a5 \in Text
        /\ z5 \in Text /\ z4 \in Text /\ z3 \in Text /\ z2 \in Text
    BY Concat
  <1> HIDE DEF a2, a3, a4, a5, z2, z3, z4, z5
  <1>2. /\ Regroups(a5, f, g) /\ Regroups(a4, e, z5) /\ Regroups(a3, d, z4)
        /\ Regroups(a2, c, z3) /\ Regroups(a, b, z2)
    BY <1>1, Regrouped
  <1>3. (a5 \o f) \o g = a5 \o z5
    BY <1>2 DEF Regroups, z5
  <1>4. a5 \o z5 = a4 \o z4
    BY <1>2 DEF Regroups, a5, z4
  <1>5. a4 \o z4 = a3 \o z3
    BY <1>2 DEF Regroups, a4, z3
  <1>6. a3 \o z3 = a2 \o z2
    BY <1>2 DEF Regroups, a3, z2
  <1>7. a2 \o z2 = a \o (b \o z2)
    BY <1>2 DEF Regroups, a2
  <1> QED BY <1>3, <1>4, <1>5, <1>6, <1>7, Zenon DEF a2, a3, a4, a5, z2, z3, z4, z5

\* A letter is moved from the text before to the text behind.
LEMMA ToLetter ==
  ASSUME NEW a \in Text, NEW b \in Text, NEW i \in Text, NEW r \in Text
  PROVE  (a \o b) \o (i \o r) = a \o ((b \o i) \o r)
PROOF
  <1> DEFINE x == i \o r
  <1>1. x \in Text
    BY Concat
  <1>2. (b \o i) \o r = b \o x
    BY Assoc
  <1> HIDE DEF x
  <1>3. (a \o b) \o x = a \o (b \o x)
    BY <1>1, Assoc, SMTT(30)
  <1> QED BY <1>2, <1>3 DEF x

\* What it says of a letter between them.
Letters(a, b, i, r) == (a \o b) \o (i \o r) = a \o ((b \o i) \o r)

\* That holds of all texts.
LEMMA Lettering ==
  \A a, b, i, r \in Text : Letters(a, b, i, r)
BY ToLetter DEF Letters

BaseOf(T, B, J, U) == T \o (<<".">> \o (B \o (<<".">> \o (J \o (<<".">> \o U)))))
PathOf(q, st, base) == <<q>> \o (<<"/">> \o (<<st>> \o (<<"/">> \o base)))

\* The characters of names.
LEMMA NameChars ==
  /\ "/" \in Char /\ "." \in Char /\ "t" \in Char /\ "p" \in Char /\ "j" \in Char
  /\ "z" \in Char /\ "u" \in Char /\ "batch" \in Char /\ "pend" \in Char
BY Zenon DEF Char, NameChar

Assembled(q, st, u, P, D, I) ==
  <<q, "/", st, "/", "t">> \o P \o <<".", "p">> \o D \o <<".", "j">> \o I \o <<".", u>>
    = PathOf(q, st, BaseOf(<<"t">> \o P, <<"p">> \o D, <<"j">> \o I, <<u>>))

\* A name is what its parts are put together to.
LEMMA NameParts ==
  ASSUME NEW q \in Char, NEW st \in Char, NEW u \in Char,
         NEW P \in Text, NEW D \in Text, NEW I \in Text
  PROVE  Assembled(q, st, u, P, D, I)
PROOF
  <1> DEFINE dot == <<".">>
             sl == <<"/">>
             t == <<"t">>
             p == <<"p">>
             j == <<"j">>
             qq0 == <<q>>
             ss == <<st>>
             uu == <<u>>
             h == <<q, "/", st, "/", "t">>
             dp == <<".", "p">>
             dj == <<".", "j">>
             du == <<".", u>>
  <1>1. /\ dot \in Text /\ sl \in Text /\ t \in Text /\ p \in Text /\ j \in Text
        /\ qq0 \in Text /\ ss \in Text /\ uu \in Text
    BY NameChars DEF Text
  <1>2. /\ dp = dot \o p /\ dj = dot \o j /\ du = dot \o uu
        /\ h = (((qq0 \o sl) \o ss) \o sl) \o t
    <2>1. <<".", "p">> = <<".">> \o <<"p">>
      BY NameChars, TextsOfFive, Zenon DEF Spelled
    <2>2. <<".", "j">> = <<".">> \o <<"j">>
      BY NameChars, TextsOfFive, Zenon DEF Spelled
    <2>3. <<".", u>> = <<".">> \o <<u>>
      BY NameChars, TextsOfFive, Zenon DEF Spelled
    <2>4. <<q, "/", st, "/", "t">>
            = (((<<q>> \o <<"/">>) \o <<st>>) \o <<"/">>) \o <<"t">>
      <3>1. Spelled(q, "/", st, "/", "t")
        BY NameChars, TextsOfFive
      <3> QED BY <3>1, Zenon DEF Spelled
    <2> QED BY <2>1, <2>2, <2>3, <2>4, Zenon
  <1> HIDE DEF dot, sl, t, p, j, qq0, ss, uu, h, dp, dj, du
  <1> DEFINE T == t \o P
             B == p \o D
             J == j \o I
             z5 == I \o du
             z4 == dj \o z5
             z3 == D \o z4
             z2 == dp \o z3
             b5 == dot \o uu
             b4 == J \o b5
             b3 == dot \o b4
             b2 == B \o b3
             b1 == dot \o b2
             h1 == qq0 \o sl
             h2 == h1 \o ss
             h3 == h2 \o sl
             base == T \o b1
  <1>3. /\ h \in Text /\ dp \in Text /\ dj \in Text /\ du \in Text
        /\ T \in Text /\ B \in Text /\ J \in Text
    BY <1>1, <1>2, Concat
  <1>4. /\ b5 \in Text /\ b4 \in Text /\ b3 \in Text /\ b2 \in Text /\ b1 \in Text
        /\ base \in Text /\ h1 \in Text /\ h2 \in Text /\ h3 \in Text
    <2> HIDE DEF T, B, J
    <2> QED BY <1>1, <1>3, Concat
  <1>5. h \o P \o dp \o D \o dj \o I \o du = h \o (P \o z2)
    <2> DEFINE All(a, b, c, d, e, f, g) ==
                 (((((a \o b) \o c) \o d) \o e) \o f) \o g
                   = a \o (b \o (c \o (d \o (e \o (f \o g)))))
    <2>1. \A a, b, c, d, e, f, g \in Text : All(a, b, c, d, e, f, g)
      BY ToRight
    <2> HIDE DEF All
    <2>2. All(h, P, dp, D, dj, I, du)
      BY <1>3, <2>1
    <2> QED BY <2>2 DEF All
  <1>6. z4 = b3
    <2>1. dj \o (I \o du) = dot \o (J \o b5)
      <3> HIDE DEF b5
      <3>1. Letters(dot, j, I, b5)
        BY <1>1, <1>4, Lettering
      <3>2. dj \o (I \o b5) = dot \o ((j \o I) \o b5)
        BY <1>2, <3>1 DEF Letters
      <3> QED BY <1>2, <3>2 DEF b5
    <2> QED BY <2>1
  <1>7. z2 = b1
    <2> HIDE DEF z4, b3
    <2>0. Letters(dot, p, D, b3)
      BY <1>1, <1>4, Lettering
    <2>1. (dot \o p) \o (D \o b3) = dot \o ((p \o D) \o b3)
      BY <2>0 DEF Letters
    <2> QED BY <1>2, <1>6, <2>1
  <1>8. h \o (P \o z2) = h3 \o base
    <2> HIDE DEF z2, b1, h3
    <2>0. Letters(h3, t, P, b1)
      BY <1>1, <1>4, Lettering
    <2>1. (h3 \o t) \o (P \o b1) = h3 \o ((t \o P) \o b1)
      BY <2>0 DEF Letters
    <2>2. h = h3 \o t
      BY <1>2 DEF h3
    <2> QED BY <1>7, <2>1, <2>2
  <1>9. h3 \o base = qq0 \o (sl \o (ss \o (sl \o base)))
    <2> HIDE DEF base
    <2> DEFINE w1 == sl \o base
               w2 == ss \o w1
    <2>1. w1 \in Text /\ w2 \in Text
      BY <1>1, <1>4, Concat
    <2> HIDE DEF w1, w2, h1, h2
    <2>2. Regroups(h2, sl, base) /\ Regroups(h1, ss, w1) /\ Regroups(qq0, sl, w2)
      BY <1>1, <1>4, <2>1, Regrouped
    <2>3. (h2 \o sl) \o base = h2 \o (sl \o base)
      BY <2>2 DEF Regroups
    <2>4. (h1 \o ss) \o w1 = h1 \o (ss \o w1)
      BY <2>2 DEF Regroups
    <2>5. (qq0 \o sl) \o w2 = qq0 \o (sl \o w2)
      BY <2>2 DEF Regroups
    <2> QED BY <2>3, <2>4, <2>5, Zenon DEF h3, h2, h1, w2, w1
  <1>10. base = BaseOf(T, B, J, uu)
    BY DEF BaseOf, dot
  <1>11. qq0 \o (sl \o (ss \o (sl \o base))) = PathOf(q, st, base)
    <2> HIDE DEF base
    <2> QED BY DEF PathOf, qq0, sl, ss
  <1>12. h \o P \o dp \o D \o dj \o I \o du = PathOf(q, st, BaseOf(T, B, J, uu))
    <2> HIDE DEF z2, h3, base, T, B, J
    <2> QED BY <1>5, <1>8, <1>9, <1>10, <1>11
  <1> QED BY <1>12, Zenon DEF Assembled, T, B, J, h, dp, dj, du, uu, t, p, j

\* No digit is a separator, nor is a letter in front of them.
LEMMA DigitsApart ==
  /\ \A c \in {"/", "."} : Seq(DigitChar) \subseteq Without(c)
  /\ \A c \in {"/", "."} : \A a \in {"t", "p", "j", "u", "batch", "pend"} : <<a>> \in Without(c)
PROOF
  <1>1. ASSUME NEW d \in DigitChar PROVE d \in Char /\ d # "/" /\ d # "."
    <2>1. d \in Char
      BY DigitFacts
    <2>2. PICK e \in 0..9 : d = Listing!Digit[e + 1]
      BY DEF DigitChar
    <2>3. d # "/" /\ d # "."
      BY <2>2 DEF Listing!Digit
    <2> QED BY <2>1, <2>3
  <1>2. ASSUME NEW c \in {"/", "."}, NEW s \in Seq(DigitChar) PROVE s \in Without(c)
    <2>1. DigitChar \subseteq Char \ {c}
      BY <1>1
    <2> QED BY <2>1, SeqMonotonic DEF Without
  <1>3. ASSUME NEW c \in {"/", "."}, NEW a \in {"t", "p", "j", "u", "batch", "pend"}
        PROVE  <<a>> \in Without(c)
    <2>1. a \in Char
      BY NameChars
    <2>2. a # c
      OBVIOUS
    <2> QED BY <2>1, <2>2 DEF Without
  <1> QED BY <1>2, <1>3

\* Two texts without a character make one.
LEMMA WithoutBoth ==
  \A c : \A s, t \in Without(c) : s \o t \in Without(c)
BY ConcatProperties DEF Without

\* A path is split into queue, state and the name of the file.
LEMMA PathSplit ==
  ASSUME NEW base \in Without("/")
  PROVE  Split(PathOf("batch", "pend", base), <<"/">>, 0) = <<<<"batch">>, <<"pend">>, base>>
PROOF
  <1> DEFINE q == <<"batch">>
             st == <<"pend">>
  <1>1. q \in Without("/") /\ st \in Without("/")
    BY DigitsApart
  <1>2. "/" \in Char
    BY NameChars
  <1> HIDE DEF q, st
  <1>3. Split(q \o (<<"/">> \o (st \o (<<"/">> \o base))), <<"/">>, 0) = <<q, st, base>>
    BY <1>1, <1>2, SplitThree
  <1> QED BY <1>3 DEF PathOf, q, st

\* The name of the file is split into its four parts.
LEMMA BaseSplit ==
  ASSUME NEW T \in Without("."), NEW B \in Without("."), NEW J \in Without("."), NEW U \in Text
  PROVE  Split(BaseOf(T, B, J, U), <<".">>, 4) = <<T, B, J, U>>
PROOF
  <1>1. "." \in Char
    BY NameChars
  <1>2. Split(T \o (<<".">> \o (B \o (<<".">> \o (J \o (<<".">> \o U))))), <<".">>, 4) = <<T, B, J, U>>
    BY <1>1, SplitFour
  <1> QED BY <1>2 DEF BaseOf

\* Names are split as all texts are.
LEMMA ListingSplit == \A s, d, parts : Listing!Split(s, d, parts) = Split(s, d, parts)
BY DEF Listing!Split, Split, Listing!SplitOnce, SplitOnce, Listing!Find, Find

\* What is behind a letter.
LEMMA BehindLetter ==
  ASSUME NEW c \in Char, NEW s \in Text
  PROVE  Tail(<<c>> \o s) = s
PROOF
  <1> DEFINE a == <<c>> \o s
  <1>1. <<c>> \in Text /\ Len(<<c>>) = 1
    BY DEF Text
  <1>2. /\ a \in Seq(Char) /\ Len(s) \in Nat /\ Len(a) = 1 + Len(s) /\ s \in Seq(Char)
        /\ \A i \in 1..(1 + Len(s)) : a[i] = IF i <= 1 THEN c ELSE s[i - 1]
    BY <1>1, Concat DEF Text
  <1> HIDE DEF a
  <1>3. a # <<>>
    BY <1>2
  <1>4. /\ Tail(a) \in Seq(Char) /\ Len(Tail(a)) = Len(a) - 1
        /\ \A i \in 1..Len(Tail(a)) : Tail(a)[i] = a[i + 1]
    BY <1>2, <1>3, HeadTailProperties
  <1>5. Len(Tail(a)) = Len(s)
    BY <1>2, <1>4
  <1>6. ASSUME NEW i \in 1..Len(s) PROVE Tail(a)[i] = s[i]
    <2>1. i + 1 \in 1..(1 + Len(s)) /\ ~(i + 1 <= 1) /\ (i + 1) - 1 = i
      BY <1>2
    <2> QED BY <1>2, <1>4, <1>5, <2>1
  <1>7. Tail(a) = s
    BY <1>2, <1>4, <1>5, <1>6, SeqEqual
  <1> QED BY <1>7 DEF a

\* The parts of a job's name.
TimePart(jf) == <<"t">> \o Listing!Padded(jf.run_time, TimeWidth)
PriorityPart(jf) == <<"p">> \o Listing!Digits(jf.priority)
IdPart(jf) == <<"j">> \o Listing!Padded(jf.id, IdWidth)
FileName(jf) == BaseOf(TimePart(jf), PriorityPart(jf), IdPart(jf), <<"u">>)

\* What a job in pend is.
LEMMA JobFileFields ==
  ASSUME Listing!NamesAssumption, NEW jf \in Listing!JobFiles
  PROVE  /\ jf.queue = "batch" /\ jf.state = "pend" /\ jf.submitter = "u"
         /\ jf.run_time \in Time /\ jf.run_time \in Nat /\ jf.priority \in Nat /\ jf.id \in Nat
         /\ TimeWidth \in Nat /\ IdWidth \in Nat
         /\ Len(Listing!Digits(jf.run_time)) <= TimeWidth
BY DEF Listing!NamesAssumption, Listing!JobFiles

\* The parts of a name have no separator, and a letter in front of a number.
LEMMA PartsOfName ==
  ASSUME Listing!NamesAssumption, NEW jf \in Listing!JobFiles
  PROVE  /\ \A c \in {"/", "."} : /\ TimePart(jf) \in Without(c) /\ PriorityPart(jf) \in Without(c)
                                  /\ IdPart(jf) \in Without(c) /\ <<"u">> \in Without(c)
         /\ Tail(TimePart(jf)) = Listing!Padded(jf.run_time, TimeWidth)
         /\ Tail(PriorityPart(jf)) = Listing!Digits(jf.priority)
         /\ Tail(IdPart(jf)) = Listing!Padded(jf.id, IdWidth)
PROOF
  <1> DEFINE P == Listing!Padded(jf.run_time, TimeWidth)
             D == Listing!Digits(jf.priority)
             I == Listing!Padded(jf.id, IdWidth)
  <1>1. P \in Seq(DigitChar) /\ D \in Seq(DigitChar) /\ I \in Seq(DigitChar)
    BY JobFileFields, PaddedRead, DigitsRead
  <1> HIDE DEF P, D, I
  <1>2. P \in Text /\ D \in Text /\ I \in Text
    BY <1>1, DigitTexts
  <1>3. Tail(<<"t">> \o P) = P /\ Tail(<<"p">> \o D) = D /\ Tail(<<"j">> \o I) = I
    BY <1>2, NameChars, BehindLetter
  <1>4. ASSUME NEW c \in {"/", "."}
        PROVE  /\ <<"t">> \o P \in Without(c) /\ <<"p">> \o D \in Without(c)
               /\ <<"j">> \o I \in Without(c) /\ <<"u">> \in Without(c)
    <2>1. P \in Without(c) /\ D \in Without(c) /\ I \in Without(c)
      BY <1>1, DigitsApart
    <2>2. /\ <<"t">> \in Without(c) /\ <<"p">> \in Without(c)
          /\ <<"j">> \in Without(c) /\ <<"u">> \in Without(c)
      BY DigitsApart
    <2> QED BY <2>1, <2>2, WithoutBoth
  <1> QED BY <1>3, <1>4 DEF TimePart, PriorityPart, IdPart, P, D, I

\* The name of a job, and how it is split.
LEMMA NameSplit ==
  ASSUME Listing!NamesAssumption, NEW jf \in Listing!JobFiles
  PROVE  /\ Listing!Split(Listing!NameOf(jf), <<"/">>, 0) = <<<<"batch">>, <<"pend">>, FileName(jf)>>
         /\ Listing!Split(FileName(jf), <<".">>, 4)
              = <<TimePart(jf), PriorityPart(jf), IdPart(jf), <<"u">>>>
PROOF
  <1> DEFINE P == Listing!Padded(jf.run_time, TimeWidth)
             D == Listing!Digits(jf.priority)
             I == Listing!Padded(jf.id, IdWidth)
             T == TimePart(jf)
             B == PriorityPart(jf)
             J == IdPart(jf)
             U == <<"u">>
  <1>1. P \in Text /\ D \in Text /\ I \in Text
    BY JobFileFields, PaddedRead, DigitsRead, DigitTexts
  <1>2. /\ jf.queue = "batch" /\ jf.state = "pend" /\ jf.submitter = "u"
    BY JobFileFields
  <1>3. Listing!NameOf(jf) = PathOf("batch", "pend", FileName(jf))
    <2>1. Listing!NameOf(jf)
            = <<"batch", "/", "pend", "/", "t">> \o P \o <<".", "p">> \o D
                \o <<".", "j">> \o I \o <<".", "u">>
      BY <1>2 DEF Listing!NameOf
    <2> HIDE DEF P, D, I
    <2>2. <<"batch", "/", "pend", "/", "t">> \o P \o <<".", "p">> \o D
                \o <<".", "j">> \o I \o <<".", "u">>
            = PathOf("batch", "pend", BaseOf(<<"t">> \o P, <<"p">> \o D, <<"j">> \o I, <<"u">>))
      <3>1. Assembled("batch", "pend", "u", P, D, I)
        BY <1>1, NameChars, NameParts
      <3> QED BY <3>1, Zenon DEF Assembled
    <2>3. FileName(jf) = BaseOf(<<"t">> \o P, <<"p">> \o D, <<"j">> \o I, <<"u">>)
      BY DEF FileName, TimePart, PriorityPart, IdPart, P, D, I
    <2> QED BY <2>1, <2>2, <2>3
  <1> HIDE DEF P, D, I
  <1>4. \A c \in {"/", "."} : T \in Without(c) /\ B \in Without(c) /\ J \in Without(c) /\ U \in Without(c)
    BY PartsOfName
  <1> HIDE DEF T, B, J, U
  <1>5. BaseOf(T, B, J, U) \in Without("/")
    <2>1. T \in Without("/") /\ B \in Without("/") /\ J \in Without("/") /\ U \in Without("/")
      BY <1>4
    <2> DEFINE d == <<".">>
    <2>2. d \in Without("/")
      <3>1. "." \in Char \ {"/"}
        BY NameChars
      <3> QED BY <3>1 DEF Without
    <2> HIDE DEF d
    <2> DEFINE x1 == d \o U
               x2 == J \o x1
               x3 == d \o x2
               x4 == B \o x3
               x5 == d \o x4
    <2>3. x1 \in Without("/")
      BY <2>1, <2>2, WithoutBoth
    <2> HIDE DEF x1
    <2>4. x2 \in Without("/")
      BY <2>1, <2>3, WithoutBoth
    <2> HIDE DEF x2
    <2>5. x3 \in Without("/")
      BY <2>2, <2>4, WithoutBoth
    <2> HIDE DEF x3
    <2>6. x4 \in Without("/")
      BY <2>1, <2>5, WithoutBoth
    <2> HIDE DEF x4
    <2>7. x5 \in Without("/")
      BY <2>2, <2>6, WithoutBoth
    <2> HIDE DEF x5
    <2>8. T \o x5 \in Without("/")
      BY <2>1, <2>7, WithoutBoth
    <2>9. BaseOf(T, B, J, U) = T \o x5
      BY Zenon DEF BaseOf, x5, x4, x3, x2, x1, d
    <2> QED BY <2>8, <2>9
  <1>6. FileName(jf) = BaseOf(T, B, J, U)
    BY DEF FileName, T, B, J, U
  <1>7. Split(PathOf("batch", "pend", FileName(jf)), <<"/">>, 0)
          = <<<<"batch">>, <<"pend">>, FileName(jf)>>
    BY <1>5, <1>6, PathSplit
  <1>8. Split(BaseOf(T, B, J, U), <<".">>, 4) = <<T, B, J, U>>
    <2>1. T \in Without(".") /\ B \in Without(".") /\ J \in Without(".") /\ U \in Without(".")
      BY <1>4
    <2>2. "." \in Char /\ U \in Text
      BY <2>1, NameChars, WithoutIs
    <2> QED BY <2>1, <2>2, BaseSplit
  <1> QED BY <1>3, <1>6, <1>7, <1>8, ListingSplit DEF T, B, J, U

\* A job is found by its name, and its name is made again from what was found.
LEMMA ReadBack ==
  ASSUME Listing!NamesAssumption, NEW jf \in Listing!JobFiles
  PROVE  /\ Listing!FromPath(Listing!NameOf(jf)) = jf
         /\ Listing!BaseName(Listing!NameOf(jf)) = FileName(jf)
PROOF
  <1> DEFINE path == Listing!NameOf(jf)
             pieces == Listing!Split(path, <<"/">>, 0)
             n == Len(pieces)
             base == Listing!Split(pieces[n], <<".">>, 4)
             T == TimePart(jf)
             B == PriorityPart(jf)
             J == IdPart(jf)
             F == FileName(jf)
             U == <<"u">>
             S == <<"pend">>
             Q == <<"batch">>
  <1>1. pieces = <<Q, S, F>> /\ Listing!Split(F, <<".">>, 4) = <<T, B, J, U>>
    BY NameSplit
  <1>2. Q[1] = "batch" /\ S[1] = "pend" /\ U[1] = "u"
    OBVIOUS
  <1> HIDE DEF pieces, T, B, J, F, U, S, Q
  <1>3. n = 3 /\ pieces[3] = F /\ pieces[2] = S /\ pieces[1] = Q
    BY <1>1
  <1> HIDE DEF n
  <1>4. /\ n - 2 = 1 /\ n - 1 = 2
    BY <1>3
  <1>5. base = <<T, B, J, U>>
    BY <1>1, <1>3
  <1> HIDE DEF base
  <1>6. base[1] = T /\ base[2] = B /\ base[3] = J /\ base[4] = U
    BY <1>5
  <1>7. Listing!FromPath(path)
          = [queue |-> pieces[n - 2][1], state |-> Listing!Str2State(pieces[n - 1][1]),
             run_time |-> Listing!Number(Tail(base[1])),
             priority |-> Listing!Number(Tail(base[2])),
             id |-> Listing!Number(Tail(base[3])), submitter |-> base[4][1]]
    BY Zenon DEF Listing!FromPath, pieces, n, base
  <1>8. Listing!Str2State("pend") = "pend"
    BY DEF Listing!Str2State, Listing!StateName
  <1>9. /\ Listing!Number(Tail(T)) = jf.run_time
        /\ Listing!Number(Tail(B)) = jf.priority
        /\ Listing!Number(Tail(J)) = jf.id
    <2>1. /\ Tail(T) = Listing!Padded(jf.run_time, TimeWidth)
          /\ Tail(B) = Listing!Digits(jf.priority)
          /\ Tail(J) = Listing!Padded(jf.id, IdWidth)
      BY PartsOfName DEF T, B, J
    <2>2. /\ jf.run_time \in Nat /\ jf.priority \in Nat /\ jf.id \in Nat
          /\ TimeWidth \in Nat /\ IdWidth \in Nat
      BY JobFileFields
    <2>3. /\ Listing!Number(Listing!Padded(jf.run_time, TimeWidth)) = jf.run_time
          /\ Listing!Number(Listing!Padded(jf.id, IdWidth)) = jf.id
      BY <2>2, PaddedRead
    <2>4. Listing!Number(Listing!Digits(jf.priority)) = jf.priority
      BY <2>2, DigitsRead
    <2> QED BY <2>1, <2>3, <2>4
  <1>10. Listing!FromPath(path)
           = [queue |-> "batch", state |-> "pend", run_time |-> jf.run_time,
              priority |-> jf.priority, id |-> jf.id, submitter |-> "u"]
    BY <1>2, <1>3, <1>4, <1>6, <1>7, <1>8, <1>9
  <1>11. jf = [queue |-> "batch", state |-> "pend", run_time |-> jf.run_time,
               priority |-> jf.priority, id |-> jf.id, submitter |-> "u"]
    BY DEF Listing!JobFiles
  <1>12. Listing!BaseName(path) = F
    <2>1. Listing!BaseName(path) = pieces[n]
      BY Zenon DEF Listing!BaseName, pieces, n
    <2> QED BY <1>3, <2>1
  <1> QED BY <1>10, <1>11, <1>12 DEF F

\* The filter lets through the names of the jobs that are due.
LEMMA FilterDue ==
  ASSUME Listing!NamesAssumption, Listing!ClockShown, NEW jf \in Listing!JobFiles,
         NEW t \in Clock
  PROVE  Listing!TimeFilter(FileName(jf), t) <=> jf.run_time <= t
PROOF
  <1> DEFINE P == Listing!Padded(jf.run_time, TimeWidth)
             D == Listing!Digits(t)
             E == Listing!Digits(jf.priority)
             I == IdPart(jf)
             x3 == I \o (<<".">> \o <<"u">>)
             rest == E \o (<<".">> \o x3)
  <1>0. /\ t \in Nat /\ t <= MaxInt /\ Len(D) = TimeWidth /\ MaxInt \in Nat
    BY DEF Listing!ClockShown, Listing!NamesAssumption
  <1>1. /\ P \in Seq(DigitChar) /\ Listing!Number(P) = jf.run_time /\ Len(P) = TimeWidth
    BY JobFileFields, PaddedRead
  <1>2. D \in Seq(DigitChar) /\ Listing!Number(D) = t
    BY <1>0, DigitsRead
  <1>3. E \in Text /\ I \in Text
    <2>1. E \in Seq(DigitChar)
      BY JobFileFields, DigitsRead
    <2>2. I \in Without(".")
      BY PartsOfName
    <2> QED BY <2>1, <2>2, DigitTexts, WithoutIs
  <1>4. <<".">> \in Text /\ <<"u">> \in Text /\ <<"p">> \in Text
    BY NameChars DEF Text
  <1>5. Listing!IntText(t) = D
    BY <1>0 DEF Listing!IntText
  <1> HIDE DEF P, D, E, I
  <1>6. x3 \in Text /\ rest \in Text
    <2> DEFINE u1 == <<".">> \o <<"u">>
    <2>1. u1 \in Text
      BY <1>4, Concat
    <2> HIDE DEF u1
    <2>2. I \o u1 \in Text
      BY <1>3, <2>1, Concat
    <2>3. x3 \in Text
      BY <2>2 DEF u1
    <2> HIDE DEF x3
    <2>4. <<".">> \o x3 \in Text
      BY <1>4, <2>3, Concat
    <2> DEFINE y == <<".">> \o x3
    <2> HIDE DEF y
    <2>5. E \o y \in Text
      BY <1>3, <2>4, Concat DEF y
    <2> QED BY <2>3, <2>5 DEF y
  <1>7. FileName(jf) = (<<"t">> \o P) \o (<<".", "p">> \o rest)
    <2>1. FileName(jf) = (<<"t">> \o P) \o (<<".">> \o ((<<"p">> \o E) \o (<<".">> \o x3)))
      BY Zenon DEF FileName, BaseOf, TimePart, PriorityPart, P, E, I
    <2> DEFINE y == <<".">> \o x3
    <2>2. y \in Text
      BY <1>4, <1>6, Concat
    <2> HIDE DEF x3, y
    <2>3. Letters(<<".">>, <<"p">>, E, y)
      BY <1>3, <1>4, <2>2, Lettering
    <2>4. (<<".">> \o <<"p">>) \o (E \o y) = <<".">> \o ((<<"p">> \o E) \o y)
      BY <2>3, Zenon DEF Letters
    <2>5. <<".", "p">> = <<".">> \o <<"p">>
      BY NameChars, TextsOfFive, ZenonT(40) DEF Spelled
    <2> QED BY <2>1, <2>4, <2>5, Zenon DEF y
  <1> HIDE DEF rest
  <1>8. Listing!AtMost((<<"t">> \o P) \o (<<".", "p">> \o rest),
                       (<<"t">> \o D) \o <<".", "z", "z", "z">>)
          <=> Listing!Number(P) <= Listing!Number(D)
    <2>1. Len(P) = Len(D)
      BY <1>0, <1>1
    <2> QED BY <1>1, <1>2, <1>6, <2>1, FilterIs, Zenon
  <1>9. Listing!TimeFilter(FileName(jf), t)
          = Listing!AtMost((<<"t">> \o P) \o (<<".", "p">> \o rest),
                           (<<"t">> \o D) \o <<".", "z", "z", "z">>)
    BY <1>5, <1>7, Zenon DEF Listing!TimeFilter
  <1> QED BY <1>1, <1>2, <1>8, <1>9

-----------------------------------------------------------------------------
(* Names: the jobs that are due *)

\* The jobs in pend have names, and time(0) has as many digits as they.
NamesInv == pend \subseteq Listing!JobFiles /\ now \in Clock

\* No job is there at first.
LEMMA NamesInit == Listing!Init => NamesInv
BY DEF Listing!Init, NamesInv

\* Every step leaves jobs with names, and the clock a time(0).
LEMMA NamesNext == NamesInv /\ [Listing!Next]_(Listing!vars) => NamesInv'
PROOF
  <1>1. SUFFICES ASSUME NamesInv, [Listing!Next]_(Listing!vars) PROVE NamesInv'
    OBVIOUS
  <1>2. ASSUME NEW jf \in Listing!JobFiles, Listing!Submit(jf) PROVE NamesInv'
    BY <1>1, <1>2 DEF NamesInv, Listing!Submit
  <1>3. CASE Listing!Take
    BY <1>1, <1>3 DEF NamesInv, Listing!Take
  <1>4. CASE Listing!Tick
    BY <1>1, <1>4 DEF NamesInv, Listing!Tick
  <1>5. CASE UNCHANGED Listing!vars
    BY <1>1, <1>5 DEF NamesInv, Listing!vars
  <1> QED BY <1>1, <1>2, <1>3, <1>4, <1>5 DEF Listing!Next

\* What is listed as due are the names of the jobs that are due.
LEMMA DueListed ==
  ASSUME Listing!NamesAssumption, Listing!ClockShown, NamesInv
  PROVE  /\ \A p \in Listing!GetJobs(now) :
              \E jf \in pend : /\ jf.run_time <= now /\ p = Listing!NameOf(jf)
                               /\ Listing!FromPath(p) = jf
         /\ \A jf \in pend : jf.run_time <= now => Listing!NameOf(jf) \in Listing!GetJobs(now)
PROOF
  <1>1. ASSUME NEW jf \in pend
        PROVE  /\ Listing!FromPath(Listing!NameOf(jf)) = jf
               /\ Listing!TimeFilter(Listing!BaseName(Listing!NameOf(jf)), now)
                    <=> jf.run_time <= now
    <2>1. jf \in Listing!JobFiles /\ now \in Clock
      BY DEF NamesInv
    <2>2. /\ Listing!FromPath(Listing!NameOf(jf)) = jf
          /\ Listing!BaseName(Listing!NameOf(jf)) = FileName(jf)
      BY <2>1, ReadBack
    <2>3. Listing!TimeFilter(FileName(jf), now) <=> jf.run_time <= now
      BY <2>1, FilterDue
    <2> QED BY <2>2, <2>3
  <1> QED BY <1>1, Zenon DEF Listing!GetJobs

\* A manager finds the jobs that are due and no other, as long as times in names have
\* as many digits as time(0) and an int holds it, and it goes through them in order.
THEOREM DueInOrderSafe ==
  Listing!NamesAssumption /\ Listing!ClockShown => (Listing!Spec => []DueInOrder)
PROOF
  <1> SUFFICES ASSUME Listing!NamesAssumption, Listing!ClockShown
               PROVE  Listing!Spec => []DueInOrder
    OBVIOUS
  <1>1. NamesInv => DueInOrder
    <2> SUFFICES ASSUME NamesInv PROVE Listing!DueInOrder
      BY DEF DueInOrder
    <2> DEFINE jobs == Listing!GetJobs(now)
    <2>1. /\ \A p \in jobs : \E jf \in pend : /\ jf.run_time <= now /\ p = Listing!NameOf(jf)
                                              /\ Listing!FromPath(p) = jf
          /\ \A jf \in pend : jf.run_time <= now => Listing!NameOf(jf) \in jobs
      BY DueListed
    <2>2. ASSUME NEW jf \in pend PROVE Listing!FromPath(Listing!NameOf(jf)) = jf
      BY ReadBack DEF NamesInv
    <2> HIDE DEF jobs
    <2>3. {Listing!FromPath(p) : p \in jobs} = {jf \in pend : jf.run_time <= now}
      <3>1. ASSUME NEW p \in jobs PROVE Listing!FromPath(p) \in {jf \in pend : jf.run_time <= now}
        BY <2>1
      <3>2. ASSUME NEW jf \in pend, jf.run_time <= now
            PROVE  jf \in {Listing!FromPath(p) : p \in jobs}
        BY <2>1, <2>2, <3>2
      <3> QED BY <3>1, <3>2
    <2>4. \A p \in jobs : Listing!NameOf(Listing!FromPath(p)) = p
      BY <2>1
    <2>5. ASSUME NEW order \in Listing!Eligible(now), NEW k \in DOMAIN order, NEW l \in DOMAIN order,
                 k < l
          PROVE  LET x == Listing!FromPath(order[k])
                     y == Listing!FromPath(order[l])
                 IN \/ x.priority < y.priority
                    \/ x.priority = y.priority /\ x.run_time <= y.run_time
      <3> DEFINE x == Listing!FromPath(order[k])
                 y == Listing!FromPath(order[l])
      <3>1. order[k] \in jobs /\ order[l] \in jobs
        BY DEF Listing!Eligible, jobs
      <3>2. ~Listing!JobCompare(order[l], order[k])
        BY <2>5 DEF Listing!Eligible
      <3>3. ~(\/ y.priority = x.priority /\ y.run_time < x.run_time
              \/ y.priority < x.priority)
        BY <3>2, Zenon DEF Listing!JobCompare
      <3>4. x \in pend /\ y \in pend
        BY <2>1, <3>1
      <3> HIDE DEF x, y
      <3>5. /\ x.priority \in Nat /\ y.priority \in Nat
            /\ x.run_time \in Nat /\ y.run_time \in Nat
        BY <3>4, JobFileFields DEF NamesInv
      <3>6. \/ x.priority < y.priority
            \/ x.priority = y.priority /\ x.run_time <= y.run_time
        BY <3>3, <3>5
      <3> QED BY <3>6, Zenon DEF x, y
    <2> QED BY <2>3, <2>4, <2>5, Zenon DEF Listing!DueInOrder, jobs
  <1> QED BY <1>1, NamesInit, NamesNext, PTL DEF Listing!Spec
===============================================================================
