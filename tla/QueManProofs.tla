----------------------------- MODULE QueManProofs -----------------------------
(***************************************************************************)
(* The queue manager (QueMan), for any set of queues and any number of     *)
(* changes, failures and signals: it never has two job managers for a      *)
(* queue, none that it knows without a way to learn of its end, and none   *)
(* when it has ended.  Daemons instantiates it as Man, with the program    *)
(* counter quePc.                                                          *)
(***************************************************************************)
EXTENDS Daemons, TLAPS

\* One pad for a queue, and one for a process, dead or alive
OnePad ==
  \A p, q \in pads : p.queue = q.queue \/ p.pid = q.pid => p = q

\* Once the job managers have been killed none lives
AllDead == quePc \in {"exit", "down"} => \A p \in pads : ~p.alive

QInv == Man!TypeOK /\ OnePad /\ Man!KnownIsPadded /\ AllDead

-----------------------------------------------------------------------------
(* Pads *)

\* A job manager that has died keeps its queue and its process id.
LEMMA DeadPad ==
  ASSUME NEW p \in Man!Pads
  PROVE  /\ Man!Dead(p) \in Man!Pads
         /\ Man!Dead(p).queue = p.queue /\ Man!Dead(p).pid = p.pid /\ ~Man!Dead(p).alive
BY DEF Man!Dead, Man!Pads

\* Killing some, none or all of the job managers leaves every queue its pad.
LEMMA PadsKeep ==
  ASSUME QInv, NEW killed, pads' = {IF p \in killed THEN Man!Dead(p) ELSE p : p \in pads}
  PROVE  /\ pads' \in SUBSET Man!Pads
         /\ OnePad'
         /\ {p.queue : p \in pads'} = {p.queue : p \in pads}
<1>1. pads \in SUBSET Man!Pads
  BY DEF QInv, Man!TypeOK
<1>2. \A p, q \in pads : p.queue = q.queue \/ p.pid = q.pid => p = q
  BY DEF QInv, OnePad
<1>3. /\ pads' \in SUBSET Man!Pads
      /\ \A p, q \in pads' : p.queue = q.queue \/ p.pid = q.pid => p = q
      /\ {p.queue : p \in pads'} = {p.queue : p \in pads}
  BY <1>1, <1>2, DeadPad
<1> QED
  BY <1>3 DEF OnePad

-----------------------------------------------------------------------------
(* The steps *)

\* Steps that touch neither pads nor known queues.
LEMMA PadsUntouched ==
  ASSUME QInv, UNCHANGED <<known, pads>>, Man!TypeOK',
         quePc' \in {"exit", "down"} => quePc \in {"exit", "down"},
         quePc = "down" => quePc' = "down"
  PROVE  QInv'
BY DEF QInv, OnePad, Man!KnownIsPadded, AllDead

\* The queues of the zombies have no other pad.
LEMMA ReapKeeps ==
  ASSUME QInv, Man!Reap PROVE QInv'
<1> DEFINE zombies == {p \in pads : ~p.alive}
<1>1. /\ quePc = "loop" /\ quePc' = "loop"
      /\ pads' = pads \ zombies
      /\ known' = known \ {p.queue : p \in zombies}
  BY DEF Man!Reap
<1>2. Man!TypeOK'
  BY DEF Man!Reap, QInv, Man!TypeOK
<1>3. OnePad'
  BY <1>1 DEF QInv, OnePad
<1>4. Man!KnownIsPadded'
  <2>1. known = {p.queue : p \in pads}
    BY <1>1 DEF QInv, Man!KnownIsPadded
  <2>2. \A p \in pads, q \in zombies : p.queue = q.queue => p \in zombies
    BY DEF QInv, OnePad
  <2>3. known' = {p.queue : p \in pads'}
    BY <1>1, <2>1, <2>2
  <2> QED
    BY <2>3 DEF Man!KnownIsPadded
<1> QED
  BY <1>1, <1>2, <1>3, <1>4 DEF QInv, AllDead

\* Job managers of queues that are gone are killed, not forgotten.
LEMMA StopGoneKeeps ==
  ASSUME QInv, Man!StopGone PROVE QInv'
<1> DEFINE killed == {p \in pads : p.queue \in Man!Gone}
<1>1. pads' = {IF p \in killed THEN Man!Dead(p) ELSE p : p \in pads}
  BY DEF Man!StopGone
<1>2. /\ pads' \in SUBSET Man!Pads /\ OnePad'
      /\ {p.queue : p \in pads'} = {p.queue : p \in pads}
  BY <1>1, PadsKeep
<1>3. Man!TypeOK'
  BY <1>2 DEF Man!StopGone, QInv, Man!TypeOK, OnePad
<1> QED
  BY <1>2, <1>3 DEF Man!StopGone, QInv, Man!KnownIsPadded, AllDead

\* A queue that is launched for is not known, and so has no pad.
LEMMA LaunchKeeps ==
  ASSUME QInv, NEW q \in Queue, Man!Launch(q) PROVE QInv'
<1>1. CASE UNCHANGED <<known, pads>>
  <2>1. Man!TypeOK'
    BY <1>1, QueManAssumption DEF Man!QueManAssumption, Man!Launch, QInv, Man!TypeOK
  <2> QED
    BY <1>1, <2>1, PadsUntouched DEF Man!Launch
<1>2. ASSUME NEW x \in Pid, \A p \in pads : p.pid # x,
             pads' = pads \cup {[queue |-> q, pid |-> x, alive |-> TRUE]},
             known' = known \cup {q}, UNCHANGED <<failed, failures>>
      PROVE  QInv'
  <2> DEFINE new == [queue |-> q, pid |-> x, alive |-> TRUE]
  <2>1. new \in Man!Pads /\ new.queue = q /\ new.pid = x
    BY DEF Man!Pads
  <2>2. /\ quePc = "new" /\ quePc' = "new" /\ q \notin known
        /\ known = {p.queue : p \in pads}
    BY DEF Man!Launch, Man!New, QInv, Man!KnownIsPadded
  <2>3. OnePad'
    <3>1. \A p \in pads : p.queue # new.queue /\ p.pid # new.pid
      BY <1>2, <2>1, <2>2
    <3>2. pads' = pads \cup {new}
      BY <1>2
    <3> HIDE DEF new
    <3> QED
      BY <3>1, <3>2 DEF QInv, OnePad
  <2>4. Man!TypeOK'
    BY <1>2, <2>1, <2>3 DEF Man!Launch, QInv, Man!TypeOK, OnePad
  <2>5. known' = {p.queue : p \in pads'}
    BY <1>2, <2>1, <2>2
  <2> QED
    BY <2>2, <2>3, <2>4, <2>5 DEF QInv, Man!KnownIsPadded, AllDead
<1> QED
  BY <1>1, <1>2 DEF Man!Launch

\* All are killed ...
LEMMA LeaveLoopKeeps ==
  ASSUME QInv, Man!LeaveLoop PROVE QInv'
<1>1. pads' = {IF p \in pads THEN Man!Dead(p) ELSE p : p \in pads}
  BY DEF Man!LeaveLoop, Man!KillAll
<1>2. /\ pads' \in SUBSET Man!Pads /\ OnePad'
      /\ {p.queue : p \in pads'} = {p.queue : p \in pads}
  BY <1>1, PadsKeep
<1>3. Man!TypeOK'
  BY <1>2 DEF Man!LeaveLoop, QInv, Man!TypeOK, OnePad
<1>4. \A p \in pads' : ~p.alive
  BY DeadPad DEF Man!LeaveLoop, Man!KillAll, QInv, Man!TypeOK
<1> QED
  BY <1>2, <1>3, <1>4 DEF Man!LeaveLoop, QInv, Man!KnownIsPadded, AllDead

\* ... and reaped before queman ends,
LEMMA ExitKeeps ==
  ASSUME QInv, Man!Exit PROVE QInv'
<1>1. Man!TypeOK'
  BY DEF Man!Exit, QInv, Man!TypeOK
<1> QED
  BY <1>1 DEF Man!Exit, QInv, OnePad, Man!KnownIsPadded, AllDead

\* or die with it.
LEMMA QueuesUnreadableKeeps ==
  ASSUME QInv, Man!QueuesUnreadable PROVE QInv'
<1>1. pads' = {IF p \in pads THEN Man!Dead(p) ELSE p : p \in pads}
  BY DEF Man!QueuesUnreadable
<1>2. pads' \in SUBSET Man!Pads /\ OnePad'
  BY <1>1, PadsKeep
<1>3. Man!TypeOK'
  BY <1>2 DEF Man!QueuesUnreadable, QInv, Man!TypeOK, OnePad
<1>4. \A p \in pads' : ~p.alive
  BY DeadPad DEF Man!QueuesUnreadable, QInv, Man!TypeOK
<1> QED
  BY <1>2, <1>3, <1>4 DEF Man!QueuesUnreadable, QInv, Man!KnownIsPadded, AllDead

\* A job manager that dies on its own keeps its pad.
LEMMA ManagerDiesKeeps ==
  ASSUME QInv, Man!ManagerDies PROVE QInv'
<1>1. PICK p \in pads : p.alive /\ pads' = (pads \ {p}) \cup {Man!Dead(p)}
  BY DEF Man!ManagerDies
<1>2. pads' = {IF r \in {p} THEN Man!Dead(r) ELSE r : r \in pads}
  BY <1>1
<1>3. /\ pads' \in SUBSET Man!Pads /\ OnePad'
      /\ {r.queue : r \in pads'} = {r.queue : r \in pads}
  BY <1>2, PadsKeep
<1>4. Man!TypeOK'
  <2>1. failures' \in 0..MaxFailures
    BY QueManAssumption DEF Man!QueManAssumption, Man!ManagerDies, QInv, Man!TypeOK
  <2> QED
    BY <1>3, <2>1 DEF Man!ManagerDies, QInv, Man!TypeOK, OnePad
<1>5. quePc \notin {"exit", "down"}
  BY <1>1 DEF QInv, AllDead
<1> QED
  BY <1>3, <1>4, <1>5 DEF Man!ManagerDies, QInv, Man!KnownIsPadded, AllDead

-----------------------------------------------------------------------------

\* Nothing is known and nothing runs.
THEOREM QInvInit == Man!Init => QInv
<1> SUFFICES ASSUME Man!Init PROVE QInv
  OBVIOUS
<1>1. changes \in 0..MaxChanges /\ failures \in 0..MaxFailures
  BY QueManAssumption DEF Man!QueManAssumption, Man!Init
<1>2. Man!TypeOK
  BY <1>1 DEF Man!Init, Man!TypeOK
<1> QED
  BY <1>2 DEF Man!Init, QInv, OnePad, Man!KnownIsPadded, AllDead

\* Every step of queman, of who makes and removes queues, of who sends signals,
\* and of the job managers.
THEOREM QInvNext == QInv /\ [Man!Next]_(Man!vars) => QInv'
<1> SUFFICES ASSUME QInv, [Man!Next]_(Man!vars) PROVE QInv'
  OBVIOUS
<1>0. Man!TypeOK
  BY DEF QInv
<1>1. CASE Man!EnterLoop
  <2>1. Man!TypeOK'
    BY <1>0, <1>1 DEF Man!EnterLoop, Man!TypeOK
  <2> QED
    BY <1>1, <2>1, PadsUntouched DEF Man!EnterLoop
<1>2. CASE Man!Loop
  <2>1. CASE Man!CheckSoon
    <3>1. Man!TypeOK'
      BY <1>0, <2>1 DEF Man!CheckSoon, Man!ReadQueues, Man!TypeOK
    <3> QED
      BY <2>1, <3>1, PadsUntouched DEF Man!CheckSoon, Man!ReadQueues
  <2> QED
    BY <1>2, <2>1, ReapKeeps, LeaveLoopKeeps DEF Man!Loop
<1>3. CASE Man!CheckDue
  <2>1. Man!TypeOK'
    BY <1>0, <1>3 DEF Man!CheckDue, Man!ReadQueues, Man!TypeOK
  <2> QED
    BY <1>3, <2>1, PadsUntouched DEF Man!CheckDue, Man!ReadQueues
<1>4. CASE Man!QueuesUnreadable
  BY <1>4, QueuesUnreadableKeeps
<1>5. CASE Man!Check
  <2>1. CASE Man!CheckDone
    <3>1. Man!TypeOK'
      BY <1>0, <2>1 DEF Man!CheckDone, Man!TypeOK
    <3> QED
      BY <2>1, <3>1, PadsUntouched DEF Man!CheckDone
  <2> QED
    BY <1>5, <2>1, StopGoneKeeps, LaunchKeeps DEF Man!Check
<1>6. CASE Man!Exit
  BY <1>6, ExitKeeps
<1>7. CASE Man!ChangeQueues
  <2>1. Man!TypeOK'
    BY <1>0, <1>7, QueManAssumption DEF Man!QueManAssumption, Man!ChangeQueues, Man!TypeOK
  <2> QED
    BY <1>7, <2>1, PadsUntouched DEF Man!ChangeQueues
<1>8. CASE Man!Hup
  <2>1. Man!TypeOK'
    BY <1>0, <1>8 DEF Man!Hup, Man!TypeOK
  <2> QED
    BY <1>8, <2>1, PadsUntouched DEF Man!Hup
<1>9. CASE Man!Term
  <2>1. Man!TypeOK'
    BY <1>0, <1>9 DEF Man!Term, Man!TypeOK
  <2> QED
    BY <1>9, <2>1, PadsUntouched DEF Man!Term
<1>10. CASE Man!ManagerDies
  BY <1>10, ManagerDiesKeeps
<1>11. CASE UNCHANGED Man!vars
  BY <1>11 DEF Man!vars, QInv, Man!TypeOK, OnePad, Man!KnownIsPadded, AllDead
<1> QED
  BY <1>1, <1>2, <1>3, <1>4, <1>5, <1>6, <1>7, <1>8, <1>9, <1>10, <1>11 DEF Man!Next

\* The invariant holds all the way.
LEMMA QInvAlways == Man!Spec => []QInv
<1> QED
  BY QInvInit, QInvNext, PTL DEF Man!Spec

-----------------------------------------------------------------------------

\* However queues come and go, launches fail and job managers die, no queue has
\* two job managers at a time.
THEOREM OneManagerSafe == Man!Spec => []OneManager
<1>1. QInv => OneManager
  BY DEF QInv, OnePad, OneManager, Man!OneManager
<1> QED
  BY <1>1, QInvAlways, PTL

\* A queue counts as known exactly as long as there is a pad whose callback will
\* take it off again.
THEOREM KnownSafe == Man!Spec => []KnownIsPadded
<1>1. QInv => KnownIsPadded
  BY DEF QInv, KnownIsPadded
<1> QED
  BY <1>1, QInvAlways, PTL

\* No job manager outlives queman, however it ends (short of being killed).
THEOREM NoneLeftSafe == Man!Spec => []NoneLeft
<1>1. QInv => NoneLeft
  BY DEF QInv, AllDead, NoneLeft, Man!NoneLeft
<1> QED
  BY <1>1, QInvAlways, PTL
=============================================================================
