-------------------------------- MODULE QueMan --------------------------------
(***************************************************************************)
(* The queue manager (queman.cxx): it watches the queue directories and    *)
(* keeps one job manager running for each.  Queues come and go while it    *)
(* looks; job managers die, and cannot always be started.                  *)
(***************************************************************************)
EXTENDS Naturals, FiniteSets

CONSTANTS
  Queue,         \* the queue names
  Pid,           \* process ids of job managers: they are used again
  Daemonised,    \* TRUE: started without -D
  MaxChanges,    \* bound: how often queues are made and removed
  MaxFailures    \* bound: how often launches fail and job managers die

VARIABLES
  dir,           \* the queue directories there are
  known, failed, \* known_queues, failed_queues
  curr,          \* curr_queues: what the check in progress has read
  pads,          \* finmap: the job managers launched and not yet reaped
  pc,            \* where queman is
  runQueues,     \* the flag that SIGTERM clears
  checkSoon,     \* the flag that SIGHUP sets
  asked,         \* the signals sent and not yet answered by what they ask for
  changes, failures

vars == <<dir, known, failed, curr, pads, pc, runQueues, checkSoon, asked,
          changes, failures>>

QueManAssumption ==
  /\ Daemonised \in BOOLEAN
  /\ MaxChanges \in Nat
  /\ MaxFailures \in Nat

\* A job manager: the queue in the pad's term_ua, its process, alive or a zombie
Pads == [queue : Queue, pid : Pid, alive : BOOLEAN]

TypeOK ==
  /\ dir \in SUBSET Queue
  /\ known \in SUBSET Queue
  /\ failed \in SUBSET Queue
  /\ curr \in SUBSET Queue
  /\ pads \in SUBSET Pads
  /\ \A p, q \in pads : p.pid = q.pid => p = q
  /\ pc \in {"boot", "loop", "gone", "new", "exit", "down"}
  /\ runQueues \in BOOLEAN
  /\ checkSoon \in BOOLEAN
  /\ asked \in SUBSET {"hup", "term"}
  /\ changes \in 0..MaxChanges
  /\ failures \in 0..MaxFailures

Init ==
  /\ dir \in SUBSET Queue
  /\ known = {}
  /\ failed = {}
  /\ curr = {}
  /\ pads = {}
  /\ pc = "boot"
  /\ runQueues = FALSE
  /\ checkSoon = FALSE
  /\ asked = {}
  /\ changes = 0
  /\ failures = 0

-----------------------------------------------------------------------------

Dead(p) == [p EXCEPT !.alive = FALSE]

\* From setting up the handlers to the check loop
EnterLoop ==
  /\ pc = "boot"
  /\ runQueues' = TRUE
  /\ pc' = "loop"
  /\ UNCHANGED <<dir, known, failed, curr, pads, checkSoon, asked, changes, failures>>

\* reap_zombies, with q_done for each
Reap ==
  /\ pc = "loop"
  /\ LET zombies == {p \in pads : ~p.alive} IN
       /\ zombies # {}
       /\ pads' = pads \ zombies
       /\ known' = known \ {p.queue : p \in zombies}
  /\ UNCHANGED <<dir, failed, curr, pc, runQueues, checkSoon, asked, changes, failures>>

\* get_queues
ReadQueues(why) ==
  /\ pc = "loop"
  /\ curr' = dir
  /\ pc' = "gone"
  /\ asked' = asked \ {why}
  /\ UNCHANGED <<dir, known, failed, pads, runQueues, changes, failures>>

\* ... because --sleep seconds have passed, or a signal asks for it
CheckDue == ReadQueues("none") /\ UNCHANGED checkSoon
CheckSoon == checkSoon /\ checkSoon' = FALSE /\ ReadQueues("hup")

\* get_queues fails: queman dies, and its job managers with it (kill_kids)
QueuesUnreadable ==
  /\ pc = "loop"
  /\ pads' = {Dead(p) : p \in pads}
  /\ asked' = {}
  /\ pc' = "down"
  /\ UNCHANGED <<dir, known, failed, curr, runQueues, checkSoon, changes, failures>>

\* Mutation: the arguments of diff() are swapped
GoneSwapped == curr \ known
Gone == known \ curr

\* SIGKILL for the job manager of each queue that is gone
StopGone ==
  /\ pc = "gone"
  /\ pads' = {IF p.queue \in Gone THEN Dead(p) ELSE p : p \in pads}
  /\ failed' = failed \ Gone
  /\ pc' = "new"
  /\ UNCHANGED <<dir, known, curr, runQueues, checkSoon, asked, changes, failures>>

\* Mutation: a queue that already has a manager is new
NewUnlessFailed == curr \ failed
New == (curr \ known) \ failed

\* start() for one of the new queues
Launch(q) ==
  /\ pc = "new"
  /\ q \in New
  /\ \/ /\ \E x \in Pid :
             /\ \A p \in pads : p.pid # x
             /\ pads' = pads \cup {[queue |-> q, pid |-> x, alive |-> TRUE]}
        /\ known' = known \cup {q}
        /\ UNCHANGED <<failed, failures>>
     \/ /\ failures < MaxFailures
        /\ failures' = failures + 1
        /\ failed' = failed \cup {q}
        /\ UNCHANGED <<known, pads>>
  /\ UNCHANGED <<dir, curr, pc, runQueues, checkSoon, asked, changes>>

CheckDone ==
  /\ pc = "new"
  /\ New = {}
  /\ pc' = "loop"
  /\ UNCHANGED <<dir, known, failed, curr, pads, runQueues, checkSoon, asked,
                 changes, failures>>

\* Mutation: those that run are left alone
SpareAll == pads

\* kill() for every pad
KillAll == {Dead(p) : p \in pads}

\* The loop ends; all job managers are killed and reaped (with q_done) on the way
LeaveLoop ==
  /\ pc = "loop"
  /\ ~runQueues
  /\ pads' = KillAll
  /\ pc' = "exit"
  /\ UNCHANGED <<dir, known, failed, curr, runQueues, checkSoon, asked, changes, failures>>

Exit ==
  /\ pc = "exit"
  /\ pads' = {p \in pads : p.alive}
  /\ known' = known \ {p.queue : p \in pads \ pads'}
  /\ asked' = {}
  /\ pc' = "down"
  /\ UNCHANGED <<dir, failed, curr, runQueues, checkSoon, changes, failures>>

-----------------------------------------------------------------------------
(* The world: mkjobq and rmjobq, signals, and job managers that die *)

ChangeQueues ==
  /\ changes < MaxChanges
  /\ changes' = changes + 1
  /\ \E q \in Queue : dir' = IF q \in dir THEN dir \ {q} ELSE dir \cup {q}
  /\ UNCHANGED <<known, failed, curr, pads, pc, runQueues, checkSoon, asked, failures>>

\* Mutation: SIGHUP has no handler until queman is in its loop
HupTooEarly ==
  /\ pc \notin {"exit", "down"}
  /\ asked' = asked \cup {"hup"}
  /\ checkSoon' = (checkSoon \/ pc # "boot")
  /\ UNCHANGED <<dir, known, failed, curr, pads, pc, runQueues, changes, failures>>

\* daemonise() ignores SIGHUP, after main() has set its handler
Hup ==
  /\ pc \notin {"exit", "down"}
  /\ asked' = asked \cup {"hup"}
  /\ checkSoon' = (checkSoon \/ ~Daemonised)
  /\ UNCHANGED <<dir, known, failed, curr, pads, pc, runQueues, changes, failures>>

Term ==
  /\ pc \notin {"exit", "down"}
  /\ asked' = asked \cup {"term"}
  /\ runQueues' = FALSE
  /\ UNCHANGED <<dir, known, failed, curr, pads, pc, checkSoon, changes, failures>>

ManagerDies ==
  /\ failures < MaxFailures
  /\ failures' = failures + 1
  /\ \E p \in pads : p.alive /\ pads' = (pads \ {p}) \cup {Dead(p)}
  /\ UNCHANGED <<dir, known, failed, curr, pc, runQueues, checkSoon, asked, changes>>

-----------------------------------------------------------------------------

Check == StopGone \/ (\E q \in Queue : Launch(q)) \/ CheckDone
Loop == Reap \/ CheckSoon \/ LeaveLoop

Next ==
  \/ EnterLoop \/ Loop \/ CheckDue \/ QueuesUnreadable \/ Check \/ Exit
  \/ ChangeQueues \/ Hup \/ Term \/ ManagerDies

Spec == Init /\ [][Next]_vars

\* queman is one thread: once a second it looks at its flags and reaps, and the
\* check, when it is due or asked for, runs to its end.
Fairness ==
  /\ WF_vars(EnterLoop) /\ WF_vars(Check) /\ WF_vars(Exit)
  /\ SF_vars(Reap) /\ SF_vars(CheckSoon) /\ SF_vars(LeaveLoop) /\ SF_vars(CheckDue)
FairSpec == Spec /\ Fairness

-----------------------------------------------------------------------------

\* No queue has two job managers at a time on a node (they would not notice each
\* other: the jobs in the other's hands look like another node's).
OneManager ==
  \A p, q \in pads : p.alive /\ q.alive /\ p.queue = q.queue => p = q

\* What is known is what has a pad, alive or still to be reaped: no queue is
\* thought to have a manager when there is nothing left that could report its
\* end, and so would never get one again.
KnownIsPadded == pc # "down" => known = {p.queue : p \in pads}

\* A queue that is there to stay gets a job manager again and again, though the
\* manager may die; one that is gone for good loses it.
Manager(q) == \E p \in pads : p.queue = q /\ p.alive
QueuesServed ==
  \A q \in Queue :
    /\ <>[](q \in dir /\ "term" \notin asked /\ pc # "down") /\ [](failed = {})
         => []<>Manager(q)
    /\ <>[](q \notin dir) => <>[]~Manager(q)

\* When queman has ended so have the job managers it started.
NoneLeft == pc = "down" => \A p \in pads : ~p.alive

\* "Send a SIGHUP to a queman daemon to cause it to immediately rescan queues"
\* (queman.pod): not only when --sleep seconds have passed.
HupRescans == "hup" \in asked ~> "hup" \notin asked

-----------------------------------------------------------------------------
(* Stated by the sources, and not kept by the code: no run lists these, the  *)
(* README says how TLC refutes them.                                         *)

\* "If gone, they're no longer on the failed list" (queman.cxx): between checks,
\* a queue on the failed list was there when queman looked.
GoneNotFailed == pc = "new" => failed \subseteq curr

\* "Send a SIGTERM to a queman for a clean shutdown" (queman.pod).
TermEnds == "term" \in asked ~> pc = "down"
=============================================================================
