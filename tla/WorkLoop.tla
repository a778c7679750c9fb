------------------------------- MODULE WorkLoop -------------------------------
(***************************************************************************)
(* The loop of a daemon: will_work_for_food of jobman (jobman.cxx) and,    *)
(* with other tasks, yearn_for_queues of queman (queman.cxx).  JobMan and  *)
(* QueMan let any task come next; here is when each does come.             *)
(*                                                                         *)
(* Times are in seconds and relative to `now`, what time(NULL) was at the  *)
(* top of the loop: all timers of a round are compared with it and set     *)
(* from it, so that the order of the tasks in a round does not matter to   *)
(* the timers, and a round is one step and the time it takes.              *)
(*                                                                         *)
(* Abstracted: what the tasks do; --test-time, which ends the loop early.  *)
(***************************************************************************)
EXTENDS Integers

CONSTANTS
  Task,         \* reap, dead, kill, clean, group, poll; reap, check
  First,        \* First[x]: seconds from the start to the first run of x
  Every,        \* Every[x]: next_x, the interval
  Cap,          \* Cap[x]: the most that is left of it after a SIGHUP
  MaxWork,      \* bound: the seconds that the tasks of one round take
  EarlySignals  \* TRUE: SIGTERM may come between sigaction and the loop

VARIABLES
  pc,           \* where the daemon is
  when,         \* when[x]: when_x - now, 0 if x is due
  elapsed,      \* the seconds since `now` was read
  runJobs,      \* run_jobs (run_queues): cleared by SIGTERM
  checkSoon,    \* check_soon: set by SIGHUP
  since,        \* history: the seconds since x last ran, or since the start
  asked,        \* history: 1 + the seconds since the first SIGHUP that x has
                \* not run after, or 0
  term          \* history: a SIGTERM has come

vars == <<pc, when, elapsed, runJobs, checkSoon, since, asked, term>>

ASSUME WorkLoopAssumption ==
  /\ First \in [Task -> Nat]
  /\ Every \in [Task -> Nat \ {0}]
  /\ Cap \in [Task -> Nat]
  /\ MaxWork \in Nat
  /\ EarlySignals \in BOOLEAN

TypeOK ==
  /\ pc \in {"boot", "top", "work", "sleep", "exit"}
  /\ when \in [Task -> Nat]
  /\ elapsed \in 0..(MaxWork + 1)
  /\ runJobs \in BOOLEAN
  /\ checkSoon \in BOOLEAN
  /\ since \in [Task -> Nat]
  /\ asked \in [Task -> Nat]
  /\ term \in BOOLEAN

Init ==
  /\ pc = "boot"
  /\ when = First
  /\ elapsed = 0
  /\ runJobs = FALSE
  /\ checkSoon = FALSE
  /\ since = [x \in Task |-> 0]
  /\ asked = [x \in Task |-> 0]
  /\ term = FALSE

-----------------------------------------------------------------------------

\* d seconds go by; a SIGHUP comes, or none
Pass(d, hup) ==
  /\ elapsed' = elapsed + d
  /\ since' = [x \in Task |-> since[x] + d]
  /\ asked' = [x \in Task |-> IF asked[x] # 0 THEN asked[x] + d
                              ELSE IF hup THEN 1 ELSE 0]

\* The timers, and run_jobs = true
Start ==
  /\ pc = "boot"
  /\ runJobs' = TRUE
  /\ pc' = "top"
  /\ UNCHANGED <<when, elapsed, checkSoon, since, asked, term>>

\* What is left of when_x at the top of a round
Left(x) == IF when[x] > elapsed THEN when[x] - elapsed ELSE 0

\* Mutation: the timers are set anew, not cut
SoonAnew(x) == IF checkSoon THEN Cap[x] ELSE Left(x)

\* if (when_x > now + Cap) when_x = now + Cap
Soon(x) == IF checkSoon /\ Left(x) > Cap[x] THEN Cap[x] ELSE Left(x)

Runs(x) == Soon(x) = 0

\* A round: now = time(NULL), the flag, then each task that is due
Round ==
  /\ pc = "top"
  /\ when' = [x \in Task |-> IF Runs(x) THEN Every[x] ELSE Soon(x)]
  /\ since' = [x \in Task |-> IF Runs(x) THEN 0 ELSE since[x]]
  /\ asked' = [x \in Task |-> IF Runs(x) THEN 0 ELSE asked[x]]
  /\ elapsed' = 0
  /\ checkSoon' = FALSE
  /\ pc' = "work"
  /\ UNCHANGED <<runJobs, term>>

\* The tasks take their time
Busy ==
  /\ pc = "work"
  /\ elapsed < MaxWork
  /\ Pass(1, FALSE)
  /\ UNCHANGED <<pc, when, runJobs, checkSoon, term>>

Worked ==
  /\ pc = "work"
  /\ pc' = "sleep"
  /\ UNCHANGED <<when, elapsed, runJobs, checkSoon, since, asked, term>>

\* Mutation: || becomes a test that holds for every rest of a sleep
StaysAnyway(rest) == rest >= 0 \/ runJobs'

\* while (sleep(1) || run_jobs)
Stays(rest) == rest > 0 \/ runJobs'

After(rest) == pc' = IF Stays(rest) THEN "top" ELSE "exit"

\* sleep(1) is slept out
Slept ==
  /\ pc = "sleep"
  /\ UNCHANGED <<when, runJobs, checkSoon, term>>
  /\ Pass(1, FALSE)
  /\ After(0)

\* A handler runs; if it ends a sleep, that returns the rest, rounded
Interrupt(hup) ==
  \/ /\ pc \in {"top", "work"} \/ (pc = "boot" /\ EarlySignals)
     /\ Pass(0, hup)
     /\ UNCHANGED pc
  \/ /\ pc = "sleep"
     /\ \E d \in {0, 1} : Pass(d, hup)
     /\ \E rest \in {0, 1} : After(rest)

\* SIGHUP (or, while awake, a job that ended: try_done sets the flag, too)
Hup ==
  /\ checkSoon' = TRUE
  /\ UNCHANGED <<when, runJobs, term>>
  /\ Interrupt(TRUE)

Term ==
  /\ runJobs' = FALSE
  /\ term' = TRUE
  /\ UNCHANGED <<when, checkSoon>>
  /\ Interrupt(FALSE)

\* SIGCHLD: its handler only asks for the reaping
Chld ==
  /\ pc = "sleep"
  /\ UNCHANGED <<when, runJobs, checkSoon, term>>
  /\ Interrupt(FALSE)

-----------------------------------------------------------------------------

Next == Start \/ Round \/ Busy \/ Worked \/ Slept \/ Hup \/ Term \/ Chld

Spec == Init /\ [][Next]_vars

\* One thread that never stops; and signals do not for ever come in each second
Awake == Start \/ Round \/ Worked
Fairness == WF_vars(Awake) /\ SF_vars(Slept)

-----------------------------------------------------------------------------

\* The longest wait that a timer is set for
Longest(x) == IF First[x] > Every[x] THEN First[x] ELSE Every[x]

\* However many signals come and whenever, a task runs once in its interval
\* and the time of one round; and after a SIGHUP once in the interval that it
\* cuts the timer to, and the time of the round it came in and of one more.
\* (mkjob sends one SIGHUP for each job, and each job that ends sets the same
\* flag: a busy manager must not put its housekeeping off.)
TasksInTime ==
  pc # "exit" =>
    \A x \in Task :
      /\ since[x] <= Longest(x) + MaxWork
      /\ asked[x] <= Cap[x] + 2 * (MaxWork + 1)

\* The timers behind it: no timer is ever further away than its interval less
\* the time gone by, nor, after a SIGHUP, than its cap less that time.
Timers ==
  /\ elapsed <= MaxWork + (IF pc \in {"top", "exit"} THEN 1 ELSE 0)
  /\ pc = "boot" => elapsed = 0
  /\ \A x \in Task :
       /\ since[x] + when[x] <= Longest(x) + elapsed
       /\ \/ asked[x] = 0
          \/ checkSoon /\ asked[x] <= elapsed + 1
          \/ asked[x] + when[x] <= Cap[x] + MaxWork + 2 + elapsed
       /\ when[x] = 0 =>
            pc \in {"boot", "top", "exit"} /\ elapsed = 0 /\ since[x] = 0 /\ asked[x] <= 1

\* SIGTERM ends the loop (without EarlySignals), though children end and
\* SIGHUPs come, as long as now and then a second goes by without any.
LoopEnds == term ~> pc = "exit"
=============================================================================
