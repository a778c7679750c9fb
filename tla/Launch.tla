-------------------------------- MODULE Launch --------------------------------
(***************************************************************************)
(* job::launch (job/launch.cxx): a daemon (jobman, queman) forks children, *)
(* keeps them in finmap, and reaps them when SIGCHLD has been seen.  The   *)
(* new child waits on a pipe until its entry in finmap is there.           *)
(*                                                                         *)
(* The daemons delete a pad in its completion callback, and start children *)
(* with kill_kids.                                                         *)
(***************************************************************************)
EXTENDS Naturals, FiniteSets

CONSTANTS
  Pid,         \* process ids: they are used again
  Pad,         \* job::launch objects
  NoPad,       \* "not in finmap": not a pad
  Users,       \* the children (by process id) that are started with a uid # 0
  PromptKids   \* TRUE: a child gets to its prctl() before the daemon sends the ACK

VARIABLES
  daemon,      \* "up", "killed" (from outside), or "sigpipe"
  pc,          \* where in start() or reap_zombies() it is
  starting,    \* the pad whose start() it is in
  state,       \* state[k]: pad k's state, "none" if there is no such object
  pid,         \* pid[k]: its process id
  finmap,      \* finmap[x]: the pad in the process table under x, or NoPad
  needsReaping,\* the flag the SIGCHLD handler sets
  kid,         \* kid[x]: how far process x has got
  armed,       \* the processes that get SIGKILL when their parent dies
  acked        \* the processes whose pipe has the ACK in it

vars == <<daemon, pc, starting, state, pid, finmap, needsReaping, kid, armed, acked>>

ASSUME LaunchAssumption ==
  /\ NoPad \notin Pad
  /\ Users \subseteq Pid
  /\ PromptKids \in BOOLEAN

\* fork, prctl, log file opened, ACK read, setuid, exec, exit
KidSteps == {"none", "forked", "armed", "waiting", "told", "user", "running", "zombie"}

TypeOK ==
  /\ daemon \in {"up", "killed", "sigpipe"}
  /\ pc \in {"idle", "forked", "listed", "reaping"}
  /\ starting \in IF pc \in {"forked", "listed"} THEN Pad ELSE {NoPad}
  /\ state \in [Pad -> {"none", "NEW", "RUN", "FAIL"}]
  /\ pid \in [Pad -> Pid]
  /\ finmap \in [Pid -> Pad \cup {NoPad}]
  /\ needsReaping \in BOOLEAN
  /\ kid \in [Pid -> KidSteps]
  /\ armed \in SUBSET Pid
  /\ acked \in SUBSET Pid

Init ==
  /\ daemon = "up"
  /\ pc = "idle"
  /\ starting = NoPad
  /\ state = [k \in Pad |-> "none"]
  /\ pid \in [Pad -> Pid]
  /\ finmap = [x \in Pid |-> NoPad]
  /\ needsReaping = FALSE
  /\ kid = [x \in Pid |-> "none"]
  /\ armed = {}
  /\ acked = {}

-----------------------------------------------------------------------------

Alive(x) == kid[x] \notin {"none", "zombie"}

\* exit(2), or a deadly signal: SIGCHLD for the daemon, or init does the reaping
Ends(x) ==
  /\ kid' = [kid EXCEPT ![x] = IF daemon = "up" THEN "zombie" ELSE "none"]
  /\ needsReaping' = (needsReaping \/ daemon = "up")

\* The daemon ends: armed children are killed, and nothing is left of its tables
DaemonEnds(how) ==
  /\ daemon' = how
  /\ pc' = "idle"
  /\ starting' = NoPad
  /\ state' = [k \in Pad |-> "none"]
  /\ finmap' = [x \in Pid |-> NoPad]
  /\ needsReaping' = FALSE
  /\ kid' = [x \in Pid |-> IF x \in armed \/ ~Alive(x) THEN "none" ELSE kid[x]]

-----------------------------------------------------------------------------
(* start() *)

Fork(k, x) ==
  /\ daemon = "up" /\ pc = "idle"
  /\ state[k] = "none"
  /\ kid[x] = "none"
  /\ state' = [state EXCEPT ![k] = "NEW"]
  /\ pid' = [pid EXCEPT ![k] = x]
  /\ kid' = [kid EXCEPT ![x] = "forked"]
  /\ armed' = armed \ {x}
  /\ acked' = acked \ {x}
  /\ starting' = k
  /\ pc' = "forked"
  /\ UNCHANGED <<daemon, finmap, needsReaping>>

EnterTable ==
  /\ daemon = "up" /\ pc = "forked"
  /\ finmap' = [finmap EXCEPT ![pid[starting]] = starting]
  /\ state' = [state EXCEPT ![starting] = "RUN"]
  /\ pc' = "listed"
  /\ UNCHANGED <<daemon, starting, pid, needsReaping, kid, armed, acked>>

\* A write to a pipe that nobody can read any more raises SIGPIPE, which is at
\* its default: the error path after write() is not reached.
SendAck ==
  /\ daemon = "up" /\ pc = "listed"
  /\ PromptKids => kid[pid[starting]] # "forked"
  /\ \/ /\ Alive(pid[starting])
        /\ acked' = acked \cup {pid[starting]}
        /\ starting' = NoPad
        /\ pc' = "idle"
        /\ UNCHANGED <<daemon, state, finmap, needsReaping, kid>>
     \/ /\ ~Alive(pid[starting])
        /\ DaemonEnds("sigpipe")
        /\ UNCHANGED acked
  /\ UNCHANGED <<pid, armed>>

-----------------------------------------------------------------------------
(* reap_zombies(), kill() *)

StartReaping ==
  /\ daemon = "up" /\ pc = "idle"
  /\ needsReaping
  /\ needsReaping' = FALSE
  /\ pc' = "reaping"
  /\ UNCHANGED <<daemon, starting, state, pid, finmap, kid, armed, acked>>

\* The callback deletes the pad.  A child that is not in finmap is "lost".
ReapOne(x) ==
  /\ daemon = "up" /\ pc = "reaping"
  /\ kid[x] = "zombie"
  /\ kid' = [kid EXCEPT ![x] = "none"]
  /\ state' = [k \in Pad |-> IF k = finmap[x] THEN "none" ELSE state[k]]
  /\ finmap' = [finmap EXCEPT ![x] = NoPad]
  /\ UNCHANGED <<daemon, pc, starting, pid, needsReaping, armed, acked>>

\* Mutation: the flag is cleared when there is nothing left to reap
ReapingDoneLate ==
  /\ daemon = "up" /\ pc = "reaping"
  /\ pc' = "idle"
  /\ needsReaping' = FALSE
  /\ UNCHANGED <<daemon, starting, state, pid, finmap, kid, armed, acked>>

\* waitpid() says there are no more
ReapingDone ==
  /\ daemon = "up" /\ pc = "reaping"
  /\ \A x \in Pid : kid[x] # "zombie"
  /\ pc' = "idle"
  /\ UNCHANGED <<daemon, starting, state, pid, finmap, needsReaping, kid, armed, acked>>

\* Mutation: the pad is forgotten when it is killed, not when it is reaped
KillForgets(k) ==
  /\ daemon = "up" /\ pc = "idle"
  /\ state[k] = "RUN"
  /\ state' = [state EXCEPT ![k] = "none"]
  /\ finmap' = [finmap EXCEPT ![pid[k]] = NoPad]
  /\ Alive(pid[k]) /\ Ends(pid[k])
  /\ UNCHANGED <<daemon, pc, starting, pid, armed, acked>>

Kill(k) ==
  /\ daemon = "up" /\ pc = "idle"
  /\ state[k] = "RUN"
  /\ state' = [state EXCEPT ![k] = "FAIL"]
  /\ \/ Alive(pid[k]) /\ Ends(pid[k])
     \/ ~Alive(pid[k]) /\ UNCHANGED <<kid, needsReaping>>
  /\ UNCHANGED <<daemon, pc, starting, pid, finmap, armed, acked>>

DaemonKilled ==
  /\ daemon = "up"
  /\ DaemonEnds("killed")
  /\ UNCHANGED <<pid, armed, acked>>

-----------------------------------------------------------------------------
(* The child *)

Becomes(x, from, to) ==
  /\ kid[x] = from
  /\ kid' = [kid EXCEPT ![x] = to]
  /\ UNCHANGED <<daemon, pc, starting, state, pid, finmap, needsReaping, acked>>

\* Mutation: the signal is not asked for
DeathSignalUnset(x) == Becomes(x, "forked", "armed") /\ UNCHANGED armed

SetDeathSignal(x) ==
  /\ Becomes(x, "forked", "armed")
  /\ armed' = armed \cup {x}

OpenLog(x) == Becomes(x, "armed", "waiting") /\ UNCHANGED armed

\* Mutation: the child does not wait
GoesAhead(x) == Becomes(x, "waiting", "told") /\ UNCHANGED armed

ReadAck(x) ==
  /\ x \in acked
  /\ Becomes(x, "waiting", "told")
  /\ UNCHANGED armed

\* A change of the user id clears the parent-death signal
SetUser(x) ==
  /\ Becomes(x, "told", "user")
  /\ armed' = IF x \in Users THEN armed \ {x} ELSE armed

Exec(x) == Becomes(x, "user", "running") /\ UNCHANGED armed

\* The log file cannot be opened, end of file on the pipe SYNC_MAX times, the
\* command cannot be run, or the program is over
Exits(x) ==
  /\ \/ kid[x] \in {"forked", "armed", "user", "running"}
     \/ kid[x] = "waiting" /\ daemon # "up" /\ x \notin acked
  /\ Ends(x)
  /\ UNCHANGED <<daemon, pc, starting, state, pid, finmap, armed, acked>>

-----------------------------------------------------------------------------

Start(k) == \E x \in Pid : Fork(k, x)

Child(x) ==
  SetDeathSignal(x) \/ OpenLog(x) \/ ReadAck(x) \/ SetUser(x) \/ Exec(x) \/ Exits(x)

Next ==
  \/ \E k \in Pad : Start(k) \/ Kill(k)
  \/ EnterTable \/ SendAck \/ StartReaping \/ ReapingDone \/ DaemonKilled
  \/ \E x \in Pid : ReapOne(x) \/ Child(x)

Spec == Init /\ [][Next]_vars

-----------------------------------------------------------------------------

\* "The child can exit before the parent has a chance to add it to the process
\* id table ... Thus we use a pipe": when a child is reaped its pad is in the
\* table, and no child is ever lost.
NoLostChild ==
  daemon = "up" =>
    \A x \in Pid :
      /\ kid[x] = "zombie" /\ pc = "reaping" => finmap[x] # NoPad
      /\ finmap[x] # NoPad => kid[x] # "none" /\ pid[finmap[x]] = x

\* ... and what the child runs does not start before the entry is there.
RunsListed ==
  \A x \in Pid :
    daemon = "up" /\ kid[x] \in {"told", "user", "running"} => finmap[x] # NoPad

\* No wakeup is lost: while there is a child to reap, the flag is set or the
\* loop that reaps is still on.
ZombieNoticed ==
  daemon = "up" /\ (\E x \in Pid : kid[x] = "zombie") => needsReaping \/ pc = "reaping"

\* kill_kids "guarantees that the children will die when the parent dies for any
\* reason" (launch.hxx).
KidsDieWithParent == daemon # "up" => \A x \in Pid : kid[x] # "running"

-----------------------------------------------------------------------------
(* Stated by the sources, and not kept by the code: no run lists this, the   *)
(* README says how TLC refutes it.                                           *)

\* A child that ends, at whatever point, is reported to the daemon by its
\* callback, and does not take the daemon with it.
DaemonSurvives == daemon # "sigpipe"
=============================================================================
