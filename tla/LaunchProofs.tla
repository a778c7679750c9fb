----------------------------- MODULE LaunchProofs -----------------------------
(***************************************************************************)
(* A daemon and its children (Launch), for any number of children, pads    *)
(* and process ids: no child is lost, none runs before it is listed, none  *)
(* is left unreaped unnoticed, and none outlives its daemon where the      *)
(* parent-death signal is asked for in time and not cleared again.         *)
(***************************************************************************)
EXTENDS Launch, TLAPS

\* Where the pad of a start() in progress is
StartInv ==
  /\ pc = "forked" => state[starting] = "NEW" /\ kid[pid[starting]] # "none"
                      /\ finmap[pid[starting]] = NoPad
  /\ pc = "listed" => finmap[pid[starting]] = starting

\* An entry of the table is for a process that is not reaped, and its pad
TableInv ==
  \A x \in Pid :
    finmap[x] # NoPad =>
      kid[x] # "none" /\ pid[finmap[x]] = x /\ state[finmap[x]] \in {"RUN", "FAIL"}

\* A process without an entry is the one that start() has just forked, and has
\* not been told to go on
Listed ==
  \A x \in Pid :
    kid[x] # "none" /\ finmap[x] = NoPad =>
      /\ pc = "forked" /\ pid[starting] = x
      /\ x \notin acked /\ kid[x] \notin {"told", "user", "running"}

\* The part of the invariant that is about a daemon and its children
DaemonInv == daemon = "up" => StartInv /\ TableInv /\ Listed /\ ZombieNoticed

\* Whoever was told to go on, or goes on, is armed; with no daemon nobody is
Armed(x) ==
  /\ kid[x] \in {"armed", "waiting", "told", "user", "running"} => x \in armed
  /\ kid[x] = "forked" => x \notin acked
  /\ daemon # "up" => kid[x] \in {"none", "forked", "armed", "waiting"}
  /\ daemon # "up" /\ kid[x] # "none" => x \notin acked

ArmedInv == PromptKids /\ Users = {} => \A x \in Pid : Armed(x)

LInv == TypeOK /\ DaemonInv /\ ArmedInv

\* The new process has no entry, and no ACK of an earlier one with its id.
LEMMA ForkKeeps ==
  ASSUME LInv, NEW k \in Pad, NEW x \in Pid, Fork(k, x) PROVE LInv'
<1> USE LaunchAssumption DEF LInv, Fork
<1>1. TypeOK'
  BY DEF TypeOK, KidSteps
<1>2. DaemonInv'
  BY DEF TypeOK, KidSteps, DaemonInv, StartInv, TableInv, Listed, ZombieNoticed
<1>3. ArmedInv'
  BY DEF TypeOK, KidSteps, ArmedInv, Armed, DaemonInv, StartInv, TableInv, Listed
<1> QED
  BY <1>1, <1>2, <1>3

\* The pad gets its entry, whether the child still lives or not.
LEMMA EnterTableKeeps ==
  ASSUME LInv, EnterTable PROVE LInv'
<1> USE LaunchAssumption DEF LInv, EnterTable
<1>1. TypeOK'
  BY DEF TypeOK, KidSteps
<1>2. DaemonInv'
  BY DEF TypeOK, KidSteps, DaemonInv, StartInv, TableInv, Listed, ZombieNoticed
<1>3. ArmedInv'
  BY DEF TypeOK, KidSteps, ArmedInv, Armed, DaemonInv, StartInv, TableInv, Listed
<1> QED
  BY <1>1, <1>2, <1>3

\* The ACK is for a child that has its entry; writing it may end the daemon.
LEMMA SendAckKeeps ==
  ASSUME LInv, SendAck PROVE LInv'
<1> USE LaunchAssumption DEF LInv, SendAck, Alive, DaemonEnds
<1>1. TypeOK'
  <2>1. starting \in Pad /\ pid[starting] \in Pid
    BY DEF TypeOK
  <2>2. CASE Alive(pid[starting])
    BY <2>1, <2>2 DEF TypeOK
  <2>3. CASE ~Alive(pid[starting])
    <3>1. DaemonEnds("sigpipe") /\ UNCHANGED <<pid, armed, acked>>
      BY <2>3
    <3> HIDE DEF SendAck
    <3> QED
      BY <3>1 DEF TypeOK, KidSteps
  <2> QED
    BY <2>2, <2>3
<1>2. DaemonInv'
  BY DEF TypeOK, KidSteps, DaemonInv, StartInv, TableInv, Listed, ZombieNoticed
<1>3. ArmedInv'
  BY DEF TypeOK, KidSteps, ArmedInv, Armed, DaemonInv, StartInv, TableInv, Listed
<1> QED
  BY <1>1, <1>2, <1>3

\* The flag is cleared, but the loop that reaps is on.
LEMMA StartReapingKeeps ==
  ASSUME LInv, StartReaping PROVE LInv'
<1> USE LaunchAssumption DEF LInv, StartReaping
<1>1. TypeOK'
  BY DEF TypeOK, KidSteps
<1>2. DaemonInv'
  BY DEF TypeOK, KidSteps, DaemonInv, StartInv, TableInv, Listed, ZombieNoticed
<1>3. ArmedInv'
  BY DEF TypeOK, KidSteps, ArmedInv, Armed, DaemonInv, StartInv, TableInv, Listed
<1> QED
  BY <1>1, <1>2, <1>3

\* Entry and pad go together with the process.
LEMMA ReapOneKeeps ==
  ASSUME LInv, NEW x \in Pid, ReapOne(x) PROVE LInv'
<1> USE LaunchAssumption DEF LInv, ReapOne
<1>1. TypeOK'
  BY DEF TypeOK, KidSteps
<1>2. DaemonInv'
  BY DEF TypeOK, KidSteps, DaemonInv, StartInv, TableInv, Listed, ZombieNoticed
<1>3. ArmedInv'
  BY DEF TypeOK, KidSteps, ArmedInv, Armed, DaemonInv, StartInv, TableInv, Listed
<1> QED
  BY <1>1, <1>2, <1>3

\* The loop ends when there is nothing to reap.
LEMMA ReapingDoneKeeps ==
  ASSUME LInv, ReapingDone PROVE LInv'
<1> USE LaunchAssumption DEF LInv, ReapingDone
<1>1. TypeOK'
  BY DEF TypeOK, KidSteps
<1>2. DaemonInv'
  BY DEF TypeOK, KidSteps, DaemonInv, StartInv, TableInv, Listed, ZombieNoticed
<1>3. ArmedInv'
  BY DEF TypeOK, KidSteps, ArmedInv, Armed, DaemonInv, StartInv, TableInv, Listed
<1> QED
  BY <1>1, <1>2, <1>3

\* A pad that is killed keeps its entry until it is reaped.
LEMMA KillKeeps ==
  ASSUME LInv, NEW k \in Pad, Kill(k) PROVE LInv'
<1> USE LaunchAssumption DEF LInv, Kill, Alive, Ends
<1>1. TypeOK'
  BY ZenonT(40) DEF TypeOK, KidSteps
<1>2. DaemonInv'
  <2>1. StartInv' /\ TableInv'
    BY DEF TypeOK, KidSteps, DaemonInv, StartInv, TableInv
  <2>2. Listed'
    BY DEF TypeOK, KidSteps, DaemonInv, Listed
  <2>3. ZombieNoticed'
    BY DEF TypeOK, KidSteps, DaemonInv, ZombieNoticed
  <2> QED
    BY <2>1, <2>2, <2>3 DEF DaemonInv
<1>3. ArmedInv'
  BY DEF TypeOK, KidSteps, ArmedInv, Armed, DaemonInv, StartInv, TableInv, Listed
<1> QED
  BY <1>1, <1>2, <1>3

\* Whatever was told to go on was armed, and dies.
LEMMA DaemonKilledKeeps ==
  ASSUME LInv, DaemonKilled PROVE LInv'
<1> USE LaunchAssumption DEF LInv, DaemonKilled, DaemonEnds, Alive
<1>1. TypeOK'
  BY DEF TypeOK, KidSteps
<1>2. DaemonInv'
  BY DEF TypeOK, KidSteps, DaemonInv, StartInv, TableInv, Listed, ZombieNoticed
<1>3. ArmedInv'
  BY DEF TypeOK, KidSteps, ArmedInv, Armed, DaemonInv, StartInv, TableInv, Listed
<1> QED
  BY <1>1, <1>2, <1>3

\* Steps of the child, who touches no table of the daemon: from here on it is
\* armed.
LEMMA SetDeathSignalKeeps ==
  ASSUME LInv, NEW x \in Pid, SetDeathSignal(x) PROVE LInv'
<1> USE LaunchAssumption DEF LInv, SetDeathSignal, Becomes
<1>1. TypeOK'
  BY DEF TypeOK, KidSteps
<1>2. DaemonInv'
  BY DEF TypeOK, KidSteps, DaemonInv, StartInv, TableInv, Listed, ZombieNoticed
<1>3. ArmedInv'
  BY DEF TypeOK, KidSteps, ArmedInv, Armed, DaemonInv, StartInv, TableInv, Listed
<1> QED
  BY <1>1, <1>2, <1>3

\* Still waiting.
LEMMA OpenLogKeeps ==
  ASSUME LInv, NEW x \in Pid, OpenLog(x) PROVE LInv'
<1> USE LaunchAssumption DEF LInv, OpenLog, Becomes
<1>1. TypeOK'
  BY DEF TypeOK, KidSteps
<1>2. DaemonInv'
  BY DEF TypeOK, KidSteps, DaemonInv, StartInv, TableInv, Listed, ZombieNoticed
<1>3. ArmedInv'
  BY DEF TypeOK, KidSteps, ArmedInv, Armed, DaemonInv, StartInv, TableInv, Listed
<1> QED
  BY <1>1, <1>2, <1>3

\* It goes on only when told to.
LEMMA ReadAckKeeps ==
  ASSUME LInv, NEW x \in Pid, ReadAck(x) PROVE LInv'
<1> USE LaunchAssumption DEF LInv, ReadAck, Becomes
<1>1. TypeOK'
  BY DEF TypeOK, KidSteps
<1>2. DaemonInv'
  BY DEF TypeOK, KidSteps, DaemonInv, StartInv, TableInv, Listed, ZombieNoticed
<1>3. ArmedInv'
  BY DEF TypeOK, KidSteps, ArmedInv, Armed, DaemonInv, StartInv, TableInv, Listed
<1> QED
  BY <1>1, <1>2, <1>3

\* It stays armed if its user id does not change.
LEMMA SetUserKeeps ==
  ASSUME LInv, NEW x \in Pid, SetUser(x) PROVE LInv'
<1> USE LaunchAssumption DEF LInv, SetUser, Becomes
<1>1. TypeOK'
  BY DEF TypeOK, KidSteps
<1>2. DaemonInv'
  BY DEF TypeOK, KidSteps, DaemonInv, StartInv, TableInv, Listed, ZombieNoticed
<1>3. ArmedInv'
  BY DEF TypeOK, KidSteps, ArmedInv, Armed, DaemonInv, StartInv, TableInv, Listed
<1> QED
  BY <1>1, <1>2, <1>3

\* It runs what it was made for.
LEMMA ExecKeeps ==
  ASSUME LInv, NEW x \in Pid, Exec(x) PROVE LInv'
<1> USE LaunchAssumption DEF LInv, Exec, Becomes
<1>1. TypeOK'
  BY DEF TypeOK, KidSteps
<1>2. DaemonInv'
  BY DEF TypeOK, KidSteps, DaemonInv, StartInv, TableInv, Listed, ZombieNoticed
<1>3. ArmedInv'
  BY DEF TypeOK, KidSteps, ArmedInv, Armed, DaemonInv, StartInv, TableInv, Listed
<1> QED
  BY <1>1, <1>2, <1>3

\* It ends: a zombie that sets the flag, if there is a daemon.
LEMMA ExitsKeeps ==
  ASSUME LInv, NEW x \in Pid, Exits(x) PROVE LInv'
<1> USE LaunchAssumption DEF LInv, Exits, Ends
<1>1. TypeOK'
  BY DEF TypeOK, KidSteps
<1>2. DaemonInv'
  BY DEF TypeOK, KidSteps, DaemonInv, StartInv, TableInv, Listed, ZombieNoticed
<1>3. ArmedInv'
  BY DEF TypeOK, KidSteps, ArmedInv, Armed, DaemonInv, StartInv, TableInv, Listed
<1> QED
  BY <1>1, <1>2, <1>3

\* No child, no entry.
THEOREM LInvInit == Init => LInv
<1> SUFFICES ASSUME Init PROVE LInv
  OBVIOUS
<1> USE LaunchAssumption DEF Init
<1>1. TypeOK
  BY DEF TypeOK, KidSteps
<1>2. DaemonInv
  BY DEF DaemonInv, StartInv, TableInv, Listed, ZombieNoticed
<1>3. ArmedInv
  BY DEF ArmedInv, Armed
<1> QED
  BY <1>1, <1>2, <1>3 DEF LInv

\* Every step of the daemon, of a child, or of whoever kills the daemon.
THEOREM LInvNext == LInv /\ [Next]_vars => LInv'
<1> SUFFICES ASSUME LInv, [Next]_vars PROVE LInv'
  OBVIOUS
<1>1. ASSUME NEW k \in Pad, Start(k) \/ Kill(k) PROVE LInv'
  BY <1>1, ForkKeeps, KillKeeps DEF Start
<1>2. CASE EnterTable
  BY <1>2, EnterTableKeeps
<1>3. CASE SendAck
  BY <1>3, SendAckKeeps
<1>4. CASE StartReaping
  BY <1>4, StartReapingKeeps
<1>5. CASE ReapingDone
  BY <1>5, ReapingDoneKeeps
<1>6. CASE DaemonKilled
  BY <1>6, DaemonKilledKeeps
<1>7. ASSUME NEW x \in Pid, ReapOne(x) PROVE LInv'
  BY <1>7, ReapOneKeeps
<1>8. ASSUME NEW x \in Pid, Child(x) PROVE LInv'
  BY <1>8, SetDeathSignalKeeps, OpenLogKeeps, ReadAckKeeps, SetUserKeeps, ExecKeeps,
     ExitsKeeps DEF Child
<1>9. CASE UNCHANGED vars
  BY <1>9 DEF vars, LInv, TypeOK, DaemonInv, StartInv, TableInv, Listed, ZombieNoticed,
     ArmedInv, Armed
<1> QED
  BY <1>1, <1>2, <1>3, <1>4, <1>5, <1>6, <1>7, <1>8, <1>9 DEF Next

\* The invariant holds all the way.
LEMMA LInvAlways == Spec => []LInv
BY LInvInit, LInvNext, PTL DEF Spec

-----------------------------------------------------------------------------

\* When a child is reaped its pad is in the table: its end is always reported
\* to the one who started it, though it may end before it is entered.
THEOREM NoLostChildSafe == Spec => []NoLostChild
<1>1. LInv => NoLostChild
  BY DEF LInv, DaemonInv, TableInv, Listed, NoLostChild
<1> QED
  BY <1>1, LInvAlways, PTL

\* No command is run by a child that the daemon has not entered yet.
THEOREM RunsListedSafe == Spec => []RunsListed
<1>1. LInv => RunsListed
  BY DEF LInv, DaemonInv, Listed, RunsListed
<1> QED
  BY <1>1, LInvAlways, PTL

\* A child that has ended is noticed: the SIGCHLD flag is set, or the loop that
\* reaps will come to it.
THEOREM ZombieNoticedSafe == Spec => []ZombieNoticed
<1>1. LInv => ZombieNoticed
  BY DEF LInv, DaemonInv, ZombieNoticed
<1> QED
  BY <1>1, LInvAlways, PTL

\* If no child changes its user id, and each gets to its prctl() before the ACK
\* is sent, none runs a command after its daemon has died at any point.
THEOREM KidsDieSafe ==
  ASSUME PromptKids, Users = {}
  PROVE  Spec => []KidsDieWithParent
<1>1. LInv => KidsDieWithParent
  BY DEF LInv, ArmedInv, Armed, KidsDieWithParent
<1> QED
  BY <1>1, LInvAlways, PTL
=============================================================================
