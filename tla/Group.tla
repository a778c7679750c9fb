--------------------------------- MODULE Group ---------------------------------
(***************************************************************************)
(* Group jobs (jobman.cxx: breaking_up_is_hard_to_do and group_hug, with   *)
(* queue::get_states_of_jobs): a pending job with several ties is split    *)
(* into one child job per tie by the manager that has it locked, goes to   *)
(* tied, and gets to done when some manager has seen all children in done. *)
(* Seeing is a walk through the state directories while the children move. *)
(*                                                                         *)
(* One group job; how it is locked against other managers and how children *)
(* get from pend to done is JobMan's subject and taken from JobQueue here. *)
(***************************************************************************)
EXTENDS Naturals, Sequences, FiniteSets

CONSTANTS
  Node,        \* the machines whose job managers share the queue
  Member,      \* the names the group job is tied to
  Kid,         \* the job ids that child jobs may get
  NoKid,       \* id 0, "not tied yet": not a child job
  NoFile,      \* "no such directory entry"
  Nobody,      \* "no lock holder"
  WholeStores, \* TRUE: no look and no death between truncation and writing
  Purges,      \* TRUE: the housekeeper may take a child before the group is done
  Abrupt,      \* TRUE: a manager may die while it splits the group
  MaxCrashes,  \* bound: how often job managers die
  MaxFailures  \* bound: how often the creation of a child job fails

VARIABLES
  entry,       \* entry[s]: the ties in the group job's file in directory s
  lock,        \* the node that has the pending group job locked
  kid,         \* kid[k]: the directory child job k is in, or "none"
  of,          \* of[k]: the member child job k was made for, or NoKid
  pc,          \* where node n is, in either task
  ties,        \* ties[n]: the ties in the memory of n
  todo,        \* todo[n]: the members it has still to make a child for
  open,        \* open[n]: where the file it has open for writing is now
  seen,        \* seen[n]: the statemap of its walk
  ggot,        \* ggot[n]: how many entries of it have been found, in its count
  dirs,        \* dirs[n]: the directories still to be walked
  crashes, failures

walkVars == <<seen, ggot, dirs>>
vars == <<entry, lock, kid, of, pc, ties, todo, open, walkVars, crashes, failures>>

Ties == [Member -> Kid \cup {NoKid}]
Untied == [m \in Member |-> NoKid]

\* A file truncated and not yet written loads without ties
Torn == <<>>

\* A job is split if it has ties
ASSUME GroupAssumption ==
  /\ Member # {}
  /\ NoKid \notin Kid
  /\ Nobody \notin Node
  /\ NoFile \notin Ties \cup {Torn}
  /\ {WholeStores, Purges, Abrupt} \subseteq BOOLEAN
  /\ MaxCrashes \in Nat /\ MaxFailures \in Nat

Ids(t) == IF t = Torn THEN {} ELSE {t[m] : m \in Member}

GroupDirs == {"pend", "tied", "done"}
\* Mutation: the walk ends one directory early
StateDirsButLast == <<"hold", "pend", "run", "tied", "kill">>
StateDirs == <<"hold", "pend", "run", "tied", "kill", "done">>
KidDirs == {"none", "hold", "pend", "run", "done", "gone"}

TypeOK ==
  /\ entry \in [GroupDirs -> Ties \cup {Torn, NoFile}]
  /\ lock \in Node \cup {Nobody}
  /\ kid \in [Kid -> KidDirs]
  /\ of \in [Kid -> Member \cup {NoKid}]
  /\ pc \in [Node -> {"idle", "split", "held", "trunc", "write", "walk"}]
  /\ ties \in [Node -> Ties]
  /\ todo \in [Node -> SUBSET Member]
  /\ open \in [Node -> GroupDirs]
  /\ \A n \in Node : DOMAIN seen[n] \subseteq Kid \cup {NoKid}
  /\ ggot \in [Node -> Nat]
  /\ lock # Nobody <=> \E n \in Node : pc[n] \in {"split", "held"}

Init ==
  /\ entry = [s \in GroupDirs |-> IF s = "pend" THEN Untied ELSE NoFile]
  /\ lock = Nobody
  /\ kid = [k \in Kid |-> "none"]
  /\ of = [k \in Kid |-> NoKid]
  /\ pc = [n \in Node |-> "idle"]
  /\ ties = [n \in Node |-> Untied]
  /\ todo = [n \in Node |-> {}]
  /\ open = [n \in Node |-> "tied"]
  /\ seen = [n \in Node |-> <<>>]
  /\ ggot = [n \in Node |-> 0]
  /\ dirs = [n \in Node |-> <<>>]
  /\ crashes = 0
  /\ failures = 0

-----------------------------------------------------------------------------
(* breaking_up_is_hard_to_do *)

Goto(n, step) == pc' = [pc EXCEPT ![n] = step]

\* Mutation: the group job is split although another manager has it locked
LockIgnored(n) ==
  /\ pc[n] = "idle"
  /\ entry["pend"] # NoFile
  /\ lock' = n
  /\ ties' = [ties EXCEPT ![n] = entry["pend"]]
  /\ todo' = [todo EXCEPT ![n] = Member]
  /\ Goto(n, "split")
  /\ UNCHANGED <<entry, kid, of, open, walkVars, crashes, failures>>

Lock(n) ==
  /\ pc[n] = "idle"
  /\ entry["pend"] # NoFile
  /\ lock = Nobody
  /\ lock' = n
  /\ ties' = [ties EXCEPT ![n] = entry["pend"]]
  /\ todo' = [todo EXCEPT ![n] = Member]
  /\ Goto(n, "split")
  /\ UNCHANGED <<entry, kid, of, open, walkVars, crashes, failures>>

\* A child job is stored in hold, or cannot be: then its member stays untied
MakeKid(n) ==
  /\ pc[n] = "split"
  /\ \E m \in todo[n] :
       \/ \E k \in Kid :
            /\ kid[k] = "none"
            /\ of' = [of EXCEPT ![k] = m]
            /\ kid' = [kid EXCEPT ![k] = "hold"]
            /\ ties' = [ties EXCEPT ![n][m] = k]
            /\ Goto(n, "held")
            /\ UNCHANGED <<todo, failures>>
       \/ /\ failures < MaxFailures
          /\ failures' = failures + 1
          /\ todo' = [todo EXCEPT ![n] = @ \ {m}]
          /\ UNCHANGED <<kid, of, ties, pc>>
  /\ UNCHANGED <<entry, lock, open, walkVars, crashes>>

\* ... and moved to pend, or removed
ReleaseKid(n) ==
  /\ pc[n] = "held"
  /\ \E m \in todo[n] :
       /\ ties[n][m] \in Kid /\ kid[ties[n][m]] = "hold"
       /\ todo' = [todo EXCEPT ![n] = @ \ {m}]
       /\ \/ kid' = [kid EXCEPT ![ties[n][m]] = "pend"] /\ UNCHANGED <<ties, failures>>
          \/ /\ failures < MaxFailures
             /\ failures' = failures + 1
             /\ kid' = [kid EXCEPT ![ties[n][m]] = "gone"]
             /\ ties' = [ties EXCEPT ![n][m] = NoKid]
  /\ Goto(n, "split")
  /\ UNCHANGED <<entry, lock, of, open, walkVars, crashes>>

\* store()'s repath: to tied, and the lock is let go
TieGroup(n) ==
  /\ pc[n] = "split"
  /\ todo[n] = {}
  /\ entry' = [entry EXCEPT !["pend"] = NoFile, !["tied"] = entry["pend"]]
  /\ lock' = Nobody
  /\ Goto(n, "trunc")
  /\ UNCHANGED <<kid, of, ties, todo, open, walkVars, crashes, failures>>

\* fopen(.., "w"): creates the file if it is not in tied any more
Truncate(n) ==
  /\ pc[n] = "trunc"
  /\ entry' = [entry EXCEPT !["tied"] = Torn]
  /\ open' = [open EXCEPT ![n] = "tied"]
  /\ Goto(n, "write")
  /\ UNCHANGED <<lock, kid, of, ties, todo, walkVars, crashes, failures>>

Write(n) ==
  /\ pc[n] = "write"
  /\ entry' = [entry EXCEPT ![open[n]] = ties[n]]
  /\ Goto(n, "idle")
  /\ UNCHANGED <<lock, kid, of, ties, todo, open, walkVars, crashes, failures>>

-----------------------------------------------------------------------------
(* group_hug *)

Storing == \E n \in Node : pc[n] = "write"

\* Mutation: "if (!it->second) continue;" not commented out
IdsTied(t) == Ids(t) \ {NoKid}
Wanted(t) == Ids(t)

Load(n) ==
  /\ pc[n] = "idle"
  /\ entry["tied"] # NoFile
  /\ WholeStores => ~Storing
  /\ seen' = [seen EXCEPT ![n] = [k \in Wanted(entry["tied"]) |-> "unk"]]
  /\ ggot' = [ggot EXCEPT ![n] = 0]
  /\ dirs' = [dirs EXCEPT ![n] = StateDirs]
  /\ Goto(n, "walk")
  /\ UNCHANGED <<entry, lock, kid, of, ties, todo, open, crashes, failures>>

Asked(n) == DOMAIN seen[n]
Found(n, s) == {k \in Asked(n) \cap Kid : kid[k] = s}

\* get_states_of_jobs: the next directory.  A child seen in one directory and
\* again, having moved, in a later one counts twice.
Walk(n) ==
  /\ pc[n] = "walk"
  /\ dirs[n] # <<>>
  /\ ggot[n] < Cardinality(Asked(n))
  /\ LET found == Found(n, Head(dirs[n])) IN
       /\ seen' = [seen EXCEPT ![n] =
            [k \in Asked(n) |-> IF k \in found THEN Head(dirs[n]) ELSE seen[n][k]]]
       /\ ggot' = [ggot EXCEPT ![n] = @ + Cardinality(found)]
  /\ dirs' = [dirs EXCEPT ![n] = Tail(@)]
  /\ UNCHANGED <<entry, lock, kid, of, pc, ties, todo, open, crashes, failures>>

\* Mutation: no child is left where it holds the group up
NoneUnfinished(n) == \A k \in Asked(n) : seen[n][k] \notin {"hold", "pend", "run", "tied"}
AllDone(n) == \A k \in Asked(n) : seen[n][k] = "done"

\* If all are done so is the group: whoever has the file open keeps it open
Conclude(n) ==
  /\ pc[n] = "walk"
  /\ dirs[n] = <<>> \/ ggot[n] >= Cardinality(Asked(n))
  /\ IF AllDone(n) /\ entry["tied"] # NoFile
     THEN /\ entry' = [entry EXCEPT !["tied"] = NoFile, !["done"] = entry["tied"]]
          /\ open' = [m \in Node |-> IF pc[m] = "write" THEN "done" ELSE open[m]]
     ELSE UNCHANGED <<entry, open>>
  /\ seen' = [seen EXCEPT ![n] = <<>>]
  /\ ggot' = [ggot EXCEPT ![n] = 0]
  /\ dirs' = [dirs EXCEPT ![n] = <<>>]
  /\ Goto(n, "idle")
  /\ UNCHANGED <<lock, kid, of, ties, todo, crashes, failures>>

-----------------------------------------------------------------------------

\* A child job is started, retried or resurrected, ends, and is purged
Moves(k, from, to) ==
  /\ kid[k] = from
  /\ kid' = [kid EXCEPT ![k] = to]
  /\ UNCHANGED <<entry, lock, of, pc, ties, todo, open, walkVars, crashes, failures>>

KidEnds(k) == Moves(k, "run", "done")
KidStarts(k) == Moves(k, "pend", "run")
KidRetries(k) == Moves(k, "run", "pend")
KidPurged(k) == Purges /\ Moves(k, "done", "gone")

\* A manager dies and is started again
Crash(n) ==
  /\ crashes < MaxCrashes
  /\ crashes' = crashes + 1
  /\ pc[n] \in {"idle", "walk"} \/ Abrupt
  /\ WholeStores => pc[n] # "write"
  /\ lock' = IF lock = n THEN Nobody ELSE lock
  /\ Goto(n, "idle")
  /\ todo' = [todo EXCEPT ![n] = {}]
  /\ seen' = [seen EXCEPT ![n] = <<>>]
  /\ ggot' = [ggot EXCEPT ![n] = 0]
  /\ dirs' = [dirs EXCEPT ![n] = <<>>]
  /\ UNCHANGED <<entry, kid, of, ties, open, failures>>

Break(n) == MakeKid(n) \/ ReleaseKid(n) \/ TieGroup(n) \/ Truncate(n) \/ Write(n)
Hug(n) == Walk(n) \/ Conclude(n)
KidMoves(k) == KidStarts(k) \/ KidRetries(k) \/ KidEnds(k) \/ KidPurged(k)

Next ==
  \/ \E n \in Node : Lock(n) \/ Break(n) \/ Load(n) \/ Hug(n) \/ Crash(n)
  \/ \E k \in Kid : KidMoves(k)

Spec == Init /\ [][Next]_vars

\* Managers go through their tasks again and again; children are started when
\* they are pending and end, if not at the first try.
FairSpec ==
  /\ Spec
  /\ \A n \in Node :
       SF_vars(Lock(n)) /\ SF_vars(Load(n)) /\ WF_vars(Break(n)) /\ WF_vars(Hug(n))
  /\ \A k \in Kid : WF_vars(KidStarts(k)) /\ SF_vars(KidEnds(k))

-----------------------------------------------------------------------------

\* "The group job is not considered complete until all child jobs are" (mkjob.pod):
\* no child job that was made is unfinished.
GroupDoneLast ==
  entry["done"] # NoFile => \A k \in Kid : kid[k] \in {"none", "done", "gone"}

\* The group job is done for every member: none was left out, whichever manager
\* died or failed to create which child.
MembersServed ==
  entry["done"] # NoFile =>
    \A m \in Member : \E k \in Kid : of[k] = m /\ kid[k] \in {"done", "gone"}

\* The group job, too, is one file in one state.
OneGroupFile == Cardinality({s \in GroupDirs : entry[s] # NoFile}) = 1

\* A member has at most one child job ("multiple jobs", one per station of the
\* list the group iterates over).
OneKidEach ==
  \A j, k \in Kid :
    of[j] = of[k] /\ {kid[j], kid[k]} \cap {"none", "gone"} = {} => j = k

\* When the child jobs end, the group job gets to done.
GroupEnds == <>(entry["done"] # NoFile)
=============================================================================
