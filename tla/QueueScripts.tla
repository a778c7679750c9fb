------------------------------ MODULE QueueScripts ------------------------------
(***************************************************************************)
(* Making and removing a queue (mkjobq, rmjobq): shell scripts that make,  *)
(* count and remove directories one by one while mkjob and the job         *)
(* managers of all nodes work in them.  The scripts take no lock, and      *)
(* nobody that uses the queue looks whether one of them is at work.        *)
(*                                                                         *)
(* Abstracted: more than one queue, options (with --yes rmjobq asks        *)
(* nothing, with --force mkjobq makes what is missing), the SIGHUP to      *)
(* queman at the end (QueMan), contents of files (JobMan).                 *)
(* Bound: one script runs at a time.                                       *)
(***************************************************************************)
EXTENDS Naturals, SequencesExt

CONSTANTS
  Job,
  Orders       \* the orders in which a directory may list its entries

VARIABLES
  dirs,        \* the directories there are: the queue's own and its states'
  conf,        \* the queue has its file in qdefs
  place,       \* place[j]: the directory of j's file, "new" before, "gone" after
  hand,        \* hand[j]: the directory of the name that a manager is about to
               \* store j under, or "none"
  pc,          \* where the script is
  s,           \* the next of its list of states
  active,      \* rmjobq: the jobs that it has counted as incomplete so far
  asked,       \* rmjobq: it has asked, and was told to go on
  dir, names,  \* rm -fr: the directory it is in, and what it has read of it
  todo,        \* rm -fr: the directories that it has not been in
  back         \* history: back[j]: since the count began j was submitted, made
               \* again, or went back

vars == <<dirs, conf, place, hand, pc, s, active, asked, dir, names, todo, back>>

MkStates == <<"hold", "pend", "run", "tied", "kill", "done">>

\* Mutation: what is done first
RmStatesReversed == <<"done", "tied", "run", "pend", "hold">>
RmStates == <<"hold", "pend", "run", "tied", "done">>

StateDirs == Range(MkStates)
JobDirs == StateDirs \ {"kill"}
Incomplete == JobDirs \ {"done"}

QueueScriptsAssumption ==
  /\ Orders \subseteq Seq(StateDirs)
  /\ \A d \in SUBSET StateDirs : \E o \in Orders : Range(o) = d

TypeOK ==
  /\ dirs \in SUBSET ({"queue"} \cup StateDirs)
  /\ conf \in BOOLEAN
  /\ place \in [Job -> JobDirs \cup {"new", "gone"}]
  /\ hand \in [Job -> JobDirs \cup {"none"}]
  /\ pc \in {"idle", "make", "count", "rm", "unlink", "removed", "failed"}
  /\ s \in 1..7
  /\ active \in SUBSET Job
  /\ asked \in BOOLEAN
  /\ dir \in StateDirs \cup {"none"}
  /\ names \in SUBSET Job
  /\ todo \in Seq(StateDirs)
  /\ back \in [Job -> BOOLEAN]

Init ==
  /\ dirs = {}
  /\ conf = FALSE
  /\ place = [j \in Job |-> "new"]
  /\ hand = [j \in Job |-> "none"]
  /\ pc = "idle"
  /\ s = 1
  /\ active = {}
  /\ asked = FALSE
  /\ dir = "none"
  /\ names = {}
  /\ todo = <<>>
  /\ back = [j \in Job |-> FALSE]

jobVars == <<place, hand, back>>
rmVars == <<active, asked, dir, names, todo>>

-----------------------------------------------------------------------------
(* mkjobq *)

MakeQueue ==
  /\ pc = "idle"
  /\ "queue" \notin dirs
  /\ dirs' = {"queue"}
  /\ pc' = "make"
  /\ s' = 1
  /\ UNCHANGED <<conf, jobVars, rmVars>>

MakeState ==
  /\ pc = "make"
  /\ s <= Len(MkStates)
  /\ dirs' = dirs \cup {MkStates[s]}
  /\ s' = s + 1
  /\ UNCHANGED <<conf, pc, jobVars, rmVars>>

MakeConf ==
  /\ pc = "make"
  /\ s > Len(MkStates)
  /\ conf' = TRUE
  /\ pc' = "idle"
  /\ s' = 1
  /\ UNCHANGED <<dirs, jobVars, rmVars>>

-----------------------------------------------------------------------------
(* rmjobq: the count, the question, and rm -fr *)

StartCount ==
  /\ pc = "idle"
  /\ "queue" \in dirs
  /\ pc' = "count"
  /\ s' = 1
  /\ active' = {}
  /\ back' = [j \in Job |-> FALSE]
  /\ UNCHANGED <<dirs, conf, place, hand, asked, dir, names, todo>>

Files(d) == {j \in Job : place[j] = d}

\* ls of one directory; none of one that is not there (what counts is whether any
\* was: the script adds the numbers up)
Count ==
  /\ pc = "count"
  /\ s <= Len(RmStates)
  /\ active' = IF RmStates[s] = "done" THEN active ELSE active \cup Files(RmStates[s])
  /\ s' = s + 1
  /\ UNCHANGED <<dirs, conf, pc, asked, dir, names, todo, jobVars>>

\* "Queue has incomplete jobs; Really remove it?"
Decide ==
  /\ pc = "count"
  /\ s > Len(RmStates)
  /\ asked' = (active # {})
  /\ \/ /\ pc' = "rm"
        /\ todo' \in {o \in Orders : Range(o) = dirs \cap StateDirs}
     \/ active # {} /\ pc' = "idle" /\ UNCHANGED todo
  /\ s' = 1
  /\ active' = {}
  /\ UNCHANGED <<dirs, conf, dir, names, jobVars>>

\* rm reads a directory, removes what it has read, and then the directory
ReadDir ==
  /\ pc = "rm"
  /\ todo # <<>>
  /\ dir' = Head(todo)
  /\ names' = Files(dir')
  /\ todo' = Tail(todo)
  /\ pc' = "unlink"
  /\ UNCHANGED <<dirs, conf, s, active, asked, jobVars>>

Unlink ==
  /\ pc = "unlink"
  /\ \E j \in names :
       /\ names' = names \ {j}
       /\ place' = IF place[j] = dir THEN [place EXCEPT ![j] = "gone"] ELSE place
  /\ UNCHANGED <<dirs, conf, hand, back, pc, s, active, asked, dir, todo>>

\* rmdir(2) of a directory in which there is a file again fails
RemoveDir ==
  /\ pc = "unlink"
  /\ names = {}
  /\ dirs' = IF Files(dir) = {} THEN dirs \ {dir} ELSE dirs
  /\ dir' = "none"
  /\ pc' = "rm"
  /\ UNCHANGED <<conf, s, active, asked, names, todo, jobVars>>

\* Mutation: without set -e, an rm that fails does not end the script
EndAnyway(left) == "removed"

\* set -e
EndOf(left) == IF left = {} THEN "removed" ELSE "failed"

RemoveQueue ==
  /\ pc = "rm"
  /\ todo = <<>>
  /\ dirs' = IF dirs = {"queue"} THEN {} ELSE dirs
  /\ pc' = EndOf(dirs')
  /\ UNCHANGED <<conf, s, rmVars, jobVars>>

\* "...removed queue"; or the script has ended in the middle
Exit ==
  /\ pc \in {"removed", "failed"}
  /\ pc' = "idle"
  /\ asked' = FALSE
  /\ UNCHANGED <<dirs, conf, s, active, dir, names, todo, jobVars>>

-----------------------------------------------------------------------------
(* Jobs, as mkjob and the job managers move and store them (JobMan).  What   *)
(* a manager is storing it alone moves; rm asks nobody.                      *)

scriptVars == <<dirs, conf, pc, s, rmVars>>

Forward == {<<"hold", "pend">>, <<"pend", "run">>, <<"pend", "done">>,
            <<"run", "tied">>, <<"run", "done">>, <<"tied", "done">>}

\* mkjob creates the file if the queue and its hold are there
Submit(j) ==
  /\ place[j] = "new"
  /\ {"queue", "hold"} \subseteq dirs
  /\ place' = [place EXCEPT ![j] = "hold"]
  /\ back' = [back EXCEPT ![j] = TRUE]
  /\ UNCHANGED <<hand, scriptVars>>

\* rename(2), if what it goes to is there; mkjob then removes what it made
MovesOn(j) ==
  /\ hand[j] = "none"
  /\ \E e \in Forward :
       /\ place[j] = e[1]
       /\ \/ e[2] \in dirs /\ place' = [place EXCEPT ![j] = e[2]]
          \/ e[1] = "hold" /\ e[2] \notin dirs /\ place' = [place EXCEPT ![j] = "gone"]
  /\ UNCHANGED <<hand, back, scriptVars>>

\* A retry, or a job whose manager died
GoesBack(j) ==
  /\ hand[j] = "none"
  /\ place[j] = "run"
  /\ "pend" \in dirs
  /\ place' = [place EXCEPT ![j] = "pend"]
  /\ back' = [back EXCEPT ![j] = TRUE]
  /\ UNCHANGED <<hand, scriptVars>>

Purged(j) ==
  /\ hand[j] = "none"
  /\ place[j] = "done"
  /\ place' = [place EXCEPT ![j] = "gone"]
  /\ UNCHANGED <<hand, back, scriptVars>>

\* A job that a manager has loaded, and will store under the name it knows
Loads(j) ==
  /\ hand[j] = "none"
  /\ place[j] \in JobDirs \ {"hold"}
  /\ hand' = [hand EXCEPT ![j] = place[j]]
  /\ UNCHANGED <<place, back, scriptVars>>

\* fopen(.., "w") makes the file again if only its directory is there
Stores(j) ==
  /\ hand[j] # "none"
  /\ hand' = [hand EXCEPT ![j] = "none"]
  /\ place' = IF hand[j] \in dirs THEN [place EXCEPT ![j] = hand[j]] ELSE place
  /\ back' = [back EXCEPT ![j] = @ \/ place[j] = "gone"]
  /\ UNCHANGED scriptVars

-----------------------------------------------------------------------------

Make == MakeQueue \/ MakeState \/ MakeConf
Removal ==
  \/ StartCount \/ Count \/ Decide \/ ReadDir \/ Unlink \/ RemoveDir \/ RemoveQueue
  \/ Exit
Work(j) == Submit(j) \/ MovesOn(j) \/ GoesBack(j) \/ Purged(j) \/ Loads(j) \/ Stores(j)

Next == Make \/ Removal \/ \E j \in Job : Work(j)

Spec == Init /\ [][Next]_vars

-----------------------------------------------------------------------------

\* The states are counted in the order in which jobs go through them: whatever
\* rmjobq removes without a question had no incomplete job, unless it came, or
\* went back, while rmjobq was counting.
AskedUnlessBack ==
  pc \in {"rm", "unlink"} /\ ~asked =>
    \A j \in Job : place[j] \in Incomplete => back[j]

\* A queue that rmjobq says it has removed is gone with all its jobs, though
\* managers go on moving and storing them: else rmjobq ends without a word.
RemovedWhole ==
  pc = "removed" => dirs = {} /\ \A j \in Job : place[j] \notin JobDirs

-----------------------------------------------------------------------------
(* Stated by the sources, and not kept by the code (see the README)          *)

\* rmjobq asks before it removes incomplete jobs (rmjobq:113).
AlwaysAsked ==
  pc = "rm" /\ ~asked => \A j \in Job : place[j] \notin Incomplete

\* What was removed with its queue does not turn up in the next one of its name
\* (TODO:177: "if we nuke and put back the queue right away, queman on other
\* nodes won't catch this").
RemovedForGood ==
  [][\A j \in Job : place[j] = "gone" /\ pc \in {"idle", "make"} => place'[j] = "gone"]_vars
=============================================================================
