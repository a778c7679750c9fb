-------------------------------- MODULE Finder --------------------------------
(***************************************************************************)
(* Looking a job up by its number (catjob.cxx, job::file::find,            *)
(* job::queue::scan_queue): all directories of all queues are read one     *)
(* after the other, while job managers move the job between them; then     *)
(* the job is loaded by the name that was found.                           *)
(*                                                                         *)
(* Abstracted: other jobs (their names are skipped), kill files (their     *)
(* names are no job's), what is printed.                                   *)
(***************************************************************************)
EXTENDS Naturals, Sequences

CONSTANTS
  Queue,       \* the names of the queues, in the order of scandir(.., alphasort)
  MaxRetries   \* bound: how often the job goes back to pend

VARIABLES
  state,       \* the directory the job is in, "none" before and after its life
  queue,       \* its queue
  stored,      \* FALSE while a store() has truncated the file
  version,     \* which name the job has: retrying and ending change its time
  pc,          \* where catjob is
  q, s,        \* the next queue and the next directory that it will read
  found,       \* found_filename, or the name loaded
  seen,        \* what was loaded: "whole" or "empty" contents, or "nothing"
  back,        \* history: the job went back, or was purged, since the scan began
  moved        \* history: it has been renamed or purged since it was found

vars == <<state, queue, stored, version, pc, q, s, found, seen, back, moved>>

FinderAssumption ==
  /\ Queue \in Seq(STRING)
  /\ MaxRetries \in Nat

\* Mutation: done jobs first
DoneFirst == <<"done", "hold", "pend", "run", "tied", "kill">>

\* enum state_t, in the order of the scan
StateOrder == <<"hold", "pend", "run", "tied", "kill", "done">>

NoFile == [state |-> "none", version |-> 0]
Name == [state |-> state, version |-> version]

TypeOK ==
  /\ state \in {StateOrder[i] : i \in DOMAIN StateOrder} \cup {"none"}
  /\ queue \in DOMAIN Queue
  /\ stored \in BOOLEAN
  /\ version \in 0..(MaxRetries + 2)
  /\ pc \in {"scan", "load", "notFound", "notLoaded", "shown"}
  /\ q \in 1..(Len(Queue) + 1)
  /\ s \in 1..(Len(StateOrder) + 1)
  /\ seen \in {"nothing", "empty", "whole"}
  /\ back \in BOOLEAN
  /\ moved \in BOOLEAN

Init ==
  /\ state \in {"hold", "pend", "run", "tied", "done"}
  /\ queue \in DOMAIN Queue
  /\ stored = TRUE
  /\ version = 0
  /\ pc = "scan"
  /\ q = 1
  /\ s = 1
  /\ found = NoFile
  /\ seen = "nothing"
  /\ back = FALSE
  /\ moved = FALSE

jobVars == <<state, queue, stored, version, back, moved>>
catVars == <<pc, q, s, found, seen>>

-----------------------------------------------------------------------------
(* catjob *)

\* scandir of one directory, with a callback for each name in it
Scan ==
  /\ pc = "scan"
  /\ q <= Len(Queue)
  /\ s <= Len(StateOrder)
  /\ IF queue = q /\ state = StateOrder[s]
     THEN found' = Name /\ pc' = "load" /\ moved' = FALSE
     ELSE UNCHANGED <<found, pc, moved>>
  /\ s' = s + 1
  /\ UNCHANGED <<q, seen, state, queue, stored, version, back>>

NextQueue ==
  /\ pc = "scan"
  /\ q <= Len(Queue)
  /\ s > Len(StateOrder)
  /\ q' = q + 1
  /\ s' = 1
  /\ UNCHANGED <<pc, found, seen, jobVars>>

\* find() returns "": "Cannot find nor access job"
NotFound ==
  /\ pc = "scan"
  /\ q > Len(Queue)
  /\ pc' = "notFound"
  /\ UNCHANGED <<q, s, found, seen, jobVars>>

\* load() by the name that _init_from_path took apart and name() put together
Load ==
  /\ pc = "load"
  /\ IF found = Name
     THEN pc' = "shown" /\ seen' = IF stored THEN "whole" ELSE "empty"
     ELSE pc' = "notLoaded" /\ UNCHANGED seen
  /\ UNCHANGED <<q, s, found, jobVars>>

-----------------------------------------------------------------------------
(* The job, as mkjob and the job managers move it (JobMan) *)

Forward == {<<"hold", "pend">>, <<"pend", "run">>, <<"pend", "done">>,
            <<"run", "tied">>, <<"run", "done">>, <<"tied", "done">>}

MovesOn ==
  /\ stored
  /\ \E e \in Forward : state = e[1] /\ state' = e[2]
  /\ moved' = TRUE
  /\ \/ version' = version
     \/ state' = "done" /\ version' = MaxRetries + 2
  /\ UNCHANGED <<queue, stored, back, catVars>>

\* A retry, or a job whose manager died
GoesBack ==
  /\ stored
  /\ state = "run"
  /\ state' = "pend"
  /\ \/ version' = version
     \/ version < MaxRetries /\ version' = version + 1
  /\ back' = TRUE
  /\ moved' = TRUE
  /\ UNCHANGED <<queue, stored, catVars>>

Purged ==
  /\ stored
  /\ state \in {"done", "hold"}
  /\ state' = "none"
  /\ back' = TRUE
  /\ moved' = TRUE
  /\ UNCHANGED <<queue, stored, version, catVars>>

\* store(): fopen(.., "w") of the file where it is, and fclose
Truncated == state # "none" /\ stored /\ stored' = FALSE
Written == ~stored /\ stored' = TRUE
Stores ==
  /\ Truncated \/ Written
  /\ UNCHANGED <<state, queue, version, back, moved, catVars>>

Next ==
  \/ Scan \/ NextQueue \/ NotFound \/ Load
  \/ MovesOn \/ GoesBack \/ Purged \/ Stores

Spec == Init /\ [][Next]_vars

-----------------------------------------------------------------------------

\* The directories are read in the order in which a job goes through them: a
\* job that only goes on is found, however fast it does.  What is found and
\* cannot be loaded has been moved in between, and only then.
FoundUnlessBack ==
  /\ pc = "notFound" => back
  /\ pc = "notLoaded" => moved

-----------------------------------------------------------------------------
(* Stated by the sources, and not kept by the code (see the README) *)

\* "This identifier may be used to refer to the job before, during, and after
\* the job runs" (job.pod): a job that was there all the time is shown.
AlwaysShown == pc \in {"notFound", "notLoaded"} => state = "none"

\* ... with what its file holds.
ShownWhole == seen # "empty"
=============================================================================
