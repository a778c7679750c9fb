------------------------------- MODULE JobFile -------------------------------
(***************************************************************************)
(* Job files (src/job/file.cxx, multipart.cxx, queue.cxx).                 *)
(*                                                                         *)
(* There is no server and no shared memory: the (distributed) file system  *)
(* is the database.  A job is a file; the directory it is in is its state  *)
(* and its base name carries the time it is due, its priority and its id.  *)
(* The file is addressed by NAME for rename and fopen, but an flock is     *)
(* held on the INODE that was opened, so names and inodes are kept apart.  *)
(*                                                                         *)
(* Abstracted: priority and submitter (constant parts of a name), the      *)
(* queue (one queue), and of the contents everything but whether section 0 *)
(* still has its command and the list of "output"/"result" sections.       *)
(***************************************************************************)
EXTENDS Integers, Sequences, FiniteSets

CONSTANTS
  Node,      \* the machines whose job managers share the queue
  Job,       \* the job ids
  Inode,     \* the inodes of the queue's file system
  Nobody,    \* "no lock holder": not a node
  NoName     \* "no directory entry": not a name

VARIABLES
  at,        \* at[i]: the directory entry of inode i, or NoName if it has none
  data,      \* data[i]: the contents of inode i
  flk        \* flk[i]: the node whose job manager holds the flock on inode i

fsVars == <<at, data, flk>>

State == {"hold", "pend", "run", "tied", "done"}

\* A path <queue>/<st>/t<rt>.p<prio>.j<id>.<submitter>
Name == [st : State, rt : Nat, id : Job]

\* A section after section 0, with the Try-Count header it carries
Section == [kind : {"output", "result"}, try : Nat]

Content == [cmd : BOOLEAN, log : Seq(Section)]

\* What fopen(.., "w") leaves until the new contents are flushed by fclose
Empty == [cmd |-> FALSE, log |-> <<>>]

\* A job just submitted: a command, and no try yet
Fresh == [cmd |-> TRUE, log |-> <<>>]

ASSUME JobFileAssumption ==
  /\ Nobody \notin Node
  /\ NoName \notin Name

FsTypeOK ==
  /\ at \in [Inode -> Name \cup {NoName}]
  /\ data \in [Inode -> Content]
  /\ flk \in [Inode -> Node \cup {Nobody}]

FsInit ==
  /\ at = [i \in Inode |-> NoName]
  /\ data = [i \in Inode |-> Empty]
  /\ flk = [i \in Inode |-> Nobody]

-----------------------------------------------------------------------------
(* Names *)

In(s, nm) == [nm EXCEPT !.st = s]
DoneAt(t, nm) == [nm EXCEPT !.st = "done", !.rt = t]

\* open(2), fopen(3) and rename(2) find nm
Resolves(nm) == \E i \in Inode : at[i] = nm

\* rename(2): the entry at new, if any, is replaced
Renamed(old, new) ==
  [i \in Inode |-> IF at[i] = old THEN new
                   ELSE IF at[i] = new THEN NoName ELSE at[i]]

\* unlink(2)
Unlinked(nm) == [i \in Inode |-> IF at[i] = nm THEN NoName ELSE at[i]]

\* get_jobs_by_state: one directory, and with a time limit only what is due
Listing(s) == {nm \in {at[i] : i \in Inode} \ {NoName} : nm.st = s}
DueBy(t) == {nm \in Listing("pend") : nm.rt <= t}

-----------------------------------------------------------------------------
(* Contents *)

\* load(): the Try-Count of the last section, else 0
TryCount(c) == IF c.log = <<>> THEN 0 ELSE c.log[Len(c.log)].try

WithSection(c, kind, try) ==
  [c EXCEPT !.log = Append(@, [kind |-> kind, try |-> try])]

\* Mutation: the lost result is not noticed
WithoutMissingResult(c) == c

\* run_a_job: "if the last section was 'output', not 'result' ... insert a
\* result section", with the same Try-Count
WithMissingResult(c) ==
  IF c.log # <<>> /\ c.log[Len(c.log)].kind = "output"
  THEN WithSection(c, "result", TryCount(c))
  ELSE c

\* run_a_job: the next output section, ++try_count
WithNextTry(c) ==
  LET r == WithMissingResult(c) IN WithSection(r, "output", TryCount(c) + 1)
=============================================================================
