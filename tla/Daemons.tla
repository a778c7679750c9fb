------------------------------- MODULE Daemons -------------------------------
(***************************************************************************)
(* What both daemons start their children with (Launch) and the queue      *)
(* manager (QueMan, which takes a start for one step).  They do not        *)
(* interact here; QueMan has its program counter under a name of its own,  *)
(* so that a run and the proofs speak of the same formulas.                *)
(***************************************************************************)
EXTENDS Launch

CONSTANTS Queue, Daemonised, MaxChanges, MaxFailures   \* QueMan; it shares Pid

VARIABLES
  dir, known, failed, curr, pads, quePc, runQueues, checkSoon, asked, changes, failures

Man == INSTANCE QueMan WITH pc <- quePc

ASSUME QueManAssumption == Man!QueManAssumption

-----------------------------------------------------------------------------
(* The properties of QueMan, each stated there *)

\* No queue has two job managers at a time on a node.
OneManager == Man!OneManager

\* What is known has a pad whose callback will take it off again.
KnownIsPadded == Man!KnownIsPadded

\* No job manager outlives the queue manager's own end.
NoneLeft == Man!NoneLeft

\* A queue that stays is served, one that is gone loses its job manager.
QueuesServed == Man!QueuesServed

\* SIGHUP has the queues read again.
HupRescans == Man!HupRescans
=============================================================================
