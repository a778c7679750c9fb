------------------------------ MODULE MCDaemons ------------------------------
(***************************************************************************)
(* A small instance of Daemons for TLC: three processes, three pads, two   *)
(* queues.  A behaviour is of one of the two parts; the variables of the   *)
(* other keep their first values.                                          *)
(***************************************************************************)
EXTENDS Daemons, TLC

CONSTANTS x1, x2, x3, k1, k2, k3, q1, q2   \* process ids, pads, queues

VARIABLE part

launchVars == vars
queVars == <<dir, known, failed, curr, pads, quePc, runQueues, checkSoon, asked, changes,
             failures>>

DaemonsInit ==
  /\ part \in {"launch", "queman"}
  /\ Init /\ (part = "queman" => pid = [k \in Pad |-> x1])
  /\ Man!Init /\ (part = "launch" => dir = {})

DaemonsNext ==
  \/ part = "launch" /\ Next /\ UNCHANGED <<part, queVars>>
  \/ part = "queman" /\ Man!Next /\ UNCHANGED <<part, launchVars>>

\* QueMan's fairness
DaemonsFairness ==
  /\ WF_queVars(part = "queman" /\ Man!EnterLoop)
  /\ WF_queVars(part = "queman" /\ Man!Check)
  /\ WF_queVars(part = "queman" /\ Man!Exit)
  /\ SF_queVars(part = "queman" /\ Man!Reap)
  /\ SF_queVars(part = "queman" /\ Man!CheckSoon)
  /\ SF_queVars(part = "queman" /\ Man!LeaveLoop)
  /\ SF_queVars(part = "queman" /\ Man!CheckDue)

DaemonsSpec ==
  DaemonsInit /\ [][DaemonsNext]_<<part, launchVars, queVars>> /\ DaemonsFairness
=============================================================================
