------------------------------- MODULE JobQueue -------------------------------
(***************************************************************************)
(* What a shared queue promises, without files, inodes, names or clocks:   *)
(* every job is in one place; it moves only along the documented states;   *)
(* what has a holder is moved by its holder alone; a holder that dies lets *)
(* go, and only then does anybody else move what it was running.           *)
(*                                                                         *)
(* JobMan implements this specification: see JobMan!JQ.                    *)
(***************************************************************************)
CONSTANTS Node, Job, Nobody

VARIABLES
  place,    \* place[j]: "new", one of the five states, or "gone" (purged)
  holder    \* holder[j]: the node that has j locked, or Nobody

qVars == <<place, holder>>

QInit ==
  /\ place = [j \in Job |-> "new"]
  /\ holder = [j \in Job |-> Nobody]

Moves(j, from, to) == place[j] \in from /\ place' = [place EXCEPT ![j] = to]
LetsGo(j) == holder' = [holder EXCEPT ![j] = Nobody]

Submit(j) == Moves(j, {"new"}, "hold") /\ UNCHANGED holder
Withdraw(j) == Moves(j, {"hold"}, "gone") /\ UNCHANGED holder
Enqueue(j) == Moves(j, {"hold"}, "pend") /\ UNCHANGED holder

\* A manager may find, once it has the lock, that the job has moved on
Take(n, j) ==
  /\ place[j] \notin {"new", "gone"}
  /\ holder[j] = Nobody
  /\ holder' = [holder EXCEPT ![j] = n]
  /\ UNCHANGED place
Leave(n, j) == holder[j] = n /\ LetsGo(j) /\ UNCHANGED place

Start(n, j) == holder[j] = n /\ Moves(j, {"pend"}, "run") /\ UNCHANGED holder
Refuse(n, j) == holder[j] = n /\ Moves(j, {"pend"}, "done") /\ LetsGo(j)
Finish(n, j) ==
  /\ holder[j] = n
  /\ \E to \in {"pend", "tied", "done"} : Moves(j, {"run"}, to)
  /\ LetsGo(j)

Resurrect(j) == holder[j] = Nobody /\ Moves(j, {"run"}, "pend") /\ UNCHANGED holder
Complete(j) == holder[j] = Nobody /\ Moves(j, {"tied"}, "done") /\ UNCHANGED holder
Purge(j) == Moves(j, {"done"}, "gone") /\ LetsGo(j)

Die(n) ==
  /\ holder' = [j \in Job |-> IF holder[j] = n THEN Nobody ELSE holder[j]]
  /\ UNCHANGED place

QNext ==
  \/ \E j \in Job :
       \/ Submit(j) \/ Withdraw(j) \/ Enqueue(j) \/ Resurrect(j) \/ Complete(j) \/ Purge(j)
       \/ \E n \in Node : Take(n, j) \/ Leave(n, j) \/ Start(n, j)
                          \/ Refuse(n, j) \/ Finish(n, j)
  \/ \E n \in Node : Die(n)

QSpec == QInit /\ [][QNext]_qVars
=============================================================================
