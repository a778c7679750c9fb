-------------------------------- MODULE Isafe --------------------------------
(***************************************************************************)
(* The system calls of the facility (job/isafe.cxx).  Each goes through a  *)
(* wrapper that repeats it: at once and for ever when a signal interrupted *)
(* it (EINTR), after a pause and at most busy_try_limit times when the     *)
(* file system is busy.  The other modules take such a call for one step   *)
(* that happens or fails; here is why they may.                            *)
(***************************************************************************)
EXTENDS Integers

CONSTANTS
  Limit,         \* busy_try_limit
  UIntMax,       \* the highest unsigned int
  ClosesAnyway   \* TRUE: close(2) frees the descriptor whatever it returns

VARIABLES
  op,            \* the call: "close", "waitpid", or one like all the others
  pc,
  num,           \* the further tries there are
  effect,        \* how often what the call is for has been done
  errno,         \* of a call that is back, "OK" if it returned no -1
  naps           \* history: the pauses made

vars == <<op, pc, num, effect, errno, naps>>

IsafeAssumption ==
  /\ UIntMax \in Nat
  /\ Limit \in 0..UIntMax
  /\ ClosesAnyway \in BOOLEAN

Op == {"close", "waitpid", "open"}

TypeOK ==
  /\ op \in Op
  /\ pc \in {"try", "nap", "back"}
  /\ num \in 0..UIntMax
  /\ effect \in Nat
  /\ errno \in {"OK", "EINTR", "EBUSY", "EIO", "EBADF"}
  /\ naps \in Nat

Init ==
  /\ op \in Op
  /\ pc = "try"
  /\ num = Limit
  /\ effect = 0
  /\ errno = "OK"
  /\ naps = 0

-----------------------------------------------------------------------------

\* The errors after which a call is made again
Transient ==
  CASE op = "close" -> {"EBUSY", "EIO"}
    [] op = "waitpid" -> {}
    [] OTHER -> {"EBUSY"}

\* close(2) of a descriptor that an earlier try has freed
Freed == op = "close" /\ effect > 0

Succeed ==
  /\ pc = "try"
  /\ ~Freed
  /\ effect' = effect + 1
  /\ errno' = "OK"
  /\ pc' = "back"
  /\ UNCHANGED <<op, num, naps>>

\* What the kernel does of a close(2) that it reports as failed
Aborted == effect' = IF op = "close" /\ ClosesAnyway THEN 1 ELSE effect

\* do ... while (errno == EINTR)
Interrupted ==
  /\ pc = "try"
  /\ ~Freed
  /\ Aborted
  /\ UNCHANGED <<op, pc, num, errno, naps>>

\* Mutation: the test for 0 comes after the decrement of an unsigned number
AgainAfter(e) == e \in Transient
Again(e) == e \in Transient /\ num # 0

\* An error: a pause and --num, or back with it
Fail(e) ==
  /\ pc = "try"
  /\ Freed => e = "EBADF"
  /\ Aborted
  /\ errno' = e
  /\ IF Again(e) THEN pc' = "nap" ELSE pc' = "back"
  /\ UNCHANGED <<op, num, naps>>

\* usleep(busy_try_delay)
Nap ==
  /\ pc = "nap"
  /\ num' = (num - 1) % (UIntMax + 1)
  /\ naps' = naps + 1
  /\ pc' = "try"
  /\ UNCHANGED <<op, effect, errno>>

Next == Succeed \/ Interrupted \/ (\E e \in {"EBUSY", "EIO", "EBADF"} : Fail(e)) \/ Nap

Spec == Init /\ [][Next]_vars

-----------------------------------------------------------------------------

\* Whatever signals come and however long the file system is busy: a call that
\* reports success has done its work, once; one that reports an error has not
\* (unless ClosesAnyway: see the README); and an error that passes is reported
\* only after Limit further tries, no more and no less.
AnswerIsTrue ==
  /\ naps <= Limit
  /\ pc = "back" =>
       /\ effect = IF errno = "OK" THEN 1 ELSE 0
       /\ errno \in Transient => naps = Limit
=============================================================================
