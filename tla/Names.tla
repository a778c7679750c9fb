--------------------------------- MODULE Names ---------------------------------
(***************************************************************************)
(* The names of job files (job/file.cxx, job/queue.cxx): all that a job    *)
(* manager knows of a job before it opens it.  Which jobs are due is found *)
(* by comparing names as strings, which one is next by taking them apart,  *)
(* and a job is opened, locked and renamed by the name that is put         *)
(* together from the parts again.                                          *)
(*                                                                         *)
(* Abstracted: the directory above the queues, submitters of more than one *)
(* letter or with blanks.                                                  *)
(***************************************************************************)
EXTENDS Strings, Integers, FiniteSets

CONSTANTS
  TimeWidth, IdWidth,  \* the least digits of a time and an id in a name: 10, 7
  MaxInt,              \* the highest int, what int2str() can show
  Time, Priority, Id,  \* the times, priorities and ids of jobs
  Clock,               \* what time(0) may be
  MaxJobs              \* bound: the jobs in the queue

VARIABLES
  pend,                \* the jobs in pend
  now                  \* time(0)

vars == <<pend, now>>

JobFiles == [queue : {"batch"}, state : {"pend"}, run_time : Time, priority : Priority,
             id : Id, submitter : {"u"}]

-----------------------------------------------------------------------------
(* Numbers in texts *)

Digit == <<"0", "1", "2", "3", "4", "5", "6", "7", "8", "9">>

Digits(n) ==
  LET digits[m \in 0..n] ==
        IF m < 10 THEN <<Digit[m + 1]>> ELSE Append(digits[m \div 10], Digit[(m % 10) + 1])
  IN digits[n]

\* What %ld and %d make of digits
Value(c) == CHOOSE d \in 0..9 : Digit[d + 1] = c
Number(s) ==
  LET number[k \in 0..Len(s)] == IF k = 0 THEN 0 ELSE 10 * number[k - 1] + Value(s[k])
  IN number[Len(s)]

\* Mutation: %ld
Unpadded(n, width) == Digits(n)

\* %10.10ld, %7.7d
Padded(n, width) ==
  LET s == Digits(n)
      zeros == IF Len(s) < width THEN width - Len(s) ELSE 0
  IN [k \in 1..zeros |-> "0"] \o s

\* int2str() of a time: an int has no room for it all
IntText(n) ==
  LET i == IF n <= MaxInt THEN n ELSE n - 2 * (MaxInt + 1)
  IN IF i < 0 THEN <<"-">> \o Digits(-i) ELSE Digits(i)

\* std::string's order, by the codes of the characters that names have
Code(c) ==
  CHOOSE k \in 1..16 :
    <<"-", ".", "0", "1", "2", "3", "4", "5", "6", "7", "8", "9", "p", "t", "u", "z">>[k] = c

AtMost(a, b) ==
  LET differ == {k \in DOMAIN a \cap DOMAIN b : a[k] # b[k]} IN
  IF differ = {} THEN Len(a) <= Len(b)
  ELSE LET k == CHOOSE x \in differ : \A y \in differ : x <= y IN Code(a[k]) < Code(b[k])

NamesAssumption ==
  /\ TimeWidth \in Nat /\ IdWidth \in Nat /\ MaxInt \in Nat
  /\ Time \subseteq Nat /\ Priority \subseteq Nat /\ Id \subseteq Nat /\ Clock \subseteq Nat
  /\ \A t \in Time : Len(Digits(t)) <= TimeWidth

\* From 2001 to 2038: a time(0) has as many digits as a name, and an int holds it
ClockShown == \A t \in Clock : Len(Digits(t)) = TimeWidth /\ t <= MaxInt

-----------------------------------------------------------------------------
(* Names *)

\* name(): queue and state are one token each
NameOf(jf) ==
  <<jf.queue, "/", jf.state, "/", "t">> \o Padded(jf.run_time, TimeWidth)
    \o <<".", "p">> \o Digits(jf.priority)
    \o <<".", "j">> \o Padded(jf.id, IdWidth)
    \o <<".", jf.submitter>>

StateName == {"hold", "pend", "run", "tied", "kill", "done"}
Str2State(s) == IF s \in StateName THEN s ELSE "???"

\* _init_from_path() and parse()
FromPath(path) ==
  LET pieces == Split(path, <<"/">>, 0)
      n == Len(pieces)
      base == Split(pieces[n], <<".">>, 4)
  IN [queue |-> pieces[n - 2][1],
      state |-> Str2State(pieces[n - 1][1]),
      run_time |-> Number(Tail(base[1])),
      priority |-> Number(Tail(base[2])),
      id |-> Number(Tail(base[3])),
      submitter |-> base[4][1]]

BaseName(path) == LET pieces == Split(path, <<"/">>, 0) IN pieces[Len(pieces)]

\* get_jobs_by_state: what time_filter() lets through of the directory
TimeFilter(base, t) == AtMost(base, <<"t">> \o IntText(t) \o <<".", "z", "z", "z">>)
GetJobs(t) == {p \in {NameOf(jf) : jf \in pend} : TimeFilter(BaseName(p), t)}

\* jobcompare
JobCompare(a, b) ==
  LET x == FromPath(a)
      y == FromPath(b)
  IN \/ x.priority = y.priority /\ x.run_time < y.run_time
     \/ x.priority < y.priority

\* The orders in which solicit_on_the_street may go through them: std::sort says
\* nothing of those that jobcompare takes for equal
Eligible(t) ==
  LET jobs == GetJobs(t) IN
  {order \in [1..Cardinality(jobs) -> jobs] :
     /\ \A p \in jobs : \E k \in DOMAIN order : order[k] = p
     /\ \A k, l \in DOMAIN order : k < l => ~JobCompare(order[l], order[k])}

-----------------------------------------------------------------------------

Init ==
  /\ pend = {}
  /\ now \in Clock

\* A job is moved to pend, by mkjob or for another try
Submit(jf) ==
  /\ Cardinality(pend) < MaxJobs
  /\ \A other \in pend : other.id # jf.id
  /\ pend' = pend \cup {jf}
  /\ UNCHANGED now

\* run_a_job takes the first
Take ==
  /\ GetJobs(now) # {}
  /\ \E order \in Eligible(now) : pend' = pend \ {FromPath(order[1])}
  /\ UNCHANGED now

Tick ==
  /\ now + 1 \in Clock
  /\ now' = now + 1
  /\ UNCHANGED pend

Next == (\E jf \in JobFiles : Submit(jf)) \/ Take \/ Tick

Spec == Init /\ [][Next]_vars

-----------------------------------------------------------------------------

\* A manager finds the jobs that are due, all of them and no other, and each has
\* the name by which it was found; and it goes through them by priority and, among
\* equals, by the time they were due: "it will pick a priority 2 job before it picks
\* a priority 3 job" (job.pod).  (As long as ClockShown: see the README.)
DueInOrder ==
  /\ {FromPath(p) : p \in GetJobs(now)} = {jf \in pend : jf.run_time <= now}
  /\ \A p \in GetJobs(now) : NameOf(FromPath(p)) = p
  /\ \A order \in Eligible(now) : \A k, l \in DOMAIN order : k < l =>
       LET x == FromPath(order[k])
           y == FromPath(order[l])
       IN \/ x.priority < y.priority
          \/ x.priority = y.priority /\ x.run_time <= y.run_time
=============================================================================
