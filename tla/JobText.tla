------------------------------- MODULE JobText -------------------------------
(***************************************************************************)
(* The text of a job file (job/multipart.cxx) while the job is run: the    *)
(* manager rewrites the file for each try and each result, and in between  *)
(* the job itself appends its output to it.  JobFile takes a file for a    *)
(* list of sections; here is how the list is read out of the lines.        *)
(*                                                                         *)
(* A text is a sequence of tokens: a newline, or a piece of a line.        *)
(* Abstracted: all tags but Section and Command, the text of the boundary  *)
(* (a random UUID: it is assumed that no job prints its own), lines of     *)
(* more than 4095 characters.                                              *)
(***************************************************************************)
EXTENDS Strings

CONSTANTS
  Printed,     \* the tokens that a job prints
  MaxTries,    \* Try-Limit
  MaxOutput,   \* bound: the tokens that one try prints
  LateOutput   \* TRUE: a process that the job left behind goes on printing

VARIABLES
  state,       \* the directory of the file: "pend", "run", "done"
  file,        \* its text
  tries,       \* how many tries there were
  should       \* history: the sections that it should have, and what is in them

textVars == <<state, file, tries, should>>

\* The lines of a header, and between sections, but for their newline
JobTag == "Command:"
OutputTag == "Section: output"
ResultTag == "Section: result"
BoundaryTag == "boundary"
Boundary == "--uuid"
EndBoundary == "--uuid--"

StatusMark == "## "

JobTextAssumption ==
  Printed \subseteq STRING /\ Boundary \notin Printed /\ EndBoundary \notin Printed

TagOf(kind) ==
  CASE kind = "job" -> JobTag [] kind = "output" -> OutputTag [] kind = "result" -> ResultTag

NewSection == [kind |-> "none", body |-> <<>>]

\* What load() knows while it reads
Reading == [secs |-> <<NewSection>>, gap |-> FALSE, inBody |-> FALSE, boundary |-> FALSE,
            substatus |-> <<>>, closed |-> FALSE, error |-> FALSE]

\* The last section with something changed
InLast(rd, sec) == [rd EXCEPT !.secs[Len(rd.secs)] = sec]
LastSec(rd) == rd.secs[Len(rd.secs)]

\* "The prior \n belongs to the boundary; remove it"
Cut(rd) == InLast(rd, [LastSec(rd) EXCEPT !.body = Chopped(@)])

\* A line that is no boundary
BodyLine(rd, line) ==
  LET r == IF line[1] # StatusMark THEN rd ELSE [rd EXCEPT !.substatus = Chopped(Tail(line))]
  IN InLast(r, [LastSec(r) EXCEPT !.body = @ \o line])

FirstBodyLine(rd, line) ==
  InLast([rd EXCEPT !.inBody = TRUE], [LastSec(rd) EXCEPT !.body = line])

HeaderLine(rd, line) ==
  IF line[1] = BoundaryTag THEN [rd EXCEPT !.boundary = TRUE]
  ELSE IF line[1] = JobTag THEN InLast(rd, [LastSec(rd) EXCEPT !.kind = "job"])
  ELSE IF line[1] = OutputTag THEN InLast(rd, [LastSec(rd) EXCEPT !.kind = "output"])
  ELSE IF line[1] = ResultTag THEN InLast(rd, [LastSec(rd) EXCEPT !.kind = "result"])
  ELSE [rd EXCEPT !.error = TRUE]

ReadLine(rd, line) ==
  IF rd.error \/ rd.closed THEN rd
  ELSE IF rd.boundary /\ line = <<EndBoundary, NL>> THEN [Cut(rd) EXCEPT !.closed = TRUE]
  ELSE IF rd.boundary /\ line = <<Boundary, NL>>
       THEN [Cut(rd) EXCEPT !.gap = FALSE, !.inBody = FALSE, !.secs = Append(@, NewSection)]
  ELSE IF rd.inBody THEN BodyLine(rd, line)
  ELSE IF line[1] = StatusMark THEN rd
  ELSE IF rd.gap THEN FirstBodyLine(rd, line)
  ELSE IF line = <<NL>> THEN [rd EXCEPT !.gap = TRUE]
  ELSE HeaderLine(rd, line)

ReadLines(rd, lines) ==
  LET at[k \in 0..Len(lines)] == IF k = 0 THEN rd ELSE ReadLine(at[k - 1], lines[k])
  IN at[Len(lines)]

Load(text) == ReadLines(Reading, Lines(text))

\* to_string()
Header(sec, first, more) ==
  <<TagOf(sec.kind), NL>> \o (IF first /\ more THEN <<BoundaryTag, NL>> ELSE <<>>)

SectionText(secs, i, closed) ==
  LET n == Len(secs)
      body == IF secs[i].body = <<>> THEN <<>> ELSE <<NL>> \o secs[i].body
      end == IF n > 1 /\ (closed \/ i < n)
             THEN <<NL, IF i = n THEN EndBoundary ELSE Boundary, NL>> ELSE <<>>
  IN Header(secs[i], i = 1, n > 1) \o body \o end

ToText(secs, closed) ==
  LET text[i \in 0..Len(secs)] ==
        IF i = 0 THEN <<>> ELSE text[i - 1] \o SectionText(secs, i, closed)
  IN text[Len(secs)]

-----------------------------------------------------------------------------

Result == [kind |-> "result", body |-> <<>>]

\* Mutation: an output section with a header and nothing else
BareOutput == [kind |-> "output", body |-> <<>>]

\* The body that makes the file end in a body for the job to go on with
Output == [kind |-> "output", body |-> <<NL>>]

WithMissingResult(secs) ==
  IF secs[Len(secs)].kind = "output" THEN Append(secs, Result) ELSE secs

TextInit ==
  /\ state = "pend"
  /\ file = <<JobTag, NL>>
  /\ tries = 0
  /\ should = <<[kind |-> "job", body |-> <<>>]>>

\* run_a_job, for a job that is pending, or was left in run by a manager that
\* died
Tries ==
  LET rd == Load(file)
      missing == IF state = "run" THEN <<[kind |-> "result", body |-> <<>>]>> ELSE <<>>
  IN /\ state # "done"
     /\ tries < MaxTries
     /\ ~rd.error
     /\ file' = ToText(Append(WithMissingResult(rd.secs), Output), FALSE)
     /\ tries' = tries + 1
     /\ should' = should \o missing \o <<[kind |-> "output", body |-> <<NL>>]>>
     /\ state' = "run"

\* The job prints (O_APPEND), as long as it runs, or after that what it left
Writes(token) ==
  /\ tries > 0
  /\ Len(should[Len(should)].body) <= MaxOutput
  /\ state = "run" \/ LateOutput
  /\ file' = Append(file, token)
  /\ IF state = "run"
     THEN should' = [should EXCEPT ![Len(should)].body = Append(@, token)]
     ELSE UNCHANGED should
  /\ UNCHANGED <<state, tries>>

\* try_done: the result, and an end to the file unless there will be a retry
TryDone(retry) ==
  LET rd == Load(file) IN
  /\ state = "run"
  /\ ~rd.error
  /\ retry => tries < MaxTries
  /\ file' = ToText(Append(rd.secs, Result), ~retry)
  /\ should' = Append(should, [kind |-> "result", body |-> <<>>])
  /\ state' = IF retry THEN "pend" ELSE "done"
  /\ UNCHANGED tries

TextNext ==
  \/ Tries
  \/ \E token \in Printed : Writes(token)
  \/ \E retry \in BOOLEAN : TryDone(retry)

TextSpec == TextInit /\ [][TextNext]_textVars

-----------------------------------------------------------------------------

\* The sub-status after some lines of an output: what the last that begins with
\* "## " says, without the newline
StatusAfter(status, lines) ==
  LET at[k \in 0..Len(lines)] ==
        IF k = 0 THEN status
        ELSE IF lines[k][1] = StatusMark THEN Chopped(Tail(lines[k])) ELSE at[k - 1]
  IN at[Len(lines)]

\* ... and after all outputs
StatusOf(secs) ==
  LET at[i \in 0..Len(secs)] ==
        IF i = 0 THEN <<>>
        ELSE IF secs[i].kind = "output" THEN StatusAfter(at[i - 1], Lines(Tail(secs[i].body)))
        ELSE at[i - 1]
  IN at[Len(secs)]

\* Whatever a job prints, with or without a newline at its end, and however
\* often it is tried or loses its manager: the file can be read at any time; it
\* has the sections that it should have, in order; each output section still
\* has what its try printed, to the byte; and the sub-status is the last that
\* any try has set.
OutputKept ==
  LET rd == Load(file) IN ~rd.error /\ rd.secs = should /\ rd.substatus = StatusOf(should)
=============================================================================
