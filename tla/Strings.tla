-------------------------------- MODULE Strings --------------------------------
(***************************************************************************)
(* String helpers (job/string.cxx) and what they are for: the arguments of *)
(* a job on their way from mkjob's command line through the header of the  *)
(* job file (job/multipart.cxx) and the quoting in run_a_job (jobman.cxx)  *)
(* to the words that wordexp(3) makes of the command (job/launch.cxx).     *)
(*                                                                         *)
(* A string is a sequence of characters, a character a string of length 1. *)
(***************************************************************************)
EXTENDS Naturals, Sequences

NL == "\n"
DQ == "\""
SP == " "
Blank == {SP, "\t"}
Space == Blank \cup {NL}

-----------------------------------------------------------------------------
(* Searching and cutting *)

\* std::string::find: the first place of d in s from place b on, 0 if none
Find(s, d, b) ==
  LET at == {i \in b..(Len(s) + 1 - Len(d)) : SubSeq(s, i, i + Len(d) - 1) = d}
  IN IF at = {} THEN 0 ELSE CHOOSE i \in at : \A j \in at : i <= j

\* split(), one round of its loop: the next part, unless no separator is left
\* or only the last of `parts` is missing
SplitOnce(s, d, parts, sp) ==
  LET more == sp.ret = <<>> \/ parts = 0 \/ Len(sp.ret) # parts - 1
      e == IF d # <<>> /\ more THEN Find(s, d, sp.b) ELSE 0
  IN IF e = 0 THEN sp
     ELSE [ret |-> Append(sp.ret, SubSeq(s, sp.b, e - 1)), b |-> e + Len(d)]

\* ... as often as there are characters; `parts` is 0 for any number of parts
Split(s, d, parts) ==
  LET loop[k \in 0..Len(s)] ==
        IF k = 0 THEN [ret |-> <<>>, b |-> 1] ELSE SplitOnce(s, d, parts, loop[k - 1])
      end == loop[Len(s)]
  IN Append(end.ret, SubSeq(s, end.b, Len(s)))

\* join(): with a separator of any length
Join(list, d) ==
  LET str[i \in 0..Len(list)] ==
        IF i = 0 THEN <<>> ELSE str[i - 1] \o (IF i > 1 THEN d ELSE <<>>) \o list[i]
  IN str[Len(list)]

StrTail(s, amt) == IF amt > Len(s) THEN s ELSE SubSeq(s, Len(s) - amt + 1, Len(s))
HasHead(s, match) == SubSeq(s, 1, IF Len(match) < Len(s) THEN Len(match) ELSE Len(s)) = match
HasTail(s, match) == StrTail(s, Len(match)) = match

EndsLine(text) == text # <<>> /\ text[Len(text)] = NL

\* A text without the newline at its end
Chopped(text) == IF EndsLine(text) THEN SubSeq(text, 1, Len(text) - 1) ELSE text

\* fgets: a text line by line, each with its newline
Longer(lines, c) ==
  LET n == Len(lines) IN
  IF lines = <<>> \/ EndsLine(lines[n]) THEN Append(lines, <<c>>)
  ELSE Append(SubSeq(lines, 1, n - 1), Append(lines[n], c))

Lines(text) ==
  LET read[k \in 0..Len(text)] ==
        IF k = 0 THEN <<>> ELSE Longer(read[k - 1], text[k])
  IN read[Len(text)]

\* trim(), of the characters of a set
TrimOf(s, set) ==
  LET kept == {i \in DOMAIN s : s[i] \notin set} IN
  IF kept = {} THEN <<>>
  ELSE SubSeq(s, CHOOSE i \in kept : \A j \in kept : i <= j,
                 CHOOSE i \in kept : \A j \in kept : i >= j)
Trim(s) == TrimOf(s, Space)

\* replace_all(), one round of its loop: m is how many were replaced
ReplaceOnce(from, to, n, r) ==
  LET p == IF from # <<>> /\ (n = 0 \/ r.m < n) THEN Find(r.str, from, r.start) ELSE 0
  IN IF p = 0 THEN r
     ELSE [str |-> SubSeq(r.str, 1, p - 1) \o to \o SubSeq(r.str, p + Len(from), Len(r.str)),
           start |-> p + Len(to), m |-> r.m + 1]

\* n times, or all if n is 0; what was put in is not looked at
StrReplace(str, from, to, n) ==
  LET loop[k \in 0..Len(str)] ==
        IF k = 0 THEN [str |-> str, start |-> 1, m |-> 0] ELSE ReplaceOnce(from, to, n, loop[k - 1])
  IN loop[Len(str)].str

-----------------------------------------------------------------------------
(* Quoting *)

\* 'it'"'"'s'
Qq(str) ==
  <<"'">> \o StrReplace(str, <<"'">>, <<"'", DQ, "'", DQ, "'">>, 0) \o <<"'">>

\* Mutation: a single quote alone is not worth quoting
NeedsQqButQuote == {SP, "\t", NL, "|", "<", ">", "[", "]", "{", "}", "(", ")",
                    "&", "\\", "*", "?", "backquote", ";"}

\* The characters that make qqif() quote
NeedsQq == {SP, "\t", NL, "|", "<", ">", "[", "]", "{", "}", "(", ")", "&",
            "'", "\\", "*", "?", "backquote", ";"}

QqIf(str) == IF \E i \in DOMAIN str : str[i] \in NeedsQq THEN Qq(str) ELSE str

\* wordexp(3): the state of a shell that reads one character of a command
Sh == [words |-> <<>>, word |-> <<>>, open |-> FALSE, quote |-> "no", bad |-> FALSE]

\* What ends a command, and is not allowed in one unless it is quoted
Breaks == {NL, "|", "&", ";", "<", ">", "(", ")", "{", "}"}

Added(sh, c) == [sh EXCEPT !.word = Append(@, c), !.open = TRUE]
Ended(sh) ==
  IF sh.open THEN [sh EXCEPT !.words = Append(@, sh.word), !.word = <<>>, !.open = FALSE]
             ELSE sh

\* Out of quotes: "~" stands for what is expanded at the start of a word or
\* after ":" and "=", "$" for all else that is expanded, and what they become is
\* not what they were
ReadsBare(sh, c) ==
  CASE c \in {"$", "~"} -> Added(sh, "expanded")
    [] c \in {"'", DQ, "\\"} -> [sh EXCEPT !.quote = c, !.open = TRUE]
    [] c \in Blank -> Ended(sh)
    [] c \in Breaks -> [sh EXCEPT !.bad = TRUE]
    [] OTHER -> Added(sh, c)

\* One more character (in double quotes qq() puts no backslash: it is as others)
Reads(sh, c) ==
  IF sh.bad THEN sh
  ELSE IF sh.quote = "no" THEN ReadsBare(sh, c)
  ELSE IF sh.quote = "\\" THEN [Added(sh, c) EXCEPT !.quote = "no"]
  ELSE IF sh.quote = c THEN [sh EXCEPT !.quote = "no"]
  ELSE Added(sh, IF sh.quote = DQ /\ c = "$" THEN "expanded" ELSE c)

\* ... and the characters of a text
ReadsAll(sh, text) ==
  LET at[k \in 0..Len(text)] == IF k = 0 THEN sh ELSE Reads(at[k - 1], text[k])
  IN at[Len(text)]

\* The words of a command, or none if wordexp(3) fails
Words(cmd) ==
  LET sh == Ended(ReadsAll(Sh, cmd))
  IN IF sh.bad \/ sh.quote # "no" THEN <<>> ELSE sh.words

-----------------------------------------------------------------------------
(* The way of an argument *)

\* The value of a header line, as store() writes it and load() reads it: up to
\* the end of the line, without the blanks around it
HeaderValue(arg) == TrimOf(Split(arg, <<NL>>, 2)[1], Blank)

\* run_a_job: the command, and a blank and the argument for each
Command(command, args) ==
  LET cmd[k \in 0..Len(args)] ==
        IF k = 0 THEN Trim(command) ELSE cmd[k - 1] \o <<SP>> \o QqIf(HeaderValue(args[k]))
  IN cmd[Len(args)]

\* The arguments that can be kept: those that a header line can hold, and that
\* are quoted if they need to be
Holds(arg) == arg # <<>> /\ HeaderValue(arg) = arg
Quotable(arg) ==
  \/ \E i \in DOMAIN arg : arg[i] \in NeedsQq
  \/ \A i \in DOMAIN arg : arg[i] \notin {"$", DQ, "~"}

\* "any additional arguments are passed to COMMAND" (mkjob.pod): each arrives
\* as one word, with the characters it had, whatever quotes and blanks are in
\* it and in its neighbours.
ArgsKept(args) ==
  (\A a \in DOMAIN args : Holds(args[a]) /\ Quotable(args[a]))
    => Words(Command(<<"c">>, args)) = <<<<"c">>>> \o args

\* qq() is "safe for /bin/sh" (string.cxx) for any string at all.
QqSafe(s) == Words(Qq(s)) = <<s>>

\* split() and join() undo each other for any separator that is not empty, no
\* separator is overlooked, and a limit only leaves the last part together.
SplitsWhole(s, d) ==
  /\ Join(Split(s, d, 0), d) = s
  /\ Join(Split(s, d, 2), d) = s
  /\ \A i \in DOMAIN Split(s, d, 0) : Find(Split(s, d, 0)[i], d, 1) = 0
  /\ Len(Split(s, d, 2)) <= 2 /\ HasHead(s, Split(s, d, 2)[1])

-----------------------------------------------------------------------------
(* Stated by the sources, and not kept by the code (see the README) *)

\* Any arguments, and qqif() as safe as qq().
AllArgsKept(args) == Words(Command(<<"c">>, args)) = <<<<"c">>>> \o args
=============================================================================
