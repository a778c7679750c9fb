-------------------------------- MODULE Logger --------------------------------
(***************************************************************************)
(* The logger (job/log.cxx): one global object, in which a message is put  *)
(* together value by value, and whose last message is what the submitter   *)
(* of a job is told (notify_user of jobman).  The signal handler of the    *)
(* daemons uses the same object.                                           *)
(*                                                                         *)
(* Abstracted: the header of a line, the file and line it was made at, the *)
(* syslog, the printf flags of a conversion, texts of more than 8191       *)
(* characters.  A value is [type, text, num]: what %s and %d show of it.   *)
(***************************************************************************)
EXTENDS Strings, Integers

CONSTANTS
  Cur,       \* cur_level
  Message,   \* what main logs: [level, format, args], the last word on a job
  Received   \* what the signal handler logs, of the level "verbose"

VARIABLES
  pc,        \* where main is: "idle", "made" (being made) or "logged"
  msg,       \* the message that main makes, or made
  arg,       \* how many of its values are in
  fmt, i,    \* the members of the object
  last,      \* logger::last
  out,       \* what out() printed last
  signalled, \* check_soon or ~run_jobs: a signal has come
  told       \* history: <<the message, what the user was told>>

vars == <<pc, msg, arg, fmt, i, last, out, signalled, told>>

LoggerAssumption ==
  Message \subseteq [level : {"always", "fatal", "error", "warn", "info", "verbose", "debug", "dump"},
                     format : Seq(STRING),
                     args : Seq([type : {"status", "text", "number", "bool", "char", "double", "pointer"},
                                 text : Seq(STRING), num : Seq(STRING)])]

\* enum loglevel_t, by the names that set_level() takes
LevelNo(name) ==
  CHOOSE n \in -2..6 :
    <<"silent", "always", "fatal", "error", "warn", "info", "verbose", "debug",
      "dump">>[n + 3] = name

\* fromstring(): by the first letter or two; anything else is "warn"
FromString(name) ==
  LET l == {"silent", "always", "fatal", "error", "warn", "info", "verbose", "debug", "dump"}
  IN IF name \in l THEN LevelNo(name) ELSE LevelNo("warn")

\* (cur_level >= lvl) && ...
Logs(level) == FromString(Cur) >= LevelNo(level)

-----------------------------------------------------------------------------
(* Formatting *)

Percent == "%"
Escape == "\\"
Conversion == {"s", "d", "i", "c", "o", "u", "x", "X", "e", "E", "f", "F", "g", "G",
               "a", "A", "p", "%", "C", "S", "n", "m"}

NPos == 0

\* get_chunk(): the object's text, the place where it goes on, the end of the
\* conversion if it is "found", or "none" if there is no other
Chunk(s, at, end, look) == [fmt |-> s, at |-> at, end |-> end, look |-> look]

\* One round of its loop: "%%" becomes "\%", and what follows a backslash is no
\* conversion
ChunkRound(c) ==
  LET s == c.fmt
      p == IF c.at = NPos THEN NPos ELSE Find(s, <<Percent>>, c.at)
      ends == {e \in (p + 1)..Len(s) : s[e] \in Conversion}
      e == CHOOSE x \in ends : \A y \in ends : x <= y
  IN IF c.look # "on" THEN c
     ELSE IF p = NPos THEN Chunk(s, NPos, 0, "none")
     ELSE IF p > 1 /\ s[p - 1] = Escape THEN Chunk(s, p + 1, 0, "on")
     ELSE IF ends = {} THEN Chunk(s, p + 1, 0, "none")
     ELSE IF s[e] = Percent
          THEN Chunk(SubSeq(s, 1, p - 1) \o <<Escape, Percent>> \o SubSeq(s, e + 1, Len(s)), p + 2, 0, "on")
     ELSE Chunk(s, p, e, "found")

\* ... from place b on: a round leaves less of the text behind the place
GetChunk(s, b) ==
  LET loop[k \in 0..(Len(s) + 1)] ==
        IF k = 0 THEN Chunk(s, b, 0, "on") ELSE ChunkRound(loop[k - 1])
  IN loop[Len(s) + 1]

\* The conversions that operator, knows for a value
TextConversion(type) == IF type = "status" THEN {"s", "d", "u", "c"} ELSE {"s", "d", "u", "c", "x"}
NumberConversion == {"d", "i", "o", "u", "x", "c", "s", "e", "f", "g", "a", "p"}
OtherConversion(type) ==
  {"d", "i", "o", "u", "x", "c", "s"} \cup
  (IF type = "pointer" THEN {"p"} ELSE IF type = "bool" THEN {} ELSE {"e", "f", "g", "a"})

Known(v) ==
  CASE v.type \in {"status", "text"} -> TextConversion(v.type)
    [] v.type = "number" -> NumberConversion
    [] v.type \in {"bool", "char", "double", "pointer"} -> OtherConversion(v.type)

\* snprintf into buf; what does not fit is shown as "##"
Shown(v, chunk) ==
  LET f == chunk[Len(chunk)] IN
  IF f \notin Known(v) THEN [k \in DOMAIN chunk |-> "#"]
  ELSE IF f = "s" THEN v.text ELSE v.num

\* Mutation: the value is looked at again
FilledAgain(obj, v) ==
  LET c == GetChunk(obj.fmt, obj.at) IN
  IF c.look # "found" THEN [fmt |-> c.fmt, at |-> c.at]
  ELSE [fmt |-> SubSeq(c.fmt, 1, c.at - 1) \o Shown(v, SubSeq(c.fmt, c.at, c.end))
                \o SubSeq(c.fmt, c.end + 1, Len(c.fmt)),
        at |-> c.at]

\* operator,: the object after a value
Filled(obj, v) ==
  LET c == GetChunk(obj.fmt, obj.at)
      buf == Shown(v, SubSeq(c.fmt, c.at, c.end))
  IN IF c.look # "found" THEN [fmt |-> c.fmt, at |-> c.at]
     ELSE [fmt |-> SubSeq(c.fmt, 1, c.at - 1) \o buf \o SubSeq(c.fmt, c.end + 1, Len(c.fmt)),
           at |-> c.at + Len(buf)]

-----------------------------------------------------------------------------

NoMessage == [level |-> "silent", format |-> <<>>, args |-> <<>>]

Init ==
  /\ pc = "idle"
  /\ msg = NoMessage
  /\ arg = 0
  /\ fmt = <<>>
  /\ i = 1
  /\ last = <<>>
  /\ out = <<>>
  /\ signalled = FALSE
  /\ told = <<NoMessage, <<>>>>

\* The macro's test, and set()
Begin(m) ==
  /\ pc \in {"idle", "logged"}
  /\ msg' = m
  /\ arg' = 0
  /\ IF Logs(m.level)
     THEN pc' = "made" /\ fmt' = m.format /\ i' = 1
     ELSE pc' = "logged" /\ UNCHANGED <<fmt, i>>
  /\ UNCHANGED <<last, out, signalled, told>>

PutValue ==
  /\ pc = "made"
  /\ arg < Len(msg.args)
  /\ LET obj == Filled([fmt |-> fmt, at |-> i], msg.args[arg + 1])
     IN fmt' = obj.fmt /\ i' = obj.at
  /\ arg' = arg + 1
  /\ UNCHANGED <<pc, msg, last, out, signalled, told>>

Out ==
  /\ pc = "made"
  /\ arg = Len(msg.args)
  /\ out' = fmt
  /\ last' = fmt
  /\ pc' = "logged"
  /\ UNCHANGED <<msg, arg, fmt, i, signalled, told>>

\* if (jf->notify) notify_user(jf->submitter, "\n" + logmsg + "\n")
Notify ==
  /\ pc = "logged"
  /\ told' = <<msg, last>>
  /\ pc' = "idle"
  /\ UNCHANGED <<msg, arg, fmt, i, last, out, signalled>>

\* SIGHUP or SIGTERM, between any two steps of main: logverbose("Got signal ..")
SignalHandler ==
  /\ signalled' = TRUE
  /\ IF Logs("verbose")
     THEN fmt' = Received /\ i' = NPos /\ out' = Received /\ last' = Received
     ELSE UNCHANGED <<fmt, i, out, last>>
  /\ UNCHANGED <<pc, msg, arg, told>>

Next == (\E m \in Message : Begin(m)) \/ PutValue \/ Out \/ Notify \/ SignalHandler

Spec == Init /\ [][Next]_vars

-----------------------------------------------------------------------------

\* What a message says: its format read once from left to right, with each
\* conversion (of two characters) replaced by the next value, if there is one;
\* up to a place: the values that are in, how much is read, and the text
Said(n, read, text) == [n |-> n, read |-> read, text |-> text]

SaysNext(m, said, k) ==
  CASE k <= said.read -> said
    [] k > said.read /\ k < Len(m.format) /\ m.format[k] = Percent /\ said.n < Len(m.args) ->
         Said(said.n + 1, k + 1,
              said.text \o Shown(m.args[said.n + 1], SubSeq(m.format, k, k + 1)))
    [] OTHER -> Said(said.n, k, Append(said.text, m.format[k]))

Saying(m, place) ==
  LET said[k \in 0..Len(m.format)] ==
        IF k = 0 THEN Said(0, 0, <<>>) ELSE SaysNext(m, said[k - 1], k)
  IN said[place]

Says(m) == Saying(m, Len(m.format)).text

\* A message as the sources make them: what a value is for is a conversion, and
\* what is said up to there does not end in a backslash, which would hide it
WellMade(m) ==
  \A k \in DOMAIN m.format :
    LET said == Saying(m, k - 1) IN
    k > said.read /\ m.format[k] = Percent /\ said.n < Len(m.args) =>
      /\ k < Len(m.format) /\ m.format[k + 1] \in Conversion \ {Percent}
      /\ said.text = <<>> \/ said.text[Len(said.text)] # Escape

\* A message is logged as it was meant, whatever is in the values (commands and
\* file names with a % of their own), and the submitter of a job is told what
\* was said of this job and no other.  (At the level "info": see the README.)
MessagesWhole ==
  /\ pc = "logged" /\ Logs(msg.level) => out = Says(msg)
  /\ told[2] = Says(told[1])
=============================================================================
