-------------------------------- MODULE Config --------------------------------
(***************************************************************************)
(* Configuration files (job/config.cxx): "tag: value" lines in sections,   *)
(* read by every program at its start and written back by tools.           *)
(*                                                                         *)
(* A configuration is a function from <<section, tag>> to value; the       *)
(* comments of a section are the value of its tag "#".  Abstracted: that   *)
(* tags and sections are compared without case and written in their order, *)
(* the padding behind a tag, lines of more than 255 characters, and what   *)
(* is read behind a last line "[" that has no newline (undefined).         *)
(***************************************************************************)
EXTENDS Strings, FiniteSets

CONSTANT TagChar  \* the characters of tags: letters, digits, - _ . $

VARIABLE cfgText  \* the text of a configuration file

Comment == <<"#">>

ConfigAssumption == TagChar \cap (Space \cup {"#", "[", ":"}) = {}

LeastOf(places) == CHOOSE i \in places : \A j \in places : i <= j

\* The first place in s, from the b-th on, of a character in (not in) a set; where
\* s ends if there is none
Until(s, b, set) == LeastOf({i \in b..Len(s) : s[i] \in set} \cup {Len(s) + 1})
Past(s, set) == LeastOf({i \in 1..Len(s) : s[i] \notin set} \cup {Len(s) + 1})

\* s from the first character that is not a blank
Unindented(s) == SubSeq(s, Past(s, Blank), Len(s))

-----------------------------------------------------------------------------
(* load() *)

\* What load() knows while it reads
NoTags == [key \in {} |-> <<>>]
Empty == [sec |-> <<>>, cfg |-> NoTags, error |-> "none"]

Set(rd, tag, value) ==
  LET key == <<rd.sec, tag>> IN
  [rd EXCEPT !.cfg = [k \in DOMAIN @ \cup {key} |-> IF k = key THEN value ELSE @[k]]]

Wrong(rd, what) == [rd EXCEPT !.error = what]

Get(cfg, sec, tag, dfl) == IF <<sec, tag>> \in DOMAIN cfg THEN cfg[<<sec, tag>>] ELSE dfl

\* Mutation: comments of a section replace each other
LastComment(rd, line) == Set(rd, Comment, line)
AddComment(rd, line) == Set(rd, Comment, Get(rd.cfg, rd.sec, Comment, <<>>) \o line)

\* "[name]", with blanks around the name: at least one character, up to a blank
SectionLine(rd, line) ==
  LET l == Unindented(Tail(line))
      end == IF l = <<>> THEN 1 ELSE Until(l, 2, Space \cup {"]"})
      rest == Unindented(SubSeq(l, end, Len(l)))
  IN IF rest # <<>> /\ rest[1] = "]" THEN [rd EXCEPT !.sec = SubSeq(l, 1, end - 1)]
     ELSE Wrong(rd, "no section terminator")

\* "tag: value", with blanks around the colon.  Whatever character is behind the
\* tag is taken for a blank if it is not the colon
TagLine(rd, line) ==
  LET l == Chopped(line)
      end == Past(l, TagChar)
      after == SubSeq(l, end, Len(l))
      rest == IF after = <<>> \/ after[1] = ":" THEN after ELSE Unindented(Tail(after))
  IN IF l = <<>> THEN rd
     ELSE IF end = 1 THEN Wrong(rd, "bad tag")
     ELSE IF rest = <<>> THEN Wrong(rd, "tag with no value")
     ELSE IF rest[1] # ":" THEN Wrong(rd, "no delimiter")
     ELSE Set(rd, SubSeq(l, 1, end - 1), TrimOf(Tail(rest), Blank))

ConfigLine(rd, line) ==
  LET l == Unindented(line) IN
  IF rd.error # "none" \/ l = <<>> THEN rd
  ELSE IF l[1] = "#" THEN AddComment(rd, l)
  ELSE IF l[1] = "[" THEN SectionLine(rd, l)
  ELSE TagLine(rd, l)

ConfigLines(rd, lines) ==
  LET at[k \in 0..Len(lines)] == IF k = 0 THEN rd ELSE ConfigLine(at[k - 1], lines[k])
  IN at[Len(lines)]

LoadConfig(text) == ConfigLines(Empty, Lines(text))

-----------------------------------------------------------------------------
(* to_string() *)

\* The members of a set, one after the other
InOrder(order, set) ==
  /\ \A i, j \in DOMAIN order : order[i] = order[j] => i = j
  /\ \A x \in set : \E i \in DOMAIN order : order[i] = x

Order(set) == CHOOSE order \in [1..Cardinality(set) -> set] : InOrder(order, set)

Entry(cfg, key) == key[2] \o <<":", SP>> \o cfg[key] \o <<NL>>

\* A section, with its comments in front
ConfigSection(cfg, sec) ==
  LET order == Order({key \in DOMAIN cfg : key[1] = sec /\ key[2] # Comment})
      head == IF sec = <<>> THEN <<>> ELSE <<NL, "[">> \o sec \o <<"]", NL>>
  IN head \o Get(cfg, sec, Comment, <<>>)
          \o Join([i \in DOMAIN order |-> Entry(cfg, order[i])], <<>>)

\* The lines before any section, and the sections
ConfigText(cfg) ==
  LET order == Order({key[1] : key \in DOMAIN cfg} \ {<<>>})
  IN ConfigSection(cfg, <<>>)
       \o Join([i \in DOMAIN order |-> ConfigSection(cfg, order[i])], <<>>)

-----------------------------------------------------------------------------

\* The lines that say no more than "tag:value", and what they say
Says(line) ==
  {tv \in {<<SubSeq(line, 1, i - 1), SubSeq(line, i + 1, Len(line) - 1)>> :
             i \in {j \in 2..(Len(line) - 1) : line[j] = ":"}} :
     /\ \A i \in DOMAIN tv[1] : tv[1][i] \in TagChar
     /\ TrimOf(tv[2], Blank) = tv[2]}

\* The last line that names a tag is what it means ...
LastIsMeant(cfg, lines) ==
  \A i \in DOMAIN lines : \A tv \in Says(lines[i]) :
    (\A j \in (i + 1)..Len(lines) : Find(lines[j], tv[1], 1) = 0)
      => \E key \in DOMAIN cfg : key[2] = tv[1] /\ cfg[key] = tv[2]

\* ... every comment is there ...
CommentsAreThere(cfg, lines) ==
  \A i \in DOMAIN lines :
    lines[i][1] = "#" =>
      \E key \in DOMAIN cfg : key[2] = Comment /\ Find(cfg[key], lines[i], 1) # 0

\* ... and written back it means the same.
ComesBack(cfg) == LET back == LoadConfig(ConfigText(cfg)) IN back.cfg = cfg /\ back.error = "none"

\* A text without errors, and with a newline at its end, means what its lines
\* say, before it is written back and after: no value, comment or section is lost,
\* or ends in another.
ConfigKept ==
  LET rd == LoadConfig(cfgText)
      lines == Lines(cfgText)
  IN rd.error = "none" /\ EndsLine(cfgText) =>
       LastIsMeant(rd.cfg, lines) /\ CommentsAreThere(rd.cfg, lines) /\ ComesBack(rd.cfg)

-----------------------------------------------------------------------------
(* Not kept by the code (see the README) *)

\* ... whether there is a newline at the end or not.
AnyTextKept == LET rd == LoadConfig(cfgText) IN rd.error = "none" => ComesBack(rd.cfg)
=============================================================================
