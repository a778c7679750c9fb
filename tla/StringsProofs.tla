----------------------------- MODULE StringsProofs -----------------------------
(***************************************************************************)
(* Theorems about the string helpers, for texts of any length: qq() is     *)
(* safe for a shell, what a shell makes of a command with quoted arguments *)
(* are the arguments, and split() and join() undo each other.              *)
(*                                                                         *)
(* The helpers are loops over texts, so the proofs are inductions: NatInd  *)
(* is induction with a set in the place of a predicate.  A loop is a       *)
(* recursive function over 0..n; Iterates says that it has a history, which*)
(* is what CHOOSE in its definition needs, and SameHistory that it has one *)
(* only.  From there the helpers get laws of their own (what a text before *)
(* or behind another one does to them), and the theorems follow from these.*)
(*                                                                         *)
(* A text is only ever compared with the few characters that are special,  *)
(* so the laws are of texts over any set P of values, and the theorems of  *)
(* sequences of strings.                                                   *)
(***************************************************************************)
EXTENDS Strings, Integers, SequenceTheorems, WellFoundedInduction, TLAPS

(* Induction over data, with sets in place of predicates *)

\* Induction over the natural numbers: the set of those that have a property.
LEMMA NatInd ==
  ASSUME NEW S, 0 \in S, \A n \in Nat : n \in S => n + 1 \in S
  PROVE  Nat \subseteq S
PROOF
  <1> DEFINE R == OpToRel(<, Nat)
             T == {n \in Nat : n \notin S}
  <1>1. SUFFICES ASSUME T # {} PROVE FALSE
    OBVIOUS
  <1>2. IsWellFoundedOn(R, Nat)
    BY NatLessThanWellFounded
  <1>3. T \subseteq Nat
    OBVIOUS
  <1>4. PICK x \in T : \A y \in T : ~(<<y, x>> \in R)
    <2> HIDE DEF R, T
    <2> QED BY <1>1, <1>2, <1>3, WFMin
  <1>5. x \in Nat /\ x \notin S
    OBVIOUS
  <1>6. x # 0 /\ x - 1 \in Nat /\ x - 1 < x /\ (x - 1) + 1 = x
    BY <1>5
  <1>7. <<x - 1, x>> \in R
    BY <1>5, <1>6 DEF OpToRel
  <1>8. x - 1 \in S
    BY <1>4, <1>6, <1>7
  <1> QED BY <1>5, <1>6, <1>8

\* Of some natural numbers one is the least.
LEMMA Least ==
  ASSUME NEW T, T \subseteq Nat, T # {}
  PROVE  \E x \in T : \A y \in T : x <= y
PROOF
  <1> DEFINE S == {n \in Nat : \A x \in T : x <= n => \E m \in T : \A y \in T : m <= y}
  <1>1. 0 \in S
    OBVIOUS
  <1>2. ASSUME NEW n \in Nat, n \in S PROVE n + 1 \in S
    <2>1. SUFFICES ASSUME NEW x \in T, x <= n + 1
                   PROVE \E m \in T : \A y \in T : m <= y
      OBVIOUS
    <2>2. CASE \E y \in T : y <= n
      BY <2>2, <1>2
    <2>3. CASE \A y \in T : ~(y <= n)
      <3>1. \A y \in T : n + 1 <= y
        BY <2>3
      <3> QED BY <3>1, <2>1
    <2> QED BY <2>2, <2>3
  <1> HIDE DEF S
  <1>3. Nat \subseteq S
    BY <1>1, <1>2, NatInd
  <1>4. PICK x \in T : TRUE
    OBVIOUS
  <1>5. x \in Nat /\ x <= x
    OBVIOUS
  <1> QED BY <1>3, <1>5 DEF S

\* Induction over sequences, from the front to the end.
LEMMA SeqInd ==
  ASSUME NEW S, NEW Good, <<>> \in Good,
         \A s \in Seq(S), e \in S : s \in Good => Append(s, e) \in Good
  PROVE  Seq(S) \subseteq Good
PROOF
  <1> DEFINE N == {n \in Nat : \A s \in Seq(S) : Len(s) = n => s \in Good}
  <1>1. 0 \in N
    BY EmptySeq
  <1>2. ASSUME NEW n \in Nat, n \in N PROVE n + 1 \in N
    <2>1. SUFFICES ASSUME NEW s \in Seq(S), Len(s) = n + 1 PROVE s \in Good
      OBVIOUS
    <2>2. s # <<>>
      BY <2>1, EmptySeq
    <2>3. PICK t \in Seq(S), e \in S : s = Append(t, e)
      BY <2>2, SequenceEmptyOrAppend
    <2>4. Len(t) = n
      BY <2>1, <2>3, AppendProperties, LenProperties
    <2> QED BY <1>2, <2>3, <2>4
  <1> HIDE DEF N
  <1>3. Nat \subseteq N
    BY <1>1, <1>2, NatInd
  <1>4. ASSUME NEW s \in Seq(S) PROVE s \in Good
    <2>1. Len(s) \in N
      BY <1>3, LenProperties
    <2> QED BY <2>1 DEF N
  <1> QED BY <1>4

\* A loop of n rounds over values of a set has a history.
History(f, n, A, a, step) ==
  f \in [0..n -> A] /\ f[0] = a /\ \A k \in 1..n : f[k] = step[<<k, f[k - 1]>>]

LEMMA Iterates ==
  ASSUME NEW n, n \in Nat, NEW A, NEW a, a \in A, NEW step, step \in [(1..n) \X A -> A]
  PROVE  \E f : History(f, n, A, a, step)
PROOF
  <1> DEFINE S == {m \in Nat : m <= n => \E f : History(f, m, A, a, step)}
  <1>1. 0 \in S
    <2>1. [k \in 0..0 |-> a] \in [0..0 -> A]
      OBVIOUS
    <2>2. [k \in 0..0 |-> a][0] = a /\ \A k \in 1..0 : FALSE
      OBVIOUS
    <2> QED BY <2>1, <2>2 DEF History
  <1>2. ASSUME NEW m \in Nat, m \in S PROVE m + 1 \in S
    <2>1. SUFFICES ASSUME m + 1 <= n PROVE \E f : History(f, m + 1, A, a, step)
      OBVIOUS
    <2>0. PICK f : History(f, m, A, a, step)
      BY <1>2, <2>1
    <2>2. /\ f \in [0..m -> A] /\ f[0] = a
          /\ \A k \in 1..m : f[k] = step[<<k, f[k - 1]>>]
      BY <2>0 DEF History
    <2> DEFINE g == [k \in 0..(m + 1) |-> IF k = m + 1 THEN step[<<m + 1, f[m]>>] ELSE f[k]]
    <2>3. <<m + 1, f[m]>> \in (1..n) \X A
      BY <2>1, <2>2
    <2>4. g \in [0..(m + 1) -> A]
      BY <2>2, <2>3
    <2>5. g[0] = a
      BY <2>2
    <2>6. ASSUME NEW k \in 1..(m + 1) PROVE g[k] = step[<<k, g[k - 1]>>]
      <3>1. k - 1 \in 0..(m + 1) /\ k - 1 # m + 1 /\ k \in 0..(m + 1)
        OBVIOUS
      <3>2. g[k - 1] = f[k - 1]
        BY <3>1
      <3>3. CASE k = m + 1
        BY <3>1, <3>2, <3>3
      <3>4. CASE k # m + 1
        <4>1. k \in 1..m
          BY <3>4
        <4>2. g[k] = f[k]
          BY <3>1, <3>4
        <4> HIDE DEF g
        <4> QED BY <2>2, <3>2, <4>1, <4>2
      <3> QED BY <3>3, <3>4
    <2>7. History(g, m + 1, A, a, step)
      <3> HIDE DEF g
      <3> QED BY <2>4, <2>5, <2>6 DEF History
    <2> QED BY <2>7
  <1> HIDE DEF S
  <1>3. Nat \subseteq S
    BY <1>1, <1>2, NatInd
  <1> QED BY <1>3 DEF S

\* Two loops of the same rounds have the same history.
Together(f, g, n) == f[0] = g[0] /\ \A k \in 1..n : f[k - 1] = g[k - 1] => f[k] = g[k]

LEMMA SameHistory ==
  ASSUME NEW n, n \in Nat, NEW f, NEW g, Together(f, g, n)
  PROVE  \A k \in 0..n : f[k] = g[k]
PROOF
  <1> DEFINE S == {m \in Nat : m <= n => f[m] = g[m]}
  <1> USE DEF Together
  <1>1. 0 \in S
    OBVIOUS
  <1>2. ASSUME NEW m \in Nat, m \in S PROVE m + 1 \in S
    <2>1. SUFFICES ASSUME m + 1 <= n PROVE f[m + 1] = g[m + 1]
      OBVIOUS
    <2>2. m + 1 \in 1..n /\ (m + 1) - 1 = m
      BY <2>1
    <2> QED BY <1>2, <2>1, <2>2
  <1> HIDE DEF S
  <1>3. Nat \subseteq S
    BY <1>1, <1>2, NatInd
  <1> QED BY <1>3 DEF S

-----------------------------------------------------------------------------
(* The shell *)

\* The tokens of names of job files.
NameChar ==
  {"0", "1", "2", "3", "4", "5", "6", "7", "8", "9", "/", ".", "-", "t", "p", "j", "z", "u",
   "batch", "pend"}

\* All that texts are made of: any strings, among them the literals of Strings,
\* JobText, Config, Logger and Names (the provers do not know of any literal that it is a string).
Char ==
  STRING \cup {SP, DQ, NL, "'", "expanded", "no", "c", "a", "Command:", "Section: output",
              "Section: result", "boundary", "--uuid", "--uuid--",
              "%", "\\", "#", ":", "[", "]"} \cup NameChar
Text == Seq(Char)

LEMMA CharFacts ==
  /\ SP \in Char /\ DQ \in Char /\ "'" \in Char
  /\ "expanded" \in Char /\ "no" \in Char /\ "c" \in Char /\ "a" \in Char
  /\ DQ # "'" /\ DQ # "\\" /\ DQ # "$" /\ DQ # "~" /\ DQ # "no" /\ DQ # SP
  /\ DQ \notin Blank /\ DQ \notin Breaks
  /\ SP \in Blank /\ SP # "'" /\ SP # "\\" /\ SP # "$" /\ SP # "~" /\ SP # "a"
  /\ \A x \in {"'", "\\", "$", "~", "c"} : x \notin Blank /\ x \notin Breaks
  /\ NL \notin Blank /\ NL \in Char
PROOF
  <1>1. /\ SP \in Char /\ DQ \in Char /\ "'" \in Char
        /\ "expanded" \in Char /\ "no" \in Char /\ "c" \in Char /\ "a" \in Char
    BY Zenon DEF Char
  <1>2. DQ # "'" /\ DQ # "\\" /\ DQ # "$" /\ DQ # "~" /\ DQ # "no" /\ DQ # SP
    BY Zenon DEF DQ, SP
  <1>3. DQ \notin Blank /\ DQ \notin Breaks
    BY Zenon DEF DQ, Blank, SP, Breaks, NL
  <1>4. SP \in Blank /\ SP # "'" /\ SP # "\\" /\ SP # "$" /\ SP # "~" /\ SP # "a"
    BY Zenon DEF Blank, SP
  <1>5. \A x \in {"'", "\\", "$", "~", "c"} : x \notin Blank /\ x \notin Breaks
    BY Zenon DEF Blank, SP, Breaks, NL
  <1>6. NL \notin Blank /\ NL \in Char
    BY Zenon DEF Blank, SP, NL, Char
  <1> QED BY <1>1, <1>2, <1>3, <1>4, <1>5, <1>6

Shell == [words : Seq(Text), word : Text, open : BOOLEAN, quote : Char, bad : BOOLEAN]

LEMMA ReadsType ==
  ASSUME NEW sh \in Shell, NEW c \in Char
  PROVE  Reads(sh, c) \in Shell
PROOF
  <1>1. ASSUME NEW x \in Char PROVE Added(sh, x) \in Shell
    BY AppendProperties DEF Added, Shell, Text
  <1>2. Ended(sh) \in Shell
    <2>1. Append(sh.words, sh.word) \in Seq(Text) /\ <<>> \in Text
      BY AppendProperties, EmptySeq DEF Shell, Text
    <2> QED BY <2>1 DEF Ended, Shell
  <1>3. ASSUME NEW x \in Shell PROVE [x EXCEPT !.quote = "no"] \in Shell
    <2>1. "no" \in Char
      BY CharFacts
    <2> QED BY <2>1 DEF Shell
  <1>4. [sh EXCEPT !.quote = c, !.open = TRUE] \in Shell /\ [sh EXCEPT !.bad = TRUE] \in Shell
    BY DEF Shell
  <1>5. "expanded" \in Char
    BY CharFacts
  <1>6. ReadsBare(sh, c) \in Shell
    <2> HIDE DEF Shell
    <2> QED BY <1>1, <1>2, <1>4, <1>5 DEF ReadsBare
  <1>7. [Added(sh, c) EXCEPT !.quote = "no"] \in Shell /\ [sh EXCEPT !.quote = "no"] \in Shell
    BY <1>1, <1>3
  <1> QED BY <1>1, <1>5, <1>6, <1>7 DEF Reads

\* What a shell has read, character by character.
LEMMA ReadsAllLoop ==
  ASSUME NEW sh \in Shell, NEW s \in Text
  PROVE  \E at \in [0..Len(s) -> Shell] :
           /\ at[0] = sh
           /\ \A k \in 1..Len(s) : at[k] = Reads(at[k - 1], s[k])
           /\ ReadsAll(sh, s) = at[Len(s)]
PROOF
  <1> DEFINE Loop(f) == f = [k \in 0..Len(s) |-> IF k = 0 THEN sh ELSE Reads(f[k - 1], s[k])]
             step == [x \in (1..Len(s)) \X Shell |-> Reads(x[2], s[x[1]])]
  <1>1. Len(s) \in Nat /\ \A k \in 1..Len(s) : s[k] \in Char
    BY ElementOfSeq, LenProperties DEF Text
  <1>2. step \in [(1..Len(s)) \X Shell -> Shell]
    BY <1>1, ReadsType
  <1>3. PICK f \in [0..Len(s) -> Shell] :
               f[0] = sh /\ \A k \in 1..Len(s) : f[k] = step[<<k, f[k - 1]>>]
    <2> HIDE DEF step
    <2>1. \E f : History(f, Len(s), Shell, sh, step)
      BY <1>1, <1>2, Iterates
    <2> QED BY <2>1 DEF History
  <1>4. ASSUME NEW k \in 1..Len(s) PROVE f[k] = Reads(f[k - 1], s[k])
    <2>1. k - 1 \in 0..Len(s)
      BY <1>1
    <2>2. <<k, f[k - 1]>> \in (1..Len(s)) \X Shell
      BY <1>3, <2>1
    <2> QED BY <1>3, <2>2
  <1>5. Loop(f)
    BY <1>3, <1>4
  <1> DEFINE at == CHOOSE g : Loop(g)
  <1>6. Loop(at)
    <2> HIDE DEF Loop
    <2> QED BY <1>5
  <1>7. ReadsAll(sh, s) = at[Len(s)]
    BY DEF ReadsAll
  <1> HIDE DEF at
  <1>8. at[0] = sh /\ \A k \in 1..Len(s) : at[k] = Reads(at[k - 1], s[k])
    BY <1>1, <1>6
  <1>9. \A k \in 0..Len(s) : at[k] = f[k]
    <2>1. Together(at, f, Len(s))
      BY <1>3, <1>4, <1>8 DEF Together
    <2> QED BY <1>1, <2>1, SameHistory
  <1>10. ReadsAll(sh, s) = f[Len(s)]
    BY <1>1, <1>7, <1>9
  <1> QED BY <1>3, <1>4, <1>10

LEMMA ReadsAllEmpty ==
  ASSUME NEW sh \in Shell
  PROVE  ReadsAll(sh, <<>>) = sh
  BY ReadsAllLoop, EmptySeq DEF Text

LEMMA ReadsAllAppend ==
  ASSUME NEW sh \in Shell, NEW s \in Text, NEW c \in Char
  PROVE  /\ ReadsAll(sh, s) \in Shell
         /\ ReadsAll(sh, Append(s, c)) = Reads(ReadsAll(sh, s), c)
PROOF
  <1> DEFINE t == Append(s, c)
  <1>1. /\ t \in Text /\ Len(t) = Len(s) + 1 /\ Len(s) \in Nat
        /\ t[Len(s) + 1] = c /\ \A k \in 1..Len(s) : t[k] = s[k]
    <2>1. s \in Seq(Char)
      BY DEF Text
    <2> QED BY <2>1, AppendProperties, LenProperties DEF Text
  <1> HIDE DEF t
  <1>2. PICK f \in [0..Len(s) -> Shell] :
           /\ f[0] = sh
           /\ \A k \in 1..Len(s) : f[k] = Reads(f[k - 1], s[k])
           /\ ReadsAll(sh, s) = f[Len(s)]
    BY ReadsAllLoop
  <1>3. PICK g \in [0..Len(t) -> Shell] :
           /\ g[0] = sh
           /\ \A k \in 1..Len(t) : g[k] = Reads(g[k - 1], t[k])
           /\ ReadsAll(sh, t) = g[Len(t)]
    BY <1>1, ReadsAllLoop
  <1>4. \A k \in 0..Len(s) : f[k] = g[k]
    <2>1. \A k \in 1..Len(s) : k \in 1..Len(t)
      BY <1>1
    <2>2. Together(f, g, Len(s))
      BY <1>1, <1>2, <1>3, <2>1 DEF Together
    <2> QED BY <1>1, <2>2, SameHistory
  <1>5. g[Len(s) + 1] = Reads(g[Len(s)], c)
    <2>1. Len(s) + 1 \in 1..Len(t) /\ (Len(s) + 1) - 1 = Len(s)
      BY <1>1
    <2> QED BY <1>1, <1>3, <2>1
  <1>6. Len(s) \in 0..Len(s) /\ g[Len(s)] = f[Len(s)]
    BY <1>1, <1>4
  <1> QED BY <1>1, <1>2, <1>3, <1>5, <1>6 DEF t

LEMMA ReadsAllConcat ==
  ASSUME NEW sh \in Shell, NEW s \in Text, NEW u \in Text
  PROVE  ReadsAll(sh, s \o u) = ReadsAll(ReadsAll(sh, s), u)
PROOF
  <1> DEFINE Good == {t \in Text : ReadsAll(sh, s \o t) = ReadsAll(ReadsAll(sh, s), t)}
  <1>0. ReadsAll(sh, s) \in Shell
    BY ReadsAllLoop, LenProperties DEF Text
  <1>1. <<>> \in Good
    BY <1>0, ReadsAllEmpty, EmptySeq, ConcatEmptySeq DEF Text
  <1>2. ASSUME NEW t \in Seq(Char), NEW c \in Char, t \in Good
        PROVE  Append(t, c) \in Good
    <2>1. s \o Append(t, c) = Append(s \o t, c) /\ s \o t \in Text /\ Append(t, c) \in Text
      <3>1. <<c>> \in Text
        BY DEF Text
      <3>2. s \o (t \o <<c>>) = (s \o t) \o <<c>> /\ s \o t \in Text
        BY <3>1, ConcatAssociative, ConcatProperties DEF Text
      <3> QED BY <3>2, AppendIsConcat, AppendProperties DEF Text
    <2>2. ReadsAll(sh, Append(s \o t, c)) = Reads(ReadsAll(sh, s \o t), c)
      BY <2>1, ReadsAllAppend
    <2>3. ReadsAll(ReadsAll(sh, s), Append(t, c)) = Reads(ReadsAll(ReadsAll(sh, s), t), c)
      BY <1>0, ReadsAllAppend DEF Text
    <2> QED BY <1>2, <2>1, <2>2, <2>3
  <1> HIDE DEF Good
  <1>3. Text \subseteq Good
    BY <1>1, <1>2, SeqInd DEF Text
  <1> QED BY <1>3 DEF Good

-----------------------------------------------------------------------------
(* Finding *)

\* find() is right: what it gives is an occurrence, and there is none before it.
LEMMA FindFirst ==
  ASSUME NEW s \in Text, NEW d \in Text, NEW b \in Nat \ {0}
  PROVE  \/ /\ Find(s, d, b) = 0
            /\ \A i \in b..(Len(s) + 1 - Len(d)) : SubSeq(s, i, i + Len(d) - 1) # d
         \/ /\ Find(s, d, b) \in b..(Len(s) + 1 - Len(d))
            /\ SubSeq(s, Find(s, d, b), Find(s, d, b) + Len(d) - 1) = d
            /\ \A i \in b..(Find(s, d, b) - 1) : SubSeq(s, i, i + Len(d) - 1) # d
PROOF
  <1> DEFINE at == {i \in b..(Len(s) + 1 - Len(d)) : SubSeq(s, i, i + Len(d) - 1) = d}
             p == CHOOSE i \in at : \A j \in at : i <= j
  <1>0. Len(s) \in Nat /\ Len(d) \in Nat
    BY LenProperties DEF Text
  <1>1. CASE at = {}
    <2>1. Find(s, d, b) = 0
      BY <1>1 DEF Find
    <2> QED BY <1>1, <2>1
  <1>2. CASE at # {}
    <2>1. Find(s, d, b) = p
      BY <1>2 DEF Find
    <2>2. at \subseteq Nat
      BY <1>0
    <2>3. \E i \in at : \A j \in at : i <= j
      <3> HIDE DEF at
      <3> QED BY <1>2, <2>2, Least
    <2>4. p \in at /\ \A j \in at : p <= j
      <3> HIDE DEF at
      <3> QED BY <2>3
    <2>5. ASSUME NEW i \in b..(p - 1), SubSeq(s, i, i + Len(d) - 1) = d PROVE FALSE
      <3> HIDE DEF p
      <3>1. i \in at /\ i < p
        BY <1>0, <2>4, <2>5
      <3> QED BY <1>0, <2>4, <3>1
    <2> HIDE DEF p
    <2> QED BY <2>1, <2>4, <2>5
  <1> QED BY <1>1, <1>2

\* ... for a separator of one character.
LEMMA FindChar ==
  ASSUME NEW s \in Text, NEW c \in Char, NEW b \in Nat \ {0}
  PROVE  \/ /\ Find(s, <<c>>, b) = 0
            /\ \A i \in b..Len(s) : s[i] # c
         \/ /\ Find(s, <<c>>, b) \in b..Len(s)
            /\ s[Find(s, <<c>>, b)] = c
            /\ \A i \in b..(Find(s, <<c>>, b) - 1) : s[i] # c
PROOF
  <1> DEFINE p == Find(s, <<c>>, b)
  <1>0. Len(s) \in Nat /\ <<c>> \in Text /\ Len(<<c>>) = 1
    BY LenProperties DEF Text
  <1>1. ASSUME NEW i \in 1..Len(s)
        PROVE  SubSeq(s, i, i + Len(<<c>>) - 1) = <<c>> <=> s[i] = c
    <2>1. i + Len(<<c>>) - 1 = i
      BY <1>0
    <2>2. s[i] \in Char
      BY ElementOfSeq DEF Text
    <2>3. SubSeq(s, i, i) = <<s[i]>>
      <3>1. \A j \in i..i : s[j] \in Char
        BY <2>2
      <3>2. /\ SubSeq(s, i, i) \in Seq(Char) /\ Len(SubSeq(s, i, i)) = 1
            /\ SubSeq(s, i, i)[1] = s[i]
        BY <1>0, <3>1, SubSeqProperties
      <3>3. <<s[i]>> \in Seq(Char) /\ Len(<<s[i]>>) = 1 /\ <<s[i]>>[1] = s[i]
        BY <2>2
      <3>4. \A j \in 1..1 : SubSeq(s, i, i)[j] = <<s[i]>>[j]
        BY <3>2, <3>3
      <3> HIDE DEF SubSeq
      <3> QED BY <3>2, <3>3, <3>4, SeqEqual
    <2> QED BY <2>1, <2>3
  <1>2. \/ /\ p = 0
           /\ \A i \in b..Len(s) : SubSeq(s, i, i + Len(<<c>>) - 1) # <<c>>
        \/ /\ p \in b..Len(s)
           /\ SubSeq(s, p, p + Len(<<c>>) - 1) = <<c>>
           /\ \A i \in b..(p - 1) : SubSeq(s, i, i + Len(<<c>>) - 1) # <<c>>
    <2>1. Len(s) + 1 - Len(<<c>>) = Len(s)
      BY <1>0
    <2>2. PICK d \in Text : d = <<c>>
      BY <1>0
    <2>3. \/ /\ Find(s, d, b) = 0
             /\ \A i \in b..(Len(s) + 1 - Len(d)) : SubSeq(s, i, i + Len(d) - 1) # d
          \/ /\ Find(s, d, b) \in b..(Len(s) + 1 - Len(d))
             /\ SubSeq(s, Find(s, d, b), Find(s, d, b) + Len(d) - 1) = d
             /\ \A i \in b..(Find(s, d, b) - 1) : SubSeq(s, i, i + Len(d) - 1) # d
      BY FindFirst, ZenonT(40)
    <2>4. Len(s) + 1 - Len(d) = Len(s)
      BY <2>1, <2>2
    <2> QED BY <2>2, <2>3, <2>4, Zenon
  <1> HIDE DEF p
  <1>3. \A i \in b..Len(s) : i \in 1..Len(s)
    BY <1>0
  <1>4. CASE p = 0
    <2>1. \A i \in b..Len(s) : SubSeq(s, i, i + Len(<<c>>) - 1) # <<c>>
      BY <1>0, <1>2, <1>4
    <2> QED BY <1>1, <1>3, <1>4, <2>1 DEF p
  <1>5. CASE p # 0
    <2>1. /\ p \in b..Len(s)
          /\ SubSeq(s, p, p + Len(<<c>>) - 1) = <<c>>
          /\ \A i \in b..(p - 1) : SubSeq(s, i, i + Len(<<c>>) - 1) # <<c>>
      BY <1>2, <1>5
    <2>2. s[p] = c
      BY <1>1, <1>3, <2>1
    <2>3. \A i \in b..(p - 1) : s[i] # c
      <3>1. \A i \in b..(p - 1) : i \in 1..Len(s)
        BY <1>0, <2>1
      <3> QED BY <1>1, <2>1, <3>1
    <2> QED BY <2>1, <2>2, <2>3 DEF p
  <1> QED BY <1>4, <1>5

-----------------------------------------------------------------------------
(* What a shell makes of quoted and of plain text *)

At(ws, w, o, q) == [words |-> ws, word |-> w, open |-> o, quote |-> q, bad |-> FALSE]

LEMMA AtType ==
  ASSUME NEW ws \in Seq(Text), NEW w \in Text, NEW o \in BOOLEAN, NEW q \in Char
  PROVE  At(ws, w, o, q) \in Shell
  BY DEF At, Shell

\* Whatever is between single quotes is read as it is.
LEMMA ReadsQuoted ==
  ASSUME NEW ws \in Seq(Text), NEW w \in Text, NEW s \in Text, \A i \in 1..Len(s) : s[i] # "'"
  PROVE  ReadsAll(At(ws, w, TRUE, "'"), s) = At(ws, w \o s, TRUE, "'")
PROOF
  <1> DEFINE Good == {t \in Text : (\A i \in 1..Len(t) : t[i] # "'") =>
                        ReadsAll(At(ws, w, TRUE, "'"), t) = At(ws, w \o t, TRUE, "'")}
  <1>0. At(ws, w, TRUE, "'") \in Shell
    BY AtType, CharFacts
  <1>1. <<>> \in Good
    BY <1>0, ReadsAllEmpty, EmptySeq, ConcatEmptySeq DEF Text
  <1>2. ASSUME NEW t \in Seq(Char), NEW c \in Char, t \in Good
        PROVE  Append(t, c) \in Good
    <2>1. t \in Text /\ Append(t, c) \in Text
      BY AppendProperties DEF Text
    <2>2. SUFFICES ASSUME \A i \in 1..Len(Append(t, c)) : Append(t, c)[i] # "'"
                   PROVE  ReadsAll(At(ws, w, TRUE, "'"), Append(t, c))
                            = At(ws, w \o Append(t, c), TRUE, "'")
      BY <2>1
    <2>3. (\A i \in 1..Len(t) : t[i] # "'") /\ c # "'"
      BY <2>2, AppendProperties, LenProperties
    <2>4. ReadsAll(At(ws, w, TRUE, "'"), t) = At(ws, w \o t, TRUE, "'")
      BY <1>2, <2>3
    <2>5. w \o Append(t, c) = Append(w \o t, c)
      <3>1. <<c>> \in Seq(Char) /\ w \in Seq(Char) /\ w \o t \in Seq(Char)
        BY ConcatProperties DEF Text
      <3> QED BY <3>1, ConcatAssociative, AppendIsConcat
    <2>6. Reads(At(ws, w \o t, TRUE, "'"), c) = At(ws, Append(w \o t, c), TRUE, "'")
      BY <2>3, CharFacts DEF Reads, At, Added
    <2>7. ReadsAll(At(ws, w, TRUE, "'"), Append(t, c))
            = Reads(ReadsAll(At(ws, w, TRUE, "'"), t), c)
      BY <1>0, <2>1, ReadsAllAppend
    <2> QED BY <2>4, <2>5, <2>6, <2>7
  <1> HIDE DEF Good
  <1>3. Text \subseteq Good
    BY <1>1, <1>2, SeqInd DEF Text
  <1> QED BY <1>3 DEF Good

\* A character that is no blank and of no meaning to a shell.
Plain(c) == c \notin {"'", DQ, "\\", "$", "~"} /\ c \notin Blank /\ c \notin Breaks

LEMMA ReadsPlain ==
  ASSUME NEW ws \in Seq(Text), NEW w \in Text, NEW o \in BOOLEAN,
         NEW s \in Text, \A i \in 1..Len(s) : Plain(s[i])
  PROVE  ReadsAll(At(ws, w, o, "no"), s) = At(ws, w \o s, o \/ s # <<>>, "no")
PROOF
  <1> DEFINE Good == {t \in Text : (\A i \in 1..Len(t) : Plain(t[i])) =>
                        ReadsAll(At(ws, w, o, "no"), t) = At(ws, w \o t, o \/ t # <<>>, "no")}
  <1>0. At(ws, w, o, "no") \in Shell
    BY AtType, CharFacts
  <1>1. <<>> \in Good
    BY <1>0, ReadsAllEmpty, EmptySeq, ConcatEmptySeq DEF Text
  <1>2. ASSUME NEW t \in Seq(Char), NEW c \in Char, t \in Good
        PROVE  Append(t, c) \in Good
    <2>1. t \in Text /\ Append(t, c) \in Text /\ Append(t, c) # <<>>
      BY AppendProperties DEF Text
    <2>2. SUFFICES ASSUME \A i \in 1..Len(Append(t, c)) : Plain(Append(t, c)[i])
                   PROVE  ReadsAll(At(ws, w, o, "no"), Append(t, c))
                            = At(ws, w \o Append(t, c), TRUE, "no")
      BY <2>1
    <2>3. (\A i \in 1..Len(t) : Plain(t[i])) /\ Plain(c)
      BY <2>2, AppendProperties, LenProperties
    <2>4. ReadsAll(At(ws, w, o, "no"), t) = At(ws, w \o t, o \/ t # <<>>, "no")
      BY <1>2, <2>3
    <2>5. w \o Append(t, c) = Append(w \o t, c)
      <3>1. <<c>> \in Seq(Char) /\ w \in Seq(Char) /\ w \o t \in Seq(Char)
        BY ConcatProperties DEF Text
      <3> QED BY <3>1, ConcatAssociative, AppendIsConcat
    <2>6. Reads(At(ws, w \o t, o \/ t # <<>>, "no"), c) = At(ws, Append(w \o t, c), TRUE, "no")
      BY <2>3, CharFacts DEF Reads, ReadsBare, At, Added, Plain
    <2>7. ReadsAll(At(ws, w, o, "no"), Append(t, c))
            = Reads(ReadsAll(At(ws, w, o, "no"), t), c)
      BY <1>0, <2>1, ReadsAllAppend
    <2> QED BY <2>4, <2>5, <2>6, <2>7
  <1> HIDE DEF Good
  <1>3. Text \subseteq Good
    BY <1>1, <1>2, SeqInd DEF Text
  <1> QED BY <1>3 DEF Good

-----------------------------------------------------------------------------
(* Cutting and joining *)

LEMMA Sub ==
  ASSUME NEW S, NEW s \in Seq(S), NEW m \in Nat \ {0}, NEW n \in Nat, n <= Len(s)
  PROVE  /\ SubSeq(s, m, n) \in Seq(S)
         /\ Len(SubSeq(s, m, n)) = IF m <= n THEN n - m + 1 ELSE 0
         /\ \A i \in 1..(n - m + 1) : SubSeq(s, m, n)[i] = s[m + i - 1]
PROOF
  <1>1. Len(s) \in Nat /\ \A i \in 1..Len(s) : s[i] \in S
    BY LenProperties, ElementOfSeq
  <1>2. \A i \in m..n : s[i] \in S
    BY <1>1
  <1> QED BY <1>2, SubSeqProperties

LEMMA SubEmpty ==
  ASSUME NEW S, NEW s \in Seq(S), NEW m \in Nat, NEW n \in Nat, n < m
  PROVE  SubSeq(s, m, n) = <<>>
  BY SubSeqEmpty

\* A part of a part.
LEMMA SubSub ==
  ASSUME NEW S, NEW s \in Seq(S), NEW j \in Nat \ {0}, NEW m \in Nat \ {0}, NEW n \in Nat,
         NEW e \in Nat, e <= Len(s), j + n - 1 <= e, j <= e + 1
  PROVE  SubSeq(SubSeq(s, j, e), m, n) = SubSeq(s, j + m - 1, j + n - 1)
PROOF
  <1> DEFINE r == SubSeq(s, j, e)
             x == SubSeq(r, m, n)
             y == SubSeq(s, j + m - 1, j + n - 1)
  <1>0. Len(s) \in Nat
    BY LenProperties
  <1>1. /\ r \in Seq(S) /\ Len(r) = e - j + 1
        /\ \A i \in 1..(e - j + 1) : r[i] = s[j + i - 1]
    BY <1>0, Sub
  <1>2. j + m - 1 \in Nat \ {0} /\ j + n - 1 \in Nat /\ j + n - 1 <= Len(s) /\ n <= e - j + 1
    BY <1>0
  <1> HIDE DEF r
  <1>3. /\ x \in Seq(S) /\ Len(x) = IF m <= n THEN n - m + 1 ELSE 0
        /\ \A i \in 1..(n - m + 1) : x[i] = r[m + i - 1]
    BY <1>1, <1>2, Sub
  <1>4. /\ y \in Seq(S)
        /\ Len(y) = IF j + m - 1 <= j + n - 1 THEN (j + n - 1) - (j + m - 1) + 1 ELSE 0
        /\ \A i \in 1..((j + n - 1) - (j + m - 1) + 1) : y[i] = s[(j + m - 1) + i - 1]
    BY <1>2, Sub
  <1> HIDE DEF x, y
  <1>5. Len(x) = Len(y)
    BY <1>3, <1>4
  <1>6. ASSUME NEW i \in 1..Len(x) PROVE x[i] = y[i]
    <2>1. i \in 1..(n - m + 1) /\ m + i - 1 \in 1..(e - j + 1)
      BY <1>2, <1>3
    <2>2. i \in 1..((j + n - 1) - (j + m - 1) + 1)
      BY <2>1
    <2>3. x[i] = s[j + (m + i - 1) - 1]
      BY <1>1, <1>3, <2>1
    <2>4. y[i] = s[(j + m - 1) + i - 1]
      BY <1>4, <2>2
    <2>5. j + (m + i - 1) - 1 = (j + m - 1) + i - 1
      BY <2>1
    <2> QED BY <2>3, <2>4, <2>5
  <1>7. x = y
    BY <1>3, <1>4, <1>5, <1>6, SeqEqual
  <1> QED BY <1>7 DEF x, y, r

\* The parts of two texts one after the other.
LEMMA SubConcat ==
  ASSUME NEW S, NEW s \in Seq(S), NEW t \in Seq(S)
  PROVE  /\ \A n \in 0..Len(t) : SubSeq(s \o t, 1, Len(s) + n) = s \o SubSeq(t, 1, n)
         /\ \A m \in Nat \ {0} :
              SubSeq(s \o t, Len(s) + m, Len(s \o t)) = SubSeq(t, m, Len(t))
PROOF
  <1> DEFINE u == s \o t
  <1>0. Len(s) \in Nat /\ Len(t) \in Nat
    BY LenProperties
  <1>1. /\ u \in Seq(S) /\ Len(u) = Len(s) + Len(t)
        /\ \A i \in 1..(Len(s) + Len(t)) : u[i] = IF i <= Len(s) THEN s[i] ELSE t[i - Len(s)]
    BY ConcatProperties
  <1> HIDE DEF u
  <1>2. ASSUME NEW n \in 0..Len(t) PROVE SubSeq(u, 1, Len(s) + n) = s \o SubSeq(t, 1, n)
    <2> DEFINE x == SubSeq(u, 1, Len(s) + n)
               y == SubSeq(t, 1, n)
    <2>1. /\ x \in Seq(S) /\ Len(x) = Len(s) + n
          /\ \A i \in 1..(Len(s) + n) : x[i] = u[i]
      <3>1. Len(s) + n \in Nat /\ Len(s) + n <= Len(u) /\ 1 \in Nat \ {0}
        BY <1>0, <1>1
      <3>2. /\ x \in Seq(S) /\ Len(x) = IF 1 <= Len(s) + n THEN Len(s) + n - 1 + 1 ELSE 0
            /\ \A i \in 1..(Len(s) + n - 1 + 1) : x[i] = u[1 + i - 1]
        BY <1>1, <3>1, Sub
      <3> HIDE DEF x
      <3> QED BY <1>0, <3>1, <3>2
    <2>2. y \in Seq(S) /\ Len(y) = n /\ \A i \in 1..n : y[i] = t[i]
      <3>1. n \in Nat /\ n <= Len(t) /\ 1 \in Nat \ {0}
        BY <1>0
      <3>2. /\ y \in Seq(S) /\ Len(y) = IF 1 <= n THEN n - 1 + 1 ELSE 0
            /\ \A i \in 1..(n - 1 + 1) : y[i] = t[1 + i - 1]
        BY <3>1, Sub
      <3> HIDE DEF y
      <3> QED BY <1>0, <3>1, <3>2
    <2> HIDE DEF x, y
    <2>3. /\ s \o y \in Seq(S) /\ Len(s \o y) = Len(s) + n
          /\ \A i \in 1..(Len(s) + n) : (s \o y)[i] = IF i <= Len(s) THEN s[i] ELSE y[i - Len(s)]
      BY <2>2, ConcatProperties
    <2>4. ASSUME NEW i \in 1..Len(x) PROVE x[i] = (s \o y)[i]
      <3>1. i \in 1..(Len(s) + n) /\ i \in 1..(Len(s) + Len(t))
        BY <1>0, <2>1
      <3>2. x[i] = IF i <= Len(s) THEN s[i] ELSE t[i - Len(s)]
        BY <1>1, <2>1, <3>1
      <3>3. ~(i <= Len(s)) => i - Len(s) \in 1..n
        BY <1>0, <3>1
      <3> QED BY <2>2, <2>3, <3>1, <3>2, <3>3
    <2>5. Len(x) = Len(s \o y)
      BY <2>1, <2>3
    <2>6. x = s \o y
      BY <2>1, <2>3, <2>4, <2>5, SeqEqual
    <2> QED BY <2>6 DEF x, y
  <1>3. ASSUME NEW m \in Nat \ {0}
        PROVE  SubSeq(u, Len(s) + m, Len(u)) = SubSeq(t, m, Len(t))
    <2> DEFINE x == SubSeq(u, Len(s) + m, Len(u))
               y == SubSeq(t, m, Len(t))
    <2>1. /\ x \in Seq(S) /\ Len(x) = IF Len(s) + m <= Len(u) THEN Len(u) - (Len(s) + m) + 1 ELSE 0
          /\ \A i \in 1..(Len(u) - (Len(s) + m) + 1) : x[i] = u[(Len(s) + m) + i - 1]
      <3>1. Len(s) + m \in Nat \ {0} /\ Len(u) \in Nat /\ Len(u) <= Len(u)
        BY <1>0, <1>1
      <3> QED BY <1>1, <3>1, Sub
    <2>2. /\ y \in Seq(S) /\ Len(y) = IF m <= Len(t) THEN Len(t) - m + 1 ELSE 0
          /\ \A i \in 1..(Len(t) - m + 1) : y[i] = t[m + i - 1]
      BY <1>0, Sub
    <2> HIDE DEF x, y
    <2>3. Len(x) = Len(y)
      BY <1>0, <1>1, <2>1, <2>2
    <2>4. ASSUME NEW i \in 1..Len(x) PROVE x[i] = y[i]
      <3>1. i \in 1..(Len(t) - m + 1) /\ i \in 1..(Len(u) - (Len(s) + m) + 1)
        BY <1>0, <1>1, <2>1
      <3>2. /\ (Len(s) + m) + i - 1 \in 1..(Len(s) + Len(t)) /\ ~((Len(s) + m) + i - 1 <= Len(s))
            /\ ((Len(s) + m) + i - 1) - Len(s) = m + i - 1
        BY <1>0, <3>1
      <3>3. x[i] = u[(Len(s) + m) + i - 1]
        BY <2>1, <3>1
      <3>4. u[(Len(s) + m) + i - 1] = t[m + i - 1]
        BY <1>1, <3>2
      <3> QED BY <2>2, <3>1, <3>3, <3>4
    <2>5. x = y
      BY <2>1, <2>2, <2>3, <2>4, SeqEqual
    <2> QED BY <2>5 DEF x, y
  <1> QED BY <1>2, <1>3 DEF u

LEMMA Concat ==
  ASSUME NEW s \in Text, NEW t \in Text
  PROVE  /\ s \o t \in Text
         /\ Len(s) \in Nat /\ Len(t) \in Nat /\ Len(s \o t) = Len(s) + Len(t)
         /\ \A i \in 1..(Len(s) + Len(t)) :
              (s \o t)[i] = IF i <= Len(s) THEN s[i] ELSE t[i - Len(s)]
  BY ConcatProperties, LenProperties DEF Text

LEMMA Assoc ==
  ASSUME NEW s \in Text, NEW t \in Text, NEW u \in Text
  PROVE  (s \o t) \o u = s \o (t \o u)
  BY ConcatAssociative DEF Text

LEMMA AppendText ==
  ASSUME NEW s \in Text, NEW c \in Char
  PROVE  Append(s, c) \in Text /\ <<c>> \in Text /\ Append(s, c) = s \o <<c>>
  BY AppendProperties, AppendIsConcat DEF Text

LEMMA SubText ==
  ASSUME NEW s \in Text, NEW m \in Nat \ {0}, NEW n \in Nat, n <= Len(s), m <= n + 1
  PROVE  /\ SubSeq(s, m, n) \in Text
         /\ Len(SubSeq(s, m, n)) = n - m + 1
         /\ \A i \in 1..(n - m + 1) : SubSeq(s, m, n)[i] = s[m + i - 1]
PROOF
  <1> DEFINE x == SubSeq(s, m, n)
  <1>1. /\ x \in Text /\ Len(x) = IF m <= n THEN n - m + 1 ELSE 0
        /\ \A i \in 1..(n - m + 1) : x[i] = s[m + i - 1]
    BY Sub DEF Text
  <1> HIDE DEF x
  <1>2. Len(x) = n - m + 1
    BY <1>1
  <1> QED BY <1>1, <1>2 DEF x

\* The end of a text that begins at j: its parts are parts of the text.
LEMMA SubOfEnd ==
  ASSUME NEW s \in Text, NEW j \in 1..(Len(s) + 1), NEW m \in Nat \ {0},
         NEW n \in Nat, n <= Len(s) + 1 - j
  PROVE  SubSeq(SubSeq(s, j, Len(s)), m, n) = SubSeq(s, j + m - 1, j + n - 1)
PROOF
  <1>1. s \in Seq(Char) /\ Len(s) \in Nat /\ Len(s) <= Len(s)
    BY LenProperties DEF Text
  <1>2. j \in Nat \ {0} /\ j <= Len(s) + 1 /\ j + n - 1 <= Len(s)
    BY <1>1
  <1> QED BY <1>1, <1>2, SubSub

-----------------------------------------------------------------------------
(* Quoting *)

To == <<"'", DQ, "'", DQ, "'">>

LEMMA ToIs ==
  /\ To \in Text /\ Len(To) = 5
  /\ \A ws \in Seq(Text), w \in Text :
       ReadsAll(At(ws, w, TRUE, "'"), To) = At(ws, Append(w, "'"), TRUE, "'")
PROOF
  <1> DEFINE q == <<"'">>  d == <<"'", DQ>>  e == <<"'", DQ, "'">>  f == <<"'", DQ, "'", DQ>>
  <1>0. "'" \in Char /\ DQ \in Char /\ DQ # "'" /\ DQ # "no" /\ DQ # "\\" /\ DQ # "$" /\ DQ # "~"
    BY CharFacts
  <1>1. /\ <<>> \in Seq(Char) /\ q \in Seq(Char) /\ d \in Seq(Char) /\ e \in Seq(Char)
        /\ f \in Seq(Char) /\ To \in Seq(Char) /\ Len(To) = 5
    BY <1>0 DEF To
  <1>2. /\ q = Append(<<>>, "'") /\ d = Append(q, DQ) /\ e = Append(d, "'")
        /\ f = Append(e, DQ) /\ To = Append(f, "'")
    BY <1>0 DEF To
  <1> HIDE DEF q, d, e, f
  <1>3. ASSUME NEW ws \in Seq(Text), NEW w \in Text
        PROVE  ReadsAll(At(ws, w, TRUE, "'"), To) = At(ws, Append(w, "'"), TRUE, "'")
    <2> DEFINE sh == At(ws, w, TRUE, "'")
    <2>0. sh \in Shell
      BY <1>0, AtType
    <2>1. ReadsAll(sh, q) = At(ws, w, TRUE, "no")
      <3>1. ReadsAll(sh, q) = Reads(ReadsAll(sh, <<>>), "'")
        BY <1>0, <1>1, <1>2, <2>0, ReadsAllAppend DEF Text
      <3>2. ReadsAll(sh, <<>>) = sh
        BY <2>0, ReadsAllEmpty
      <3>3. Reads(sh, "'") = At(ws, w, TRUE, "no")
        BY DEF Reads, At
      <3> QED BY <3>1, <3>2, <3>3
    <2>2. ReadsAll(sh, d) = At(ws, w, TRUE, DQ)
      <3>1. ReadsAll(sh, d) = Reads(ReadsAll(sh, q), DQ)
        BY <1>0, <1>1, <1>2, <2>0, ReadsAllAppend DEF Text
      <3>2. Reads(At(ws, w, TRUE, "no"), DQ) = At(ws, w, TRUE, DQ)
        BY <1>0, CharFacts DEF Reads, ReadsBare, At
      <3> QED BY <2>1, <3>1, <3>2
    <2>3. ReadsAll(sh, e) = At(ws, Append(w, "'"), TRUE, DQ)
      <3>1. ReadsAll(sh, e) = Reads(ReadsAll(sh, d), "'")
        BY <1>0, <1>1, <1>2, <2>0, ReadsAllAppend DEF Text
      <3>2. Reads(At(ws, w, TRUE, DQ), "'") = At(ws, Append(w, "'"), TRUE, DQ)
        BY <1>0 DEF Reads, At, Added
      <3> QED BY <2>2, <3>1, <3>2
    <2>4. ReadsAll(sh, f) = At(ws, Append(w, "'"), TRUE, "no")
      <3>1. ReadsAll(sh, f) = Reads(ReadsAll(sh, e), DQ)
        BY <1>0, <1>1, <1>2, <2>0, ReadsAllAppend DEF Text
      <3>2. Reads(At(ws, Append(w, "'"), TRUE, DQ), DQ) = At(ws, Append(w, "'"), TRUE, "no")
        BY <1>0 DEF Reads, At
      <3> QED BY <2>3, <3>1, <3>2
    <2>5. ReadsAll(sh, To) = Reads(ReadsAll(sh, f), "'")
      BY <1>0, <1>1, <1>2, <2>0, ReadsAllAppend DEF Text
    <2>6. Reads(At(ws, Append(w, "'"), TRUE, "no"), "'") = At(ws, Append(w, "'"), TRUE, "'")
      BY <1>0, CharFacts DEF Reads, ReadsBare, At
    <2> QED BY <2>4, <2>5, <2>6
  <1> QED BY <1>1, <1>3 DEF Text

\* A text in which something is being replaced.
Replaced == [str : Text, start : Nat \ {0}, m : Nat]

LEMMA ReplaceType ==
  ASSUME NEW from \in Text, NEW to \in Text, NEW n \in Nat, NEW r \in Replaced
  PROVE  ReplaceOnce(from, to, n, r) \in Replaced
PROOF
  <1> DEFINE p == Find(r.str, from, r.start)
             new == SubSeq(r.str, 1, p - 1) \o to \o SubSeq(r.str, p + Len(from), Len(r.str))
  <1>0. r.str \in Text /\ r.start \in Nat \ {0} /\ r.m \in Nat /\ Len(r.str) \in Nat
        /\ Len(from) \in Nat /\ Len(to) \in Nat
    BY LenProperties DEF Replaced, Text
  <1>1. CASE from # <<>> /\ (n = 0 \/ r.m < n) /\ p # 0
    <2>1. p \in r.start..(Len(r.str) + 1 - Len(from)) /\ Len(from) # 0
      BY <1>0, <1>1, FindFirst, EmptySeq DEF Text
    <2> HIDE DEF p
    <2>2. p \in Nat \ {0} /\ p - 1 \in Nat /\ p - 1 <= Len(r.str) /\ p + Len(from) \in Nat \ {0}
      BY <1>0, <2>1
    <2>3. SubSeq(r.str, 1, p - 1) \in Text /\ SubSeq(r.str, p + Len(from), Len(r.str)) \in Text
      BY <1>0, <2>2, Sub DEF Text
    <2>4. new \in Text
      BY <2>3, ConcatProperties DEF Text
    <2>5. ReplaceOnce(from, to, n, r) = [str |-> new, start |-> p + Len(to), m |-> r.m + 1]
      BY <1>1 DEF ReplaceOnce, p
    <2> HIDE DEF new
    <2> QED BY <1>0, <2>2, <2>4, <2>5 DEF Replaced
  <1>2. CASE ~(from # <<>> /\ (n = 0 \/ r.m < n) /\ p # 0)
    <2>1. ReplaceOnce(from, to, n, r) = r
      BY <1>2 DEF ReplaceOnce
    <2> QED BY <2>1
  <1> QED BY <1>1, <1>2

\* The rounds of replace_all().
ReplaceRounds(f, str, from, to, n) ==
  /\ f \in [0..Len(str) -> Replaced]
  /\ f[0] = [str |-> str, start |-> 1, m |-> 0]
  /\ \A k \in 1..Len(str) : f[k] = ReplaceOnce(from, to, n, f[k - 1])
  /\ StrReplace(str, from, to, n) = f[Len(str)].str

LEMMA ReplaceLoop ==
  ASSUME NEW str \in Text, NEW from \in Text, NEW to \in Text, NEW n \in Nat
  PROVE  \E f : ReplaceRounds(f, str, from, to, n)
PROOF
  <1> DEFINE r0 == [str |-> str, start |-> 1, m |-> 0]
             Loop(f) == f = [k \in 0..Len(str) |->
                              IF k = 0 THEN [str |-> str, start |-> 1, m |-> 0]
                                       ELSE ReplaceOnce(from, to, n, f[k - 1])]
             step == [x \in (1..Len(str)) \X Replaced |-> ReplaceOnce(from, to, n, x[2])]
  <1>1. Len(str) \in Nat /\ r0 \in Replaced
    BY LenProperties DEF Text, Replaced
  <1>2. step \in [(1..Len(str)) \X Replaced -> Replaced]
    BY ReplaceType
  <1>3. PICK f \in [0..Len(str) -> Replaced] :
               f[0] = r0 /\ \A k \in 1..Len(str) : f[k] = step[<<k, f[k - 1]>>]
    <2> HIDE DEF step, r0
    <2>1. \E f : History(f, Len(str), Replaced, r0, step)
      BY <1>1, <1>2, Iterates
    <2> QED BY <2>1 DEF History
  <1>4. ASSUME NEW k \in 1..Len(str) PROVE f[k] = ReplaceOnce(from, to, n, f[k - 1])
    <2>1. k - 1 \in 0..Len(str)
      BY <1>1
    <2>2. <<k, f[k - 1]>> \in (1..Len(str)) \X Replaced
      BY <1>3, <2>1
    <2> QED BY <1>3, <2>2
  <1>5. Loop(f)
    BY <1>3, <1>4
  <1> DEFINE at == CHOOSE g : Loop(g)
  <1>6. Loop(at)
    <2> HIDE DEF Loop
    <2> QED BY <1>5
  <1>7. StrReplace(str, from, to, n) = at[Len(str)].str
    BY DEF StrReplace
  <1> HIDE DEF at
  <1>8. at[0] = r0 /\ \A k \in 1..Len(str) : at[k] = ReplaceOnce(from, to, n, at[k - 1])
    BY <1>1, <1>6
  <1>9. \A k \in 0..Len(str) : at[k] = f[k]
    <2>1. Together(at, f, Len(str))
      BY <1>3, <1>4, <1>8 DEF Together
    <2> QED BY <1>1, <2>1, SameHistory
  <1>10. StrReplace(str, from, to, n) = f[Len(str)].str
    BY <1>1, <1>7, <1>9
  <1> QED BY <1>3, <1>4, <1>10 DEF ReplaceRounds

LEMMA FindQuote ==
  ASSUME NEW s \in Text, NEW b \in Nat \ {0}
  PROVE  \/ /\ Find(s, <<"'">>, b) = 0
            /\ \A i \in b..Len(s) : s[i] # "'"
         \/ /\ Find(s, <<"'">>, b) \in b..Len(s)
            /\ s[Find(s, <<"'">>, b)] = "'"
            /\ \A i \in b..(Find(s, <<"'">>, b) - 1) : s[i] # "'"
PROOF
  <1>1. PICK c \in Char : c = "'"
    BY CharFacts
  <1>2. \/ /\ Find(s, <<c>>, b) = 0
           /\ \A i \in b..Len(s) : s[i] # c
        \/ /\ Find(s, <<c>>, b) \in b..Len(s)
           /\ s[Find(s, <<c>>, b)] = c
           /\ \A i \in b..(Find(s, <<c>>, b) - 1) : s[i] # c
    BY FindChar
  <1> QED BY <1>1, <1>2, Zenon

\* What has been replaced after k rounds, of a text that is read in single
\* quotes: all up to the j-th character, of which the shell makes what it was.
QqSoFar(s, ws, w, k, r) ==
  \E front \in Text, j \in 1..(Len(s) + 1) :
    /\ r.str = front \o SubSeq(s, j, Len(s))
    /\ r.start = Len(front) + 1
    /\ ReadsAll(At(ws, w, TRUE, "'"), front) = At(ws, w \o SubSeq(s, 1, j - 1), TRUE, "'")
    /\ j > k \/ \A i \in j..Len(s) : s[i] # "'"

LEMMA QqRound ==
  ASSUME NEW s \in Text, NEW ws \in Seq(Text), NEW w \in Text, NEW k \in 1..Len(s),
         NEW r \in Replaced, QqSoFar(s, ws, w, k - 1, r)
  PROVE  QqSoFar(s, ws, w, k, ReplaceOnce(<<"'">>, To, 0, r))
PROOF
  <1> DEFINE sh == At(ws, w, TRUE, "'")
             p == Find(r.str, <<"'">>, r.start)
  <1>1. PICK front \in Text, j \in 1..(Len(s) + 1) :
          /\ r.str = front \o SubSeq(s, j, Len(s))
          /\ r.start = Len(front) + 1
          /\ ReadsAll(sh, front) = At(ws, w \o SubSeq(s, 1, j - 1), TRUE, "'")
          /\ j > k - 1 \/ \A i \in j..Len(s) : s[i] # "'"
    BY DEF QqSoFar
  <1> DEFINE rest == SubSeq(s, j, Len(s))
  <1>0. /\ Len(s) \in Nat /\ "'" \in Char /\ sh \in Shell /\ r.start \in Nat \ {0}
        /\ r.str \in Text /\ Len(front) \in Nat /\ j \in Nat \ {0}
    <2>1. sh \in Shell /\ "'" \in Char
      BY CharFacts, AtType
    <2>2. Len(s) \in Nat /\ Len(front) \in Nat /\ j \in Nat \ {0}
      BY Concat
    <2>3. r.start \in Nat \ {0} /\ r.str \in Text
      BY DEF Replaced
    <2> QED BY <2>1, <2>2, <2>3
  <1>2. /\ rest \in Text /\ Len(rest) = Len(s) + 1 - j
        /\ \A i \in 1..(Len(s) + 1 - j) : rest[i] = s[j + i - 1]
    <2>1. Len(s) <= Len(s) /\ j <= Len(s) + 1 /\ Len(s) + 1 - j = Len(s) - j + 1
      BY <1>0
    <2> QED BY <1>0, <2>1, SubText
  <1>3. /\ Len(r.str) = Len(front) + (Len(s) + 1 - j)
        /\ \A i \in 1..(Len(s) + 1 - j) : r.str[Len(front) + i] = s[j + i - 1]
    <2> HIDE DEF rest
    <2>1. r.str = front \o rest
      BY <1>1 DEF rest
    <2>2. /\ Len(r.str) = Len(front) + Len(rest)
          /\ \A i \in 1..(Len(front) + Len(rest)) :
               r.str[i] = IF i <= Len(front) THEN front[i] ELSE rest[i - Len(front)]
      <3>1. /\ Len(front \o rest) = Len(front) + Len(rest)
            /\ \A i \in 1..(Len(front) + Len(rest)) :
                 (front \o rest)[i] = IF i <= Len(front) THEN front[i] ELSE rest[i - Len(front)]
        BY <1>2, Concat
      <3> QED BY <2>1, <3>1
    <2>3. ASSUME NEW i \in 1..(Len(s) + 1 - j) PROVE r.str[Len(front) + i] = s[j + i - 1]
      <3>1. /\ Len(front) + i \in 1..(Len(front) + Len(rest)) /\ ~(Len(front) + i <= Len(front))
            /\ (Len(front) + i) - Len(front) = i
        BY <1>0, <1>2
      <3> QED BY <1>2, <2>2, <3>1
    <2> QED BY <1>0, <1>2, <2>2, <2>3
  <1>4. \/ p = 0 /\ \A i \in r.start..Len(r.str) : r.str[i] # "'"
        \/ p \in r.start..Len(r.str) /\ r.str[p] = "'" /\ \A i \in r.start..(p - 1) : r.str[i] # "'"
    BY <1>0, FindQuote
  <1>5. CASE p = 0
    <2>1. ReplaceOnce(<<"'">>, To, 0, r) = r
      BY <1>5 DEF ReplaceOnce
    <2>2. \A i \in r.start..Len(r.str) : r.str[i] # "'"
      BY <1>0, <1>4, <1>5
    <2>3. ASSUME NEW i \in j..Len(s) PROVE s[i] # "'"
      <3>1. /\ i - j + 1 \in 1..(Len(s) + 1 - j) /\ j + (i - j + 1) - 1 = i
            /\ Len(front) + (i - j + 1) \in r.start..Len(r.str)
        BY <1>0, <1>1, <1>3
      <3> QED BY <1>3, <2>2, <3>1
    <2> QED BY <1>1, <2>1, <2>3 DEF QqSoFar
  <1>6. CASE p # 0
    <2>1. /\ p \in r.start..Len(r.str) /\ r.str[p] = "'"
          /\ \A i \in r.start..(p - 1) : r.str[i] # "'"
      BY <1>4, <1>6
    <2> HIDE DEF p
    <2> DEFINE q == p - Len(front) + j - 1
               mid == SubSeq(s, j, q - 1)
               done == (front \o mid) \o To
    <2>2. /\ q \in j..Len(s) /\ p = Len(front) + (q - j + 1) /\ q - j + 1 \in 1..(Len(s) + 1 - j)
          /\ q \in Nat \ {0} /\ q - 1 \in Nat /\ j + (q - j + 1) - 1 = q /\ q - 1 <= Len(s)
      <3>1. p \in Int /\ Len(front) + 1 <= p /\ p <= Len(front) + (Len(s) + 1 - j)
        <4>1. p \in r.start..Len(r.str)
          BY <2>1
        <4>2. r.start = Len(front) + 1 /\ Len(r.str) = Len(front) + (Len(s) + 1 - j)
          BY <1>1, <1>3
        <4> QED BY <1>0, <4>1, <4>2
      <3>2. j \in Nat \ {0} /\ Len(s) \in Nat /\ Len(front) \in Nat
        BY <1>0
      <3> QED BY <3>1, <3>2
    <2> HIDE DEF q
    <2>3. s[q] = "'"
      BY <1>3, <2>1, <2>2
    <2>4. ASSUME NEW i \in j..(q - 1) PROVE s[i] # "'"
      <3>1. /\ i - j + 1 \in 1..(Len(s) + 1 - j) /\ j + (i - j + 1) - 1 = i
            /\ Len(front) + (i - j + 1) \in r.start..(p - 1)
        BY <1>0, <1>1, <1>3, <2>2
      <3> QED BY <1>3, <2>1, <3>1
    <2>5. j > k - 1
      BY <1>1, <2>2, <2>3
    <2>6. /\ mid \in Text /\ Len(mid) = q - j
          /\ \A i \in 1..(q - j) : mid[i] = s[j + i - 1]
      <3>1. q - 1 <= Len(s) /\ j <= (q - 1) + 1 /\ q - j = (q - 1) - j + 1
        BY <1>0, <2>2
      <3> QED BY <1>0, <2>2, <3>1, SubText
    <2>7. SubSeq(r.str, 1, p - 1) = front \o mid
      <3>1. q - j \in 0..Len(rest) /\ p - 1 = Len(front) + (q - j) /\ q - j \in Nat
        <4>1. Len(rest) = Len(s) + 1 - j
          BY <1>2
        <4>2. /\ Len(s) \in Nat /\ Len(front) \in Nat /\ j \in Nat /\ q \in Nat /\ q \in j..Len(s)
              /\ p = Len(front) + (q - j + 1)
          BY <1>0, <2>2
        <4> HIDE DEF rest
        <4> QED BY <4>1, <4>2
      <3>2. SubSeq(front \o rest, 1, Len(front) + (q - j)) = front \o SubSeq(rest, 1, q - j)
        BY <1>2, <3>1, SubConcat DEF Text
      <3>3. SubSeq(rest, 1, q - j) = SubSeq(s, j + 1 - 1, j + (q - j) - 1)
        <4>1. 1 \in Nat \ {0} /\ q - j <= Len(s) + 1 - j
          BY <1>0, <2>2
        <4> QED BY <3>1, <4>1, SubOfEnd
      <3>4. j + 1 - 1 = j /\ j + (q - j) - 1 = q - 1
        BY <1>0, <2>2
      <3> QED BY <1>1, <3>1, <3>2, <3>3, <3>4
    <2>8. SubSeq(r.str, p + Len(<<"'">>), Len(r.str)) = SubSeq(s, q + 1, Len(s))
      <3>1. q - j + 2 \in Nat \ {0} /\ p + Len(<<"'">>) = Len(front) + (q - j + 2)
        BY <1>0, <2>2
      <3>2. SubSeq(front \o rest, Len(front) + (q - j + 2), Len(front \o rest))
              = SubSeq(rest, q - j + 2, Len(rest))
        <4> HIDE DEF rest
        <4> QED BY <1>2, <3>1, SubConcat DEF Text
      <3>3. SubSeq(rest, q - j + 2, Len(s) + 1 - j)
              = SubSeq(s, j + (q - j + 2) - 1, j + (Len(s) + 1 - j) - 1)
        <4>1. Len(s) + 1 - j \in Nat /\ Len(s) + 1 - j <= Len(s) + 1 - j
          BY <1>0, <2>2
        <4> QED BY <3>1, <4>1, SubOfEnd
      <3>4. j + (q - j + 2) - 1 = q + 1 /\ j + (Len(s) + 1 - j) - 1 = Len(s)
        BY <1>0, <2>2
      <3> QED BY <1>1, <1>2, <3>1, <3>2, <3>3, <3>4
    <2>9. ReplaceOnce(<<"'">>, To, 0, r)
            = [str |-> (front \o mid) \o To \o SubSeq(s, q + 1, Len(s)), start |-> p + Len(To),
               m |-> r.m + 1]
      <3>1. <<"'">> # <<>>
        OBVIOUS
      <3> HIDE DEF mid
      <3> QED BY <1>6, <2>7, <2>8, <3>1 DEF ReplaceOnce, p
    <2>10. done \in Text /\ Len(done) + 1 = p + Len(To) /\ front \o mid \in Text
      <3>1. /\ front \o mid \in Text /\ Len(front \o mid) = Len(front) + (q - j)
        BY <2>6, ConcatProperties DEF Text
      <3>2. done \in Text /\ Len(done) = Len(front \o mid) + Len(To)
        BY <3>1, ToIs, ConcatProperties DEF Text
      <3> HIDE DEF done, mid
      <3> QED BY <1>0, <2>2, <3>1, <3>2, ToIs DEF Text
    <2>11. ReadsAll(sh, done) = At(ws, w \o SubSeq(s, 1, (q + 1) - 1), TRUE, "'")
      <3> DEFINE a == SubSeq(s, 1, j - 1)
      <3>1. a \in Text /\ w \o a \in Text /\ (w \o a) \o mid \in Text
        <4>1. j - 1 \in Nat /\ j - 1 <= Len(s) /\ 1 \in Nat \ {0}
          BY <1>0
        <4>2. a \in Text
          BY <4>1, Sub DEF Text
        <4> QED BY <2>6, <4>2, ConcatProperties DEF Text
      <3>2. ReadsAll(sh, front \o mid) = ReadsAll(At(ws, w \o a, TRUE, "'"), mid)
        <4>1. ReadsAll(sh, front \o mid) = ReadsAll(ReadsAll(sh, front), mid)
          BY <1>0, <2>6, ReadsAllConcat
        <4> QED BY <1>1, <4>1
      <3>3. \A i \in 1..Len(mid) : mid[i] # "'"
        <4>1. ASSUME NEW i \in 1..Len(mid) PROVE mid[i] # "'"
          <5>1. i \in 1..(q - j) /\ j + i - 1 \in j..(q - 1)
            BY <1>0, <2>2, <2>6
          <5> QED BY <2>4, <2>6, <5>1
        <4> QED BY <4>1
      <3>4. ReadsAll(sh, front \o mid) = At(ws, (w \o a) \o mid, TRUE, "'")
        BY <2>6, <3>1, <3>2, <3>3, ReadsQuoted
      <3>5. ReadsAll(sh, done) = ReadsAll(ReadsAll(sh, front \o mid), To)
        BY <1>0, <2>10, ToIs, ReadsAllConcat
      <3>6. ReadsAll(sh, done) = At(ws, Append((w \o a) \o mid, "'"), TRUE, "'")
        BY <3>1, <3>4, <3>5, ToIs
      <3>7. Append((w \o a) \o mid, "'") = w \o SubSeq(s, 1, q)
        <4>1. a \o mid = SubSeq(s, 1, q - 1)
          <5>1. /\ 1 \in 1..(Len(s) + 1) /\ j - 1 \in (1 - 1)..Len(s) /\ q - 1 \in (j - 1)..Len(s)
                /\ (j - 1) + 1 = j
            BY <1>0, <2>2
          <5> QED BY <5>1, ConcatAdjacentSubSeq DEF Text
        <4>2. SubSeq(s, 1, q) = SubSeq(s, 1, q - 1) \o <<"'">>
          <5>1. 1 \in 1..Len(s) /\ q \in 1..Len(s)
            BY <1>0, <2>2
          <5> QED BY <2>3, <5>1, SubSeqRecursiveSecond DEF Text
        <4>3. <<"'">> \in Text /\ SubSeq(s, 1, q - 1) \in Text /\ w \in Text
              /\ a \in Text /\ mid \in Text
          <5>1. SubSeq(s, 1, q - 1) \in Text
            BY <1>0, <2>2, Sub DEF Text
          <5> QED BY <1>0, <2>6, <3>1, <5>1 DEF Text
        <4> HIDE DEF a, mid
        <4>4. (w \o a) \o mid = w \o (a \o mid)
          BY <4>3, Assoc, ZenonT(40)
        <4>5. Append(w \o SubSeq(s, 1, q - 1), "'") = (w \o SubSeq(s, 1, q - 1)) \o <<"'">>
          <5>1. w \o SubSeq(s, 1, q - 1) \in Text
            BY <4>3, Concat
          <5> QED BY <1>0, <5>1, AppendText
        <4>6. (w \o SubSeq(s, 1, q - 1)) \o <<"'">> = w \o (SubSeq(s, 1, q - 1) \o <<"'">>)
          BY <4>3, Assoc, ZenonT(40)
        <4> QED BY <4>1, <4>2, <4>4, <4>5, <4>6
      <3>8. (q + 1) - 1 = q
        BY <2>2
      <3> QED BY <3>6, <3>7, <3>8
    <2>12. q + 1 \in 1..(Len(s) + 1) /\ q + 1 > k
      BY <1>0, <2>2, <2>5
    <2>13. QqSoFar(s, ws, w, k, [str |-> done \o SubSeq(s, q + 1, Len(s)), start |-> p + Len(To),
                                 m |-> r.m + 1])
      <3> HIDE DEF done
      <3> QED BY <2>10, <2>11, <2>12 DEF QqSoFar
    <2> QED BY <2>9, <2>13
  <1> QED BY <1>5, <1>6

\* The text between the quotes is read as what was quoted.
LEMMA ReplacedIsRead ==
  ASSUME NEW s \in Text, NEW ws \in Seq(Text), NEW w \in Text
  PROVE  /\ StrReplace(s, <<"'">>, To, 0) \in Text
         /\ ReadsAll(At(ws, w, TRUE, "'"), StrReplace(s, <<"'">>, To, 0))
              = At(ws, w \o s, TRUE, "'")
PROOF
  <1>0. Len(s) \in Nat /\ <<"'">> \in Text /\ To \in Text /\ 0 \in Nat
    BY CharFacts, ToIs, Concat, AppendText
  <1>1. PICK f \in [0..Len(s) -> Replaced] :
           /\ f[0] = [str |-> s, start |-> 1, m |-> 0]
           /\ \A k \in 1..Len(s) : f[k] = ReplaceOnce(<<"'">>, To, 0, f[k - 1])
           /\ StrReplace(s, <<"'">>, To, 0) = f[Len(s)].str
    <2>1. \E f : ReplaceRounds(f, s, <<"'">>, To, 0)
      BY <1>0, ReplaceLoop
    <2> QED BY <2>1 DEF ReplaceRounds
  <1> DEFINE S == {k \in Nat : k <= Len(s) => QqSoFar(s, ws, w, k, f[k])}
  <1>2. 0 \in S
    <2> DEFINE e == <<>>
    <2>1. /\ e \in Text /\ 1 \in 1..(Len(s) + 1) /\ SubSeq(s, 1, Len(s)) = s /\ Len(e) = 0
          /\ e \o s = s /\ SubSeq(s, 1, 1 - 1) = e /\ w \o e = w
      BY <1>0, EmptySeq, SubSeqFull, SubSeqEmpty, ConcatEmptySeq DEF Text
    <2>2. At(ws, w, TRUE, "'") \in Shell
      BY CharFacts, AtType
    <2>3. ReadsAll(At(ws, w, TRUE, "'"), e) = At(ws, w \o e, TRUE, "'")
      BY <2>1, <2>2, ReadsAllEmpty
    <2> HIDE DEF e
    <2>4. QqSoFar(s, ws, w, 0, [str |-> s, start |-> 1, m |-> 0])
      <3> DEFINE r == [str |-> s, start |-> 1, m |-> 0]
      <3>1. /\ r.str = e \o SubSeq(s, 1, Len(s)) /\ r.start = Len(e) + 1
            /\ ReadsAll(At(ws, w, TRUE, "'"), e) = At(ws, w \o SubSeq(s, 1, 1 - 1), TRUE, "'")
        <4>1. r.str = e \o SubSeq(s, 1, Len(s)) /\ r.start = Len(e) + 1
          BY <2>1
        <4>2. At(ws, w \o e, TRUE, "'") = At(ws, w \o SubSeq(s, 1, 1 - 1), TRUE, "'")
          BY <2>1
        <4> HIDE DEF r
        <4> QED BY <2>3, <4>1, <4>2
      <3> HIDE DEF r
      <3>2. QqSoFar(s, ws, w, 0, r)
        <4>1. \E front \in Text, j \in 1..(Len(s) + 1) :
                 /\ r.str = front \o SubSeq(s, j, Len(s)) /\ r.start = Len(front) + 1
                 /\ ReadsAll(At(ws, w, TRUE, "'"), front)
                      = At(ws, w \o SubSeq(s, 1, j - 1), TRUE, "'")
                 /\ j > 0
          <5>1. e \in Text /\ 1 \in 1..(Len(s) + 1)
            BY <2>1
          <5>2. 1 > 0
            OBVIOUS
          <5> USE <5>1
          <5> WITNESS e \in Text, 1 \in 1..(Len(s) + 1)
          <5> QED BY <3>1, <5>2, Zenon
        <4> QED BY <4>1 DEF QqSoFar
      <3> QED BY <3>2 DEF r
    <2> QED BY <1>1, <2>4
  <1>3. ASSUME NEW k \in Nat, k \in S PROVE k + 1 \in S
    <2>1. SUFFICES ASSUME k + 1 <= Len(s) PROVE QqSoFar(s, ws, w, k + 1, f[k + 1])
      OBVIOUS
    <2>2. k + 1 \in 1..Len(s) /\ (k + 1) - 1 = k /\ k \in 0..Len(s) /\ k <= Len(s)
      BY <1>0, <2>1
    <2>3. f[k] \in Replaced /\ f[k + 1] = ReplaceOnce(<<"'">>, To, 0, f[k])
      BY <1>1, <2>2
    <2>4. QqSoFar(s, ws, w, k, f[k])
      BY <1>3, <2>2
    <2> QED BY <2>2, <2>3, <2>4, QqRound
  <1> HIDE DEF S
  <1>4. Nat \subseteq S
    BY <1>2, <1>3, NatInd
  <1>5. QqSoFar(s, ws, w, Len(s), f[Len(s)])
    BY <1>0, <1>4 DEF S
  <1>6. PICK front \in Text, j \in 1..(Len(s) + 1) :
          /\ f[Len(s)].str = front \o SubSeq(s, j, Len(s))
          /\ ReadsAll(At(ws, w, TRUE, "'"), front) = At(ws, w \o SubSeq(s, 1, j - 1), TRUE, "'")
          /\ j > Len(s) \/ \A i \in j..Len(s) : s[i] # "'"
    BY <1>5 DEF QqSoFar
  <1> DEFINE a == SubSeq(s, 1, j - 1)
             rest == SubSeq(s, j, Len(s))
  <1>7. a \in Text /\ rest \in Text /\ \A i \in 1..Len(rest) : rest[i] # "'"
    <2>1. a \in Text
      BY <1>0, SubText
    <2>2. /\ rest \in Text /\ Len(rest) = Len(s) - j + 1
          /\ \A i \in 1..(Len(s) - j + 1) : rest[i] = s[j + i - 1]
      BY <1>0, SubText
    <2> HIDE DEF rest
    <2>3. ASSUME NEW i \in 1..Len(rest) PROVE rest[i] # "'"
      <3>1. i \in 1..(Len(s) - j + 1) /\ j + i - 1 \in j..Len(s) /\ ~(j > Len(s))
        BY <1>0, <2>2
      <3> QED BY <1>6, <2>2, <3>1
    <2> QED BY <2>1, <2>2, <2>3
  <1>8. a \o rest = s
    <2>1. /\ 1 \in 1..(Len(s) + 1) /\ j - 1 \in (1 - 1)..Len(s) /\ Len(s) \in (j - 1)..Len(s)
          /\ (j - 1) + 1 = j
      BY <1>0
    <2>2. SubSeq(s, 1, j - 1) \o SubSeq(s, (j - 1) + 1, Len(s)) = SubSeq(s, 1, Len(s))
      BY <2>1, ConcatAdjacentSubSeq DEF Text
    <2>3. SubSeq(s, 1, Len(s)) = s
      BY SubSeqFull DEF Text
    <2> QED BY <2>1, <2>2, <2>3
  <1>9. f[Len(s)].str = front \o rest /\ front \o rest \in Text
    BY <1>6, <1>7, Concat
  <1> HIDE DEF a, rest
  <1>10. At(ws, w, TRUE, "'") \in Shell /\ w \o a \in Text
    BY <1>7, CharFacts, AtType, Concat
  <1>11. ReadsAll(At(ws, w, TRUE, "'"), front \o rest)
           = ReadsAll(ReadsAll(At(ws, w, TRUE, "'"), front), rest)
    BY <1>7, <1>10, ReadsAllConcat
  <1>12. ReadsAll(At(ws, w, TRUE, "'"), front) = At(ws, w \o a, TRUE, "'")
    BY <1>6 DEF a
  <1>13. ReadsAll(At(ws, w \o a, TRUE, "'"), rest) = At(ws, (w \o a) \o rest, TRUE, "'")
    BY <1>7, <1>10, ReadsQuoted
  <1>14. (w \o a) \o rest = w \o s
    BY <1>7, <1>8, Assoc, ZenonT(40)
  <1> QED BY <1>1, <1>9, <1>11, <1>12, <1>13, <1>14

LEMMA QqIsRead ==
  ASSUME NEW s \in Text, NEW ws \in Seq(Text), NEW w \in Text, NEW o \in BOOLEAN
  PROVE  /\ Qq(s) \in Text
         /\ ReadsAll(At(ws, w, o, "no"), Qq(s)) = At(ws, w \o s, TRUE, "no")
PROOF
  <1> DEFINE x == StrReplace(s, <<"'">>, To, 0)
             q == <<"'">>
             sh == At(ws, w, o, "no")
  <1>0. /\ "'" \in Char /\ q \in Text /\ sh \in Shell /\ x \in Text /\ w \o s \in Text
        /\ "'" # "no"
    BY CharFacts, AtType, ReplacedIsRead, AppendText, Concat
  <1>1. Qq(s) = (q \o x) \o q
    BY DEF Qq, To
  <1>2. \A sh1 \in Shell : ReadsAll(sh1, q) = Reads(sh1, "'")
    <2>1. <<>> \in Text /\ Append(<<>>, "'") = q
      BY EmptySeq DEF Text
    <2> HIDE DEF q
    <2>2. ASSUME NEW sh1 \in Shell PROVE ReadsAll(sh1, q) = Reads(sh1, "'")
      <3>1. ReadsAll(sh1, Append(<<>>, "'")) = Reads(ReadsAll(sh1, <<>>), "'")
        BY <1>0, <2>1, ReadsAllAppend
      <3> QED BY <2>1, <3>1, ReadsAllEmpty
    <2> QED BY <2>2
  <1> HIDE DEF x, q
  <1>3. q \o x \in Text /\ (q \o x) \o q \in Text
    BY <1>0, Concat
  <1>4. ReadsAll(sh, (q \o x) \o q) = ReadsAll(ReadsAll(sh, q \o x), q)
    BY <1>0, <1>3, ReadsAllConcat
  <1>5. ReadsAll(sh, q \o x) = ReadsAll(ReadsAll(sh, q), x)
    BY <1>0, ReadsAllConcat
  <1>6. ReadsAll(sh, q) = At(ws, w, TRUE, "'")
    <2>1. Reads(sh, "'") = At(ws, w, TRUE, "'")
      BY CharFacts DEF Reads, ReadsBare, At
    <2> QED BY <1>0, <1>2, <2>1
  <1>7. ReadsAll(At(ws, w, TRUE, "'"), x) = At(ws, w \o s, TRUE, "'")
    BY ReplacedIsRead DEF x
  <1>8. ReadsAll(At(ws, w \o s, TRUE, "'"), q) = At(ws, w \o s, TRUE, "no")
    <2>1. At(ws, w \o s, TRUE, "'") \in Shell
      BY <1>0, AtType
    <2>2. Reads(At(ws, w \o s, TRUE, "'"), "'") = At(ws, w \o s, TRUE, "no")
      BY DEF Reads, At
    <2> QED BY <1>2, <2>1, <2>2
  <1> QED BY <1>1, <1>3, <1>4, <1>5, <1>6, <1>7, <1>8

\* Of a command that ends in a word, the shell makes the words before it and it.
LEMMA WordsAt ==
  ASSUME NEW cmd, NEW ws \in Seq(Text), NEW w \in Text,
         ReadsAll(Sh, cmd) = At(ws, w, TRUE, "no")
  PROVE  Words(cmd) = Append(ws, w)
  BY DEF Words, Ended, At

LEMMA TextsOfStrings == Seq(STRING) \subseteq Text /\ Seq(Seq(STRING)) \subseteq Seq(Text)
PROOF
  <1>1. STRING \subseteq Char
    BY DEF Char
  <1>2. Seq(STRING) \subseteq Text
    BY <1>1, SeqMonotonic DEF Text
  <1>3. Seq(Seq(STRING)) \subseteq Seq(Text)
    BY <1>2, SeqMonotonic
  <1> QED BY <1>2, <1>3

\* qq() makes any text safe for a shell: it is one word, and as it was.
THEOREM QqSafeForAll == \A s \in Seq(STRING) : QqSafe(s)
PROOF
  <1>1. ASSUME NEW s \in Text PROVE QqSafe(s)
    <2> DEFINE e == <<>>
    <2>1. e \in Seq(Text) /\ e \in Text /\ Sh = At(e, e, FALSE, "no") /\ e \o s = s
      BY EmptySeq, ConcatEmptySeq DEF Sh, At, Text
    <2>2. Append(e, s) = <<s>>
      OBVIOUS
    <2> HIDE DEF e
    <2>3. ReadsAll(Sh, Qq(s)) = At(e, s, TRUE, "no")
      <3>1. ReadsAll(At(e, e, FALSE, "no"), Qq(s)) = At(e, e \o s, TRUE, "no")
        BY <2>1, QqIsRead
      <3> QED BY <2>1, <3>1
    <2> QED BY <2>1, <2>2, <2>3, WordsAt DEF QqSafe
  <1> QED BY <1>1, TextsOfStrings

LEMMA NeedsQqFacts ==
  Blank \subseteq NeedsQq /\ Breaks \subseteq NeedsQq /\ "'" \in NeedsQq /\ "\\" \in NeedsQq
PROOF
  <1>1. Blank \subseteq NeedsQq
    BY Zenon DEF Blank, NeedsQq
  <1>2. Breaks \subseteq NeedsQq
    BY Zenon DEF Breaks, NeedsQq
  <1>3. "'" \in NeedsQq /\ "\\" \in NeedsQq
    BY Zenon DEF NeedsQq
  <1> QED BY <1>1, <1>2, <1>3

\* An argument that qqif() quotes, or need not quote, is one word.
LEMMA QqIfIsRead ==
  ASSUME NEW s \in Text, s # <<>>, Quotable(s), NEW ws \in Seq(Text)
  PROVE  /\ QqIf(s) \in Text
         /\ ReadsAll(At(ws, <<>>, FALSE, "no"), QqIf(s)) = At(ws, s, TRUE, "no")
PROOF
  <1> DEFINE e == <<>>
  <1>1. e \in Text /\ e \o s = s /\ s # e /\ DOMAIN s = 1..Len(s)
    BY EmptySeq, ConcatEmptySeq, LenProperties DEF Text
  <1> HIDE DEF e
  <1>2. CASE \E i \in DOMAIN s : s[i] \in NeedsQq
    <2>1. QqIf(s) = Qq(s)
      BY <1>2 DEF QqIf
    <2>2. Qq(s) \in Text /\ ReadsAll(At(ws, e, FALSE, "no"), Qq(s)) = At(ws, e \o s, TRUE, "no")
      BY <1>1, QqIsRead
    <2> QED BY <1>1, <2>1, <2>2 DEF e
  <1>3. CASE ~\E i \in DOMAIN s : s[i] \in NeedsQq
    <2>1. QqIf(s) = s
      BY <1>3 DEF QqIf
    <2>2. \A i \in 1..Len(s) : Plain(s[i])
      BY <1>1, <1>3, NeedsQqFacts DEF Quotable, Plain
    <2>3. ReadsAll(At(ws, e, FALSE, "no"), s) = At(ws, e \o s, FALSE \/ s # <<>>, "no")
      BY <1>1, <2>2, ReadsPlain
    <2>4. (FALSE \/ s # <<>>) = TRUE
      BY <1>1 DEF e
    <2> QED BY <1>1, <2>1, <2>3, <2>4 DEF e
  <1> QED BY <1>2, <1>3

LEMMA TrimC == Trim(<<"c">>) = <<"c">>
PROOF
  <1> DEFINE s == <<"c">>
             kept == {i \in DOMAIN s : s[i] \notin Space}
  <1>1. "c" \notin Space
    BY Zenon DEF Space, Blank, SP, NL
  <1>2. DOMAIN s = {1} /\ s[1] = "c" /\ s \in Seq({"c"}) /\ Len(s) = 1
    OBVIOUS
  <1>3. kept = {1}
    BY <1>1, <1>2
  <1>4. /\ (CHOOSE i \in {1} : \A j \in {1} : i <= j) = 1
        /\ (CHOOSE i \in {1} : \A j \in {1} : i >= j) = 1
    OBVIOUS
  <1>5. Trim(s) = SubSeq(s, 1, 1)
    <2> HIDE DEF s
    <2> DEFINE low == CHOOSE i \in kept : \A j \in kept : i <= j
               high == CHOOSE i \in kept : \A j \in kept : i >= j
    <2>1. Trim(s) = IF kept = {} THEN <<>> ELSE SubSeq(s, low, high)
      BY Zenon DEF Trim, TrimOf
    <2>2. low = 1 /\ high = 1 /\ kept # {}
      <3> HIDE DEF kept
      <3> QED BY <1>3, <1>4
    <2> HIDE DEF low, high, kept
    <2> QED BY <2>1, <2>2
  <1>6. SubSeq(s, 1, 1) = s
    <2> HIDE DEF s
    <2> QED BY <1>2, SubSeqFull
  <1> QED BY <1>5, <1>6

\* The command with the first arguments, argument by argument.
CommandRounds(f, args) ==
  /\ f \in [0..Len(args) -> Text]
  /\ f[0] = <<"c">>
  /\ \A k \in 1..Len(args) : f[k] = (f[k - 1] \o <<SP>>) \o QqIf(args[k])
  /\ Command(<<"c">>, args) = f[Len(args)]

LEMMA CommandLoop ==
  ASSUME NEW args \in Seq(Text), \A a \in 1..Len(args) : Holds(args[a]) /\ Quotable(args[a])
  PROVE  \E f : CommandRounds(f, args)
PROOF
  <1> DEFINE c == <<"c">>
             Loop(f) == f = [k \in 0..Len(args) |->
                              IF k = 0 THEN Trim(<<"c">>)
                              ELSE f[k - 1] \o <<SP>> \o QqIf(HeaderValue(args[k]))]
             step == [x \in (1..Len(args)) \X Text |-> (x[2] \o <<SP>>) \o QqIf(args[x[1]])]
  <1>1. Len(args) \in Nat /\ c \in Text /\ <<SP>> \in Text
    BY CharFacts, LenProperties, AppendText DEF Text
  <1>2. ASSUME NEW k \in 1..Len(args)
        PROVE  QqIf(args[k]) \in Text /\ HeaderValue(args[k]) = args[k]
    <2>1. args[k] \in Text /\ args[k] # <<>> /\ Quotable(args[k])
      BY ElementOfSeq DEF Holds
    <2>2. <<>> \in Seq(Text)
      BY EmptySeq
    <2>3. QqIf(args[k]) \in Text
      BY <2>1, <2>2, QqIfIsRead
    <2> QED BY <2>3 DEF Holds
  <1>3. step \in [(1..Len(args)) \X Text -> Text]
    <2>1. ASSUME NEW k \in 1..Len(args), NEW t \in Text
          PROVE  (t \o <<SP>>) \o QqIf(args[k]) \in Text
      BY <1>1, <1>2, Concat
    <2> QED BY <2>1
  <1>4. PICK f \in [0..Len(args) -> Text] :
               f[0] = c /\ \A k \in 1..Len(args) : f[k] = step[<<k, f[k - 1]>>]
    <2> HIDE DEF step, c
    <2>1. \E f : History(f, Len(args), Text, c, step)
      BY <1>1, <1>3, Iterates
    <2> QED BY <2>1 DEF History
  <1>5. ASSUME NEW k \in 1..Len(args) PROVE f[k] = (f[k - 1] \o <<SP>>) \o QqIf(args[k])
    <2>1. k - 1 \in 0..Len(args)
      BY <1>1
    <2>2. <<k, f[k - 1]>> \in (1..Len(args)) \X Text
      BY <1>4, <2>1
    <2> QED BY <1>4, <2>2
  <1>6. Loop(f)
    <2>1. 0 \in 0..Len(args) /\ \A k \in 0..Len(args) : k # 0 => k \in 1..Len(args)
      BY <1>1
    <2>2. f[0] = Trim(<<"c">>)
      BY <1>4, TrimC
    <2>3. \A k \in 0..Len(args) :
            f[k] = IF k = 0 THEN Trim(<<"c">>)
                   ELSE f[k - 1] \o <<SP>> \o QqIf(HeaderValue(args[k]))
      BY <1>2, <1>5, <2>1, <2>2
    <2>4. f = [k \in 0..Len(args) |-> f[k]]
      BY <1>4
    <2> QED BY <2>3, <2>4
  <1> DEFINE at == CHOOSE g : Loop(g)
  <1>7. Loop(at)
    <2> HIDE DEF Loop
    <2> QED BY <1>6
  <1>8. Command(<<"c">>, args) = at[Len(args)]
    BY DEF Command
  <1> HIDE DEF at
  <1>9. /\ at[0] = c
        /\ \A k \in 1..Len(args) : at[k] = (at[k - 1] \o <<SP>>) \o QqIf(args[k])
    <2> DEFINE n == Len(args)
               to(k) == IF k = 0 THEN Trim(<<"c">>)
                        ELSE at[k - 1] \o <<SP>> \o QqIf(HeaderValue(args[k]))
    <2>1. at = [k \in 0..n |-> to(k)]
      BY <1>7
    <2> HIDE DEF to, n
    <2>2. \A k \in 0..n : at[k] = to(k)
      BY <2>1
    <2>3. n \in Nat
      BY <1>1 DEF n
    <2>4. at[0] = c
      <3>1. to(0) = Trim(<<"c">>)
        BY DEF to
      <3> QED BY <2>2, <2>3, <3>1, TrimC
    <2>5. ASSUME NEW k \in 1..n
          PROVE  at[k] = (at[k - 1] \o <<SP>>) \o QqIf(args[k])
      <3>1. k \in 0..n /\ k # 0
        BY <2>3
      <3>2. to(k) = at[k - 1] \o <<SP>> \o QqIf(HeaderValue(args[k]))
        BY <3>1, Zenon DEF to
      <3>3. HeaderValue(args[k]) = args[k]
        BY <1>2 DEF n
      <3> QED BY <2>2, <3>1, <3>2, <3>3, Zenon
    <2> QED BY <2>4, <2>5 DEF n
  <1>10. \A k \in 0..Len(args) : at[k] = f[k]
    <2>1. Together(at, f, Len(args))
      BY <1>4, <1>5, <1>9 DEF Together
    <2> QED BY <1>1, <2>1, SameHistory
  <1>11. Command(<<"c">>, args) = f[Len(args)]
    BY <1>1, <1>8, <1>10
  <1> QED BY <1>4, <1>5, <1>11 DEF CommandRounds

LEMMA TextLists ==
  /\ <<>> \in Seq(Text) /\ \A t \in Text : <<t>> \in Seq(Text) /\ Append(<<>>, t) = <<t>>
  /\ \A a \in Seq(Text) : a \o <<>> = a /\ <<>> \o a = a
  /\ \A a, b, d \in Seq(Text) : (a \o b) \o d = a \o (b \o d)
PROOF
  <1>1. <<>> \in Seq(Text) /\ \A t \in Text : <<t>> \in Seq(Text) /\ Append(<<>>, t) = <<t>>
    OBVIOUS
  <1>2. \A a \in Seq(Text) : a \o <<>> = a /\ <<>> \o a = a
    BY ConcatEmptySeq
  <1>3. \A a, b, d \in Seq(Text) : (a \o b) \o d = a \o (b \o d)
    BY ConcatAssociative
  <1> QED BY <1>1, <1>2, <1>3

\* A blank ends the word, and another may begin.
LEMMA BlankIsRead ==
  ASSUME NEW ws \in Seq(Text), NEW w \in Text
  PROVE  ReadsAll(At(ws, w, TRUE, "no"), <<SP>>) = At(Append(ws, w), <<>>, FALSE, "no")
PROOF
  <1> DEFINE sh == At(ws, w, TRUE, "no")
             e == <<>>
             b == <<SP>>
  <1>1. sh \in Shell /\ SP \in Char
    BY CharFacts, AtType
  <1>2. b = Append(e, SP) /\ e \in Text
    BY EmptySeq DEF Text
  <1>3. ReadsAll(sh, b) = Reads(sh, SP)
    <2> HIDE DEF b, sh, e
    <2>1. ReadsAll(sh, Append(e, SP)) = Reads(ReadsAll(sh, e), SP)
      BY <1>1, <1>2, ReadsAllAppend
    <2>2. ReadsAll(sh, e) = sh
      BY <1>1, ReadsAllEmpty DEF e
    <2> QED BY <1>2, <2>1, <2>2
  <1>4. Reads(sh, SP) = ReadsBare(sh, SP)
    BY DEF Reads, At
  <1>5. ReadsBare(sh, SP) = Ended(sh)
    <2>1. SP \notin {"$", "~"} /\ SP \notin {"'", DQ, "\\"} /\ SP \in Blank
      BY CharFacts
    <2>2. SP \notin Breaks
      BY Zenon DEF SP, Breaks, NL
    <2> HIDE DEF sh
    <2> QED BY <2>1, <2>2 DEF ReadsBare
  <1>6. Ended(sh) = At(Append(ws, w), <<>>, FALSE, "no")
    BY DEF Ended, At
  <1> QED BY <1>3, <1>4, <1>5, <1>6

\* The words of the command with the first k arguments.
WordsSoFar(args, k, cmd) ==
  \E ws \in Seq(Text), w \in Text :
    /\ ReadsAll(Sh, cmd) = At(ws, w, TRUE, "no")
    /\ Append(ws, w) = <<<<"c">>>> \o SubSeq(args, 1, k)

LEMMA CommandStart ==
  ASSUME NEW args \in Seq(Text)
  PROVE  WordsSoFar(args, 0, <<"c">>)
PROOF
  <1> DEFINE c == <<"c">>
             e == <<>>
  <1>1. c \in Text /\ c # <<>>
    BY CharFacts, AppendText, EmptySeq DEF Text
  <1>2. e \in Text /\ e \in Seq(Text) /\ e \o c = c
    BY <1>1, EmptySeq, ConcatEmptySeq DEF Text
  <1>3. Sh = At(e, e, FALSE, "no")
    BY DEF Sh, At
  <1>4. \A i \in 1..Len(c) : Plain(c[i])
    <2>1. "c" \notin {"'", "\\", "$", "~"} /\ "c" \notin Blank /\ "c" \notin Breaks
      BY CharFacts
    <2>2. "c" # DQ
      BY Zenon DEF DQ
    <2> QED BY <2>1, <2>2 DEF Plain
  <1> HIDE DEF c, e
  <1>5. ReadsAll(At(e, e, FALSE, "no"), c) = At(e, e \o c, FALSE \/ c # <<>>, "no")
    BY <1>1, <1>2, <1>4, ReadsPlain
  <1>6. ReadsAll(Sh, c) = At(e, c, TRUE, "no")
    BY <1>1, <1>2, <1>3, <1>5
  <1>7. SubSeq(args, 1, 0) = <<>>
    BY SubEmpty
  <1>8. Append(e, c) = <<c>> \o <<>>
    BY <1>1, TextLists DEF e
  <1>9. Append(e, c) = <<c>> \o SubSeq(args, 1, 0)
    BY <1>7, <1>8
  <1>10. WordsSoFar(args, 0, c)
    BY <1>1, <1>2, <1>6, <1>9 DEF WordsSoFar, c
  <1> QED BY <1>10 DEF c

LEMMA CommandRound ==
  ASSUME NEW args \in Seq(Text), NEW k \in Nat, k + 1 <= Len(args),
         args[k + 1] # <<>>, Quotable(args[k + 1]),
         NEW cmd \in Text, WordsSoFar(args, k, cmd)
  PROVE  WordsSoFar(args, k + 1, (cmd \o <<SP>>) \o QqIf(args[k + 1]))
PROOF
  <1> DEFINE c == <<"c">>
             arg == args[k + 1]
             b == <<SP>>
             q == QqIf(arg)
             first == SubSeq(args, 1, k)
  <1>0. Len(args) \in Nat /\ k + 1 \in 1..Len(args) /\ (k + 1) - 1 = k
    BY LenProperties
  <1>1. PICK ws \in Seq(Text), w \in Text :
          /\ ReadsAll(Sh, cmd) = At(ws, w, TRUE, "no")
          /\ Append(ws, w) = <<c>> \o first
    BY DEF WordsSoFar
  <1>2. arg \in Text /\ Append(ws, w) \in Seq(Text)
    BY <1>0, ElementOfSeq, AppendProperties
  <1>3. /\ q \in Text
        /\ ReadsAll(At(Append(ws, w), <<>>, FALSE, "no"), q) = At(Append(ws, w), arg, TRUE, "no")
    <2> HIDE DEF arg
    <2> QED BY <1>2, QqIfIsRead DEF arg
  <1>4. b \in Text /\ c \in Text
    BY CharFacts, AppendText, EmptySeq DEF Text
  <1>5. Sh \in Shell
    <2>1. Sh = At(<<>>, <<>>, FALSE, "no")
      BY DEF Sh, At
    <2>2. <<>> \in Text /\ <<>> \in Seq(Text)
      BY EmptySeq DEF Text
    <2> QED BY <2>1, <2>2, CharFacts, AtType
  <1>6. ReadsAll(At(ws, w, TRUE, "no"), b) = At(Append(ws, w), <<>>, FALSE, "no")
    BY BlankIsRead
  <1>7. SubSeq(args, 1, k + 1) = first \o <<arg>>
    <2>1. 1 \in 1..Len(args)
      BY <1>0
    <2> QED BY <1>0, <2>1, SubSeqRecursiveSecond
  <1>8. first \in Seq(Text) /\ <<arg>> \in Seq(Text) /\ <<c>> \in Seq(Text)
    BY <1>0, <1>2, <1>4, Sub, TextLists
  <1> HIDE DEF arg, b, q, c, first
  <1>9. ReadsAll(Sh, (cmd \o b) \o q) = At(Append(ws, w), arg, TRUE, "no")
    <2>1. cmd \o b \in Text
      BY <1>4, Concat
    <2>2. ReadsAll(Sh, (cmd \o b) \o q) = ReadsAll(ReadsAll(Sh, cmd \o b), q)
      BY <1>3, <1>5, <2>1, ReadsAllConcat
    <2>3. ReadsAll(Sh, cmd \o b) = ReadsAll(ReadsAll(Sh, cmd), b)
      BY <1>4, <1>5, ReadsAllConcat
    <2> QED BY <1>1, <1>3, <1>6, <2>2, <2>3
  <1>10. Append(Append(ws, w), arg) = <<c>> \o SubSeq(args, 1, k + 1)
    <2>1. Append(Append(ws, w), arg) = Append(ws, w) \o <<arg>>
      BY <1>2, AppendIsConcat
    <2>2. (<<c>> \o first) \o <<arg>> = <<c>> \o (first \o <<arg>>)
      BY <1>8, TextLists
    <2> QED BY <1>1, <1>7, <2>1, <2>2
  <1>11. WordsSoFar(args, k + 1, (cmd \o b) \o q)
    <2> DEFINE v == Append(ws, w)
    <2>1. v \in Seq(Text) /\ ReadsAll(Sh, (cmd \o b) \o q) = At(v, arg, TRUE, "no")
          /\ Append(v, arg) = <<c>> \o SubSeq(args, 1, k + 1)
      BY <1>2, <1>9, <1>10
    <2> HIDE DEF v
    <2> QED BY <1>2, <2>1 DEF WordsSoFar, c
  <1> QED BY <1>11 DEF b, q, arg

LEMMA ArgsAreRead ==
  ASSUME NEW args \in Seq(Text)
  PROVE  ArgsKept(args)
PROOF
  <1>0. Len(args) \in Nat /\ DOMAIN args = 1..Len(args)
    BY LenProperties
  <1>1. SUFFICES ASSUME \A a \in 1..Len(args) : Holds(args[a]) /\ Quotable(args[a])
                 PROVE  Words(Command(<<"c">>, args)) = <<<<"c">>>> \o args
    BY <1>0 DEF ArgsKept
  <1>2. PICK f : CommandRounds(f, args)
    BY <1>1, CommandLoop
  <1>3. /\ f \in [0..Len(args) -> Text] /\ f[0] = <<"c">>
        /\ \A k \in 1..Len(args) : f[k] = (f[k - 1] \o <<SP>>) \o QqIf(args[k])
        /\ Command(<<"c">>, args) = f[Len(args)]
    BY <1>2 DEF CommandRounds
  <1> DEFINE S == {k \in Nat : k <= Len(args) => WordsSoFar(args, k, f[k])}
  <1>4. 0 \in S
    BY <1>3, CommandStart
  <1>5. ASSUME NEW k \in Nat, k \in S PROVE k + 1 \in S
    <2>1. CASE k + 1 <= Len(args)
      <3>1. k + 1 \in 1..Len(args) /\ (k + 1) - 1 = k /\ k \in 0..Len(args) /\ k <= Len(args)
        BY <1>0, <2>1
      <3>2. f[k] \in Text /\ WordsSoFar(args, k, f[k])
        BY <1>3, <1>5, <3>1
      <3>3. args[k + 1] # <<>> /\ Quotable(args[k + 1])
        BY <1>1, <3>1 DEF Holds
      <3>4. WordsSoFar(args, k + 1, (f[k] \o <<SP>>) \o QqIf(args[k + 1]))
        BY <2>1, <3>2, <3>3, CommandRound
      <3>5. f[k + 1] = (f[k] \o <<SP>>) \o QqIf(args[k + 1])
        BY <1>3, <3>1
      <3>6. WordsSoFar(args, k + 1, f[k + 1])
        BY <3>4, <3>5, Zenon
      <3> QED BY <3>6
    <2>2. CASE ~(k + 1 <= Len(args))
      BY <2>2
    <2> QED BY <2>1, <2>2
  <1> HIDE DEF S
  <1>6. Nat \subseteq S
    BY <1>4, <1>5, NatInd
  <1>7. Len(args) \in S
    BY <1>0, <1>6
  <1>8. WordsSoFar(args, Len(args), f[Len(args)])
    BY <1>0, <1>7 DEF S
  <1>9. PICK ws \in Seq(Text), w \in Text :
          /\ ReadsAll(Sh, f[Len(args)]) = At(ws, w, TRUE, "no")
          /\ Append(ws, w) = <<<<"c">>>> \o SubSeq(args, 1, Len(args))
    BY <1>8 DEF WordsSoFar
  <1>10. SubSeq(args, 1, Len(args)) = args
    BY SubSeqFull
  <1> QED BY <1>3, <1>9, <1>10, WordsAt
-----------------------------------------------------------------------------
(* Splitting and joining *)

\* The rounds of join().
JoinRounds(f, list, d) ==
  /\ f \in [0..Len(list) -> Text]
  /\ f[0] = <<>>
  /\ \A k \in 1..Len(list) :
       f[k] = (f[k - 1] \o (IF k > 1 THEN d ELSE <<>>)) \o list[k]
  /\ Join(list, d) = f[Len(list)]

LEMMA JoinLoop ==
  ASSUME NEW list \in Seq(Text), NEW d \in Text
  PROVE  \E f : JoinRounds(f, list, d)
PROOF
  <1> DEFINE e == <<>>
             Loop(f) == f = [i \in 0..Len(list) |->
                              IF i = 0 THEN <<>>
                              ELSE f[i - 1] \o (IF i > 1 THEN d ELSE <<>>) \o list[i]]
             step == [x \in (1..Len(list)) \X Text |->
                        (x[2] \o (IF x[1] > 1 THEN d ELSE <<>>)) \o list[x[1]]]
  <1>1. Len(list) \in Nat /\ e \in Text
    BY LenProperties, EmptySeq DEF Text
  <1>2. step \in [(1..Len(list)) \X Text -> Text]
    <2>1. ASSUME NEW k \in 1..Len(list), NEW t \in Text
          PROVE  (t \o (IF k > 1 THEN d ELSE <<>>)) \o list[k] \in Text
      <3>1. list[k] \in Text
        BY ElementOfSeq
      <3>2. (IF k > 1 THEN d ELSE <<>>) \in Text
        BY <1>1
      <3>3. t \o (IF k > 1 THEN d ELSE <<>>) \in Text
        BY <3>2, Concat
      <3> QED BY <3>1, <3>3, Concat
    <2> QED BY <2>1
  <1>3. PICK f \in [0..Len(list) -> Text] :
               f[0] = e /\ \A k \in 1..Len(list) : f[k] = step[<<k, f[k - 1]>>]
    <2> HIDE DEF step, e
    <2>1. \E f : History(f, Len(list), Text, e, step)
      BY <1>1, <1>2, Iterates
    <2> QED BY <2>1 DEF History
  <1>4. ASSUME NEW k \in 1..Len(list)
        PROVE  f[k] = (f[k - 1] \o (IF k > 1 THEN d ELSE <<>>)) \o list[k]
    <2>1. k - 1 \in 0..Len(list)
      BY <1>1
    <2>2. <<k, f[k - 1]>> \in (1..Len(list)) \X Text
      BY <1>3, <2>1
    <2> QED BY <1>3, <2>2
  <1>5. Loop(f)
    BY <1>1, <1>3, <1>4
  <1> DEFINE at == CHOOSE g : Loop(g)
  <1>6. Loop(at)
    <2> HIDE DEF Loop
    <2> QED BY <1>5
  <1>7. Join(list, d) = at[Len(list)]
    BY DEF Join
  <1> HIDE DEF at
  <1>8. /\ at[0] = e
        /\ \A k \in 1..Len(list) :
             at[k] = (at[k - 1] \o (IF k > 1 THEN d ELSE <<>>)) \o list[k]
    BY <1>1, <1>6
  <1>9. \A k \in 0..Len(list) : at[k] = f[k]
    <2>1. Together(at, f, Len(list))
      BY <1>3, <1>4, <1>8 DEF Together
    <2> QED BY <1>1, <2>1, SameHistory
  <1>10. Join(list, d) = f[Len(list)]
    BY <1>1, <1>7, <1>9
  <1> QED BY <1>3, <1>4, <1>10 DEF JoinRounds

\* One more part to join.
LEMMA JoinAppend ==
  ASSUME NEW list \in Seq(Text), NEW x \in Text, NEW d \in Text
  PROVE  /\ Join(list, d) \in Text
         /\ list = <<>> => Join(Append(list, x), d) = x
         /\ list # <<>> => Join(Append(list, x), d) = (Join(list, d) \o d) \o x
PROOF
  <1> DEFINE more == Append(list, x)
  <1>1. /\ more \in Seq(Text) /\ Len(list) \in Nat /\ Len(more) = Len(list) + 1
        /\ \A k \in 1..Len(list) : more[k] = list[k]
        /\ more[Len(list) + 1] = x
    BY AppendProperties, LenProperties
  <1> HIDE DEF more
  <1>2. PICK f : JoinRounds(f, list, d)
    BY JoinLoop
  <1>3. PICK g : JoinRounds(g, more, d)
    BY <1>1, JoinLoop
  <1>4. f[Len(list)] \in Text /\ Join(list, d) = f[Len(list)]
    BY <1>1, <1>2 DEF JoinRounds
  <1>5. g[Len(list)] = f[Len(list)]
    <2>1. f[0] = <<>> /\ g[0] = <<>>
      BY <1>2, <1>3 DEF JoinRounds
    <2>2. ASSUME NEW k \in 1..Len(list), g[k - 1] = f[k - 1] PROVE g[k] = f[k]
      <3>1. k \in 1..Len(more)
        BY <1>1
      <3>2. g[k] = (g[k - 1] \o (IF k > 1 THEN d ELSE <<>>)) \o more[k]
        BY <1>3, <3>1 DEF JoinRounds
      <3>3. f[k] = (f[k - 1] \o (IF k > 1 THEN d ELSE <<>>)) \o list[k]
        BY <1>2 DEF JoinRounds
      <3>4. more[k] = list[k]
        BY <1>1
      <3> QED BY <2>2, <3>2, <3>3, <3>4, Zenon
    <2>3. Together(g, f, Len(list))
      BY <2>1, <2>2 DEF Together
    <2>4. \A k \in 0..Len(list) : g[k] = f[k]
      BY <1>1, <2>3, SameHistory
    <2> QED BY <1>1, <2>4
  <1>6. Join(more, d) = (f[Len(list)] \o (IF Len(list) + 1 > 1 THEN d ELSE <<>>)) \o x
    <2>1. Len(list) + 1 \in 1..Len(more) /\ (Len(list) + 1) - 1 = Len(list)
      BY <1>1
    <2>2. Join(more, d) = g[Len(list) + 1]
      BY <1>1, <1>3 DEF JoinRounds
    <2>3. g[Len(list) + 1]
            = (g[(Len(list) + 1) - 1] \o (IF Len(list) + 1 > 1 THEN d ELSE <<>>))
                \o more[Len(list) + 1]
      BY <1>3, <2>1 DEF JoinRounds
    <2> QED BY <1>1, <1>5, <2>1, <2>2, <2>3
  <1>7. CASE list = <<>>
    <2> DEFINE e == <<>>
    <2>1. Len(list) = 0 /\ e \in Text
      BY <1>7, EmptySeq DEF Text
    <2>2. f[Len(list)] = e
      BY <1>2, <2>1 DEF JoinRounds
    <2>3. ~(Len(list) + 1 > 1) /\ e \o e = e /\ e \o x = x
      BY <2>1, ConcatEmptySeq DEF Text
    <2>4. (IF Len(list) + 1 > 1 THEN d ELSE <<>>) = e
      BY <2>3
    <2> HIDE DEF e
    <2>5. Join(more, d) = x
      BY <1>6, <2>2, <2>3, <2>4
    <2> QED BY <1>4, <1>7, <2>5 DEF more
  <1>8. CASE list # <<>>
    <2>1. Len(list) + 1 > 1
      BY <1>1, <1>8, EmptySeq
    <2>2. (IF Len(list) + 1 > 1 THEN d ELSE <<>>) = d
      BY <2>1
    <2>3. Join(more, d) = (Join(list, d) \o d) \o x
      BY <1>4, <1>6, <2>2
    <2> QED BY <1>4, <1>8, <2>3 DEF more
  <1> QED BY <1>7, <1>8

\* The parts that are cut off, and where the rest begins.
Parted == [ret : Seq(Text), b : Nat \ {0}]

\* What is true of them after k rounds: the parts and their separators are all
\* that lies before the rest; no separator is in a part; the first part is a
\* head of it all; and a round is not lost, unless there is no separator left
\* or the limit is reached.
SplitSoFar(s, d, parts, k, sp) ==
  /\ sp \in Parted /\ sp.b <= Len(s) + 1
  /\ IF sp.ret = <<>> THEN sp.b = 1
                      ELSE Join(sp.ret, d) \o d = SubSeq(s, 1, sp.b - 1)
  /\ \A i \in 1..Len(sp.ret) : Find(sp.ret[i], d, 1) = 0
  /\ sp.ret # <<>> => \E n \in 0..Len(s) : sp.ret[1] = SubSeq(s, 1, n)
  /\ parts = 0 => sp.b > k \/ Find(s, d, sp.b) = 0
  /\ parts = 2 => Len(sp.ret) <= 1

\* No separator from b on, and none before e, seen from the part between them.
LEMMA NoneInside ==
  ASSUME NEW s \in Text, NEW d \in Text, d # <<>>, NEW b \in Nat \ {0}, NEW e \in Nat,
         b <= e + 1, e <= Len(s),
         \A i \in b..(e + 1 - Len(d)) : SubSeq(s, i, i + Len(d) - 1) # d
  PROVE  SubSeq(s, b, e) \in Text /\ Find(SubSeq(s, b, e), d, 1) = 0
PROOF
  <1> DEFINE t == SubSeq(s, b, e)
  <1>0. Len(s) \in Nat /\ Len(d) \in Nat /\ Len(d) # 0
    BY LenProperties, EmptySeq DEF Text
  <1>1. t \in Text /\ Len(t) = e - b + 1
    BY <1>0, SubText
  <1>2. ASSUME NEW i \in 1..(Len(t) + 1 - Len(d)) PROVE SubSeq(t, i, i + Len(d) - 1) # d
    <2> DEFINE n == i + Len(d) - 1
    <2>1. n \in Nat /\ b + n - 1 <= e /\ i \in Nat \ {0} /\ b + i - 1 \in b..(e + 1 - Len(d))
          /\ b + n - 1 = (b + i - 1) + Len(d) - 1
      BY <1>0, <1>1
    <2> HIDE DEF n
    <2>2. SubSeq(t, i, n) = SubSeq(s, b + i - 1, b + n - 1)
      BY <2>1, SubSub DEF Text
    <2>3. SubSeq(s, b + i - 1, (b + i - 1) + Len(d) - 1) # d
      BY <2>1
    <2> QED BY <2>1, <2>2, <2>3 DEF n
  <1> HIDE DEF t
  <1>3. Find(t, d, 1) = 0
    <2>1. \/ Find(t, d, 1) = 0
          \/ /\ Find(t, d, 1) \in 1..(Len(t) + 1 - Len(d))
             /\ SubSeq(t, Find(t, d, 1), Find(t, d, 1) + Len(d) - 1) = d
      BY <1>1, FindFirst
    <2> QED BY <1>2, <2>1
  <1> QED BY <1>1, <1>3 DEF t

LEMMA NoneOfOne == \A n \in Nat : (n # 1 \/ n = 0) /\ n <= 1 => n = 0
  OBVIOUS

\* The next part, if there is one.
LEMMA SplitOnceIs ==
  ASSUME NEW s \in Text, NEW d \in Text, d # <<>>, NEW parts \in Nat, NEW sp \in Parted
  PROVE  LET e == Find(s, d, sp.b) IN
         IF (sp.ret = <<>> \/ parts = 0 \/ Len(sp.ret) # parts - 1) /\ e # 0
         THEN SplitOnce(s, d, parts, sp)
                = [ret |-> Append(sp.ret, SubSeq(s, sp.b, e - 1)), b |-> e + Len(d)]
         ELSE SplitOnce(s, d, parts, sp) = sp
  BY Zenon DEF SplitOnce

LEMMA SplitRound ==
  ASSUME NEW s \in Text, NEW d \in Text, d # <<>>, NEW parts \in {0, 2}, NEW k \in 1..Len(s),
         NEW sp \in Parted, SplitSoFar(s, d, parts, k - 1, sp)
  PROVE  SplitSoFar(s, d, parts, k, SplitOnce(s, d, parts, sp))
PROOF
  <1> DEFINE e == Find(s, d, sp.b)
             more == sp.ret = <<>> \/ parts = 0 \/ Len(sp.ret) # parts - 1
             x == SubSeq(s, sp.b, e - 1)
             next == [ret |-> Append(sp.ret, x), b |-> e + Len(d)]
  <1>0. /\ Len(s) \in Nat /\ Len(d) \in Nat /\ Len(d) # 0 /\ k \in Nat /\ parts \in Nat
        /\ sp.ret \in Seq(Text) /\ sp.b \in Nat \ {0} /\ Len(sp.ret) \in Nat
        /\ sp.b \in 1..(Len(s) + 1)
    <2>1. Len(s) \in Nat /\ Len(d) \in Nat /\ Len(d) # 0 /\ k \in Nat /\ parts \in Nat
      BY LenProperties, EmptySeq DEF Text
    <2>2. sp.ret \in Seq(Text) /\ sp.b \in Nat \ {0}
      BY DEF Parted
    <2>3. Len(sp.ret) \in Nat
      BY <2>2, LenProperties
    <2>4. sp.b <= Len(s) + 1
      BY DEF SplitSoFar
    <2> QED BY <2>1, <2>2, <2>3, <2>4
  <1>1. \/ e = 0
        \/ /\ e \in sp.b..(Len(s) + 1 - Len(d))
           /\ SubSeq(s, e, e + Len(d) - 1) = d
           /\ \A i \in sp.b..(e - 1) : SubSeq(s, i, i + Len(d) - 1) # d
    <2>1. PICK b \in Nat \ {0} : b = sp.b
      BY <1>0
    <2>2. \/ Find(s, d, b) = 0
          \/ /\ Find(s, d, b) \in b..(Len(s) + 1 - Len(d))
             /\ SubSeq(s, Find(s, d, b), Find(s, d, b) + Len(d) - 1) = d
             /\ \A i \in b..(Find(s, d, b) - 1) : SubSeq(s, i, i + Len(d) - 1) # d
      BY FindFirst
    <2> QED BY <2>1, <2>2, Zenon
  <1>2. CASE ~(more /\ e # 0)
    <2>1. SplitOnce(s, d, parts, sp) = sp
      BY <1>0, <1>2, SplitOnceIs
    <2>2. parts = 0 => e = 0
      BY <1>2
    <2>3. SplitSoFar(s, d, parts, k, sp)
      BY <2>2 DEF SplitSoFar
    <2> QED BY <2>1, <2>3
  <1>3. CASE more /\ e # 0
    <2>1. SplitOnce(s, d, parts, sp) = next
      BY <1>0, <1>3, SplitOnceIs
    <2>2. /\ e \in sp.b..(Len(s) + 1 - Len(d))
          /\ SubSeq(s, e, e + Len(d) - 1) = d
          /\ \A i \in sp.b..(e - 1) : SubSeq(s, i, i + Len(d) - 1) # d
      BY <1>1, <1>3
    <2> HIDE DEF e
    <2>3. /\ e \in Nat /\ e - 1 \in Nat /\ sp.b <= (e - 1) + 1 /\ e - 1 <= Len(s)
          /\ e + Len(d) \in Nat \ {0} /\ e + Len(d) <= Len(s) + 1 /\ e + Len(d) > sp.b
      BY <1>0, <2>2
    <2>4. x \in Text /\ Find(x, d, 1) = 0
      <3>1. \A i \in sp.b..((e - 1) + 1 - Len(d)) : SubSeq(s, i, i + Len(d) - 1) # d
        BY <1>0, <2>2
      <3> QED BY <1>0, <2>3, <3>1, NoneInside, ZenonT(40)
    <2>5. /\ Append(sp.ret, x) \in Seq(Text) /\ Append(sp.ret, x) # <<>>
          /\ Len(Append(sp.ret, x)) = Len(sp.ret) + 1
          /\ \A i \in 1..Len(sp.ret) : Append(sp.ret, x)[i] = sp.ret[i]
          /\ Append(sp.ret, x)[Len(sp.ret) + 1] = x
      <3> HIDE DEF x
      <3> QED BY <1>0, <2>4, AppendProperties
    <2>6. next \in Parted /\ next.ret = Append(sp.ret, x) /\ next.b = e + Len(d)
      <3> HIDE DEF x
      <3> QED BY <2>3, <2>5 DEF Parted
    <2>7. Join(next.ret, d) \o d = SubSeq(s, 1, next.b - 1)
      <3>1. SubSeq(s, 1, e - 1) \o d = SubSeq(s, 1, e + Len(d) - 1)
        <4>1. /\ 1 \in 1..(Len(s) + 1) /\ e - 1 \in (1 - 1)..Len(s)
              /\ e + Len(d) - 1 \in (e - 1)..Len(s) /\ (e - 1) + 1 = e
          BY <1>0, <2>2
        <4>2. SubSeq(s, 1, e - 1) \o SubSeq(s, (e - 1) + 1, e + Len(d) - 1)
                = SubSeq(s, 1, e + Len(d) - 1)
          BY <4>1, ConcatAdjacentSubSeq DEF Text
        <4> QED BY <2>2, <4>1, <4>2
      <3>2. Join(Append(sp.ret, x), d) = SubSeq(s, 1, e - 1)
        <4>1. CASE sp.ret = <<>>
          <5>1. sp.b = 1
            BY <4>1 DEF SplitSoFar
          <5>2. Join(Append(sp.ret, x), d) = x
            <6> HIDE DEF x
            <6> QED BY <1>0, <2>4, <4>1, JoinAppend
          <5> QED BY <5>1, <5>2
        <4>2. CASE sp.ret # <<>>
          <5>1. Join(sp.ret, d) \o d = SubSeq(s, 1, sp.b - 1)
            BY <4>2 DEF SplitSoFar
          <5>2. Join(Append(sp.ret, x), d) = (Join(sp.ret, d) \o d) \o x
            <6> HIDE DEF x
            <6> QED BY <1>0, <2>4, <4>2, JoinAppend
          <5>3. SubSeq(s, 1, sp.b - 1) \o SubSeq(s, (sp.b - 1) + 1, e - 1) = SubSeq(s, 1, e - 1)
            <6>1. /\ 1 \in 1..(Len(s) + 1) /\ sp.b - 1 \in (1 - 1)..Len(s)
                  /\ e - 1 \in (sp.b - 1)..Len(s)
              BY <1>0, <2>2
            <6> QED BY <6>1, ConcatAdjacentSubSeq DEF Text
          <5>4. (sp.b - 1) + 1 = sp.b
            BY <1>0
          <5> QED BY <5>1, <5>2, <5>3, <5>4
        <4> QED BY <4>1, <4>2
      <3> HIDE DEF next, x
      <3>3. Join(next.ret, d) \o d = SubSeq(s, 1, e + Len(d) - 1)
        BY <2>6, <3>1, <3>2, Zenon
      <3>4. next.b - 1 = e + Len(d) - 1
        BY <1>0, <2>3, <2>6
      <3> QED BY <3>3, <3>4, Zenon
    <2>8. \A i \in 1..Len(next.ret) : Find(next.ret[i], d, 1) = 0
      <3>1. \A i \in 1..Len(sp.ret) : Find(sp.ret[i], d, 1) = 0
        BY DEF SplitSoFar
      <3> DEFINE r == Append(sp.ret, x)
      <3>2. /\ Len(r) = Len(sp.ret) + 1 /\ \A i \in 1..Len(sp.ret) : r[i] = sp.ret[i]
            /\ r[Len(sp.ret) + 1] = x /\ next.ret = r
        BY <2>5, <2>6
      <3> HIDE DEF r, x, next
      <3>3. ASSUME NEW i \in 1..Len(r) PROVE Find(r[i], d, 1) = 0
        <4>1. CASE i \in 1..Len(sp.ret)
          BY <3>1, <3>2, <4>1
        <4>2. CASE i = Len(sp.ret) + 1
          BY <2>4, <3>2, <4>2
        <4> QED BY <1>0, <3>2, <4>1, <4>2
      <3> QED BY <3>2, <3>3
    <2>9. \E n \in 0..Len(s) : next.ret[1] = SubSeq(s, 1, n)
      <3> DEFINE r == Append(sp.ret, x)
      <3>2. /\ \A i \in 1..Len(sp.ret) : r[i] = sp.ret[i]
            /\ r[Len(sp.ret) + 1] = x /\ next.ret = r
        BY <2>5, <2>6
      <3>3. CASE sp.ret = <<>>
        <4>1. sp.b = 1 /\ Len(sp.ret) = 0
          BY <3>3 DEF SplitSoFar
        <4>2. r[1] = SubSeq(s, 1, e - 1) /\ e - 1 \in 0..Len(s)
          <5> HIDE DEF r
          <5> QED BY <1>0, <2>3, <3>2, <4>1
        <4> HIDE DEF r, next
        <4> QED BY <3>2, <4>2
      <3>4. CASE sp.ret # <<>>
        <4>1. \E n \in 0..Len(s) : sp.ret[1] = SubSeq(s, 1, n)
          BY <3>4 DEF SplitSoFar
        <4>2. 1 \in 1..Len(sp.ret)
          BY <1>0, <3>4, EmptySeq
        <4> HIDE DEF r, next
        <4> QED BY <3>2, <4>1, <4>2
      <3> QED BY <3>3, <3>4
    <2>10. parts = 0 => next.b > k \/ Find(s, d, next.b) = 0
      <3>1. parts = 0 => sp.b > k - 1
        BY <1>3 DEF SplitSoFar, e
      <3> HIDE DEF next
      <3> QED BY <1>0, <2>3, <2>6, <3>1
    <2>11. parts = 2 => Len(next.ret) <= 1
      <3>1. parts = 2 => Len(sp.ret) = 0
        <4>1. parts = 2 => sp.ret = <<>> \/ Len(sp.ret) # 1
          BY <1>3
        <4>2. parts = 2 => Len(sp.ret) <= 1
          BY DEF SplitSoFar
        <4>3. sp.ret = <<>> => Len(sp.ret) = 0
          OBVIOUS
        <4>4. Len(sp.ret) \in Nat
          BY <1>0
        <4>5. CASE parts = 2
          <5>1. Len(sp.ret) # 1 \/ Len(sp.ret) = 0
            BY <4>1, <4>3, <4>5
          <5>2. Len(sp.ret) <= 1
            BY <4>2, <4>5
          <5> QED BY <4>4, <5>1, <5>2, NoneOfOne
        <4> QED BY <4>5
      <3> HIDE DEF next, x
      <3> QED BY <1>0, <2>5, <2>6, <3>1
    <2>12. next.ret # <<>> /\ next.b <= Len(s) + 1
      <3> HIDE DEF next, x
      <3> QED BY <2>3, <2>5, <2>6
    <2> HIDE DEF next
    <2>13. SplitSoFar(s, d, parts, k, next)
      BY <2>6, <2>7, <2>8, <2>9, <2>10, <2>11, <2>12 DEF SplitSoFar
    <2> QED BY <2>1, <2>13
  <1> QED BY <1>2, <1>3
\* The rounds of split().
SplitRounds(f, s, d, parts) ==
  /\ f \in [0..Len(s) -> Parted]
  /\ f[0] = [ret |-> <<>>, b |-> 1]
  /\ \A k \in 1..Len(s) : f[k] = SplitOnce(s, d, parts, f[k - 1])
  /\ Split(s, d, parts) = Append(f[Len(s)].ret, SubSeq(s, f[Len(s)].b, Len(s)))

LEMMA SplitType ==
  ASSUME NEW s \in Text, NEW d \in Text, d # <<>>, NEW parts \in Nat, NEW sp \in Parted
  PROVE  SplitOnce(s, d, parts, sp) \in Parted
PROOF
  <1> DEFINE e == Find(s, d, sp.b)
             more == sp.ret = <<>> \/ parts = 0 \/ Len(sp.ret) # parts - 1
             x == SubSeq(s, sp.b, e - 1)
             next == [ret |-> Append(sp.ret, x), b |-> e + Len(d)]
  <1>0. /\ Len(s) \in Nat /\ Len(d) \in Nat /\ Len(d) # 0
        /\ sp.ret \in Seq(Text) /\ sp.b \in Nat \ {0}
    <2>1. Len(s) \in Nat /\ Len(d) \in Nat /\ Len(d) # 0
      BY LenProperties, EmptySeq DEF Text
    <2>2. sp.ret \in Seq(Text) /\ sp.b \in Nat \ {0}
      BY DEF Parted
    <2> QED BY <2>1, <2>2
  <1>1. CASE ~(more /\ e # 0)
    BY <1>1, SplitOnceIs
  <1>2. CASE more /\ e # 0
    <2>1. SplitOnce(s, d, parts, sp) = next
      BY <1>2, SplitOnceIs
    <2>2. e \in sp.b..(Len(s) + 1 - Len(d))
      <3>1. \A b \in Nat \ {0} : Find(s, d, b) = 0 \/ Find(s, d, b) \in b..(Len(s) + 1 - Len(d))
        BY FindFirst
      <3>2. e = 0 \/ e \in sp.b..(Len(s) + 1 - Len(d))
        BY <1>0, <3>1
      <3> QED BY <1>2, <3>2
    <2> HIDE DEF e
    <2>3. e - 1 \in Nat /\ e - 1 <= Len(s) /\ e + Len(d) \in Nat \ {0}
      BY <1>0, <2>2
    <2>4. x \in Text
      BY <1>0, <2>3, Sub DEF Text
    <2> HIDE DEF x
    <2>5. Append(sp.ret, x) \in Seq(Text)
      BY <1>0, <2>4, AppendProperties
    <2>6. next \in Parted
      BY <2>3, <2>5 DEF Parted
    <2> QED BY <2>1, <2>6
  <1> QED BY <1>1, <1>2

LEMMA SplitLoop ==
  ASSUME NEW s \in Text, NEW d \in Text, d # <<>>, NEW parts \in Nat
  PROVE  \E f : SplitRounds(f, s, d, parts)
PROOF
  <1> DEFINE r0 == [ret |-> <<>>, b |-> 1]
             Loop(f) == f = [k \in 0..Len(s) |->
                              IF k = 0 THEN [ret |-> <<>>, b |-> 1]
                                       ELSE SplitOnce(s, d, parts, f[k - 1])]
             step == [x \in (1..Len(s)) \X Parted |-> SplitOnce(s, d, parts, x[2])]
  <1>1. Len(s) \in Nat /\ r0 \in Parted
    BY LenProperties, EmptySeq DEF Text, Parted
  <1>2. step \in [(1..Len(s)) \X Parted -> Parted]
    BY SplitType
  <1>3. PICK f \in [0..Len(s) -> Parted] :
               f[0] = r0 /\ \A k \in 1..Len(s) : f[k] = step[<<k, f[k - 1]>>]
    <2> HIDE DEF step, r0
    <2>1. \E f : History(f, Len(s), Parted, r0, step)
      BY <1>1, <1>2, Iterates
    <2> QED BY <2>1 DEF History
  <1>4. ASSUME NEW k \in 1..Len(s) PROVE f[k] = SplitOnce(s, d, parts, f[k - 1])
    <2>1. k - 1 \in 0..Len(s)
      BY <1>1
    <2>2. <<k, f[k - 1]>> \in (1..Len(s)) \X Parted
      BY <1>3, <2>1
    <2> QED BY <1>3, <2>2
  <1>5. Loop(f)
    BY <1>3, <1>4
  <1> DEFINE at == CHOOSE g : Loop(g)
  <1>6. Loop(at)
    <2> HIDE DEF Loop
    <2> QED BY <1>5
  <1>7. Split(s, d, parts) = Append(at[Len(s)].ret, SubSeq(s, at[Len(s)].b, Len(s)))
    BY DEF Split
  <1> HIDE DEF at
  <1>8. at[0] = r0 /\ \A k \in 1..Len(s) : at[k] = SplitOnce(s, d, parts, at[k - 1])
    BY <1>1, <1>6, SMTT(30)
  <1>9. \A k \in 0..Len(s) : at[k] = f[k]
    <2>1. Together(at, f, Len(s))
      BY <1>3, <1>4, <1>8 DEF Together
    <2> QED BY <1>1, <2>1, SameHistory
  <1>10. at[Len(s)] = f[Len(s)]
    BY <1>1, <1>9
  <1>11. Split(s, d, parts) = Append(f[Len(s)].ret, SubSeq(s, f[Len(s)].b, Len(s)))
    BY <1>7, <1>10
  <1> QED BY <1>3, <1>4, <1>11 DEF SplitRounds

\* Where split() ends.
LEMMA SplitEnd ==
  ASSUME NEW s \in Text, NEW d \in Text, d # <<>>, NEW parts \in {0, 2}
  PROVE  \E sp \in Parted :
           /\ SplitSoFar(s, d, parts, Len(s), sp)
           /\ Split(s, d, parts) = Append(sp.ret, SubSeq(s, sp.b, Len(s)))
PROOF
  <1>1. PICK f : SplitRounds(f, s, d, parts)
    BY SplitLoop
  <1>2. /\ f \in [0..Len(s) -> Parted] /\ f[0] = [ret |-> <<>>, b |-> 1]
        /\ \A k \in 1..Len(s) : f[k] = SplitOnce(s, d, parts, f[k - 1])
        /\ Split(s, d, parts) = Append(f[Len(s)].ret, SubSeq(s, f[Len(s)].b, Len(s)))
    BY <1>1 DEF SplitRounds
  <1>3. Len(s) \in Nat
    BY LenProperties DEF Text
  <1> DEFINE S == {k \in Nat : k <= Len(s) => SplitSoFar(s, d, parts, k, f[k])}
  <1>4. 0 \in S
    <2> DEFINE r0 == [ret |-> <<>>, b |-> 1]
    <2>1. /\ r0 \in Parted /\ r0.ret = <<>> /\ Len(r0.ret) = 0 /\ r0.b = 1
      BY EmptySeq DEF Parted
    <2> HIDE DEF r0
    <2>2. SplitSoFar(s, d, parts, 0, r0)
      BY <1>3, <2>1 DEF SplitSoFar
    <2>3. f[0] = r0
      BY <1>2 DEF r0
    <2> QED BY <2>2, <2>3
  <1>5. ASSUME NEW k \in Nat, k \in S PROVE k + 1 \in S
    <2>1. CASE k + 1 <= Len(s)
      <3>1. k + 1 \in 1..Len(s) /\ (k + 1) - 1 = k /\ k \in 0..Len(s) /\ k <= Len(s)
        BY <1>3, <2>1
      <3>2. f[k] \in Parted /\ SplitSoFar(s, d, parts, (k + 1) - 1, f[k])
        BY <1>2, <1>5, <3>1
      <3>3. SplitSoFar(s, d, parts, k + 1, SplitOnce(s, d, parts, f[k]))
        BY <3>1, <3>2, SplitRound
      <3>4. f[k + 1] = SplitOnce(s, d, parts, f[k])
        BY <1>2, <3>1
      <3>5. SplitSoFar(s, d, parts, k + 1, f[k + 1])
        BY <3>3, <3>4, Zenon
      <3> QED BY <3>5
    <2>2. CASE ~(k + 1 <= Len(s))
      BY <2>2
    <2> QED BY <2>1, <2>2
  <1> HIDE DEF S
  <1>6. Nat \subseteq S
    BY <1>4, <1>5, NatInd
  <1>7. Len(s) \in S
    BY <1>3, <1>6
  <1>8. SplitSoFar(s, d, parts, Len(s), f[Len(s)])
    BY <1>3, <1>7 DEF S
  <1>9. f[Len(s)] \in Parted
    BY <1>2, <1>3
  <1> QED BY <1>2, <1>8, <1>9

\* The parts, joined again; and the first of them.
LEMMA SplitIsWhole ==
  ASSUME NEW s \in Text, NEW d \in Text, d # <<>>, NEW parts \in {0, 2}
  PROVE  /\ Split(s, d, parts) \in Seq(Text) /\ Split(s, d, parts) # <<>>
         /\ Join(Split(s, d, parts), d) = s
         /\ \E n \in 0..Len(s) : Split(s, d, parts)[1] = SubSeq(s, 1, n)
         /\ parts = 0 => \A i \in 1..Len(Split(s, d, parts)) :
                           Find(Split(s, d, parts)[i], d, 1) = 0
         /\ parts = 2 => Len(Split(s, d, parts)) <= 2
PROOF
  <1>1. PICK sp \in Parted :
           /\ SplitSoFar(s, d, parts, Len(s), sp)
           /\ Split(s, d, parts) = Append(sp.ret, SubSeq(s, sp.b, Len(s)))
    BY SplitEnd
  <1> DEFINE ret == sp.ret
             x == SubSeq(s, sp.b, Len(s))
             r == Append(ret, x)
  <1>2. /\ ret \in Seq(Text) /\ sp.b \in Nat \ {0} /\ Len(s) \in Nat /\ sp.b <= Len(s) + 1
        /\ Len(ret) \in Nat
    <2>1. ret \in Seq(Text) /\ sp.b \in Nat \ {0}
      BY DEF Parted
    <2>2. sp.b <= Len(s) + 1
      BY <1>1 DEF SplitSoFar
    <2> QED BY <2>1, <2>2, LenProperties DEF Text
  <1>3. x \in Text /\ SubSeq(s, 1, Len(s)) = s
    BY <1>2, SubText, SubSeqFull DEF Text
  <1>4. /\ ret = <<>> => sp.b = 1
        /\ ret # <<>> => Join(ret, d) \o d = SubSeq(s, 1, sp.b - 1)
        /\ \A i \in 1..Len(ret) : Find(ret[i], d, 1) = 0
        /\ ret # <<>> => \E n \in 0..Len(s) : ret[1] = SubSeq(s, 1, n)
        /\ parts = 0 => sp.b > Len(s) \/ Find(s, d, sp.b) = 0
        /\ parts = 2 => Len(ret) <= 1
    BY <1>1 DEF SplitSoFar
  <1> HIDE DEF ret
  <1>5. /\ r \in Seq(Text) /\ r # <<>> /\ Len(r) = Len(ret) + 1
        /\ \A i \in 1..Len(ret) : r[i] = ret[i]
        /\ r[Len(ret) + 1] = x
    <2> HIDE DEF x
    <2> QED BY <1>2, <1>3, AppendProperties
  <1>6. Join(r, d) = s
    <2>1. CASE ret = <<>>
      <3>1. Join(r, d) = x
        <4> HIDE DEF x
        <4> QED BY <1>2, <1>3, <2>1, JoinAppend
      <3> QED BY <1>3, <1>4, <2>1, <3>1
    <2>2. CASE ret # <<>>
      <3>1. Join(r, d) = (Join(ret, d) \o d) \o x
        <4> HIDE DEF x
        <4> QED BY <1>2, <1>3, <2>2, JoinAppend
      <3>2. /\ 1 \in 1..(Len(s) + 1) /\ sp.b - 1 \in (1 - 1)..Len(s)
            /\ Len(s) \in (sp.b - 1)..Len(s) /\ (sp.b - 1) + 1 = sp.b
        BY <1>2
      <3>3. SubSeq(s, 1, sp.b - 1) \o SubSeq(s, (sp.b - 1) + 1, Len(s)) = SubSeq(s, 1, Len(s))
        BY <3>2, ConcatAdjacentSubSeq DEF Text
      <3> HIDE DEF r
      <3> QED BY <1>3, <1>4, <2>2, <3>1, <3>2, <3>3
    <2> QED BY <2>1, <2>2
  <1>7. \E n \in 0..Len(s) : r[1] = SubSeq(s, 1, n)
    <2>1. CASE ret = <<>>
      <3>1. Len(ret) + 1 = 1 /\ sp.b = 1
        BY <1>4, <2>1, EmptySeq
      <3>2. r[1] = SubSeq(s, 1, Len(s)) /\ Len(s) \in 0..Len(s)
        <4> HIDE DEF r
        <4> QED BY <1>2, <1>5, <3>1
      <3> HIDE DEF r
      <3> QED BY <3>2
    <2>2. CASE ret # <<>>
      <3>1. 1 \in 1..Len(ret)
        BY <1>2, <2>2, EmptySeq
      <3> HIDE DEF r
      <3> QED BY <1>4, <1>5, <2>2, <3>1
    <2> QED BY <2>1, <2>2
  <1>8. ASSUME parts = 0, NEW i \in 1..Len(r) PROVE Find(r[i], d, 1) = 0
    <2>1. CASE i \in 1..Len(ret)
      <3> HIDE DEF r
      <3> QED BY <1>4, <1>5, <2>1
    <2>2. CASE i = Len(ret) + 1
      <3>1. \A j \in sp.b..(Len(s) + 1 - Len(d)) : SubSeq(s, j, j + Len(d) - 1) # d
        <4>1. CASE sp.b > Len(s)
          <5>1. Len(d) \in Nat /\ Len(d) # 0
            BY LenProperties, EmptySeq DEF Text
          <5> QED BY <1>2, <4>1, <5>1
        <4>2. CASE Find(s, d, sp.b) = 0
          <5>1. \A b \in Nat \ {0} : Find(s, d, b) = 0 =>
                  \A j \in b..(Len(s) + 1 - Len(d)) : SubSeq(s, j, j + Len(d) - 1) # d
            <6>1. SUFFICES ASSUME NEW b \in Nat \ {0}, Find(s, d, b) = 0
                  PROVE \A j \in b..(Len(s) + 1 - Len(d)) : SubSeq(s, j, j + Len(d) - 1) # d
              OBVIOUS
            <6>2. \/ \A j \in b..(Len(s) + 1 - Len(d)) : SubSeq(s, j, j + Len(d) - 1) # d
                  \/ Find(s, d, b) \in b..(Len(s) + 1 - Len(d))
              BY FindFirst
            <6>3. Len(d) \in Nat
              BY LenProperties DEF Text
            <6>4. ~(0 \in b..(Len(s) + 1 - Len(d)))
              BY <1>2, <6>3
            <6> QED BY <6>1, <6>2, <6>4
          <5> QED BY <1>2, <4>2, <5>1
        <4> QED BY <1>4, <1>8, <4>1, <4>2
      <3>2. Find(x, d, 1) = 0
        <4>1. sp.b <= Len(s) + 1 /\ Len(s) <= Len(s)
          BY <1>2
        <4>2. PICK b \in Nat \ {0} : b = sp.b
          BY <1>2
        <4>3. \A j \in b..(Len(s) + 1 - Len(d)) : SubSeq(s, j, j + Len(d) - 1) # d
          BY <3>1, <4>2
        <4>4. b <= Len(s) + 1 /\ Len(s) \in Nat /\ Len(s) <= Len(s)
          BY <1>2, <4>1, <4>2
        <4>5. Find(SubSeq(s, b, Len(s)), d, 1) = 0
          BY <4>3, <4>4, NoneInside
        <4> QED BY <4>2, <4>5
      <3> HIDE DEF r, x
      <3> QED BY <1>5, <2>2, <3>2
    <2> HIDE DEF r
    <2> QED BY <1>2, <1>5, <2>1, <2>2
  <1>9. parts = 2 => Len(r) <= 2
    <2> HIDE DEF r
    <2> QED BY <1>2, <1>4, <1>5
  <1>10. Split(s, d, parts) = r
    BY <1>1 DEF ret
  <1> HIDE DEF r
  <1> QED BY <1>5, <1>6, <1>7, <1>8, <1>9, <1>10

\* split() and join() undo each other for any text and any separator that is
\* not empty; with no limit no separator is left in a part; with a limit of two
\* there are at most two parts, and the first is how the text begins.
LEMMA SplitAndJoin ==
  ASSUME NEW s \in Text, NEW d \in Text, d # <<>>
  PROVE  SplitsWhole(s, d)
PROOF
  <1> DEFINE all == Split(s, d, 0)
             two == Split(s, d, 2)
  <1>1. /\ all \in Seq(Text) /\ Join(all, d) = s
        /\ \A i \in 1..Len(all) : Find(all[i], d, 1) = 0
    BY SplitIsWhole
  <1>2. /\ Join(two, d) = s /\ Len(two) <= 2
        /\ \E n \in 0..Len(s) : two[1] = SubSeq(s, 1, n)
    BY SplitIsWhole
  <1> HIDE DEF all, two
  <1>3. DOMAIN all = 1..Len(all)
    BY <1>1, LenProperties
  <1>4. HasHead(s, two[1])
    <2>1. PICK n \in 0..Len(s) : two[1] = SubSeq(s, 1, n)
      BY <1>2
    <2>2. Len(s) \in Nat
      BY LenProperties DEF Text
    <2>3. Len(SubSeq(s, 1, n)) = n
      BY <2>2, SubText
    <2>4. Len(two[1]) = n
      BY <2>1, <2>3
    <2>5. (IF Len(two[1]) < Len(s) THEN Len(two[1]) ELSE Len(s)) = n
      BY <2>2, <2>4
    <2> QED BY <2>1, <2>5 DEF HasHead
  <1> QED BY <1>1, <1>2, <1>3, <1>4 DEF SplitsWhole, all, two
-----------------------------------------------------------------------------
(* The theorems, for texts of any strings                                    *)

\* Any arguments that a header line can hold, and that are quoted if they need
\* to be, arrive: any number of them, and any text (string.cxx, multipart.cxx,
\* jobman.cxx).
THEOREM ArgsKeptForAll == \A args \in Seq(Seq(STRING)) : ArgsKept(args)
  BY ArgsAreRead, TextsOfStrings

\* split() and join() undo each other (string.cxx).
THEOREM SplitsWholeForAll == \A s, d \in Seq(STRING) : d # <<>> => SplitsWhole(s, d)
  BY SplitAndJoin, TextsOfStrings
================================================================================
