------------------------------- MODULE TextProofs -------------------------------
(***************************************************************************)
(* Texts that are written and read again, of any length: that of a job     *)
(* file, and that of a configuration.                                      *)
(*                                                                         *)
(* OutputKept, for any tokens that a job may print but the boundary, any   *)
(* number of tries and any length of output.  TextInv, the inductive       *)
(* invariant, says that the file is what to_string() makes of the sections *)
(* that it should have, and that the last of them is the output of a       *)
(* running job.  What a job appends then is appended to the body of that   *)
(* section (PrintedText), and what load() finds are again the sections     *)
(* (RoundTrip).  That is shown section by section (SectionIsRead) and in   *)
(* each body line by line: the lines of two texts are those of the one and *)
(* of the other if the first ends a line (LinesConcat), and a line in a    *)
(* body changes nothing but the body and, if it begins with "## ", the     *)
(* sub-status (BodyIsRead).                                                *)
(*                                                                         *)
(* ConfigKept, for any text.  What its lines say is meant (TextIsMeant): a *)
(* value is there once its line is read (SaysIsSet), and stays unless a    *)
(* later line names its tag (ValuesStay); remarks only grow (RemarksStay). *)
(* Written back it means the same (EachComesBack): Part(sec, cfg, D) is    *)
(* what load() knows when the tags D of a configuration are written and    *)
(* read, and the sections and tags of D grow by one entry, remark or head  *)
(* at a time (EntryIsLoaded, RemarksAreLoaded, HeadIsLoaded), in whatever  *)
(* order the sets of them are written (OrderIs).                           *)
(***************************************************************************)
EXTENDS JobText, Config, StringsProofs, FiniteSetTheorems

-----------------------------------------------------------------------------
(* Lines *)

\* The lines of texts of some characters.
LinesOf(P) == {l \in Seq(P) : l # <<>>}

LEMMA LongerType ==
  ASSUME NEW P, NEW lines \in Seq(LinesOf(P)), NEW c \in P
  PROVE  Longer(lines, c) \in Seq(LinesOf(P))
PROOF
  <1> DEFINE n == Len(lines)
             one == <<c>>
  <1>1. one \in LinesOf(P)
    BY DEF LinesOf
  <1>2. Append(lines, one) \in Seq(LinesOf(P))
    BY <1>1, AppendProperties
  <1>3. CASE lines # <<>>
    <2>1. n \in Nat /\ n \in 1..Len(lines) /\ n - 1 \in Nat /\ n - 1 <= Len(lines)
      BY <1>3, EmptySeq, LenProperties
    <2>2. lines[n] \in LinesOf(P)
      BY <2>1, ElementOfSeq
    <2> DEFINE l == lines[n]
    <2> HIDE DEF l
    <2>3. Append(l, c) \in LinesOf(P)
      <3>1. l \in Seq(P)
        BY <2>2 DEF LinesOf, l
      <3> QED BY <3>1, AppendProperties DEF LinesOf
    <2>4. SubSeq(lines, 1, n - 1) \in Seq(LinesOf(P))
      BY <2>1, Sub
    <2>5. Append(SubSeq(lines, 1, n - 1), Append(l, c)) \in Seq(LinesOf(P))
      BY <2>3, <2>4, AppendProperties
    <2> QED BY <1>2, <2>5 DEF Longer, l
  <1>4. CASE lines = <<>>
    BY <1>2, <1>4 DEF Longer
  <1> QED BY <1>3, <1>4

LEMMA LinesLoop ==
  ASSUME NEW P, NEW s \in Seq(P)
  PROVE  \E at \in [0..Len(s) -> Seq(LinesOf(P))] :
           /\ at[0] = <<>>
           /\ \A k \in 1..Len(s) : at[k] = Longer(at[k - 1], s[k])
           /\ Lines(s) = at[Len(s)]
PROOF
  <1> DEFINE a0 == <<>>
             Loop(f) == f = [k \in 0..Len(s) |->
                              IF k = 0 THEN <<>> ELSE Longer(f[k - 1], s[k])]
             step == [x \in (1..Len(s)) \X Seq(LinesOf(P)) |-> Longer(x[2], s[x[1]])]
  <1>1. Len(s) \in Nat /\ a0 \in Seq(LinesOf(P)) /\ \A k \in 1..Len(s) : s[k] \in P
    BY ElementOfSeq, LenProperties, EmptySeq DEF Text
  <1>2. step \in [(1..Len(s)) \X Seq(LinesOf(P)) -> Seq(LinesOf(P))]
    BY <1>1, LongerType
  <1>3. PICK f \in [0..Len(s) -> Seq(LinesOf(P))] :
               f[0] = a0 /\ \A k \in 1..Len(s) : f[k] = step[<<k, f[k - 1]>>]
    <2> HIDE DEF step, a0
    <2>1. \E f : History(f, Len(s), Seq(LinesOf(P)), a0, step)
      BY <1>1, <1>2, Iterates
    <2> QED BY <2>1 DEF History
  <1>4. ASSUME NEW k \in 1..Len(s) PROVE f[k] = Longer(f[k - 1], s[k])
    <2>1. k - 1 \in 0..Len(s)
      BY <1>1
    <2>2. <<k, f[k - 1]>> \in (1..Len(s)) \X Seq(LinesOf(P))
      BY <1>3, <2>1
    <2> QED BY <1>3, <2>2
  <1>5. Loop(f)
    BY <1>3, <1>4
  <1> DEFINE at == CHOOSE g : Loop(g)
  <1>6. Loop(at)
    <2> HIDE DEF Loop
    <2> QED BY <1>5
  <1>7. Lines(s) = at[Len(s)]
    BY DEF Lines
  <1> HIDE DEF at
  <1>8. at[0] = a0 /\ \A k \in 1..Len(s) : at[k] = Longer(at[k - 1], s[k])
    BY <1>1, <1>6
  <1>9. \A k \in 0..Len(s) : at[k] = f[k]
    <2>1. Together(at, f, Len(s))
      BY <1>3, <1>4, <1>8 DEF Together
    <2> QED BY <1>1, <2>1, SameHistory
  <1>10. Lines(s) = f[Len(s)]
    BY <1>1, <1>7, <1>9
  <1> QED BY <1>3, <1>4, <1>10

LEMMA LinesAppend ==
  ASSUME NEW P, NEW s \in Seq(P), NEW c \in P
  PROVE  /\ Lines(s) \in Seq(LinesOf(P))
         /\ Lines(Append(s, c)) = Longer(Lines(s), c)
PROOF
  <1> DEFINE t == Append(s, c)
  <1>1. /\ t \in Seq(P) /\ Len(t) = Len(s) + 1 /\ Len(s) \in Nat
        /\ t[Len(s) + 1] = c /\ \A k \in 1..Len(s) : t[k] = s[k]
    BY AppendProperties, LenProperties
  <1> HIDE DEF t
  <1>2. PICK f \in [0..Len(s) -> Seq(LinesOf(P))] :
           /\ f[0] = <<>>
           /\ \A k \in 1..Len(s) : f[k] = Longer(f[k - 1], s[k])
           /\ Lines(s) = f[Len(s)]
    BY LinesLoop
  <1>3. PICK g \in [0..Len(t) -> Seq(LinesOf(P))] :
           /\ g[0] = <<>>
           /\ \A k \in 1..Len(t) : g[k] = Longer(g[k - 1], t[k])
           /\ Lines(t) = g[Len(t)]
    BY <1>1, LinesLoop
  <1>4. \A k \in 0..Len(s) : f[k] = g[k]
    <2>1. f[0] = g[0]
      BY <1>2, <1>3
    <2>2. ASSUME NEW k \in 1..Len(s), f[k - 1] = g[k - 1] PROVE f[k] = g[k]
      <3>1. f[k] = Longer(f[k - 1], s[k])
        BY <1>2
      <3>2. k \in 1..Len(t) /\ t[k] = s[k]
        BY <1>1
      <3>3. g[k] = Longer(g[k - 1], t[k])
        BY <1>3, <3>2
      <3> QED BY <2>2, <3>1, <3>2, <3>3, Zenon
    <2>3. Together(f, g, Len(s))
      BY <2>1, <2>2 DEF Together
    <2>4. Len(s) \in Nat
      BY <1>1
    <2> QED BY <2>3, <2>4, SameHistory
  <1>5. g[Len(s) + 1] = Longer(g[Len(s)], c)
    <2>1. Len(s) + 1 \in 1..Len(t) /\ (Len(s) + 1) - 1 = Len(s)
      BY <1>1
    <2> QED BY <1>1, <1>3, <2>1
  <1>6. Len(s) \in 0..Len(s) /\ g[Len(s)] = f[Len(s)]
    BY <1>1, <1>4
  <1> QED BY <1>1, <1>2, <1>3, <1>5, <1>6 DEF t

LEMMA LinesType ==
  ASSUME NEW P, NEW s \in Seq(P)
  PROVE  Lines(s) \in Seq(LinesOf(P))
PROOF
  <1>1. PICK at \in [0..Len(s) -> Seq(LinesOf(P))] : Lines(s) = at[Len(s)]
    BY LinesLoop
  <1>2. Len(s) \in 0..Len(s)
    BY LenProperties
  <1> QED BY <1>1, <1>2

LEMMA LinesEmpty == Lines(<<>>) = <<>>
PROOF
  <1> DEFINE e == <<>>
  <1>1. e \in Seq({}) /\ Len(e) = 0
    BY EmptySeq
  <1> HIDE DEF e
  <1>2. PICK at \in [0..Len(e) -> Seq(LinesOf({}))] : at[0] = <<>> /\ Lines(e) = at[Len(e)]
    BY <1>1, LinesLoop
  <1> QED BY <1>1, <1>2 DEF e

\* The last line ends as the text does.
LEMMA LastLine ==
  ASSUME NEW P, NEW s \in Seq(P), s # <<>>
  PROVE  /\ Lines(s) \in Seq(LinesOf(P)) /\ Lines(s) # <<>>
         /\ Len(Lines(s)) \in Nat \ {0} /\ Lines(s)[Len(Lines(s))] \in LinesOf(P)
         /\ EndsLine(Lines(s)[Len(Lines(s))]) <=> EndsLine(s)
PROOF
  <1>1. PICK t \in Seq(P), c \in P : s = Append(t, c)
    BY SequenceEmptyOrAppend
  <1> DEFINE L == Lines(t)
             n == Len(L)
             m == Longer(L, c)
  <1>2. Lines(s) = m /\ L \in Seq(LinesOf(P)) /\ m \in Seq(LinesOf(P))
    BY <1>1, LinesAppend, LongerType
  <1>3. EndsLine(s) <=> c = NL
    BY <1>1, AppendProperties, LenProperties DEF EndsLine
  <1> HIDE DEF L
  <1>4. PICK M \in Seq(LinesOf(P)), l \in LinesOf(P) : m = Append(M, l) /\ (EndsLine(l) <=> c = NL)
    <2>1. <<c>> \in LinesOf(P) /\ (EndsLine(<<c>>) <=> c = NL)
      BY DEF LinesOf, EndsLine
    <2>2. CASE L = <<>> \/ EndsLine(L[n])
      <3>1. m = Append(L, <<c>>)
        BY <2>2 DEF Longer
      <3> QED BY <1>2, <2>1, <3>1
    <2>3. CASE ~(L = <<>> \/ EndsLine(L[n]))
      <3>1. m = Append(SubSeq(L, 1, n - 1), Append(L[n], c))
        BY <2>3 DEF Longer
      <3>2. n \in 1..Len(L) /\ n - 1 \in Nat /\ n - 1 <= Len(L)
        BY <1>2, <2>3, EmptySeq, LenProperties
      <3>3. L[n] \in Seq(P)
        BY <1>2, <3>2, ElementOfSeq DEF LinesOf
      <3>4. SubSeq(L, 1, n - 1) \in Seq(LinesOf(P))
        BY <1>2, <3>2, Sub
      <3> DEFINE l == L[n]
      <3> HIDE DEF l
      <3>5. Append(l, c) \in LinesOf(P) /\ (EndsLine(Append(l, c)) <=> c = NL)
        BY <3>3, AppendProperties, LenProperties DEF LinesOf, EndsLine, l
      <3> QED BY <3>1, <3>4, <3>5 DEF l
    <2> QED BY <2>2, <2>3
  <1>5. m # <<>> /\ Len(m) \in Nat \ {0} /\ m[Len(m)] = l
    BY <1>4, AppendProperties, LenProperties
  <1> HIDE DEF m
  <1> QED BY <1>2, <1>3, <1>4, <1>5

\* A character that is added to some lines, with others in front of them.
LEMMA LongerConcat ==
  ASSUME NEW P, NEW L \in Seq(LinesOf(P)), NEW M \in Seq(LinesOf(P)), M # <<>>, NEW c \in P
  PROVE  Longer(L \o M, c) = L \o Longer(M, c)
PROOF
  <1> DEFINE n == Len(M)
             l == M[n]
             F == SubSeq(M, 1, n - 1)
             B == L \o M
  <1>1. n \in Nat \ {0} /\ n \in 1..Len(M) /\ n - 1 \in Nat /\ n - 1 <= Len(M) /\ Len(L) \in Nat
    BY EmptySeq, LenProperties
  <1>2. l \in Seq(P) /\ F \in Seq(LinesOf(P))
    BY <1>1, ElementOfSeq, Sub DEF LinesOf
  <1>3. B \in Seq(LinesOf(P)) /\ Len(B) = Len(L) + n /\ B[Len(B)] = l /\ B # <<>>
    BY <1>1, ConcatProperties
  <1>4. <<c>> \in LinesOf(P) /\ Append(l, c) \in LinesOf(P)
    <2>1. <<c>> \in LinesOf(P)
      BY DEF LinesOf
    <2> HIDE DEF l
    <2>2. Append(l, c) \in Seq(P) /\ Append(l, c) # <<>>
      BY <1>2, AppendProperties
    <2> QED BY <2>1, <2>2 DEF LinesOf
  <1>5. SubSeq(B, 1, Len(B) - 1) = L \o F
    <2>1. n - 1 \in 0..Len(M) /\ Len(B) - 1 = Len(L) + (n - 1)
      BY <1>1, <1>3
    <2>2. SubSeq(L \o M, 1, Len(L) + (n - 1)) = L \o SubSeq(M, 1, n - 1)
      BY <2>1, SubConcat
    <2> QED BY <2>1, <2>2
  <1>6. \A A \in Seq(LinesOf(P)), x \in LinesOf(P) : L \o Append(A, x) = Append(L \o A, x)
    <2>1. SUFFICES ASSUME NEW A \in Seq(LinesOf(P)), NEW x \in LinesOf(P)
                   PROVE  L \o Append(A, x) = Append(L \o A, x)
      OBVIOUS
    <2>2. <<x>> \in Seq(LinesOf(P)) /\ L \o A \in Seq(LinesOf(P))
      BY ConcatProperties
    <2>3. (L \o A) \o <<x>> = L \o (A \o <<x>>)
      BY <2>2, ConcatAssociative
    <2> QED BY <2>2, <2>3, AppendIsConcat
  <1> HIDE DEF B, F, l
  <1>7. CASE EndsLine(l)
    <2>1. Longer(B, c) = Append(B, <<c>>)
      BY <1>3, <1>7 DEF Longer
    <2>2. Longer(M, c) = Append(M, <<c>>)
      BY <1>7 DEF Longer, l
    <2> QED BY <1>4, <1>6, <2>1, <2>2 DEF B
  <1>8. CASE ~EndsLine(l)
    <2>1. Longer(B, c) = Append(SubSeq(B, 1, Len(B) - 1), Append(l, c))
      BY <1>3, <1>8 DEF Longer
    <2>2. Longer(M, c) = Append(F, Append(l, c))
      BY <1>8 DEF Longer, l, F
    <2> QED BY <1>2, <1>4, <1>5, <1>6, <2>1, <2>2 DEF B
  <1> QED BY <1>7, <1>8

\* Where a line ends, the lines of a text can be cut in two.
LEMMA LinesConcat ==
  ASSUME NEW P, NEW v \in Seq(P), NEW u \in Seq(P), v = <<>> \/ EndsLine(v)
  PROVE  Lines(v \o u) = Lines(v) \o Lines(u)
PROOF
  <1> DEFINE V == Lines(v)
             Good == {t \in Seq(P) : Lines(v \o t) = V \o Lines(t)}
  <1>0. V \in Seq(LinesOf(P))
    BY LinesType
  <1>1. <<>> \in Good
    BY <1>0, LinesEmpty, EmptySeq, ConcatEmptySeq
  <1>2. ASSUME NEW t \in Seq(P), NEW c \in P, t \in Good PROVE Append(t, c) \in Good
    <2>1. v \o Append(t, c) = Append(v \o t, c) /\ v \o t \in Seq(P) /\ Append(t, c) \in Seq(P)
      <3>1. <<c>> \in Seq(P)
        OBVIOUS
      <3>2. v \o (t \o <<c>>) = (v \o t) \o <<c>> /\ v \o t \in Seq(P)
        BY <3>1, ConcatAssociative, ConcatProperties
      <3> QED BY <3>2, AppendIsConcat, AppendProperties
    <2>2. Lines(v \o Append(t, c)) = Longer(V \o Lines(t), c)
      BY <1>2, <2>1, LinesAppend
    <2>3. Lines(Append(t, c)) = Longer(Lines(t), c) /\ Lines(t) \in Seq(LinesOf(P))
      BY LinesAppend
    <2>4. CASE t # <<>>
      <3>1. Lines(t) # <<>>
        BY <2>4, LastLine
      <3>2. Longer(V \o Lines(t), c) = V \o Longer(Lines(t), c)
        <4> DEFINE M == Lines(t)
        <4> HIDE DEF M, V
        <4>1. M \in Seq(LinesOf(P)) /\ M # <<>>
          BY <2>3, <3>1 DEF M
        <4>2. Longer(V \o M, c) = V \o Longer(M, c)
          BY <1>0, <4>1, LongerConcat
        <4> QED BY <4>2 DEF M
      <3> QED BY <2>1, <2>2, <2>3, <3>2
    <2>5. CASE t = <<>>
      <3> DEFINE M == Lines(t)
      <3>1. M = <<>>
        BY <2>5, LinesEmpty
      <3>2. Longer(M, c) = <<<<c>>>>
        BY <3>1 DEF Longer
      <3>3. V \o M = V
        BY <1>0, <3>1, ConcatEmptySeq
      <3>4. V = <<>> \/ EndsLine(V[Len(V)])
        BY LastLine, LinesEmpty
      <3> HIDE DEF V
      <3>5. Longer(V, c) = Append(V, <<c>>)
        BY <3>4 DEF Longer
      <3>6. Append(V, <<c>>) = V \o <<<<c>>>>
        <4>1. <<c>> \in LinesOf(P)
          BY DEF LinesOf
        <4> QED BY <1>0, <4>1, AppendIsConcat
      <3> QED BY <2>1, <2>2, <2>3, <3>2, <3>3, <3>5, <3>6
    <2> QED BY <2>4, <2>5
  <1> HIDE DEF Good
  <1>3. Seq(P) \subseteq Good
    BY <1>1, <1>2, SeqInd
  <1> QED BY <1>3 DEF Good

\* What is not empty has a last element, and others before it.
LEMMA FrontAndLast ==
  ASSUME NEW S, NEW L \in Seq(S), L # <<>>
  PROVE  L = Append(SubSeq(L, 1, Len(L) - 1), L[Len(L)])
PROOF
  <1>1. PICK F \in Seq(S), x \in S : L = Append(F, x)
    BY SequenceEmptyOrAppend
  <1>2. Len(F) \in Nat /\ Len(L) = Len(F) + 1 /\ L[Len(L)] = x /\ Len(L) - 1 = Len(F)
    BY <1>1, AppendProperties, LenProperties
  <1>3. <<x>> \in Seq(S) /\ L = F \o <<x>>
    BY <1>1, AppendIsConcat
  <1>4. SubSeq(F \o <<x>>, 1, Len(F) + 0) = F \o SubSeq(<<x>>, 1, 0)
    BY <1>3, SubConcat
  <1>5. SubSeq(<<x>>, 1, 0) = <<>>
    BY <1>3, SubEmpty
  <1>6. F \o <<>> = F /\ Len(F) + 0 = Len(F)
    BY <1>2, ConcatEmptySeq
  <1> QED BY <1>1, <1>2, <1>3, <1>4, <1>5, <1>6

LEMMA FlatEmpty == Join(<<>>, <<>>) = <<>>
PROOF
  <1> DEFINE e == <<>>
  <1>1. e \in Seq(Text) /\ e \in Text /\ Len(e) = 0
    BY EmptySeq DEF Text
  <1> HIDE DEF e
  <1>2. PICK f : JoinRounds(f, e, e)
    BY <1>1, JoinLoop
  <1>3. Join(e, e) = f[0] /\ f[0] = <<>>
    BY <1>1, <1>2 DEF JoinRounds
  <1> QED BY <1>3 DEF e

LEMMA LineIsText == LinesOf(Char) \subseteq Text /\ \A P : P \subseteq Char => Seq(LinesOf(P)) \subseteq Seq(LinesOf(Char))
PROOF
  <1>1. LinesOf(Char) \subseteq Text
    BY DEF LinesOf, Text
  <1>2. ASSUME NEW P, P \subseteq Char PROVE Seq(LinesOf(P)) \subseteq Seq(LinesOf(Char))
    <2>1. Seq(P) \subseteq Seq(Char)
      BY <1>2, SeqMonotonic
    <2>2. LinesOf(P) \subseteq LinesOf(Char)
      BY <2>1 DEF LinesOf
    <2> QED BY <2>2, SeqMonotonic
  <1> QED BY <1>1, <1>2

\* What the lines make together.
Flat(lines) == Join(lines, <<>>)

LEMMA FlatAppend ==
  ASSUME NEW L \in Seq(Text), NEW x \in Text
  PROVE  Flat(L) \in Text /\ Flat(Append(L, x)) = Flat(L) \o x
PROOF
  <1> DEFINE e == <<>>
  <1>1. e \in Text
    BY EmptySeq DEF Text
  <1>2. /\ Join(L, e) \in Text
        /\ L = <<>> => Join(Append(L, x), e) = x
        /\ L # <<>> => Join(Append(L, x), e) = (Join(L, e) \o e) \o x
    <2> HIDE DEF e
    <2> QED BY <1>1, JoinAppend
  <1>3. Join(L, e) \o e = Join(L, e) /\ e \o x = x
    BY <1>2, ConcatEmptySeq DEF Text
  <1>4. L = <<>> => Join(L, e) = e
    BY FlatEmpty
  <1> HIDE DEF e
  <1>5. Join(Append(L, x), e) = Join(L, e) \o x
    BY <1>2, <1>3, <1>4
  <1> QED BY <1>2, <1>5 DEF Flat, e

LEMMA FlatLines ==
  ASSUME NEW s \in Text
  PROVE  Flat(Lines(s)) = s
PROOF
  <1> DEFINE Good == {t \in Text : Flat(Lines(t)) = t}
  <1>1. <<>> \in Good
    BY LinesEmpty, FlatEmpty, EmptySeq DEF Text, Flat
  <1>2. ASSUME NEW t \in Seq(Char), NEW c \in Char, t \in Good PROVE Append(t, c) \in Good
    <2> DEFINE L == Lines(t)
               n == Len(L)
    <2>1. L \in Seq(LinesOf(Char)) /\ L \in Seq(Text) /\ Lines(Append(t, c)) = Longer(L, c)
      <3>1. L \in Seq(LinesOf(Char)) /\ Lines(Append(t, c)) = Longer(L, c)
        BY LinesAppend, LinesType
      <3>2. Seq(LinesOf(Char)) \subseteq Seq(Text)
        BY LineIsText, SeqMonotonic
      <3> QED BY <3>1, <3>2
    <2>2. t \in Text /\ Append(t, c) \in Text /\ <<c>> \in Text /\ Append(t, c) = t \o <<c>>
          /\ Flat(L) = t
      BY <1>2, AppendText DEF Text
    <2> HIDE DEF L
    <2>3. CASE L = <<>> \/ EndsLine(L[n])
      <3>1. Longer(L, c) = Append(L, <<c>>)
        BY <2>3 DEF Longer
      <3>2. Flat(Append(L, <<c>>)) = Flat(L) \o <<c>>
        BY <2>1, <2>2, FlatAppend
      <3> QED BY <2>1, <2>2, <3>1, <3>2
    <2>4. CASE ~(L = <<>> \/ EndsLine(L[n]))
      <3> DEFINE F == SubSeq(L, 1, n - 1)
                 l == L[n]
      <3>1. Longer(L, c) = Append(F, Append(l, c))
        BY <2>4 DEF Longer
      <3>2. n \in 1..Len(L) /\ n - 1 \in Nat /\ n - 1 <= Len(L) /\ n = (n - 1) + 1
        BY <2>1, <2>4, EmptySeq, LenProperties
      <3>3. F \in Seq(Text) /\ l \in Text
        BY <2>1, <3>2, Sub, ElementOfSeq
      <3>4. L = Append(F, l)
        BY <2>1, <2>4, FrontAndLast
      <3> HIDE DEF F, l, n
      <3>5. Append(l, c) \in Text /\ Append(l, c) = l \o <<c>> /\ Flat(F) \in Text
        BY <3>3, AppendText, FlatAppend
      <3>6. Flat(Append(F, Append(l, c))) = Flat(F) \o (l \o <<c>>)
        BY <3>3, <3>5, FlatAppend
      <3>7. Flat(L) = Flat(F) \o l
        BY <3>3, <3>4, FlatAppend
      <3>8. (Flat(F) \o l) \o <<c>> = Flat(F) \o (l \o <<c>>)
        <4>1. PICK d \in Text : d = <<c>>
          BY <2>2
        <4>2. PICK v \in Text : v = Flat(F)
          BY <3>5
        <4>3. (v \o l) \o d = v \o (l \o d)
          BY <3>3, Assoc
        <4> QED BY <4>1, <4>2, <4>3, Zenon
      <3>9. Flat(Lines(Append(t, c))) = Append(t, c)
        BY <2>1, <2>2, <3>1, <3>6, <3>7, <3>8
      <3> QED BY <2>2, <3>9
    <2> QED BY <2>3, <2>4
  <1> HIDE DEF Good
  <1>3. Text \subseteq Good
    BY <1>1, <1>2, SeqInd DEF Text
  <1> QED BY <1>3 DEF Good

-----------------------------------------------------------------------------
(* Reading *)

Kinds == {"none", "job", "output", "result"}
Sec == [kind : Kinds, body : Text]
Secs == {s \in Seq(Sec) : s # <<>>}
Line == LinesOf(Char)
Readings ==
  [secs : Secs, gap : BOOLEAN, inBody : BOOLEAN, boundary : BOOLEAN, substatus : Text,
   closed : BOOLEAN, error : BOOLEAN]

LEMMA ChoppedType ==
  ASSUME NEW s \in Text
  PROVE  Chopped(s) \in Text
PROOF
  <1>1. CASE EndsLine(s)
    <2>1. Len(s) \in Nat \ {0} /\ Len(s) - 1 \in Nat /\ Len(s) - 1 <= Len(s)
      BY <1>1, EmptySeq, LenProperties DEF EndsLine, Text
    <2> QED BY <1>1, <2>1, Sub DEF Chopped, Text
  <1> QED BY <1>1 DEF Chopped

LEMMA TailType ==
  ASSUME NEW l \in Line
  PROVE  l \in Text /\ l # <<>> /\ l[1] \in Char /\ Tail(l) \in Text /\ Chopped(Tail(l)) \in Text
PROOF
  <1>1. l \in Seq(Char) /\ l # <<>>
    BY DEF Line, LinesOf
  <1>2. Tail(l) \in Text /\ l[1] \in Char
    BY <1>1, HeadTailProperties, EmptySeq, LenProperties, ElementOfSeq DEF Text
  <1> QED BY <1>1, <1>2, ChoppedType DEF Text

LEMMA InLastType ==
  ASSUME NEW rd \in Readings, NEW sec \in Sec
  PROVE  InLast(rd, sec) \in Readings /\ LastSec(rd) \in Sec
PROOF
  <1>1. rd.secs \in Seq(Sec) /\ rd.secs # <<>>
    BY DEF Readings, Secs
  <1>2. Len(rd.secs) \in Nat \ {0} /\ Len(rd.secs) \in 1..Len(rd.secs)
    BY <1>1, EmptySeq, LenProperties
  <1>3. [rd.secs EXCEPT ![Len(rd.secs)] = sec] \in Seq(Sec)
    BY <1>1, <1>2, ExceptSeq
  <1>4. [rd.secs EXCEPT ![Len(rd.secs)] = sec] # <<>>
    BY <1>1, <1>2, EmptySeq, ExceptSeq
  <1>5. [rd.secs EXCEPT ![Len(rd.secs)] = sec] \in Secs
    BY <1>3, <1>4 DEF Secs
  <1>6. InLast(rd, sec) = [rd EXCEPT !.secs = [rd.secs EXCEPT ![Len(rd.secs)] = sec]]
    BY DEF InLast
  <1>7. LastSec(rd) \in Sec
    BY <1>1, <1>2, ElementOfSeq DEF LastSec
  <1> DEFINE s == [rd.secs EXCEPT ![Len(rd.secs)] = sec]
  <1> HIDE DEF s
  <1>8. s \in Secs
    BY <1>5 DEF s
  <1>9. [rd EXCEPT !.secs = s] \in Readings
    BY <1>8 DEF Readings
  <1> QED BY <1>6, <1>7, <1>9 DEF s

LEMMA ReadLineType ==
  ASSUME NEW rd \in Readings, NEW line \in Line
  PROVE  ReadLine(rd, line) \in Readings
PROOF
  <1>1. line \in Text /\ Chopped(Tail(line)) \in Text
    BY TailType
  <1>2. \A r \in Readings : Cut(r) \in Readings
    <2>1. SUFFICES ASSUME NEW r \in Readings PROVE Cut(r) \in Readings
      OBVIOUS
    <2>2. LastSec(r) \in Sec
      <3>1. NewSection \in Sec
        BY EmptySeq DEF NewSection, Sec, Kinds, Text
      <3> QED BY <3>1, InLastType
    <2>3. Chopped(LastSec(r).body) \in Text
      BY <2>2, ChoppedType DEF Sec
    <2>4. [LastSec(r) EXCEPT !.body = Chopped(@)] \in Sec
      BY <2>2, <2>3 DEF Sec
    <2> QED BY <2>4, InLastType DEF Cut
  <1>3. NewSection \in Sec
    BY EmptySeq DEF NewSection, Sec, Kinds, Text
  <1>4. [Cut(rd) EXCEPT !.closed = TRUE] \in Readings
    BY <1>2 DEF Readings
  <1>5. [Cut(rd) EXCEPT !.gap = FALSE, !.inBody = FALSE, !.secs = Append(@, NewSection)] \in Readings
    <2> DEFINE r == Cut(rd)
    <2>1. r \in Readings
      BY <1>2
    <2> HIDE DEF r
    <2>2. r.secs \in Seq(Sec)
      BY <2>1 DEF Readings, Secs
    <2>3. Append(r.secs, NewSection) \in Secs
      BY <1>3, <2>2, AppendProperties DEF Secs
    <2> QED BY <2>1, <2>3 DEF Readings, r
  <1>6. BodyLine(rd, line) \in Readings
    <2> DEFINE r == IF line[1] # StatusMark THEN rd ELSE [rd EXCEPT !.substatus = Chopped(Tail(line))]
    <2>1. r \in Readings
      BY <1>1 DEF Readings
    <2> HIDE DEF r
    <2>2. LastSec(r) \in Sec
      BY <1>3, <2>1, InLastType
    <2>3. LastSec(r).body \o line \in Text
      BY <1>1, <2>2, Concat DEF Sec
    <2>4. [LastSec(r) EXCEPT !.body = @ \o line] \in Sec
      BY <2>2, <2>3 DEF Sec
    <2>5. InLast(r, [LastSec(r) EXCEPT !.body = @ \o line]) \in Readings
      BY <2>1, <2>4, InLastType
    <2> QED BY <2>5 DEF BodyLine, r
  <1>7. FirstBodyLine(rd, line) \in Readings
    <2>1. [rd EXCEPT !.inBody = TRUE] \in Readings /\ LastSec(rd) \in Sec
      BY <1>3, InLastType DEF Readings
    <2>2. [LastSec(rd) EXCEPT !.body = line] \in Sec
      BY <1>1, <2>1 DEF Sec
    <2> QED BY <2>1, <2>2, InLastType DEF FirstBodyLine
  <1>8. HeaderLine(rd, line) \in Readings
    <2>1. LastSec(rd) \in Sec
      BY <1>3, InLastType
    <2>2. \A kind \in Kinds : InLast(rd, [LastSec(rd) EXCEPT !.kind = kind]) \in Readings
      <3>1. SUFFICES ASSUME NEW kind \in Kinds
                     PROVE  InLast(rd, [LastSec(rd) EXCEPT !.kind = kind]) \in Readings
        OBVIOUS
      <3>2. [LastSec(rd) EXCEPT !.kind = kind] \in Sec
        BY <2>1 DEF Sec
      <3> QED BY <3>2, InLastType
    <2>3. [rd EXCEPT !.boundary = TRUE] \in Readings /\ [rd EXCEPT !.error = TRUE] \in Readings
      BY DEF Readings
    <2>4. "job" \in Kinds /\ "output" \in Kinds /\ "result" \in Kinds
      BY DEF Kinds
    <2> QED BY <2>2, <2>3, <2>4 DEF HeaderLine
  <1>9. [rd EXCEPT !.gap = TRUE] \in Readings
    BY DEF Readings
  <1> QED BY <1>4, <1>5, <1>6, <1>7, <1>8, <1>9 DEF ReadLine

LEMMA ReadLinesLoop ==
  ASSUME NEW rd \in Readings, NEW s \in Seq(Line)
  PROVE  \E at \in [0..Len(s) -> Readings] :
           /\ at[0] = rd
           /\ \A k \in 1..Len(s) : at[k] = ReadLine(at[k - 1], s[k])
           /\ ReadLines(rd, s) = at[Len(s)]
PROOF
  <1> DEFINE a0 == rd
             Loop(f) == f = [k \in 0..Len(s) |->
                              IF k = 0 THEN rd ELSE ReadLine(f[k - 1], s[k])]
             step == [x \in (1..Len(s)) \X Readings |-> ReadLine(x[2], s[x[1]])]
  <1>1. Len(s) \in Nat /\ a0 \in Readings /\ \A k \in 1..Len(s) : s[k] \in Line
    BY ElementOfSeq, LenProperties, EmptySeq DEF Text
  <1>2. step \in [(1..Len(s)) \X Readings -> Readings]
    BY <1>1, ReadLineType
  <1>3. PICK f \in [0..Len(s) -> Readings] :
               f[0] = a0 /\ \A k \in 1..Len(s) : f[k] = step[<<k, f[k - 1]>>]
    <2> HIDE DEF step, a0
    <2>1. \E f : History(f, Len(s), Readings, a0, step)
      BY <1>1, <1>2, Iterates
    <2> QED BY <2>1 DEF History
  <1>4. ASSUME NEW k \in 1..Len(s) PROVE f[k] = ReadLine(f[k - 1], s[k])
    <2>1. k - 1 \in 0..Len(s)
      BY <1>1
    <2>2. <<k, f[k - 1]>> \in (1..Len(s)) \X Readings
      BY <1>3, <2>1
    <2> QED BY <1>3, <2>2
  <1>5. Loop(f)
    BY <1>3, <1>4
  <1> DEFINE at == CHOOSE g : Loop(g)
  <1>6. Loop(at)
    <2> HIDE DEF Loop
    <2> QED BY <1>5
  <1>7. ReadLines(rd, s) = at[Len(s)]
    BY DEF ReadLines
  <1> HIDE DEF at
  <1>8. at[0] = a0 /\ \A k \in 1..Len(s) : at[k] = ReadLine(at[k - 1], s[k])
    BY <1>1, <1>6
  <1>9. \A k \in 0..Len(s) : at[k] = f[k]
    <2>1. Together(at, f, Len(s))
      BY <1>3, <1>4, <1>8 DEF Together
    <2> QED BY <1>1, <2>1, SameHistory
  <1>10. ReadLines(rd, s) = f[Len(s)]
    BY <1>1, <1>7, <1>9
  <1> QED BY <1>3, <1>4, <1>10

LEMMA ReadLinesAppend ==
  ASSUME NEW rd \in Readings, NEW s \in Seq(Line), NEW c \in Line
  PROVE  /\ ReadLines(rd, s) \in Readings
         /\ ReadLines(rd, Append(s, c)) = ReadLine(ReadLines(rd, s), c)
PROOF
  <1> DEFINE t == Append(s, c)
  <1>1. /\ t \in Seq(Line) /\ Len(t) = Len(s) + 1 /\ Len(s) \in Nat
        /\ t[Len(s) + 1] = c /\ \A k \in 1..Len(s) : t[k] = s[k]
    BY AppendProperties, LenProperties
  <1> HIDE DEF t
  <1>2. PICK f \in [0..Len(s) -> Readings] :
           /\ f[0] = rd
           /\ \A k \in 1..Len(s) : f[k] = ReadLine(f[k - 1], s[k])
           /\ ReadLines(rd, s) = f[Len(s)]
    BY ReadLinesLoop
  <1>3. PICK g \in [0..Len(t) -> Readings] :
           /\ g[0] = rd
           /\ \A k \in 1..Len(t) : g[k] = ReadLine(g[k - 1], t[k])
           /\ ReadLines(rd, t) = g[Len(t)]
    BY <1>1, ReadLinesLoop
  <1>4. \A k \in 0..Len(s) : f[k] = g[k]
    <2>1. f[0] = g[0]
      BY <1>2, <1>3
    <2>2. ASSUME NEW k \in 1..Len(s), f[k - 1] = g[k - 1] PROVE f[k] = g[k]
      <3>1. f[k] = ReadLine(f[k - 1], s[k])
        BY <1>2
      <3>2. k \in 1..Len(t) /\ t[k] = s[k]
        BY <1>1
      <3>3. g[k] = ReadLine(g[k - 1], t[k])
        BY <1>3, <3>2
      <3> QED BY <2>2, <3>1, <3>2, <3>3, Zenon
    <2>3. Together(f, g, Len(s))
      BY <2>1, <2>2 DEF Together
    <2>4. Len(s) \in Nat
      BY <1>1
    <2> QED BY <2>3, <2>4, SameHistory
  <1>5. g[Len(s) + 1] = ReadLine(g[Len(s)], c)
    <2>1. Len(s) + 1 \in 1..Len(t) /\ (Len(s) + 1) - 1 = Len(s)
      BY <1>1
    <2> QED BY <1>1, <1>3, <2>1
  <1>6. Len(s) \in 0..Len(s) /\ g[Len(s)] = f[Len(s)]
    BY <1>1, <1>4
  <1> QED BY <1>1, <1>2, <1>3, <1>5, <1>6 DEF t

LEMMA ReadLinesEmpty ==
  ASSUME NEW rd \in Readings
  PROVE  ReadLines(rd, <<>>) = rd
PROOF
  <1> DEFINE e == <<>>
  <1>1. e \in Seq(Line) /\ Len(e) = 0
    BY EmptySeq
  <1> HIDE DEF e
  <1>2. PICK at \in [0..Len(e) -> Readings] : at[0] = rd /\ ReadLines(rd, e) = at[Len(e)]
    BY <1>1, ReadLinesLoop, ZenonT(40)
  <1> QED BY <1>1, <1>2 DEF e

LEMMA ReadLinesConcat ==
  ASSUME NEW rd \in Readings, NEW v \in Seq(Line), NEW u \in Seq(Line)
  PROVE  /\ ReadLines(rd, v) \in Readings
         /\ ReadLines(rd, v \o u) = ReadLines(ReadLines(rd, v), u)
PROOF
  <1> DEFINE Good == {t \in Seq(Line) : ReadLines(rd, v \o t) = ReadLines(ReadLines(rd, v), t)}
  <1>0. ReadLines(rd, v) \in Readings
    <2>1. PICK at \in [0..Len(v) -> Readings] : ReadLines(rd, v) = at[Len(v)]
      BY ReadLinesLoop
    <2>2. Len(v) \in 0..Len(v)
      BY LenProperties
    <2> QED BY <2>1, <2>2
  <1>1. <<>> \in Good
    <2>1. v \o <<>> = v /\ <<>> \in Seq(Line)
      BY ConcatEmptySeq, EmptySeq
    <2> QED BY <1>0, <2>1, ReadLinesEmpty
  <1>2. ASSUME NEW t \in Seq(Line), NEW c \in Line, t \in Good PROVE Append(t, c) \in Good
    <2>1. v \o Append(t, c) = Append(v \o t, c) /\ v \o t \in Seq(Line) /\ Append(t, c) \in Seq(Line)
      <3>1. <<c>> \in Seq(Line)
        OBVIOUS
      <3>2. v \o (t \o <<c>>) = (v \o t) \o <<c>> /\ v \o t \in Seq(Line)
        BY <3>1, ConcatAssociative, ConcatProperties
      <3> QED BY <3>2, AppendIsConcat, AppendProperties
    <2>2. ReadLines(rd, v \o Append(t, c)) = ReadLine(ReadLines(rd, v \o t), c)
      <3> DEFINE w == v \o t
      <3> HIDE DEF w
      <3>1. w \in Seq(Line)
        BY <2>1 DEF w
      <3>2. ReadLines(rd, Append(w, c)) = ReadLine(ReadLines(rd, w), c)
        BY <3>1, ReadLinesAppend
      <3> QED BY <2>1, <3>2 DEF w
    <2>3. ReadLines(ReadLines(rd, v), Append(t, c)) = ReadLine(ReadLines(ReadLines(rd, v), t), c)
      BY <1>0, ReadLinesAppend
    <2> QED BY <1>2, <2>1, <2>2, <2>3
  <1> HIDE DEF Good
  <1>3. Seq(Line) \subseteq Good
    BY <1>1, <1>2, SeqInd
  <1> QED BY <1>0, <1>3 DEF Good

\* A text that is read, and one line more.
ReadText(rd, text) == ReadLines(rd, Lines(text))

LEMMA ReadTextConcat ==
  ASSUME NEW rd \in Readings, NEW v \in Text, NEW u \in Text, v = <<>> \/ EndsLine(v)
  PROVE  /\ ReadText(rd, v) \in Readings /\ v \o u \in Text
         /\ ReadText(rd, v \o u) = ReadText(ReadText(rd, v), u)
PROOF
  <1>1. Lines(v) \in Seq(Line) /\ Lines(u) \in Seq(Line)
    BY LinesType DEF Text, Line
  <1>2. Lines(v \o u) = Lines(v) \o Lines(u)
    BY LinesConcat DEF Text
  <1>3. v \o u \in Text
    BY Concat
  <1> DEFINE V == Lines(v)
             U == Lines(u)
  <1> HIDE DEF V, U
  <1>4. ReadLines(rd, V) \in Readings /\ ReadLines(rd, V \o U) = ReadLines(ReadLines(rd, V), U)
    BY <1>1, ReadLinesConcat DEF V, U
  <1> QED BY <1>2, <1>3, <1>4 DEF V, U, ReadText

LEMMA LineIsRead ==
  ASSUME NEW rd \in Readings, NEW l \in Line
  PROVE  ReadLines(rd, <<l>>) = ReadLine(rd, l)
PROOF
  <1>1. <<>> \in Seq(Line) /\ Append(<<>>, l) = <<l>>
    BY EmptySeq
  <1> DEFINE e == <<>>
  <1> HIDE DEF e
  <1>2. ReadLines(rd, Append(e, l)) = ReadLine(ReadLines(rd, e), l)
    BY <1>1, ReadLinesAppend DEF e
  <1>3. ReadLines(rd, e) = rd
    BY ReadLinesEmpty DEF e
  <1> QED BY <1>1, <1>2, <1>3 DEF e

LEMMA OneAndTwo ==
  /\ \A x : Append(<<>>, x) = <<x>>
  /\ \A S : \A x, y \in S : Append(<<x>>, y) = <<x, y>>
PROOF
  <1>1. ASSUME NEW x PROVE Append(<<>>, x) = <<x>>
    OBVIOUS
  <1>2. ASSUME NEW S, NEW x \in S, NEW y \in S PROVE Append(<<x>>, y) = <<x, y>>
    <2>1. <<x>> \in Seq(S) /\ <<x, y>> \in Seq(S) /\ Len(<<x>>) = 1 /\ Len(<<x, y>>) = 2
          /\ <<x>>[1] = x /\ <<x, y>>[1] = x /\ <<x, y>>[2] = y
      OBVIOUS
    <2> DEFINE a == <<x>>
               b == <<x, y>>
    <2> HIDE DEF a, b
    <2>2. Append(a, y) \in Seq(S) /\ Len(Append(a, y)) = 2
          /\ Append(a, y)[1] = x /\ Append(a, y)[2] = y
      BY <2>1, AppendProperties DEF a
    <2>3. b \in Seq(S) /\ Len(b) = 2 /\ b[1] = x /\ b[2] = y
      BY <2>1 DEF b
    <2>4. \A i \in 1..2 : i = 1 \/ i = 2
      OBVIOUS
    <2>5. Append(a, y) = b
      BY <2>2, <2>3, <2>4, SeqEqual
    <2> QED BY <2>5 DEF a, b
  <1> QED BY <1>1, <1>2

LEMMA OneLine ==
  ASSUME NEW c \in Char
  PROVE  /\ <<NL>> \in Line /\ <<NL>> \in Text /\ EndsLine(<<NL>>)
         /\ <<c, NL>> \in Line /\ <<c, NL>> \in Text /\ EndsLine(<<c, NL>>)
         /\ Lines(<<NL>>) = <<<<NL>>>>
         /\ c # NL => Lines(<<c, NL>>) = <<<<c, NL>>>>
         /\ <<c, NL>>[1] = c /\ <<NL>>[1] = NL /\ <<NL>> # <<c, NL>>
PROOF
  <1>1. NL \in Char
    BY CharFacts
  <1> DEFINE n == NL
             e == <<>>
  <1> HIDE DEF n
  <1>2. n \in Char
    BY <1>1 DEF n
  <1>3. <<n>> \in Line /\ <<n>> \in Text /\ <<c, n>> \in Line /\ <<c, n>> \in Text
        /\ <<c, n>>[1] = c /\ <<n>>[1] = n /\ <<n>> # <<c, n>>
    BY <1>2 DEF Line, LinesOf, Text
  <1>4. EndsLine(<<n>>) /\ EndsLine(<<c, n>>)
    BY DEF EndsLine, n
  <1>5. e \in Seq(Char) /\ Append(e, n) = <<n>> /\ Append(e, c) = <<c>> /\ Append(<<c>>, n) = <<c, n>>
        /\ <<c>> \in Seq(Char)
    BY <1>2, EmptySeq, OneAndTwo, AppendText DEF Text
  <1>6. Longer(e, n) = <<<<n>>>> /\ Longer(e, c) = <<<<c>>>>
    BY DEF Longer
  <1>7. Lines(e) = e
    BY LinesEmpty
  <1> HIDE DEF e
  <1>8. Lines(Append(e, n)) = Longer(Lines(e), n) /\ Lines(Append(e, c)) = Longer(Lines(e), c)
    BY <1>2, <1>5, LinesAppend
  <1>9. ASSUME c # n PROVE Lines(<<c, n>>) = <<<<c, n>>>>
    <2>1. Lines(Append(<<c>>, n)) = Longer(<<<<c>>>>, n)
      <3> DEFINE b == <<c>>
      <3>1. b \in Seq(Char) /\ Lines(b) = <<b>>
        BY <1>5, <1>6, <1>7, <1>8
      <3> HIDE DEF b
      <3>2. Lines(Append(b, n)) = Longer(Lines(b), n)
        BY <1>2, <3>1, LinesAppend
      <3> QED BY <3>1, <3>2 DEF b
    <2>2. ~EndsLine(<<c>>)
      BY <1>9 DEF EndsLine, n
    <2>3. Longer(<<<<c>>>>, n) = <<<<c, n>>>>
      <3> DEFINE b == <<c>>
                 L == <<b>>
      <3>1. Len(L) = 1 /\ L[Len(L)] = b /\ SubSeq(L, 1, Len(L) - 1) = <<>> /\ L # <<>>
        BY <1>5, SubEmpty
      <3>2. Append(b, n) = <<c, n>> /\ Append(<<>>, <<c, n>>) = <<<<c, n>>>>
        BY <1>2, OneAndTwo
      <3>3. ~EndsLine(b)
        BY <2>2
      <3> HIDE DEF b, L
      <3>4. Longer(L, n) = Append(SubSeq(L, 1, Len(L) - 1), Append(L[Len(L)], n))
        BY <3>1, <3>3 DEF Longer
      <3>5. Longer(L, n) = <<<<c, n>>>>
        BY <3>1, <3>2, <3>4, Zenon
      <3> QED BY <3>5 DEF L, b
    <2> QED BY <1>5, <2>1, <2>3
  <1> QED BY <1>3, <1>4, <1>5, <1>6, <1>7, <1>8, <1>9 DEF n

LEMMA ReadOne ==
  ASSUME NEW rd \in Readings, NEW c \in Char
  PROVE  /\ ReadText(rd, <<NL>>) = ReadLine(rd, <<NL>>)
         /\ c # NL => ReadText(rd, <<c, NL>>) = ReadLine(rd, <<c, NL>>)
PROOF
  <1>1. ReadLines(rd, <<<<NL>>>>) = ReadLine(rd, <<NL>>)
    <2> DEFINE l == <<NL>>
    <2> HIDE DEF l
    <2>1. l \in Line
      BY OneLine DEF l
    <2>2. ReadLines(rd, <<l>>) = ReadLine(rd, l)
      BY <2>1, LineIsRead
    <2> QED BY <2>2 DEF l
  <1>2. ReadLines(rd, <<<<c, NL>>>>) = ReadLine(rd, <<c, NL>>)
    <2> DEFINE l == <<c, NL>>
    <2> HIDE DEF l
    <2>1. l \in Line
      BY OneLine DEF l
    <2>2. ReadLines(rd, <<l>>) = ReadLine(rd, l)
      BY <2>1, LineIsRead
    <2> QED BY <2>2 DEF l
  <1> QED BY <1>1, <1>2, OneLine DEF ReadText

-----------------------------------------------------------------------------
(* The lines of a job file, one by one *)

Tags == {JobTag, OutputTag, ResultTag, BoundaryTag}

LEMMA TokenFacts ==
  /\ JobTag \in Char /\ OutputTag \in Char /\ ResultTag \in Char /\ BoundaryTag \in Char
  /\ Boundary \in Char /\ EndBoundary \in Char /\ NL \in Char
  /\ JobTag # OutputTag /\ JobTag # ResultTag /\ OutputTag # ResultTag
  /\ JobTag # BoundaryTag /\ OutputTag # BoundaryTag /\ ResultTag # BoundaryTag
  /\ \A t \in Tags : t # Boundary /\ t # EndBoundary /\ t # NL /\ t # StatusMark
  /\ Boundary # EndBoundary /\ Boundary # NL /\ EndBoundary # NL
  /\ StatusMark # NL /\ StatusMark # Boundary /\ StatusMark # EndBoundary
PROOF
  <1>1. JobTag \in Char /\ OutputTag \in Char /\ ResultTag \in Char /\ BoundaryTag \in Char
        /\ Boundary \in Char /\ EndBoundary \in Char /\ NL \in Char
    BY Zenon DEF JobTag, OutputTag, ResultTag, BoundaryTag, Boundary, EndBoundary, NL, Char
  <1>2. JobTag # OutputTag /\ JobTag # ResultTag /\ OutputTag # ResultTag
        /\ JobTag # BoundaryTag /\ OutputTag # BoundaryTag /\ ResultTag # BoundaryTag
    BY Zenon DEF JobTag, OutputTag, ResultTag, BoundaryTag
  <1>3. \A t \in Tags : t # Boundary /\ t # EndBoundary /\ t # NL /\ t # StatusMark
    <2>1. JobTag # Boundary /\ JobTag # EndBoundary /\ JobTag # NL /\ JobTag # StatusMark
      BY Zenon DEF JobTag, Boundary, EndBoundary, NL, StatusMark
    <2>2. OutputTag # Boundary /\ OutputTag # EndBoundary /\ OutputTag # NL /\ OutputTag # StatusMark
      BY Zenon DEF OutputTag, Boundary, EndBoundary, NL, StatusMark
    <2>3. ResultTag # Boundary /\ ResultTag # EndBoundary /\ ResultTag # NL /\ ResultTag # StatusMark
      BY Zenon DEF ResultTag, Boundary, EndBoundary, NL, StatusMark
    <2>4. BoundaryTag # Boundary /\ BoundaryTag # EndBoundary /\ BoundaryTag # NL
          /\ BoundaryTag # StatusMark
      BY Zenon DEF BoundaryTag, Boundary, EndBoundary, NL, StatusMark
    <2> QED BY <2>1, <2>2, <2>3, <2>4, Zenon DEF Tags
  <1>4. Boundary # EndBoundary /\ Boundary # NL /\ EndBoundary # NL
    BY Zenon DEF Boundary, EndBoundary, NL
  <1>5. StatusMark # NL /\ StatusMark # Boundary /\ StatusMark # EndBoundary
    BY Zenon DEF Boundary, EndBoundary, NL, StatusMark
  <1> QED BY <1>1, <1>2, <1>3, <1>4, <1>5, Zenon

\* What is known after some sections, and a part of the next.
\* A section with another kind, or more in its body.
Named(sec, kind) == [kind |-> kind, body |-> sec.body]
More(sec, x) == [kind |-> sec.kind, body |-> sec.body \o x]

Places == {"header", "gap", "body", "closed"}
Answers == {"yes", "no"}
Known(S, sec, at, bnd, st) ==
  [secs |-> Append(S, sec), gap |-> at # "header", inBody |-> at = "body",
   boundary |-> bnd = "yes", substatus |-> st, closed |-> at = "closed", error |-> FALSE]

IsKnown(k, S, sec, at, bnd, st) ==
  /\ k \in Readings
  /\ k.secs = Append(S, sec) /\ k.gap = (at # "header") /\ k.inBody = (at = "body")
  /\ k.boundary = (bnd = "yes") /\ k.substatus = st /\ k.closed = (at = "closed") /\ ~k.error

LEMMA SameReading ==
  ASSUME NEW r \in Readings, NEW q \in Readings,
         r.secs = q.secs, r.gap = q.gap, r.inBody = q.inBody, r.boundary = q.boundary,
         r.substatus = q.substatus, r.closed = q.closed, r.error = q.error
  PROVE  r = q
PROOF
  BY DEF Readings

LEMMA KnownIs ==
  ASSUME NEW S \in Seq(Sec), NEW sec \in Sec, NEW at \in Places,
         NEW bnd \in Answers, NEW st \in Text
  PROVE  /\ IsKnown(Known(S, sec, at, bnd, st), S, sec, at, bnd, st)
         /\ LastSec(Known(S, sec, at, bnd, st)) = sec
PROOF
  <1>1. Append(S, sec) \in Seq(Sec) /\ Append(S, sec) # <<>> /\ Len(S) \in Nat
        /\ Len(Append(S, sec)) = Len(S) + 1 /\ Append(S, sec)[Len(S) + 1] = sec
    BY AppendProperties, LenProperties
  <1>2. Append(S, sec) \in Secs
    BY <1>1 DEF Secs
  <1> QED BY <1>1, <1>2 DEF Readings, Known, LastSec, IsKnown

LEMMA IsKnownIs ==
  ASSUME NEW S \in Seq(Sec), NEW sec \in Sec, NEW at \in Places,
         NEW bnd \in Answers, NEW st \in Text, NEW q,
         IsKnown(q, S, sec, at, bnd, st)
  PROVE  q = Known(S, sec, at, bnd, st)
PROOF
  <1> DEFINE k == Known(S, sec, at, bnd, st)
  <1>1. IsKnown(k, S, sec, at, bnd, st)
    BY KnownIs DEF Places, Answers
  <1> HIDE DEF k
  <1>2. q = k
    BY <1>1, SameReading DEF IsKnown, Readings
  <1> QED BY <1>2 DEF k

\* The last section of some, changed.
LEMMA ExceptLast ==
  ASSUME NEW T, NEW S \in Seq(T), NEW x \in T, NEW y \in T
  PROVE  [Append(S, x) EXCEPT ![Len(Append(S, x))] = y] = Append(S, y)
PROOF
  <1> DEFINE a == Append(S, x)
             b == Append(S, y)
             c == [a EXCEPT ![Len(a)] = y]
  <1>1. /\ Len(S) \in Nat /\ a \in Seq(T) /\ Len(a) = Len(S) + 1
        /\ \A i \in 1..Len(S) : a[i] = S[i]
    BY AppendProperties, LenProperties
  <1>2. b \in Seq(T) /\ Len(b) = Len(S) + 1 /\ b[Len(S) + 1] = y
        /\ \A i \in 1..Len(S) : b[i] = S[i]
    BY AppendProperties, LenProperties
  <1> HIDE DEF a, b
  <1>3. c \in Seq(T) /\ Len(c) = Len(a)
        /\ \A i \in 1..Len(a) : c[i] = IF i = Len(a) THEN y ELSE a[i]
    BY <1>1, ExceptSeq
  <1>4. \A i \in 1..Len(c) : c[i] = b[i]
    BY <1>1, <1>2, <1>3
  <1> HIDE DEF c
  <1>5. c = b
    BY <1>1, <1>2, <1>3, <1>4, SeqEqual
  <1> QED BY <1>5 DEF a, b, c

LEMMA KnownLast ==
  ASSUME NEW S \in Seq(Sec), NEW sec \in Sec, NEW at \in Places,
         NEW bnd \in Answers, NEW st \in Text, NEW new \in Sec
  PROVE  InLast(Known(S, sec, at, bnd, st), new)
           = Known(S, new, at, bnd, st)
PROOF
  <1> DEFINE k == Known(S, sec, at, bnd, st)
             q == InLast(k, new)
             a == Append(S, sec)
             c == [a EXCEPT ![Len(a)] = new]
  <1>1. IsKnown(k, S, sec, at, bnd, st)
    BY KnownIs DEF Places, Answers
  <1>2. c = Append(S, new)
    BY ExceptLast
  <1> HIDE DEF k
  <1>3. q \in Readings
    BY <1>1, InLastType DEF IsKnown
  <1> HIDE DEF c
  <1>4. q = [k EXCEPT !.secs = c]
    BY <1>1 DEF InLast, c, IsKnown
  <1> HIDE DEF a, q
  <1>5. q.secs = c /\ q.gap = k.gap /\ q.inBody = k.inBody /\ q.boundary = k.boundary
        /\ q.substatus = k.substatus /\ q.closed = k.closed /\ q.error = k.error
    BY <1>1, <1>4 DEF Readings, IsKnown
  <1>6. IsKnown(q, S, new, at, bnd, st)
    BY <1>1, <1>2, <1>3, <1>5 DEF IsKnown
  <1>7. q = Known(S, new, at, bnd, st)
    BY <1>6, IsKnownIs DEF Places, Answers
  <1> QED BY <1>7 DEF q, k

LEMMA LineFacts ==
  /\ \A c \in Char : /\ <<c, NL>> \in Line /\ <<NL>> \in Line
                     /\ <<c, NL>>[1] = c /\ <<NL>>[1] = NL /\ <<NL>> # <<c, NL>>
  /\ \A c, d \in Char : c # d => <<c, NL>> # <<d, NL>>
PROOF
  <1>1. ASSUME NEW c \in Char PROVE <<c, NL>>[1] = c /\ <<NL>>[1] = NL /\ <<NL>> # <<c, NL>>
    OBVIOUS
  <1>2. ASSUME NEW c \in Char, NEW d \in Char, c # d PROVE <<c, NL>> # <<d, NL>>
    BY <1>2
  <1> QED BY <1>1, <1>2, OneLine

LEMMA ReadTag ==
  ASSUME NEW S \in Seq(Sec), NEW sec \in Sec, NEW bnd \in Answers, NEW st \in Text,
         NEW kind \in {"job", "output", "result"}
  PROVE  /\ Named(sec, kind) \in Sec
         /\ TagOf(kind) \in Char /\ TagOf(kind) # NL
         /\ ReadLine(Known(S, sec, "header", bnd, st), <<TagOf(kind), NL>>)
              = Known(S, Named(sec, kind), "header", bnd, st)
PROOF
  <1> DEFINE k == Known(S, sec, "header", bnd, st)
             l == <<TagOf(kind), NL>>
             t == TagOf(kind)
             new == Named(sec, kind)
  <1>1. IsKnown(k, S, sec, "header", bnd, st) /\ LastSec(k) = sec
    BY KnownIs DEF Places, Answers
  <1>2. /\ kind = "job" => t = JobTag
        /\ kind = "output" => t = OutputTag
        /\ kind = "result" => t = ResultTag
    BY DEF TagOf
  <1>3. t \in Char /\ t \in Tags /\ t # BoundaryTag
    BY <1>2, TokenFacts DEF Tags
  <1>4. t # Boundary /\ t # EndBoundary /\ t # NL /\ t # StatusMark
    BY <1>3, TokenFacts
  <1>5. l[1] = t /\ l # <<Boundary, NL>> /\ l # <<EndBoundary, NL>> /\ l # <<NL>> /\ l \in Line
    <2> HIDE DEF t
    <2>1. Boundary \in Char /\ EndBoundary \in Char
      BY TokenFacts
    <2> QED BY <1>3, <1>4, <2>1, LineFacts DEF t
  <1>6. new \in Sec /\ [sec EXCEPT !.kind = kind] = new
    BY DEF Sec, Kinds, Named
  <1> HIDE DEF t, l, k
  <1>7. ReadLine(k, l) = HeaderLine(k, l)
    BY <1>1, <1>4, <1>5 DEF ReadLine, IsKnown
  <1>8. HeaderLine(k, l) = InLast(k, [LastSec(k) EXCEPT !.kind = kind])
    <2>1. JobTag # OutputTag /\ JobTag # ResultTag /\ OutputTag # ResultTag
      BY TokenFacts
    <2> QED BY <1>2, <1>3, <1>5, <2>1 DEF HeaderLine
  <1>9. InLast(k, new) = Known(S, new, "header", bnd, st)
    BY <1>6, KnownLast DEF k, Places, Answers
  <1> QED BY <1>1, <1>3, <1>4, <1>6, <1>7, <1>8, <1>9 DEF t, l, k

LEMMA ReadBoundaryTag ==
  ASSUME NEW S \in Seq(Sec), NEW sec \in Sec, NEW bnd \in Answers, NEW st \in Text
  PROVE  ReadLine(Known(S, sec, "header", bnd, st), <<BoundaryTag, NL>>)
           = Known(S, sec, "header", "yes", st)
PROOF
  <1> DEFINE k == Known(S, sec, "header", bnd, st)
             l == <<BoundaryTag, NL>>
             q == [k EXCEPT !.boundary = TRUE]
  <1>1. IsKnown(k, S, sec, "header", bnd, st) /\ LastSec(k) = sec
    BY KnownIs DEF Places, Answers
  <1>2. BoundaryTag # Boundary /\ BoundaryTag # EndBoundary /\ BoundaryTag # NL
        /\ BoundaryTag # StatusMark /\ BoundaryTag \in Char
    BY TokenFacts DEF Tags
  <1>3. l[1] = BoundaryTag /\ l # <<Boundary, NL>> /\ l # <<EndBoundary, NL>> /\ l # <<NL>>
    <2>1. Boundary \in Char /\ EndBoundary \in Char
      BY TokenFacts
    <2> QED BY <1>2, <2>1, LineFacts
  <1> HIDE DEF l, k
  <1>4. ReadLine(k, l) = HeaderLine(k, l)
    BY <1>1, <1>2, <1>3 DEF ReadLine, IsKnown
  <1>5. HeaderLine(k, l) = q
    BY <1>3 DEF HeaderLine
  <1>6. IsKnown(q, S, sec, "header", "yes", st)
    BY <1>1 DEF IsKnown, Readings
  <1> HIDE DEF q
  <1>7. q = Known(S, sec, "header", "yes", st)
    BY <1>6, IsKnownIs DEF Places, Answers
  <1> QED BY <1>4, <1>5, <1>7 DEF l, k

LEMMA ReadGap ==
  ASSUME NEW S \in Seq(Sec), NEW sec \in Sec, NEW bnd \in Answers, NEW st \in Text
  PROVE  ReadLine(Known(S, sec, "header", bnd, st), <<NL>>)
           = Known(S, sec, "gap", bnd, st)
PROOF
  <1> DEFINE k == Known(S, sec, "header", bnd, st)
             l == <<NL>>
             q == [k EXCEPT !.gap = TRUE]
  <1>1. IsKnown(k, S, sec, "header", bnd, st) /\ LastSec(k) = sec
    BY KnownIs DEF Places, Answers
  <1>2. l[1] = NL /\ l # <<Boundary, NL>> /\ l # <<EndBoundary, NL>> /\ NL # StatusMark
    BY TokenFacts, LineFacts
  <1>3. l = <<NL>>
    OBVIOUS
  <1> HIDE DEF l, k
  <1>4. ReadLine(k, l) = q
    BY <1>1, <1>2, <1>3 DEF ReadLine, IsKnown
  <1>6. IsKnown(q, S, sec, "gap", bnd, st)
    BY <1>1 DEF IsKnown, Readings
  <1> HIDE DEF q
  <1>7. q = Known(S, sec, "gap", bnd, st)
    BY <1>6, IsKnownIs DEF Places, Answers
  <1> QED BY <1>4, <1>7 DEF l, k

LEMMA ReadFirst ==
  ASSUME NEW S \in Seq(Sec), NEW sec \in Sec, NEW bnd \in Answers, NEW st \in Text
  PROVE  /\ [kind |-> sec.kind, body |-> <<NL>>] \in Sec
         /\ ReadLine(Known(S, sec, "gap", bnd, st), <<NL>>)
              = Known(S, [kind |-> sec.kind, body |-> <<NL>>], "body", bnd, st)
PROOF
  <1> DEFINE k == Known(S, sec, "gap", bnd, st)
             l == <<NL>>
             q == [k EXCEPT !.inBody = TRUE]
             new == [kind |-> sec.kind, body |-> l]
  <1>1. IsKnown(k, S, sec, "gap", bnd, st) /\ LastSec(k) = sec
    BY KnownIs DEF Places, Answers
  <1>2. l[1] = NL /\ l # <<Boundary, NL>> /\ l # <<EndBoundary, NL>> /\ NL # StatusMark
    BY TokenFacts, LineFacts
  <1>3. l \in Text
    BY OneLine, TokenFacts
  <1> HIDE DEF l, k
  <1>4. ReadLine(k, l) = FirstBodyLine(k, l)
    BY <1>1, <1>2, <1>3 DEF ReadLine, IsKnown
  <1>5. new \in Sec /\ [sec EXCEPT !.body = l] = new
    BY <1>3 DEF Sec
  <1>6. IsKnown(q, S, sec, "body", bnd, st)
    BY <1>1 DEF IsKnown, Readings
  <1>7. FirstBodyLine(k, l) = InLast(q, new)
    BY <1>1, <1>5 DEF FirstBodyLine
  <1> HIDE DEF q
  <1>8. q = Known(S, sec, "body", bnd, st)
    BY <1>6, IsKnownIs DEF Places, Answers
  <1>9. InLast(q, new) = Known(S, new, "body", bnd, st)
    BY <1>5, <1>8, KnownLast DEF Places, Answers
  <1> QED BY <1>4, <1>5, <1>7, <1>9 DEF l, k

\* The sub-status after one more line.
Status(st, line) == IF line[1] = StatusMark THEN Chopped(Tail(line)) ELSE st

LEMMA ReadBody ==
  ASSUME NEW S \in Seq(Sec), NEW sec \in Sec, NEW st \in Text,
         NEW l \in Line, l # <<Boundary, NL>>, l # <<EndBoundary, NL>>, NEW bnd \in Answers
  PROVE  /\ More(sec, l) \in Sec /\ Status(st, l) \in Text
         /\ ReadLine(Known(S, sec, "body", bnd, st), l)
              = Known(S, More(sec, l), "body", bnd, Status(st, l))
PROOF
  <1> DEFINE k == Known(S, sec, "body", bnd, st)
             q == IF l[1] # StatusMark THEN k ELSE [k EXCEPT !.substatus = Chopped(Tail(l))]
             b == sec.body \o l
             new == More(sec, l)
  <1>1. IsKnown(k, S, sec, "body", bnd, st) /\ LastSec(k) = sec
    BY KnownIs DEF Places, Answers
  <1>2. l \in Text /\ Chopped(Tail(l)) \in Text /\ Status(st, l) \in Text
    BY TailType DEF Status
  <1>3. b \in Text
    BY <1>2, Concat DEF Sec
  <1> HIDE DEF k, b
  <1>4. ReadLine(k, l) = BodyLine(k, l)
    BY <1>1, <1>2, <1>3 DEF ReadLine, IsKnown
  <1>5. new \in Sec /\ [sec EXCEPT !.body = b] = new
    <2>1. new = [kind |-> sec.kind, body |-> b]
      BY DEF More, b
    <2> HIDE DEF new
    <2> QED BY <1>3, <2>1 DEF Sec
  <1>6. IsKnown(q, S, sec, "body", bnd, Status(st, l))
    BY <1>1, <1>2 DEF IsKnown, Readings, Status
  <1>7. BodyLine(k, l) = InLast(q, [LastSec(q) EXCEPT !.body = @ \o l])
    BY DEF BodyLine
  <1> HIDE DEF q
  <1>8. q = Known(S, sec, "body", bnd, Status(st, l))
    BY <1>2, <1>6, IsKnownIs DEF Places, Answers
  <1>9. LastSec(q) = sec
    BY <1>2, <1>8, KnownIs DEF Places, Answers
  <1>10. InLast(q, new) = Known(S, new, "body", bnd, Status(st, l))
    BY <1>2, <1>5, <1>8, KnownLast DEF Places, Answers
  <1> QED BY <1>2, <1>4, <1>5, <1>7, <1>9, <1>10 DEF b, k

\* A section whose body ends where a boundary begins.
Closed(sec) == [kind |-> sec.kind, body |-> Chopped(sec.body)]

LEMMA ReadEnd ==
  ASSUME NEW S \in Seq(Sec), NEW sec \in Sec, NEW at \in Places \ {"closed"}, NEW st \in Text
  PROVE  /\ Closed(sec) \in Sec /\ NewSection \in Sec /\ Append(S, Closed(sec)) \in Seq(Sec)
         /\ ReadLine(Known(S, sec, at, "yes", st), <<Boundary, NL>>)
              = Known(Append(S, Closed(sec)), NewSection, "header", "yes", st)
         /\ at = "gap" => ReadLine(Known(S, sec, at, "yes", st), <<EndBoundary, NL>>)
                            = Known(S, Closed(sec), "closed", "yes", st)
PROOF
  <1> DEFINE k == Known(S, sec, at, "yes", st)
             c == Cut(k)
             b == <<Boundary, NL>>
             e == <<EndBoundary, NL>>
             T == Append(S, Closed(sec))
             q == [c EXCEPT !.gap = FALSE, !.inBody = FALSE, !.secs = Append(@, NewSection)]
             r == [c EXCEPT !.closed = TRUE]
  <1>1. IsKnown(k, S, sec, at, "yes", st) /\ LastSec(k) = sec
    BY KnownIs DEF Places, Answers
  <1>2. Closed(sec) \in Sec /\ NewSection \in Sec
    BY ChoppedType, EmptySeq DEF Closed, Sec, NewSection, Kinds, Text
  <1>3. T \in Seq(Sec) /\ Append(T, NewSection) \in Seq(Sec) /\ Append(T, NewSection) # <<>>
    <2>1. T \in Seq(Sec)
      BY <1>2, AppendProperties
    <2> HIDE DEF T
    <2> QED BY <1>2, <2>1, AppendProperties
  <1>4. b # e
    BY TokenFacts, LineFacts
  <1> HIDE DEF k, b, e
  <1>5. [sec EXCEPT !.body = Chopped(@)] = Closed(sec)
    BY DEF Sec, Closed
  <1>6. c = Known(S, Closed(sec), at, "yes", st)
    <2>1. InLast(k, Closed(sec)) = Known(S, Closed(sec), at, "yes", st)
      BY <1>2, KnownLast DEF k, Places, Answers
    <2> QED BY <1>1, <1>5, <2>1 DEF Cut
  <1>7. IsKnown(c, S, Closed(sec), at, "yes", st)
    BY <1>2, <1>6, KnownIs DEF Places, Answers
  <1> HIDE DEF c
  <1>8. ReadLine(k, b) = q
    BY <1>1, <1>4 DEF ReadLine, IsKnown, Places, b, e, c
  <1>9. q = Known(T, NewSection, "header", "yes", st)
    <2>1. c.secs = T
      BY <1>7 DEF IsKnown
    <2> HIDE DEF T
    <2> DEFINE U == Append(T, NewSection)
    <2>2. U \in Secs
      BY <1>3 DEF Secs
    <2> HIDE DEF U
    <2>3. q = [c EXCEPT !.gap = FALSE, !.inBody = FALSE, !.secs = U]
      BY <2>1 DEF U
    <2> HIDE DEF q
    <2>4. q \in Readings /\ q.secs = U /\ q.gap = FALSE /\ q.inBody = FALSE
          /\ q.boundary = c.boundary /\ q.substatus = c.substatus /\ q.closed = c.closed
          /\ q.error = c.error
      BY <1>7, <2>2, <2>3 DEF IsKnown, Readings
    <2>5. IsKnown(q, T, NewSection, "header", "yes", st)
      BY <1>7, <2>4 DEF IsKnown, Places, U
    <2> QED BY <1>2, <1>3, <2>5, IsKnownIs DEF Places, Answers
  <1>10. ASSUME at = "gap" PROVE ReadLine(k, e) = Known(S, Closed(sec), "closed", "yes", st)
    <2>1. ReadLine(k, e) = r
      BY <1>1, <1>10 DEF ReadLine, IsKnown, e, c
    <2>2. IsKnown(r, S, Closed(sec), "closed", "yes", st)
      BY <1>7, <1>10 DEF IsKnown, Readings
    <2> HIDE DEF r
    <2>3. r = Known(S, Closed(sec), "closed", "yes", st)
      BY <1>2, <2>2, IsKnownIs DEF Places, Answers
    <2> QED BY <2>1, <2>3
  <1> QED BY <1>2, <1>3, <1>8, <1>9, <1>10 DEF k, b, e

-----------------------------------------------------------------------------
(* Bodies *)

LEMMA StatusLoop ==
  ASSUME NEW st \in Text, NEW s \in Seq(Line)
  PROVE  \E at \in [0..Len(s) -> Text] :
           /\ at[0] = st
           /\ \A k \in 1..Len(s) : at[k] = IF s[k][1] = StatusMark THEN Chopped(Tail(s[k])) ELSE at[k - 1]
           /\ StatusAfter(st, s) = at[Len(s)]
PROOF
  <1> DEFINE a0 == st
             Loop(f) == f = [k \in 0..Len(s) |->
                              IF k = 0 THEN st ELSE IF s[k][1] = StatusMark THEN Chopped(Tail(s[k])) ELSE f[k - 1]]
             step == [x \in (1..Len(s)) \X Text |-> IF s[x[1]][1] = StatusMark THEN Chopped(Tail(s[x[1]])) ELSE x[2]]
  <1>1. Len(s) \in Nat /\ a0 \in Text /\ \A k \in 1..Len(s) : s[k] \in Line
    BY ElementOfSeq, LenProperties, EmptySeq DEF Text
  <1>2. step \in [(1..Len(s)) \X Text -> Text]
    BY <1>1, TailType
  <1>3. PICK f \in [0..Len(s) -> Text] :
               f[0] = a0 /\ \A k \in 1..Len(s) : f[k] = step[<<k, f[k - 1]>>]
    <2> HIDE DEF step, a0
    <2>1. \E f : History(f, Len(s), Text, a0, step)
      BY <1>1, <1>2, Iterates
    <2> QED BY <2>1 DEF History
  <1>4. ASSUME NEW k \in 1..Len(s) PROVE f[k] = IF s[k][1] = StatusMark THEN Chopped(Tail(s[k])) ELSE f[k - 1]
    <2>1. k - 1 \in 0..Len(s)
      BY <1>1
    <2>2. <<k, f[k - 1]>> \in (1..Len(s)) \X Text
      BY <1>3, <2>1
    <2> QED BY <1>3, <2>2
  <1>5. Loop(f)
    BY <1>3, <1>4
  <1> DEFINE at == CHOOSE g : Loop(g)
  <1>6. Loop(at)
    <2> HIDE DEF Loop
    <2> QED BY <1>5
  <1>7. StatusAfter(st, s) = at[Len(s)]
    BY DEF StatusAfter
  <1> HIDE DEF at
  <1>8. at[0] = a0 /\ \A k \in 1..Len(s) : at[k] = IF s[k][1] = StatusMark THEN Chopped(Tail(s[k])) ELSE at[k - 1]
    BY <1>1, <1>6
  <1>9. \A k \in 0..Len(s) : at[k] = f[k]
    <2>1. Together(at, f, Len(s))
      BY <1>3, <1>4, <1>8 DEF Together
    <2> QED BY <1>1, <2>1, SameHistory
  <1>10. StatusAfter(st, s) = f[Len(s)]
    BY <1>1, <1>7, <1>9
  <1> QED BY <1>3, <1>4, <1>10

LEMMA StatusAppend ==
  ASSUME NEW st \in Text, NEW s \in Seq(Line), NEW c \in Line
  PROVE  /\ StatusAfter(st, s) \in Text
         /\ StatusAfter(st, Append(s, c)) = IF c[1] = StatusMark THEN Chopped(Tail(c)) ELSE StatusAfter(st, s)
PROOF
  <1> DEFINE t == Append(s, c)
  <1>1. /\ t \in Seq(Line) /\ Len(t) = Len(s) + 1 /\ Len(s) \in Nat
        /\ t[Len(s) + 1] = c /\ \A k \in 1..Len(s) : t[k] = s[k]
    BY AppendProperties, LenProperties
  <1> HIDE DEF t
  <1>2. PICK f \in [0..Len(s) -> Text] :
           /\ f[0] = st
           /\ \A k \in 1..Len(s) : f[k] = IF s[k][1] = StatusMark THEN Chopped(Tail(s[k])) ELSE f[k - 1]
           /\ StatusAfter(st, s) = f[Len(s)]
    BY StatusLoop
  <1>3. PICK g \in [0..Len(t) -> Text] :
           /\ g[0] = st
           /\ \A k \in 1..Len(t) : g[k] = IF t[k][1] = StatusMark THEN Chopped(Tail(t[k])) ELSE g[k - 1]
           /\ StatusAfter(st, t) = g[Len(t)]
    BY <1>1, StatusLoop
  <1>4. \A k \in 0..Len(s) : f[k] = g[k]
    <2>1. f[0] = g[0]
      BY <1>2, <1>3
    <2>2. ASSUME NEW k \in 1..Len(s), f[k - 1] = g[k - 1] PROVE f[k] = g[k]
      <3>1. f[k] = IF s[k][1] = StatusMark THEN Chopped(Tail(s[k])) ELSE f[k - 1]
        BY <1>2
      <3>2. k \in 1..Len(t) /\ t[k] = s[k]
        BY <1>1, SMTT(30)
      <3>3. g[k] = IF t[k][1] = StatusMark THEN Chopped(Tail(t[k])) ELSE g[k - 1]
        BY <1>3, <3>2
      <3> QED BY <2>2, <3>1, <3>2, <3>3, Zenon
    <2>3. Together(f, g, Len(s))
      BY <2>1, <2>2 DEF Together
    <2>4. Len(s) \in Nat
      BY <1>1
    <2> QED BY <2>3, <2>4, SameHistory
  <1>5. g[Len(s) + 1] = IF c[1] = StatusMark THEN Chopped(Tail(c)) ELSE g[Len(s)]
    <2>1. Len(s) + 1 \in 1..Len(t) /\ (Len(s) + 1) - 1 = Len(s)
      BY <1>1
    <2> QED BY <1>1, <1>3, <2>1
  <1>6. Len(s) \in 0..Len(s) /\ g[Len(s)] = f[Len(s)]
    BY <1>1, <1>4
  <1> QED BY <1>1, <1>2, <1>3, <1>5, <1>6 DEF t

LEMMA StatusType ==
  ASSUME NEW st \in Text, NEW L \in Seq(Line)
  PROVE  StatusAfter(st, L) \in Text /\ StatusAfter(st, <<>>) = st
PROOF
  <1>1. PICK at \in [0..Len(L) -> Text] : StatusAfter(st, L) = at[Len(L)]
    BY StatusLoop
  <1>2. Len(L) \in 0..Len(L)
    BY LenProperties
  <1> DEFINE e == <<>>
  <1>3. e \in Seq(Line) /\ Len(e) = 0
    BY EmptySeq
  <1> HIDE DEF e
  <1>4. PICK f \in [0..Len(e) -> Text] : f[0] = st /\ StatusAfter(st, e) = f[Len(e)]
    BY <1>3, StatusLoop
  <1> QED BY <1>1, <1>2, <1>3, <1>4 DEF e

\* In a body, lines that are no boundaries are taken as they are.
LEMMA BodyIsRead ==
  ASSUME NEW S \in Seq(Sec), NEW sec \in Sec, NEW bnd \in Answers, NEW st \in Text,
         NEW P, P \subseteq Char, Boundary \notin P, EndBoundary \notin P,
         NEW L \in Seq(LinesOf(P))
  PROVE  /\ More(sec, Flat(L)) \in Sec /\ StatusAfter(st, L) \in Text
         /\ L \in Seq(Line)
         /\ ReadLines(Known(S, sec, "body", bnd, st), L)
              = Known(S, More(sec, Flat(L)), "body", bnd, StatusAfter(st, L))
PROOF
  <1> DEFINE k == Known(S, sec, "body", bnd, st)
             After(M) == More(sec, Flat(M))
             Good == {M \in Seq(LinesOf(P)) :
                        ReadLines(k, M) = Known(S, After(M), "body", bnd, StatusAfter(st, M))}
  <1>1. LinesOf(P) \subseteq Line /\ Seq(LinesOf(P)) \subseteq Seq(Line) /\ Line \subseteq Text
        /\ Seq(Line) \subseteq Seq(Text)
    <2>1. Seq(P) \subseteq Seq(Char)
      BY SeqMonotonic
    <2>2. LinesOf(P) \subseteq Line /\ Line \subseteq Text
      BY <2>1 DEF LinesOf, Line, Text
    <2> QED BY <2>2, SeqMonotonic
  <1>2. k \in Readings
    BY KnownIs DEF Places, IsKnown
  <1>3. ASSUME NEW M \in Seq(LinesOf(P))
        PROVE  Flat(M) \in Text /\ After(M) \in Sec /\ StatusAfter(st, M) \in Text
    <2>1. Flat(M) \in Text
      <3>1. M \in Seq(Text) /\ <<>> \in Text
        BY <1>1, EmptySeq DEF Text
      <3> QED BY <3>1, FlatAppend
    <2>2. sec.body \o Flat(M) \in Text
      BY <2>1, Concat DEF Sec
    <2>3. StatusAfter(st, M) \in Text
      BY <1>1, StatusType
    <2> QED BY <2>1, <2>2, <2>3 DEF Sec, More
  <1>4. <<>> \in Good
    <2>1. sec.body \o <<>> = sec.body /\ <<>> \in Seq(LinesOf(P))
      BY ConcatEmptySeq, EmptySeq DEF Sec, Text
    <2>2. After(<<>>) = sec
      <3>1. Flat(<<>>) = <<>>
        BY FlatEmpty DEF Flat
      <3>2. [kind |-> sec.kind, body |-> sec.body] = sec
        BY DEF Sec
      <3> QED BY <2>1, <3>1, <3>2 DEF More
    <2>3. ReadLines(k, <<>>) = k /\ StatusAfter(st, <<>>) = st
      <3>1. <<>> \in Seq(Line)
        BY EmptySeq
      <3> QED BY <1>2, <3>1, ReadLinesEmpty, StatusType
    <2> HIDE DEF After
    <2> QED BY <2>1, <2>2, <2>3
  <1>5. ASSUME NEW M \in Seq(LinesOf(P)), NEW l \in LinesOf(P), M \in Good
        PROVE  Append(M, l) \in Good
    <2> DEFINE N == Append(M, l)
               a == After(M)
               t == StatusAfter(st, M)
    <2>1. l \in Line /\ l # <<Boundary, NL>> /\ l # <<EndBoundary, NL>> /\ l \in Text
      <3>1. l \in Seq(P) /\ l # <<>>
        BY DEF LinesOf
      <3>2. l[1] \in P
        BY <3>1, EmptySeq, LenProperties, ElementOfSeq
      <3> QED BY <1>1, <3>2
    <2>2. N \in Seq(LinesOf(P)) /\ M \in Seq(Line) /\ M \in Seq(Text)
      BY <1>1, AppendProperties
    <2>3. ReadLines(k, N) = ReadLine(ReadLines(k, M), l)
      BY <1>2, <2>1, <2>2, ReadLinesAppend
    <2>4. a \in Sec /\ t \in Text /\ Flat(M) \in Text
      BY <1>3
    <2>5. ReadLines(k, M) = Known(S, a, "body", bnd, t)
      BY <1>5
    <2>6. a.kind = sec.kind /\ a.body \o l = sec.body \o Flat(N)
      <3>1. Flat(N) = Flat(M) \o l
        BY <2>1, <2>2, FlatAppend
      <3>2. a.kind = sec.kind /\ a.body = sec.body \o Flat(M)
        BY DEF More
      <3>3. sec.body \in Text
        BY DEF Sec
      <3>4. (sec.body \o Flat(M)) \o l = sec.body \o (Flat(M) \o l)
        <4>1. PICK b \in Text, f \in Text : b = sec.body /\ f = Flat(M)
          BY <2>4, <3>3
        <4>2. (b \o f) \o l = b \o (f \o l)
          BY <2>1, Assoc
        <4> QED BY <4>1, <4>2, Zenon
      <3> QED BY <3>1, <3>2, <3>4
    <2>7. StatusAfter(st, N) = Status(t, l)
      BY <2>1, <2>2, StatusAppend DEF Status
    <2> HIDE DEF k, a, t, N
    <2>8. ReadLine(Known(S, a, "body", bnd, t), l)
            = Known(S, More(a, l), "body", bnd, Status(t, l))
      <3>1. \A x \in Sec, y \in Text :
              ReadLine(Known(S, x, "body", bnd, y), l)
                = Known(S, More(x, l), "body", bnd, Status(y, l))
        BY <2>1, ReadBody
      <3> QED BY <2>4, <3>1
    <2>9. ReadLines(k, N) = Known(S, After(N), "body", bnd, StatusAfter(st, N))
      BY <2>3, <2>5, <2>6, <2>7, <2>8 DEF More
    <2> QED BY <2>2, <2>9 DEF k, N
  <1> HIDE DEF Good
  <1>6. Seq(LinesOf(P)) \subseteq Good
    BY <1>4, <1>5, SeqInd
  <1>7. L \in Good
    BY <1>6
  <1> QED BY <1>1, <1>3, <1>7 DEF Good

\* A newline at the end of a line changes nothing of the sub-status.
LEMMA NewlineIsNoStatus ==
  ASSUME NEW w \in Text, NEW st \in Text
  PROVE  StatusAfter(st, Lines(Append(w, NL))) = StatusAfter(st, Lines(w))
PROOF
  <1> DEFINE L == Lines(w)
             n == Len(L)
             nl == NL
             one == <<NL>>
             F == SubSeq(L, 1, n - 1)
             l == L[n]
             m == Append(l, nl)
  <1>1. L \in Seq(Line) /\ Lines(Append(w, NL)) = Longer(L, NL)
    BY LinesAppend, LinesType, CharFacts DEF Text, Line
  <1>2. nl \in Char /\ nl # StatusMark /\ one \in Line /\ one[1] = nl
    BY CharFacts, TokenFacts, OneLine
  <1> HIDE DEF L
  <1>3. CASE L = <<>> \/ EndsLine(l)
    <2>1. Longer(L, NL) = Append(L, one)
      BY <1>3 DEF Longer
    <2> HIDE DEF one
    <2>2. StatusAfter(st, Append(L, one)) = StatusAfter(st, L)
      BY <1>1, <1>2, StatusAppend
    <2> QED BY <1>1, <2>1, <2>2 DEF L
  <1>4. CASE ~(L = <<>> \/ EndsLine(l))
    <2>1. Longer(L, NL) = Append(F, m)
      BY <1>4 DEF Longer
    <2>2. n \in 1..Len(L) /\ n - 1 \in Nat /\ n - 1 <= Len(L)
      BY <1>1, <1>4, EmptySeq, LenProperties
    <2>3. F \in Seq(Line) /\ l \in Line
      BY <1>1, <2>2, Sub, ElementOfSeq
    <2>4. L = Append(F, l)
      BY <1>1, <1>4, FrontAndLast
    <2> HIDE DEF F, l, n, nl
    <2>5. l \in Seq(Char) /\ l # <<>> /\ Len(l) \in Nat \ {0}
      BY <2>3, EmptySeq, LenProperties DEF Line, LinesOf
    <2>6. /\ m \in Line /\ m \in Seq(Char) /\ m # <<>> /\ m[1] = l[1] /\ Len(m) = Len(l) + 1
          /\ m[Len(l) + 1] = nl /\ \A i \in 1..Len(l) : m[i] = l[i]
      BY <1>2, <2>5, AppendProperties DEF Line, LinesOf
    <2> DEFINE t == Tail(l)
               u == Tail(m)
    <2>7. t \in Seq(Char) /\ Len(t) = Len(l) - 1 /\ \A i \in 1..Len(t) : t[i] = l[i + 1]
      BY <2>5, HeadTailProperties
    <2> HIDE DEF m
    <2>8. u \in Seq(Char) /\ Len(u) = Len(m) - 1 /\ \A i \in 1..Len(u) : u[i] = m[i + 1]
      BY <2>6, HeadTailProperties
    <2> HIDE DEF t, u
    <2>9. Chopped(t) = t
      <3>1. ASSUME t # <<>> PROVE t[Len(t)] = l[Len(l)]
        <4>1. Len(t) \in 1..Len(t)
          BY <2>7, <3>1, EmptySeq, LenProperties
        <4> QED BY <2>5, <2>7, <4>1
      <3>2. ~EndsLine(t)
        BY <1>4, <2>5, <3>1 DEF EndsLine
      <3> QED BY <3>2 DEF Chopped
    <2>10. Chopped(u) = t
      <3>1. Len(u) = Len(l) /\ Len(u) \in 1..Len(u) /\ u[Len(u)] = NL /\ u # <<>>
        BY <2>5, <2>6, <2>8, EmptySeq DEF nl
      <3>2. Chopped(u) = SubSeq(u, 1, Len(u) - 1)
        BY <3>1 DEF Chopped, EndsLine
      <3> DEFINE v == SubSeq(u, 1, Len(u) - 1)
      <3>3. Len(u) - 1 \in Nat /\ Len(u) - 1 <= Len(u)
        BY <2>5, <3>1
      <3>4. v \in Seq(Char) /\ Len(v) = (IF 1 <= Len(u) - 1 THEN (Len(u) - 1) - 1 + 1 ELSE 0)
            /\ \A i \in 1..((Len(u) - 1) - 1 + 1) : v[i] = u[1 + i - 1]
        BY <2>8, <3>3, Sub
      <3> HIDE DEF v
      <3>5. Len(v) = Len(t)
        BY <2>5, <2>7, <3>1, <3>4
      <3>6. ASSUME NEW i \in 1..Len(v) PROVE v[i] = t[i]
        <4>1. i \in 1..((Len(u) - 1) - 1 + 1) /\ i \in 1..Len(t) /\ i \in 1..Len(u)
              /\ 1 + i - 1 = i /\ i + 1 \in 1..Len(l)
          BY <2>5, <2>7, <3>1, <3>5
        <4>2. v[i] = u[i]
          BY <3>4, <4>1
        <4> QED BY <2>6, <2>7, <2>8, <4>1, <4>2
      <3>7. v = t
        BY <2>7, <3>4, <3>5, <3>6, SeqEqual
      <3> QED BY <3>2, <3>7 DEF v
    <2>11. StatusAfter(st, Append(F, m))
             = IF m[1] = StatusMark THEN Chopped(Tail(m)) ELSE StatusAfter(st, F)
      BY <2>3, <2>6, StatusAppend
    <2>12. StatusAfter(st, Append(F, l))
             = IF l[1] = StatusMark THEN Chopped(Tail(l)) ELSE StatusAfter(st, F)
      BY <2>3, StatusAppend
    <2>13. StatusAfter(st, Append(F, m)) = StatusAfter(st, Append(F, l))
      <3>1. l[1] = StatusMark => Chopped(Tail(m)) = Chopped(Tail(l))
        BY <2>9, <2>10 DEF t, u
      <3>2. m[1] = l[1]
        BY <2>6
      <3>3. CASE l[1] = StatusMark
        BY <2>11, <2>12, <3>1, <3>2, <3>3
      <3>4. CASE l[1] # StatusMark
        BY <2>11, <2>12, <3>2, <3>4
      <3> QED BY <3>3, <3>4
    <2> QED BY <1>1, <2>1, <2>4, <2>13 DEF L
  <1> QED BY <1>3, <1>4

-----------------------------------------------------------------------------
(* Sections *)

LEMMA EndsConcat ==
  ASSUME NEW v \in Text, NEW u \in Text, EndsLine(u)
  PROVE  v \o u \in Text /\ EndsLine(v \o u)
PROOF
  <1> DEFINE w == v \o u
  <1>1. /\ w \in Text /\ Len(v) \in Nat /\ Len(u) \in Nat /\ Len(w) = Len(v) + Len(u)
        /\ \A i \in 1..(Len(v) + Len(u)) : w[i] = IF i <= Len(v) THEN v[i] ELSE u[i - Len(v)]
    BY Concat
  <1>2. Len(u) # 0 /\ u[Len(u)] = NL
    BY EmptySeq DEF EndsLine, Text
  <1> HIDE DEF w
  <1>3. w[Len(w)] = NL /\ Len(w) # 0
    BY <1>1, <1>2
  <1>4. w # <<>>
    BY <1>3, EmptySeq
  <1> QED BY <1>1, <1>3, <1>4 DEF w, EndsLine

LEMMA ReadTwo ==
  ASSUME NEW rd \in Readings, NEW q, NEW v \in Text, EndsLine(v), NEW u \in Text,
         ReadText(rd, v) = q
  PROVE  ReadText(rd, v \o u) = ReadText(q, u) /\ v \o u \in Text
PROOF
  BY ReadTextConcat

LEMMA KnownReading ==
  ASSUME NEW S \in Seq(Sec), NEW sec \in Sec, NEW at \in Places, NEW bnd \in Answers,
         NEW st \in Text
  PROVE  Known(S, sec, at, bnd, st) \in Readings
PROOF
  BY KnownIs DEF IsKnown

\* A section that is only begun: its header.
LEMMA TagIsRead ==
  ASSUME NEW S \in Seq(Sec), NEW st \in Text, NEW bnd \in Answers,
         NEW kind \in {"job", "output", "result"}
  PROVE  /\ [kind |-> kind, body |-> <<>>] \in Sec
         /\ <<TagOf(kind), NL>> \in Text /\ EndsLine(<<TagOf(kind), NL>>)
         /\ ReadText(Known(S, NewSection, "header", bnd, st), <<TagOf(kind), NL>>)
              = Known(S, [kind |-> kind, body |-> <<>>], "header", bnd, st)
PROOF
  <1> DEFINE new == Named(NewSection, kind)
             k == Known(S, NewSection, "header", bnd, st)
             t == TagOf(kind)
             n == Known(S, new, "header", bnd, st)
  <1>1. NewSection \in Sec /\ new = [kind |-> kind, body |-> <<>>]
    BY EmptySeq DEF Named, NewSection, Sec, Kinds, Text
  <1>2. k \in Readings
    BY <1>1, KnownReading DEF Places
  <1>3. new \in Sec /\ t \in Char /\ t # NL /\ ReadLine(k, <<t, NL>>) = n
    BY <1>1, ReadTag, ZenonT(40)
  <1> HIDE DEF k, t, n
  <1>4. ReadText(k, <<t, NL>>) = ReadLine(k, <<t, NL>>)
    BY <1>2, <1>3, ReadOne
  <1>5. <<t, NL>> \in Text /\ EndsLine(<<t, NL>>)
    BY <1>3, OneLine
  <1>6. ReadText(k, <<t, NL>>) = n
    BY <1>3, <1>4
  <1> QED BY <1>1, <1>3, <1>5, <1>6 DEF k, t, n

\* A header, and no body, with a boundary after it.
LEMMA BareIsRead ==
  ASSUME NEW S \in Seq(Sec), NEW st \in Text, NEW sec \in Sec, sec.body = <<>>
  PROVE  /\ Append(S, sec) \in Seq(Sec)
         /\ <<NL>> \o <<Boundary, NL>> \in Text /\ EndsLine(<<NL>> \o <<Boundary, NL>>)
         /\ <<NL>> \o <<EndBoundary, NL>> \in Text
         /\ ReadText(Known(S, sec, "header", "yes", st), <<NL>> \o <<Boundary, NL>>)
              = Known(Append(S, sec), NewSection, "header", "yes", st)
         /\ ReadText(Known(S, sec, "header", "yes", st), <<NL>> \o <<EndBoundary, NL>>)
              = Known(S, sec, "closed", "yes", st)
PROOF
  <1> DEFINE g == <<NL>>
             b == <<Boundary, NL>>
             e == <<EndBoundary, NL>>
             k == Known(S, sec, "header", "yes", st)
             m == Known(S, sec, "gap", "yes", st)
             x == Known(Append(S, sec), NewSection, "header", "yes", st)
             y == Known(S, sec, "closed", "yes", st)
  <1>1. k \in Readings /\ m \in Readings
    BY KnownReading DEF Places, Answers
  <1>2. g \in Text /\ EndsLine(g) /\ b \in Text /\ EndsLine(b) /\ e \in Text
    BY OneLine, TokenFacts
  <1>3. ReadText(k, g) = m
    BY <1>1, ReadOne, ReadGap, TokenFacts DEF Answers
  <1>4. Closed(sec) = sec
    <2>1. Chopped(<<>>) = <<>>
      BY DEF Chopped, EndsLine
    <2> QED BY <2>1 DEF Closed, Sec
  <1>5. Append(S, sec) \in Seq(Sec) /\ ReadLine(m, b) = x /\ ReadLine(m, e) = y
    <2>1. /\ ReadLine(m, b) = Known(Append(S, Closed(sec)), NewSection, "header", "yes", st)
          /\ ReadLine(m, e) = Known(S, Closed(sec), "closed", "yes", st)
      BY ReadEnd DEF Places
    <2> QED BY <1>4, <2>1, AppendProperties
  <1>6. Boundary \in Char /\ Boundary # NL /\ EndBoundary \in Char /\ EndBoundary # NL
    BY TokenFacts
  <1> HIDE DEF k, m, x, y
  <1>7. ReadText(m, b) = x /\ ReadText(m, e) = y
    BY <1>1, <1>5, <1>6, ReadOne
  <1> HIDE DEF g, b, e
  <1>8. ReadText(k, g \o b) = x /\ ReadText(k, g \o e) = y /\ g \o e \in Text
    BY <1>1, <1>2, <1>3, <1>7, ReadTwo
  <1>9. g \o b \in Text /\ EndsLine(g \o b)
    BY <1>2, EndsConcat
  <1> QED BY <1>5, <1>8, <1>9 DEF g, b, e, k, x, y

LEMMA BoundaryTagIsRead ==
  ASSUME NEW S \in Seq(Sec), NEW st \in Text, NEW sec \in Sec, NEW bnd \in Answers
  PROVE  /\ <<BoundaryTag, NL>> \in Text /\ EndsLine(<<BoundaryTag, NL>>)
         /\ ReadText(Known(S, sec, "header", bnd, st), <<BoundaryTag, NL>>)
              = Known(S, sec, "header", "yes", st)
PROOF
  <1> DEFINE k == Known(S, sec, "header", bnd, st)
             t == BoundaryTag
  <1>1. k \in Readings
    BY KnownReading DEF Places
  <1>2. t \in Char /\ t # NL
    BY TokenFacts DEF Tags
  <1>3. ReadLine(k, <<t, NL>>) = Known(S, sec, "header", "yes", st)
    BY ReadBoundaryTag
  <1> HIDE DEF k
  <1>4. ReadText(k, <<t, NL>>) = ReadLine(k, <<t, NL>>)
    BY <1>1, <1>2, ReadOne
  <1>5. <<t, NL>> \in Text /\ EndsLine(<<t, NL>>)
    BY <1>2, OneLine
  <1> QED BY <1>3, <1>4, <1>5 DEF k

\* What the job prints may have in it: whatever it prints, and newlines.
Printable(P) == P \subseteq Char /\ NL \in P /\ Boundary \notin P /\ EndBoundary \notin P

OutputOf(w) == [kind |-> "output", body |-> <<NL>> \o w]

LEMMA OutputIsRead ==
  ASSUME NEW S \in Seq(Sec), NEW st \in Text, NEW P, Printable(P), NEW w \in Seq(P)
  PROVE  LET k == Known(S, NewSection, "header", "yes", st)
             h == <<OutputTag, NL>>
             g == <<NL>>
             new == StatusAfter(st, Lines(w))
             b == (w \o g) \o <<Boundary, NL>>
         IN /\ OutputOf(w) \in Sec /\ new \in Text /\ Append(S, OutputOf(w)) \in Seq(Sec)
            /\ h \o (g \o (g \o w)) \in Text
            /\ ReadText(k, h \o (g \o (g \o w))) = Known(S, OutputOf(w), "body", "yes", new)
            /\ h \o (g \o (g \o b)) \in Text /\ EndsLine(h \o (g \o (g \o b)))
            /\ ReadText(k, h \o (g \o (g \o b)))
                 = Known(Append(S, OutputOf(w)), NewSection, "header", "yes", new)
PROOF
  <1> DEFINE k == Known(S, NewSection, "header", "yes", st)
             h == <<OutputTag, NL>>
             g == <<NL>>
             o == [kind |-> "output", body |-> <<>>]
             p == [kind |-> "output", body |-> g]
             k1 == Known(S, o, "header", "yes", st)
             k2 == Known(S, o, "gap", "yes", st)
             k3 == Known(S, p, "body", "yes", st)
             e == <<Boundary, NL>>
             v == w \o g
             new == StatusAfter(st, Lines(w))
  <1>1. /\ h \in Text /\ EndsLine(h) /\ g \in Text /\ EndsLine(g) /\ e \in Text /\ EndsLine(e)
        /\ w \in Text /\ g \in Seq(P)
    <2>1. w \in Text
      <3>1. Seq(P) \subseteq Text
        BY SeqMonotonic DEF Printable, Text
      <3> QED BY <3>1
    <2>2. g \in Seq(P)
      BY DEF Printable
    <2> QED BY <2>1, <2>2, OneLine, TokenFacts
  <1>2. o \in Sec /\ p \in Sec
    BY <1>1, EmptySeq DEF Sec, Kinds, Text
  <1>3. k \in Readings /\ k1 \in Readings /\ k2 \in Readings /\ k3 \in Readings
    <2>1. NewSection \in Sec
      BY EmptySeq DEF NewSection, Sec, Kinds, Text
    <2> HIDE DEF o, p
    <2> QED BY <1>2, <2>1, KnownReading DEF Places, Answers
  <1>4. ReadText(k, h) = k1
    <2>1. TagOf("output") = OutputTag
      BY DEF TagOf
    <2> HIDE DEF k1
    <2>2. ReadText(k, <<TagOf("output"), NL>>) = k1
      BY TagIsRead DEF Answers, k1
    <2> QED BY <2>1, <2>2
  <1>5. ReadText(k1, g) = k2
    <2> HIDE DEF o
    <2>1. ReadLine(k1, g) = k2
      BY <1>2, ReadGap DEF Answers
    <2> HIDE DEF k1, k2
    <2> QED BY <1>3, <2>1, ReadOne, TokenFacts
  <1>6. ReadText(k2, g) = k3
    <2>1. ReadLine(k2, g) = k3
      <3> DEFINE q == [kind |-> o.kind, body |-> <<NL>>]
      <3>1. q = p
        OBVIOUS
      <3> HIDE DEF o, p, k3
      <3>2. ReadLine(k2, <<NL>>) = Known(S, q, "body", "yes", st)
        BY <1>2, ReadFirst DEF Answers
      <3> QED BY <3>1, <3>2 DEF k3
    <2> HIDE DEF k2, k3
    <2> QED BY <1>3, <2>1, ReadOne, TokenFacts
  <1>7. ASSUME NEW x \in Text
        PROVE  h \o (g \o (g \o x)) \in Text /\ ReadText(k, h \o (g \o (g \o x))) = ReadText(k3, x)
    <2> HIDE DEF k, k1, k2, k3, h, g
    <2>1. ReadText(k2, g \o x) = ReadText(k3, x) /\ g \o x \in Text
      BY <1>1, <1>3, <1>6, ReadTwo
    <2>2. ReadText(k1, g \o (g \o x)) = ReadText(k2, g \o x) /\ g \o (g \o x) \in Text
      <3> DEFINE z == g \o x
      <3> HIDE DEF z
      <3>1. z \in Text
        BY <2>1 DEF z
      <3>2. ReadText(k1, g \o z) = ReadText(k2, z) /\ g \o z \in Text
        BY <1>1, <1>3, <1>5, <3>1, ReadTwo
      <3> QED BY <3>2 DEF z
    <2>3. ReadText(k, h \o (g \o (g \o x))) = ReadText(k1, g \o (g \o x)) /\ h \o (g \o (g \o x)) \in Text
      <3> DEFINE z == g \o (g \o x)
      <3> HIDE DEF z
      <3>1. z \in Text
        BY <2>2 DEF z
      <3>2. ReadText(k, h \o z) = ReadText(k1, z) /\ h \o z \in Text
        BY <1>1, <1>3, <1>4, <3>1, ReadTwo
      <3> QED BY <3>2 DEF z
    <2> QED BY <2>1, <2>2, <2>3
  <1>8. ASSUME NEW x \in Seq(P)
        PROVE  /\ x \in Text /\ OutputOf(x) \in Sec /\ StatusAfter(st, Lines(x)) \in Text
               /\ ReadText(k3, x) = Known(S, OutputOf(x), "body", "yes", StatusAfter(st, Lines(x)))
    <2> DEFINE L == Lines(x)
    <2>1. x \in Text
      <3>1. Seq(P) \subseteq Text
        BY SeqMonotonic DEF Printable, Text
      <3> QED BY <3>1
    <2>2. L \in Seq(LinesOf(P)) /\ Flat(L) = x
      BY <2>1, LinesType, FlatLines
    <2>3. More(p, x) = OutputOf(x)
      BY DEF OutputOf, More
    <2> HIDE DEF L, p
    <2>4. /\ More(p, Flat(L)) \in Sec /\ StatusAfter(st, L) \in Text
          /\ ReadLines(k3, L)
               = Known(S, More(p, Flat(L)), "body", "yes", StatusAfter(st, L))
      BY <1>2, <2>2, BodyIsRead DEF Printable, Answers
    <2>5. ReadText(k3, x) = ReadLines(k3, L)
      BY DEF ReadText, L
    <2> QED BY <2>1, <2>2, <2>3, <2>4, <2>5 DEF L
  <1>9. v \in Seq(P) /\ EndsLine(v) /\ v \in Text /\ StatusAfter(st, Lines(v)) = new
    <2>1. v \in Seq(P) /\ EndsLine(v) /\ v \in Text
      <3> HIDE DEF g
      <3> QED BY <1>1, ConcatProperties, EndsConcat
    <2>2. v = Append(w, NL)
      BY <1>1, AppendText, TokenFacts
    <2>3. StatusAfter(st, Lines(Append(w, NL))) = StatusAfter(st, Lines(w))
      BY <1>1, NewlineIsNoStatus
    <2> HIDE DEF v
    <2> QED BY <2>1, <2>2, <2>3
  <1>10. OutputOf(w) \in Sec /\ new \in Text /\ Append(S, OutputOf(w)) \in Seq(Sec)
    <2>1. OutputOf(w) \in Sec /\ new \in Text
      BY <1>8
    <2> QED BY <2>1, AppendProperties
  <1>11. Closed(OutputOf(v)) = OutputOf(w)
    <2> DEFINE a == g \o w
    <2>1. a \in Text /\ g \o v = Append(a, NL)
      <3> HIDE DEF g
      <3>1. a \in Text /\ a \o g = g \o (w \o g)
        <4>1. g \o w \in Text
          BY <1>1, Concat
        <4>2. (g \o w) \o g = g \o (w \o g)
          BY <1>1, Assoc, SMTT(30)
        <4> QED BY <4>1, <4>2
      <3> HIDE DEF a
      <3>2. Append(a, NL) = a \o <<NL>>
        BY <3>1, AppendText, TokenFacts
      <3> QED BY <3>1, <3>2 DEF g
    <2> HIDE DEF a
    <2>2. Chopped(Append(a, NL)) = a
      <3> DEFINE c == Append(a, NL)
      <3>1. c \in Text /\ Len(c) = Len(a) + 1 /\ c[Len(c)] = NL /\ c # <<>> /\ Len(a) \in Nat
            /\ a \in Seq(Char) /\ c = a \o <<NL>> /\ <<NL>> \in Seq(Char)
        BY <2>1, TokenFacts, AppendProperties, LenProperties, AppendText DEF Text
      <3>2. Chopped(c) = SubSeq(c, 1, Len(c) - 1)
        BY <3>1 DEF Chopped, EndsLine
      <3>3. SubSeq(a \o <<NL>>, 1, Len(a) + 0) = a \o SubSeq(<<NL>>, 1, 0)
        BY <3>1, SubConcat
      <3>4. SubSeq(<<NL>>, 1, 0) = <<>> /\ a \o <<>> = a /\ Len(a) + 0 = Len(a) /\ Len(c) - 1 = Len(a)
        BY <3>1, SubEmpty, ConcatEmptySeq
      <3> QED BY <3>1, <3>2, <3>3, <3>4
    <2> QED BY <2>1, <2>2 DEF Closed, OutputOf, a
  <1>12. ReadText(k3, v \o e) = Known(Append(S, OutputOf(w)), NewSection, "header", "yes", new)
         /\ v \o e \in Text /\ EndsLine(v \o e)
    <2> DEFINE q == Known(S, OutputOf(v), "body", "yes", new)
    <2>1. ReadText(k3, v) = q /\ OutputOf(v) \in Sec
      BY <1>8, <1>9
    <2>2. ReadLine(q, e) = Known(Append(S, Closed(OutputOf(v))), NewSection, "header", "yes", new)
      BY <1>10, <2>1, ReadEnd DEF Places
    <2>3. q \in Readings
      BY <1>10, <2>1, KnownReading DEF Places, Answers
    <2> HIDE DEF q, k3, v
    <2>4. ReadText(q, e) = ReadLine(q, e)
      BY <2>3, ReadOne, TokenFacts
    <2> HIDE DEF e
    <2>5. ReadText(k3, v \o e) = ReadText(q, e) /\ v \o e \in Text /\ EndsLine(v \o e)
      BY <1>1, <1>3, <1>9, <2>1, ReadTwo, EndsConcat
    <2> QED BY <1>11, <2>2, <2>4, <2>5
  <1>13. EndsLine(h \o (g \o (g \o (v \o e))))
    <2> DEFINE x == v \o e
    <2> HIDE DEF h, g, x
    <2>1. x \in Text /\ EndsLine(x)
      BY <1>12 DEF x
    <2>2. g \o x \in Text /\ EndsLine(g \o x)
      BY <1>1, <2>1, EndsConcat
    <2>3. g \o (g \o x) \in Text /\ EndsLine(g \o (g \o x))
      BY <1>1, <2>2, EndsConcat
    <2>4. EndsLine(h \o (g \o (g \o x)))
      BY <1>1, <2>3, EndsConcat
    <2> QED BY <2>4 DEF x
  <1> HIDE DEF k, k1, k2, k3, h, g, e, v, new
  <1>14. /\ h \o (g \o (g \o w)) \in Text
         /\ ReadText(k, h \o (g \o (g \o w))) = Known(S, OutputOf(w), "body", "yes", new)
    BY <1>1, <1>7, <1>8 DEF new
  <1>15. /\ h \o (g \o (g \o (v \o e))) \in Text
         /\ ReadText(k, h \o (g \o (g \o (v \o e))))
              = Known(Append(S, OutputOf(w)), NewSection, "header", "yes", new)
    BY <1>7, <1>12
  <1> QED BY <1>10, <1>13, <1>14, <1>15 DEF k, h, g, e, v, new

Job == [kind |-> "job", body |-> <<>>]

LEMMA AssocAll == \A x, y, z \in Text : (x \o y) \o z = x \o (y \o z)
PROOF BY Assoc

\* The sections of a job file: the job, then outputs and results.
GoodSection(sec, first, P) ==
  IF first THEN sec = Job ELSE sec = Result \/ \E w \in Seq(P) : sec = OutputOf(w)

GoodSections(secs, P) ==
  /\ secs \in Seq(Sec) /\ secs # <<>>
  /\ \A i \in 1..Len(secs) : GoodSection(secs[i], i = 1, P)

\* The sub-status after one more section.
StatusWith(st, sec) ==
  IF sec.kind = "output" THEN StatusAfter(st, Lines(Tail(sec.body))) ELSE st

LEMMA SectionFacts ==
  /\ Job \in Sec /\ Result \in Sec /\ NewSection \in Sec
  /\ \A w \in Text : /\ OutputOf(w).body # <<>> /\ Tail(OutputOf(w).body) = w
                     /\ OutputOf(w).kind = "output" /\ OutputOf(w).body = <<NL>> \o w
  /\ \A c \in Char : <<NL, c, NL>> = <<NL>> \o <<c, NL>>
PROOF
  <1>1. Job \in Sec /\ Result \in Sec /\ NewSection \in Sec
    BY EmptySeq DEF Job, Result, NewSection, Sec, Kinds, Text
  <1> DEFINE g == <<NL>>
  <1>2. g \in Text /\ g \in Seq(Char) /\ Len(g) = 1 /\ NL \in Char
    BY TokenFacts DEF Text
  <1>3. ASSUME NEW w \in Text PROVE g \o w # <<>> /\ Tail(g \o w) = w
    <2> DEFINE v == g \o w
               t == Tail(v)
    <2> HIDE DEF g
    <2>0. /\ v \in Text /\ Len(w) \in Nat /\ Len(v) = Len(g) + Len(w)
          /\ \A i \in 1..(Len(g) + Len(w)) : v[i] = IF i <= Len(g) THEN g[i] ELSE w[i - Len(g)]
      BY <1>2, Concat
    <2> HIDE DEF v
    <2>1. /\ v \in Seq(Char) /\ Len(w) \in Nat /\ Len(v) = 1 + Len(w)
          /\ \A i \in 1..(1 + Len(w)) : v[i] = IF i <= 1 THEN g[i] ELSE w[i - 1]
      BY <1>2, <2>0 DEF Text
    <2> HIDE DEF v
    <2>2. v # <<>>
      BY <2>1, EmptySeq
    <2>3. t \in Seq(Char) /\ Len(t) = Len(v) - 1 /\ \A i \in 1..Len(t) : t[i] = v[i + 1]
      BY <2>1, <2>2, HeadTailProperties
    <2> HIDE DEF t
    <2>4. \A i \in 1..Len(t) : t[i] = w[i]
      BY <2>1, <2>3
    <2>5. w \in Seq(Char) /\ Len(t) = Len(w)
      BY <2>1, <2>3 DEF Text
    <2>6. t = w
      BY <2>3, <2>4, <2>5, SeqEqual
    <2> QED BY <2>2, <2>6 DEF v, t
  <1>4. ASSUME NEW c \in Char PROVE <<NL, c, NL>> = <<NL>> \o <<c, NL>>
    <2> DEFINE x == <<NL, c, NL>>
               b == <<c, NL>>
               y == g \o b
    <2>1. x \in Seq(Char) /\ Len(x) = 3 /\ x[1] = NL /\ x[2] = c /\ x[3] = NL
      BY <1>2
    <2>2. b \in Text /\ Len(b) = 2 /\ b[1] = c /\ b[2] = NL /\ g[1] = NL
      BY <1>2 DEF Text
    <2> HIDE DEF x, g, b
    <2>0. /\ y \in Text /\ Len(y) = Len(g) + Len(b)
          /\ \A i \in 1..(Len(g) + Len(b)) : y[i] = IF i <= Len(g) THEN g[i] ELSE b[i - Len(g)]
      BY <1>2, <2>2, Concat
    <2> HIDE DEF y
    <2>3. y \in Seq(Char) /\ Len(y) = 3
          /\ \A i \in 1..3 : y[i] = IF i <= 1 THEN g[i] ELSE b[i - 1]
      BY <1>2, <2>0, <2>2 DEF Text
    <2> HIDE DEF y
    <2>4. y[1] = NL /\ y[2] = c /\ y[3] = NL
      BY <2>2, <2>3
    <2>5. \A i \in 1..3 : i = 1 \/ i = 2 \/ i = 3
      OBVIOUS
    <2>6. x = y
      BY <2>1, <2>3, <2>4, <2>5, SeqEqual
    <2> QED BY <2>6 DEF x, y, g, b
  <1> QED BY <1>1, <1>3, <1>4 DEF OutputOf

\* Whether a boundary is known before a section.
AnswerAt(i) == IF i = 1 THEN "no" ELSE "yes"

\* A section that another follows.
LEMMA SectionIsRead ==
  ASSUME NEW P, Printable(P), NEW secs, GoodSections(secs, P), NEW i \in 1..Len(secs),
         i < Len(secs), NEW S \in Seq(Sec), NEW st \in Text, NEW closed \in BOOLEAN
  PROVE  /\ SectionText(secs, i, closed) \in Text /\ EndsLine(SectionText(secs, i, closed))
         /\ StatusWith(st, secs[i]) \in Text
         /\ ReadText(Known(S, NewSection, "header", AnswerAt(i), st), SectionText(secs, i, closed))
              = Known(Append(S, secs[i]), NewSection, "header", "yes", StatusWith(st, secs[i]))
PROOF
  <1> DEFINE sec == secs[i]
             t == SectionText(secs, i, closed)
             k == Known(S, NewSection, "header", AnswerAt(i), st)
             g == <<NL>>
             b == <<Boundary, NL>>
             e == <<>>
             gb == g \o b
  <1>1. secs \in Seq(Sec) /\ Len(secs) \in Nat /\ i \in Nat /\ i # Len(secs) /\ Len(secs) > 1
    BY LenProperties DEF GoodSections
  <1>2. <<NL, Boundary, NL>> = gb
    BY SectionFacts, TokenFacts
  <1>3. gb \in Text /\ EndsLine(gb) /\ g \in Text /\ b \in Text /\ e \in Text
    BY SectionFacts, BareIsRead, OneLine, TokenFacts, EmptySeq DEF Result, Text
  <1>4. t = (Header(sec, i = 1, TRUE) \o (IF sec.body = e THEN e ELSE g \o sec.body)) \o gb
    BY <1>1, <1>2 DEF SectionText
  <1>5. GoodSection(sec, i = 1, P)
    BY DEF GoodSections
  <1> HIDE DEF t, gb, sec
  <1>6. CASE sec = Job /\ i = 1
    <2> DEFINE h == <<JobTag, NL>>
               h2 == <<BoundaryTag, NL>>
               k1 == Known(S, Job, "header", "no", st)
               k2 == Known(S, Job, "header", "yes", st)
               k3 == Known(Append(S, Job), NewSection, "header", "yes", st)
    <2>1. TagOf("job") = JobTag /\ AnswerAt(i) = "no"
      BY <1>6 DEF TagOf, AnswerAt
    <2>2. h \in Text /\ EndsLine(h) /\ ReadText(k, h) = k1
      <3>1. /\ <<TagOf("job"), NL>> \in Text /\ EndsLine(<<TagOf("job"), NL>>)
            /\ ReadText(Known(S, NewSection, "header", "no", st), <<TagOf("job"), NL>>)
                 = Known(S, [kind |-> "job", body |-> <<>>], "header", "no", st)
        BY TagIsRead DEF Answers
      <3> QED BY <2>1, <3>1 DEF Job
    <2>3. h2 \in Text /\ EndsLine(h2) /\ ReadText(k1, h2) = k2
      BY SectionFacts, BoundaryTagIsRead DEF Answers
    <2>4. ReadText(k2, gb) = k3
      <3>1. Job.body = <<>>
        BY DEF Job
      <3> QED BY <3>1, SectionFacts, BareIsRead DEF gb
    <2>5. k \in Readings /\ k1 \in Readings
      <3> HIDE DEF k1
      <3>1. k \in Readings
        BY <2>1, SectionFacts, KnownReading DEF Answers, Places
      <3>2. k1 \in Readings
        BY SectionFacts, KnownReading DEF Answers, Places, k1
      <3> QED BY <3>1, <3>2
    <2>6. t = h \o (h2 \o gb)
      <3>1. Header(sec, i = 1, TRUE) = h \o h2
        <4>1. sec.kind = "job"
          BY <1>6 DEF Job
        <4> QED BY <1>6, <2>1, <4>1 DEF Header
      <3>2. sec.body = e
        BY <1>6 DEF Job
      <3>3. t = ((h \o h2) \o e) \o gb
        BY <1>4, <3>1, <3>2
      <3> HIDE DEF h, h2, gb
      <3>4. (h \o h2) \o e = h \o h2
        BY <2>2, <2>3, Concat, ConcatEmptySeq DEF Text
      <3>5. (h \o h2) \o gb = h \o (h2 \o gb)
        <4>1. h \in Text /\ h2 \in Text /\ gb \in Text
          BY <1>3, <2>2, <2>3
        <4> QED BY <4>1, AssocAll, Zenon
      <3> QED BY <3>3, <3>4, <3>5
    <2>7. StatusWith(st, sec) = st
      <3>1. sec.kind = "job"
        BY <1>6 DEF Job
      <3> QED BY <3>1 DEF StatusWith
    <2> HIDE DEF h, h2, k, k1, k2, k3
    <2>8. ReadText(k1, h2 \o gb) = k3 /\ h2 \o gb \in Text /\ EndsLine(h2 \o gb)
      BY <1>3, <2>3, <2>4, <2>5, ReadTwo, EndsConcat
    <2>9. ReadText(k, t) = k3 /\ t \in Text /\ EndsLine(t)
      <3> DEFINE u == h2 \o gb
      <3> HIDE DEF u
      <3>1. u \in Text /\ EndsLine(u) /\ ReadText(k1, u) = k3
        BY <2>8 DEF u
      <3>2. ReadText(k, h \o u) = k3 /\ h \o u \in Text /\ EndsLine(h \o u)
        BY <2>2, <2>5, <3>1, ReadTwo, EndsConcat
      <3> QED BY <2>6, <3>2 DEF u
    <2>10. ReadText(k, t) = Known(Append(S, sec), NewSection, "header", "yes", StatusWith(st, sec))
      BY <1>6, <2>7, <2>9 DEF k3
    <2> QED BY <2>7, <2>9, <2>10 DEF t, sec, k
  <1>7. CASE sec = Result /\ i # 1
    <2> DEFINE h == <<ResultTag, NL>>
               k2 == Known(S, Result, "header", "yes", st)
               k3 == Known(Append(S, Result), NewSection, "header", "yes", st)
    <2>1. TagOf("result") = ResultTag /\ AnswerAt(i) = "yes"
      BY <1>7 DEF TagOf, AnswerAt
    <2>2. h \in Text /\ EndsLine(h) /\ ReadText(k, h) = k2
      <3>1. /\ <<TagOf("result"), NL>> \in Text /\ EndsLine(<<TagOf("result"), NL>>)
            /\ ReadText(Known(S, NewSection, "header", "yes", st), <<TagOf("result"), NL>>)
                 = Known(S, [kind |-> "result", body |-> <<>>], "header", "yes", st)
        BY TagIsRead DEF Answers
      <3> QED BY <2>1, <3>1 DEF Result
    <2>4. ReadText(k2, gb) = k3
      <3>1. Result.body = <<>>
        BY DEF Result
      <3> QED BY <3>1, SectionFacts, BareIsRead DEF gb
    <2>5. k \in Readings
      BY <2>1, SectionFacts, KnownReading DEF Answers, Places
    <2>6. t = h \o gb
      <3>1. Header(sec, i = 1, TRUE) = h \o e
        <4>1. sec.kind = "result"
          BY <1>7 DEF Result
        <4> QED BY <1>7, <2>1, <4>1 DEF Header
      <3>2. sec.body = e
        BY <1>7 DEF Result
      <3>3. t = ((h \o e) \o e) \o gb
        BY <1>4, <3>1, <3>2
      <3> HIDE DEF h, gb
      <3>4. h \o e = h
        BY <2>2, ConcatEmptySeq DEF Text
      <3> QED BY <3>3, <3>4
    <2>7. StatusWith(st, sec) = st
      <3>1. sec.kind = "result"
        BY <1>7 DEF Result
      <3> QED BY <3>1 DEF StatusWith
    <2> HIDE DEF h, k, k2, k3
    <2>9. ReadText(k, t) = k3 /\ t \in Text /\ EndsLine(t)
      BY <1>3, <2>2, <2>4, <2>5, <2>6, ReadTwo, EndsConcat
    <2>10. ReadText(k, t) = Known(Append(S, sec), NewSection, "header", "yes", StatusWith(st, sec))
      BY <1>7, <2>7, <2>9 DEF k3
    <2> QED BY <2>7, <2>9, <2>10 DEF t, sec, k
  <1>8. CASE i # 1 /\ \E w \in Seq(P) : sec = OutputOf(w)
    <2>1. PICK w \in Seq(P) : sec = OutputOf(w)
      BY <1>8
    <2> DEFINE h == <<OutputTag, NL>>
               new == StatusAfter(st, Lines(w))
               T == h \o (g \o (g \o ((w \o g) \o b)))
    <2>2. TagOf("output") = OutputTag /\ AnswerAt(i) = "yes"
      BY <1>8 DEF TagOf, AnswerAt
    <2>3. /\ T \in Text /\ EndsLine(T) /\ new \in Text
          /\ ReadText(k, T) = Known(Append(S, OutputOf(w)), NewSection, "header", "yes", new)
      <3>1. /\ new \in Text /\ T \in Text /\ EndsLine(T)
            /\ ReadText(Known(S, NewSection, "header", "yes", st), T)
                 = Known(Append(S, OutputOf(w)), NewSection, "header", "yes", new)
        BY OutputIsRead, Zenon
      <3> QED BY <2>2, <3>1
    <2>4. w \in Text
      <3>1. Seq(P) \subseteq Text
        BY SeqMonotonic DEF Printable, Text
      <3> QED BY <3>1
    <2>5. sec.kind = "output" /\ sec.body = g \o w /\ sec.body # e /\ Tail(sec.body) = w
      BY <2>1, <2>4, SectionFacts
    <2>6. h \in Text
      BY OneLine, TokenFacts
    <2>7. t = T
      <3>1. Header(sec, i = 1, TRUE) = h \o e
        BY <1>8, <2>2, <2>5 DEF Header
      <3>2. t = ((h \o e) \o (g \o (g \o w))) \o gb
        BY <1>4, <2>5, <3>1
      <3> HIDE DEF h, g, b
      <3>3. h \o e = h
        BY <2>6, ConcatEmptySeq DEF Text
      <3>4. g \o w \in Text /\ w \o g \in Text
        BY <1>3, <2>4, Concat
      <3>5. PICK x \in Text : x = g \o w
        BY <3>4
      <3>6. PICK y \in Text : y = g \o x
        BY <1>3, Concat
      <3>7. (h \o y) \o gb = h \o (y \o gb)
        <4>1. h \in Text /\ y \in Text /\ gb \in Text
          BY <1>3, <2>6
        <4> HIDE DEF gb
        <4> QED BY <4>1, AssocAll, ZenonT(40)
      <3>8. y \o gb = g \o (x \o gb)
        <4>1. g \in Text /\ gb \in Text
          BY <1>3
        <4>2. (g \o x) \o gb = g \o (x \o gb)
          BY <4>1, AssocAll, ZenonT(40)
        <4> QED BY <3>6, <4>2
      <3>9. x \o gb = g \o (w \o gb)
        <4>1. g \in Text /\ gb \in Text
          BY <1>3
        <4>2. PICK u \in Text : u = w
          BY <2>4
        <4>3. PICK a \in Text, c \in Text : a = g /\ c = gb
          BY <4>1
        <4>4. (a \o u) \o c = a \o (u \o c)
          BY Assoc, ZenonT(40)
        <4> QED BY <3>5, <4>2, <4>3, <4>4, Zenon
      <3>10. w \o gb = (w \o g) \o b
        BY <1>3, <2>4, Assoc, ZenonT(40) DEF gb
      <3>11. t = h \o (y \o gb)
        BY <3>2, <3>3, <3>5, <3>6, <3>7
      <3> QED BY <3>8, <3>9, <3>10, <3>11
    <2>8. StatusWith(st, sec) = new
      BY <2>5 DEF StatusWith
    <2> HIDE DEF T, new, k
    <2> QED BY <2>1, <2>3, <2>7, <2>8 DEF t, sec, k
  <1> QED BY <1>5, <1>6, <1>7, <1>8 DEF GoodSection

\* The last section, and whether the file is closed after it.
LEMMA LastIsRead ==
  ASSUME NEW P, Printable(P), NEW secs, GoodSections(secs, P), NEW closed \in BOOLEAN,
         closed => secs[Len(secs)] = Result,
         NEW S \in Seq(Sec), NEW st \in Text
  PROVE  LET n == Len(secs)
             t == SectionText(secs, n, closed)
         IN /\ t \in Text /\ StatusWith(st, secs[n]) \in Text
            /\ \E at \in Places, bnd \in Answers :
                 ReadText(Known(S, NewSection, "header", AnswerAt(n), st), t)
                   = Known(S, secs[n], at, bnd, StatusWith(st, secs[n]))
PROOF
  <1> DEFINE n == Len(secs)
             sec == secs[n]
             t == SectionText(secs, n, closed)
             k == Known(S, NewSection, "header", AnswerAt(n), st)
             g == <<NL>>
             b == <<EndBoundary, NL>>
             e == <<>>
             gb == g \o b
             Read == /\ t \in Text /\ StatusWith(st, sec) \in Text
                     /\ \E at \in Places, bnd \in Answers :
                          ReadText(k, t) = Known(S, sec, at, bnd, StatusWith(st, sec))
  <1>0. SUFFICES Read
    BY Zenon
  <1>1. secs \in Seq(Sec) /\ n \in Nat \ {0} /\ n \in 1..Len(secs) /\ ~(n < n)
    BY LenProperties, EmptySeq DEF GoodSections
  <1>2. <<NL, EndBoundary, NL>> = gb
    BY SectionFacts, TokenFacts
  <1>3. gb \in Text /\ g \in Text /\ b \in Text /\ e \in Text
    BY SectionFacts, BareIsRead, OneLine, TokenFacts, EmptySeq DEF Result, Text
  <1>4. t = (Header(sec, n = 1, n > 1) \o (IF sec.body = e THEN e ELSE g \o sec.body))
              \o (IF n > 1 /\ closed THEN gb ELSE e)
    BY <1>1, <1>2 DEF SectionText
  <1>5. GoodSection(sec, n = 1, P) /\ (n = 1 \/ n > 1) /\ ~(n = 1 /\ n > 1)
    <2>1. GoodSection(sec, n = 1, P)
      BY <1>1 DEF GoodSections
    <2> HIDE DEF n, sec
    <2>2. (n = 1 \/ n > 1) /\ ~(n = 1 /\ n > 1)
      BY <1>1
    <2> QED BY <2>1, <2>2
  <1>6. closed => sec = Result
    OBVIOUS
  <1> HIDE DEF t, gb, sec, n, Read
  <1>7. CASE sec = Job /\ n = 1
    <2> DEFINE h == <<JobTag, NL>>
               k1 == Known(S, Job, "header", "no", st)
    <2>1. TagOf("job") = JobTag /\ AnswerAt(n) = "no"
      BY <1>7 DEF TagOf, AnswerAt
    <2>2. h \in Text /\ EndsLine(h) /\ ReadText(k, h) = k1
      <3>1. /\ <<TagOf("job"), NL>> \in Text /\ EndsLine(<<TagOf("job"), NL>>)
            /\ ReadText(Known(S, NewSection, "header", "no", st), <<TagOf("job"), NL>>)
                 = Known(S, [kind |-> "job", body |-> <<>>], "header", "no", st)
        BY TagIsRead DEF Answers
      <3> QED BY <2>1, <3>1 DEF Job
    <2>3. t = h
      <3>1. sec.kind = "job" /\ sec.body = e
        BY <1>7 DEF Job
      <3>2. Header(sec, n = 1, n > 1) = h \o e
        BY <1>5, <1>7, <2>1, <3>1 DEF Header
      <3>3. t = ((h \o e) \o e) \o e
        BY <1>4, <1>5, <1>7, <3>1, <3>2
      <3> HIDE DEF h
      <3>4. h \o e = h
        BY <2>2, ConcatEmptySeq DEF Text
      <3> QED BY <3>3, <3>4
    <2>4. StatusWith(st, sec) = st
      <3>1. sec.kind = "job"
        BY <1>7 DEF Job
      <3> QED BY <3>1 DEF StatusWith
    <2>5. ReadText(k, t) = Known(S, sec, "header", "no", StatusWith(st, sec))
      BY <1>7, <2>2, <2>3, <2>4
    <2>6. "header" \in Places /\ "no" \in Answers
      BY DEF Places, Answers
    <2> HIDE DEF h, k, k1
    <2>7. \E at \in Places, bnd \in Answers :
            ReadText(k, t) = Known(S, sec, at, bnd, StatusWith(st, sec))
      BY <2>5, <2>6
    <2> QED BY <2>2, <2>3, <2>4, <2>7 DEF Read
  <1>8. CASE sec = Result /\ n > 1
    <2> DEFINE h == <<ResultTag, NL>>
               k2 == Known(S, Result, "header", "yes", st)
               k3 == Known(S, Result, "closed", "yes", st)
    <2>1. TagOf("result") = ResultTag /\ AnswerAt(n) = "yes"
      BY <1>5, <1>8 DEF TagOf, AnswerAt
    <2>2. h \in Text /\ EndsLine(h) /\ ReadText(k, h) = k2
      <3>1. /\ <<TagOf("result"), NL>> \in Text /\ EndsLine(<<TagOf("result"), NL>>)
            /\ ReadText(Known(S, NewSection, "header", "yes", st), <<TagOf("result"), NL>>)
                 = Known(S, [kind |-> "result", body |-> <<>>], "header", "yes", st)
        BY TagIsRead DEF Answers
      <3> QED BY <2>1, <3>1 DEF Result
    <2>3. ReadText(k2, gb) = k3
      <3>1. Result.body = <<>>
        BY DEF Result
      <3> QED BY <3>1, SectionFacts, BareIsRead DEF gb
    <2>4. k \in Readings
      BY <2>1, SectionFacts, KnownReading DEF Answers, Places
    <2>5. t = h \o (IF closed THEN gb ELSE e)
      <3>1. sec.kind = "result" /\ sec.body = e
        BY <1>8 DEF Result
      <3>2. Header(sec, n = 1, n > 1) = h \o e
        BY <1>5, <1>8, <2>1, <3>1 DEF Header
      <3>3. t = ((h \o e) \o e) \o (IF closed THEN gb ELSE e)
        BY <1>4, <1>5, <1>8, <3>1, <3>2
      <3> HIDE DEF h, gb
      <3>4. h \o e = h
        BY <2>2, ConcatEmptySeq DEF Text
      <3> QED BY <3>3, <3>4
    <2>6. StatusWith(st, sec) = st
      <3>1. sec.kind = "result"
        BY <1>8 DEF Result
      <3> QED BY <3>1 DEF StatusWith
    <2>7. h \o e = h
      BY <2>2, ConcatEmptySeq DEF Text
    <2> HIDE DEF h, k, k2, k3
    <2>8. ReadText(k, h \o gb) = k3 /\ h \o gb \in Text
      BY <1>3, <2>2, <2>3, <2>4, ReadTwo
    <2>9. t \in Text /\ ReadText(k, t) = IF closed THEN k3 ELSE k2
      BY <2>2, <2>5, <2>7, <2>8
    <2>10. "header" \in Places /\ "closed" \in Places /\ "yes" \in Answers
      BY DEF Places, Answers
    <2>11. ReadText(k, t) = Known(S, sec, IF closed THEN "closed" ELSE "header", "yes", StatusWith(st, sec))
      BY <1>8, <2>6, <2>9 DEF k2, k3
    <2>12. \E at \in Places, bnd \in Answers :
            ReadText(k, t) = Known(S, sec, at, bnd, StatusWith(st, sec))
      <3>1. (IF closed THEN "closed" ELSE "header") \in Places
        BY <2>10
      <3> QED BY <2>10, <2>11, <3>1
    <2> QED BY <2>6, <2>9, <2>12 DEF Read
  <1>9. CASE n > 1 /\ ~closed /\ \E w \in Seq(P) : sec = OutputOf(w)
    <2>1. PICK w \in Seq(P) : sec = OutputOf(w)
      BY <1>9
    <2> DEFINE h == <<OutputTag, NL>>
               new == StatusAfter(st, Lines(w))
               T == h \o (g \o (g \o w))
    <2>2. TagOf("output") = OutputTag /\ AnswerAt(n) = "yes"
      BY <1>5, <1>9 DEF TagOf, AnswerAt
    <2>3. /\ T \in Text /\ new \in Text
          /\ ReadText(k, T) = Known(S, OutputOf(w), "body", "yes", new)
      <3>1. /\ new \in Text /\ T \in Text
            /\ ReadText(Known(S, NewSection, "header", "yes", st), T)
                 = Known(S, OutputOf(w), "body", "yes", new)
        BY OutputIsRead, Zenon
      <3> QED BY <2>2, <3>1
    <2>4. w \in Text
      <3>1. Seq(P) \subseteq Text
        BY SeqMonotonic DEF Printable, Text
      <3> QED BY <3>1
    <2>5. sec.kind = "output" /\ sec.body = g \o w /\ sec.body # e /\ Tail(sec.body) = w
      BY <2>1, <2>4, SectionFacts
    <2>6. h \in Text
      BY OneLine, TokenFacts
    <2>7. t = T
      <3>1. Header(sec, n = 1, n > 1) = h \o e
        BY <1>5, <1>9, <2>2, <2>5 DEF Header
      <3>2. t = ((h \o e) \o (g \o (g \o w))) \o e
        BY <1>4, <1>9, <2>5, <3>1
      <3>3. h \o e = h
        BY <2>6, ConcatEmptySeq DEF Text
      <3>4. T \o e = T
        <4> HIDE DEF T
        <4> QED BY <2>3, ConcatEmptySeq DEF Text
      <3> QED BY <3>2, <3>3, <3>4
    <2>8. StatusWith(st, sec) = new
      BY <2>5 DEF StatusWith
    <2>9. "body" \in Places /\ "yes" \in Answers
      BY DEF Places, Answers
    <2> HIDE DEF T, new, k
    <2>10. ReadText(k, t) = Known(S, sec, "body", "yes", StatusWith(st, sec))
      BY <2>1, <2>3, <2>7, <2>8
    <2>11. \E at \in Places, bnd \in Answers :
            ReadText(k, t) = Known(S, sec, at, bnd, StatusWith(st, sec))
      BY <2>9, <2>10
    <2> QED BY <2>3, <2>7, <2>8, <2>11 DEF Read
  <1>10. Read
    <2>1. \A w : OutputOf(w) # Result
      BY DEF OutputOf, Result
    <2>2. CASE n = 1
      <3>1. sec = Job
        BY <1>5, <2>2 DEF GoodSection
      <3> QED BY <1>7, <2>2, <3>1
    <2>3. CASE n > 1 /\ sec = Result
      BY <1>8, <2>3
    <2>4. CASE n > 1 /\ \E w \in Seq(P) : sec = OutputOf(w)
      <3>1. ~closed
        BY <1>6, <2>1, <2>4
      <3> QED BY <1>9, <2>4, <3>1
    <2>5. n # 1 => sec = Result \/ \E w \in Seq(P) : sec = OutputOf(w)
      BY <1>5 DEF GoodSection
    <2> QED BY <1>5, <2>2, <2>3, <2>4, <2>5
  <1> QED BY <1>10

-----------------------------------------------------------------------------
(* The file *)

LEMMA PrefixAppend ==
  ASSUME NEW T, NEW s \in Seq(T), NEW k \in Nat \ {0}, k <= Len(s)
  PROVE  /\ SubSeq(s, 1, k) = Append(SubSeq(s, 1, k - 1), s[k])
         /\ SubSeq(s, 1, k - 1) \in Seq(T) /\ SubSeq(s, 1, k) \in Seq(T) /\ s[k] \in T
PROOF
  <1> DEFINE p == SubSeq(s, 1, k)
             q == SubSeq(s, 1, k - 1)
  <1>1. Len(s) \in Nat /\ k - 1 \in Nat /\ k - 1 <= Len(s) /\ k \in 1..Len(s) /\ 1 \in Nat \ {0}
    BY LenProperties
  <1>2. s[k] \in T
    BY <1>1, ElementOfSeq
  <1>3. p \in Seq(T) /\ Len(p) = k - 1 + 1 /\ \A i \in 1..(k - 1 + 1) : p[i] = s[1 + i - 1]
    BY <1>1, Sub
  <1>4. /\ q \in Seq(T) /\ Len(q) = IF 1 <= k - 1 THEN (k - 1) - 1 + 1 ELSE 0
        /\ \A i \in 1..((k - 1) - 1 + 1) : q[i] = s[1 + i - 1]
    BY <1>1, Sub
  <1> HIDE DEF p, q
  <1>5. Len(q) = k - 1 /\ Len(p) = k
    BY <1>1, <1>3, <1>4
  <1> DEFINE r == Append(q, s[k])
  <1>6. r \in Seq(T) /\ Len(r) = k /\ r[k] = s[k] /\ \A i \in 1..(k - 1) : r[i] = q[i]
    BY <1>1, <1>2, <1>4, <1>5, AppendProperties
  <1> HIDE DEF r
  <1>7. \A i \in 1..k : p[i] = r[i]
    <2>1. SUFFICES ASSUME NEW i \in 1..k PROVE p[i] = r[i]
      OBVIOUS
    <2>2. p[i] = s[i]
      <3>1. i \in 1..(k - 1 + 1) /\ 1 + i - 1 = i
        OBVIOUS
      <3> QED BY <1>3, <3>1
    <2>3. CASE i = k
      BY <1>6, <2>2, <2>3
    <2>4. CASE i # k
      <3>1. i \in 1..((k - 1) - 1 + 1) /\ i \in 1..(k - 1) /\ 1 + i - 1 = i
        BY <2>4
      <3> QED BY <1>4, <1>6, <2>2, <3>1
    <2> QED BY <2>3, <2>4
  <1>8. p = r
    BY <1>3, <1>5, <1>6, <1>7, SeqEqual
  <1> QED BY <1>2, <1>3, <1>4, <1>8 DEF p, q, r

\* Sections, and how the file of them ends.
Ends(secs, closed) == closed \in BOOLEAN /\ (closed => secs[Len(secs)] = Result)

LEMMA SectionTypes ==
  ASSUME NEW P, Printable(P), NEW secs, GoodSections(secs, P), NEW closed, Ends(secs, closed),
         NEW i \in 1..Len(secs), NEW st \in Text
  PROVE  SectionText(secs, i, closed) \in Text /\ StatusWith(st, secs[i]) \in Text
PROOF
  <1> DEFINE e == <<>>
  <1>1. e \in Seq(Sec)
    BY EmptySeq
  <1>2. CASE i < Len(secs)
    BY <1>1, <1>2, SectionIsRead DEF Ends
  <1>3. CASE i = Len(secs)
    BY <1>1, <1>3, LastIsRead DEF Ends
  <1>4. Len(secs) \in Nat
    BY LenProperties DEF GoodSections
  <1> QED BY <1>2, <1>3, <1>4

TextRounds(f, secs, closed) ==
  /\ f \in [0..Len(secs) -> Text] /\ f[0] = <<>>
  /\ \A k \in 1..Len(secs) : f[k] = f[k - 1] \o SectionText(secs, k, closed)
  /\ ToText(secs, closed) = f[Len(secs)]

LEMMA ToTextLoop ==
  ASSUME NEW P, Printable(P), NEW secs, GoodSections(secs, P), NEW closed, Ends(secs, closed)
  PROVE  \E f : TextRounds(f, secs, closed)
PROOF
  <1> DEFINE a0 == <<>>
             Loop(f) == f = [i \in 0..Len(secs) |->
                              IF i = 0 THEN <<>> ELSE f[i - 1] \o SectionText(secs, i, closed)]
             step == [x \in (1..Len(secs)) \X Text |-> x[2] \o SectionText(secs, x[1], closed)]
  <1>1. Len(secs) \in Nat /\ a0 \in Text
    BY LenProperties, EmptySeq DEF Text, GoodSections
  <1>2. step \in [(1..Len(secs)) \X Text -> Text]
    <2>1. ASSUME NEW k \in 1..Len(secs), NEW x \in Text PROVE x \o SectionText(secs, k, closed) \in Text
      <3>1. SectionText(secs, k, closed) \in Text
        BY <1>1, SectionTypes
      <3> QED BY <3>1, Concat
    <2> QED BY <2>1
  <1>3. PICK f \in [0..Len(secs) -> Text] :
               f[0] = a0 /\ \A k \in 1..Len(secs) : f[k] = step[<<k, f[k - 1]>>]
    <2> HIDE DEF step, a0
    <2>1. \E f : History(f, Len(secs), Text, a0, step)
      BY <1>1, <1>2, Iterates
    <2> QED BY <2>1 DEF History
  <1>4. ASSUME NEW k \in 1..Len(secs) PROVE f[k] = f[k - 1] \o SectionText(secs, k, closed)
    <2>1. k - 1 \in 0..Len(secs)
      BY <1>1
    <2>2. <<k, f[k - 1]>> \in (1..Len(secs)) \X Text
      BY <1>3, <2>1
    <2> QED BY <1>3, <2>2
  <1>5. Loop(f)
    BY <1>3, <1>4
  <1> DEFINE at == CHOOSE g : Loop(g)
  <1>6. Loop(at)
    <2> HIDE DEF Loop
    <2> QED BY <1>5
  <1>7. ToText(secs, closed) = at[Len(secs)]
    BY DEF ToText
  <1> HIDE DEF at
  <1>8. at[0] = a0 /\ \A k \in 1..Len(secs) : at[k] = at[k - 1] \o SectionText(secs, k, closed)
    <2> DEFINE next(i) == at[i - 1] \o SectionText(secs, i, closed)
    <2>1. at = [i \in 0..Len(secs) |-> IF i = 0 THEN <<>> ELSE next(i)]
      BY <1>6
    <2> HIDE DEF next
    <2>2. at[0] = a0 /\ \A k \in 1..Len(secs) : at[k] = next(k)
      BY <1>1, <2>1
    <2> QED BY <2>2 DEF next
  <1>9. \A k \in 0..Len(secs) : at[k] = f[k]
    <2>1. Together(at, f, Len(secs))
      BY <1>3, <1>4, <1>8, ZenonT(40) DEF Together
    <2> QED BY <1>1, <2>1, SameHistory
  <1>10. ToText(secs, closed) = f[Len(secs)]
    BY <1>1, <1>7, <1>9
  <1>11. TextRounds(f, secs, closed)
    BY <1>3, <1>4, <1>10 DEF TextRounds
  <1> QED BY <1>11

StatusRounds(f, secs) ==
  /\ f \in [0..Len(secs) -> Text] /\ f[0] = <<>>
  /\ \A k \in 1..Len(secs) : f[k] = StatusWith(f[k - 1], secs[k])
  /\ StatusOf(secs) = f[Len(secs)]

LEMMA StatusOfLoop ==
  ASSUME NEW P, Printable(P), NEW secs, GoodSections(secs, P)
  PROVE  \E f : StatusRounds(f, secs)
PROOF
  <1> DEFINE a0 == <<>>
             Loop(f) == f = [i \in 0..Len(secs) |->
                              IF i = 0 THEN <<>>
                              ELSE IF secs[i].kind = "output"
                                   THEN StatusAfter(f[i - 1], Lines(Tail(secs[i].body)))
                              ELSE f[i - 1]]
             step == [x \in (1..Len(secs)) \X Text |-> StatusWith(x[2], secs[x[1]])]
  <1>1. Len(secs) \in Nat /\ a0 \in Text
    BY LenProperties, EmptySeq DEF Text, GoodSections
  <1>2. step \in [(1..Len(secs)) \X Text -> Text]
    <2>1. Ends(secs, FALSE)
      BY DEF Ends
    <2>2. ASSUME NEW k \in 1..Len(secs), NEW x \in Text PROVE StatusWith(x, secs[k]) \in Text
      BY <1>1, <2>1, SectionTypes
    <2> QED BY <2>2
  <1>3. PICK f \in [0..Len(secs) -> Text] :
               f[0] = a0 /\ \A k \in 1..Len(secs) : f[k] = step[<<k, f[k - 1]>>]
    <2> HIDE DEF step, a0
    <2>1. \E f : History(f, Len(secs), Text, a0, step)
      BY <1>1, <1>2, Iterates
    <2> QED BY <2>1 DEF History
  <1>4. ASSUME NEW k \in 1..Len(secs) PROVE f[k] = StatusWith(f[k - 1], secs[k])
    <2>1. k - 1 \in 0..Len(secs)
      BY <1>1
    <2>2. <<k, f[k - 1]>> \in (1..Len(secs)) \X Text
      BY <1>3, <2>1
    <2> QED BY <1>3, <2>2
  <1>5. Loop(f)
    BY <1>3, <1>4 DEF StatusWith
  <1> DEFINE at == CHOOSE g : Loop(g)
  <1>6. Loop(at)
    <2> HIDE DEF Loop
    <2> QED BY <1>5
  <1>7. StatusOf(secs) = at[Len(secs)]
    BY DEF StatusOf
  <1> HIDE DEF at
  <1>8. at[0] = a0 /\ \A k \in 1..Len(secs) : at[k] = StatusWith(at[k - 1], secs[k])
    BY <1>1, <1>6 DEF StatusWith
  <1>9. \A k \in 0..Len(secs) : at[k] = f[k]
    <2>1. Together(at, f, Len(secs))
      BY <1>3, <1>4, <1>8 DEF Together
    <2> QED BY <1>1, <2>1, SameHistory
  <1>10. StatusOf(secs) = f[Len(secs)]
    BY <1>1, <1>7, <1>9
  <1>11. StatusRounds(f, secs)
    BY <1>3, <1>4, <1>10 DEF StatusRounds
  <1> QED BY <1>11

\* What is known once the text of the first i sections has been read.
ReadSoFar(secs, i, text, st) ==
  /\ text \in Text /\ (text = <<>> \/ EndsLine(text)) /\ st \in Text
  /\ ReadText(Reading, text) = Known(SubSeq(secs, 1, i), NewSection, "header", AnswerAt(i + 1), st)

LEMMA ReadStart ==
  ASSUME NEW secs \in Seq(Sec)
  PROVE  ReadSoFar(secs, 0, <<>>, <<>>) /\ Reading \in Readings
PROOF
  <1> DEFINE e == <<>>
             k == Known(e, NewSection, "header", "no", e)
  <1>1. SubSeq(secs, 1, 0) = e
    BY SubEmpty
  <1>2. e \in Text /\ e \in Seq(Sec) /\ NewSection \in Sec /\ Append(e, NewSection) = <<NewSection>>
    BY EmptySeq, SectionFacts, OneAndTwo DEF Text
  <1>3. AnswerAt(0 + 1) = "no"
    BY DEF AnswerAt
  <1>4. k \in Readings
    BY <1>2, KnownReading DEF Places, Answers
  <1>5. Reading = k
    BY <1>2 DEF Reading, Known
  <1>6. Lines(e) = e
    BY LinesEmpty
  <1> HIDE DEF k
  <1>7. ReadLines(k, e) = k
    BY <1>4, ReadLinesEmpty
  <1>8. ReadText(Reading, e) = k
    BY <1>5, <1>6, <1>7 DEF ReadText
  <1> QED BY <1>1, <1>2, <1>3, <1>4, <1>5, <1>8 DEF ReadSoFar, k

LEMMA ReadRound ==
  ASSUME NEW P, Printable(P), NEW secs, GoodSections(secs, P), NEW closed, Ends(secs, closed),
         NEW i \in Nat, i + 1 < Len(secs), NEW text, NEW st, ReadSoFar(secs, i, text, st)
  PROVE  ReadSoFar(secs, i + 1, text \o SectionText(secs, i + 1, closed), StatusWith(st, secs[i + 1]))
PROOF
  <1> DEFINE j == i + 1
             S == SubSeq(secs, 1, i)
             t == SectionText(secs, j, closed)
             new == StatusWith(st, secs[j])
             k == Known(S, NewSection, "header", AnswerAt(j), st)
             m == Known(Append(S, secs[j]), NewSection, "header", "yes", new)
  <1>1. secs \in Seq(Sec) /\ Len(secs) \in Nat /\ j \in 1..Len(secs) /\ j < Len(secs)
        /\ j \in Nat \ {0} /\ j - 1 = i /\ j <= Len(secs)
    BY LenProperties DEF GoodSections
  <1> HIDE DEF j
  <1>2. SubSeq(secs, 1, j) = Append(SubSeq(secs, 1, j - 1), secs[j]) /\ SubSeq(secs, 1, j - 1) \in Seq(Sec)
    BY <1>1, PrefixAppend
  <1>3. S \in Seq(Sec) /\ SubSeq(secs, 1, j) = Append(S, secs[j])
    BY <1>1, <1>2
  <1>4. /\ text \in Text /\ (text = <<>> \/ EndsLine(text)) /\ st \in Text
        /\ ReadText(Reading, text) = k
    BY DEF ReadSoFar, j
  <1> HIDE DEF S
  <1>5. t \in Text /\ EndsLine(t) /\ new \in Text /\ ReadText(k, t) = m
    BY <1>1, <1>3, <1>4, SectionIsRead DEF Ends
  <1>6. Reading \in Readings
    BY <1>1, ReadStart
  <1> HIDE DEF t, k, m, new
  <1>7. ReadText(Reading, text \o t) = ReadText(k, t)
    BY <1>4, <1>5, <1>6, ReadTextConcat
  <1>8. text \o t \in Text /\ EndsLine(text \o t)
    BY <1>4, <1>5, EndsConcat
  <1>9. AnswerAt(j + 1) = "yes"
    BY <1>1 DEF AnswerAt
  <1>10. ReadText(Reading, text \o t) = Known(SubSeq(secs, 1, j), NewSection, "header", AnswerAt(j + 1), new)
    BY <1>3, <1>5, <1>7, <1>9 DEF m
  <1>11. ReadSoFar(secs, j, text \o t, new)
    BY <1>5, <1>8, <1>10 DEF ReadSoFar
  <1> QED BY <1>11 DEF j, t, new

\* Reading gives back what was written, and the sub-status in it.
LEMMA RoundTrip ==
  ASSUME NEW P, Printable(P), NEW secs, GoodSections(secs, P), NEW closed, Ends(secs, closed)
  PROVE  /\ ToText(secs, closed) \in Text
         /\ ~Load(ToText(secs, closed)).error /\ Load(ToText(secs, closed)).secs = secs
         /\ Load(ToText(secs, closed)).substatus = StatusOf(secs)
PROOF
  <1> DEFINE n == Len(secs)
             m == n - 1
             text == ToText(secs, closed)
  <1>1. secs \in Seq(Sec) /\ n \in Nat \ {0} /\ m \in Nat /\ m + 1 = n
        /\ n <= Len(secs) /\ n \in 1..Len(secs)
    BY LenProperties, EmptySeq DEF GoodSections
  <1>2. PICK f : TextRounds(f, secs, closed)
    BY ToTextLoop
  <1>3. PICK g : StatusRounds(g, secs)
    BY StatusOfLoop
  <1> DEFINE Good == {i \in Nat : i < n => ReadSoFar(secs, i, f[i], g[i])}
  <1>4. 0 \in Good
    BY <1>1, <1>2, <1>3, ReadStart DEF TextRounds, StatusRounds
  <1>5. ASSUME NEW i \in Nat, i \in Good PROVE i + 1 \in Good
    <2>1. SUFFICES ASSUME i + 1 < n PROVE ReadSoFar(secs, i + 1, f[i + 1], g[i + 1])
      OBVIOUS
    <2>2. ReadSoFar(secs, i, f[i], g[i])
      BY <1>1, <1>5, <2>1
    <2>3. i + 1 \in 1..Len(secs) /\ (i + 1) - 1 = i
      BY <1>1, <2>1
    <2>4. f[i + 1] = f[i] \o SectionText(secs, i + 1, closed)
          /\ g[i + 1] = StatusWith(g[i], secs[i + 1])
      BY <1>2, <1>3, <2>3 DEF TextRounds, StatusRounds
    <2>5. ReadSoFar(secs, i + 1, f[i] \o SectionText(secs, i + 1, closed), StatusWith(g[i], secs[i + 1]))
      BY <2>1, <2>2, ReadRound
    <2> QED BY <2>4, <2>5
  <1> HIDE DEF Good
  <1>6. m \in Good
    BY <1>1, <1>4, <1>5, NatInd
  <1> DEFINE v == f[m]
             st == g[m]
             t == SectionText(secs, n, closed)
             S == SubSeq(secs, 1, m)
             new == StatusWith(st, secs[n])
             k == Known(S, NewSection, "header", AnswerAt(n), st)
  <1>7. ReadSoFar(secs, m, v, st)
    BY <1>1, <1>6 DEF Good
  <1>8. text = v \o t /\ StatusOf(secs) = new
    BY <1>1, <1>2, <1>3 DEF TextRounds, StatusRounds
  <1>9. v \in Text /\ (v = <<>> \/ EndsLine(v)) /\ st \in Text /\ ReadText(Reading, v) = k
    BY <1>1, <1>7 DEF ReadSoFar
  <1>10. S \in Seq(Sec) /\ secs[n] \in Sec /\ Append(S, secs[n]) = secs
    <2>1. /\ SubSeq(secs, 1, n) = Append(SubSeq(secs, 1, n - 1), secs[n])
          /\ SubSeq(secs, 1, n - 1) \in Seq(Sec) /\ secs[n] \in Sec
      BY <1>1, PrefixAppend
    <2>2. secs = Append(SubSeq(secs, 1, n - 1), secs[n])
      BY <1>1, FrontAndLast DEF GoodSections
    <2> QED BY <2>1, <2>2
  <1> HIDE DEF v, st, S, m, text
  <1>11. /\ t \in Text /\ new \in Text
         /\ \E at \in Places, bnd \in Answers : ReadText(k, t) = Known(S, secs[n], at, bnd, new)
    BY <1>9, <1>10, LastIsRead DEF Ends
  <1>12. PICK at \in Places, bnd \in Answers : ReadText(k, t) = Known(S, secs[n], at, bnd, new)
    BY <1>11
  <1> DEFINE q == Known(S, secs[n], at, bnd, new)
  <1>13. Reading \in Readings
    BY <1>1, ReadStart
  <1>14. IsKnown(q, S, secs[n], at, bnd, new)
    BY <1>10, <1>11, KnownIs
  <1> HIDE DEF t, k, new, q
  <1>15. ReadText(Reading, v \o t) = ReadText(ReadText(Reading, v), t) /\ v \o t \in Text
    BY <1>9, <1>11, <1>13, ReadTextConcat
  <1>16. text \in Text /\ Load(text) = q
    BY <1>8, <1>9, <1>12, <1>15 DEF Load, ReadText, q
  <1>17. ~q.error /\ q.secs = secs /\ q.substatus = StatusOf(secs)
    BY <1>8, <1>10, <1>14 DEF IsKnown
  <1> QED BY <1>16, <1>17 DEF text

\* What a job prints goes to the end of the file, and of its output.
LEMMA PrintedText ==
  ASSUME NEW P, Printable(P), NEW secs, GoodSections(secs, P), secs[Len(secs)].kind = "output",
         NEW token \in P
  PROVE  LET more == [secs EXCEPT ![Len(secs)].body = Append(@, token)] IN
         /\ GoodSections(more, P) /\ more[Len(more)].kind = "output"
         /\ ToText(more, FALSE) = Append(ToText(secs, FALSE), token)
PROOF
  <1> DEFINE n == Len(secs)
             sec == secs[n]
             more == [secs EXCEPT ![n].body = Append(@, token)]
  <1>1. secs \in Seq(Sec) /\ n \in Nat \ {0} /\ n \in 1..n /\ sec \in Sec
        /\ n - 1 \in Nat /\ n \in 0..n
    BY LenProperties, EmptySeq, ElementOfSeq DEF GoodSections
  <1>2. GoodSection(sec, n = 1, P) /\ sec.kind = "output"
    BY <1>1 DEF GoodSections
  <1>3. n # 1
    BY <1>2 DEF GoodSection, Job
  <1>4. PICK w \in Seq(P) : sec = OutputOf(w)
    BY <1>2, <1>3 DEF GoodSection, Result
  <1>5. token \in Char /\ w \in Text /\ Seq(P) \subseteq Text
    <2>1. Seq(P) \subseteq Text
      BY SeqMonotonic DEF Printable, Text
    <2> QED BY <2>1 DEF Printable
  <1> DEFINE g == <<NL>>
             w2 == Append(w, token)
             new == OutputOf(w2)
  <1>6. w2 \in Seq(P) /\ w2 \in Text /\ g \in Text
    BY <1>5, AppendProperties, OneLine, TokenFacts
  <1>7. Append(g \o w, token) = g \o w2
    <2> HIDE DEF g
    <2>1. g \o w \in Text
      BY <1>5, <1>6, Concat
    <2>2. Append(g \o w, token) = (g \o w) \o <<token>> /\ w2 = w \o <<token>> /\ <<token>> \in Text
      <3> DEFINE x == g \o w
      <3> HIDE DEF x
      <3>1. x \in Text
        BY <2>1 DEF x
      <3>2. Append(x, token) = x \o <<token>>
        BY <1>5, <3>1, AppendText
      <3> QED BY <1>5, <3>2, AppendText DEF x
    <2>3. PICK d \in Text : d = <<token>>
      BY <2>2
    <2>4. PICK a \in Text : a = g
      BY <1>6
    <2>5. PICK b \in Text : b = w
      BY <1>5
    <2>6. (a \o b) \o d = a \o (b \o d)
      BY Assoc
    <2> QED BY <2>2, <2>3, <2>4, <2>5, <2>6, Zenon
  <1>8. [sec EXCEPT !.body = Append(@, token)] = new /\ new \in Sec
    <2>1. sec.body = g \o w /\ sec.kind = "output"
      BY <1>4 DEF OutputOf
    <2>2. new = [kind |-> "output", body |-> Append(sec.body, token)]
      BY <1>7, <2>1 DEF OutputOf
    <2>3. g \o w2 \in Text
      <3> HIDE DEF g, w2
      <3> QED BY <1>6, Concat
    <2>4. new \in Sec
      BY <2>3 DEF OutputOf, Sec, Kinds
    <2> DEFINE b == Append(sec.body, token)
    <2> HIDE DEF sec, new
    <2>5. \A x \in Sec, y \in Text : [x EXCEPT !.body = y] = [kind |-> x.kind, body |-> y]
      BY DEF Sec
    <2>6. b \in Text /\ new = [kind |-> "output", body |-> b]
      BY <1>7, <2>1, <2>2, <2>3
    <2>7. [sec EXCEPT !.body = Append(@, token)] = [sec EXCEPT !.body = b]
      OBVIOUS
    <2> HIDE DEF b
    <2>8. [sec EXCEPT !.body = b] = new
      BY <1>1, <2>1, <2>5, <2>6
    <2> QED BY <2>4, <2>7, <2>8
  <1>9. more = [secs EXCEPT ![n] = new]
    BY <1>8
  <1> HIDE DEF more, new, sec
  <1>10. /\ more \in Seq(Sec) /\ Len(more) = n
         /\ \A i \in 1..n : more[i] = IF i = n THEN new ELSE secs[i]
    BY <1>1, <1>8, <1>9, ExceptSeq
  <1>11. GoodSections(more, P) /\ more[Len(more)].kind = "output"
    <2>1. more # <<>>
      BY <1>1, <1>10, EmptySeq
    <2>2. GoodSection(new, FALSE, P)
      BY <1>6 DEF GoodSection, new
    <2>3. ASSUME NEW i \in 1..n PROVE GoodSection(more[i], i = 1, P)
      <3>1. CASE i = n
        <4>1. more[i] = new /\ ~(i = 1)
          BY <1>3, <1>10, <3>1
        <4> QED BY <2>2, <4>1 DEF GoodSection
      <3>2. CASE i # n
        <4>1. more[i] = secs[i]
          BY <1>10, <3>2
        <4>2. GoodSection(secs[i], i = 1, P)
          BY DEF GoodSections
        <4> QED BY <4>1, <4>2
      <3> QED BY <3>1, <3>2
    <2>4. more[Len(more)] = new /\ new.kind = "output"
      BY <1>1, <1>10 DEF new, OutputOf
    <2> HIDE DEF n
    <2> QED BY <1>10, <2>1, <2>3, <2>4 DEF GoodSections
  <1>12. Ends(secs, FALSE) /\ Ends(more, FALSE)
    BY DEF Ends
  <1>13. PICK f : TextRounds(f, secs, FALSE)
    BY <1>12, ToTextLoop
  <1>14. PICK h : TextRounds(h, more, FALSE)
    BY <1>11, <1>12, ToTextLoop
  <1>15. \A k \in 0..(n - 1) : f[k] = h[k]
    <2>1. ASSUME NEW k \in 1..(n - 1) PROVE SectionText(more, k, FALSE) = SectionText(secs, k, FALSE)
      <3>1. more[k] = secs[k] /\ Len(more) = Len(secs)
        BY <1>1, <1>10
      <3> HIDE DEF n
      <3> QED BY <3>1 DEF SectionText
    <2>2. f[0] = h[0]
      BY <1>13, <1>14 DEF TextRounds
    <2>3. ASSUME NEW k \in 1..(n - 1), f[k - 1] = h[k - 1] PROVE f[k] = h[k]
      <3>1. k \in 1..Len(secs) /\ k \in 1..Len(more)
        BY <1>1, <1>10
      <3>2. f[k] = f[k - 1] \o SectionText(secs, k, FALSE)
        BY <1>13, <3>1 DEF TextRounds
      <3>3. h[k] = h[k - 1] \o SectionText(more, k, FALSE)
        BY <1>14, <3>1 DEF TextRounds
      <3> QED BY <2>1, <2>3, <3>2, <3>3
    <2>4. PICK m \in Nat : m = n - 1
      BY <1>1
    <2>5. Together(f, h, m)
      BY <2>2, <2>3, <2>4 DEF Together
    <2>6. \A k \in 0..m : f[k] = h[k]
      BY <2>5, SameHistory
    <2> QED BY <2>4, <2>6
  <1> DEFINE m == n - 1
             v == f[m]
             s == SectionText(secs, n, FALSE)
             t == SectionText(more, n, FALSE)
  <1>16. v \in Text /\ ToText(secs, FALSE) = v \o s /\ ToText(more, FALSE) = v \o t
    <2>1. m \in 0..m /\ m \in 0..Len(secs)
      BY <1>1
    <2>2. v \in Text /\ h[m] = v
      BY <1>13, <1>15, <2>1 DEF TextRounds
    <2>3. ToText(secs, FALSE) = f[n] /\ f[n] = f[m] \o s
      BY <1>1, <1>13 DEF TextRounds
    <2>4. ToText(more, FALSE) = h[n] /\ h[n] = h[m] \o t
      BY <1>1, <1>10, <1>14 DEF TextRounds
    <2> QED BY <2>2, <2>3, <2>4
  <1>17. s \in Text /\ t = Append(s, token)
    <2> DEFINE d == Header([kind |-> "output"], n = 1, n > 1)
               b == g \o w
               e == <<>>
    <2>1. s \in Text /\ t \in Text
      <3>1. s \in Text
        BY <1>1, <1>12, SectionTypes, EmptySeq DEF Text
      <3>2. n \in 1..Len(more)
        BY <1>1, <1>10
      <3>3. t \in Text
        BY <1>11, <1>12, <3>2, SectionTypes, EmptySeq DEF Text
      <3> QED BY <3>1, <3>3
    <2>2. secs[n] = OutputOf(w) /\ more[n] = OutputOf(w2) /\ Len(more) = n /\ ~(n < n)
      BY <1>1, <1>4, <1>10 DEF sec, new
    <2>3. \A x : x.kind = "output" => Header(x, n = 1, n > 1) = d
      BY DEF Header
    <2>4. s = (d \o (g \o (g \o w))) \o e
      <3>1. OutputOf(w).body # e /\ OutputOf(w).body = g \o w /\ OutputOf(w).kind = "output"
        BY <1>5, SectionFacts
      <3>2. Header(OutputOf(w), n = 1, n > 1) = d
        BY <2>3, <3>1
      <3> HIDE DEF d
      <3> QED BY <2>2, <3>1, <3>2 DEF SectionText
    <2>5. t = (d \o (g \o (g \o w2))) \o e
      <3>1. OutputOf(w2).body # e /\ OutputOf(w2).body = g \o w2 /\ OutputOf(w2).kind = "output"
        BY <1>6, SectionFacts
      <3>2. Header(OutputOf(w2), n = 1, n > 1) = d
        BY <2>3, <3>1
      <3> HIDE DEF d, w2
      <3> QED BY <2>2, <3>1, <3>2 DEF SectionText
    <2>6. d \in Text
      <3>1. <<OutputTag, NL>> \in Text /\ <<BoundaryTag, NL>> \in Text /\ e \in Text
            /\ TagOf("output") = OutputTag
        BY OneLine, TokenFacts, EmptySeq DEF TagOf, Text
      <3> DEFINE x == <<OutputTag, NL>>
                 y == <<BoundaryTag, NL>>
      <3>2. d = x \o (IF n = 1 /\ n > 1 THEN y ELSE e)
        BY <3>1 DEF Header
      <3> HIDE DEF x, y, d
      <3> QED BY <3>1, <3>2, Concat DEF x, y
    <2> HIDE DEF d, g, w2, s, t
    <2>7. b \in Text /\ g \o b \in Text
      BY <1>5, <1>6, Concat
    <2> DEFINE x == d \o (g \o b)
    <2>8. x \in Text
      <3> DEFINE y == g \o b
      <3> HIDE DEF y
      <3>1. y \in Text
        BY <2>7 DEF y
      <3>2. d \o y \in Text
        BY <2>6, <3>1, Concat
      <3> QED BY <3>2 DEF y
    <2>9. s = x /\ x \o e = x
      <3>1. x \o e = x
        <4> HIDE DEF x
        <4> QED BY <2>8, ConcatEmptySeq DEF Text
      <3> QED BY <2>4, <3>1
    <2>10. t = x \o <<token>>
      <3>1. <<token>> \in Text
        BY <1>5, AppendText
      <3>2. PICK c \in Text : c = <<token>>
        BY <3>1
      <3>3. PICK b1 \in Text : b1 = b
        BY <2>7
      <3>4. PICK g1 \in Text : g1 = g
        BY <1>6
      <3>5. PICK gb \in Text : gb = g1 \o b1
        BY Concat
      <3>6. PICK gbc \in Text : gbc = gb \o c
        BY Concat
      <3>7. g \o w2 = b1 \o c
        <4>1. Append(b1, token) = b1 \o <<token>>
          BY <1>5, AppendText
        <4> QED BY <1>7, <3>2, <3>3, <4>1
      <3>8. (g1 \o b1) \o c = g1 \o (b1 \o c)
        BY Assoc, SMTT(30)
      <3>9. g \o (g \o w2) = gbc
        BY <3>4, <3>5, <3>6, <3>7, <3>8
      <3>10. (d \o gb) \o c = d \o (gb \o c)
        BY <2>6, Assoc
      <3>11. d \o gbc \in Text
        BY <2>6, Concat
      <3>12. PICK z \in Text : z = d \o gbc
        BY <3>11
      <3>13. z \o e = z
        BY ConcatEmptySeq DEF Text
      <3>14. t = z
        BY <2>5, <3>9, <3>12, <3>13
      <3>15. d \o gb = x
        BY <3>3, <3>4, <3>5
      <3> QED BY <3>2, <3>6, <3>10, <3>12, <3>14, <3>15
    <2>11. Append(x, token) = x \o <<token>>
      <3> HIDE DEF x
      <3> QED BY <1>5, <2>8, AppendText
    <2> QED BY <2>1, <2>9, <2>10, <2>11
  <1>18. Append(v \o s, token) = v \o Append(s, token)
    <2> HIDE DEF v, s
    <2>1. v \o s \in Text
      BY <1>16, <1>17, Concat
    <2>2. PICK c \in Text : c = <<token>>
      BY <1>5, AppendText
    <2>3. Append(s, token) = s \o c
      BY <1>5, <1>17, <2>2, AppendText
    <2>4. PICK x \in Text : x = v \o s
      BY <2>1
    <2>5. Append(x, token) = x \o c
      BY <1>5, <2>2, AppendText
    <2>6. (v \o s) \o c = v \o (s \o c)
      BY <1>16, <1>17, Assoc
    <2> QED BY <2>3, <2>4, <2>5, <2>6
  <1>19. ToText(more, FALSE) = Append(ToText(secs, FALSE), token)
    <2> HIDE DEF v, s, t
    <2> QED BY <1>16, <1>17, <1>18
  <1> QED BY <1>11, <1>19 DEF more, n

-----------------------------------------------------------------------------
(* The runs of a job *)

Tokens == Printed \cup {NL}

\* The file is what to_string() makes of the sections that it should have, and
\* it ends in the body of an output for as long as the job may write to it.
TextInv ==
  /\ state \in {"pend", "run", "done"}
  /\ GoodSections(should, Tokens)
  /\ file = ToText(should, state = "done")
  /\ state = "run" <=> should[Len(should)].kind = "output"
  /\ state = "done" => should[Len(should)] = Result

LEMMA TokensPrintable == JobTextAssumption => Printable(Tokens)
PROOF
  <1>1. STRING \subseteq Char
    BY Zenon DEF Char
  <1> QED BY <1>1, TokenFacts DEF JobTextAssumption, Printable, Tokens

LEMMA SectionsAppend ==
  ASSUME NEW P, NEW secs, GoodSections(secs, P), NEW sec \in Sec, GoodSection(sec, FALSE, P)
  PROVE  /\ GoodSections(Append(secs, sec), P)
         /\ Append(secs, sec)[Len(Append(secs, sec))] = sec
PROOF
  <1> DEFINE more == Append(secs, sec)
  <1>1. secs \in Seq(Sec) /\ Len(secs) \in Nat \ {0}
    BY LenProperties, EmptySeq DEF GoodSections
  <1>2. /\ more \in Seq(Sec) /\ more # <<>> /\ Len(more) = Len(secs) + 1
        /\ more[Len(secs) + 1] = sec /\ \A i \in 1..Len(secs) : more[i] = secs[i]
    BY <1>1, AppendProperties
  <1> HIDE DEF more
  <1>3. ASSUME NEW i \in 1..Len(more) PROVE GoodSection(more[i], i = 1, P)
    <2>1. CASE i = Len(secs) + 1
      <3>1. more[i] = sec /\ ~(i = 1)
        BY <1>1, <1>2, <2>1
      <3> QED BY <3>1 DEF GoodSection
    <2>2. CASE i # Len(secs) + 1
      <3>1. i \in 1..Len(secs) /\ more[i] = secs[i]
        BY <1>1, <1>2, <2>2
      <3>2. GoodSection(secs[i], i = 1, P)
        BY <3>1 DEF GoodSections
      <3> QED BY <3>1, <3>2
    <2> QED BY <2>1, <2>2
  <1>4. GoodSections(more, P)
    BY <1>2, <1>3 DEF GoodSections
  <1> QED BY <1>2, <1>4 DEF more

LEMMA NewSections ==
  ASSUME NEW P, Printable(P)
  PROVE  /\ Result \in Sec /\ GoodSection(Result, FALSE, P) /\ Result.kind = "result"
         /\ Output \in Sec /\ GoodSection(Output, FALSE, P) /\ Output.kind = "output"
PROOF
  <1>1. Result \in Sec /\ GoodSection(Result, FALSE, P) /\ Result.kind = "result"
    BY SectionFacts DEF GoodSection, Result
  <1>2. <<>> \in Seq(P) /\ <<NL>> \o <<>> = <<NL>> /\ <<NL>> \in Text
    <2> DEFINE g == <<NL>>
    <2>1. g \in Text
      BY OneLine, TokenFacts
    <2> HIDE DEF g
    <2>2. g \o <<>> = g
      BY <2>1, ConcatEmptySeq DEF Text
    <2> QED BY <2>1, <2>2, EmptySeq DEF g
  <1>3. Output = OutputOf(<<>>)
    BY <1>2 DEF Output, OutputOf
  <1>4. Output \in Sec /\ Output.kind = "output"
    BY <1>2 DEF Output, Sec, Kinds
  <1> QED BY <1>1, <1>2, <1>3, <1>4 DEF GoodSection

LEMMA TextKept ==
  ASSUME JobTextAssumption, TextInv
  PROVE  /\ OutputKept
         /\ ~Load(file).error /\ Load(file).secs = should
PROOF
  <1>1. Printable(Tokens)
    BY TokensPrintable
  <1> DEFINE closed == state = "done"
  <1>2. GoodSections(should, Tokens) /\ Ends(should, closed) /\ file = ToText(should, closed)
    BY DEF TextInv, Ends
  <1> HIDE DEF closed
  <1>3. ~Load(file).error /\ Load(file).secs = should /\ Load(file).substatus = StatusOf(should)
    BY <1>1, <1>2, RoundTrip
  <1> QED BY <1>3 DEF OutputKept

LEMMA TextBegins ==
  ASSUME JobTextAssumption, TextInit
  PROVE  TextInv
PROOF
  <1> DEFINE s == <<Job>>
             h == <<JobTag, NL>>
             e == <<>>
  <1>1. should = s /\ file = h /\ state = "pend"
    BY DEF TextInit, Job
  <1>2. Job \in Sec /\ Job.kind = "job" /\ Job.body = e /\ TagOf("job") = JobTag
    BY SectionFacts DEF Job, TagOf
  <1>3. s \in Seq(Sec) /\ Len(s) = 1 /\ s[1] = Job /\ s # <<>>
    BY <1>2
  <1> HIDE DEF s
  <1>4. GoodSections(s, Tokens)
    <2>1. ASSUME NEW i \in 1..Len(s) PROVE GoodSection(s[i], i = 1, Tokens)
      <3>1. i = 1 /\ s[i] = Job
        BY <1>3
      <3> QED BY <3>1 DEF GoodSection
    <2> QED BY <1>3, <2>1 DEF GoodSections
  <1>5. Ends(s, FALSE) /\ Printable(Tokens)
    BY TokensPrintable DEF Ends
  <1>6. PICK f : TextRounds(f, s, FALSE)
    BY <1>4, <1>5, ToTextLoop
  <1>7. 1 \in 1..Len(s) /\ 1 - 1 = 0
    BY <1>3
  <1>8. ToText(s, FALSE) = f[0] \o SectionText(s, 1, FALSE) /\ f[0] = e
    <2>1. f[1] = f[1 - 1] \o SectionText(s, 1, FALSE)
      BY <1>6, <1>7 DEF TextRounds
    <2> QED BY <1>3, <1>6, <1>7, <2>1 DEF TextRounds
  <1>9. SectionText(s, 1, FALSE) = (h \o e) \o e \o e
    <2>1. Header(Job, 1 = 1, 1 > 1) = h \o e
      BY <1>2 DEF Header
    <2> QED BY <1>2, <1>3, <2>1 DEF SectionText
  <1>10. h \in Seq(Char)
    BY OneLine, TokenFacts DEF Text
  <1> HIDE DEF h
  <1>11. h \o e = h /\ e \o h = h
    BY <1>10, ConcatEmptySeq
  <1>12. file = ToText(should, state = "done")
    <2>1. file = ToText(s, FALSE)
      BY <1>1, <1>8, <1>9, <1>11
    <2>2. (state = "done") = FALSE
      BY <1>1
    <2> QED BY <1>1, <2>1, <2>2
  <1> QED BY <1>1, <1>2, <1>3, <1>4, <1>12 DEF TextInv

LEMMA TextStep ==
  ASSUME JobTextAssumption, ~LateOutput, TextInv, [TextNext]_textVars
  PROVE  TextInv'
PROOF
  <1> DEFINE P == Tokens
             n == Len(should)
             rd == Load(file)
  <1>1. Printable(P)
    BY TokensPrintable
  <1>2. ~rd.error /\ rd.secs = should
    BY TextKept
  <1>3. GoodSections(should, P) /\ state \in {"pend", "run", "done"}
        /\ (state = "run" <=> should[n].kind = "output")
    BY DEF TextInv
  <1> HIDE DEF P, rd
  <1>4. /\ Result \in Sec /\ GoodSection(Result, FALSE, P) /\ Result.kind = "result"
        /\ Output \in Sec /\ GoodSection(Output, FALSE, P) /\ Output.kind = "output"
    BY <1>1, NewSections
  <1>5. should \in Seq(Sec) /\ \A x \in Sec : Append(should, x) \in Seq(Sec)
    BY <1>3, AppendProperties DEF GoodSections
  <1>6. CASE Tries
    <2> DEFINE first == WithMissingResult(rd.secs)
               all == Append(first, Output)
    <2>1. state' = "run" /\ file' = ToText(all, FALSE)
      BY <1>6 DEF Tries, rd
    <2>2. GoodSections(first, P) /\ should' = all
      <3>1. CASE state = "run"
        <4>1. first = Append(should, Result)
          BY <1>2, <1>3, <3>1 DEF WithMissingResult
        <4>2. should' = should \o <<Result>> \o <<Output>>
          BY <1>6, <3>1 DEF Tries, Result, Output
        <4>3. should \o <<Result>> \o <<Output>> = Append(Append(should, Result), Output)
          BY <1>4, <1>5, AppendIsConcat
        <4>4. GoodSections(Append(should, Result), P)
          BY <1>3, <1>4, SectionsAppend
        <4> QED BY <4>1, <4>2, <4>3, <4>4
      <3>2. CASE state # "run"
        <4>1. first = should
          BY <1>2, <1>3, <3>2 DEF WithMissingResult
        <4>2. should' = should \o <<>> \o <<Output>>
          BY <1>6, <3>2 DEF Tries, Output
        <4>3. should \o <<>> = should
          BY <1>5, ConcatEmptySeq
        <4>4. should \o <<Output>> = Append(should, Output)
          BY <1>4, <1>5, AppendIsConcat
        <4> QED BY <1>3, <4>1, <4>2, <4>3, <4>4
      <3> QED BY <3>1, <3>2
    <2> HIDE DEF first
    <2>3. GoodSections(all, P) /\ all[Len(all)] = Output
      BY <1>4, <2>2, SectionsAppend
    <2>4. (state' = "done") = FALSE
      BY <2>1
    <2> HIDE DEF all
    <2>5. file' = ToText(should', state' = "done")
      BY <2>1, <2>2, <2>4
    <2>6. should'[Len(should')].kind = "output"
      BY <1>4, <2>2, <2>3
    <2> QED BY <2>1, <2>2, <2>3, <2>5, <2>6 DEF TextInv, P, Tokens
  <1>7. ASSUME NEW token \in Printed, Writes(token) PROVE TextInv'
    <2> DEFINE more == [should EXCEPT ![n].body = Append(@, token)]
    <2>1. state = "run" /\ state' = state /\ should' = more /\ file' = Append(file, token)
      BY <1>7 DEF Writes
    <2>2. file = ToText(should, FALSE)
      <3>1. (state = "done") = FALSE
        BY <2>1
      <3>2. file = ToText(should, state = "done")
        BY DEF TextInv
      <3> QED BY <3>1, <3>2
    <2>3. token \in P /\ should[n].kind = "output"
      BY <1>3, <2>1 DEF P, Tokens
    <2>4. /\ GoodSections(more, P) /\ more[Len(more)].kind = "output"
          /\ ToText(more, FALSE) = Append(ToText(should, FALSE), token)
      BY <1>1, <1>3, <2>3, PrintedText, ZenonT(40)
    <2> HIDE DEF more
    <2>5. file' = ToText(should', state' = "done")
      <3>1. (state' = "done") = FALSE
        BY <2>1
      <3> QED BY <2>1, <2>2, <2>4, <3>1
    <2> QED BY <2>1, <2>4, <2>5 DEF TextInv, P, Tokens
  <1>8. ASSUME NEW retry \in BOOLEAN, TryDone(retry) PROVE TextInv'
    <2> DEFINE all == Append(should, Result)
    <2>1. /\ file' = ToText(all, ~retry) /\ should' = all
          /\ state' = IF retry THEN "pend" ELSE "done"
      BY <1>2, <1>8 DEF TryDone, Result, rd
    <2>2. GoodSections(all, P) /\ all[Len(all)] = Result
      BY <1>3, <1>4, SectionsAppend
    <2> HIDE DEF all
    <2>3. file' = ToText(should', state' = "done")
      <3>1. (state' = "done") = ~retry
        BY <2>1
      <3> QED BY <2>1, <3>1
    <2>4. should'[Len(should')].kind # "output" /\ state' # "run" /\ should'[Len(should')] = Result
      BY <1>4, <2>1, <2>2
    <2> QED BY <2>1, <2>2, <2>3, <2>4 DEF TextInv, P, Tokens
  <1>9. CASE UNCHANGED textVars
    BY <1>9 DEF TextInv, textVars, Tokens
  <1> QED BY <1>6, <1>7, <1>8, <1>9 DEF TextNext

\* Whatever a job prints, and however often it is tried: all that it has printed
\* is in the file, under the sections that it should be under, and can be read,
\* with the sub-status that it has set.
THEOREM OutputKeptSafe ==
  JobTextAssumption /\ ~LateOutput => (TextSpec => []OutputKept)
PROOF
  <1> SUFFICES ASSUME JobTextAssumption, ~LateOutput PROVE TextSpec => []OutputKept
    OBVIOUS
  <1>1. TextInit => TextInv
    BY TextBegins
  <1>2. TextInv /\ [TextNext]_textVars => TextInv'
    BY TextStep
  <1>3. TextInv => OutputKept
    BY TextKept
  <1> QED BY <1>1, <1>2, <1>3, PTL DEF TextSpec

-----------------------------------------------------------------------------
(* Configurations: places in a line *)

LEMMA LeastOfIs ==
  ASSUME NEW T, T \subseteq Nat, T # {}
  PROVE  LeastOf(T) \in T /\ \A j \in T : LeastOf(T) <= j
PROOF
  <1>1. \E i \in T : \A j \in T : i <= j
    BY Least
  <1> QED BY <1>1 DEF LeastOf

\* Past() is the first place that is not in the set, and the only one.
LEMMA PastIs ==
  ASSUME NEW s \in Text, NEW set
  PROVE  /\ Past(s, set) \in 1..(Len(s) + 1)
         /\ \A i \in 1..(Past(s, set) - 1) : s[i] \in set
         /\ Past(s, set) <= Len(s) => s[Past(s, set)] \notin set
PROOF
  <1> DEFINE T == {i \in 1..Len(s) : s[i] \notin set} \cup {Len(s) + 1}
             p == LeastOf(T)
  <1>1. Len(s) \in Nat /\ T \subseteq Nat /\ T # {} /\ Len(s) + 1 \in T
    BY LenProperties DEF Text
  <1>2. p \in T /\ \A j \in T : p <= j
    <2> HIDE DEF T
    <2> QED BY <1>1, LeastOfIs
  <1> HIDE DEF p
  <1>3. p \in 1..(Len(s) + 1) /\ (p <= Len(s) => s[p] \notin set)
    BY <1>1, <1>2
  <1>4. ASSUME NEW i \in 1..(p - 1), s[i] \notin set PROVE FALSE
    <2>1. i \in 1..Len(s) /\ i < p /\ i \in Nat
      BY <1>1, <1>3
    <2>2. i \in T
      BY <1>4, <2>1
    <2> HIDE DEF T
    <2> QED BY <1>2, <1>3, <2>1, <2>2
  <1>5. Past(s, set) = p
    BY DEF Past, p
  <1> QED BY <1>3, <1>4, <1>5

LEMMA PastFor ==
  ASSUME NEW s \in Text, NEW set, NEW p \in 1..(Len(s) + 1),
         \A i \in 1..(p - 1) : s[i] \in set, p <= Len(s) => s[p] \notin set
  PROVE  Past(s, set) = p
PROOF
  <1> DEFINE q == Past(s, set)
  <1>1. /\ Len(s) \in Nat /\ q \in 1..(Len(s) + 1) /\ \A i \in 1..(q - 1) : s[i] \in set
        /\ q <= Len(s) => s[q] \notin set
    BY LenProperties, PastIs DEF Text
  <1> HIDE DEF q
  <1>2. ~(p < q)
    <2>1. ASSUME p < q PROVE FALSE
      <3>1. p \in 1..(q - 1) /\ p <= Len(s)
        BY <1>1, <2>1
      <3> QED BY <1>1, <3>1
    <2> QED BY <2>1
  <1>3. ~(q < p)
    <2>1. ASSUME q < p PROVE FALSE
      <3>1. q \in 1..(p - 1) /\ q <= Len(s)
        BY <1>1, <2>1
      <3> QED BY <1>1, <3>1
    <2> QED BY <2>1
  <1>4. q = p
    BY <1>1, <1>2, <1>3
  <1> QED BY <1>4 DEF q

\* The same of Until().
LEMMA UntilIs ==
  ASSUME NEW s \in Text, NEW set, NEW b \in 1..(Len(s) + 1)
  PROVE  /\ Until(s, b, set) \in b..(Len(s) + 1)
         /\ \A i \in b..(Until(s, b, set) - 1) : s[i] \notin set
         /\ Until(s, b, set) <= Len(s) => s[Until(s, b, set)] \in set
PROOF
  <1> DEFINE T == {i \in b..Len(s) : s[i] \in set} \cup {Len(s) + 1}
             p == LeastOf(T)
  <1>1. Len(s) \in Nat /\ T \subseteq Nat /\ T # {} /\ Len(s) + 1 \in T
    BY LenProperties DEF Text
  <1>2. p \in T /\ \A j \in T : p <= j
    <2> HIDE DEF T
    <2> QED BY <1>1, LeastOfIs
  <1> HIDE DEF p
  <1>3. p \in b..(Len(s) + 1) /\ (p <= Len(s) => s[p] \in set)
    BY <1>1, <1>2
  <1>4. ASSUME NEW i \in b..(p - 1), s[i] \in set PROVE FALSE
    <2>1. i \in b..Len(s) /\ i < p /\ i \in Nat
      BY <1>1, <1>3
    <2>2. i \in T
      BY <1>4, <2>1
    <2> HIDE DEF T
    <2> QED BY <1>2, <1>3, <2>1, <2>2
  <1>5. Until(s, b, set) = p
    BY DEF Until, p
  <1> QED BY <1>3, <1>4, <1>5

LEMMA UntilFor ==
  ASSUME NEW s \in Text, NEW set, NEW b \in 1..(Len(s) + 1), NEW p \in b..(Len(s) + 1),
         \A i \in b..(p - 1) : s[i] \notin set, p <= Len(s) => s[p] \in set
  PROVE  Until(s, b, set) = p
PROOF
  <1> DEFINE q == Until(s, b, set)
  <1>1. /\ Len(s) \in Nat /\ q \in b..(Len(s) + 1) /\ \A i \in b..(q - 1) : s[i] \notin set
        /\ q <= Len(s) => s[q] \in set
    BY LenProperties, UntilIs DEF Text
  <1> HIDE DEF q
  <1>2. ~(p < q)
    <2>1. ASSUME p < q PROVE FALSE
      <3>1. p \in b..(q - 1) /\ p <= Len(s)
        BY <1>1, <2>1
      <3> QED BY <1>1, <3>1
    <2> QED BY <2>1
  <1>3. ~(q < p)
    <2>1. ASSUME q < p PROVE FALSE
      <3>1. q \in b..(p - 1) /\ q <= Len(s)
        BY <1>1, <2>1
      <3> QED BY <1>1, <3>1
    <2> QED BY <2>1
  <1>4. q = p
    BY <1>1, <1>2, <1>3
  <1> QED BY <1>4 DEF q

\* The end of a text, from its j-th character.
Suffix(t, s) == \E j \in 1..(Len(s) + 1) : t = SubSeq(s, j, Len(s))

LEMMA SuffixIs ==
  ASSUME NEW s \in Text, NEW j \in 1..(Len(s) + 1)
  PROVE  /\ SubSeq(s, j, Len(s)) \in Text /\ Suffix(SubSeq(s, j, Len(s)), s)
         /\ Len(SubSeq(s, j, Len(s))) = Len(s) + 1 - j
         /\ \A i \in 1..(Len(s) + 1 - j) : SubSeq(s, j, Len(s))[i] = s[j + i - 1]
PROOF
  <1>1. Len(s) \in Nat /\ j \in Nat \ {0} /\ j <= Len(s) + 1 /\ Len(s) <= Len(s)
        /\ Len(s) - j + 1 = Len(s) + 1 - j
    BY LenProperties DEF Text
  <1>2. /\ SubSeq(s, j, Len(s)) \in Text
        /\ Len(SubSeq(s, j, Len(s))) = Len(s) - j + 1
        /\ \A i \in 1..(Len(s) - j + 1) : SubSeq(s, j, Len(s))[i] = s[j + i - 1]
    BY <1>1, SubText
  <1>3. Suffix(SubSeq(s, j, Len(s)), s)
    BY DEF Suffix
  <1> QED BY <1>1, <1>2, <1>3

LEMMA UnindentedIs ==
  ASSUME NEW s \in Text
  PROVE  /\ Unindented(s) \in Text /\ Suffix(Unindented(s), s)
         /\ Unindented(s) # <<>> => Unindented(s)[1] \notin Blank
         /\ s # <<>> /\ s[1] \notin Blank => Unindented(s) = s
PROOF
  <1> DEFINE p == Past(s, Blank)
             t == SubSeq(s, p, Len(s))
  <1>1. Len(s) \in Nat /\ p \in 1..(Len(s) + 1) /\ (p <= Len(s) => s[p] \notin Blank)
    BY LenProperties, PastIs DEF Text
  <1>5. ASSUME s # <<>>, s[1] \notin Blank PROVE p = 1
    <2>1. 1 \in 1..(Len(s) + 1) /\ \A i \in 1..(1 - 1) : s[i] \in Blank
      BY <1>1
    <2> QED BY <1>5, <2>1, PastFor
  <1> HIDE DEF p
  <1>2. /\ t \in Text /\ Suffix(t, s) /\ Len(t) = Len(s) + 1 - p
        /\ \A i \in 1..(Len(s) + 1 - p) : t[i] = s[p + i - 1]
    BY <1>1, SuffixIs
  <1>6. SubSeq(s, 1, Len(s)) = s
    BY SubSeqFull DEF Text
  <1> HIDE DEF t
  <1>3. ASSUME t # <<>> PROVE t[1] \notin Blank
    <2>1. Len(t) # 0
      BY <1>2, <1>3, EmptySeq DEF Text
    <2>2. 1 \in 1..(Len(s) + 1 - p) /\ p + 1 - 1 = p /\ p <= Len(s)
      BY <1>1, <1>2, <2>1
    <2> QED BY <1>1, <1>2, <2>2
  <1>4. Unindented(s) = t
    BY DEF Unindented, t, p
  <1>7. s # <<>> /\ s[1] \notin Blank => t = s
    BY <1>5, <1>6 DEF t
  <1> QED BY <1>2, <1>3, <1>4, <1>7

-----------------------------------------------------------------------------
(* Whole lines *)

\* A line with its newline.
PartLine == {l \in Text : l # <<>> /\ \A i \in 1..(Len(l) - 1) : l[i] # NL}
FullLine == {l \in PartLine : EndsLine(l)}

LEMMA FrontOf ==
  ASSUME NEW S, NEW F \in Seq(S), NEW x \in S
  PROVE  /\ Append(F, x) \in Seq(S) /\ Append(F, x) # <<>> /\ Len(Append(F, x)) = Len(F) + 1
         /\ Len(F) \in Nat /\ Append(F, x)[Len(F) + 1] = x /\ SubSeq(Append(F, x), 1, Len(F)) = F
         /\ \A i \in 1..Len(F) : Append(F, x)[i] = F[i]
PROOF
  <1> DEFINE A == Append(F, x)
             e == <<x>>
  <1>1. /\ A \in Seq(S) /\ Len(A) = Len(F) + 1 /\ Len(F) \in Nat /\ A[Len(F) + 1] = x
        /\ \A i \in 1..Len(F) : A[i] = F[i]
    BY AppendProperties, LenProperties
  <1>2. A # <<>>
    <2> HIDE DEF A
    <2> QED BY <1>1, EmptySeq
  <1>3. e \in Seq(S) /\ A = F \o e
    BY AppendIsConcat
  <1> HIDE DEF e, A
  <1>4. SubSeq(F \o e, 1, Len(F) + 0) = F \o SubSeq(e, 1, 0)
    <2>1. 0 \in 0..Len(e)
      BY <1>3, LenProperties
    <2> QED BY <1>3, <2>1, SubConcat
  <1>5. SubSeq(e, 1, 0) = <<>>
    BY <1>3, SubEmpty
  <1>6. F \o <<>> = F /\ Len(F) + 0 = Len(F)
    BY <1>1, ConcatEmptySeq
  <1>7. SubSeq(A, 1, Len(F)) = F
    BY <1>3, <1>4, <1>5, <1>6
  <1> QED BY <1>1, <1>2, <1>7 DEF A

\* A character more, after a text of whole lines or of whole lines and a part of one.
LEMMA LongerFull ==
  ASSUME NEW F \in Seq(FullLine), NEW l \in PartLine, NEW c \in Char
  PROVE  \E G \in Seq(FullLine), m \in PartLine : Longer(Append(F, l), c) = Append(G, m)
PROOF
  <1> DEFINE L == Append(F, l)
  <1>1. Seq(FullLine) \subseteq Seq(PartLine)
    <2>1. FullLine \subseteq PartLine
      BY DEF FullLine
    <2> QED BY <2>1, SeqMonotonic
  <1>2. L # <<>> /\ Len(L) = Len(F) + 1 /\ L[Len(L)] = l /\ SubSeq(L, 1, Len(L) - 1) = F
    <2>1. F \in Seq(PartLine)
      BY <1>1
    <2>2. /\ L # <<>> /\ Len(L) = Len(F) + 1 /\ Len(F) \in Nat /\ L[Len(F) + 1] = l
          /\ SubSeq(L, 1, Len(F)) = F
      BY <2>1, FrontOf
    <2> HIDE DEF L
    <2>3. Len(L) - 1 = Len(F)
      BY <2>2
    <2> QED BY <2>2, <2>3
  <1>3. CASE EndsLine(l)
    <2>1. l \in FullLine
      BY <1>3 DEF FullLine
    <2>2. L \in Seq(FullLine)
      BY <2>1, FrontOf
    <2>3. <<c>> \in PartLine
      <3>1. <<c>> \in Text /\ Len(<<c>>) = 1 /\ <<c>> # <<>>
        BY DEF Text
      <3> QED BY <3>1 DEF PartLine
    <2> HIDE DEF L
    <2>4. Longer(L, c) = Append(L, <<c>>)
      BY <1>2, <1>3 DEF Longer
    <2> QED BY <2>2, <2>3, <2>4 DEF L
  <1>4. CASE ~EndsLine(l)
    <2>1. l \in Text /\ l # <<>> /\ \A i \in 1..(Len(l) - 1) : l[i] # NL
      BY DEF PartLine
    <2>2. l[Len(l)] # NL /\ Len(l) \in Nat
      BY <1>4, <2>1, LenProperties DEF EndsLine, Text
    <2>3. \A i \in 1..Len(l) : l[i] # NL
      <3>1. \A i \in 1..Len(l) : i = Len(l) \/ i \in 1..(Len(l) - 1)
        BY <2>2
      <3> QED BY <2>1, <2>2, <3>1
    <2> DEFINE m == Append(l, c)
    <2>4. m \in Text /\ m # <<>> /\ Len(m) = Len(l) + 1 /\ \A i \in 1..Len(l) : m[i] = l[i]
      BY <2>1, FrontOf DEF Text
    <2>5. m \in PartLine
      <3> HIDE DEF m
      <3>1. Len(m) - 1 = Len(l)
        BY <2>2, <2>4
      <3> QED BY <2>3, <2>4, <3>1 DEF PartLine
    <2> HIDE DEF L
    <2>6. Longer(L, c) = Append(F, m)
      BY <1>2, <1>4 DEF Longer
    <2> QED BY <2>5, <2>6 DEF L
  <1> QED BY <1>3, <1>4

LEMMA LinesPart ==
  ASSUME NEW s \in Text
  PROVE  s = <<>> \/ \E F \in Seq(FullLine), l \in PartLine : Lines(s) = Append(F, l)
PROOF
  <1> DEFINE Good ==
        {t \in Text : t = <<>> \/ \E F \in Seq(FullLine), l \in PartLine : Lines(t) = Append(F, l)}
  <1>1. <<>> \in Good
    BY EmptySeq DEF Text
  <1>2. ASSUME NEW t \in Seq(Char), NEW c \in Char, t \in Good PROVE Append(t, c) \in Good
    <2>1. Append(t, c) \in Text /\ Lines(Append(t, c)) = Longer(Lines(t), c)
      BY LinesAppend, AppendProperties DEF Text
    <2>2. CASE t = <<>>
      <3> DEFINE e == <<>>
                 m == <<c>>
      <3>1. e \in Seq(FullLine) /\ m \in Text /\ Len(m) = 1 /\ m # <<>>
        BY EmptySeq DEF Text
      <3>2. m \in PartLine
        <4> HIDE DEF m
        <4>1. \A i \in 1..(Len(m) - 1) : FALSE
          BY <3>1
        <4> QED BY <3>1, <4>1 DEF PartLine
      <3>3. Lines(t) = e
        BY <2>2, LinesEmpty
      <3>4. Longer(e, c) = Append(e, m)
        BY DEF Longer
      <3> HIDE DEF e, m
      <3> QED BY <2>1, <3>1, <3>2, <3>3, <3>4
    <2>3. CASE t # <<>>
      <3>1. PICK F \in Seq(FullLine), l \in PartLine : Lines(t) = Append(F, l)
        BY <1>2, <2>3, Zenon
      <3>2. PICK G \in Seq(FullLine), m \in PartLine : Longer(Append(F, l), c) = Append(G, m)
        BY LongerFull
      <3>3. Lines(Append(t, c)) = Append(G, m)
        BY <2>1, <3>1, <3>2, Zenon
      <3> QED BY <2>1, <3>3
    <2> QED BY <2>2, <2>3
  <1> HIDE DEF Good
  <1>3. Text \subseteq Good
    BY <1>1, <1>2, SeqInd DEF Text
  <1> QED BY <1>3 DEF Good

\* The lines of a text that ends with a newline are whole.
LEMMA LinesFull ==
  ASSUME NEW s \in Text, s = <<>> \/ EndsLine(s)
  PROVE  Lines(s) \in Seq(FullLine)
PROOF
  <1>1. CASE s = <<>>
    <2>1. <<>> \in Seq(FullLine)
      BY EmptySeq
    <2> QED BY <1>1, <2>1, LinesEmpty
  <1>2. CASE s # <<>>
    <2>1. PICK F \in Seq(FullLine), l \in PartLine : Lines(s) = Append(F, l)
      BY <1>2, LinesPart
    <2>2. EndsLine(Lines(s)[Len(Lines(s))])
      BY <1>2, LastLine DEF Text
    <2>3. F \in Seq(PartLine)
      <3>1. FullLine \subseteq PartLine
        BY DEF FullLine
      <3> QED BY <3>1, SeqMonotonic
    <2>4. Append(F, l)[Len(Append(F, l))] = l
      BY <2>3, FrontOf
    <2>5. l \in FullLine
      BY <2>1, <2>2, <2>4 DEF FullLine
    <2> QED BY <2>1, <2>5, FrontOf
  <1> QED BY <1>1, <1>2

\* A line is one line.
LEMMA LinesOne ==
  ASSUME NEW l \in PartLine
  PROVE  Lines(l) = <<l>>
PROOF
  <1> DEFINE Good == {t \in Text : t \in PartLine => Lines(t) = <<t>>}
  <1>1. <<>> \in Good
    BY EmptySeq DEF Text, PartLine
  <1>2. ASSUME NEW t \in Seq(Char), NEW c \in Char, t \in Good PROVE Append(t, c) \in Good
    <2> DEFINE m == Append(t, c)
    <2>1. m \in Text /\ Lines(m) = Longer(Lines(t), c)
      BY LinesAppend, AppendProperties DEF Text
    <2>2. Len(t) \in Nat /\ Len(m) = Len(t) + 1 /\ \A i \in 1..Len(t) : m[i] = t[i]
      BY FrontOf
    <2>3. CASE t = <<>>
      <3>1. Lines(t) = <<>> /\ m = <<c>>
        BY <2>3, LinesEmpty, OneAndTwo
      <3>2. Longer(<<>>, c) = <<<<c>>>>
        BY DEF Longer
      <3>3. Lines(m) = <<m>>
        <4> HIDE DEF m
        <4> QED BY <2>1, <3>1, <3>2, Zenon
      <3> QED BY <2>1, <3>3
    <2>4. ASSUME t # <<>>, m \in PartLine PROVE Lines(m) = <<m>>
      <3>1. \A i \in 1..Len(t) : t[i] # NL
        <4>1. m \in Text /\ \A i \in 1..(Len(m) - 1) : m[i] # NL
          BY <2>4 DEF PartLine
        <4>2. Len(m) - 1 = Len(t)
          BY <2>2
        <4> HIDE DEF m
        <4> QED BY <2>2, <4>1, <4>2
      <3>2. t \in PartLine
        <4>1. t \in Text /\ \A i \in 1..(Len(t) - 1) : i \in 1..Len(t)
          BY <2>2 DEF Text
        <4> QED BY <2>4, <3>1, <4>1 DEF PartLine
      <3>3. Lines(t) = <<t>>
        BY <1>2, <3>2
      <3>4. ~EndsLine(t)
        <4>1. Len(t) # 0
          BY <2>4, EmptySeq
        <4> QED BY <2>2, <3>1, <4>1 DEF EndsLine
      <3>5. Longer(<<t>>, c) = <<m>>
        <4> DEFINE L == <<t>>
        <4>1. Len(L) = 1 /\ L[Len(L)] = t /\ L # <<>> /\ L \in Seq({t})
          OBVIOUS
        <4>2. SubSeq(L, 1, Len(L) - 1) = <<>>
          <5> HIDE DEF L
          <5> QED BY <4>1, SubEmpty
        <4> HIDE DEF L
        <4>3. Longer(L, c) = Append(<<>>, m)
          BY <3>4, <4>1, <4>2 DEF Longer
        <4>4. Append(<<>>, m) = <<m>>
          BY OneAndTwo
        <4> HIDE DEF m
        <4> QED BY <4>3, <4>4 DEF L
      <3> QED BY <2>1, <3>3, <3>5
    <2> QED BY <2>1, <2>3, <2>4
  <1> HIDE DEF Good
  <1>3. Text \subseteq Good
    BY <1>1, <1>2, SeqInd DEF Text
  <1>4. l \in Good
    BY <1>3 DEF PartLine
  <1> QED BY <1>4 DEF Good

\* What is left of a whole line is a whole line.
LEMMA SuffixFull ==
  ASSUME NEW l \in FullLine, NEW t \in Text, Suffix(t, l), t # <<>>
  PROVE  t \in FullLine
PROOF
  <1>1. /\ l \in Text /\ \A i \in 1..(Len(l) - 1) : l[i] # NL
        /\ l[Len(l)] = NL /\ Len(l) \in Nat
    BY LenProperties DEF FullLine, PartLine, EndsLine, Text
  <1>2. PICK j \in 1..(Len(l) + 1) : t = SubSeq(l, j, Len(l))
    BY DEF Suffix
  <1>3. Len(t) = Len(l) + 1 - j /\ \A i \in 1..(Len(l) + 1 - j) : t[i] = l[j + i - 1]
    BY <1>1, <1>2, SuffixIs
  <1>4. Len(t) # 0 /\ Len(t) \in Nat
    BY EmptySeq, LenProperties DEF Text
  <1>5. t[Len(t)] = NL
    <2>1. Len(t) \in 1..(Len(l) + 1 - j) /\ j + Len(t) - 1 = Len(l)
      BY <1>1, <1>3, <1>4
    <2> QED BY <1>1, <1>3, <2>1
  <1>6. ASSUME NEW i \in 1..(Len(t) - 1) PROVE t[i] # NL
    <2>1. i \in 1..(Len(l) + 1 - j) /\ j + i - 1 \in 1..(Len(l) - 1)
      BY <1>1, <1>3, <1>4
    <2> QED BY <1>1, <1>3, <2>1
  <1> QED BY <1>5, <1>6 DEF FullLine, PartLine, EndsLine

LEMMA SuffixOfSuffix ==
  ASSUME NEW s \in Text, NEW t \in Text, NEW u \in Text, Suffix(t, s), Suffix(u, t)
  PROVE  Suffix(u, s)
PROOF
  <1>1. PICK j \in 1..(Len(s) + 1) : t = SubSeq(s, j, Len(s))
    BY DEF Suffix
  <1>2. PICK k \in 1..(Len(t) + 1) : u = SubSeq(t, k, Len(t))
    BY DEF Suffix
  <1>3. Len(s) \in Nat /\ Len(t) = Len(s) + 1 - j
    BY <1>1, SuffixIs, LenProperties DEF Text
  <1>4. k \in Nat \ {0} /\ Len(t) \in Nat /\ Len(t) <= Len(s) + 1 - j
    BY <1>2, <1>3
  <1>5. SubSeq(SubSeq(s, j, Len(s)), k, Len(t)) = SubSeq(s, j + k - 1, j + Len(t) - 1)
    BY <1>4, SubOfEnd
  <1>6. j + Len(t) - 1 = Len(s) /\ j + k - 1 \in 1..(Len(s) + 1)
    BY <1>2, <1>3
  <1> QED BY <1>1, <1>2, <1>5, <1>6 DEF Suffix

-----------------------------------------------------------------------------
(* trim() *)

\* The first and the last character that trim() keeps.
Kept(s, set, a, b) ==
  /\ a \in 1..Len(s) /\ b \in 1..Len(s) /\ a <= b
  /\ s[a] \notin set /\ s[b] \notin set
  /\ \A i \in 1..Len(s) : s[i] \notin set => a <= i /\ i <= b

LEMMA TrimFor ==
  ASSUME NEW s \in Text, NEW set, NEW a, NEW b, Kept(s, set, a, b)
  PROVE  TrimOf(s, set) = SubSeq(s, a, b)
PROOF
  <1> DEFINE K == {i \in DOMAIN s : s[i] \notin set}
             x == CHOOSE i \in K : \A j \in K : i <= j
             y == CHOOSE i \in K : \A j \in K : i >= j
  <1>1. DOMAIN s = 1..Len(s) /\ Len(s) \in Nat
    BY LenProperties DEF Text
  <1>2. /\ a \in K /\ b \in K /\ K # {}
        /\ \A i \in K : a <= i /\ i <= b /\ i \in Nat
    BY <1>1 DEF Kept
  <1> HIDE DEF K
  <1>3. x \in K /\ \A j \in K : x <= j
    BY <1>2
  <1>4. y \in K /\ \A j \in K : y >= j
    BY <1>2
  <1> HIDE DEF x, y
  <1>5. x = a /\ y = b
    BY <1>2, <1>3, <1>4
  <1>6. TrimOf(s, set) = SubSeq(s, x, y)
    BY <1>2 DEF TrimOf, K, x, y
  <1> QED BY <1>5, <1>6

LEMMA TrimNone ==
  ASSUME NEW s \in Text, NEW set, \A i \in 1..Len(s) : s[i] \in set
  PROVE  TrimOf(s, set) = <<>>
PROOF
  <1>1. DOMAIN s = 1..Len(s)
    BY LenProperties DEF Text
  <1>2. {i \in DOMAIN s : s[i] \notin set} = {}
    BY <1>1
  <1> QED BY <1>2 DEF TrimOf

LEMMA TrimCases ==
  ASSUME NEW s \in Text, NEW set
  PROVE  (\A i \in 1..Len(s) : s[i] \in set) \/ \E a, b : Kept(s, set, a, b)
PROOF
  <1> DEFINE K == {i \in 1..Len(s) : s[i] \notin set}
             M == {Len(s) - i : i \in K}
  <1>1. Len(s) \in Nat
    BY LenProperties DEF Text
  <1>2. SUFFICES ASSUME K # {} PROVE \E a, b : Kept(s, set, a, b)
    OBVIOUS
  <1>3. K \subseteq Nat /\ M \subseteq Nat /\ M # {}
    BY <1>1, <1>2
  <1>4. PICK a \in K : \A j \in K : a <= j
    <2> HIDE DEF K, M
    <2> QED BY <1>2, <1>3, Least
  <1>5. PICK m \in M : \A j \in M : m <= j
    <2> HIDE DEF K, M
    <2> QED BY <1>3, Least
  <1>6. PICK b \in K : m = Len(s) - b
    OBVIOUS
  <1>7. \A i \in K : i <= b
    <2>1. SUFFICES ASSUME NEW i \in K PROVE i <= b
      OBVIOUS
    <2>2. Len(s) - i \in M /\ i \in Nat /\ b \in Nat
      BY <1>3
    <2>3. Len(s) - b <= Len(s) - i
      BY <1>5, <1>6, <2>2
    <2> QED BY <1>1, <2>2, <2>3
  <1>8. Kept(s, set, a, b)
    BY <1>4, <1>7 DEF Kept
  <1> QED BY <1>8

\* What trim() leaves, and what it leaves alone.
LEMMA TrimIs ==
  ASSUME NEW s \in Text, NEW set
  PROVE  /\ TrimOf(s, set) \in Text
         /\ TrimOf(s, set) = s <=> s = <<>> \/ (s[1] \notin set /\ s[Len(s)] \notin set)
         /\ TrimOf(TrimOf(s, set), set) = TrimOf(s, set)
         /\ \A c : (\A i \in 1..Len(s) : s[i] # c)
                     => \A i \in 1..Len(TrimOf(s, set)) : TrimOf(s, set)[i] # c
PROOF
  <1>1. Len(s) \in Nat /\ <<>> \in Text /\ Len(<<>>) = 0 /\ (Len(s) = 0 <=> s = <<>>)
    BY EmptySeq, LenProperties DEF Text
  <1>2. CASE \A i \in 1..Len(s) : s[i] \in set
    <2>1. TrimOf(s, set) = <<>>
      BY <1>2, TrimNone
    <2>2. TrimOf(<<>>, set) = <<>>
      BY <1>1, TrimNone
    <2>3. s # <<>> => s[1] \in set
      BY <1>1, <1>2
    <2>4. TrimOf(s, set) = s <=> s = <<>> \/ (s[1] \notin set /\ s[Len(s)] \notin set)
      BY <2>1, <2>3
    <2> QED BY <1>1, <2>1, <2>2, <2>4
  <1>3. ASSUME NEW a, NEW b, Kept(s, set, a, b)
        PROVE  /\ TrimOf(s, set) \in Text
               /\ TrimOf(s, set) = s <=> s = <<>> \/ (s[1] \notin set /\ s[Len(s)] \notin set)
               /\ TrimOf(TrimOf(s, set), set) = TrimOf(s, set)
               /\ \A c : (\A i \in 1..Len(s) : s[i] # c)
                           => \A i \in 1..Len(TrimOf(s, set)) : TrimOf(s, set)[i] # c
    <2> DEFINE t == SubSeq(s, a, b)
    <2>1. TrimOf(s, set) = t
      BY <1>3, TrimFor
    <2>2. /\ a \in Nat \ {0} /\ b \in Nat \ {0} /\ a <= b /\ b <= Len(s)
          /\ s[a] \notin set /\ s[b] \notin set
          /\ \A i \in 1..Len(s) : s[i] \notin set => a <= i /\ i <= b
      BY <1>1, <1>3 DEF Kept
    <2>3. t \in Text /\ Len(t) = b - a + 1 /\ \A i \in 1..(b - a + 1) : t[i] = s[a + i - 1]
      BY <2>2, SubText
    <2>4. SubSeq(s, 1, Len(s)) = s
      BY SubSeqFull DEF Text
    <2> HIDE DEF t
    <2>5. t[1] = s[a] /\ t[Len(t)] = s[b] /\ t # <<>>
      <3>1. 1 \in 1..(b - a + 1) /\ Len(t) \in 1..(b - a + 1) /\ a + 1 - 1 = a
            /\ a + Len(t) - 1 = b
        BY <2>2, <2>3
      <3> QED BY <2>3, <3>1, EmptySeq
    <2>6. TrimOf(t, set) = t
      <3>1. Kept(t, set, 1, Len(t))
        <4>1. Len(t) \in Nat /\ 1 \in 1..Len(t) /\ Len(t) \in 1..Len(t)
          BY <2>2, <2>3
        <4> QED BY <2>2, <2>5, <4>1 DEF Kept
      <3>2. TrimOf(t, set) = SubSeq(t, 1, Len(t))
        BY <2>3, <3>1, TrimFor
      <3> QED BY <2>3, <3>2, SubSeqFull DEF Text
    <2>7. t = s => s[1] \notin set /\ s[Len(s)] \notin set
      BY <2>2, <2>5
    <2>8. ASSUME s[1] \notin set, s[Len(s)] \notin set PROVE t = s
      <3>1. a = 1 /\ b = Len(s)
        <4>1. 1 \in 1..Len(s) /\ Len(s) \in 1..Len(s)
          BY <1>1, <2>2
        <4> QED BY <1>1, <2>2, <2>8, <4>1
      <3> QED BY <2>4, <3>1 DEF t
    <2>9. ASSUME NEW c, \A i \in 1..Len(s) : s[i] # c, NEW i \in 1..Len(t) PROVE t[i] # c
      <3>1. i \in 1..(b - a + 1) /\ a + i - 1 \in 1..Len(s)
        BY <1>1, <2>2, <2>3
      <3> QED BY <2>3, <2>9, <3>1
    <2>10. s # <<>>
      BY <1>1, <2>2
    <2> QED BY <2>1, <2>3, <2>6, <2>7, <2>8, <2>9, <2>10
  <1> QED BY <1>2, <1>3, TrimCases

-----------------------------------------------------------------------------
(* What a configuration can be *)

NameText ==
  {n \in Text : n = <<>> \/ (/\ n[1] \notin Space
                             /\ \A i \in 2..Len(n) : n[i] \notin Space \cup {"]"})}
TagText == {t \in Text : t # <<>> /\ \A i \in 1..Len(t) : t[i] \in TagChar}
ValueText == {v \in Text : TrimOf(v, Blank) = v /\ \A i \in 1..Len(v) : v[i] # NL}

\* Comments: lines that begin with "#"
Remark == {l \in FullLine : l[1] = "#"}
Remarks == {c \in Text : EndsLine(c) /\ Lines(c) \in Seq(Remark)}

Keys == NameText \X (TagText \cup {Comment})
Fits(key, v) == v \in IF key[2] = Comment THEN Remarks ELSE ValueText
Configs ==
  {cfg \in UNION {[D -> Text] : D \in SUBSET Keys} :
     IsFiniteSet(DOMAIN cfg) /\ \A key \in DOMAIN cfg : Fits(key, cfg[key])}

Errors == {"none", "no section terminator", "bad tag", "tag with no value", "no delimiter"}
Loading == [sec : NameText, cfg : Configs, error : Errors]

LEMMA ErrorFacts ==
  /\ "none" \in Errors /\ "no section terminator" \in Errors /\ "bad tag" \in Errors
  /\ "tag with no value" \in Errors /\ "no delimiter" \in Errors
  /\ "no section terminator" # "none" /\ "bad tag" # "none"
  /\ "tag with no value" # "none" /\ "no delimiter" # "none"
PROOF
  BY Zenon DEF Errors

LEMMA ConfigChars ==
  /\ "#" \in Char /\ ":" \in Char /\ "[" \in Char /\ "]" \in Char /\ SP \in Char /\ NL \in Char
  /\ SP \in Blank /\ NL \notin Blank /\ NL \in Space /\ Blank \subseteq Space
  /\ "#" \notin Space /\ "[" \notin Space /\ "]" \notin Space /\ ":" \notin Space
  /\ "#" # "[" /\ NL # "#" /\ NL # "[" /\ NL # "]" /\ NL # ":" /\ "]" # "#" /\ SP # NL
PROOF
  <1>1. "#" \in Char /\ ":" \in Char /\ "[" \in Char /\ "]" \in Char /\ SP \in Char /\ NL \in Char
    BY Zenon DEF Char
  <1>2. /\ SP \in Blank /\ NL \notin Blank /\ NL \in Space /\ Blank \subseteq Space
        /\ "#" \notin Space /\ "[" \notin Space /\ "]" \notin Space /\ ":" \notin Space
    BY Zenon DEF Blank, Space, NL, SP
  <1>3. /\ "#" # "[" /\ NL # "#" /\ NL # "[" /\ NL # "]" /\ NL # ":" /\ "]" # "#" /\ SP # NL
    BY Zenon DEF NL, SP
  <1> QED BY <1>1, <1>2, <1>3

\* The characters of tags are none of the special ones.
LEMMA TagFacts ==
  ASSUME ConfigAssumption
  PROVE  /\ \A c \in TagChar : c \notin Space /\ c \notin Blank /\ c # NL /\ c # "#" /\ c # "[" /\ c # ":"
         /\ Comment \notin TagText /\ Comment \in Text /\ \A t \in TagText : t # Comment
PROOF
  <1>1. \A c \in TagChar : c \notin Space /\ c # "#" /\ c # "[" /\ c # ":"
    BY Zenon DEF ConfigAssumption
  <1>2. \A c \in TagChar : c \notin Blank /\ c # NL
    BY <1>1 DEF Space
  <1> DEFINE h == "#"
  <1>3. h \in Char /\ h \notin TagChar
    BY <1>1, ConfigChars
  <1>4. Comment = <<h>>
    BY DEF Comment
  <1> HIDE DEF h
  <1>5. Comment \in Text /\ Len(Comment) = 1 /\ Comment[1] = h
    BY <1>3, <1>4 DEF Text
  <1>6. Comment \notin TagText
    <2>1. 1 \in 1..Len(Comment)
      BY <1>5
    <2> QED BY <1>3, <1>5, <2>1 DEF TagText
  <1> QED BY <1>1, <1>2, <1>5, <1>6

\* A value more, or another.
LEMMA SetIs ==
  ASSUME NEW rd \in Loading, NEW tag, <<rd.sec, tag>> \in Keys, NEW v \in Text,
         Fits(<<rd.sec, tag>>, v)
  PROVE  /\ Set(rd, tag, v) \in Loading
         /\ Set(rd, tag, v).sec = rd.sec /\ Set(rd, tag, v).error = rd.error
         /\ DOMAIN Set(rd, tag, v).cfg = DOMAIN rd.cfg \cup {<<rd.sec, tag>>}
         /\ Set(rd, tag, v).cfg[<<rd.sec, tag>>] = v
         /\ \A k \in DOMAIN rd.cfg : k # <<rd.sec, tag>> => Set(rd, tag, v).cfg[k] = rd.cfg[k]
PROOF
  <1> DEFINE key == <<rd.sec, tag>>
             D == DOMAIN rd.cfg
             cfg == [k \in D \cup {key} |-> IF k = key THEN v ELSE rd.cfg[k]]
  <1>1. /\ rd.cfg \in Configs /\ rd.sec \in NameText /\ rd.error \in Errors
        /\ rd = [sec |-> rd.sec, cfg |-> rd.cfg, error |-> rd.error]
    BY DEF Loading
  <1>2. Set(rd, tag, v) = [rd EXCEPT !.cfg = cfg]
    BY DEF Set
  <1>3. /\ D \subseteq Keys /\ IsFiniteSet(D)
        /\ \A k \in D : rd.cfg[k] \in Text /\ Fits(k, rd.cfg[k])
    BY <1>1 DEF Configs
  <1> HIDE DEF D
  <1>4. IsFiniteSet(D \cup {key})
    BY <1>3, FS_AddElement
  <1>5. D \cup {key} \subseteq Keys
    BY <1>3
  <1>6. /\ cfg \in [D \cup {key} -> Text] /\ DOMAIN cfg = D \cup {key} /\ cfg[key] = v
        /\ \A k \in D : k # key => cfg[k] = rd.cfg[k]
    BY <1>3
  <1>7. \A k \in DOMAIN cfg : Fits(k, cfg[k])
    <2> HIDE DEF cfg
    <2> QED BY <1>3, <1>6
  <1> HIDE DEF cfg
  <1>8. cfg \in Configs
    <2>1. cfg \in UNION {[E -> Text] : E \in SUBSET Keys}
      BY <1>5, <1>6
    <2> QED BY <1>4, <1>6, <1>7, <2>1 DEF Configs
  <1> DEFINE r == [rd EXCEPT !.cfg = cfg]
  <1>9. r.sec = rd.sec /\ r.cfg = cfg /\ r.error = rd.error
        /\ r = [sec |-> rd.sec, cfg |-> cfg, error |-> rd.error]
    BY <1>1
  <1>10. r \in Loading
    BY <1>1, <1>8, <1>9 DEF Loading
  <1> HIDE DEF r, key
  <1>11. Set(rd, tag, v) = r
    BY <1>2 DEF r
  <1>12. /\ Set(rd, tag, v) \in Loading
         /\ Set(rd, tag, v).sec = rd.sec /\ Set(rd, tag, v).error = rd.error
         /\ DOMAIN Set(rd, tag, v).cfg = DOMAIN rd.cfg \cup {key}
         /\ Set(rd, tag, v).cfg[key] = v
         /\ \A k \in DOMAIN rd.cfg : k # key => Set(rd, tag, v).cfg[k] = rd.cfg[k]
    BY <1>6, <1>9, <1>10, <1>11 DEF D
  <1> QED BY <1>12 DEF key

LEMMA WrongIs ==
  ASSUME NEW rd \in Loading, NEW what \in Errors
  PROVE  Wrong(rd, what) \in Loading /\ Wrong(rd, what).error = what
PROOF
  BY DEF Wrong, Loading

LEMMA SectionIs ==
  ASSUME NEW rd \in Loading, NEW n \in NameText
  PROVE  /\ [rd EXCEPT !.sec = n] \in Loading /\ [rd EXCEPT !.sec = n].sec = n
         /\ [rd EXCEPT !.sec = n].cfg = rd.cfg /\ [rd EXCEPT !.sec = n].error = rd.error
PROOF
  BY DEF Loading

-----------------------------------------------------------------------------
(* Lines that are read *)

\* A whole line without its newline.
LEMMA ChopIs ==
  ASSUME NEW l \in FullLine
  PROVE  /\ Chopped(l) = SubSeq(l, 1, Len(l) - 1) /\ Chopped(l) \in Text
         /\ Len(Chopped(l)) = Len(l) - 1 /\ Len(l) \in Nat \ {0} /\ l \in Text
         /\ \A i \in 1..(Len(l) - 1) : Chopped(l)[i] = l[i] /\ l[i] # NL
         /\ l[Len(l)] = NL
PROOF
  <1>1. /\ l \in Text /\ EndsLine(l) /\ l # <<>> /\ l[Len(l)] = NL
        /\ \A i \in 1..(Len(l) - 1) : l[i] # NL
    BY DEF FullLine, PartLine, EndsLine
  <1>2. Len(l) \in Nat \ {0} /\ Len(l) - 1 \in Nat /\ Len(l) - 1 <= Len(l) /\ 1 \in Nat \ {0}
        /\ 1 <= (Len(l) - 1) + 1
    BY <1>1, EmptySeq, LenProperties DEF Text
  <1>3. Chopped(l) = SubSeq(l, 1, Len(l) - 1)
    BY <1>1 DEF Chopped
  <1> DEFINE x == SubSeq(l, 1, Len(l) - 1)
  <1>4. x \in Text /\ Len(x) = (Len(l) - 1) - 1 + 1
        /\ \A i \in 1..((Len(l) - 1) - 1 + 1) : x[i] = l[1 + i - 1]
    BY <1>1, <1>2, SubText
  <1> HIDE DEF x
  <1>5. Len(x) = Len(l) - 1
    BY <1>2, <1>4
  <1>6. \A i \in 1..(Len(l) - 1) : x[i] = l[i]
    <2>1. SUFFICES ASSUME NEW i \in 1..(Len(l) - 1) PROVE x[i] = l[i]
      OBVIOUS
    <2>2. i \in 1..((Len(l) - 1) - 1 + 1) /\ 1 + i - 1 = i
      BY <1>2
    <2> QED BY <1>4, <2>2
  <1> QED BY <1>1, <1>2, <1>3, <1>4, <1>5, <1>6 DEF x

\* The parts of a line that is taken for a tag and a value.
TagEnd(l) == Past(Chopped(l), TagChar)
AfterTag(l) == SubSeq(Chopped(l), TagEnd(l), Len(Chopped(l)))
FromColon(l) ==
  IF AfterTag(l) = <<>> \/ AfterTag(l)[1] = ":" THEN AfterTag(l) ELSE Unindented(Tail(AfterTag(l)))
TagIn(l) == SubSeq(Chopped(l), 1, TagEnd(l) - 1)

LEMMA TagLineCases ==
  ASSUME NEW rd, NEW l
  PROVE  TagLine(rd, l) =
           IF Chopped(l) = <<>> THEN rd
           ELSE IF TagEnd(l) = 1 THEN Wrong(rd, "bad tag")
           ELSE IF FromColon(l) = <<>> THEN Wrong(rd, "tag with no value")
           ELSE IF FromColon(l)[1] # ":" THEN Wrong(rd, "no delimiter")
           ELSE Set(rd, TagIn(l), TrimOf(Tail(FromColon(l)), Blank))
PROOF
  BY Zenon DEF TagLine, TagEnd, AfterTag, FromColon, TagIn

LEMMA TailIs ==
  ASSUME NEW s \in Text, s # <<>>
  PROVE  /\ Tail(s) = SubSeq(s, 2, Len(s)) /\ Tail(s) \in Text /\ Suffix(Tail(s), s)
         /\ Len(Tail(s)) = Len(s) - 1 /\ Len(s) \in Nat \ {0}
         /\ \A i \in 1..(Len(s) - 1) : Tail(s)[i] = s[i + 1]
PROOF
  <1>1. Len(s) \in Nat \ {0}
    BY EmptySeq, LenProperties DEF Text
  <1>2. Tail(s) \in Text /\ Len(Tail(s)) = Len(s) - 1 /\ \A i \in 1..(Len(s) - 1) : Tail(s)[i] = s[i + 1]
    BY HeadTailProperties DEF Text
  <1>3. 2 \in 1..(Len(s) + 1)
    BY <1>1
  <1> DEFINE x == SubSeq(s, 2, Len(s))
  <1>4. /\ x \in Text /\ Suffix(x, s) /\ Len(x) = Len(s) + 1 - 2
        /\ \A i \in 1..(Len(s) + 1 - 2) : x[i] = s[2 + i - 1]
    BY <1>3, SuffixIs
  <1> HIDE DEF x
  <1>5. Len(x) = Len(s) - 1
    BY <1>1, <1>4
  <1>6. \A i \in 1..(Len(s) - 1) : x[i] = s[i + 1]
    <2>1. SUFFICES ASSUME NEW i \in 1..(Len(s) - 1) PROVE x[i] = s[i + 1]
      OBVIOUS
    <2>2. i \in 1..(Len(s) + 1 - 2) /\ 2 + i - 1 = i + 1
      BY <1>1
    <2> QED BY <1>4, <2>2
  <1>7. x = Tail(s)
    <2> DEFINE y == Tail(s)
    <2> HIDE DEF y
    <2>1. y \in Seq(Char) /\ x \in Seq(Char) /\ Len(x) = Len(y)
          /\ \A i \in 1..Len(x) : x[i] = y[i]
      BY <1>2, <1>4, <1>5, <1>6 DEF Text, y
    <2>2. x = y
      BY <2>1, SeqEqual
    <2> QED BY <2>2 DEF y
  <1> QED BY <1>1, <1>2, <1>4, <1>7 DEF x

LEMMA NoneInSuffix ==
  ASSUME NEW s \in Text, NEW t \in Text, Suffix(t, s), NEW c, \A i \in 1..Len(s) : s[i] # c
  PROVE  \A i \in 1..Len(t) : t[i] # c
PROOF
  <1>1. PICK j \in 1..(Len(s) + 1) : t = SubSeq(s, j, Len(s))
    BY DEF Suffix
  <1>2. Len(s) \in Nat /\ Len(t) = Len(s) + 1 - j /\ \A i \in 1..(Len(s) + 1 - j) : t[i] = s[j + i - 1]
    BY <1>1, SuffixIs, LenProperties DEF Text
  <1>3. SUFFICES ASSUME NEW i \in 1..Len(t) PROVE t[i] # c
    OBVIOUS
  <1>4. i \in 1..(Len(s) + 1 - j) /\ j + i - 1 \in 1..Len(s)
    BY <1>2
  <1> QED BY <1>2, <1>4

\* What a line does that is taken for a tag and a value.
LEMMA TagLineIs ==
  ASSUME ConfigAssumption, NEW rd \in Loading, NEW l \in FullLine
  PROVE  \/ TagLine(rd, l) = rd
         \/ \E w \in Errors : w # "none" /\ TagLine(rd, l) = Wrong(rd, w)
         \/ \E tag \in TagText, v \in ValueText :
              /\ TagLine(rd, l) = Set(rd, tag, v)
              /\ Len(tag) <= Len(l) /\ tag = SubSeq(l, 1, Len(tag))
PROOF
  <1> DEFINE s == Chopped(l)
             e == TagEnd(l)
             after == AfterTag(l)
             from == FromColon(l)
             tag == TagIn(l)
             v == TrimOf(Tail(from), Blank)
  <1>1. /\ s = SubSeq(l, 1, Len(l) - 1) /\ s \in Text /\ Len(s) = Len(l) - 1
        /\ Len(l) \in Nat \ {0} /\ l \in Text
        /\ \A i \in 1..(Len(l) - 1) : s[i] = l[i] /\ l[i] # NL
    BY ChopIs
  <1>2. \A i \in 1..Len(s) : s[i] # NL
    BY <1>1
  <1> HIDE DEF s
  <1>3. e \in 1..(Len(s) + 1) /\ \A i \in 1..(e - 1) : s[i] \in TagChar
    BY <1>1, PastIs DEF TagEnd, s
  <1> HIDE DEF e
  <1>4. after \in Text /\ Suffix(after, s)
    BY <1>1, <1>3, SuffixIs DEF AfterTag, s, e
  <1> HIDE DEF after
  <1>5. from \in Text /\ Suffix(from, s)
    <2>1. CASE after = <<>> \/ after[1] = ":"
      BY <1>4, <2>1 DEF FromColon, after
    <2>2. CASE ~(after = <<>> \/ after[1] = ":")
      <3>1. Tail(after) \in Text /\ Suffix(Tail(after), after)
        BY <1>4, <2>2, TailIs
      <3>2. Unindented(Tail(after)) \in Text /\ Suffix(Unindented(Tail(after)), Tail(after))
        BY <3>1, UnindentedIs
      <3>3. Suffix(Tail(after), s)
        BY <1>1, <1>4, <3>1, SuffixOfSuffix
      <3>4. Suffix(Unindented(Tail(after)), s)
        BY <1>1, <3>1, <3>2, <3>3, SuffixOfSuffix
      <3>5. from = Unindented(Tail(after))
        BY <2>2 DEF FromColon, after
      <3> QED BY <3>2, <3>4, <3>5
    <2> QED BY <2>1, <2>2
  <1> HIDE DEF from
  <1>6. ASSUME s # <<>>, e # 1, from # <<>>, from[1] = ":"
        PROVE  /\ TagLine(rd, l) = Set(rd, tag, v) /\ tag \in TagText /\ v \in ValueText
               /\ Len(tag) <= Len(l) /\ tag = SubSeq(l, 1, Len(tag))
    <2>1. TagLine(rd, l) = Set(rd, tag, v)
      BY <1>6, TagLineCases, Zenon DEF s, e, from
    <2>2. /\ e - 1 \in Nat \ {0} /\ 1 \in Nat \ {0} /\ e - 1 <= Len(s) /\ 1 <= (e - 1) + 1
          /\ Len(s) <= Len(l) /\ Len(s) \in Nat
      BY <1>1, <1>3, <1>6
    <2>3. /\ tag \in Text /\ Len(tag) = (e - 1) - 1 + 1
          /\ \A i \in 1..((e - 1) - 1 + 1) : tag[i] = s[1 + i - 1]
      <3>1. tag = SubSeq(s, 1, e - 1)
        BY DEF TagIn, s, e
      <3> HIDE DEF tag
      <3>2. s \in Text
        BY <1>1
      <3> QED BY <2>2, <3>1, <3>2, SubText, SMTT(30)
    <2>4. tag = SubSeq(l, 1, e - 1)
      <3>1. tag = SubSeq(SubSeq(l, 1, Len(l) - 1), 1, e - 1)
        BY <1>1 DEF TagIn, s, e
      <3>2. /\ Len(l) - 1 \in Nat /\ Len(l) - 1 <= Len(l) /\ 1 + (e - 1) - 1 <= Len(l) - 1
            /\ 1 <= (Len(l) - 1) + 1 /\ e - 1 \in Nat
        BY <1>1, <2>2
      <3>3. SubSeq(SubSeq(l, 1, Len(l) - 1), 1, e - 1) = SubSeq(l, 1 + 1 - 1, 1 + (e - 1) - 1)
        BY <1>1, <2>2, <3>2, SubSub DEF Text
      <3>4. 1 + 1 - 1 = 1 /\ 1 + (e - 1) - 1 = e - 1
        BY <2>2
      <3> QED BY <3>1, <3>3, <3>4
    <2> HIDE DEF tag
    <2>5. Len(tag) = e - 1
      BY <2>2, <2>3
    <2>6. \A i \in 1..Len(tag) : tag[i] \in TagChar
      <3>1. SUFFICES ASSUME NEW i \in 1..Len(tag) PROVE tag[i] \in TagChar
        OBVIOUS
      <3>2. i \in 1..(e - 1) /\ i \in 1..((e - 1) - 1 + 1) /\ 1 + i - 1 = i
        BY <2>2, <2>5
      <3> QED BY <1>3, <2>3, <3>2
    <2>7. tag # <<>>
      BY <2>2, <2>5, EmptySeq
    <2>8. v \in ValueText
      <3> DEFINE u == Tail(from)
      <3>1. u \in Text /\ Suffix(u, from)
        BY <1>5, <1>6, TailIs
      <3> HIDE DEF u
      <3>2. Suffix(u, s)
        BY <1>1, <1>5, <3>1, SuffixOfSuffix
      <3>3. \A i \in 1..Len(u) : u[i] # NL
        BY <1>1, <1>2, <3>1, <3>2, NoneInSuffix
      <3>4. /\ TrimOf(u, Blank) \in Text /\ TrimOf(TrimOf(u, Blank), Blank) = TrimOf(u, Blank)
            /\ \A i \in 1..Len(TrimOf(u, Blank)) : TrimOf(u, Blank)[i] # NL
        BY <3>1, <3>3, TrimIs
      <3>5. v = TrimOf(u, Blank)
        BY DEF u
      <3> QED BY <3>4, <3>5 DEF ValueText
    <2>9. tag \in TagText
      BY <2>3, <2>6, <2>7 DEF TagText
    <2>10. Len(tag) <= Len(l)
      BY <2>2, <2>5
    <2>11. tag = SubSeq(l, 1, Len(tag))
      BY <2>4, <2>5
    <2> HIDE DEF v
    <2> QED BY <2>1, <2>8, <2>9, <2>10, <2>11
  <1> HIDE DEF tag, v
  <1>7. CASE s = <<>>
    <2>1. TagLine(rd, l) = rd
      BY <1>7, TagLineCases, Zenon DEF s
    <2> QED BY <2>1
  <1>8. CASE s # <<>> /\ e = 1
    <2>1. TagLine(rd, l) = Wrong(rd, "bad tag")
      BY <1>8, TagLineCases, Zenon DEF s, e
    <2> QED BY <2>1, ErrorFacts, Zenon
  <1>9. CASE s # <<>> /\ e # 1 /\ from = <<>>
    <2>1. TagLine(rd, l) = Wrong(rd, "tag with no value")
      BY <1>9, TagLineCases, Zenon DEF s, e, from
    <2> QED BY <2>1, ErrorFacts, Zenon
  <1>10. CASE s # <<>> /\ e # 1 /\ from # <<>> /\ from[1] # ":"
    <2>1. TagLine(rd, l) = Wrong(rd, "no delimiter")
      BY <1>10, TagLineCases, Zenon DEF s, e, from
    <2> QED BY <2>1, ErrorFacts, Zenon
  <1>11. CASE s # <<>> /\ e # 1 /\ from # <<>> /\ from[1] = ":"
    BY <1>6, <1>11
  <1> QED BY <1>7, <1>8, <1>9, <1>10, <1>11

LEMMA UnindentedEmpty == Unindented(<<>>) = <<>>
PROOF
  <1> DEFINE e == <<>>
  <1>1. e \in Text /\ Len(e) = 0
    BY EmptySeq DEF Text
  <1> HIDE DEF e
  <1>2. Suffix(Unindented(e), e)
    BY <1>1, UnindentedIs
  <1>3. \A j \in 1..(0 + 1) : SubSeq(e, j, 0) = <<>>
    BY <1>1, SubEmpty DEF Text
  <1>4. Unindented(e) = <<>>
    BY <1>1, <1>2, <1>3 DEF Suffix
  <1> QED BY <1>4 DEF e

\* What a line does that begins with "[".
LEMMA SectionLineIs ==
  ASSUME NEW rd \in Loading, NEW line \in FullLine
  PROVE  \/ \E w \in Errors : w # "none" /\ SectionLine(rd, line) = Wrong(rd, w)
         \/ \E n \in NameText : SectionLine(rd, line) = [rd EXCEPT !.sec = n]
PROOF
  <1> DEFINE l == Unindented(Tail(line))
             end == IF l = <<>> THEN 1 ELSE Until(l, 2, Space \cup {"]"})
             rest == Unindented(SubSeq(l, end, Len(l)))
             n == SubSeq(l, 1, end - 1)
  <1>1. line \in Text /\ line # <<>> /\ line \in FullLine
    BY DEF FullLine, PartLine
  <1>2. l \in Text /\ (l # <<>> => l \in FullLine /\ l[1] \notin Blank)
    <2> DEFINE t == Tail(line)
    <2>1. t \in Text /\ Suffix(t, line)
      BY <1>1, TailIs
    <2> HIDE DEF t
    <2>2. Unindented(t) \in Text /\ Suffix(Unindented(t), t)
          /\ (Unindented(t) # <<>> => Unindented(t)[1] \notin Blank)
      BY <2>1, UnindentedIs
    <2>3. l = Unindented(t)
      BY DEF t
    <2> HIDE DEF l
    <2>4. l \in Text /\ Suffix(l, line)
      BY <1>1, <2>1, <2>2, <2>3, SuffixOfSuffix
    <2>5. l # <<>> => l \in FullLine
      BY <2>4, SuffixFull
    <2> QED BY <2>2, <2>3, <2>4, <2>5
  <1>3. SectionLine(rd, line) =
          IF rest # <<>> /\ rest[1] = "]" THEN [rd EXCEPT !.sec = n]
          ELSE Wrong(rd, "no section terminator")
    BY Zenon DEF SectionLine
  <1> HIDE DEF l
  <1>4. ASSUME rest # <<>>, rest[1] = "]" PROVE n \in NameText
    <2>1. l # <<>>
      <3>1. ASSUME l = <<>> PROVE FALSE
        <4>1. SubSeq(l, end, Len(l)) = <<>>
          BY <3>1, SubEmpty, EmptySeq
        <4> QED BY <1>4, <4>1, UnindentedEmpty
      <3> QED BY <3>1
    <2>2. Len(l) \in Nat \ {0} /\ l \in Text /\ l[1] \notin Blank
      BY <1>2, <2>1, EmptySeq, LenProperties DEF Text
    <2>3. end = Until(l, 2, Space \cup {"]"})
      BY <2>1
    <2>4. /\ end \in 2..(Len(l) + 1) /\ \A i \in 2..(end - 1) : l[i] \notin Space \cup {"]"}
          /\ end <= Len(l) => l[end] \in Space \cup {"]"}
      <3>1. 2 \in 1..(Len(l) + 1)
        BY <2>2
      <3> QED BY <2>2, <2>3, <3>1, UntilIs
    <2> HIDE DEF end
    <2>5. l[1] # NL
      <3>1. ASSUME l[1] = NL PROVE FALSE
        <4> DEFINE s == SubSeq(l, end, Len(l))
        <4>1. Len(l) = 1
          <5>1. \A i \in 1..(Len(l) - 1) : l[i] # NL
            BY <1>2, <2>1 DEF FullLine, PartLine
          <5>2. \A k \in Nat \ {0} : k # 1 => 1 \in 1..(k - 1)
            OBVIOUS
          <5> QED BY <2>2, <3>1, <5>1, <5>2
        <4>2. end = 2
          BY <2>4, <4>1
        <4>3. s = <<>>
          BY <2>2, <4>1, <4>2, SubEmpty DEF Text
        <4> HIDE DEF s
        <4> QED BY <1>4, <4>3, UnindentedEmpty DEF s
      <3> QED BY <3>1
    <2>6. l[1] \notin Space
      BY <2>2, <2>5 DEF Space
    <2>7. end - 1 \in Nat \ {0} /\ end - 1 <= Len(l) /\ 1 \in Nat \ {0} /\ 1 <= (end - 1) + 1
      BY <2>2, <2>4
    <2>8. n \in Text /\ Len(n) = (end - 1) - 1 + 1
          /\ \A i \in 1..((end - 1) - 1 + 1) : n[i] = l[1 + i - 1]
      BY <2>2, <2>7, SubText
    <2> HIDE DEF n
    <2>9. Len(n) = end - 1 /\ \A i \in 1..(end - 1) : n[i] = l[i]
      <3>1. \A i \in 1..(end - 1) : i \in 1..((end - 1) - 1 + 1) /\ 1 + i - 1 = i
        BY <2>7
      <3> QED BY <2>7, <2>8, <3>1
    <2>10. n[1] \notin Space
      <3>1. 1 \in 1..(end - 1)
        BY <2>2, <2>4
      <3> QED BY <2>6, <2>9, <3>1
    <2>11. \A i \in 2..Len(n) : n[i] \notin Space \cup {"]"}
      <3>1. \A i \in 2..Len(n) : i \in 1..(end - 1) /\ i \in 2..(end - 1)
        BY <2>7, <2>9
      <3> QED BY <2>4, <2>9, <3>1
    <2> QED BY <2>8, <2>10, <2>11 DEF NameText
  <1> HIDE DEF end, rest, n
  <1>5. CASE rest # <<>> /\ rest[1] = "]"
    BY <1>3, <1>4, <1>5
  <1>6. CASE ~(rest # <<>> /\ rest[1] = "]")
    <2>1. SectionLine(rd, line) = Wrong(rd, "no section terminator")
      BY <1>3, <1>6
    <2> QED BY <2>1, ErrorFacts, Zenon
  <1> QED BY <1>5, <1>6

\* A comment is put behind those that there were.
LEMMA CommentIs ==
  ASSUME NEW rd \in Loading, NEW l \in Remark
  PROVE  /\ Get(rd.cfg, rd.sec, Comment, <<>>) \o l \in Remarks
         /\ <<rd.sec, Comment>> \in Keys
         /\ Fits(<<rd.sec, Comment>>, Get(rd.cfg, rd.sec, Comment, <<>>) \o l)
         /\ Get(rd.cfg, rd.sec, Comment, <<>>) \in Text
         /\ AddComment(rd, l) = Set(rd, Comment, Get(rd.cfg, rd.sec, Comment, <<>>) \o l)
PROOF
  <1> DEFINE key == <<rd.sec, Comment>>
             old == Get(rd.cfg, rd.sec, Comment, <<>>)
  <1>1. rd.cfg \in Configs /\ rd.sec \in NameText
    BY DEF Loading
  <1>2. key \in Keys
    BY <1>1 DEF Keys
  <1>3. l \in FullLine /\ l \in PartLine /\ l \in Text /\ EndsLine(l)
    BY DEF Remark, FullLine, PartLine
  <1>4. old \in Text /\ (old = <<>> \/ EndsLine(old)) /\ Lines(old) \in Seq(Remark)
    <2>1. CASE key \in DOMAIN rd.cfg
      <3>1. Fits(key, rd.cfg[key])
        BY <1>1, <2>1 DEF Configs
      <3>2. key[2] = Comment
        OBVIOUS
      <3>3. rd.cfg[key] \in Remarks
        BY <3>1, <3>2 DEF Fits
      <3>4. old = rd.cfg[key]
        BY <2>1 DEF Get
      <3> QED BY <3>3, <3>4 DEF Remarks
    <2>2. CASE key \notin DOMAIN rd.cfg
      <3>1. old = <<>>
        BY <2>2 DEF Get
      <3>2. <<>> \in Text /\ <<>> \in Seq(Remark)
        BY EmptySeq DEF Text
      <3> QED BY <3>1, <3>2, LinesEmpty
    <2> QED BY <2>1, <2>2
  <1> HIDE DEF old
  <1>5. old \o l \in Text /\ EndsLine(old \o l)
    BY <1>3, <1>4, EndsConcat
  <1>6. Lines(old \o l) \in Seq(Remark)
    <2>1. Lines(old \o l) = Lines(old) \o Lines(l) /\ Lines(l) = <<l>>
      BY <1>3, <1>4, LinesConcat, LinesOne DEF Text
    <2>2. <<l>> \in Seq(Remark)
      OBVIOUS
    <2> QED BY <1>4, <2>1, <2>2, ConcatProperties
  <1>7. old \o l \in Remarks
    BY <1>5, <1>6 DEF Remarks
  <1>8. Fits(key, old \o l)
    <2>1. key[2] = Comment
      OBVIOUS
    <2> QED BY <1>7, <2>1 DEF Fits
  <1>9. AddComment(rd, l) = Set(rd, Comment, old \o l)
    BY DEF AddComment, old
  <1> QED BY <1>2, <1>4, <1>7, <1>8, <1>9 DEF old

-----------------------------------------------------------------------------
(* What a line does *)

\* The tag of a line is at its beginning, but for blanks.
Names(line, tag) ==
  \E l \in FullLine : Suffix(l, line) /\ Len(tag) <= Len(l) /\ tag = SubSeq(l, 1, Len(tag))

Nothing(rd, r) == r = rd
Fails(rd, r) == \E w \in Errors : w # "none" /\ r = Wrong(rd, w)
Section(rd, r) == \E n \in NameText : r = [rd EXCEPT !.sec = n]
Comments(rd, line, r) == \E l \in Remark : Suffix(l, line) /\ r = AddComment(rd, l)
Sets(rd, line, r) ==
  \E tag \in TagText, v \in ValueText : r = Set(rd, tag, v) /\ Names(line, tag)

LEMMA SuffixSelf ==
  ASSUME NEW s \in Text
  PROVE  Suffix(s, s)
PROOF
  <1>1. SubSeq(s, 1, Len(s)) = s /\ 1 \in 1..(Len(s) + 1)
    BY SubSeqFull, LenProperties DEF Text
  <1> QED BY <1>1 DEF Suffix

LEMMA ConfigLineIs ==
  ASSUME ConfigAssumption, NEW rd \in Loading, rd.error = "none", NEW line \in FullLine,
         NEW r, r = ConfigLine(rd, line)
  PROVE  Nothing(rd, r) \/ Fails(rd, r) \/ Section(rd, r) \/ Comments(rd, line, r)
         \/ Sets(rd, line, r)
PROOF
  <1> DEFINE l == Unindented(line)
  <1>1. line \in Text
    BY DEF FullLine, PartLine
  <1>2. l \in Text /\ Suffix(l, line)
    BY <1>1, UnindentedIs
  <1> HIDE DEF l
  <1>3. CASE l = <<>>
    <2>1. r = rd
      BY <1>3, Zenon DEF ConfigLine, l
    <2> QED BY <2>1 DEF Nothing
  <1>4. l # <<>> => l \in FullLine
    BY <1>2, SuffixFull
  <1>5. CASE l # <<>> /\ l[1] = "#"
    <2>1. r = AddComment(rd, l)
      BY <1>5, Zenon DEF ConfigLine, l
    <2>2. l \in Remark
      BY <1>4, <1>5 DEF Remark
    <2> QED BY <1>2, <2>1, <2>2 DEF Comments
  <1>6. CASE l # <<>> /\ l[1] # "#" /\ l[1] = "["
    <2>1. r = SectionLine(rd, l)
      BY <1>6, Zenon DEF ConfigLine, l
    <2>2. Fails(rd, r) \/ Section(rd, r)
      BY <1>4, <1>6, <2>1, SectionLineIs DEF Fails, Section
    <2> QED BY <2>2
  <1>7. CASE l # <<>> /\ l[1] # "#" /\ l[1] # "["
    <2>1. r = TagLine(rd, l)
      BY <1>7, Zenon DEF ConfigLine, l
    <2>2. l \in FullLine
      BY <1>4, <1>7
    <2>3. \/ r = rd
          \/ \E w \in Errors : w # "none" /\ r = Wrong(rd, w)
          \/ \E tag \in TagText, v \in ValueText :
               /\ r = Set(rd, tag, v)
               /\ Len(tag) <= Len(l) /\ tag = SubSeq(l, 1, Len(tag))
      BY <2>1, <2>2, TagLineIs
    <2>4. CASE r = rd
      BY <2>4 DEF Nothing
    <2>5. CASE \E w \in Errors : w # "none" /\ r = Wrong(rd, w)
      BY <2>5 DEF Fails
    <2>6. ASSUME NEW tag \in TagText, NEW v \in ValueText, r = Set(rd, tag, v),
                 Len(tag) <= Len(l), tag = SubSeq(l, 1, Len(tag))
          PROVE  Sets(rd, line, r)
      BY <1>2, <2>2, <2>6 DEF Sets, Names
    <2> QED BY <2>3, <2>4, <2>5, <2>6
  <1> QED BY <1>3, <1>5, <1>6, <1>7

LEMMA TagKey ==
  ASSUME NEW rd \in Loading, NEW tag \in TagText, NEW v \in ValueText, ConfigAssumption
  PROVE  <<rd.sec, tag>> \in Keys /\ v \in Text /\ Fits(<<rd.sec, tag>>, v)
PROOF
  <1>1. rd.sec \in NameText /\ tag # Comment
    BY TagFacts DEF Loading
  <1>2. <<rd.sec, tag>> \in Keys /\ <<rd.sec, tag>>[2] = tag
    BY <1>1 DEF Keys
  <1> QED BY <1>1, <1>2 DEF Fits, ValueText

LEMMA ConfigLineType ==
  ASSUME ConfigAssumption, NEW rd \in Loading, NEW line \in FullLine
  PROVE  ConfigLine(rd, line) \in Loading /\ (rd.error # "none" => ConfigLine(rd, line) = rd)
PROOF
  <1> DEFINE r == ConfigLine(rd, line)
  <1>1. rd.error # "none" => r = rd
    BY Zenon DEF ConfigLine
  <1>3. rd.error = "none" => Nothing(rd, r) \/ Fails(rd, r) \/ Section(rd, r)
                             \/ Comments(rd, line, r) \/ Sets(rd, line, r)
    BY ConfigLineIs
  <1> HIDE DEF r
  <1>2. ASSUME rd.error = "none" PROVE r \in Loading
    <2>2. CASE Nothing(rd, r)
      BY <2>2 DEF Nothing
    <2>3. CASE Fails(rd, r)
      BY <2>3, WrongIs DEF Fails
    <2>4. CASE Section(rd, r)
      BY <2>4, SectionIs DEF Section
    <2>5. CASE Comments(rd, line, r)
      <3>1. PICK l \in Remark : r = AddComment(rd, l)
        BY <2>5 DEF Comments
      <3> DEFINE v == Get(rd.cfg, rd.sec, Comment, <<>>) \o l
      <3>2. /\ v \in Remarks /\ <<rd.sec, Comment>> \in Keys /\ Fits(<<rd.sec, Comment>>, v)
            /\ AddComment(rd, l) = Set(rd, Comment, v)
        BY CommentIs
      <3> HIDE DEF v
      <3>3. v \in Text
        BY <3>2 DEF Remarks
      <3> QED BY <3>1, <3>2, <3>3, SetIs
    <2>6. CASE Sets(rd, line, r)
      <3>1. PICK tag \in TagText, v \in ValueText : r = Set(rd, tag, v)
        BY <2>6 DEF Sets
      <3>2. <<rd.sec, tag>> \in Keys /\ v \in Text /\ Fits(<<rd.sec, tag>>, v)
        BY TagKey
      <3> QED BY <3>1, <3>2, SetIs
    <2> QED BY <1>2, <1>3, <2>2, <2>3, <2>4, <2>5, <2>6
  <1> QED BY <1>1, <1>2 DEF r

-----------------------------------------------------------------------------
(* Lines one after the other *)

LEMMA ConfigLinesLoop ==
  ASSUME ConfigAssumption, NEW rd \in Loading, NEW s \in Seq(FullLine)
  PROVE  \E at \in [0..Len(s) -> Loading] :
           /\ at[0] = rd
           /\ \A k \in 1..Len(s) : at[k] = ConfigLine(at[k - 1], s[k])
           /\ ConfigLines(rd, s) = at[Len(s)]
PROOF
  <1> DEFINE a0 == rd
             Loop(f) == f = [k \in 0..Len(s) |->
                              IF k = 0 THEN rd ELSE ConfigLine(f[k - 1], s[k])]
             step == [x \in (1..Len(s)) \X Loading |-> ConfigLine(x[2], s[x[1]])]
  <1>1. Len(s) \in Nat /\ a0 \in Loading /\ \A k \in 1..Len(s) : s[k] \in FullLine
    BY ElementOfSeq, LenProperties, EmptySeq DEF Text
  <1>2. step \in [(1..Len(s)) \X Loading -> Loading]
    BY <1>1, ConfigLineType
  <1>3. PICK f \in [0..Len(s) -> Loading] :
               f[0] = a0 /\ \A k \in 1..Len(s) : f[k] = step[<<k, f[k - 1]>>]
    <2> HIDE DEF step, a0
    <2>1. \E f : History(f, Len(s), Loading, a0, step)
      BY <1>1, <1>2, Iterates
    <2> QED BY <2>1 DEF History
  <1>4. ASSUME NEW k \in 1..Len(s) PROVE f[k] = ConfigLine(f[k - 1], s[k])
    <2>1. k - 1 \in 0..Len(s)
      BY <1>1
    <2>2. <<k, f[k - 1]>> \in (1..Len(s)) \X Loading
      BY <1>3, <2>1
    <2> QED BY <1>3, <2>2
  <1>5. Loop(f)
    BY <1>3, <1>4
  <1> DEFINE at == CHOOSE g : Loop(g)
  <1>6. Loop(at)
    <2> HIDE DEF Loop
    <2> QED BY <1>5
  <1>7. ConfigLines(rd, s) = at[Len(s)]
    BY DEF ConfigLines
  <1> HIDE DEF at
  <1>8. at[0] = a0 /\ \A k \in 1..Len(s) : at[k] = ConfigLine(at[k - 1], s[k])
    BY <1>1, <1>6
  <1>9. \A k \in 0..Len(s) : at[k] = f[k]
    <2>1. Together(at, f, Len(s))
      BY <1>3, <1>4, <1>8 DEF Together
    <2> QED BY <1>1, <2>1, SameHistory
  <1>10. ConfigLines(rd, s) = f[Len(s)]
    BY <1>1, <1>7, <1>9
  <1> QED BY <1>3, <1>4, <1>10

LEMMA ConfigLinesAppend ==
  ASSUME ConfigAssumption, NEW rd \in Loading, NEW s \in Seq(FullLine), NEW c \in FullLine
  PROVE  /\ ConfigLines(rd, s) \in Loading
         /\ ConfigLines(rd, Append(s, c)) = ConfigLine(ConfigLines(rd, s), c)
PROOF
  <1> DEFINE t == Append(s, c)
  <1>1. /\ t \in Seq(FullLine) /\ Len(t) = Len(s) + 1 /\ Len(s) \in Nat
        /\ t[Len(s) + 1] = c /\ \A k \in 1..Len(s) : t[k] = s[k]
    BY AppendProperties, LenProperties
  <1> HIDE DEF t
  <1>2. PICK f \in [0..Len(s) -> Loading] :
           /\ f[0] = rd
           /\ \A k \in 1..Len(s) : f[k] = ConfigLine(f[k - 1], s[k])
           /\ ConfigLines(rd, s) = f[Len(s)]
    BY ConfigLinesLoop
  <1>3. PICK g \in [0..Len(t) -> Loading] :
           /\ g[0] = rd
           /\ \A k \in 1..Len(t) : g[k] = ConfigLine(g[k - 1], t[k])
           /\ ConfigLines(rd, t) = g[Len(t)]
    BY <1>1, ConfigLinesLoop
  <1>4. \A k \in 0..Len(s) : f[k] = g[k]
    <2>1. f[0] = g[0]
      BY <1>2, <1>3
    <2>2. ASSUME NEW k \in 1..Len(s), f[k - 1] = g[k - 1] PROVE f[k] = g[k]
      <3>1. f[k] = ConfigLine(f[k - 1], s[k])
        BY <1>2
      <3>2. k \in 1..Len(t) /\ t[k] = s[k]
        BY <1>1
      <3>3. g[k] = ConfigLine(g[k - 1], t[k])
        BY <1>3, <3>2
      <3> QED BY <2>2, <3>1, <3>2, <3>3, Zenon
    <2>3. Together(f, g, Len(s))
      BY <2>1, <2>2 DEF Together
    <2>4. Len(s) \in Nat
      BY <1>1
    <2> QED BY <2>3, <2>4, SameHistory
  <1>5. g[Len(s) + 1] = ConfigLine(g[Len(s)], c)
    <2>1. Len(s) + 1 \in 1..Len(t) /\ (Len(s) + 1) - 1 = Len(s)
      BY <1>1
    <2> QED BY <1>1, <1>3, <2>1
  <1>6. Len(s) \in 0..Len(s) /\ g[Len(s)] = f[Len(s)]
    BY <1>1, <1>4
  <1> QED BY <1>1, <1>2, <1>3, <1>5, <1>6 DEF t

LEMMA ConfigLinesEmpty ==
  ASSUME ConfigAssumption, NEW rd \in Loading
  PROVE  ConfigLines(rd, <<>>) = rd
PROOF
  <1> DEFINE e == <<>>
  <1>1. e \in Seq(FullLine) /\ Len(e) = 0
    BY EmptySeq
  <1> HIDE DEF e
  <1>2. PICK at \in [0..Len(e) -> Loading] : at[0] = rd /\ ConfigLines(rd, e) = at[Len(e)]
    BY <1>1, ConfigLinesLoop, ZenonT(40)
  <1> QED BY <1>1, <1>2 DEF e

LEMMA ConfigLinesConcat ==
  ASSUME ConfigAssumption, NEW rd \in Loading, NEW v \in Seq(FullLine), NEW u \in Seq(FullLine)
  PROVE  /\ ConfigLines(rd, v) \in Loading
         /\ ConfigLines(rd, v \o u) = ConfigLines(ConfigLines(rd, v), u)
PROOF
  <1> DEFINE Good == {t \in Seq(FullLine) : ConfigLines(rd, v \o t) = ConfigLines(ConfigLines(rd, v), t)}
  <1>0. ConfigLines(rd, v) \in Loading
    <2>1. PICK at \in [0..Len(v) -> Loading] : ConfigLines(rd, v) = at[Len(v)]
      BY ConfigLinesLoop
    <2>2. Len(v) \in 0..Len(v)
      BY LenProperties
    <2> QED BY <2>1, <2>2
  <1>1. <<>> \in Good
    <2>1. v \o <<>> = v /\ <<>> \in Seq(FullLine)
      BY ConcatEmptySeq, EmptySeq
    <2> QED BY <1>0, <2>1, ConfigLinesEmpty
  <1>2. ASSUME NEW t \in Seq(FullLine), NEW c \in FullLine, t \in Good PROVE Append(t, c) \in Good
    <2>1. v \o Append(t, c) = Append(v \o t, c) /\ v \o t \in Seq(FullLine) /\ Append(t, c) \in Seq(FullLine)
      <3>1. <<c>> \in Seq(FullLine)
        OBVIOUS
      <3>2. v \o (t \o <<c>>) = (v \o t) \o <<c>> /\ v \o t \in Seq(FullLine)
        BY <3>1, ConcatAssociative, ConcatProperties
      <3> QED BY <3>2, AppendIsConcat, AppendProperties
    <2>2. ConfigLines(rd, v \o Append(t, c)) = ConfigLine(ConfigLines(rd, v \o t), c)
      <3> DEFINE w == v \o t
      <3> HIDE DEF w
      <3>1. w \in Seq(FullLine)
        BY <2>1 DEF w
      <3>2. ConfigLines(rd, Append(w, c)) = ConfigLine(ConfigLines(rd, w), c)
        BY <3>1, ConfigLinesAppend
      <3> QED BY <2>1, <3>2 DEF w
    <2>3. ConfigLines(ConfigLines(rd, v), Append(t, c)) = ConfigLine(ConfigLines(ConfigLines(rd, v), t), c)
      BY <1>0, ConfigLinesAppend
    <2> QED BY <1>2, <2>1, <2>2, <2>3
  <1> HIDE DEF Good
  <1>3. Seq(FullLine) \subseteq Good
    BY <1>1, <1>2, SeqInd
  <1> QED BY <1>0, <1>3 DEF Good


-----------------------------------------------------------------------------
(* What a line says stays *)

LEMMA Occurs ==
  ASSUME NEW s \in Text, NEW d \in Text
  PROVE  Find(s, d, 1) # 0 <=>
           \E i \in 1..(Len(s) + 1 - Len(d)) : SubSeq(s, i, i + Len(d) - 1) = d
PROOF
  <1>1. 1 \in Nat \ {0} /\ Len(s) \in Nat /\ Len(d) \in Nat
    BY LenProperties DEF Text
  <1> DEFINE f == Find(s, d, 1)
  <1>2. \/ /\ f = 0
           /\ \A i \in 1..(Len(s) + 1 - Len(d)) : SubSeq(s, i, i + Len(d) - 1) # d
        \/ f \in 1..(Len(s) + 1 - Len(d)) /\ SubSeq(s, f, f + Len(d) - 1) = d
    BY <1>1, FindFirst, ZenonT(60)
  <1> HIDE DEF f
  <1>3. CASE f = 0
    <2>1. f \notin 1..(Len(s) + 1 - Len(d))
      BY <1>1, <1>3
    <2> QED BY <1>2, <1>3, <2>1 DEF f
  <1>4. CASE f # 0
    BY <1>2, <1>4 DEF f
  <1> QED BY <1>3, <1>4

\* What occurs in a text occurs in a longer one.
LEMMA OccursLonger ==
  ASSUME NEW u \in Text, NEW v \in Text, NEW d \in Text
  PROVE  /\ Find(u, d, 1) # 0 => Find(u \o v, d, 1) # 0
         /\ Find(u \o v, v, 1) # 0
PROOF
  <1> DEFINE w == u \o v
  <1>1. /\ w \in Text /\ Len(u) \in Nat /\ Len(v) \in Nat /\ Len(w) = Len(u) + Len(v)
        /\ Len(d) \in Nat
    <2>1. w \in Text /\ Len(u) \in Nat /\ Len(v) \in Nat /\ Len(w) = Len(u) + Len(v)
      BY Concat
    <2>2. Len(d) \in Nat
      BY LenProperties DEF Text
    <2> QED BY <2>1, <2>2
  <1>2. /\ \A n \in 0..Len(v) : SubSeq(w, 1, Len(u) + n) = u \o SubSeq(v, 1, n)
        /\ \A m \in Nat \ {0} : SubSeq(w, Len(u) + m, Len(w)) = SubSeq(v, m, Len(v))
    <2>1. u \in Seq(Char) /\ v \in Seq(Char)
      BY DEF Text
    <2> QED BY <2>1, SubConcat, ZenonT(60) DEF w
  <1>3. SubSeq(v, 1, Len(v)) = v
    BY SubSeqFull DEF Text
  <1>4. SubSeq(v, 1, 0) = <<>> /\ u \o <<>> = u
    BY <1>1, SubEmpty, ConcatEmptySeq DEF Text
  <1> HIDE DEF w
  <1>5. SubSeq(w, 1, Len(u)) = u
    <2>1. 0 \in 0..Len(v) /\ Len(u) + 0 = Len(u)
      BY <1>1
    <2> QED BY <1>2, <1>4, <2>1
  <1>6. ASSUME Find(u, d, 1) # 0 PROVE Find(w, d, 1) # 0
    <2>1. PICK i \in 1..(Len(u) + 1 - Len(d)) : SubSeq(u, i, i + Len(d) - 1) = d
      BY <1>6, Occurs
    <2>2. /\ i \in Nat \ {0} /\ i + Len(d) - 1 \in Nat /\ Len(u) <= Len(w)
          /\ 1 + (i + Len(d) - 1) - 1 <= Len(u) /\ 1 <= Len(u) + 1 /\ 1 \in Nat \ {0}
          /\ 1 + i - 1 = i /\ 1 + (i + Len(d) - 1) - 1 = i + Len(d) - 1
          /\ i \in 1..(Len(w) + 1 - Len(d))
      BY <1>1, <2>1
    <2>3. SubSeq(SubSeq(w, 1, Len(u)), i, i + Len(d) - 1)
            = SubSeq(w, 1 + i - 1, 1 + (i + Len(d) - 1) - 1)
      BY <1>1, <2>2, SubSub DEF Text
    <2>4. SubSeq(w, i, i + Len(d) - 1) = d
      BY <1>5, <2>1, <2>2, <2>3
    <2> QED BY <1>1, <2>2, <2>4, Occurs
  <1>7. Find(w, v, 1) # 0
    <2>1. SubSeq(w, Len(u) + 1, Len(w)) = v
      <3>1. 1 \in Nat \ {0}
        OBVIOUS
      <3>2. SubSeq(w, Len(u) + 1, Len(w)) = SubSeq(v, 1, Len(v))
        BY <1>2, <3>1
      <3> QED BY <1>3, <3>2
    <2>2. Len(u) + 1 \in 1..(Len(w) + 1 - Len(v)) /\ (Len(u) + 1) + Len(v) - 1 = Len(w)
      BY <1>1
    <2> QED BY <1>1, <2>1, <2>2, Occurs
  <1> QED BY <1>6, <1>7 DEF w

LEMMA NamesFound ==
  ASSUME NEW line \in Text, NEW tag \in Text, Names(line, tag)
  PROVE  Find(line, tag, 1) # 0
PROOF
  <1>1. PICK l \in FullLine : Suffix(l, line) /\ Len(tag) <= Len(l) /\ tag = SubSeq(l, 1, Len(tag))
    BY DEF Names
  <1>2. PICK j \in 1..(Len(line) + 1) : l = SubSeq(line, j, Len(line))
    BY <1>1 DEF Suffix
  <1>3. Len(line) \in Nat /\ Len(l) = Len(line) + 1 - j /\ Len(tag) \in Nat
    BY <1>2, SuffixIs, LenProperties DEF Text
  <1>4. 1 \in Nat \ {0} /\ Len(tag) <= Len(line) + 1 - j
    BY <1>1, <1>3
  <1>5. SubSeq(SubSeq(line, j, Len(line)), 1, Len(tag)) = SubSeq(line, j + 1 - 1, j + Len(tag) - 1)
    BY <1>3, <1>4, SubOfEnd
  <1>6. j + 1 - 1 = j /\ j \in 1..(Len(line) + 1 - Len(tag))
    BY <1>2, <1>3, <1>4
  <1>7. SubSeq(line, j, j + Len(tag) - 1) = tag
    BY <1>1, <1>2, <1>5, <1>6
  <1> QED BY <1>6, <1>7, Occurs

\* A value stays unless the line names its tag, and what is in the comments stays.
LEMMA StepKeeps ==
  ASSUME ConfigAssumption, NEW rd \in Loading, NEW line \in FullLine,
         NEW r, r = ConfigLine(rd, line), NEW key \in DOMAIN rd.cfg
  PROVE  /\ key[2] \in TagText /\ Find(line, key[2], 1) = 0
              => key \in DOMAIN r.cfg /\ r.cfg[key] = rd.cfg[key]
         /\ \A d \in Text : key[2] = Comment /\ Find(rd.cfg[key], d, 1) # 0
              => key \in DOMAIN r.cfg /\ Find(r.cfg[key], d, 1) # 0
PROOF
  <1>1. CASE r.cfg = rd.cfg
    BY <1>1
  <1>2. rd.error # "none" => r = rd
    BY ConfigLineType
  <1>3. rd.error = "none" => Nothing(rd, r) \/ Fails(rd, r) \/ Section(rd, r)
                             \/ Comments(rd, line, r) \/ Sets(rd, line, r)
    BY ConfigLineIs
  <1>4. Nothing(rd, r) => r.cfg = rd.cfg
    BY DEF Nothing
  <1>5. Fails(rd, r) => r.cfg = rd.cfg
    <2>1. \A w : Wrong(rd, w).cfg = rd.cfg
      BY DEF Wrong, Loading
    <2> QED BY <2>1 DEF Fails
  <1>6. Section(rd, r) => r.cfg = rd.cfg
    BY SectionIs DEF Section
  <1>7. ASSUME Comments(rd, line, r)
        PROVE  /\ key[2] \in TagText /\ Find(line, key[2], 1) = 0
                    => key \in DOMAIN r.cfg /\ r.cfg[key] = rd.cfg[key]
               /\ \A d \in Text : key[2] = Comment /\ Find(rd.cfg[key], d, 1) # 0
                    => key \in DOMAIN r.cfg /\ Find(r.cfg[key], d, 1) # 0
    <2>1. PICK l \in Remark : r = AddComment(rd, l)
      BY <1>7 DEF Comments
    <2> DEFINE old == Get(rd.cfg, rd.sec, Comment, <<>>)
               v == old \o l
               k == <<rd.sec, Comment>>
    <2>2. /\ v \in Remarks /\ k \in Keys /\ Fits(k, v) /\ old \in Text
          /\ AddComment(rd, l) = Set(rd, Comment, v)
      BY CommentIs
    <2>3. k \in DOMAIN rd.cfg => old = rd.cfg[k]
      BY DEF Get
    <2>4. l \in Text
      BY DEF Remark, FullLine, PartLine
    <2> HIDE DEF old
    <2>5. \A d \in Text : Find(old, d, 1) # 0 => Find(v, d, 1) # 0
      BY <2>2, <2>4, OccursLonger
    <2> HIDE DEF v
    <2>6. v \in Text
      BY <2>2 DEF Remarks
    <2>7. /\ DOMAIN r.cfg = DOMAIN rd.cfg \cup {k} /\ r.cfg[k] = v
          /\ \A x \in DOMAIN rd.cfg : x # k => r.cfg[x] = rd.cfg[x]
      BY <2>1, <2>2, <2>6, SetIs
    <2>8. key[2] \in TagText => key # k
      <3>1. k[2] = Comment
        OBVIOUS
      <3> QED BY <3>1, TagFacts
    <2> HIDE DEF k
    <2>9. CASE key = k
      BY <2>3, <2>5, <2>7, <2>8, <2>9
    <2>10. CASE key # k
      BY <2>7, <2>10
    <2> QED BY <2>9, <2>10
  <1>8. ASSUME Sets(rd, line, r)
        PROVE  /\ key[2] \in TagText /\ Find(line, key[2], 1) = 0
                    => key \in DOMAIN r.cfg /\ r.cfg[key] = rd.cfg[key]
               /\ \A d \in Text : key[2] = Comment /\ Find(rd.cfg[key], d, 1) # 0
                    => key \in DOMAIN r.cfg /\ Find(r.cfg[key], d, 1) # 0
    <2>1. PICK tag \in TagText, v \in ValueText : r = Set(rd, tag, v) /\ Names(line, tag)
      BY <1>8 DEF Sets
    <2> DEFINE k == <<rd.sec, tag>>
    <2>2. k \in Keys /\ v \in Text /\ Fits(k, v)
      BY TagKey
    <2>3. /\ DOMAIN r.cfg = DOMAIN rd.cfg \cup {k} /\ r.cfg[k] = v
          /\ \A x \in DOMAIN rd.cfg : x # k => r.cfg[x] = rd.cfg[x]
      BY <2>1, <2>2, SetIs
    <2>4. Find(line, tag, 1) # 0 /\ tag # Comment
      <3>1. line \in Text /\ tag \in Text
        BY DEF FullLine, PartLine, TagText
      <3> QED BY <2>1, <3>1, NamesFound, TagFacts
    <2>5. k[2] = tag
      OBVIOUS
    <2> HIDE DEF k
    <2>6. CASE key = k
      BY <2>4, <2>5, <2>6
    <2>7. CASE key # k
      BY <2>3, <2>7
    <2> QED BY <2>6, <2>7
  <1> QED BY <1>1, <1>2, <1>3, <1>4, <1>5, <1>6, <1>7, <1>8

\* A line that is a tag, a colon right behind it, and a value.
TagAt(l, n) ==
  /\ n \in 1..(Len(l) - 2) /\ l[n + 1] = ":"
  /\ \A i \in 1..n : l[i] \in TagChar

LEMMA TagLineFor ==
  ASSUME ConfigAssumption, NEW rd \in Loading, rd.error = "none", NEW l \in FullLine, NEW n, TagAt(l, n)
  PROVE  ConfigLine(rd, l) = Set(rd, SubSeq(l, 1, n), TrimOf(SubSeq(l, n + 2, Len(l) - 1), Blank))
PROOF
  <1> DEFINE s == Chopped(l)
             after == AfterTag(l)
  <1>1. /\ s = SubSeq(l, 1, Len(l) - 1) /\ s \in Text /\ Len(s) = Len(l) - 1
        /\ Len(l) \in Nat \ {0} /\ l \in Text /\ l # <<>>
        /\ \A i \in 1..(Len(l) - 1) : s[i] = l[i]
    BY ChopIs DEF FullLine, PartLine
  <1>2. n \in Nat \ {0} /\ n <= Len(l) - 2 /\ l[n + 1] = ":" /\ \A i \in 1..n : l[i] \in TagChar
    BY <1>1 DEF TagAt
  <1>3. l[1] \in TagChar
    <2>1. 1 \in 1..n
      BY <1>2
    <2> QED BY <1>2, <2>1
  <1>4. l[1] \notin Blank /\ l[1] # "#" /\ l[1] # "["
    BY <1>3, TagFacts
  <1>5. Unindented(l) = l
    BY <1>1, <1>4, UnindentedIs
  <1>6. ConfigLine(rd, l) = TagLine(rd, l)
    BY <1>1, <1>4, <1>5, Zenon DEF ConfigLine
  <1> HIDE DEF s
  <1>7. TagEnd(l) = n + 1
    <2>1. n + 1 \in 1..(Len(s) + 1) /\ n + 1 \in 1..(Len(l) - 1) /\ (n + 1) - 1 = n
      BY <1>1, <1>2
    <2>2. \A i \in 1..((n + 1) - 1) : s[i] \in TagChar
      <3>1. \A i \in 1..n : i \in 1..(Len(l) - 1)
        BY <1>1, <1>2
      <3> QED BY <1>1, <1>2, <2>1, <3>1
    <2>3. s[n + 1] \notin TagChar
      <3>1. s[n + 1] = ":"
        BY <1>1, <1>2, <2>1
      <3> QED BY <3>1, TagFacts
    <2>4. Past(s, TagChar) = n + 1
      BY <1>1, <2>1, <2>2, <2>3, PastFor
    <2> QED BY <2>4 DEF TagEnd, s
  <1>8. /\ after \in Text /\ Len(after) = Len(s) + 1 - (n + 1)
        /\ \A i \in 1..(Len(s) + 1 - (n + 1)) : after[i] = s[(n + 1) + i - 1]
        /\ after = SubSeq(s, n + 1, Len(s))
    <2>1. after = SubSeq(s, n + 1, Len(s))
      BY <1>7 DEF AfterTag, s
    <2>2. n + 1 \in 1..(Len(s) + 1)
      BY <1>1, <1>2
    <2> HIDE DEF after
    <2> QED BY <1>1, <2>1, <2>2, SuffixIs
  <1> HIDE DEF after
  <1>9. after # <<>> /\ after[1] = ":"
    <2>0. \A L \in Nat \ {0}, m \in Nat \ {0} : m <= L - 2 =>
            /\ 1 \in 1..((L - 1) + 1 - (m + 1)) /\ (m + 1) + 1 - 1 = m + 1
            /\ m + 1 \in 1..(L - 1) /\ (L - 1) + 1 - (m + 1) # 0
      OBVIOUS
    <2>1. 1 \in 1..(Len(s) + 1 - (n + 1)) /\ (n + 1) + 1 - 1 = n + 1 /\ n + 1 \in 1..(Len(l) - 1)
          /\ Len(after) # 0
      BY <1>1, <1>2, <1>8, <2>0
    <2>2. after[1] = l[n + 1]
      BY <1>1, <1>8, <2>1
    <2> QED BY <1>2, <2>1, <2>2, EmptySeq
  <1>10. FromColon(l) = after
    BY <1>9, Zenon DEF FromColon, after
  <1>11. Tail(after) = SubSeq(l, n + 2, Len(l) - 1)
    <2>1. Tail(after) = SubSeq(after, 2, Len(after))
      BY <1>8, <1>9, TailIs
    <2>0. \A L \in Nat \ {0}, m \in Nat \ {0} : m <= L - 2 =>
            /\ m + 1 \in 1..((L - 1) + 1) /\ (L - 1) + 1 - (m + 1) \in Nat
            /\ (L - 1) + 1 - (m + 1) <= (L - 1) + 1 - (m + 1)
      OBVIOUS
    <2>2. n + 1 \in 1..(Len(s) + 1) /\ 2 \in Nat \ {0} /\ Len(after) \in Nat
          /\ Len(after) <= Len(s) + 1 - (n + 1)
      <3>1. Len(s) = Len(l) - 1 /\ Len(l) \in Nat \ {0} /\ n \in Nat \ {0} /\ n <= Len(l) - 2
        BY <1>1, <1>2
      <3>2. Len(after) = Len(s) + 1 - (n + 1)
        BY <1>8
      <3>3. 2 \in Nat \ {0}
        OBVIOUS
      <3> QED BY <2>0, <3>1, <3>2, <3>3
    <2>3. SubSeq(SubSeq(s, n + 1, Len(s)), 2, Len(after))
            = SubSeq(s, (n + 1) + 2 - 1, (n + 1) + Len(after) - 1)
      <3>1. s \in Text
        BY <1>1
      <3> QED BY <2>2, <3>1, SubOfEnd, Zenon
    <2>4. (n + 1) + 2 - 1 = n + 2 /\ (n + 1) + Len(after) - 1 = Len(l) - 1
      BY <1>1, <1>2, <1>8
    <2>5. SubSeq(s, n + 2, Len(l) - 1) = SubSeq(l, n + 2, Len(l) - 1)
      <3>1. /\ 1 \in Nat \ {0} /\ n + 2 \in Nat \ {0} /\ Len(l) - 1 \in Nat /\ Len(l) - 1 <= Len(l)
            /\ 1 + (Len(l) - 1) - 1 <= Len(l) - 1 /\ 1 <= (Len(l) - 1) + 1
            /\ 1 + (n + 2) - 1 = n + 2 /\ 1 + (Len(l) - 1) - 1 = Len(l) - 1
        BY <1>1, <1>2
      <3>2. SubSeq(SubSeq(l, 1, Len(l) - 1), n + 2, Len(l) - 1)
              = SubSeq(l, 1 + (n + 2) - 1, 1 + (Len(l) - 1) - 1)
        <4>1. l \in Seq(Char)
          BY <1>1 DEF Text
        <4> QED BY <3>1, <4>1, SubSub, SMTT(30)
      <3> QED BY <1>1, <3>1, <3>2
    <2> QED BY <1>8, <2>1, <2>3, <2>4, <2>5
  <1>12. TagIn(l) = SubSeq(l, 1, n)
    <2>1. TagIn(l) = SubSeq(s, 1, n)
      <3>1. (n + 1) - 1 = n
        BY <1>2
      <3> QED BY <1>7, <3>1 DEF TagIn, s
    <2>2. /\ 1 \in Nat \ {0} /\ n \in Nat /\ Len(l) - 1 \in Nat /\ Len(l) - 1 <= Len(l)
          /\ 1 + n - 1 <= Len(l) - 1 /\ 1 <= (Len(l) - 1) + 1 /\ 1 + 1 - 1 = 1 /\ 1 + n - 1 = n
      BY <1>1, <1>2
    <2>3. SubSeq(SubSeq(l, 1, Len(l) - 1), 1, n) = SubSeq(l, 1 + 1 - 1, 1 + n - 1)
      BY <1>1, <2>2, SubSub DEF Text
    <2> QED BY <1>1, <2>1, <2>2, <2>3
  <1>13. s # <<>> /\ TagEnd(l) # 1
    <2>1. Len(s) # 0 /\ n + 1 # 1
      BY <1>1, <1>2
    <2> QED BY <1>7, <2>1, EmptySeq
  <1>14. TagLine(rd, l) = Set(rd, TagIn(l), TrimOf(Tail(FromColon(l)), Blank))
    BY <1>9, <1>10, <1>13, TagLineCases, Zenon DEF s
  <1> QED BY <1>6, <1>10, <1>11, <1>12, <1>14, Zenon

\* What a line says is what it sets.
LEMMA SaysIsSet ==
  ASSUME ConfigAssumption, NEW rd \in Loading, rd.error = "none", NEW l \in FullLine,
         NEW tv \in Says(l)
  PROVE  /\ tv[1] \in TagText /\ tv[2] \in ValueText
         /\ ConfigLine(rd, l) = Set(rd, tv[1], tv[2])
PROOF
  <1>1. PICK i \in {j \in 2..(Len(l) - 1) : l[j] = ":"} :
          tv = <<SubSeq(l, 1, i - 1), SubSeq(l, i + 1, Len(l) - 1)>>
    BY DEF Says
  <1>2. (\A k \in DOMAIN tv[1] : tv[1][k] \in TagChar) /\ TrimOf(tv[2], Blank) = tv[2]
    BY DEF Says
  <1>3. l \in Text /\ Len(l) \in Nat \ {0} /\ \A k \in 1..(Len(l) - 1) : l[k] # NL
    BY ChopIs
  <1> DEFINE n == i - 1
             t == SubSeq(l, 1, n)
             v == SubSeq(l, n + 2, Len(l) - 1)
  <1>4. tv[1] = t /\ tv[2] = v
    <2>1. i + 1 = n + 2
      OBVIOUS
    <2> QED BY <1>1, <2>1
  <1>5. n \in 1..(Len(l) - 2) /\ l[n + 1] = ":" /\ n \in Nat \ {0}
    BY <1>1, <1>3
  <1> HIDE DEF n
  <1>6. t \in Text /\ Len(t) = n /\ \A k \in 1..n : t[k] = l[k]
    <2>1. 1 \in Nat \ {0} /\ n \in Nat /\ n <= Len(l) /\ 1 <= n + 1 /\ n - 1 + 1 = n
          /\ \A k \in 1..n : 1 + k - 1 = k
      BY <1>3, <1>5
    <2>2. t \in Text /\ Len(t) = n - 1 + 1 /\ \A k \in 1..(n - 1 + 1) : t[k] = l[1 + k - 1]
      BY <1>3, <2>1, SubText
    <2> HIDE DEF t
    <2> QED BY <2>1, <2>2
  <1>7. /\ v \in Text /\ Len(v) = (Len(l) - 1) - (n + 2) + 1
        /\ \A k \in 1..((Len(l) - 1) - (n + 2) + 1) : v[k] = l[(n + 2) + k - 1]
    <2>1. n + 2 \in Nat \ {0} /\ Len(l) - 1 \in Nat /\ Len(l) - 1 <= Len(l) /\ n + 2 <= (Len(l) - 1) + 1
      BY <1>3, <1>5
    <2> QED BY <1>3, <2>1, SubText
  <1> HIDE DEF t, v
  <1>8. \A k \in 1..n : l[k] \in TagChar
    <2>1. DOMAIN t = 1..n
      BY <1>6 DEF Text
    <2> QED BY <1>2, <1>4, <1>6, <2>1
  <1>9. t \in TagText
    <2>1. t # <<>>
      BY <1>5, <1>6, EmptySeq
    <2> QED BY <1>6, <1>8, <2>1 DEF TagText
  <1>10. v \in ValueText
    <2>1. ASSUME NEW k \in 1..Len(v) PROVE v[k] # NL
      <3>1. k \in 1..((Len(l) - 1) - (n + 2) + 1) /\ (n + 2) + k - 1 \in 1..(Len(l) - 1)
        BY <1>3, <1>5, <1>7
      <3> QED BY <1>3, <1>7, <3>1
    <2> QED BY <1>2, <1>4, <1>7, <2>1 DEF ValueText
  <1>11. ConfigLine(rd, l) = Set(rd, t, TrimOf(v, Blank))
    <2>1. TagAt(l, n)
      BY <1>5, <1>8 DEF TagAt
    <2> QED BY <2>1, TagLineFor DEF t, v
  <1> QED BY <1>2, <1>4, <1>9, <1>10, <1>11

-----------------------------------------------------------------------------
(* What the lines of a text say *)

\* The history of what is loaded.
Loads(at, lines) ==
  /\ at \in [0..Len(lines) -> Loading]
  /\ \A k \in 1..Len(lines) : at[k] = ConfigLine(at[k - 1], lines[k])

\* An error stays, so there was none before if there is none at the end.
LEMMA NoErrorBefore ==
  ASSUME ConfigAssumption, NEW lines \in Seq(FullLine), NEW at, Loads(at, lines),
         at[Len(lines)].error = "none"
  PROVE  \A k \in 0..Len(lines) : at[k].error = "none"
PROOF
  <1> DEFINE n == Len(lines)
             S == {m \in Nat : m <= n => at[n - m].error = "none"}
  <1>1. n \in Nat /\ \A k \in 1..n : lines[k] \in FullLine
    BY LenProperties, ElementOfSeq
  <1>2. at \in [0..n -> Loading] /\ \A k \in 1..n : at[k] = ConfigLine(at[k - 1], lines[k])
    BY DEF Loads
  <1>3. at[n].error = "none"
    OBVIOUS
  <1> HIDE DEF n
  <1>4. 0 \in S
    BY <1>1, <1>3
  <1>5. ASSUME NEW m \in Nat, m \in S PROVE m + 1 \in S
    <2>1. SUFFICES ASSUME m + 1 <= n PROVE at[n - (m + 1)].error = "none"
      OBVIOUS
    <2>2. n - m \in 1..n /\ n - (m + 1) \in 0..n /\ (n - m) - 1 = n - (m + 1) /\ m <= n
      BY <1>1, <2>1
    <2>3. at[n - m].error = "none"
      BY <1>5, <2>2
    <2>4. at[n - m] = ConfigLine(at[n - (m + 1)], lines[n - m])
      BY <1>2, <2>2
    <2>5. at[n - (m + 1)] \in Loading /\ lines[n - m] \in FullLine
      BY <1>1, <1>2, <2>2
    <2>6. at[n - (m + 1)].error # "none" => at[n - m] = at[n - (m + 1)]
      BY <2>4, <2>5, ConfigLineType
    <2> QED BY <2>3, <2>6
  <1> HIDE DEF S
  <1>6. Nat \subseteq S
    BY <1>4, <1>5, NatInd
  <1>7. ASSUME NEW k \in 0..n PROVE at[k].error = "none"
    <2>1. n - k \in Nat /\ n - k <= n /\ n - (n - k) = k
      BY <1>1
    <2>2. n - k \in S
      BY <1>6, <2>1
    <2> QED BY <2>1, <2>2 DEF S
  <1> QED BY <1>7 DEF n

LEMMA ValuesStay ==
  ASSUME ConfigAssumption, NEW lines \in Seq(FullLine), NEW at, Loads(at, lines),
         NEW i \in 1..Len(lines), NEW key \in DOMAIN at[i].cfg, key[2] \in TagText,
         \A j \in (i + 1)..Len(lines) : Find(lines[j], key[2], 1) = 0
  PROVE  key \in DOMAIN at[Len(lines)].cfg /\ at[Len(lines)].cfg[key] = at[i].cfg[key]
PROOF
  <1> DEFINE n == Len(lines)
             S == {m \in Nat : i + m <= n =>
                     key \in DOMAIN at[i + m].cfg /\ at[i + m].cfg[key] = at[i].cfg[key]}
  <1>1. n \in Nat /\ i \in 1..n /\ (\A k \in 1..n : lines[k] \in FullLine)
        /\ \A j \in (i + 1)..n : Find(lines[j], key[2], 1) = 0
    BY LenProperties, ElementOfSeq
  <1>2. at \in [0..n -> Loading] /\ \A k \in 1..n : at[k] = ConfigLine(at[k - 1], lines[k])
    BY DEF Loads
  <1> HIDE DEF n
  <1>4. 0 \in S
    <2>1. i + 0 = i
      BY <1>1
    <2> QED BY <2>1
  <1>5. ASSUME NEW m \in Nat, m \in S PROVE m + 1 \in S
    <2>1. SUFFICES ASSUME i + (m + 1) <= n
                   PROVE  /\ key \in DOMAIN at[i + (m + 1)].cfg
                          /\ at[i + (m + 1)].cfg[key] = at[i].cfg[key]
      OBVIOUS
    <2> DEFINE a == i + m
               b == i + (m + 1)
    <2>2. a \in 0..n /\ b \in 1..n /\ b - 1 = a /\ a <= n /\ b \in (i + 1)..n
      BY <1>1, <2>1
    <2>3. key \in DOMAIN at[a].cfg /\ at[a].cfg[key] = at[i].cfg[key]
      BY <1>5, <2>2
    <2> HIDE DEF a, b
    <2>4. at[b] = ConfigLine(at[a], lines[b]) /\ at[a] \in Loading /\ lines[b] \in FullLine
          /\ Find(lines[b], key[2], 1) = 0
      BY <1>1, <1>2, <2>2
    <2>5. key \in DOMAIN at[b].cfg /\ at[b].cfg[key] = at[a].cfg[key]
      BY <2>3, <2>4, StepKeeps
    <2> QED BY <2>3, <2>5 DEF b
  <1> HIDE DEF S
  <1>6. Nat \subseteq S
    BY <1>4, <1>5, NatInd
  <1>7. n - i \in Nat /\ i + (n - i) = n /\ n <= n
    BY <1>1
  <1>8. n - i \in S
    BY <1>6, <1>7
  <1> QED BY <1>7, <1>8 DEF S, n

LEMMA RemarksStay ==
  ASSUME ConfigAssumption, NEW lines \in Seq(FullLine), NEW at, Loads(at, lines),
         NEW i \in 1..Len(lines), NEW key \in DOMAIN at[i].cfg, key[2] = Comment,
         NEW d \in Text, Find(at[i].cfg[key], d, 1) # 0
  PROVE  key \in DOMAIN at[Len(lines)].cfg /\ Find(at[Len(lines)].cfg[key], d, 1) # 0
PROOF
  <1> DEFINE n == Len(lines)
             S == {m \in Nat : i + m <= n =>
                     key \in DOMAIN at[i + m].cfg /\ Find(at[i + m].cfg[key], d, 1) # 0}
  <1>1. n \in Nat /\ i \in 1..n /\ \A k \in 1..n : lines[k] \in FullLine
    BY LenProperties, ElementOfSeq
  <1>2. at \in [0..n -> Loading] /\ \A k \in 1..n : at[k] = ConfigLine(at[k - 1], lines[k])
    BY DEF Loads
  <1> HIDE DEF n
  <1>4. 0 \in S
    <2>1. i + 0 = i
      BY <1>1
    <2> QED BY <2>1
  <1>5. ASSUME NEW m \in Nat, m \in S PROVE m + 1 \in S
    <2>1. SUFFICES ASSUME i + (m + 1) <= n
                   PROVE  /\ key \in DOMAIN at[i + (m + 1)].cfg
                          /\ Find(at[i + (m + 1)].cfg[key], d, 1) # 0
      OBVIOUS
    <2> DEFINE a == i + m
               b == i + (m + 1)
    <2>2. a \in 0..n /\ b \in 1..n /\ b - 1 = a /\ a <= n
      BY <1>1, <2>1
    <2>3. key \in DOMAIN at[a].cfg /\ Find(at[a].cfg[key], d, 1) # 0
      BY <1>5, <2>2
    <2> HIDE DEF a, b
    <2>4. at[b] = ConfigLine(at[a], lines[b]) /\ at[a] \in Loading /\ lines[b] \in FullLine
      BY <1>1, <1>2, <2>2
    <2>5. key \in DOMAIN at[b].cfg /\ Find(at[b].cfg[key], d, 1) # 0
      BY <2>3, <2>4, StepKeeps
    <2> QED BY <2>5 DEF b
  <1> HIDE DEF S
  <1>6. Nat \subseteq S
    BY <1>4, <1>5, NatInd
  <1>7. n - i \in Nat /\ i + (n - i) = n /\ n <= n
    BY <1>1
  <1>8. n - i \in S
    BY <1>6, <1>7
  <1> QED BY <1>7, <1>8 DEF S, n

LEMMA EmptyLoading == Empty \in Loading
PROOF
  <1> DEFINE e == <<>>
  <1>1. e \in NameText
    BY EmptySeq DEF NameText, Text
  <1>2. NoTags \in Configs
    <2>1. NoTags \in [{} -> Text] /\ DOMAIN NoTags = {}
      BY DEF NoTags
    <2>2. IsFiniteSet({})
      BY FS_EmptySet
    <2>3. NoTags \in UNION {[D -> Text] : D \in SUBSET Keys}
      BY <2>1
    <2> HIDE DEF NoTags
    <2> QED BY <2>1, <2>2, <2>3 DEF Configs
  <1>3. Empty = [sec |-> e, cfg |-> NoTags, error |-> "none"]
    BY DEF Empty
  <1>4. "none" \in Errors
    BY ErrorFacts
  <1> HIDE DEF e
  <1> QED BY <1>1, <1>2, <1>3, <1>4 DEF Loading

\* The history of a text that is loaded without an error.
LEMMA LoadedLoop ==
  ASSUME ConfigAssumption, NEW text \in Text, EndsLine(text), NEW rd, rd = LoadConfig(text),
         rd.error = "none"
  PROVE  /\ Lines(text) \in Seq(FullLine) /\ Len(Lines(text)) \in Nat
         /\ \E at : /\ Loads(at, Lines(text)) /\ at[Len(Lines(text))] = rd
                    /\ \A k \in 0..Len(Lines(text)) : at[k].error = "none" /\ at[k] \in Loading
PROOF
  <1> DEFINE L == Lines(text)
  <1>1. L \in Seq(FullLine) /\ Len(L) \in Nat
    BY LinesFull, LenProperties
  <1>2. Empty \in Loading
    BY EmptyLoading
  <1>3. rd = ConfigLines(Empty, L)
    BY DEF LoadConfig
  <1> HIDE DEF L
  <1>4. PICK at \in [0..Len(L) -> Loading] :
           /\ at[0] = Empty
           /\ \A k \in 1..Len(L) : at[k] = ConfigLine(at[k - 1], L[k])
           /\ ConfigLines(Empty, L) = at[Len(L)]
    BY <1>1, <1>2, ConfigLinesLoop
  <1>5. Loads(at, L) /\ at[Len(L)] = rd
    BY <1>3, <1>4 DEF Loads
  <1>6. \A k \in 0..Len(L) : at[k].error = "none"
    BY <1>1, <1>5, NoErrorBefore
  <1>7. \A k \in 0..Len(L) : at[k].error = "none" /\ at[k] \in Loading
    BY <1>4, <1>6
  <1> QED BY <1>1, <1>5, <1>7 DEF L

\* The first two parts of ConfigKept: what a text without errors says is meant.
LEMMA TextIsMeant ==
  ASSUME ConfigAssumption, NEW text \in Text, EndsLine(text), NEW rd, rd = LoadConfig(text),
         rd.error = "none"
  PROVE  LastIsMeant(rd.cfg, Lines(text)) /\ CommentsAreThere(rd.cfg, Lines(text))
PROOF
  <1> DEFINE L == Lines(text)
             n == Len(L)
  <1>1. L \in Seq(FullLine) /\ n \in Nat
    BY LoadedLoop
  <1>2. PICK at : /\ Loads(at, L) /\ at[n] = rd
                  /\ \A k \in 0..n : at[k].error = "none" /\ at[k] \in Loading
    BY LoadedLoop
  <1> HIDE DEF L
  <1>3. \A k \in 1..n : at[k] = ConfigLine(at[k - 1], L[k]) /\ L[k] \in FullLine
    BY <1>1, <1>2, ElementOfSeq DEF Loads
  <1>4. DOMAIN L = 1..n
    BY <1>1
  <1>5. ASSUME NEW i \in DOMAIN L, NEW tv \in Says(L[i]),
               \A j \in (i + 1)..Len(L) : Find(L[j], tv[1], 1) = 0
        PROVE  \E key \in DOMAIN rd.cfg : key[2] = tv[1] /\ rd.cfg[key] = tv[2]
    <2>1. i \in 1..n /\ i - 1 \in 0..n /\ i \in 0..n
      BY <1>1, <1>4
    <2>2. at[i - 1] \in Loading /\ at[i - 1].error = "none" /\ L[i] \in FullLine
      BY <1>2, <1>3, <2>1
    <2>3. /\ tv[1] \in TagText /\ tv[2] \in ValueText
          /\ at[i] = Set(at[i - 1], tv[1], tv[2])
      BY <1>3, <2>1, <2>2, SaysIsSet
    <2> DEFINE key == <<at[i - 1].sec, tv[1]>>
    <2>4. key[2] = tv[1]
      OBVIOUS
    <2>5. key \in DOMAIN at[i].cfg /\ at[i].cfg[key] = tv[2]
      <3>1. key \in Keys /\ tv[2] \in Text /\ Fits(key, tv[2])
        BY <2>2, <2>3, TagKey
      <3> QED BY <2>2, <2>3, <3>1, SetIs
    <2> HIDE DEF key
    <2>6. \A j \in (i + 1)..Len(L) : Find(L[j], key[2], 1) = 0
      BY <1>5, <2>4
    <2>7. key \in DOMAIN at[n].cfg /\ at[n].cfg[key] = at[i].cfg[key]
      BY <1>1, <1>2, <2>1, <2>3, <2>4, <2>5, <2>6, ValuesStay
    <2> QED BY <1>2, <2>4, <2>5, <2>7
  <1>6. ASSUME NEW i \in DOMAIN L, L[i][1] = "#"
        PROVE  \E key \in DOMAIN rd.cfg : key[2] = Comment /\ Find(rd.cfg[key], L[i], 1) # 0
    <2>1. i \in 1..n /\ i - 1 \in 0..n /\ i \in 0..n
      BY <1>1, <1>4
    <2> DEFINE l == L[i]
               s == at[i - 1]
    <2>2. s \in Loading /\ s.error = "none" /\ l \in FullLine
      BY <1>2, <1>3, <2>1
    <2>3. l \in Remark /\ l \in Text /\ l # <<>>
      BY <1>6, <2>2 DEF Remark, FullLine, PartLine
    <2>4. at[i] = ConfigLine(s, l)
      BY <1>3, <2>1
    <2>5. l[1] = "#"
      BY <1>6
    <2> HIDE DEF l, s
    <2>6. at[i] = AddComment(s, l)
      <3>1. l[1] \notin Blank
        BY <2>5, ConfigChars
      <3>2. Unindented(l) = l
        BY <2>3, <3>1, UnindentedIs
      <3> QED BY <2>2, <2>3, <2>4, <2>5, <3>2, Zenon DEF ConfigLine
    <2> DEFINE key == <<s.sec, Comment>>
               old == Get(s.cfg, s.sec, Comment, <<>>)
    <2>7. /\ old \o l \in Remarks /\ key \in Keys /\ Fits(key, old \o l) /\ old \in Text
          /\ AddComment(s, l) = Set(s, Comment, old \o l)
      BY <2>2, <2>3, CommentIs
    <2>8. key[2] = Comment
      OBVIOUS
    <2>9. Find(old \o l, l, 1) # 0
      BY <2>3, <2>7, OccursLonger
    <2>10. key \in DOMAIN at[i].cfg /\ at[i].cfg[key] = old \o l
      <3> DEFINE v == old \o l
      <3>1. v \in Text /\ at[i] = Set(s, Comment, v) /\ key \in Keys /\ Fits(key, v)
        BY <2>6, <2>7 DEF Remarks
      <3> HIDE DEF v
      <3>2. key \in DOMAIN at[i].cfg /\ at[i].cfg[key] = v
        BY <2>2, <3>1, SetIs
      <3> QED BY <3>2 DEF v
    <2> HIDE DEF key, old
    <2>11. Find(at[i].cfg[key], l, 1) # 0
      BY <2>9, <2>10
    <2>12. key \in DOMAIN at[n].cfg /\ Find(at[n].cfg[key], l, 1) # 0
      BY <1>1, <1>2, <2>1, <2>3, <2>8, <2>10, <2>11, RemarksStay
    <2> QED BY <1>2, <2>8, <2>12 DEF l
  <1>7. LastIsMeant(rd.cfg, L)
    BY <1>5 DEF LastIsMeant
  <1>8. CommentsAreThere(rd.cfg, L)
    BY <1>6 DEF CommentsAreThere
  <1> QED BY <1>7, <1>8 DEF L

-----------------------------------------------------------------------------
(* The order in which a configuration is written *)

\* A finite set has an order, with every member in it once and nothing else.
LEMMA OrderIs ==
  ASSUME NEW S, IsFiniteSet(S)
  PROVE  /\ Order(S) \in Seq(S) /\ InOrder(Order(S), S)
         /\ DOMAIN Order(S) = 1..Len(Order(S))
PROOF
  <1>1. Cardinality(S) \in Nat /\ ExistsBijection(1..Cardinality(S), S)
    BY FS_CardinalityType
  <1> DEFINE n == Cardinality(S)
  <1> HIDE DEF n
  <1>2. PICK f : f \in Bijection(1..n, S)
    BY <1>1 DEF ExistsBijection, n
  <1>3. f \in [1..n -> S] /\ InOrder(f, S)
    <2>1. /\ f \in [1..n -> S] /\ \A i, j \in 1..n : f[i] = f[j] => i = j
          /\ \A x \in S : \E i \in 1..n : f[i] = x
      BY <1>2 DEF Bijection, Injection, IsInjective, Surjection
    <2>2. DOMAIN f = 1..n
      BY <2>1
    <2> QED BY <2>1, <2>2, Zenon DEF InOrder
  <1>4. Order(S) \in [1..n -> S] /\ InOrder(Order(S), S)
    BY <1>3 DEF Order, n
  <1>5. Order(S) \in Seq(S)
    BY <1>1, <1>4 DEF n, Seq
  <1> QED BY <1>4, <1>5

\* The sections of a configuration are as many as its tags, or fewer.
LEMMA KeysFinite ==
  ASSUME NEW cfg \in Configs
  PROVE  /\ \A sec : IsFiniteSet({key \in DOMAIN cfg : key[1] = sec /\ key[2] # Comment})
         /\ IsFiniteSet({key[1] : key \in DOMAIN cfg} \ {<<>>})
PROOF
  <1> DEFINE D == DOMAIN cfg
             T == {key[1] : key \in D}
             f == [key \in D |-> key[1]]
  <1>1. IsFiniteSet(D)
    BY DEF Configs
  <1> HIDE DEF D
  <1>2. ASSUME NEW sec PROVE IsFiniteSet({key \in D : key[1] = sec /\ key[2] # Comment})
    BY <1>1, FS_Subset
  <1>3. f \in Surjection(D, T)
    BY DEF Surjection
  <1> HIDE DEF f, T
  <1>4. IsFiniteSet(T)
    BY <1>1, <1>3, FS_Surjection
  <1>5. IsFiniteSet(T \ {<<>>})
    BY <1>4, FS_Subset
  <1> QED BY <1>2, <1>5 DEF D, T

-----------------------------------------------------------------------------
(* What is loaded of a text, behind what was loaded already *)

Whole == {t \in Text : t = <<>> \/ EndsLine(t)}
LoadOn(rd, text) == ConfigLines(rd, Lines(text))

LEMMA LoadOnConcat ==
  ASSUME ConfigAssumption, NEW rd \in Loading, NEW v \in Whole, NEW u \in Whole
  PROVE  /\ v \o u \in Whole /\ LoadOn(rd, v) \in Loading
         /\ LoadOn(rd, v \o u) = LoadOn(LoadOn(rd, v), u)
PROOF
  <1>1. v \in Text /\ u \in Text /\ (v = <<>> \/ EndsLine(v)) /\ (u = <<>> \/ EndsLine(u))
    BY DEF Whole
  <1>2. v \o u \in Whole
    <2>1. CASE u = <<>>
      <3>1. v \o u = v
        BY <1>1, <2>1, ConcatEmptySeq DEF Text
      <3> QED BY <3>1
    <2>2. CASE EndsLine(u)
      BY <1>1, <2>2, EndsConcat DEF Whole
    <2> QED BY <1>1, <2>1, <2>2
  <1>3. Lines(v) \in Seq(FullLine) /\ Lines(u) \in Seq(FullLine)
    BY <1>1, LinesFull
  <1>4. Lines(v \o u) = Lines(v) \o Lines(u)
    BY <1>1, LinesConcat DEF Text
  <1> DEFINE V == Lines(v)
             U == Lines(u)
  <1> HIDE DEF V, U
  <1>5. ConfigLines(rd, V) \in Loading /\ ConfigLines(rd, V \o U) = ConfigLines(ConfigLines(rd, V), U)
    BY <1>3, ConfigLinesConcat DEF V, U
  <1> QED BY <1>2, <1>4, <1>5 DEF V, U, LoadOn

LEMMA LoadOnEmpty ==
  ASSUME ConfigAssumption, NEW rd \in Loading
  PROVE  LoadOn(rd, <<>>) = rd /\ <<>> \in Whole
PROOF
  <1>1. LoadOn(rd, <<>>) = rd
    BY LinesEmpty, ConfigLinesEmpty DEF LoadOn
  <1>2. <<>> \in Whole
    BY EmptySeq DEF Whole, Text
  <1> QED BY <1>1, <1>2

LEMMA LoadOnLine ==
  ASSUME ConfigAssumption, NEW rd \in Loading, NEW l \in FullLine
  PROVE  l \in Whole /\ LoadOn(rd, l) = ConfigLine(rd, l)
PROOF
  <1> DEFINE e == <<>>
  <1>1. l \in PartLine /\ l \in Whole
    BY DEF FullLine, PartLine, Whole
  <1>2. e \in Seq(FullLine) /\ Append(e, l) = <<l>>
    BY EmptySeq, OneAndTwo
  <1>3. ConfigLines(rd, e) = rd
    BY ConfigLinesEmpty
  <1> HIDE DEF e
  <1>4. ConfigLines(rd, Append(e, l)) = ConfigLine(ConfigLines(rd, e), l)
    BY <1>2, ConfigLinesAppend
  <1> QED BY <1>1, <1>2, <1>3, <1>4, LinesOne DEF LoadOn

\* Texts one after the other, from state to state.
LEMMA LoadOnJoin ==
  ASSUME ConfigAssumption, NEW ts \in Seq(Whole), NEW st \in [0..Len(ts) -> Loading],
         \A k \in 1..Len(ts) : LoadOn(st[k - 1], ts[k]) = st[k]
  PROVE  Flat(ts) \in Whole /\ LoadOn(st[0], Flat(ts)) = st[Len(ts)]
PROOF
  <1> DEFINE P(k) == Flat(SubSeq(ts, 1, k))
             S == {k \in Nat : k <= Len(ts) =>
                     P(k) \in Whole /\ LoadOn(st[0], P(k)) = st[k]}
  <1>1. Len(ts) \in Nat /\ ts \in Seq(Text)
    <2>1. Whole \subseteq Text
      BY DEF Whole
    <2> QED BY <2>1, SeqMonotonic, LenProperties
  <1>2. 0 \in S
    <2>1. SubSeq(ts, 1, 0) = <<>>
      BY SubEmpty
    <2>2. P(0) = <<>>
      BY <2>1, FlatEmpty DEF Flat
    <2>3. st[0] \in Loading
      BY <1>1
    <2> HIDE DEF P
    <2> QED BY <2>2, <2>3, LoadOnEmpty
  <1>3. ASSUME NEW k \in Nat, k \in S PROVE k + 1 \in S
    <2>1. SUFFICES ASSUME k + 1 <= Len(ts) PROVE P(k + 1) \in Whole /\ LoadOn(st[0], P(k + 1)) = st[k + 1]
      OBVIOUS
    <2>2. k + 1 \in Nat \ {0} /\ (k + 1) - 1 = k /\ k <= Len(ts) /\ k + 1 \in 1..Len(ts) /\ 0 \in 0..Len(ts)
      BY <1>1, <2>1
    <2>3. /\ SubSeq(ts, 1, k + 1) = Append(SubSeq(ts, 1, k), ts[k + 1])
          /\ SubSeq(ts, 1, k) \in Seq(Text) /\ ts[k + 1] \in Text
      BY <1>1, <2>1, <2>2, PrefixAppend
    <2>4. P(k + 1) = P(k) \o ts[k + 1]
      BY <2>3, FlatAppend
    <2>5. P(k) \in Whole /\ LoadOn(st[0], P(k)) = st[k]
      BY <1>3, <2>2
    <2>6. ts[k + 1] \in Whole /\ st[0] \in Loading /\ LoadOn(st[k], ts[k + 1]) = st[k + 1]
      BY <2>2, ElementOfSeq
    <2> HIDE DEF P
    <2>7. P(k) \o ts[k + 1] \in Whole
          /\ LoadOn(st[0], P(k) \o ts[k + 1]) = LoadOn(LoadOn(st[0], P(k)), ts[k + 1])
      BY <2>5, <2>6, LoadOnConcat
    <2> QED BY <2>4, <2>5, <2>6, <2>7
  <1> HIDE DEF S
  <1>4. Nat \subseteq S
    BY <1>2, <1>3, NatInd
  <1>5. Len(ts) \in S /\ SubSeq(ts, 1, Len(ts)) = ts /\ Len(ts) <= Len(ts)
    <2>1. Len(ts) \in S
      BY <1>1, <1>4
    <2>2. SubSeq(ts, 1, Len(ts)) = ts
      BY <1>1, SubSeqFull
    <2> QED BY <1>1, <2>1, <2>2
  <1> QED BY <1>1, <1>5 DEF S

-----------------------------------------------------------------------------
(* What is written is loaded *)

\* Some tags of a configuration are loaded, and the section of the last one.
Part(sec, cfg, D) == [sec |-> sec, cfg |-> [k \in D |-> cfg[k]], error |-> "none"]

LEMMA PartIs ==
  ASSUME NEW cfg \in Configs, NEW sec \in NameText, NEW D \in SUBSET DOMAIN cfg
  PROVE  /\ Part(sec, cfg, D) \in Loading
         /\ Part(sec, cfg, D).sec = sec /\ Part(sec, cfg, D).error = "none"
         /\ DOMAIN Part(sec, cfg, D).cfg = D
         /\ \A k \in D : Part(sec, cfg, D).cfg[k] = cfg[k]
PROOF
  <1> DEFINE g == [k \in D |-> cfg[k]]
  <1>1. /\ DOMAIN cfg \subseteq Keys /\ IsFiniteSet(DOMAIN cfg)
        /\ \A k \in DOMAIN cfg : cfg[k] \in Text /\ Fits(k, cfg[k])
    BY DEF Configs
  <1>2. IsFiniteSet(D) /\ D \subseteq Keys
    BY <1>1, FS_Subset
  <1>3. g \in [D -> Text] /\ DOMAIN g = D /\ \A k \in D : g[k] = cfg[k]
    BY <1>1
  <1> HIDE DEF g
  <1>4. g \in Configs
    <2>1. g \in UNION {[E -> Text] : E \in SUBSET Keys}
      BY <1>2, <1>3
    <2>2. \A k \in DOMAIN g : Fits(k, g[k])
      BY <1>1, <1>3
    <2> QED BY <1>2, <1>3, <2>1, <2>2 DEF Configs
  <1> DEFINE p == [sec |-> sec, cfg |-> g, error |-> "none"]
  <1>5. Part(sec, cfg, D) = p
    BY DEF Part, g
  <1>6. p \in Loading
    BY <1>4, ErrorFacts DEF Loading
  <1>7. p.sec = sec /\ p.cfg = g /\ p.error = "none"
    OBVIOUS
  <1> HIDE DEF p
  <1> QED BY <1>3, <1>5, <1>6, <1>7

LEMMA SetPart ==
  ASSUME NEW cfg \in Configs, NEW sec \in NameText, NEW D \in SUBSET DOMAIN cfg, NEW tag,
         <<sec, tag>> \in DOMAIN cfg
  PROVE  Set(Part(sec, cfg, D), tag, cfg[<<sec, tag>>]) = Part(sec, cfg, D \cup {<<sec, tag>>})
PROOF
  <1> DEFINE key == <<sec, tag>>
             g == [k \in D |-> cfg[k]]
             h == [k \in D \cup {key} |-> IF k = key THEN cfg[key] ELSE g[k]]
             i == [k \in D \cup {key} |-> cfg[k]]
             p == Part(sec, cfg, D)
  <1>1. p.sec = sec /\ p.cfg = g /\ p = [sec |-> sec, cfg |-> g, error |-> "none"]
    BY DEF Part
  <1>2. DOMAIN g = D
    OBVIOUS
  <1>3. h = i
    OBVIOUS
  <1> HIDE DEF g, p
  <1>4. Set(p, tag, cfg[key]) = [p EXCEPT !.cfg = h]
    BY <1>1, <1>2 DEF Set
  <1> HIDE DEF h, i
  <1>5. [p EXCEPT !.cfg = h] = [sec |-> sec, cfg |-> h, error |-> "none"]
    BY <1>1
  <1>6. Part(sec, cfg, D \cup {key}) = [sec |-> sec, cfg |-> i, error |-> "none"]
    BY DEF Part, i
  <1> QED BY <1>3, <1>4, <1>5, <1>6 DEF p, key

\* A value with a blank in front is the value, once it is trimmed.
LEMMA TrimSpace ==
  ASSUME NEW v \in ValueText
  PROVE  TrimOf(<<SP>> \o v, Blank) = v
PROOF
  <1> DEFINE b == <<SP>>
             s == b \o v
  <1>1. v \in Text /\ Len(v) \in Nat /\ TrimOf(v, Blank) = v /\ SP \in Blank
    BY LenProperties, ConfigChars DEF ValueText, Text
  <1>2. b \in Text /\ Len(b) = 1 /\ b[1] = SP
    BY ConfigChars DEF Text
  <1> HIDE DEF b
  <1>3. /\ s \in Text /\ Len(s) = 1 + Len(v)
        /\ \A i \in 1..(1 + Len(v)) : s[i] = IF i <= 1 THEN b[i] ELSE v[i - 1]
    <2>1. /\ s \in Text /\ Len(s) = Len(b) + Len(v)
          /\ \A i \in 1..(Len(b) + Len(v)) : s[i] = IF i <= Len(b) THEN b[i] ELSE v[i - Len(b)]
      <3>1. b \in Text /\ v \in Text
        BY <1>1, <1>2
      <3> QED BY <3>1, Concat, SMTT(30)
    <2> HIDE DEF s
    <2> QED BY <1>1, <1>2, <2>1
  <1>4. SubSeq(s, 2, Len(s)) = v
    <2>0. b \in Seq(Char) /\ v \in Seq(Char)
      BY <1>1, <1>2 DEF Text
    <2>1. \A m \in Nat \ {0} : SubSeq(b \o v, Len(b) + m, Len(b \o v)) = SubSeq(v, m, Len(v))
      BY <2>0, SubConcat, ZenonT(60)
    <2>2. 1 \in Nat \ {0} /\ Len(b) + 1 = 2
      BY <1>2
    <2>3. SubSeq(v, 1, Len(v)) = v
      BY <1>1, SubSeqFull DEF Text
    <2> QED BY <2>1, <2>2, <2>3
  <1> HIDE DEF s
  <1>5. CASE v = <<>>
    <2>1. Len(v) = 0
      BY <1>5
    <2>2. \A i \in 1..Len(s) : s[i] \in Blank
      BY <1>1, <1>2, <1>3, <2>1
    <2>3. TrimOf(s, Blank) = <<>>
      BY <1>3, <2>2, TrimNone
    <2> QED BY <1>5, <2>3 DEF s, b
  <1>6. CASE v # <<>>
    <2>1. v[1] \notin Blank /\ v[Len(v)] \notin Blank
      BY <1>1, <1>6, TrimIs
    <2>2. Len(v) # 0
      BY <1>1, <1>6, EmptySeq DEF Text
    <2>3. s[1] = SP /\ s[2] = v[1] /\ s[Len(s)] = v[Len(v)]
      BY <1>1, <1>2, <1>3, <2>2
    <2>4. Kept(s, Blank, 2, Len(s))
      <3>1. 2 \in 1..Len(s) /\ Len(s) \in 1..Len(s) /\ 2 <= Len(s) /\ Len(s) \in Nat
        BY <1>1, <1>3, <2>2
      <3>2. ASSUME NEW i \in 1..Len(s), s[i] \notin Blank PROVE 2 <= i /\ i <= Len(s)
        <4>1. i # 1
          BY <1>1, <2>3, <3>2
        <4> QED BY <3>1, <4>1
      <3> QED BY <2>1, <2>3, <3>1, <3>2 DEF Kept
    <2>5. TrimOf(s, Blank) = SubSeq(s, 2, Len(s))
      BY <1>3, <2>4, TrimFor
    <2> QED BY <1>4, <2>5 DEF s, b
  <1> QED BY <1>5, <1>6

\* How a tag and its value are written.
Written(tag, v) == tag \o <<":", SP>> \o v \o <<NL>>

LEMMA WrittenIs ==
  ASSUME ConfigAssumption, NEW tag \in TagText, NEW v \in ValueText, NEW l, l = Written(tag, v)
  PROVE  /\ l \in FullLine /\ TagAt(l, Len(tag)) /\ SubSeq(l, 1, Len(tag)) = tag
         /\ SubSeq(l, Len(tag) + 2, Len(l) - 1) = <<SP>> \o v
PROOF
  <1> DEFINE cs == <<":", SP>>
             nl == <<NL>>
             b == <<SP>>
             x == tag \o cs
             y == x \o v
             n == Len(tag)
             w == Len(v)
             z == b \o v
             r == SubSeq(l, n + 2, Len(l) - 1)
             f == SubSeq(l, 1, n)
  <1>1. /\ tag \in Text /\ tag # <<>> /\ v \in Text /\ \A i \in 1..n : tag[i] \in TagChar
        /\ \A i \in 1..w : v[i] # NL
    BY DEF TagText, ValueText
  <1>2. n \in Nat \ {0} /\ w \in Nat
    BY <1>1, LenProperties, EmptySeq DEF Text
  <1>3. /\ cs \in Text /\ Len(cs) = 2 /\ cs[1] = ":" /\ cs[2] = SP
        /\ nl \in Text /\ Len(nl) = 1 /\ nl[1] = NL /\ b \in Text /\ Len(b) = 1 /\ b[1] = SP
    BY ConfigChars DEF Text
  <1>4. l = y \o nl
    BY DEF Written
  <1> HIDE DEF cs, nl, b, n, w
  <1>5. /\ x \in Text /\ Len(x) = n + 2
        /\ \A i \in 1..(n + 2) : x[i] = IF i <= n THEN tag[i] ELSE cs[i - n]
    <2>1. /\ x \in Text /\ Len(x) = Len(tag) + Len(cs)
          /\ \A i \in 1..(Len(tag) + Len(cs)) : x[i] = IF i <= Len(tag) THEN tag[i] ELSE cs[i - Len(tag)]
      <3>1. tag \in Text /\ cs \in Text
        BY <1>1, <1>3
      <3> QED BY <3>1, Concat, SMTT(30)
    <2> HIDE DEF x
    <2> QED BY <1>2, <1>3, <2>1 DEF n
  <1> HIDE DEF x
  <1>6. /\ y \in Text /\ Len(y) = n + 2 + w
        /\ \A i \in 1..(n + 2 + w) : y[i] = IF i <= n + 2 THEN x[i] ELSE v[i - (n + 2)]
    <2>1. /\ y \in Text /\ Len(y) = Len(x) + Len(v)
          /\ \A i \in 1..(Len(x) + Len(v)) : y[i] = IF i <= Len(x) THEN x[i] ELSE v[i - Len(x)]
      <3>1. x \in Text /\ v \in Text
        BY <1>1, <1>5
      <3> QED BY <3>1, Concat, SMTT(30)
    <2> HIDE DEF y
    <2> QED BY <1>2, <1>5, <2>1 DEF w
  <1> HIDE DEF y
  <1>7. /\ l \in Text /\ Len(l) = n + 2 + w + 1
        /\ \A i \in 1..(n + 2 + w + 1) : l[i] = IF i <= n + 2 + w THEN y[i] ELSE nl[i - (n + 2 + w)]
    <2>1. /\ y \o nl \in Text /\ Len(y \o nl) = Len(y) + Len(nl)
          /\ \A i \in 1..(Len(y) + Len(nl)) : (y \o nl)[i] = IF i <= Len(y) THEN y[i] ELSE nl[i - Len(y)]
      BY <1>3, <1>6, Concat
    <2> QED BY <1>2, <1>3, <1>4, <1>6, <2>1
  <1>8. /\ z \in Text /\ Len(z) = 1 + w
        /\ \A i \in 1..(1 + w) : z[i] = IF i <= 1 THEN b[i] ELSE v[i - 1]
    <2>1. /\ z \in Text /\ Len(z) = Len(b) + Len(v)
          /\ \A i \in 1..(Len(b) + Len(v)) : z[i] = IF i <= Len(b) THEN b[i] ELSE v[i - Len(b)]
      BY <1>1, <1>3, Concat
    <2> HIDE DEF z
    <2> QED BY <1>2, <1>3, <2>1 DEF w
  <1> HIDE DEF z
  <1>9. \A i \in 1..n : l[i] = tag[i]
    <2>1. ASSUME NEW i \in 1..n PROVE l[i] = tag[i]
      <3>1. i \in 1..(n + 2 + w + 1) /\ i <= n + 2 + w /\ i \in 1..(n + 2 + w) /\ i <= n + 2
            /\ i \in 1..(n + 2) /\ i <= n
        BY <1>2
      <3>2. l[i] = y[i] /\ y[i] = x[i] /\ x[i] = tag[i]
        BY <1>5, <1>6, <1>7, <3>1
      <3> QED BY <3>2
    <2> QED BY <2>1
  <1>10. l[n + 1] = ":" /\ l[n + 2] = SP
    <2>1. ASSUME NEW i \in {1, 2} PROVE l[n + i] = cs[i]
      <3>1. /\ n + i \in 1..(n + 2 + w + 1) /\ n + i <= n + 2 + w /\ n + i \in 1..(n + 2 + w)
            /\ n + i <= n + 2 /\ n + i \in 1..(n + 2) /\ ~(n + i <= n) /\ (n + i) - n = i
        BY <1>2
      <3>2. l[n + i] = y[n + i] /\ y[n + i] = x[n + i] /\ x[n + i] = cs[(n + i) - n]
        BY <1>5, <1>6, <1>7, <3>1
      <3> QED BY <3>1, <3>2
    <2> QED BY <1>3, <2>1
  <1>11. \A i \in 1..w : l[n + 2 + i] = v[i]
    <2>1. ASSUME NEW i \in 1..w PROVE l[n + 2 + i] = v[i]
      <3>1. /\ n + 2 + i \in 1..(n + 2 + w + 1) /\ n + 2 + i <= n + 2 + w
            /\ n + 2 + i \in 1..(n + 2 + w) /\ ~(n + 2 + i <= n + 2) /\ (n + 2 + i) - (n + 2) = i
        BY <1>2
      <3>2. l[n + 2 + i] = y[n + 2 + i] /\ y[n + 2 + i] = v[(n + 2 + i) - (n + 2)]
        BY <1>6, <1>7, <3>1
      <3> QED BY <3>1, <3>2
    <2> QED BY <2>1
  <1>12. l[Len(l)] = NL
    <2>1. /\ n + 2 + w + 1 \in 1..(n + 2 + w + 1) /\ ~(n + 2 + w + 1 <= n + 2 + w)
          /\ (n + 2 + w + 1) - (n + 2 + w) = 1
      BY <1>2
    <2> QED BY <1>3, <1>7, <2>1
  <1>13. \A i \in 1..(Len(l) - 1) : l[i] # NL
    <2>1. SUFFICES ASSUME NEW i \in 1..(Len(l) - 1) PROVE l[i] # NL
      OBVIOUS
    <2>2. i \in 1..n \/ i = n + 1 \/ i = n + 2 \/ i - (n + 2) \in 1..w
      BY <1>2, <1>7
    <2>3. CASE i \in 1..n
      <3>1. l[i] \in TagChar
        BY <1>1, <1>9, <2>3 DEF n
      <3> QED BY <3>1, TagFacts
    <2>4. CASE i = n + 1 \/ i = n + 2
      BY <1>10, <2>4, ConfigChars
    <2>5. CASE i - (n + 2) \in 1..w
      <3>1. n + 2 + (i - (n + 2)) = i
        BY <1>2
      <3>2. l[i] = v[i - (n + 2)]
        BY <1>11, <2>5, <3>1
      <3> QED BY <1>1, <2>5, <3>2 DEF w
    <2> QED BY <2>2, <2>3, <2>4, <2>5
  <1>14. l # <<>>
    <2>1. Len(l) # 0
      BY <1>2, <1>7
    <2> QED BY <1>7, <2>1, EmptySeq DEF Text
  <1>15. l \in FullLine
    BY <1>7, <1>12, <1>13, <1>14 DEF FullLine, PartLine, EndsLine
  <1>16. TagAt(l, n)
    <2>1. n \in 1..(Len(l) - 2)
      BY <1>2, <1>7
    <2>2. \A i \in 1..n : l[i] \in TagChar
      BY <1>1, <1>9 DEF n
    <2> QED BY <1>10, <2>1, <2>2 DEF TagAt
  <1>17. f = tag
    <2>1. 1 \in Nat \ {0} /\ n \in Nat /\ n <= Len(l) /\ 1 <= n + 1 /\ n - 1 + 1 = n
      BY <1>2, <1>7
    <2>2. f \in Text /\ Len(f) = n - 1 + 1 /\ \A i \in 1..(n - 1 + 1) : f[i] = l[1 + i - 1]
      BY <1>7, <2>1, SubText
    <2> HIDE DEF f
    <2>3. \A i \in 1..n : f[i] = tag[i]
      <3>1. \A i \in 1..n : 1 + i - 1 = i
        BY <1>2
      <3> QED BY <1>9, <2>1, <2>2, <3>1
    <2>4. Len(f) = n /\ Len(tag) = n
      BY <2>1, <2>2 DEF n
    <2> QED BY <1>1, <2>2, <2>3, <2>4, SeqEqual DEF Text
  <1>18. r = z
    <2>1. /\ n + 2 \in Nat \ {0} /\ Len(l) - 1 \in Nat /\ Len(l) - 1 <= Len(l)
          /\ n + 2 <= (Len(l) - 1) + 1 /\ (Len(l) - 1) - (n + 2) + 1 = 1 + w
      BY <1>2, <1>7
    <2>2. /\ r \in Text /\ Len(r) = (Len(l) - 1) - (n + 2) + 1
          /\ \A i \in 1..((Len(l) - 1) - (n + 2) + 1) : r[i] = l[(n + 2) + i - 1]
      BY <1>7, <2>1, SubText
    <2> HIDE DEF r
    <2>3. ASSUME NEW i \in 1..(1 + w) PROVE r[i] = z[i]
      <3>1. r[i] = l[(n + 2) + i - 1]
        BY <2>1, <2>2
      <3>2. CASE i = 1
        <4>1. (n + 2) + i - 1 = n + 2 /\ i <= 1
          BY <1>2, <3>2
        <4>2. z[i] = b[i]
          BY <1>8, <4>1
        <4> QED BY <1>3, <1>10, <3>1, <3>2, <4>1, <4>2
      <3>3. CASE i # 1
        <4>1. (n + 2) + i - 1 = n + 2 + (i - 1) /\ i - 1 \in 1..w /\ ~(i <= 1)
          BY <1>2, <3>3
        <4>2. z[i] = v[i - 1]
          BY <1>8, <4>1
        <4> QED BY <1>11, <3>1, <4>1, <4>2
      <3> QED BY <3>2, <3>3
    <2>4. Len(r) = 1 + w
      BY <2>1, <2>2
    <2>5. \A i \in 1..Len(r) : r[i] = z[i]
      BY <2>3, <2>4
    <2> QED BY <1>8, <2>2, <2>4, <2>5, SeqEqual DEF Text
  <1> QED BY <1>15, <1>16, <1>17, <1>18 DEF n, z, b

\* A line of a tag is loaded ...
LEMMA EntryIsLoaded ==
  ASSUME ConfigAssumption, NEW cfg \in Configs, NEW sec \in NameText, NEW D \in SUBSET DOMAIN cfg,
         NEW tag, <<sec, tag>> \in DOMAIN cfg, tag # Comment
  PROVE  /\ Entry(cfg, <<sec, tag>>) \in Whole
         /\ LoadOn(Part(sec, cfg, D), Entry(cfg, <<sec, tag>>)) = Part(sec, cfg, D \cup {<<sec, tag>>})
PROOF
  <1> DEFINE key == <<sec, tag>>
             v == cfg[key]
             l == Written(tag, v)
             p == Part(sec, cfg, D)
  <1>1. key \in Keys /\ Fits(key, v) /\ key[1] = sec /\ key[2] = tag
    BY DEF Configs
  <1>2. tag \in TagText /\ v \in ValueText
    BY <1>1 DEF Keys, Fits
  <1>3. Entry(cfg, key) = l
    BY <1>1 DEF Entry, Written
  <1>4. p \in Loading /\ p.error = "none"
    BY PartIs
  <1> HIDE DEF p, v, l
  <1>5. /\ l \in FullLine /\ TagAt(l, Len(tag)) /\ SubSeq(l, 1, Len(tag)) = tag
        /\ SubSeq(l, Len(tag) + 2, Len(l) - 1) = <<SP>> \o v
    BY <1>2, WrittenIs DEF l
  <1>6. ConfigLine(p, l) = Set(p, tag, TrimOf(<<SP>> \o v, Blank))
    <2>1. ConfigLine(p, l)
            = Set(p, SubSeq(l, 1, Len(tag)), TrimOf(SubSeq(l, Len(tag) + 2, Len(l) - 1), Blank))
      BY <1>4, <1>5, TagLineFor
    <2> QED BY <1>5, <2>1, Zenon
  <1>7. TrimOf(<<SP>> \o v, Blank) = v
    BY <1>2, TrimSpace
  <1>8. l \in Whole /\ LoadOn(p, l) = Set(p, tag, v)
    BY <1>4, <1>5, <1>6, <1>7, LoadOnLine
  <1>9. Set(p, tag, v) = Part(sec, cfg, D \cup {key})
    BY SetPart DEF p, v
  <1> QED BY <1>3, <1>8, <1>9 DEF p, key

\* ... and comments are, one line after the other ...
LEMMA RemarksAreLoaded ==
  ASSUME ConfigAssumption, NEW rd \in Loading, rd.error = "none", NEW c \in Remarks,
         <<rd.sec, Comment>> \notin DOMAIN rd.cfg
  PROVE  c \in Whole /\ LoadOn(rd, c) = Set(rd, Comment, c)
PROOF
  <1> DEFINE key == <<rd.sec, Comment>>
             Now(ls) == ConfigLines(rd, ls)
             Good == {ls \in Seq(Remark) : ls # <<>> => Flat(ls) \in Remarks /\ Now(ls) = Set(rd, Comment, Flat(ls))}
  <1>1. /\ c \in Text /\ EndsLine(c) /\ Lines(c) \in Seq(Remark) /\ c # <<>>
    BY DEF Remarks, EndsLine
  <1>2. Remark \subseteq FullLine /\ Remark \subseteq Text
    BY DEF Remark, FullLine, PartLine
  <1>3. Seq(Remark) \subseteq Seq(FullLine) /\ Seq(Remark) \subseteq Seq(Text)
    BY <1>2, SeqMonotonic
  <1>4. <<>> \in Good
    BY EmptySeq
  <1>5. ASSUME NEW ls \in Seq(Remark), NEW l \in Remark, ls \in Good PROVE Append(ls, l) \in Good
    <2> DEFINE m == Append(ls, l)
               a == Now(ls)
               old == Get(a.cfg, a.sec, Comment, <<>>)
    <2>1. m \in Seq(Remark) /\ Flat(m) = Flat(ls) \o l /\ Flat(ls) \in Text
      BY <1>2, <1>3, FlatAppend, AppendProperties
    <2>2. ls \in Seq(FullLine) /\ l \in FullLine /\ l \in Text
      BY <1>2, <1>3
    <2>3. a \in Loading /\ Now(m) = ConfigLine(a, l)
      BY <2>2, ConfigLinesAppend
    <2>4. /\ a.error = "none" /\ a.sec = rd.sec /\ old = Flat(ls)
          /\ \A v \in Text : Set(a, Comment, v) = Set(rd, Comment, v)
      <3>1. CASE ls = <<>>
        <4>1. a = rd
          BY <3>1, ConfigLinesEmpty
        <4>2. old = <<>>
          BY <4>1 DEF Get
        <4>3. Flat(ls) = <<>>
          BY <3>1, FlatEmpty DEF Flat
        <4> QED BY <4>1, <4>2, <4>3
      <3>2. CASE ls # <<>>
        <4> DEFINE u == Flat(ls)
        <4>1. u \in Remarks /\ a = Set(rd, Comment, u)
          BY <1>5, <3>2
        <4> HIDE DEF u, a
        <4>2. key \in Keys /\ u \in Text /\ Fits(key, u)
          <5>1. rd.sec \in NameText /\ key[2] = Comment
            BY DEF Loading
          <5>2. key \in Keys
            BY <5>1 DEF Keys
          <5> QED BY <4>1, <5>1, <5>2 DEF Fits, Remarks
        <4>3. /\ a.sec = rd.sec /\ a.error = rd.error
              /\ DOMAIN a.cfg = DOMAIN rd.cfg \cup {key} /\ a.cfg[key] = u
              /\ \A k \in DOMAIN rd.cfg : k # key => a.cfg[k] = rd.cfg[k]
          BY <4>1, <4>2, SetIs
        <4>4. Get(a.cfg, a.sec, Comment, <<>>) = u
          BY <4>3 DEF Get
        <4>5. ASSUME NEW v \in Text PROVE Set(a, Comment, v) = Set(rd, Comment, v)
          <5> DEFINE g == [k \in DOMAIN rd.cfg \cup {key} |-> IF k = key THEN v ELSE rd.cfg[k]]
                     h == [k \in DOMAIN a.cfg \cup {key} |-> IF k = key THEN v ELSE a.cfg[k]]
          <5>1. g = h
            BY <4>3
          <5>2. Set(a, Comment, v) = [a EXCEPT !.cfg = h] /\ Set(rd, Comment, v) = [rd EXCEPT !.cfg = g]
            BY <4>3 DEF Set
          <5> HIDE DEF g, h
          <5>3. [a EXCEPT !.cfg = h] = [rd EXCEPT !.cfg = g]
            BY <2>3, <4>3, <5>1 DEF Loading, a
          <5> QED BY <5>2, <5>3
        <4> QED BY <4>3, <4>4, <4>5 DEF u
      <3> QED BY <3>1, <3>2
    <2> HIDE DEF a
    <2>5. ConfigLine(a, l) = AddComment(a, l)
      <3>1. l[1] = "#" /\ l # <<>>
        BY DEF Remark, FullLine, PartLine
      <3>2. Unindented(l) = l
        BY <2>2, <3>1, ConfigChars, UnindentedIs
      <3> QED BY <2>4, <3>1, <3>2, Zenon DEF ConfigLine
    <2>6. old \o l \in Remarks /\ AddComment(a, l) = Set(a, Comment, old \o l)
      BY <2>3, CommentIs
    <2> HIDE DEF old, m
    <2>7. Flat(m) \in Remarks /\ Now(m) = Set(rd, Comment, Flat(m))
      <3>1. old \o l = Flat(m)
        BY <2>1, <2>4
      <3>2. Flat(m) \in Remarks /\ Flat(m) \in Text
        BY <2>6, <3>1 DEF Remarks
      <3> QED BY <2>3, <2>4, <2>5, <2>6, <3>1, <3>2, Zenon
    <2> QED BY <2>1, <2>7 DEF m
  <1> HIDE DEF Good
  <1>6. Seq(Remark) \subseteq Good
    BY <1>4, <1>5, SeqInd
  <1>7. Lines(c) \in Good /\ Flat(Lines(c)) = c
    BY <1>1, <1>6, FlatLines
  <1>8. Lines(c) # <<>>
    BY <1>1, <1>7, FlatEmpty DEF Flat
  <1>9. Now(Lines(c)) = Set(rd, Comment, c)
    BY <1>7, <1>8 DEF Good
  <1> QED BY <1>1, <1>9 DEF LoadOn, Whole

\* ... and the head of a section is, with the empty line in front.
SectionHead(sec) == <<NL, "[">> \o sec \o <<"]", NL>>

LEMMA HeadIsLoaded ==
  ASSUME ConfigAssumption, NEW rd \in Loading, rd.error = "none", NEW sec \in NameText, sec # <<>>
  PROVE  SectionHead(sec) \in Whole /\ LoadOn(rd, SectionHead(sec)) = [rd EXCEPT !.sec = sec]
PROOF
  <1> DEFINE opens == "["
             closes == "]"
             b == <<opens>>
             nl == <<NL>>
             nlo == <<NL, opens>>
             u == <<closes, NL>>
             t == sec \o u
             l == b \o t
             n == Len(sec)
  <1>1. /\ opens \in Char /\ closes \in Char /\ NL \in Char /\ opens # NL /\ closes # NL /\ opens # "#"
        /\ NL \notin Blank /\ opens \notin Blank /\ closes \notin Blank /\ NL # "#" /\ NL # "[" /\ opens = "["
        /\ Blank \subseteq Space /\ NL \in Space /\ closes = "]"
    BY ConfigChars
  <1>2. SectionHead(sec) = (nlo \o sec) \o u
    BY DEF SectionHead
  <1>3. /\ sec \in Text /\ n \in Nat \ {0} /\ sec[1] \notin Space /\ sec[1] \in Char
        /\ \A i \in 2..n : sec[i] \notin Space \cup {closes}
    <2>1. sec \in Text /\ sec[1] \notin Space /\ \A i \in 2..n : sec[i] \notin Space \cup {closes}
      BY DEF NameText
    <2>2. n \in Nat \ {0}
      BY <2>1, LenProperties, EmptySeq DEF Text
    <2>3. sec[1] \in Char
      BY <2>1, <2>2, ElementOfSeq DEF Text
    <2> QED BY <2>1, <2>2, <2>3
  <1> HIDE DEF opens, closes, n
  <1>4. /\ b \in Text /\ Len(b) = 1 /\ b[1] = opens /\ nl \in Text /\ Len(nl) = 1 /\ nl[1] = NL
        /\ nlo \in Text /\ u \in Text /\ Len(u) = 2 /\ u[1] = closes /\ u[2] = NL
        /\ nl \o b = nlo
    <2>1. /\ b \in Text /\ Len(b) = 1 /\ b[1] = opens /\ nl \in Text /\ Len(nl) = 1 /\ nl[1] = NL
          /\ nlo \in Text /\ u \in Text /\ Len(u) = 2 /\ u[1] = closes /\ u[2] = NL
      BY <1>1 DEF Text
    <2>2. nl \o b = Append(nl, opens) /\ Append(nl, opens) = nlo
      BY <1>1, OneAndTwo, AppendIsConcat DEF Text
    <2> QED BY <2>1, <2>2
  <1> HIDE DEF b, nl, nlo, u
  <1>5. /\ t \in Text /\ Len(t) = n + 2
        /\ \A i \in 1..(n + 2) : t[i] = IF i <= n THEN sec[i] ELSE u[i - n]
    <2>1. /\ t \in Text /\ Len(t) = Len(sec) + Len(u)
          /\ \A i \in 1..(Len(sec) + Len(u)) : t[i] = IF i <= Len(sec) THEN sec[i] ELSE u[i - Len(sec)]
      <3>1. sec \in Text /\ u \in Text
        BY <1>3, <1>4
      <3> QED BY <3>1, Concat, SMTT(30)
    <2> HIDE DEF t
    <2> QED BY <1>3, <1>4, <2>1 DEF n
  <1>6. SectionHead(sec) = nl \o l
    <2>0. nl \in Text /\ b \in Text /\ sec \in Text /\ u \in Text /\ nl \o b = nlo
      BY <1>3, <1>4
    <2>1. (nl \o b) \o sec = nl \o (b \o sec) /\ b \o sec \in Text
      <3>1. (nl \o b) \o sec = nl \o (b \o sec)
        BY <2>0, AssocAll, ZenonT(60)
      <3>2. b \o sec \in Text
        BY <2>0, Concat
      <3> QED BY <3>1, <3>2
    <2>2. (nl \o (b \o sec)) \o u = nl \o ((b \o sec) \o u)
      <3> DEFINE bs == b \o sec
      <3>1. bs \in Text /\ nl \in Text /\ u \in Text
        BY <2>0, <2>1
      <3> HIDE DEF bs
      <3>2. (nl \o bs) \o u = nl \o (bs \o u)
        BY <3>1, Assoc, ZenonT(60)
      <3> QED BY <3>2 DEF bs
    <2>3. (b \o sec) \o u = b \o t
      BY <2>0, AssocAll, Zenon DEF t
    <2> QED BY <1>2, <2>0, <2>1, <2>2, <2>3, Zenon
  <1>7. SubSeq(t, n + 1, Len(t)) = u
    <2>0. sec \in Seq(Char) /\ u \in Seq(Char)
      BY <1>3, <1>4 DEF Text
    <2>1. \A m \in Nat \ {0} : SubSeq(sec \o u, Len(sec) + m, Len(sec \o u)) = SubSeq(u, m, Len(u))
      BY <2>0, SubConcat, ZenonT(60)
    <2>2. SubSeq(u, 1, Len(u)) = u /\ 1 \in Nat \ {0}
      BY <1>4, SubSeqFull DEF Text
    <2>3. SubSeq(sec \o u, Len(sec) + 1, Len(sec \o u)) = SubSeq(u, 1, Len(u))
      BY <2>1, <2>2
    <2> QED BY <2>2, <2>3 DEF n
  <1>8. SubSeq(t, 1, n) = sec
    <2>0. sec \in Seq(Char) /\ u \in Seq(Char)
      BY <1>3, <1>4 DEF Text
    <2>1. \A m \in 0..Len(u) : SubSeq(sec \o u, 1, Len(sec) + m) = sec \o SubSeq(u, 1, m)
      BY <2>0, SubConcat, ZenonT(60)
    <2>2. SubSeq(u, 1, 0) = <<>> /\ 0 \in 0..Len(u) /\ Len(sec) + 0 = n /\ sec \o <<>> = sec
      BY <1>3, <1>4, SubEmpty, ConcatEmptySeq DEF Text, n
    <2>3. SubSeq(sec \o u, 1, Len(sec) + 0) = sec \o SubSeq(u, 1, 0)
      BY <2>1, <2>2
    <2> QED BY <2>2, <2>3
  <1> HIDE DEF t
  <1>9. /\ l \in Text /\ Len(l) = 1 + (n + 2)
        /\ \A i \in 1..(1 + (n + 2)) : l[i] = IF i <= 1 THEN b[i] ELSE t[i - 1]
    <2>1. /\ l \in Text /\ Len(l) = Len(b) + Len(t)
          /\ \A i \in 1..(Len(b) + Len(t)) : l[i] = IF i <= Len(b) THEN b[i] ELSE t[i - Len(b)]
      BY <1>4, <1>5, Concat
    <2> HIDE DEF l
    <2> QED BY <1>3, <1>4, <1>5, <2>1
  <1>10. t[1] = sec[1] /\ t[n + 1] = closes /\ t[n + 2] = NL
    <2>1. 1 \in 1..(n + 2) /\ 1 <= n /\ n + 1 \in 1..(n + 2) /\ ~(n + 1 <= n) /\ (n + 1) - n = 1
          /\ n + 2 \in 1..(n + 2) /\ ~(n + 2 <= n) /\ (n + 2) - n = 2
      BY <1>3
    <2> QED BY <1>4, <1>5, <2>1
  <1>11. Tail(l) = t
    <2>1. l # <<>>
      <3>1. Len(l) # 0
        BY <1>3, <1>9
      <3> QED BY <1>9, <3>1, EmptySeq DEF Text
    <2>2. /\ Tail(l) \in Text /\ Len(Tail(l)) = Len(l) - 1
          /\ \A i \in 1..(Len(l) - 1) : Tail(l)[i] = l[i + 1]
      BY <1>9, <2>1, TailIs
    <2>3. ASSUME NEW i \in 1..(n + 2) PROVE Tail(l)[i] = t[i]
      <3>1. i \in 1..(Len(l) - 1) /\ i + 1 \in 1..(1 + (n + 2)) /\ ~(i + 1 <= 1) /\ (i + 1) - 1 = i
        BY <1>3, <1>9
      <3>2. Tail(l)[i] = l[i + 1]
        BY <2>2, <3>1
      <3>3. l[i + 1] = t[(i + 1) - 1]
        BY <1>9, <3>1
      <3> QED BY <3>1, <3>2, <3>3
    <2> DEFINE r == Tail(l)
    <2> HIDE DEF r
    <2>4. r \in Text /\ Len(r) = n + 2 /\ \A i \in 1..(n + 2) : r[i] = t[i]
      BY <1>3, <1>9, <2>2, <2>3 DEF r
    <2>5. r = t
      BY <1>5, <2>4, SeqEqual DEF Text
    <2> QED BY <2>5 DEF r
  <1>12. l \in FullLine /\ l # <<>> /\ l[1] = opens
    <2>1. l[1] = opens
      <3>1. 1 \in 1..(1 + (n + 2)) /\ 1 <= 1
        BY <1>3
      <3> QED BY <1>4, <1>9, <3>1
    <2>2. ASSUME NEW i \in 1..(Len(l) - 1) PROVE l[i] # NL
      <3>1. i = 1 \/ i = n + 2 \/ (i - 1 \in 1..n /\ i # 1)
        BY <1>3, <1>9
      <3>2. CASE i = 1
        BY <1>1, <2>1, <3>2
      <3>3. CASE i = n + 2
        <4>1. i \in 1..(1 + (n + 2)) /\ ~(i <= 1) /\ i - 1 = n + 1
          BY <1>3, <3>3
        <4>2. l[i] = t[i - 1]
          BY <1>9, <4>1
        <4> QED BY <1>1, <1>10, <4>1, <4>2
      <3>4. CASE i - 1 \in 1..n /\ i # 1
        <4>1. /\ i \in 1..(1 + (n + 2)) /\ ~(i <= 1) /\ i - 1 \in 1..(n + 2) /\ i - 1 <= n
              /\ (i - 1 = 1 \/ i - 1 \in 2..n)
          BY <1>3, <1>9, <3>4
        <4>2. l[i] = t[i - 1] /\ t[i - 1] = sec[i - 1]
          BY <1>5, <1>9, <4>1
        <4>3. sec[i - 1] # NL
          BY <1>1, <1>3, <4>1
        <4> QED BY <4>2, <4>3
      <3> QED BY <3>1, <3>2, <3>3, <3>4
    <2>3. l[Len(l)] = NL
      <3>1. 1 + (n + 2) \in 1..(1 + (n + 2)) /\ ~(1 + (n + 2) <= 1) /\ (1 + (n + 2)) - 1 = n + 2
        BY <1>3
      <3> QED BY <1>9, <1>10, <3>1
    <2>4. Len(l) # 0
      BY <1>3, <1>9
    <2>5. l # <<>>
      BY <1>9, <2>4, EmptySeq DEF Text
    <2> QED BY <1>9, <2>1, <2>2, <2>3, <2>5 DEF FullLine, PartLine, EndsLine
  <1> HIDE DEF l
  \* The empty line says nothing ...
  <1>13. nl \in FullLine /\ nl # <<>>
    <2>1. nl # <<>>
      <3>1. Len(nl) # 0
        BY <1>4
      <3> QED BY <1>4, <3>1, EmptySeq DEF Text
    <2>2. \A i \in 1..(Len(nl) - 1) : FALSE
      BY <1>4
    <2> QED BY <1>4, <2>1, <2>2 DEF FullLine, PartLine, EndsLine
  <1>14. ConfigLine(rd, nl) = rd
    <2>1. Unindented(nl) = nl
      BY <1>1, <1>4, <1>13, UnindentedIs
    <2>2. ConfigLine(rd, nl) = TagLine(rd, nl)
      BY <1>1, <1>4, <1>13, <2>1, Zenon DEF ConfigLine
    <2>3. Len(Chopped(nl)) = 0 /\ Chopped(nl) \in Text
      BY <1>4, <1>13, ChopIs
    <2>4. Chopped(nl) = <<>>
      BY <2>3, EmptySeq DEF Text
    <2> QED BY <2>2, <2>4, TagLineCases
  \* ... and the other one is the name of the section.
  <1>15. ConfigLine(rd, l) = SectionLine(rd, l)
    <2>1. Unindented(l) = l
      BY <1>1, <1>9, <1>12, UnindentedIs
    <2> QED BY <1>1, <1>12, <2>1, Zenon DEF ConfigLine
  <1>16. Unindented(t) = t /\ t # <<>> /\ Unindented(u) = u /\ u # <<>>
    <2>1. Len(t) # 0 /\ Len(u) # 0
      BY <1>3, <1>4, <1>5
    <2>2. t # <<>> /\ u # <<>>
      <3>1. t \in Seq(Char) /\ u \in Seq(Char)
        BY <1>4, <1>5 DEF Text
      <3> QED BY <2>1, <3>1, EmptySeq
    <2>3. t[1] \notin Blank /\ u[1] \notin Blank
      BY <1>1, <1>3, <1>4, <1>10
    <2> QED BY <1>4, <1>5, <2>2, <2>3, UnindentedIs
  <1>17. Until(t, 2, Space \cup {closes}) = n + 1
    <2>1. 2 \in 1..(Len(t) + 1) /\ n + 1 \in 2..(Len(t) + 1) /\ (n + 1) - 1 = n
      BY <1>3, <1>5
    <2>2. \A i \in 2..n : t[i] \notin Space \cup {closes}
      <3>1. \A i \in 2..n : i \in 1..(n + 2) /\ i <= n
        BY <1>3
      <3> QED BY <1>3, <1>5, <3>1
    <2>3. t[n + 1] \in Space \cup {closes}
      BY <1>10
    <2> DEFINE set == Space \cup {closes}
    <2> HIDE DEF set
    <2>4. Until(t, 2, set) = n + 1
      <3>1. \A i \in 2..((n + 1) - 1) : t[i] \notin set
        BY <2>1, <2>2 DEF set
      <3>2. t[n + 1] \in set
        BY <2>3 DEF set
      <3> QED BY <1>5, <2>1, <3>1, <3>2, UntilFor
    <2> QED BY <2>4 DEF set
  <1>18. SectionLine(rd, l) = [rd EXCEPT !.sec = sec]
    <2>1. (n + 1) - 1 = n
      BY <1>3
    <2>2. SectionLine(rd, l) = [rd EXCEPT !.sec = SubSeq(t, 1, (n + 1) - 1)]
      BY <1>1, <1>4, <1>7, <1>11, <1>16, <1>17, Zenon DEF SectionLine
    <2> QED BY <1>8, <2>1, <2>2
  <1>19. nl \in Whole /\ l \in Whole /\ LoadOn(rd, nl) = rd /\ LoadOn(rd, l) = [rd EXCEPT !.sec = sec]
    BY <1>12, <1>13, <1>14, <1>15, <1>18, LoadOnLine
  <1>20. nl \o l \in Whole /\ LoadOn(rd, nl \o l) = LoadOn(LoadOn(rd, nl), l)
    BY <1>19, LoadOnConcat
  <1> QED BY <1>6, <1>19, <1>20

-----------------------------------------------------------------------------
(* A section, and all of them *)

AllOf(cfg, sec) == {key \in DOMAIN cfg : key[1] = sec}
TagsOf(cfg, sec) == {key \in DOMAIN cfg : key[1] = sec /\ key[2] # Comment}

LEMMA KeyIs ==
  ASSUME NEW cfg \in Configs, NEW key \in DOMAIN cfg
  PROVE  key = <<key[1], key[2]>> /\ key[1] \in NameText /\ key[2] \in TagText \cup {Comment}
PROOF
  <1>1. key \in Keys
    BY DEF Configs
  <1> QED BY <1>1 DEF Keys

\* The entries of a section, in their order.
EntryTexts(cfg, order) == [i \in DOMAIN order |-> Entry(cfg, order[i])]

LEMMA EntriesAreLoaded ==
  ASSUME ConfigAssumption, NEW cfg \in Configs, NEW sec \in NameText, NEW D \in SUBSET DOMAIN cfg,
         NEW text, text = Flat(EntryTexts(cfg, Order(TagsOf(cfg, sec))))
  PROVE  text \in Whole /\ LoadOn(Part(sec, cfg, D), text) = Part(sec, cfg, D \cup TagsOf(cfg, sec))
PROOF
  <1> DEFINE K == TagsOf(cfg, sec)
             order == Order(K)
             n == Len(order)
             ts == EntryTexts(cfg, order)
             E(k) == D \cup {order[i] : i \in 1..k}
             st == [k \in 0..n |-> Part(sec, cfg, E(k))]
  <1>1. IsFiniteSet(K)
    BY KeysFinite DEF TagsOf
  <1>2. \A key \in K : key \in DOMAIN cfg /\ key[2] # Comment /\ key = <<sec, key[2]>>
    BY KeyIs DEF TagsOf
  <1> HIDE DEF K
  <1>3. order \in Seq(K) /\ InOrder(order, K) /\ DOMAIN order = 1..n
    BY <1>1, OrderIs
  <1> HIDE DEF order
  <1>4. n \in Nat /\ \A i \in 1..n : order[i] \in K
    BY <1>3, LenProperties, ElementOfSeq
  <1> HIDE DEF n
  <1>5. ASSUME NEW k \in 1..n
        PROVE  /\ Entry(cfg, order[k]) \in Whole
               /\ LoadOn(Part(sec, cfg, E(k - 1)), Entry(cfg, order[k])) = Part(sec, cfg, E(k))
    <2> DEFINE tag == order[k][2]
    <2>1. order[k] = <<sec, tag>> /\ <<sec, tag>> \in DOMAIN cfg /\ tag # Comment
      BY <1>2, <1>4
    <2>2. E(k - 1) \in SUBSET DOMAIN cfg
      <3>1. \A i \in 1..(k - 1) : i \in 1..n
        BY <1>4
      <3> QED BY <1>2, <1>4, <3>1
    <2>3. E(k) = E(k - 1) \cup {order[k]}
      <3>1. 1..k = 1..(k - 1) \cup {k}
        BY <1>4
      <3> QED BY <3>1
    <2> DEFINE F == E(k - 1)
    <2>5. F \in SUBSET DOMAIN cfg
      BY <2>2
    <2> HIDE DEF F, tag
    <2>4. /\ Entry(cfg, <<sec, tag>>) \in Whole
          /\ LoadOn(Part(sec, cfg, F), Entry(cfg, <<sec, tag>>)) = Part(sec, cfg, F \cup {<<sec, tag>>})
      BY <2>1, <2>5, EntryIsLoaded
    <2> QED BY <2>1, <2>3, <2>4 DEF F
  <1>6. ts \in Seq(Whole) /\ Len(ts) = n /\ \A i \in 1..n : ts[i] = Entry(cfg, order[i])
    <2>1. ts = [i \in 1..n |-> Entry(cfg, order[i])]
      BY <1>3 DEF EntryTexts
    <2>2. \A i \in 1..n : Entry(cfg, order[i]) \in Whole
      BY <1>5
    <2> HIDE DEF ts
    <2> QED BY <1>4, <2>1, <2>2
  <1>7. E(0) = D /\ E(n) = D \cup K
    <2>1. 1..0 = {}
      OBVIOUS
    <2>2. \A x \in K : \E i \in 1..n : order[i] = x
      BY <1>3 DEF InOrder
    <2> QED BY <1>4, <2>1, <2>2
  <1>8. \A k \in 0..n : E(k) \in SUBSET DOMAIN cfg
    <2>1. \A k \in 0..n : \A i \in 1..k : i \in 1..n
      BY <1>4
    <2> QED BY <1>2, <1>4, <2>1
  <1> HIDE DEF E, ts
  <1>9. st \in [0..Len(ts) -> Loading]
    <2>1. \A k \in 0..n : Part(sec, cfg, E(k)) \in Loading
      BY <1>8, PartIs
    <2> QED BY <1>6, <2>1
  <1>10. /\ \A k \in 1..n : st[k - 1] = Part(sec, cfg, E(k - 1)) /\ st[k] = Part(sec, cfg, E(k))
         /\ st[0] = Part(sec, cfg, D) /\ st[n] = Part(sec, cfg, D \cup K)
    <2>1. \A k \in 1..n : k - 1 \in 0..n /\ k \in 0..n
      BY <1>4
    <2>2. 0 \in 0..n /\ n \in 0..n
      BY <1>4
    <2> QED BY <1>7, <2>1, <2>2
  <1> HIDE DEF st
  <1>11. \A k \in 1..Len(ts) : LoadOn(st[k - 1], ts[k]) = st[k]
    BY <1>5, <1>6, <1>10
  <1>12. Flat(ts) \in Whole /\ LoadOn(st[0], Flat(ts)) = st[Len(ts)]
    BY <1>6, <1>9, <1>11, LoadOnJoin
  <1>13. text = Flat(ts)
    BY DEF ts, order, K
  <1> QED BY <1>6, <1>10, <1>12, <1>13 DEF K

\* A section whose tags are not loaded yet.
LEMMA SectionIsLoaded ==
  ASSUME ConfigAssumption, NEW cfg \in Configs, NEW sec \in NameText, NEW s0 \in NameText,
         sec = <<>> => s0 = <<>>, NEW D \in SUBSET DOMAIN cfg, D \cap AllOf(cfg, sec) = {}
  PROVE  /\ ConfigSection(cfg, sec) \in Whole
         /\ LoadOn(Part(s0, cfg, D), ConfigSection(cfg, sec)) = Part(sec, cfg, D \cup AllOf(cfg, sec))
PROOF
  <1> DEFINE key == <<sec, Comment>>
             head == IF sec = <<>> THEN <<>> ELSE SectionHead(sec)
             c == Get(cfg, sec, Comment, <<>>)
             f == Flat(EntryTexts(cfg, Order(TagsOf(cfg, sec))))
             F == D \cup ({key} \cap DOMAIN cfg)
             p0 == Part(s0, cfg, D)
             p1 == Part(sec, cfg, D)
             p2 == Part(sec, cfg, F)
             p3 == Part(sec, cfg, F \cup TagsOf(cfg, sec))
  <1>1. ConfigSection(cfg, sec) = (head \o c) \o f
    BY Zenon DEF ConfigSection, SectionHead, EntryTexts, TagsOf, Flat
  <1>2. F \in SUBSET DOMAIN cfg /\ key[2] = Comment
    OBVIOUS
  <1>3. F \cup TagsOf(cfg, sec) = D \cup AllOf(cfg, sec)
    <2>1. \A k \in AllOf(cfg, sec) : k \in DOMAIN cfg /\ k[1] = sec /\ k = <<sec, k[2]>>
      BY KeyIs DEF AllOf
    <2>2. \A k \in AllOf(cfg, sec) : k = key \/ k \in TagsOf(cfg, sec)
      BY <2>1 DEF TagsOf
    <2>3. \A k \in TagsOf(cfg, sec) : k \in AllOf(cfg, sec)
      BY DEF TagsOf, AllOf
    <2>4. key \in DOMAIN cfg => key \in AllOf(cfg, sec)
      BY DEF AllOf
    <2>5. \A k \in AllOf(cfg, sec) : k \in DOMAIN cfg
      BY DEF AllOf
    <2> HIDE DEF key
    <2> QED BY <2>2, <2>3, <2>4, <2>5
  <1>4. /\ p0 \in Loading /\ p0.error = "none" /\ p1 \in Loading /\ p1.error = "none"
        /\ p1.sec = sec /\ DOMAIN p1.cfg = D /\ p2 \in Loading
    BY <1>2, PartIs
  <1>5. head \in Whole /\ LoadOn(p0, head) = p1
    <2>1. CASE sec = <<>>
      <3>1. head = <<>> /\ p0 = p1
        BY <2>1
      <3> HIDE DEF head, p0, p1
      <3> QED BY <1>4, <3>1, LoadOnEmpty
    <2>2. CASE sec # <<>>
      <3>1. head = SectionHead(sec)
        BY <2>2
      <3>2. [p0 EXCEPT !.sec = sec] = p1
        <4> DEFINE g == [k \in D |-> cfg[k]]
        <4>1. p0 = [sec |-> s0, cfg |-> g, error |-> "none"] /\ p1 = [sec |-> sec, cfg |-> g, error |-> "none"]
          BY DEF Part
        <4> HIDE DEF g, p0, p1
        <4> QED BY <4>1
      <3> HIDE DEF head, p0, p1
      <3> QED BY <1>4, <2>2, <3>1, <3>2, HeadIsLoaded
    <2> QED BY <2>1, <2>2
  <1>6. c \in Whole /\ LoadOn(p1, c) = p2
    <2>1. CASE key \in DOMAIN cfg
      <3>1. c = cfg[key] /\ cfg[key] \in Remarks
        <4>1. Fits(key, cfg[key])
          BY <2>1 DEF Configs
        <4>2. cfg[key] \in Remarks
          BY <1>2, <4>1 DEF Fits
        <4> QED BY <2>1, <4>2 DEF Get
      <3>2. <<p1.sec, Comment>> \notin DOMAIN p1.cfg
        <4>1. key \in AllOf(cfg, sec)
          BY <2>1 DEF AllOf
        <4> QED BY <1>4, <4>1
      <3>3. Set(p1, Comment, cfg[key]) = Part(sec, cfg, D \cup {key})
        BY <2>1, SetPart
      <3>4. F = D \cup {key}
        BY <2>1
      <3> HIDE DEF c, p1, F, key
      <3>5. c \in Whole /\ LoadOn(p1, c) = Set(p1, Comment, c)
        BY <1>4, <3>1, <3>2, RemarksAreLoaded
      <3> QED BY <3>1, <3>3, <3>4, <3>5
    <2>2. CASE key \notin DOMAIN cfg
      <3>1. c = <<>>
        BY <2>2 DEF Get
      <3>2. F = D
        BY <2>2
      <3> HIDE DEF c, p1, F
      <3> QED BY <1>4, <3>1, <3>2, LoadOnEmpty DEF p1
    <2> QED BY <2>1, <2>2
  <1>7. f \in Whole /\ LoadOn(p2, f) = p3
    <2> HIDE DEF f, F
    <2> QED BY <1>2, EntriesAreLoaded DEF f
  <1> HIDE DEF head, c, f, p0, p1, p2, p3
  <1>8. head \o c \in Whole /\ LoadOn(p0, head \o c) = p2
    BY <1>4, <1>5, <1>6, LoadOnConcat
  <1>9. (head \o c) \o f \in Whole /\ LoadOn(p0, (head \o c) \o f) = LoadOn(LoadOn(p0, head \o c), f)
    <2> DEFINE h == head \o c
    <2>1. h \in Whole
      BY <1>8
    <2> HIDE DEF h
    <2>2. h \o f \in Whole /\ LoadOn(p0, h \o f) = LoadOn(LoadOn(p0, h), f)
      BY <1>4, <1>7, <2>1, LoadOnConcat
    <2> QED BY <2>2 DEF h
  <1>10. p3 = Part(sec, cfg, D \cup AllOf(cfg, sec))
    BY <1>3 DEF p3
  <1> QED BY <1>1, <1>7, <1>8, <1>9, <1>10 DEF p0

\* What is written of a configuration is loaded as it was.
LEMMA EachComesBack ==
  ASSUME ConfigAssumption, NEW cfg \in Configs
  PROVE  ComesBack(cfg)
PROOF
  <1> DEFINE none == <<>>
             K == {key[1] : key \in DOMAIN cfg} \ {<<>>}
             order == Order(K)
             n == Len(order)
             ts == [i \in DOMAIN order |-> ConfigSection(cfg, order[i])]
             E(k) == AllOf(cfg, none) \cup {key \in DOMAIN cfg : \E i \in 1..k : key[1] = order[i]}
             SecAt(k) == IF k = 0 THEN none ELSE order[k]
             st == [k \in 0..n |-> Part(SecAt(k), cfg, E(k))]
             first == ConfigSection(cfg, none)
  <1>1. IsFiniteSet(K)
    BY KeysFinite
  <1>2. /\ none \in NameText /\ \A name \in K : name \in NameText /\ name # none
        /\ \A key \in DOMAIN cfg : key[1] = none \/ key[1] \in K
    <2>1. none \in NameText
      BY EmptySeq DEF NameText, Text
    <2>2. \A key \in DOMAIN cfg : key[1] \in NameText
      BY KeyIs
    <2> QED BY <2>1, <2>2
  <1>3. ConfigText(cfg) = first \o Flat(ts)
    BY Zenon DEF ConfigText, Flat
  <1> HIDE DEF K, none
  <1>4. order \in Seq(K) /\ InOrder(order, K) /\ DOMAIN order = 1..n
    BY <1>1, OrderIs
  <1> HIDE DEF order
  <1>5. /\ n \in Nat /\ \A i \in 1..n : order[i] \in K
        /\ \A i, j \in 1..n : order[i] = order[j] => i = j
        /\ \A x \in K : \E i \in 1..n : order[i] = x
    BY <1>4, LenProperties, ElementOfSeq DEF InOrder
  <1> HIDE DEF n
  <1>6. \A k \in 0..n : E(k) \in SUBSET DOMAIN cfg /\ SecAt(k) \in NameText
    BY <1>2, <1>5 DEF AllOf
  <1>7. E(0) = AllOf(cfg, none) /\ E(n) = DOMAIN cfg
    <2>1. \A i \in 1..0 : FALSE
      OBVIOUS
    <2>2. E(0) = AllOf(cfg, none)
      BY <2>1
    <2>3. \A key \in DOMAIN cfg : key[1] = none \/ \E i \in 1..n : key[1] = order[i]
      BY <1>2, <1>5
    <2>4. E(n) = DOMAIN cfg
      BY <2>3 DEF AllOf
    <2> QED BY <2>2, <2>4
  <1>8. ASSUME NEW k \in 1..n
        PROVE  /\ ConfigSection(cfg, order[k]) \in Whole
               /\ LoadOn(Part(SecAt(k - 1), cfg, E(k - 1)), ConfigSection(cfg, order[k]))
                    = Part(SecAt(k), cfg, E(k))
    <2>1. k - 1 \in 0..n /\ k # 0 /\ order[k] \in NameText /\ order[k] # none /\ SecAt(k) = order[k]
      BY <1>2, <1>5
    <2>2. E(k) = E(k - 1) \cup AllOf(cfg, order[k])
      <3>1. \A i \in 1..k : i \in 1..(k - 1) \/ i = k
        BY <1>5
      <3>2. \A i \in 1..(k - 1) : i \in 1..k
        BY <1>5
      <3>3. k \in 1..k
        BY <1>5
      <3>4. \A key \in DOMAIN cfg : (\E i \in 1..k : key[1] = order[i])
                                    <=> (\E i \in 1..(k - 1) : key[1] = order[i]) \/ key[1] = order[k]
        BY <3>1, <3>2, <3>3
      <3> QED BY <3>4 DEF AllOf
    <2>3. E(k - 1) \cap AllOf(cfg, order[k]) = {}
      <3>1. \A i \in 1..(k - 1) : i \in 1..n /\ i # k
        BY <1>5
      <3>2. \A key \in E(k - 1) : key[1] # order[k]
        BY <1>5, <2>1, <3>1 DEF AllOf
      <3> QED BY <3>2 DEF AllOf
    <2> DEFINE F == E(k - 1)
               s0 == SecAt(k - 1)
               sec == order[k]
    <2>4. F \in SUBSET DOMAIN cfg /\ s0 \in NameText /\ sec \in NameText /\ sec # none
          /\ F \cap AllOf(cfg, sec) = {}
      BY <1>6, <2>1, <2>3
    <2>5. Part(SecAt(k), cfg, E(k)) = Part(sec, cfg, F \cup AllOf(cfg, sec))
      BY <2>1, <2>2
    <2> HIDE DEF F, s0, sec
    <2>6. /\ ConfigSection(cfg, sec) \in Whole
          /\ LoadOn(Part(s0, cfg, F), ConfigSection(cfg, sec)) = Part(sec, cfg, F \cup AllOf(cfg, sec))
      BY <2>4, SectionIsLoaded DEF none
    <2> QED BY <2>5, <2>6 DEF F, s0, sec
  <1>9. ts \in Seq(Whole) /\ Len(ts) = n /\ \A i \in 1..n : ts[i] = ConfigSection(cfg, order[i])
    <2>1. ts = [i \in 1..n |-> ConfigSection(cfg, order[i])]
      BY <1>4 DEF n
    <2>2. \A i \in 1..n : ConfigSection(cfg, order[i]) \in Whole
      BY <1>8
    <2> HIDE DEF ts
    <2> QED BY <1>5, <2>1, <2>2
  <1>10. st[0] = Part(none, cfg, AllOf(cfg, none)) /\ st[n] = Part(SecAt(n), cfg, DOMAIN cfg)
         /\ \A k \in 1..n : /\ st[k - 1] = Part(SecAt(k - 1), cfg, E(k - 1))
                            /\ st[k] = Part(SecAt(k), cfg, E(k))
    <2>1. 0 \in 0..n /\ n \in 0..n /\ \A k \in 1..n : k - 1 \in 0..n /\ k \in 0..n
      BY <1>5
    <2>2. st[0] = Part(SecAt(0), cfg, E(0)) /\ st[n] = Part(SecAt(n), cfg, E(n))
          /\ \A k \in 1..n : /\ st[k - 1] = Part(SecAt(k - 1), cfg, E(k - 1))
                             /\ st[k] = Part(SecAt(k), cfg, E(k))
      <3> HIDE DEF E, SecAt
      <3> QED BY <2>1
    <2> QED BY <1>7, <2>2
  <1>11. st \in [0..n -> Loading]
    <2>1. \A k \in 0..n : Part(SecAt(k), cfg, E(k)) \in Loading
      BY <1>6, PartIs
    <2> QED BY <2>1
  <1>12. SecAt(n) \in NameText
    BY <1>5, <1>6
  <1> HIDE DEF E, ts, st, SecAt
  <1>13. st \in [0..Len(ts) -> Loading] /\ \A k \in 1..Len(ts) : LoadOn(st[k - 1], ts[k]) = st[k]
    BY <1>8, <1>9, <1>10, <1>11
  <1>14. Flat(ts) \in Whole /\ LoadOn(st[0], Flat(ts)) = st[Len(ts)]
    BY <1>9, <1>13, LoadOnJoin
  <1>15. Empty = Part(none, cfg, {})
    <2>1. [k \in {} |-> <<>>] = [k \in {} |-> cfg[k]]
      OBVIOUS
    <2> QED BY <2>1, Zenon DEF Empty, NoTags, Part, none
  <1>16. first \in Whole /\ LoadOn(Empty, first) = Part(none, cfg, AllOf(cfg, none))
    <2>1. {} \in SUBSET DOMAIN cfg /\ {} \cap AllOf(cfg, none) = {}
      OBVIOUS
    <2>2. first \in Whole
          /\ LoadOn(Part(none, cfg, {}), first) = Part(none, cfg, {} \cup AllOf(cfg, none))
      BY <1>2, <2>1, SectionIsLoaded
    <2>3. {} \cup AllOf(cfg, none) = AllOf(cfg, none)
      OBVIOUS
    <2> QED BY <1>15, <2>2, <2>3
  <1> HIDE DEF first
  <1>17. LoadOn(Empty, first \o Flat(ts)) = LoadOn(LoadOn(Empty, first), Flat(ts))
    BY <1>14, <1>16, EmptyLoading, LoadOnConcat
  <1>18. LoadOn(Empty, ConfigText(cfg)) = Part(SecAt(n), cfg, DOMAIN cfg)
    BY <1>3, <1>9, <1>10, <1>14, <1>16, <1>17
  <1> DEFINE back == LoadOn(Empty, ConfigText(cfg))
  <1>19. back.cfg = cfg /\ back.error = "none"
    <2>1. cfg = [k \in DOMAIN cfg |-> cfg[k]]
      BY DEF Configs
    <2> DEFINE g == [k \in DOMAIN cfg |-> cfg[k]]
               s == SecAt(n)
    <2>2. Part(s, cfg, DOMAIN cfg) = [sec |-> s, cfg |-> g, error |-> "none"]
      BY DEF Part
    <2> HIDE DEF g, s, back
    <2>3. back = [sec |-> s, cfg |-> g, error |-> "none"]
      BY <1>18, <2>2 DEF back, s
    <2> QED BY <2>1, <2>3 DEF g
  <1> QED BY <1>19 DEF ComesBack, LoadConfig, LoadOn

\* Configurations (ConfigKept): whatever text is in a file that ends with a newline, what
\* load() makes of it without an error is what its lines say, and what to_string() makes
\* of that again is loaded as the same.
THEOREM ConfigKeptSafe ==
  ConfigAssumption => ([](cfgText \in Seq(STRING)) => []ConfigKept)
PROOF
  <1> SUFFICES ASSUME ConfigAssumption PROVE [](cfgText \in Seq(STRING)) => []ConfigKept
    OBVIOUS
  <1>1. cfgText \in Seq(STRING) => ConfigKept
    <2>1. SUFFICES ASSUME cfgText \in Seq(STRING) PROVE ConfigKept
      OBVIOUS
    <2> DEFINE text == cfgText
               rd == LoadConfig(text)
    <2>2. text \in Text
      BY <2>1, TextsOfStrings
    <2>3. ASSUME rd.error = "none", EndsLine(text)
          PROVE  LastIsMeant(rd.cfg, Lines(text)) /\ CommentsAreThere(rd.cfg, Lines(text))
                 /\ ComesBack(rd.cfg)
      <3> HIDE DEF text
      <3>1. LastIsMeant(rd.cfg, Lines(text)) /\ CommentsAreThere(rd.cfg, Lines(text))
        BY <2>2, <2>3, TextIsMeant
      <3>2. rd \in Loading
        <4>1. PICK at : /\ at[Len(Lines(text))] = rd /\ Len(Lines(text)) \in Nat
                        /\ \A k \in 0..Len(Lines(text)) : at[k] \in Loading
          BY <2>2, <2>3, LoadedLoop
        <4>2. Len(Lines(text)) \in 0..Len(Lines(text))
          BY <4>1
        <4> QED BY <4>1, <4>2
      <3>3. rd.cfg \in Configs
        BY <3>2 DEF Loading
      <3> QED BY <3>1, <3>3, EachComesBack
    <2> QED BY <2>3, Zenon DEF ConfigKept
  <1> QED BY <1>1, PTL
================================================================================
