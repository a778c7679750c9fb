----------------------------- MODULE GroupProofs -----------------------------
(***************************************************************************)
(* A group job (Group), for any number of nodes, members and child jobs:   *)
(* what its managers promise of it, with deaths and failures as often as   *)
(* they like or, where a death between two children breaks it, without.    *)
(***************************************************************************)
EXTENDS Group, FiniteSetTheorems, TLAPS

Splits(n) == pc[n] \in {"split", "held"}
Stores(n) == pc[n] \in {"trunc", "write"}

Types ==
  /\ entry \in [GroupDirs -> Ties \cup {Torn, NoFile}]
  /\ entry["pend"] \in {Untied, NoFile}
  /\ lock \in Node \cup {Nobody}
  /\ kid \in [Kid -> KidDirs]
  /\ of \in [Kid -> Member \cup {NoKid}]
  /\ pc \in [Node -> {"idle", "split", "held", "trunc", "write", "walk"}]
  /\ ties \in [Node -> Ties]
  /\ todo \in [Node -> SUBSET Member]
  /\ open \in [Node -> {"tied", "done"}]
  /\ seen = [n \in Node |-> seen[n]]
  /\ crashes \in Nat /\ crashes <= MaxCrashes

\* Whom t ties to a child job, it ties to one that was made for that member
Made(t) ==
  /\ t \in Ties
  /\ \A m \in Member : t[m] # NoKid => of[t[m]] = m /\ kid[t[m]] # "none"

Served == \A m \in Member : \E k \in Kid : of[k] = m /\ kid[k] \in {"done", "gone"}

\* The life of the group's file: one entry at any time
Pending ==
  /\ entry["pend"] = Untied /\ entry["tied"] = NoFile /\ entry["done"] = NoFile
  /\ \A n \in Node : ~Stores(n)
Tied ==
  /\ entry["pend"] = NoFile /\ entry["tied"] # NoFile /\ entry["done"] = NoFile
  /\ \A n \in Node : ~Splits(n)
  /\ (\A n \in Node : pc[n] # "write") => Made(entry["tied"])
Done ==
  /\ entry["pend"] = NoFile /\ entry["tied"] = NoFile /\ entry["done"] # NoFile
  /\ \A n \in Node : ~Splits(n) /\ ~Stores(n)
  /\ Served
Files == Pending \/ Tied \/ Done

\* Who splits has the lock; who stores does so alone
Hands ==
  /\ \A n \in Node : Splits(n) => lock = n
  /\ \A n \in Node : Splits(n) \/ Stores(n) => Made(ties[n])
  /\ \A n \in Node : pc[n] = "trunc" => entry["tied"] = Untied
  /\ \A n \in Node : pc[n] = "write" => open[n] = "tied"
  /\ \A n, p \in Node : Stores(n) /\ Stores(p) => n = p

\* What a walk has seen done is done, and it looks for a child that was not made,
\* or for one child of each member
WalkOf(n) ==
  pc[n] = "walk" =>
    /\ \A k \in Asked(n) : seen[n][k] = "done" => k \in Kid /\ kid[k] \in {"done", "gone"}
    /\ \/ NoKid \in Asked(n)
       \/ /\ entry["pend"] = NoFile
          /\ \A p \in Node : ~Stores(p)
          /\ \A m \in Member :
               \E k \in Asked(n) \cap Kid : of[k] = m /\ kid[k] # "none"
Walks == \A n \in Node : WalkOf(n)

GInv == Types /\ (WholeStores => Files /\ Hands /\ Walks)

-----------------------------------------------------------------------------
(* Without a death in the split the group knows every child that is there    *)

Alive(k) == kid[k] \notin {"none", "gone"}
Accounted(t) == \A k \in Kid : Alive(k) => of[k] \in Member /\ t[of[k]] = k

KidsKnown ==
  /\ entry["pend"] # NoFile /\ lock = Nobody => \A k \in Kid : ~Alive(k)
  /\ lock # Nobody => Splits(lock)
  /\ \A n \in Node : Splits(n) \/ Stores(n) => Accounted(ties[n])
  /\ entry["tied"] # NoFile /\ (\A n \in Node : ~Stores(n)) => Accounted(entry["tied"])
  /\ entry["done"] # NoFile =>
       Accounted(entry["done"]) /\ \A k \in Kid : kid[k] \in {"none", "done", "gone"}

\* Who has still to make a child for a member has none for it
NoneYet ==
  \A n \in Node :
    /\ pc[n] = "split" => \A m \in todo[n] : ties[n][m] = NoKid
    /\ pc[n] = "held" =>
         \A m, p \in todo[n] : ties[n][m] # NoKid /\ ties[n][p] # NoKid => m = p

\* A walk that looks for one child of each member looks for all there are
AllAsked ==
  \A n \in Node : pc[n] = "walk" /\ NoKid \notin Asked(n) =>
    \A k \in Kid : Alive(k) => k \in Asked(n)

Known == KidsKnown /\ NoneYet /\ AllAsked
\* Managers do not die while they split the group, if they die at all
Orderly == WholeStores /\ (Abrupt => MaxCrashes = 0)
CInv == Orderly => Known

-----------------------------------------------------------------------------
(* Types *)

\* Initially every variable has its type.
LEMMA TypesInit == Init => Types
BY GroupAssumption DEF Init, Types, Ties, Untied, GroupDirs, KidDirs

\* Types are kept by taking the pending group, and its lock.
LEMMA LockTypes ==
  ASSUME Types, NEW n \in Node, Lock(n) PROVE Types'
<1>1. Untied \in Ties /\ entry["pend"] = Untied
  BY DEF Untied, Ties, Lock, Types
<1> QED
  BY <1>1 DEF Lock, Types, Goto, GroupDirs, walkVars

\* Types are kept by making a child, or failing to.
LEMMA MakeKidTypes ==
  ASSUME Types, NEW n \in Node, MakeKid(n) PROVE Types'
<1>1. PICK m \in todo[n] :
        \/ \E k \in Kid :
             /\ of' = [of EXCEPT ![k] = m]
             /\ kid' = [kid EXCEPT ![k] = "hold"]
             /\ ties' = [ties EXCEPT ![n][m] = k]
             /\ pc' = [pc EXCEPT ![n] = "held"]
             /\ UNCHANGED <<todo, failures>>
        \/ todo' = [todo EXCEPT ![n] = @ \ {m}] /\ UNCHANGED <<kid, of, ties, pc>>
  BY DEF MakeKid, Goto
<1>2. UNCHANGED <<entry, lock, open, seen, crashes>>
  BY DEF MakeKid, walkVars
<1>3. m \in Member
  BY <1>1 DEF Types
<1>4. ties[n] \in Ties
  BY DEF Types
<1>5. ties' \in [Node -> Ties]
  <2>1. ASSUME NEW k \in Kid PROVE [ties[n] EXCEPT ![m] = k] \in Ties
    BY <1>3, <1>4, <2>1 DEF Ties
  <2> QED
    BY <1>1, <2>1 DEF Types
<1>6. /\ of' \in [Kid -> Member \cup {NoKid}]
      /\ kid' \in [Kid -> KidDirs]
      /\ todo' \in [Node -> SUBSET Member]
      /\ pc' \in [Node -> {"idle", "split", "held", "trunc", "write", "walk"}]
  BY <1>1, <1>3 DEF Types, KidDirs
<1> QED
  BY <1>2, <1>5, <1>6 DEF Types

\* Types are kept by releasing a child.
LEMMA ReleaseKidTypes ==
  ASSUME Types, NEW n \in Node, ReleaseKid(n) PROVE Types'
<1>1. PICK m \in todo[n] :
        /\ ties[n][m] \in Kid
        /\ todo' = [todo EXCEPT ![n] = @ \ {m}]
        /\ \/ kid' = [kid EXCEPT ![ties[n][m]] = "pend"] /\ UNCHANGED ties
           \/ /\ kid' = [kid EXCEPT ![ties[n][m]] = "gone"]
              /\ ties' = [ties EXCEPT ![n][m] = NoKid]
  BY DEF ReleaseKid
<1>2. UNCHANGED <<entry, lock, of, open, seen, crashes>> /\ pc' = [pc EXCEPT ![n] = "split"]
  BY DEF ReleaseKid, walkVars, Goto
<1>3. m \in Member /\ ties[n] \in Ties
  BY <1>1 DEF Types
<1>4. [ties[n] EXCEPT ![m] = NoKid] \in Ties
  BY <1>3 DEF Ties
<1>5. ties' \in [Node -> Ties]
  BY <1>1, <1>4 DEF Types
<1>6. kid' \in [Kid -> KidDirs] /\ todo' \in [Node -> SUBSET Member]
  BY <1>1 DEF Types, KidDirs
<1> QED
  BY <1>2, <1>5, <1>6 DEF Types

\* Types are kept by moving the group to tied.
LEMMA TieGroupTypes ==
  ASSUME Types, NEW n \in Node, TieGroup(n) PROVE Types'
BY GroupAssumption DEF TieGroup, Types, Goto, Ties, Untied, GroupDirs, KidDirs, walkVars

\* Types are kept by truncating the group's file.
LEMMA TruncateTypes ==
  ASSUME Types, NEW n \in Node, Truncate(n) PROVE Types'
BY GroupAssumption DEF Truncate, Types, Goto, Ties, Untied, GroupDirs, KidDirs, walkVars

\* Types are kept by writing the ties.
LEMMA WriteTypes ==
  ASSUME Types, NEW n \in Node, Write(n) PROVE Types'
BY GroupAssumption DEF Write, Types, Goto, Ties, Untied, GroupDirs, KidDirs, walkVars

\* Types are kept by loading a group for a walk.
LEMMA LoadTypes ==
  ASSUME Types, NEW n \in Node, Load(n) PROVE Types'
BY GroupAssumption DEF Load, Types, Goto, Ties, Untied, GroupDirs, KidDirs, walkVars

\* Types are kept by walking one directory of the children.
LEMMA WalkTypes ==
  ASSUME Types, NEW n \in Node, Walk(n) PROVE Types'
BY GroupAssumption DEF Walk, Types, Goto, Ties, Untied, GroupDirs, KidDirs, walkVars

\* Types are kept by concluding a walk.
LEMMA ConcludeTypes ==
  ASSUME Types, NEW n \in Node, Conclude(n) PROVE Types'
<1>1. /\ entry' \in [GroupDirs -> Ties \cup {Torn, NoFile}]
      /\ entry'["pend"] = entry["pend"]
  BY DEF Conclude, Types, GroupDirs
<1>2. open' \in [Node -> {"tied", "done"}]
  BY DEF Conclude, Types, GroupDirs
<1>3. seen' = [p \in Node |-> seen'[p]]
  BY DEF Conclude, Types
<1> QED
  BY <1>1, <1>2, <1>3 DEF Conclude, Types, Goto

\* Types are kept by a death.
LEMMA CrashTypes ==
  ASSUME Types, NEW n \in Node, Crash(n) PROVE Types'
<1>1. crashes' \in Nat /\ crashes' <= MaxCrashes
  BY GroupAssumption DEF Crash, Types
<1>2. todo' \in [Node -> SUBSET Member] /\ seen' = [p \in Node |-> seen'[p]]
  BY DEF Crash, Types
<1>3. lock' \in Node \cup {Nobody}
  BY DEF Crash, Types
<1> QED
  BY <1>1, <1>2, <1>3 DEF Crash, Types, Goto

\* Types are kept by a move of a child.
LEMMA MovesTypes ==
  ASSUME Types, NEW k \in Kid, KidMoves(k) PROVE Types'
BY GroupAssumption DEF KidMoves, KidStarts, KidRetries, KidEnds, KidPurged, Moves, Types,
  KidDirs, walkVars

-----------------------------------------------------------------------------
(* What never changes back *)

\* A child that was made stays the child of its member, and done or gone.
KidsKept ==
  \A k \in Kid : kid[k] # "none" =>
    /\ of'[k] = of[k] /\ kid'[k] # "none"
    /\ kid[k] \in {"done", "gone"} => kid'[k] \in {"done", "gone"}

\* A step that leaves the children alone keeps them.
LEMMA NoKidsChange ==
  ASSUME UNCHANGED <<kid, of>> PROVE KidsKept
BY DEF KidsKept

\* Making a child keeps those made before.
LEMMA MakeKidKeepsKids ==
  ASSUME Types, NEW n \in Node, MakeKid(n) PROVE KidsKept
BY DEF MakeKid, KidsKept, Types

\* Releasing a child only moves it on.
LEMMA ReleaseKidKeepsKids ==
  ASSUME Types, NEW n \in Node, ReleaseKid(n) PROVE KidsKept
BY DEF ReleaseKid, KidsKept, Types

\* A child that moves stays made, and a finished one finished.
LEMMA MovesKeepKids ==
  ASSUME Types, NEW k \in Kid, KidMoves(k) PROVE KidsKept
BY DEF KidMoves, KidStarts, KidRetries, KidEnds, KidPurged, Moves, KidsKept, Types

\* A text that ties members to children that were made still does.
LEMMA MadeKept ==
  ASSUME KidsKept
  PROVE  \A t : Made(t) =>
           /\ t \in Ties
           /\ \A m \in Member : t[m] # NoKid => of'[t[m]] = m /\ kid'[t[m]] # "none"
BY DEF KidsKept, Made, Ties

\* A member served stays served.
LEMMA ServedKept ==
  ASSUME KidsKept, Served PROVE Served'
BY DEF KidsKept, Served

\* A walk that does not go on is disturbed by nobody, as long as the group's file
\* does not get back to pend, nor into somebody's hand.
LEMMA WalkKept ==
  ASSUME KidsKept, NEW p \in Node, WalkOf(p), UNCHANGED <<pc[p], seen[p]>>,
         entry["pend"] = NoFile /\ (\A q \in Node : ~Stores(q)) =>
           entry'["pend"] = NoFile /\ \A q \in Node : ~Stores(q)'
  PROVE  WalkOf(p)'
BY DEF KidsKept, WalkOf, Asked

-----------------------------------------------------------------------------
(* Each step keeps files, hands and walks *)

\* The directories of groups are distinct.
LEMMA DirNames ==
  /\ {"tied", "done", "pend"} = GroupDirs
  /\ NoKid \notin Kid /\ Nobody \notin Node /\ Member # {}
BY GroupAssumption DEF GroupDirs

\* No text with ties is torn, or no file.
LEMMA TiesWhole ==
  ASSUME NEW t \in Ties PROVE t # NoFile /\ t # Torn /\ Ids(t) = {t[m] : m \in Member}
<1>1. t # Torn
  <2>1. DOMAIN t = Member
    BY DEF Ties
  <2>2. DOMAIN Torn = {}
    BY DEF Torn
  <2> QED
    BY <2>1, <2>2, GroupAssumption
<1> QED
  BY <1>1, GroupAssumption DEF Ids

\* A text without ties ties nobody to a child that was not made.
LEMMA UntiedMade == Made(Untied) /\ NoKid \in Ids(Untied)
<1>1. Untied \in Ties
  BY DEF Untied, Ties
<1>2. PICK m \in Member : TRUE
  BY GroupAssumption
<1> QED
  BY <1>1, <1>2, TiesWhole DEF Made, Untied

Inner == Files /\ Hands /\ Walks

\* Files, hands and walks are kept by taking the pending group, and its lock.
LEMMA LockKeeps ==
  ASSUME Types, Inner, NEW n \in Node, Lock(n) PROVE Inner'
<1> USE DirNames DEF Inner, Lock, Goto, walkVars
<1>1. Files'
  BY DEF Files, Pending, Tied, Done, Stores, Splits, Types
<1>2. Hands'
  BY UntiedMade DEF Hands, Files, Pending, Tied, Done, Stores, Splits, Types, Made
<1>3. Walks'
  BY DEF Walks, WalkOf, Asked, Stores, Types
<1> QED
  BY <1>1, <1>2, <1>3

\* Files, hands and walks are kept by making a child, or failing to.
LEMMA MakeKidKeeps ==
  ASSUME Types, Inner, NEW n \in Node, MakeKid(n) PROVE Inner'
<1> USE DirNames DEF Inner
<1>0. KidsKept
  BY MakeKidKeepsKids
<1>1. UNCHANGED <<entry, lock, open, seen>> /\ Splits(n) /\ Splits(n)'
      /\ \A p \in Node \ {n} : pc'[p] = pc[p] /\ ties'[p] = ties[p]
  BY DEF MakeKid, Goto, Splits, walkVars, Types
<1>2. Files'
  BY <1>1 DEF Files, Pending, Tied, Done, Stores, Splits
<1>3. Made(ties[n])
  BY <1>1 DEF Hands
<1>4. Made(ties[n])'
  <2>1. CASE UNCHANGED <<kid, of, ties>>
    BY <1>3, <2>1 DEF Made
  <2>2. ASSUME NEW m \in todo[n], NEW k \in Kid, kid[k] = "none",
               of' = [of EXCEPT ![k] = m], kid' = [kid EXCEPT ![k] = "hold"],
               ties' = [ties EXCEPT ![n][m] = k]
        PROVE  Made(ties[n])'
    <3>1. ties'[n] = [ties[n] EXCEPT ![m] = k] /\ ties[n] \in Ties /\ m \in Member
      BY <2>2 DEF Types
    <3>2. ties'[n] \in Ties
      BY <3>1 DEF Ties
    <3>3. ASSUME NEW o \in Member, ties'[n][o] # NoKid
          PROVE  of'[ties'[n][o]] = o /\ kid'[ties'[n][o]] # "none"
      <4>1. CASE o = m
        BY <2>2, <3>1, <4>1 DEF Types, Ties
      <4>2. CASE o # m
        BY <1>0, <1>3, <3>1, <3>3, <4>2, MadeKept DEF Ties
      <4> QED
        BY <4>1, <4>2
    <3> QED
      BY <3>2, <3>3 DEF Made
  <2> QED
    BY <2>1, <2>2 DEF MakeKid
<1>5. Hands'
  <2>1. ASSUME NEW p \in Node, (Splits(p) \/ Stores(p))' PROVE Made(ties[p])'
    <3>1. CASE p = n
      BY <1>4, <3>1
    <3>2. CASE p # n
      <4>1. Made(ties[p]) /\ ties'[p] = ties[p]
        BY <1>1, <2>1, <3>2 DEF Hands, Splits, Stores
      <4> QED
        BY <4>1, <1>0, MadeKept DEF Made
    <3> QED
      BY <3>1, <3>2
  <2> QED
    BY <2>1, <1>1 DEF Hands, Splits, Stores
<1>6. Walks'
  <2> SUFFICES ASSUME NEW p \in Node PROVE WalkOf(p)'
    BY DEF Walks
  <2>1. CASE p = n
    BY <2>1, <1>1 DEF WalkOf, Splits
  <2>2. CASE p # n
    BY <2>2, <1>0, <1>1, WalkKept DEF Walks, Splits, Stores
  <2> QED
    BY <2>1, <2>2
<1> QED
  BY <1>2, <1>5, <1>6

\* Files, hands and walks are kept by releasing a child.
LEMMA ReleaseKidKeeps ==
  ASSUME Types, Inner, NEW n \in Node, ReleaseKid(n) PROVE Inner'
<1> USE DirNames DEF Inner
<1>0. KidsKept
  BY ReleaseKidKeepsKids
<1>1. UNCHANGED <<entry, lock, open, seen>> /\ Splits(n) /\ Splits(n)'
      /\ \A p \in Node \ {n} : pc'[p] = pc[p] /\ ties'[p] = ties[p]
  BY DEF ReleaseKid, Goto, Splits, walkVars, Types
<1>2. Files'
  BY <1>1 DEF Files, Pending, Tied, Done, Stores, Splits
<1>3. Made(ties[n])
  BY <1>1 DEF Hands
<1>4. Made(ties[n])'
  <2>1. CASE UNCHANGED ties
    BY <1>0, <1>3, <2>1, MadeKept DEF Made
  <2>2. ASSUME NEW m \in todo[n], ties' = [ties EXCEPT ![n][m] = NoKid]
        PROVE  Made(ties[n])'
    <3>1. ties'[n] = [ties[n] EXCEPT ![m] = NoKid] /\ ties[n] \in Ties /\ m \in Member
      BY <2>2 DEF Types
    <3>2. ties'[n] \in Ties
      BY <3>1 DEF Ties
    <3>3. \A o \in Member : ties'[n][o] # NoKid => ties'[n][o] = ties[n][o]
      BY <3>1 DEF Ties
    <3> QED
      BY <1>0, <1>3, <3>2, <3>3, MadeKept DEF Made
  <2> QED
    BY <2>1, <2>2 DEF ReleaseKid
<1>5. Hands'
  <2>1. ASSUME NEW p \in Node, (Splits(p) \/ Stores(p))' PROVE Made(ties[p])'
    <3>1. CASE p = n
      BY <1>4, <3>1
    <3>2. CASE p # n
      <4>1. Made(ties[p]) /\ ties'[p] = ties[p]
        BY <1>1, <2>1, <3>2 DEF Hands, Splits, Stores
      <4> QED
        BY <4>1, <1>0, MadeKept DEF Made
    <3> QED
      BY <3>1, <3>2
  <2> QED
    BY <2>1, <1>1 DEF Hands, Splits, Stores
<1>6. Walks'
  <2> SUFFICES ASSUME NEW p \in Node PROVE WalkOf(p)'
    BY DEF Walks
  <2>1. CASE p = n
    BY <2>1, <1>1 DEF WalkOf, Splits
  <2>2. CASE p # n
    BY <2>2, <1>0, <1>1, WalkKept DEF Walks, Splits, Stores
  <2> QED
    BY <2>1, <2>2
<1> QED
  BY <1>2, <1>5, <1>6

\* Files, hands and walks are kept by moving the group to tied.
LEMMA TieGroupKeeps ==
  ASSUME Types, Inner, NEW n \in Node, TieGroup(n) PROVE Inner'
<1> USE DirNames DEF Inner, TieGroup, Goto, walkVars
<1>1. Pending /\ lock = n
  BY DEF Files, Tied, Done, Splits, Hands
<1>2. entry'["pend"] = NoFile /\ entry'["tied"] = Untied /\ entry'["done"] = NoFile
  BY <1>1 DEF Pending, Types
<1>3. Files'
  BY <1>1, <1>2, UntiedMade, TiesWhole
  DEF Files, Pending, Tied, Done, Stores, Splits, Types, Made, Hands
<1>4. Hands'
  BY <1>1, <1>2 DEF Hands, Pending, Stores, Splits, Types, Made
<1>5. Walks'
  BY <1>1, TiesWhole, UntiedMade DEF Walks, WalkOf, Asked, Types, Pending, Made
<1> QED
  BY <1>3, <1>4, <1>5

\* Files, hands and walks are kept by truncating the group's file.
LEMMA TruncateKeeps ==
  ASSUME Types, Inner, NEW n \in Node, Truncate(n) PROVE Inner'
<1> USE DirNames DEF Inner, Truncate, Goto, walkVars
<1>1. Tied
  BY DEF Files, Pending, Done, Stores
<1>2. entry'["pend"] = NoFile /\ entry'["tied"] = Torn /\ entry'["done"] = NoFile
  BY <1>1 DEF Tied, Types
<1>3. Files'
  BY <1>1, <1>2, GroupAssumption DEF Files, Tied, Stores, Splits, Types
<1>4. Hands'
  BY <1>1 DEF Hands, Tied, Stores, Splits, Types, Made
<1>5. Walks'
  BY DEF Walks, WalkOf, Asked, Types, Stores
<1> QED
  BY <1>3, <1>4, <1>5

\* Files, hands and walks are kept by writing the ties.
LEMMA WriteKeeps ==
  ASSUME Types, Inner, NEW n \in Node, Write(n) PROVE Inner'
<1> USE DirNames DEF Inner, Write, Goto, walkVars
<1>1. Tied /\ open[n] = "tied" /\ Made(ties[n])
  BY DEF Files, Pending, Done, Stores, Hands
<1>2. entry'["pend"] = NoFile /\ entry'["tied"] = ties[n] /\ entry'["done"] = NoFile
  BY <1>1 DEF Tied, Types
<1>3. Files'
  BY <1>1, <1>2, TiesWhole DEF Files, Tied, Stores, Splits, Types, Made
<1>4. Hands'
  BY <1>1 DEF Hands, Tied, Stores, Splits, Types, Made
<1>5. Walks'
  BY DEF Walks, WalkOf, Asked, Types, Stores
<1> QED
  BY <1>3, <1>4, <1>5

\* Files, hands and walks are kept by loading a group for a walk.
LEMMA LoadKeeps ==
  ASSUME Types, Inner, WholeStores, NEW n \in Node, Load(n) PROVE Inner'
<1> USE DirNames DEF Inner, Load, Goto, walkVars
<1>1. Tied /\ Made(entry["tied"])
  BY DEF Files, Pending, Done, Storing, Tied
<1>2. Files'
  BY <1>1 DEF Files, Tied, Stores, Splits, Types, Made
<1>3. Hands'
  BY <1>1 DEF Hands, Tied, Stores, Splits, Types, Made
<1>4. ASSUME NEW p \in Node, p # n PROVE WalkOf(p)'
  BY <1>4 DEF Walks, WalkOf, Asked, Types, Stores
<1>5. WalkOf(n)'
  <2>1. Asked(n)' = Ids(entry["tied"]) /\ \A k \in Asked(n)' : seen'[n][k] = "unk"
    BY DEF Asked, Wanted, Types
  <2>2. Ids(entry["tied"]) = {entry["tied"][m] : m \in Member}
    BY <1>1, TiesWhole DEF Made
  <2>3. CASE NoKid \in Ids(entry["tied"])
    BY <2>1, <2>3 DEF WalkOf
  <2>4. CASE NoKid \notin Ids(entry["tied"])
    <3>1. \A p \in Node : pc[p] # "trunc" /\ pc[p] # "write"
      BY <2>4, UntiedMade DEF Hands, Storing
    <3>2. \A m \in Member : \E k \in Asked(n)' \cap Kid : of[k] = m /\ kid[k] # "none"
      BY <1>1, <2>1, <2>2, <2>4 DEF Made, Ties
    <3>3. \A p \in Node : ~Stores(p)'
      BY <3>1 DEF Stores, Types
    <3> QED
      BY <1>1, <2>1, <3>2, <3>3 DEF WalkOf, Tied
  <2> QED
    BY <2>3, <2>4
<1> QED
  BY <1>2, <1>3, <1>4, <1>5 DEF Walks

\* Files, hands and walks are kept by walking one directory of the children.
LEMMA WalkKeeps ==
  ASSUME Types, Inner, NEW n \in Node, Walk(n) PROVE Inner'
<1> USE DirNames DEF Inner, Walk
<1>1. Files' /\ Hands'
  BY DEF Files, Pending, Tied, Done, Served, Hands, Stores, Splits, Made
<1>2. Asked(n)' = Asked(n) /\ \A k \in Asked(n) :
        seen'[n][k] = "done" => seen[n][k] = "done" \/ (k \in Kid /\ kid[k] = "done")
  BY DEF Asked, Found, Types
<1>3. WalkOf(n)'
  BY <1>2 DEF Walks, WalkOf, Stores
<1>4. ASSUME NEW p \in Node, p # n PROVE WalkOf(p)'
  BY <1>4 DEF Walks, WalkOf, Asked, Stores, Types
<1> QED
  BY <1>1, <1>3, <1>4 DEF Walks

\* Files, hands and walks are kept by concluding a walk.
LEMMA ConcludeKeeps ==
  ASSUME Types, Inner, NEW n \in Node, Conclude(n) PROVE Inner'
<1> USE DirNames DEF Inner
<1>0. UNCHANGED <<lock, kid, of, ties, todo>> /\ pc[n] = "walk" /\ pc' = [pc EXCEPT ![n] = "idle"]
      /\ \A p \in Node \ {n} : seen'[p] = seen[p]
  BY DEF Conclude, Goto, Types
<1>1. CASE UNCHANGED <<entry, open>>
  <2>1. Files' /\ Hands'
    BY <1>0, <1>1 DEF Files, Pending, Tied, Done, Served, Hands, Stores, Splits, Made, Types
  <2>2. Walks'
    BY <1>0, <1>1 DEF Walks, WalkOf, Asked, Stores, Types
  <2> QED
    BY <2>1, <2>2
<1>2. CASE AllDone(n) /\ entry["tied"] # NoFile
           /\ entry' = [entry EXCEPT !["tied"] = NoFile, !["done"] = entry["tied"]]
  <2>1. Tied
    BY <1>2 DEF Files, Pending, Done
  <2>2. /\ \A k \in Asked(n) : k \in Kid /\ kid[k] \in {"done", "gone"}
        /\ \A p \in Node : ~Stores(p)
        /\ \A m \in Member : \E k \in Asked(n) \cap Kid : of[k] = m /\ kid[k] # "none"
    BY <1>0, <1>2 DEF Walks, WalkOf, AllDone
  <2>3. Served
    BY <2>2 DEF Served
  <2>4. entry'["pend"] = NoFile /\ entry'["tied"] = NoFile /\ entry'["done"] # NoFile
    BY <1>2, <2>1 DEF Tied, Types
  <2>5. Files'
    BY <1>0, <2>1, <2>2, <2>3, <2>4 DEF Files, Done, Served, Tied, Stores, Splits, Types
  <2>6. Hands'
    BY <1>0, <2>1, <2>2 DEF Hands, Tied, Stores, Splits, Types
  <2>7. Walks'
    BY <1>0, <2>2, <2>4 DEF Walks, WalkOf, Asked, Stores, Types
  <2> QED
    BY <2>5, <2>6, <2>7
<1> QED
  BY <1>1, <1>2 DEF Conclude

\* Files, hands and walks are kept by a death.
LEMMA CrashKeeps ==
  ASSUME Types, Inner, WholeStores, NEW n \in Node, Crash(n) PROVE Inner'
<1> USE DirNames DEF Inner
<1>0. /\ UNCHANGED <<entry, kid, of, ties, open>>
      /\ pc[n] # "write" /\ pc' = [pc EXCEPT ![n] = "idle"]
      /\ lock' = IF lock = n THEN Nobody ELSE lock
      /\ \A p \in Node \ {n} : seen'[p] = seen[p]
  BY DEF Crash, Goto, Types
<1>1. Files'
  BY <1>0 DEF Files, Pending, Tied, Done, Served, Stores, Splits, Made, Types
<1>2. Hands'
  BY <1>0 DEF Hands, Stores, Splits, Made, Types
<1>3. Walks'
  BY <1>0 DEF Walks, WalkOf, Asked, Stores, Types
<1> QED
  BY <1>1, <1>2, <1>3

\* Files, hands and walks are kept by a move of a child.
LEMMA MovesKeep ==
  ASSUME Types, Inner, NEW k \in Kid, KidMoves(k) PROVE Inner'
<1> USE DirNames DEF Inner
<1>0. KidsKept
  BY MovesKeepKids
<1>1. UNCHANGED <<entry, lock, of, pc, ties, todo, open, seen>>
  BY DEF KidMoves, KidStarts, KidRetries, KidEnds, KidPurged, Moves, walkVars
<1>2. Files'
  BY <1>0, <1>1, MadeKept, ServedKept DEF Files, Pending, Tied, Done, Stores, Splits, Made
<1>3. Hands'
  BY <1>0, <1>1, MadeKept DEF Hands, Stores, Splits, Made
<1>4. Walks'
  BY <1>0, <1>1, WalkKept DEF Walks, Stores
<1> QED
  BY <1>2, <1>3, <1>4

-----------------------------------------------------------------------------
(* All steps together *)

\* The invariant holds of a group not yet split.
LEMMA GInvInit == Init => GInv
<1> SUFFICES ASSUME Init PROVE GInv
  OBVIOUS
<1>1. Types
  BY TypesInit
<1>2. Untied # NoFile
  BY UntiedMade, TiesWhole DEF Made
<1>3. Files
  BY <1>2 DEF Init, GroupDirs, Files, Pending, Stores
<1>4. Hands /\ Walks
  BY DEF Init, Hands, Walks, WalkOf, Splits, Stores
<1> QED
  BY <1>1, <1>3, <1>4 DEF GInv

\* Every step keeps the invariant.
LEMMA GInvNext == GInv /\ [Next]_vars => GInv'
<1> SUFFICES ASSUME GInv, [Next]_vars PROVE GInv'
  OBVIOUS
<1>1. Types
  BY DEF GInv
<1>2. WholeStores => Inner
  BY DEF GInv, Inner
<1>3. Types' /\ (WholeStores => Inner')
  <2>1. CASE UNCHANGED vars
    BY <1>1, <1>2, <2>1 DEF vars, walkVars, Types, Inner, Files, Pending, Tied, Done, Served,
      Hands, Walks, WalkOf, Asked, Splits, Stores, Made
  <2>2. ASSUME NEW n \in Node, Lock(n) PROVE Types' /\ (WholeStores => Inner')
    BY <1>1, <1>2, <2>2, LockTypes, LockKeeps
  <2>3. ASSUME NEW n \in Node, MakeKid(n) PROVE Types' /\ (WholeStores => Inner')
    BY <1>1, <1>2, <2>3, MakeKidTypes, MakeKidKeeps
  <2>4. ASSUME NEW n \in Node, ReleaseKid(n) PROVE Types' /\ (WholeStores => Inner')
    BY <1>1, <1>2, <2>4, ReleaseKidTypes, ReleaseKidKeeps
  <2>5. ASSUME NEW n \in Node, TieGroup(n) PROVE Types' /\ (WholeStores => Inner')
    BY <1>1, <1>2, <2>5, TieGroupTypes, TieGroupKeeps
  <2>6. ASSUME NEW n \in Node, Truncate(n) PROVE Types' /\ (WholeStores => Inner')
    BY <1>1, <1>2, <2>6, TruncateTypes, TruncateKeeps
  <2>7. ASSUME NEW n \in Node, Write(n) PROVE Types' /\ (WholeStores => Inner')
    BY <1>1, <1>2, <2>7, WriteTypes, WriteKeeps
  <2>8. ASSUME NEW n \in Node, Load(n) PROVE Types' /\ (WholeStores => Inner')
    BY <1>1, <1>2, <2>8, LoadTypes, LoadKeeps
  <2>9. ASSUME NEW n \in Node, Walk(n) PROVE Types' /\ (WholeStores => Inner')
    BY <1>1, <1>2, <2>9, WalkTypes, WalkKeeps
  <2>10. ASSUME NEW n \in Node, Conclude(n) PROVE Types' /\ (WholeStores => Inner')
    BY <1>1, <1>2, <2>10, ConcludeTypes, ConcludeKeeps
  <2>11. ASSUME NEW n \in Node, Crash(n) PROVE Types' /\ (WholeStores => Inner')
    BY <1>1, <1>2, <2>11, CrashTypes, CrashKeeps
  <2>12. ASSUME NEW k \in Kid, KidMoves(k) PROVE Types' /\ (WholeStores => Inner')
    BY <1>1, <1>2, <2>12, MovesTypes, MovesKeep
  <2> QED
    BY <2>1, <2>2, <2>3, <2>4, <2>5, <2>6, <2>7, <2>8, <2>9, <2>10, <2>11, <2>12
       DEF Next, Break, Hug
<1> QED
  BY <1>3 DEF GInv, Inner

\* The invariant holds of every behaviour.
LEMMA GInvAlways == Spec => []GInv
BY GInvInit, GInvNext, PTL DEF Spec

\* A group that is done was done for each of its members, for any number of
\* nodes, members and child jobs, whoever dies between which steps, and whatever
\* children fail to be made or are purged: as long as nobody looks at its file
\* while it is being written.
THEOREM MembersServedSafe ==
  ASSUME WholeStores
  PROVE  Spec => []MembersServed
<1>1. GInv => MembersServed
  BY DEF GInv, Files, Pending, Tied, Done, Served, MembersServed
<1> QED
  BY <1>1, GInvAlways, PTL

\* Under the same condition a group job has one file, in one state, all its life.
THEOREM OneGroupFileSafe ==
  ASSUME WholeStores
  PROVE  Spec => []OneGroupFile
<1>1. GInv => OneGroupFile
  <2> SUFFICES ASSUME GInv PROVE OneGroupFile
    OBVIOUS
  <2>1. PICK s \in GroupDirs : \A r \in GroupDirs : entry[r] # NoFile <=> r = s
    <3>1. Untied # NoFile
      BY UntiedMade, TiesWhole DEF Made
    <3> QED
      BY <3>1 DEF GInv, Files, Pending, Tied, Done, GroupDirs
  <2>2. {r \in GroupDirs : entry[r] # NoFile} = {s}
    BY <2>1
  <2> QED
    BY <2>2, FS_Singleton DEF OneGroupFile
<1> QED
  BY <1>1, GInvAlways, PTL

-----------------------------------------------------------------------------
(* Without deaths in the middle of a task: each step keeps the children known *)

\* The children stay known over taking the pending group, and its lock.
LEMMA LockKnows ==
  ASSUME Types, Inner, Known, NEW n \in Node, Lock(n) PROVE Known'
<1> USE DirNames DEF Lock, Goto, walkVars
<1>1. Pending /\ (\A k \in Kid : ~Alive(k)) /\ (\A p \in Node : ~Splits(p))
  BY DEF Inner, Files, Tied, Done, Known, KidsKnown, Hands
<1>2. KidsKnown'
  BY <1>1 DEF Pending, KidsKnown, Alive, Accounted, Splits, Stores, Types
<1>3. NoneYet'
  <2>1. ties'[n] = Untied
    BY <1>1 DEF Types, Pending
  <2> QED
    BY <2>1 DEF Known, NoneYet, Types, Untied
<1>4. AllAsked'
  BY <1>1 DEF AllAsked, Alive
<1> QED
  BY <1>2, <1>3, <1>4 DEF Known

\* The children stay known over making a child, or failing to.
LEMMA MakeKidKnows ==
  ASSUME Types, Inner, Known, NEW n \in Node, MakeKid(n) PROVE Known'
<1> USE DirNames
<1>1. /\ UNCHANGED <<entry, lock, seen>> /\ pc[n] = "split"
      /\ \A p \in Node \ {n} : pc'[p] = pc[p] /\ ties'[p] = ties[p] /\ todo'[p] = todo[p]
  BY DEF MakeKid, Goto, walkVars, Types
<1>2. Pending /\ lock = n /\ (\A p \in Node \ {n} : ~Splits(p))
  BY <1>1 DEF Inner, Files, Tied, Done, Hands, Splits
<1>3. Accounted(ties[n]) /\ \A m \in todo[n] : ties[n][m] = NoKid
  BY <1>1 DEF Known, KidsKnown, NoneYet, Splits
<1>4. AllAsked'
  <2>1. ASSUME NEW p \in Node, pc'[p] = "walk" PROVE NoKid \in Asked(p)'
    <3>1. p # n
      BY <1>1, <2>1 DEF MakeKid, Goto, Types
    <3>2. WalkOf(p) /\ pc[p] = "walk"
      BY <1>1, <2>1, <3>1 DEF Inner, Walks
    <3>3. Untied # NoFile
      BY UntiedMade, TiesWhole DEF Made
    <3> QED
      BY <1>1, <1>2, <3>2, <3>3 DEF WalkOf, Asked, Pending
  <2> QED
    BY <2>1 DEF AllAsked
<1>5. CASE pc' = pc /\ UNCHANGED <<kid, of, ties>> /\ \E m \in todo[n] : todo'[n] = todo[n] \ {m}
  <2>1. KidsKnown'
    BY <1>1, <1>2, <1>5 DEF Known, KidsKnown, Alive, Accounted, Splits, Stores
  <2>2. NoneYet'
    BY <1>1, <1>5 DEF Known, NoneYet
  <2> QED
    BY <1>4, <2>1, <2>2 DEF Known
<1>6. ASSUME NEW m \in todo[n], NEW k \in Kid, kid[k] = "none",
             of' = [of EXCEPT ![k] = m], kid' = [kid EXCEPT ![k] = "hold"],
             ties' = [ties EXCEPT ![n][m] = k], pc' = [pc EXCEPT ![n] = "held"],
             todo' = todo
      PROVE  Known'
  <2>1. m \in Member /\ todo[n] \subseteq Member /\ ties[n] \in Ties
        /\ ties'[n] = [ties[n] EXCEPT ![m] = k] /\ pc'[n] = "held"
    BY <1>6 DEF Types
  <2>2. \A o \in Member : ties'[n][o] = IF o = m THEN k ELSE ties[n][o]
    BY <2>1 DEF Ties
  <2>3. ASSUME NEW j \in Kid, Alive(j)' PROVE of'[j] \in Member /\ ties'[n][of'[j]] = j
    <3>1. CASE j = k
      BY <1>6, <2>1, <2>2, <3>1 DEF Types
    <3>2. CASE j # k
      <4>1. of'[j] = of[j] /\ Alive(j)
        BY <1>6, <2>3, <3>2 DEF Types, Alive
      <4>2. of[j] \in Member /\ ties[n][of[j]] = j
        BY <1>3, <4>1 DEF Accounted
      <4> QED
        BY <1>3, <2>2, <4>1, <4>2
    <3> QED
      BY <3>1, <3>2
  <2>4. KidsKnown'
    <3>1. \A p \in Node : Splits(p)' \/ Stores(p)' => p = n
      BY <1>1, <1>2 DEF Splits, Stores, Pending
    <3>2. Splits(n)'
      BY <2>1 DEF Splits
    <3>3. Untied # NoFile
      BY UntiedMade, TiesWhole DEF Made
    <3> QED
      BY <1>1, <1>2, <2>3, <3>1, <3>2, <3>3 DEF KidsKnown, Accounted, Pending
  <2>5. NoneYet'
    BY <1>1, <1>2, <1>3, <1>6, <2>1, <2>2 DEF Known, NoneYet
  <2> QED
    BY <1>4, <2>4, <2>5 DEF Known
<1> QED
  BY <1>5, <1>6 DEF MakeKid, Goto, Types

\* The children stay known over releasing a child.
LEMMA ReleaseKidKnows ==
  ASSUME Types, Inner, Known, NEW n \in Node, ReleaseKid(n) PROVE Known'
<1> USE DirNames
<1>1. /\ UNCHANGED <<entry, lock, of, seen>> /\ pc[n] = "held" /\ pc'[n] = "split"
      /\ \A p \in Node \ {n} : pc'[p] = pc[p] /\ ties'[p] = ties[p] /\ todo'[p] = todo[p]
  BY DEF ReleaseKid, Goto, walkVars, Types
<1>2. Pending /\ lock = n /\ (\A p \in Node \ {n} : ~Splits(p))
  BY <1>1 DEF Inner, Files, Tied, Done, Hands, Splits
<1>3. Accounted(ties[n])
  BY <1>1 DEF Known, KidsKnown, Splits
<1>4. PICK m \in todo[n] :
        /\ ties[n][m] \in Kid /\ kid[ties[n][m]] = "hold"
        /\ todo' = [todo EXCEPT ![n] = @ \ {m}]
        /\ \/ kid' = [kid EXCEPT ![ties[n][m]] = "pend"] /\ UNCHANGED ties
           \/ /\ kid' = [kid EXCEPT ![ties[n][m]] = "gone"]
              /\ ties' = [ties EXCEPT ![n][m] = NoKid]
  BY DEF ReleaseKid
<1>5. m \in Member /\ todo[n] \subseteq Member /\ ties[n] \in Ties /\ todo'[n] = todo[n] \ {m}
  BY <1>4 DEF Types
<1>6. \A o \in Member : o # m => ties'[n][o] = ties[n][o]
  BY <1>4, <1>5 DEF Types, Ties
<1>7. ASSUME NEW j \in Kid, Alive(j)' PROVE of[j] \in Member /\ ties'[n][of[j]] = j
  <2>1. Alive(j)
    BY <1>4, <1>7 DEF Alive, Types
  <2>2. of[j] \in Member /\ ties[n][of[j]] = j
    BY <1>3, <2>1 DEF Accounted
  <2>3. CASE of[j] = m /\ kid' = [kid EXCEPT ![ties[n][m]] = "gone"]
    BY <1>4, <1>7, <2>2, <2>3 DEF Alive, Types
  <2> QED
    BY <1>4, <1>6, <2>2, <2>3
<1>8. KidsKnown'
  <2>1. \A p \in Node : Splits(p)' \/ Stores(p)' => p = n
    BY <1>1, <1>2 DEF Splits, Stores, Pending
  <2>2. Splits(n)'
    BY <1>1 DEF Splits
  <2>3. Untied # NoFile
    BY UntiedMade, TiesWhole DEF Made
  <2> QED
    BY <1>1, <1>2, <1>7, <2>1, <2>2, <2>3 DEF KidsKnown, Accounted, Pending
<1>9. NoneYet'
  <2>1. \A o \in todo[n] : ties[n][o] # NoKid => o = m
    BY <1>1, <1>4 DEF Known, NoneYet
  <2> QED
    BY <1>1, <1>2, <1>5, <1>6, <2>1 DEF NoneYet, Known
<1>10. AllAsked'
  <2>1. ASSUME NEW p \in Node, pc'[p] = "walk" PROVE NoKid \in Asked(p)'
    <3>1. WalkOf(p) /\ pc[p] = "walk"
      BY <1>1, <2>1 DEF Inner, Walks
    <3>2. Untied # NoFile
      BY UntiedMade, TiesWhole DEF Made
    <3> QED
      BY <1>1, <1>2, <3>1, <3>2 DEF WalkOf, Asked, Pending
  <2> QED
    BY <2>1 DEF AllAsked
<1> QED
  BY <1>8, <1>9, <1>10 DEF Known

\* The children stay known over moving the group to tied.
LEMMA TieGroupKnows ==
  ASSUME Types, Inner, Known, NEW n \in Node, TieGroup(n) PROVE Known'
<1> USE DirNames DEF TieGroup, Goto, walkVars
<1>1. Pending /\ lock = n /\ (\A p \in Node \ {n} : ~Splits(p))
  BY DEF Inner, Files, Tied, Done, Hands, Splits
<1>2. entry'["pend"] = NoFile /\ entry'["done"] = NoFile /\ Stores(n)'
  BY <1>1 DEF Pending, Types, Stores
<1>3. KidsKnown'
  BY <1>1, <1>2 DEF Known, KidsKnown, Alive, Accounted, Splits, Stores, Types, Pending
<1>4. NoneYet' /\ AllAsked'
  BY DEF Known, NoneYet, AllAsked, Asked, Alive, Types
<1> QED
  BY <1>3, <1>4 DEF Known

\* The children stay known over truncating the group's file.
LEMMA TruncateKnows ==
  ASSUME Types, Inner, Known, NEW n \in Node, Truncate(n) PROVE Known'
<1> USE DirNames DEF Truncate, Goto, walkVars
<1>1. Tied /\ Stores(n) /\ Stores(n)'
  BY DEF Inner, Files, Pending, Done, Stores, Types
<1>2. entry'["pend"] = NoFile /\ entry'["done"] = NoFile
  BY <1>1 DEF Tied, Types
<1>3. KidsKnown'
  BY <1>1, <1>2 DEF Known, KidsKnown, Alive, Accounted, Splits, Stores, Types, Tied
<1>4. NoneYet' /\ AllAsked'
  BY DEF Known, NoneYet, AllAsked, Asked, Alive, Types
<1> QED
  BY <1>3, <1>4 DEF Known

\* The children stay known over writing the ties.
LEMMA WriteKnows ==
  ASSUME Types, Inner, Known, NEW n \in Node, Write(n) PROVE Known'
<1> USE DirNames DEF Write, Goto, walkVars
<1>1. Tied /\ Stores(n) /\ open[n] = "tied"
  BY DEF Inner, Files, Pending, Done, Stores, Hands
<1>2. entry'["pend"] = NoFile /\ entry'["done"] = NoFile /\ entry'["tied"] = ties[n]
  BY <1>1 DEF Tied, Types
<1>3. Accounted(ties[n])
  BY <1>1 DEF Known, KidsKnown
<1>4. KidsKnown'
  BY <1>1, <1>2, <1>3 DEF Known, KidsKnown, Alive, Accounted, Splits, Stores, Types, Tied
<1>5. NoneYet' /\ AllAsked'
  BY DEF Known, NoneYet, AllAsked, Asked, Alive, Types
<1> QED
  BY <1>4, <1>5 DEF Known

\* The children stay known over loading a group for a walk.
LEMMA LoadKnows ==
  ASSUME Types, Inner, Known, WholeStores, NEW n \in Node, Load(n) PROVE Known'
<1> USE DirNames DEF Load, Goto, walkVars
<1>1. Tied /\ Made(entry["tied"])
  BY DEF Inner, Files, Pending, Done, Storing, Tied
<1>2. KidsKnown'
  BY <1>1 DEF Known, KidsKnown, Alive, Accounted, Splits, Stores, Types, Tied
<1>3. NoneYet'
  BY DEF Known, NoneYet, Types
<1>4. AllAsked'
  <2>1. Asked(n)' = Ids(entry["tied"])
    BY DEF Asked, Wanted, Types
  <2>2. Ids(entry["tied"]) = {entry["tied"][m] : m \in Member}
    BY <1>1, TiesWhole DEF Made
  <2>3. ASSUME NoKid \notin Asked(n)', NEW k \in Kid, Alive(k) PROVE k \in Asked(n)'
    <3>1. \A p \in Node : ~Stores(p)
      BY <2>1, <2>3, UntiedMade DEF Inner, Hands, Storing, Stores
    <3>2. Accounted(entry["tied"])
      BY <1>1, <3>1 DEF Tied, Known, KidsKnown
    <3> QED
      BY <2>1, <2>2, <2>3, <3>2 DEF Accounted
  <2> QED
    BY <2>3 DEF Known, AllAsked, Asked, Alive, Types
<1> QED
  BY <1>2, <1>3, <1>4 DEF Known

\* The children stay known over walking one directory of the children.
LEMMA WalkKnows ==
  ASSUME Types, Inner, Known, NEW n \in Node, Walk(n) PROVE Known'
<1> USE DirNames DEF Walk
<1>1. Asked(n)' = Asked(n)
  BY DEF Asked, Types
<1>2. KidsKnown' /\ NoneYet'
  BY DEF Known, KidsKnown, NoneYet, Alive, Accounted, Splits, Stores
<1>3. AllAsked'
  BY <1>1 DEF Known, AllAsked, Asked, Alive, Types
<1> QED
  BY <1>2, <1>3 DEF Known

\* The children stay known over concluding a walk.
LEMMA ConcludeKnows ==
  ASSUME Types, Inner, Known, NEW n \in Node, Conclude(n) PROVE Known'
<1> USE DirNames
<1>0. UNCHANGED <<lock, kid, of, ties, todo>> /\ pc[n] = "walk" /\ pc' = [pc EXCEPT ![n] = "idle"]
      /\ \A p \in Node \ {n} : seen'[p] = seen[p]
  BY DEF Conclude, Goto, Types
<1>1. NoneYet' /\ AllAsked'
  BY <1>0 DEF Known, NoneYet, AllAsked, Asked, Alive, Types
<1>2. CASE UNCHANGED <<entry, open>>
  <2>1. KidsKnown'
    BY <1>0, <1>2 DEF Known, KidsKnown, Alive, Accounted, Splits, Stores, Types
  <2> QED
    BY <1>1, <2>1 DEF Known
<1>3. CASE AllDone(n) /\ entry["tied"] # NoFile
           /\ entry' = [entry EXCEPT !["tied"] = NoFile, !["done"] = entry["tied"]]
  <2>1. Tied
    BY <1>3 DEF Inner, Files, Pending, Done
  <2>2. /\ \A k \in Asked(n) : k \in Kid /\ kid[k] \in {"done", "gone"}
        /\ \A p \in Node : ~Stores(p)
    BY <1>0, <1>3 DEF Inner, Walks, WalkOf, AllDone
  <2>3. \A k \in Kid : kid[k] \in {"none", "done", "gone"}
    BY <1>0, <2>2 DEF Known, AllAsked, Alive
  <2>4. Accounted(entry["tied"])
    BY <2>1, <2>2 DEF Tied, Known, KidsKnown
  <2>5. entry'["pend"] = NoFile /\ entry'["tied"] = NoFile /\ entry'["done"] = entry["tied"]
    BY <1>3, <2>1 DEF Tied, Types
  <2>6. lock = Nobody
    BY <2>1 DEF Tied, Known, KidsKnown, Types
  <2>7. KidsKnown'
    BY <1>0, <2>1, <2>2, <2>3, <2>4, <2>5, <2>6
       DEF KidsKnown, Accounted, Alive, Tied, Splits, Stores, Types
  <2> QED
    BY <1>1, <2>7 DEF Known
<1> QED
  BY <1>2, <1>3 DEF Conclude

\* The children stay known over a move of a child.
LEMMA MovesKnow ==
  ASSUME Types, Known, NEW k \in Kid, KidMoves(k) PROVE Known'
<1>1. UNCHANGED <<entry, lock, of, pc, ties, todo, open, seen>>
      /\ \A j \in Kid : Alive(j)' => Alive(j)
  BY DEF KidMoves, KidStarts, KidRetries, KidEnds, KidPurged, Moves, walkVars, Alive, Types
<1>2. (\A j \in Kid : kid[j] \in {"none", "done", "gone"})
        => \A j \in Kid : kid'[j] \in {"none", "done", "gone"}
  BY DEF KidMoves, KidStarts, KidRetries, KidEnds, KidPurged, Moves, Types
<1>3. KidsKnown'
  BY <1>1, <1>2 DEF Known, KidsKnown, Accounted, Splits, Stores
<1>4. NoneYet' /\ AllAsked'
  BY <1>1 DEF Known, NoneYet, AllAsked, Asked
<1> QED
  BY <1>3, <1>4 DEF Known

\* The children stay known when a manager dies that is not splitting the group.
LEMMA EndKnows ==
  ASSUME Types, Known, NEW n \in Node, pc[n] \in {"idle", "walk"}, Crash(n) PROVE Known'
<1>1. lock # n
  BY GroupAssumption DEF Known, KidsKnown, Splits, Types
<1>2. UNCHANGED <<entry, lock, kid, of, ties>> /\ pc'[n] = "idle"
      /\ \A p \in Node \ {n} : pc'[p] = pc[p] /\ todo'[p] = todo[p] /\ seen'[p] = seen[p]
  BY <1>1 DEF Crash, Goto, Types
<1>3. /\ \A p \in Node : Splits(p)' = Splits(p) /\ Stores(p)' = Stores(p)
      /\ \A t : Accounted(t)' = Accounted(t)
  BY <1>2 DEF Splits, Stores, Accounted, Alive
<1>4. KidsKnown'
  <2>1. lock # Nobody => lock \in Node
    BY DEF Types
  <2> QED
    BY <1>2, <1>3, <2>1 DEF Known, KidsKnown, Alive
<1>5. NoneYet' /\ AllAsked'
  BY <1>2 DEF Known, NoneYet, AllAsked, Asked, Alive
<1> QED
  BY <1>4, <1>5 DEF Known

\* A group not yet split has no children to know.
LEMMA CInvInit == Init => CInv
<1> SUFFICES ASSUME Init PROVE Known
  BY DEF CInv
<1> QED
  BY DirNames DEF Init, Known, KidsKnown, NoneYet, AllAsked, Alive, Accounted, Splits, Stores

\* Without deaths in the split every step keeps the children known.
LEMMA CInvNext == GInv /\ CInv /\ [Next]_vars => CInv'
<1> SUFFICES ASSUME GInv, CInv, [Next]_vars, Orderly PROVE Known'
  BY DEF CInv
<1>1. Types /\ Inner /\ Known
  BY DEF GInv, CInv, Inner, Orderly
<1>2. CASE UNCHANGED vars
  BY <1>1, <1>2 DEF vars, walkVars, Known, KidsKnown, NoneYet, AllAsked, Asked, Alive,
    Accounted, Splits, Stores
<1>3. ASSUME NEW n \in Node, Lock(n) \/ Break(n) PROVE Known'
  BY <1>1, <1>3, LockKnows, MakeKidKnows, ReleaseKidKnows, TieGroupKnows, TruncateKnows,
     WriteKnows DEF Break
<1>4. ASSUME NEW n \in Node, Load(n) \/ Hug(n) PROVE Known'
  BY <1>1, <1>4, LoadKnows, WalkKnows, ConcludeKnows DEF Hug, Orderly
<1>5. ASSUME NEW n \in Node, Crash(n) PROVE Known'
  <2>1. pc[n] \in {"idle", "walk"}
    BY <1>1, <1>5, GroupAssumption DEF Crash, Types, Orderly
  <2> QED
    BY <1>1, <1>5, <2>1, EndKnows
<1>6. ASSUME NEW k \in Kid, KidMoves(k) PROVE Known'
  BY <1>1, <1>6, MovesKnow
<1> QED
  BY <1>2, <1>3, <1>4, <1>5, <1>6 DEF Next

\* Without deaths in the split the children are known in every behaviour.
LEMMA CInvAlways == Spec => []CInv
BY CInvInit, CInvNext, GInvAlways, PTL DEF Spec

\* A group is done after all its children, however they move while they are
\* looked for, and whichever managers die while they look (a death between making
\* them and storing the ties would leave a group with children it knows nothing of).
THEOREM GroupDoneLastSafe ==
  ASSUME Orderly
  PROVE  Spec => []GroupDoneLast
<1>1. CInv => GroupDoneLast
  BY DEF CInv, Known, KidsKnown, GroupDoneLast
<1> QED
  BY <1>1, CInvAlways, PTL

\* No member gets two children, whichever managers want to split the group and
\* whichever die, but for the one that is splitting it.
THEOREM OneKidEachSafe ==
  ASSUME Orderly
  PROVE  Spec => []OneKidEach
<1>1. GInv /\ CInv => OneKidEach
  <2> SUFFICES ASSUME Types, Inner, Known, NEW j \in Kid, NEW k \in Kid,
                      of[j] = of[k], Alive(j), Alive(k)
               PROVE  j = k
    BY DEF GInv, CInv, Inner, Orderly, OneKidEach, Alive
  <2>1. CASE \E n \in Node : Splits(n) \/ Stores(n)
    BY <2>1 DEF Known, KidsKnown, Accounted
  <2>2. CASE ~\E n \in Node : Splits(n) \/ Stores(n)
    <3>1. entry["pend"] # NoFile => lock = Nobody
      BY <2>2 DEF Known, KidsKnown, Types
    <3>2. entry["tied"] # NoFile \/ entry["done"] # NoFile
      <4>1. Untied # NoFile
        BY UntiedMade, TiesWhole DEF Made
      <4> QED
        BY <3>1, <4>1 DEF Inner, Files, Pending, Tied, Done, Known, KidsKnown
    <3> QED
      BY <2>2, <3>2 DEF Known, KidsKnown, Accounted
  <2> QED
    BY <2>1, <2>2
<1> QED
  BY <1>1, GInvAlways, CInvAlways, PTL
=============================================================================
