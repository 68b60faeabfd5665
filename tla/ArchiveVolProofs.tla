-------------------------- MODULE ArchiveVolProofs --------------------------
(***************************************************************************)
(* What a volume of an archive keeps, whatever its procedures do beside    *)
(* each other and wherever the daemon is stopped or dies.                  *)
(*                                                                         *)
(* The queries of DiffManager are recursive functions.  What they return   *)
(* is proved with least counterexamples: a set of naturals that is not     *)
(* empty has a least element.                                              *)
(***************************************************************************)
EXTENDS ArchiveVol, FiniteSetTheorems, WellFoundedInduction, TLAPS

B(d) == d.snapB.gidB
E(d) == d.snapE.gidB

\* Every diff there ever is: what was written between two gids, as of the second.
LogDiff(b, e, m) ==
    [snapB |-> Snap(b, b), snapE |-> Snap(e, e), isMergeable |-> m, isCompDiff |-> FALSE,
     data |-> [c \in WrittenIn(b, e) |-> Truth(e)[c]]]

LogDiffs ==
    {d \in {LogDiff(b, e, m) : b \in 0 .. MaxGid, e \in 0 .. MaxGid, m \in BOOLEAN} : B(d) < E(d)}

\* Where the first i diffs of v lead to from gid g.
At(g, v, i) == IF i = 0 THEN g ELSE E(v[i])

\* Each diff of v can be applied where those before it lead to.
Chain(g, v) == \A i \in 1 .. Len(v) : B(v[i]) <= At(g, v, i - 1) /\ At(g, v, i - 1) < E(v[i])

\* Every block of the image is as it was at some gid of lo .. hi.
Between(image, lo, hi) == \A b \in Blocks : \E t \in lo .. hi : image[b] = Truth(t)[b]

\* How far the blocks of an image with this label may be.
Reach(st) == IF st.isApplying THEN Larger(st.snapB.gidE, st.snapE.gidB) ELSE st.snapB.gidE

\* What is known of the label of a base image.
Labelled(st) ==
    /\ st \in MetaState /\ st.snapB.gidB \in 0 .. MaxGid /\ st.snapB.gidE \in 0 .. MaxGid
    /\ st.isApplying => st.snapE.gidB \in 0 .. MaxGid

-----------------------------------------------------------------------------
(* The inductive invariant. *)

\* The records of the procedures.
ApplyRec   == [pc : {"idle", "list", "write", "remove", "unlink"}, gid : 0 .. MaxGid,
               list : Seq(LogDiffs), todo : SUBSET (Blocks \cup LogDiffs)]
MergeRec   == [pc : {"idle", "save", "add", "erase", "unlink"}, list : Seq(LogDiffs), todo : SUBSET LogDiffs]
RecvRec    == [pc : {"idle", "save", "add"}, diff : SUBSET LogDiffs, latest : MetaSnap]
RestoreRec == [pc : {"idle", "label", "snapshot", "apply"}, gid : 0 .. MaxGid,
               st : MetaState, image : Image, spoilt : BOOLEAN]

LabelInv ==
    /\ metaSt \in MetaState /\ base \in Image
    /\ latest \in MetaSnap /\ latest.gidB \in 0 .. MaxGid /\ latest.gidE \in 0 .. MaxGid
    /\ acked \in 0 .. MaxGid /\ acked <= latest.gidB
    /\ overtaken \in BOOLEAN
    /\ metaSt.snapB.gidB <= latest.gidB /\ metaSt.snapB.gidE <= latest.gidE
    /\ metaSt.isApplying => metaSt.snapB.gidB < metaSt.snapE.gidB /\ metaSt.snapE.gidB <= latest.gidB

\* Nothing is missing between the base image and the latest snapshot.
Covered(ds, g) == \E d \in ds : B(d) <= g /\ g < E(d)

DiffsInv ==
    /\ files \subseteq LogDiffs /\ mgr \subseteq files
    /\ \A d \in mgr : E(d) <= latest.gidB
    /\ \A g \in 0 .. MaxGid : metaSt.snapB.gidB <= g /\ g < latest.gidB => Covered(mgr, g)

KeptInv == kept \subseteq 1 .. MaxGid /\ \A g \in kept : Keeps(files, g)

\* Files that are unlinked are registered no more.
Unlinked(ds) == \A d \in ds : d \in LogDiffs /\ d \notin mgr /\ E(d) <= latest.gidB

ApplyInv ==
    /\ ap \in ApplyRec
    /\ ap.pc # "idle" => mg.pc = "idle"
    /\ ap.pc = "write" =>
        /\ metaSt.isApplying
        /\ ap.list # <<>> /\ Chain(metaSt.snapB.gidB, ap.list)
        /\ metaSt.snapE.gidB = E(ap.list[Len(ap.list)])
        /\ ap.todo \subseteq DOMAIN MergedData(ap.list)
        /\ \A b \in DOMAIN MergedData(ap.list) \ ap.todo : base[b] = Truth(metaSt.snapE.gidB)[b]
    /\ ap.pc = "unlink" => Unlinked(ap.todo)

\* The merged diff stands for those it is made of.
MergeInv ==
    /\ mg \in MergeRec
    /\ mg.pc \in {"save", "add", "erase"} =>
        /\ MergeAll(mg.list) \in LogDiffs /\ E(MergeAll(mg.list)) <= latest.gidB
        /\ \A i \in 1 .. Len(mg.list) :
            /\ contains(MergeAll(mg.list), mg.list[i])
            /\ ~SameRange(MergeAll(mg.list), mg.list[i])
        /\ \A g \in kept : Keeps({MergeAll(mg.list)}, g)
    /\ mg.pc \in {"save", "add"} => CanAdd(MergeAll(mg.list))
    /\ mg.pc = "add" => MergeAll(mg.list) \in files
    /\ mg.pc = "erase" => MergeAll(mg.list) \in mgr
    /\ mg.pc = "unlink" => Unlinked(mg.todo)

RecvInv ==
    /\ rv \in RecvRec
    /\ rv.pc # "idle" =>
        /\ rv.latest = latest
        /\ \E d \in LogDiffs : rv.diff = {d} /\ B(d) <= latest.gidB /\ latest.gidB < E(d)
    /\ rv.pc = "add" => rv.diff \subseteq files

\* The blocks of an image that is being restored are no newer than it is to be
\* in the end, or than its label tells.
RestoreInv ==
    /\ rs \in RestoreRec /\ Labelled(rs.st)
    /\ rs.pc # "idle" => rs.gid \in 1 .. MaxGid
    /\ rs.pc = "apply" /\ ~rs.spoilt /\ ~overtaken =>
        \/ Between(rs.image, rs.st.snapB.gidB, Reach(rs.st))
        \/ ~rs.st.isApplying /\ rs.st.snapB.gidE <= rs.gid /\ Between(rs.image, rs.st.snapB.gidB, rs.gid)

BaseInv == ~overtaken => Between(base, metaSt.snapB.gidB, Reach(metaSt))

RestoredInv ==
    /\ restored \in [DOMAIN restored -> [image : Image, spoilt : BOOLEAN]]
    /\ DOMAIN restored \subseteq 1 .. MaxGid
    /\ RestoredExact

IInv == /\ LabelInv /\ DiffsInv /\ KeptInv /\ ApplyInv /\ MergeInv /\ RecvInv
        /\ RestoreInv /\ BaseInv /\ RestoredInv

-----------------------------------------------------------------------------
(* Numbers. *)

\* The order of the naturals as a well-founded relation.
LEMMA NatOrder ==
    \E R : IsWellFoundedOn(R, Nat) /\ \A x, y \in Nat : <<x, y>> \in R <=> x < y
<1>1. \A x, y \in Nat : <<x, y>> \in OpToRel(<, Nat) <=> x < y
  BY DEF OpToRel
<1> QED BY <1>1, NatLessThanWellFounded, Zenon

\* A set of naturals that is not empty has a least element.
LEMMA LeastNat ==
    ASSUME NEW S, S \subseteq Nat, S # {}
    PROVE  \E m \in S : \A x \in S : m <= x
<1>1. PICK R : IsWellFoundedOn(R, Nat) /\ \A x, y \in Nat : <<x, y>> \in R <=> x < y
  BY NatOrder
<1>2. IsWellFoundedOn(R, Nat)
  BY <1>1
<1>3. PICK m \in S : \A x \in S : ~(<<x, m>> \in R)
  BY <1>2, WFMin
<1>4. ASSUME NEW x \in S
      PROVE  m <= x
  <2>1. ~(x < m)
    BY <1>1, <1>3
  <2> QED BY <2>1
<1> QED BY <1>4

\* Induction up to N, for membership of a set.
LEMMA UpTo ==
    ASSUME NEW N \in Nat, NEW S, 0 \in S, \A n \in 1 .. N : n - 1 \in S => n \in S
    PROVE  \A n \in 0 .. N : n \in S
<1> SUFFICES ASSUME NEW k \in 0 .. N, k \notin S PROVE FALSE
  OBVIOUS
<1> DEFINE Bad == {n \in 0 .. N : n \notin S}
<1>1. Bad \subseteq Nat /\ Bad # {}
  OBVIOUS
<1>2. PICK m \in Bad : \A x \in Bad : m <= x
  <2> HIDE DEF Bad
  <2> QED BY <1>1, LeastNat
<1>3. m \in 1 .. N /\ m - 1 \in 0 .. N
  BY <1>2
<1>4. m - 1 \in S
  BY <1>2, <1>3
<1> QED BY <1>2, <1>3, <1>4

-----------------------------------------------------------------------------
(* The log. *)

LEMMA LogType ==
    /\ MaxGid \in Nat /\ Explicit \subseteq 1 .. MaxGid
    /\ \A g \in 1 .. MaxGid : Written[g] \subseteq Blocks
  BY AVAssumption

\* What is written between two gids is written in one of the steps between them.
LEMMA WrittenInDef ==
    \A b, e : \A c : c \in WrittenIn(b, e) <=> \E g \in b + 1 .. e : c \in Written[g]
  BY DEF WrittenIn

LEMMA WrittenInType ==
    ASSUME NEW b \in 0 .. MaxGid, NEW e \in 0 .. MaxGid
    PROVE  WrittenIn(b, e) \subseteq Blocks
<1> SUFFICES ASSUME NEW c \in WrittenIn(b, e) PROVE c \in Blocks
  OBVIOUS
<1>1. PICK g \in b + 1 .. e : c \in Written[g]
  BY WrittenInDef
<1>2. g \in 1 .. MaxGid
  BY LogType
<1> QED BY <1>1, <1>2, LogType

\* A longer piece of the log writes more.
LEMMA WrittenInGrows ==
    ASSUME NEW b \in Nat, NEW e \in Nat, NEW b1 \in Nat, NEW e1 \in Nat, b <= b1, e1 <= e
    PROVE  WrittenIn(b1, e1) \subseteq WrittenIn(b, e)
<1> SUFFICES ASSUME NEW c \in WrittenIn(b1, e1) PROVE c \in WrittenIn(b, e)
  OBVIOUS
<1>1. PICK g \in b1 + 1 .. e1 : c \in Written[g]
  BY WrittenInDef
<1>2. g \in b + 1 .. e
  OBVIOUS
<1> QED BY <1>1, <1>2, WrittenInDef

\* Two pieces without a gap make one.
LEMMA WrittenInJoins ==
    ASSUME NEW b \in Nat, NEW e \in Nat, NEW b1 \in Nat, NEW e1 \in Nat, b <= b1, b1 <= e, e <= e1
    PROVE  WrittenIn(b, e) \cup WrittenIn(b1, e1) = WrittenIn(b, e1)
<1>1. ASSUME NEW c \in WrittenIn(b, e1), c \notin WrittenIn(b1, e1)
      PROVE  c \in WrittenIn(b, e)
  <2>1. PICK g \in b + 1 .. e1 : c \in Written[g]
    BY WrittenInDef
  <2>2. ~(g \in b1 + 1 .. e1)
    BY <1>1, <2>1, WrittenInDef
  <2>3. g \in b + 1 .. e
    BY <2>2
  <2> QED BY <2>1, <2>3, WrittenInDef
<1> QED BY <1>1, WrittenInGrows

\* A block that is not written keeps its content.
LEMMA TruthKept ==
    ASSUME NEW s \in 0 .. MaxGid, NEW t \in 0 .. MaxGid, s <= t, NEW b \in Blocks, b \notin WrittenIn(s, t)
    PROVE  Truth(s)[b] = Truth(t)[b]
<1> DEFINE W(u) == {g \in 1 .. u : b \in Written[g]}
<1>1. ASSUME NEW g \in 1 .. t, b \in Written[g]
      PROVE  g \in 1 .. s
  <2>1. ~(g \in s + 1 .. t)
    BY <1>1, WrittenInDef
  <2> QED BY <2>1, LogType
<1>2. W(s) = W(t)
  BY <1>1, LogType
<1>3. \A u : Truth(u)[b] = IF W(u) = {} THEN 0 ELSE CHOOSE g \in W(u) : \A h \in W(u) : h <= g
  BY DEF Truth
<1> HIDE DEF W
<1> QED BY <1>2, <1>3

\* A set of naturals with a bound that is not empty has a greatest element.
LEMMA GreatestNat ==
    ASSUME NEW N \in Nat, NEW S, S \subseteq 0 .. N, S # {}
    PROVE  \E m \in S : \A x \in S : x <= m
<1> DEFINE D == {N - x : x \in S}
<1>1. \A x \in S : x \in Nat /\ N - x \in Nat
  OBVIOUS
<1>2. D \subseteq Nat /\ D # {}
  BY <1>1
<1>3. PICK d \in D : \A e \in D : d <= e
  <2> HIDE DEF D
  <2> QED BY <1>2, LeastNat
<1>4. PICK m \in S : d = N - m
  OBVIOUS
<1>5. ASSUME NEW x \in S
      PROVE  x <= m
  <2>1. d <= N - x
    BY <1>3
  <2> QED BY <2>1, <1>1, <1>4
<1> QED BY <1>5

\* The volume at a gid is an image.
LEMMA TruthType ==
    ASSUME NEW t \in 0 .. MaxGid
    PROVE  Truth(t) \in Image /\ \A b \in Blocks : Truth(t)[b] \in 0 .. MaxGid
<1>1. ASSUME NEW b \in Blocks
      PROVE  Truth(t)[b] \in 0 .. MaxGid
  <2> DEFINE W == {g \in 1 .. t : b \in Written[g]}
  <2>1. W \subseteq 0 .. MaxGid
    BY LogType
  <2>2. Truth(t)[b] = IF W = {} THEN 0 ELSE CHOOSE g \in W : \A h \in W : h <= g
    BY DEF Truth
  <2> HIDE DEF W
  <2>3. CASE W = {}
    BY <2>2, <2>3, LogType
  <2>4. CASE W # {}
    <3>1. \E g \in W : \A h \in W : h <= g
      BY <2>1, <2>4, LogType, GreatestNat
    <3> QED BY <2>1, <2>2, <2>4, <3>1
  <2> QED BY <2>3, <2>4
<1>2. Truth(t) = [b \in Blocks |-> Truth(t)[b]]
  BY DEF Truth
<1>3. [b \in Blocks |-> Truth(t)[b]] \in Image
  <2> DEFINE f(b) == Truth(t)[b]
  <2>1. \A b \in Blocks : f(b) \in 0 .. MaxGid
    BY <1>1
  <2> HIDE DEF f
  <2>2. [b \in Blocks |-> f(b)] \in [Blocks -> 0 .. MaxGid]
    BY <2>1
  <2> QED BY <2>2 DEF f, Image
<1> QED BY <1>1, <1>2, <1>3, Zenon

-----------------------------------------------------------------------------
(* Diffs. *)

\* The parts of a diff.
LEMMA DiffFacts ==
    ASSUME NEW d \in LogDiffs
    PROVE  /\ B(d) \in 0 .. MaxGid /\ E(d) \in 0 .. MaxGid /\ B(d) \in Nat /\ E(d) \in Nat /\ B(d) < E(d)
           /\ d.snapB = Snap(B(d), B(d)) /\ d.snapE = Snap(E(d), E(d))
           /\ d.isMergeable \in BOOLEAN /\ d.isCompDiff = FALSE
           /\ DOMAIN d.data = WrittenIn(B(d), E(d))
           /\ \A c \in WrittenIn(B(d), E(d)) : d.data[c] = Truth(E(d))[c]
           /\ d.data = [c \in WrittenIn(B(d), E(d)) |-> Truth(E(d))[c]]
           /\ d = LogDiff(B(d), E(d), d.isMergeable)
<1>1. PICK b \in 0 .. MaxGid, e \in 0 .. MaxGid, m \in BOOLEAN : d = LogDiff(b, e, m)
  BY DEF LogDiffs
<1>2. B(d) = b /\ E(d) = e /\ d.isMergeable = m
  BY <1>1 DEF LogDiff, B, E, Snap
<1>3. B(d) < E(d)
  BY DEF LogDiffs
<1>4. d = LogDiff(B(d), E(d), d.isMergeable)
  BY <1>1, <1>2
<1>5. /\ B(d) \in 0 .. MaxGid /\ E(d) \in 0 .. MaxGid /\ B(d) \in Nat /\ E(d) \in Nat
      /\ d.isMergeable \in BOOLEAN
  BY <1>2, LogType
<1>6. /\ d.snapB = Snap(B(d), B(d)) /\ d.snapE = Snap(E(d), E(d)) /\ d.isCompDiff = FALSE
      /\ d.data = [c \in WrittenIn(B(d), E(d)) |-> Truth(E(d))[c]]
  <2> DEFINE x == B(d) y == E(d) z == d.isMergeable
  <2>1. d = LogDiff(x, y, z)
    BY <1>4
  <2> HIDE DEF x, y, z
  <2>2. /\ d.snapB = Snap(x, x) /\ d.snapE = Snap(y, y) /\ d.isCompDiff = FALSE
        /\ d.data = [c \in WrittenIn(x, y) |-> Truth(y)[c]]
    BY <2>1 DEF LogDiff
  <2> QED BY <2>2 DEF x, y
<1> QED BY <1>3, <1>4, <1>5, <1>6

LEMMA LogDiffIn ==
    ASSUME NEW b \in 0 .. MaxGid, NEW e \in 0 .. MaxGid, b < e, NEW m \in BOOLEAN
    PROVE  /\ LogDiff(b, e, m) \in LogDiffs
           /\ B(LogDiff(b, e, m)) = b /\ E(LogDiff(b, e, m)) = e /\ LogDiff(b, e, m).isMergeable = m
<1>1. B(LogDiff(b, e, m)) = b /\ E(LogDiff(b, e, m)) = e /\ LogDiff(b, e, m).isMergeable = m
  BY DEF LogDiff, B, E, Snap
<1> QED BY <1>1 DEF LogDiffs

\* What a proxy sends is such a diff.
LEMMA WlogDiffIn ==
    ASSUME NEW b \in 0 .. MaxGid, NEW e \in 0 .. MaxGid, b < e
    PROVE  /\ WlogDiff(b, e) \in LogDiffs /\ B(WlogDiff(b, e)) = b /\ E(WlogDiff(b, e)) = e
           /\ WlogDiff(b, e).isMergeable = (b \notin Explicit)
<1>1. WlogDiff(b, e) = LogDiff(b, e, b \notin Explicit)
  BY DEF WlogDiff, LogDiff
<1>2. PICK m \in BOOLEAN : m = (b \notin Explicit)
  OBVIOUS
<1>3. WlogDiff(b, e) = LogDiff(b, e, m)
  BY <1>1, <1>2
<1>4. /\ LogDiff(b, e, m) \in LogDiffs /\ B(LogDiff(b, e, m)) = b /\ E(LogDiff(b, e, m)) = e
      /\ LogDiff(b, e, m).isMergeable = m
  BY LogDiffIn
<1> QED BY <1>2, <1>3, <1>4

\* Two diffs without a gap, merged.
LEMMA MergeFacts ==
    ASSUME NEW d0 \in LogDiffs, NEW d1 \in LogDiffs, canMerge(d0, d1)
    PROVE  /\ merge(d0, d1) \in LogDiffs
           /\ B(merge(d0, d1)) = B(d0) /\ E(merge(d0, d1)) = E(d1)
           /\ merge(d0, d1).isMergeable = d0.isMergeable
           /\ B(d0) <= B(d1) /\ B(d1) <= E(d0) /\ E(d0) < E(d1) /\ d1.isMergeable
<1> DEFINE b0 == B(d0) e0 == E(d0) b1 == B(d1) e1 == E(d1)
<1>1. b0 <= b1 /\ b1 <= e0 /\ e0 < e1 /\ d1.isMergeable
  BY DEF canMerge, B, E
<1>2. /\ b0 \in 0 .. MaxGid /\ e0 \in 0 .. MaxGid /\ b1 \in 0 .. MaxGid /\ e1 \in 0 .. MaxGid
      /\ b0 \in Nat /\ b1 \in Nat /\ e0 \in Nat /\ e1 \in Nat
  BY DiffFacts
<1>3. d0.snapB = Snap(b0, b0) /\ d0.snapE = Snap(e0, e0) /\ d1.snapB = Snap(b1, b1) /\ d1.snapE = Snap(e1, e1)
  BY DiffFacts
<1>4. IsCleanDiff(d1)
  BY <1>3 DEF IsCleanDiff, IsClean, Snap
<1>5. Snap(d1.snapE.gidB, Larger(d1.snapE.gidB, d0.snapE.gidE)) = Snap(e1, e1)
  BY <1>1, <1>2, <1>3 DEF Larger, Snap
<1>6. MergeData(d0.data, d1.data) = [c \in WrittenIn(b0, e1) |-> Truth(e1)[c]]
  <2>1. DOMAIN d0.data = WrittenIn(b0, e0) /\ DOMAIN d1.data = WrittenIn(b1, e1)
    BY DiffFacts
  <2>2. WrittenIn(b0, e0) \cup WrittenIn(b1, e1) = WrittenIn(b0, e1)
    BY <1>1, <1>2, WrittenInJoins
  <2>3. ASSUME NEW c \in WrittenIn(b0, e1)
        PROVE  (IF c \in DOMAIN d1.data THEN d1.data[c] ELSE d0.data[c]) = Truth(e1)[c]
    <3>1. CASE c \in WrittenIn(b1, e1)
      BY <2>1, <3>1, DiffFacts
    <3>2. CASE c \notin WrittenIn(b1, e1)
      <4>1. c \in WrittenIn(b0, e0) /\ c \in Blocks
        BY <1>2, <2>2, <3>2, WrittenInType
      <4>2. c \notin WrittenIn(e0, e1)
        BY <1>1, <1>2, <3>2, WrittenInGrows
      <4>3. Truth(e0)[c] = Truth(e1)[c]
        BY <1>1, <1>2, <4>1, <4>2, TruthKept
      <4>4. d0.data[c] = Truth(e0)[c]
        BY <4>1, DiffFacts
      <4> QED BY <2>1, <3>2, <4>3, <4>4
    <3> QED BY <3>1, <3>2
  <2> HIDE DEF b0, e0, b1, e1
  <2> QED BY <2>1, <2>2, <2>3 DEF MergeData
<1>7. merge(d0, d1) = LogDiff(b0, e1, d0.isMergeable)
  BY <1>3, <1>4, <1>5, <1>6 DEF merge, LogDiff
<1>8. d0.isMergeable \in BOOLEAN
  BY DiffFacts
<1> QED BY <1>1, <1>2, <1>7, <1>8, LogDiffIn

\* A diff leads to where it ends.
LEMMA ApplyFacts ==
    ASSUME NEW s \in MetaSnap, NEW d \in LogDiffs
    PROVE  /\ apply(s, d) = Snap(E(d), Larger(E(d), s.gidE))
           /\ apply(s, d).gidB = E(d) /\ apply(s, d).gidE = Larger(E(d), s.gidE)
           /\ apply(s, d) \in MetaSnap
           /\ canApply(s, d) <=> B(d) <= s.gidB /\ s.gidB < E(d)
<1>1. d.snapB = Snap(B(d), B(d)) /\ d.snapE = Snap(E(d), E(d)) /\ E(d) \in Nat
  BY DiffFacts
<1>2. IsCleanDiff(d)
  BY <1>1 DEF IsCleanDiff, IsClean, Snap
<1>3. apply(s, d) = Snap(E(d), Larger(E(d), s.gidE))
  BY <1>1, <1>2 DEF apply, Snap
<1>4. Larger(E(d), s.gidE) \in Nat /\ E(d) <= Larger(E(d), s.gidE)
  BY <1>1 DEF Larger, MetaSnap
<1> QED BY <1>1, <1>3, <1>4 DEF Snap, MetaSnap, canApply, B, E

-----------------------------------------------------------------------------
(* Lists of diffs.  The queries that run over a list are described by what *)
(* they return for its first n diffs.                                      *)

Pre(v, n) == SubSeq(v, 1, n)

LEMMA PreFacts ==
    ASSUME NEW S, NEW v \in Seq(S), NEW n \in 0 .. Len(v)
    PROVE  /\ Pre(v, n) \in Seq(S) /\ Len(Pre(v, n)) = n /\ n \in Nat
           /\ \A k \in 1 .. n : Pre(v, n)[k] = v[k]
           /\ n = Len(v) => Pre(v, n) = v
           /\ \A m \in 0 .. n : Pre(Pre(v, n), m) = Pre(v, m)
<1>1. Pre(v, n) \in Seq(S) /\ Len(Pre(v, n)) = n /\ n \in Nat /\ \A k \in 1 .. n : Pre(v, n)[k] = v[k]
  BY DEF Pre
<1>2. n = Len(v) => Pre(v, n) = v
  BY DEF Pre
<1>3. ASSUME NEW m \in 0 .. n
      PROVE  Pre(Pre(v, n), m) = Pre(v, m)
  BY <1>1 DEF Pre
<1> QED BY <1>1, <1>2, <1>3

ApplySteps(snap, v) ==
    CHOOSE f : f = [n \in 0 .. Len(v) |-> IF n = 0 THEN snap ELSE apply(f[n - 1], v[n])]

LEMMA ApplyStepsDef ==
    ASSUME NEW snap, NEW S, NEW v \in Seq(S)
    PROVE  LET f == ApplySteps(snap, v)
           IN  /\ f[0] = snap
               /\ \A n \in 1 .. Len(v) : f[n] = apply(f[n - 1], v[n])
               /\ ApplyAll(snap, v) = f[Len(v)]
<1> DEFINE Is(f, N) == f = [n \in 0 .. N |-> IF n = 0 THEN snap ELSE apply(f[n - 1], v[n])]
           Ok == {N \in 0 .. Len(v) : \E f : Is(f, N)}
<1>1. 0 \in Ok
  <2> DEFINE g == [n \in 0 .. 0 |-> snap]
  <2>1. Is(g, 0)
    OBVIOUS
  <2>2. 0 \in 0 .. Len(v)
    OBVIOUS
  <2> HIDE DEF g
  <2> QED BY <2>1, <2>2
<1>2. ASSUME NEW N \in 1 .. Len(v), N - 1 \in Ok
      PROVE  N \in Ok
  <2>1. PICK f : Is(f, N - 1)
    BY <1>2
  <2> DEFINE g == [n \in 0 .. N |-> IF n < N THEN f[n] ELSE apply(f[N - 1], v[N])]
  <2>2. ASSUME NEW n \in 0 .. N
        PROVE  g[n] = IF n = 0 THEN snap ELSE apply(g[n - 1], v[n])
    <3>1. CASE n = N
      BY <3>1
    <3>2. CASE n < N
      <4>1. n \in 0 .. N - 1
        BY <3>2
      <4>2. f[n] = IF n = 0 THEN snap ELSE apply(f[n - 1], v[n])
        BY <2>1, <4>1
      <4>3. n # 0 => g[n - 1] = f[n - 1]
        BY <4>1
      <4> QED BY <3>2, <4>2, <4>3
    <3> QED BY <3>1, <3>2
  <2>3. DOMAIN g = 0 .. N /\ g = [n \in 0 .. N |-> g[n]]
    OBVIOUS
  <2> HIDE DEF g
  <2>4. Is(g, N)
    BY <2>2, <2>3
  <2> QED BY <2>4
<1>3. Len(v) \in Ok
  <2> HIDE DEF Ok
  <2>1. Len(v) \in Nat
    OBVIOUS
  <2>2. \A n \in 0 .. Len(v) : n \in Ok
    BY <1>1, <1>2, <2>1, UpTo
  <2> QED BY <2>1, <2>2
<1>4. Is(ApplySteps(snap, v), Len(v))
  BY <1>3 DEF ApplySteps
<1>5. ApplyAll(snap, v) = ApplySteps(snap, v)[Len(v)]
  BY DEF ApplyAll, ApplySteps
<1> HIDE DEF Ok
<1> QED BY <1>4, <1>5

\* The snapshot the first n diffs lead to.
LEMMA ApplyAllPre ==
    ASSUME NEW snap, NEW S, NEW v \in Seq(S)
    PROVE  /\ ApplyAll(snap, Pre(v, 0)) = snap
           /\ \A n \in 1 .. Len(v) : ApplyAll(snap, Pre(v, n)) = apply(ApplyAll(snap, Pre(v, n - 1)), v[n])
<1> DEFINE f == ApplySteps(snap, v)
<1>1. f[0] = snap /\ \A n \in 1 .. Len(v) : f[n] = apply(f[n - 1], v[n])
  BY ApplyStepsDef
<1> HIDE DEF f
<1>2. ASSUME NEW n \in 0 .. Len(v)
      PROVE  ApplyAll(snap, Pre(v, n)) = f[n]
  <2> DEFINE w == Pre(v, n)
             g == ApplySteps(snap, w)
             Ok == {k \in 0 .. n : g[k] = f[k]}
  <2>1. w \in Seq(S) /\ Len(w) = n /\ n \in Nat /\ \A k \in 1 .. n : w[k] = v[k]
    BY PreFacts
  <2> HIDE DEF w
  <2>2. g[0] = snap /\ (\A k \in 1 .. n : g[k] = apply(g[k - 1], w[k])) /\ ApplyAll(snap, w) = g[n]
    BY <2>1, ApplyStepsDef
  <2> HIDE DEF g
  <2>3. 0 \in Ok
    BY <1>1, <2>1, <2>2
  <2>4. ASSUME NEW k \in 1 .. n, k - 1 \in Ok
        PROVE  k \in Ok
    <3>1. k \in 1 .. Len(v) /\ k \in 0 .. n
      BY <2>1
    <3>2. f[k] = apply(f[k - 1], v[k]) /\ g[k] = apply(g[k - 1], v[k])
      BY <1>1, <2>1, <2>2, <3>1
    <3> QED BY <2>4, <3>1, <3>2
  <2>5. n \in Ok
    <3> HIDE DEF Ok
    <3>1. \A k \in 0 .. n : k \in Ok
      BY <2>1, <2>3, <2>4, UpTo
    <3> QED BY <2>1, <3>1
  <2> QED BY <2>2, <2>5 DEF w
<1> QED BY <1>1, <1>2

NoData == [b \in {} |-> 0]

MergedSteps(v) ==
    CHOOSE f : f = [n \in 0 .. Len(v) |-> IF n = 0 THEN NoData ELSE MergeData(f[n - 1], v[n].data)]

LEMMA MergedStepsDef ==
    ASSUME NEW S, NEW v \in Seq(S)
    PROVE  LET f == MergedSteps(v)
           IN  /\ f[0] = NoData
               /\ \A n \in 1 .. Len(v) : f[n] = MergeData(f[n - 1], v[n].data)
               /\ MergedData(v) = f[Len(v)]
<1> DEFINE Is(f, N) == f = [n \in 0 .. N |-> IF n = 0 THEN NoData ELSE MergeData(f[n - 1], v[n].data)]
           Ok == {N \in 0 .. Len(v) : \E f : Is(f, N)}
<1>1. 0 \in Ok
  <2> DEFINE g == [n \in 0 .. 0 |-> NoData]
  <2>1. Is(g, 0)
    OBVIOUS
  <2>2. 0 \in 0 .. Len(v)
    OBVIOUS
  <2> HIDE DEF g
  <2> QED BY <2>1, <2>2
<1>2. ASSUME NEW N \in 1 .. Len(v), N - 1 \in Ok
      PROVE  N \in Ok
  <2>1. PICK f : Is(f, N - 1)
    BY <1>2
  <2> DEFINE g == [n \in 0 .. N |-> IF n < N THEN f[n] ELSE MergeData(f[N - 1], v[N].data)]
  <2>2. ASSUME NEW n \in 0 .. N
        PROVE  g[n] = IF n = 0 THEN NoData ELSE MergeData(g[n - 1], v[n].data)
    <3>1. CASE n = N
      BY <3>1
    <3>2. CASE n < N
      <4>1. n \in 0 .. N - 1
        BY <3>2
      <4>2. f[n] = IF n = 0 THEN NoData ELSE MergeData(f[n - 1], v[n].data)
        BY <2>1, <4>1
      <4>3. n # 0 => g[n - 1] = f[n - 1]
        BY <4>1
      <4> QED BY <3>2, <4>2, <4>3
    <3> QED BY <3>1, <3>2
  <2>3. DOMAIN g = 0 .. N /\ g = [n \in 0 .. N |-> g[n]]
    OBVIOUS
  <2> HIDE DEF g
  <2>4. Is(g, N)
    BY <2>2, <2>3
  <2> QED BY <2>4
<1>3. Len(v) \in Ok
  <2> HIDE DEF Ok
  <2>1. Len(v) \in Nat
    OBVIOUS
  <2>2. \A n \in 0 .. Len(v) : n \in Ok
    BY <1>1, <1>2, <2>1, UpTo
  <2> QED BY <2>1, <2>2
<1>4. Is(MergedSteps(v), Len(v))
  BY <1>3 DEF MergedSteps
<1>5. MergedData(v) = MergedSteps(v)[Len(v)]
  BY DEF MergedData, MergedSteps, NoData
<1> HIDE DEF Ok
<1> QED BY <1>4, <1>5

\* The content of the first n diffs.
LEMMA MergedDataPre ==
    ASSUME NEW S, NEW v \in Seq(S)
    PROVE  /\ MergedData(Pre(v, 0)) = NoData
           /\ \A n \in 1 .. Len(v) : MergedData(Pre(v, n)) = MergeData(MergedData(Pre(v, n - 1)), v[n].data)
<1> DEFINE f == MergedSteps(v)
<1>1. f[0] = NoData /\ \A n \in 1 .. Len(v) : f[n] = MergeData(f[n - 1], v[n].data)
  BY MergedStepsDef
<1> HIDE DEF f
<1>2. ASSUME NEW n \in 0 .. Len(v)
      PROVE  MergedData(Pre(v, n)) = f[n]
  <2> DEFINE w == Pre(v, n)
             g == MergedSteps(w)
             Ok == {k \in 0 .. n : g[k] = f[k]}
  <2>1. w \in Seq(S) /\ Len(w) = n /\ n \in Nat /\ \A k \in 1 .. n : w[k] = v[k]
    BY PreFacts
  <2> HIDE DEF w
  <2>2. g[0] = NoData /\ (\A k \in 1 .. n : g[k] = MergeData(g[k - 1], w[k].data)) /\ MergedData(w) = g[n]
    BY <2>1, MergedStepsDef
  <2> HIDE DEF g
  <2>3. 0 \in Ok
    BY <1>1, <2>1, <2>2
  <2>4. ASSUME NEW k \in 1 .. n, k - 1 \in Ok
        PROVE  k \in Ok
    <3>1. k \in 1 .. Len(v) /\ k \in 0 .. n
      BY <2>1
    <3>2. f[k] = MergeData(f[k - 1], v[k].data) /\ g[k] = MergeData(g[k - 1], v[k].data)
      BY <1>1, <2>1, <2>2, <3>1
    <3> QED BY <2>4, <3>1, <3>2
  <2>5. n \in Ok
    <3> HIDE DEF Ok
    <3>1. \A k \in 0 .. n : k \in Ok
      BY <2>1, <2>3, <2>4, UpTo
    <3> QED BY <2>1, <3>1
  <2> QED BY <2>2, <2>5 DEF w
<1> QED BY <1>1, <1>2

\* Induction from 1.
LEMMA UpFrom1 ==
    ASSUME NEW N \in Nat, NEW S, 1 \in S, \A n \in 2 .. N : n - 1 \in S => n \in S
    PROVE  \A n \in 1 .. N : n \in S
<1> DEFINE T == S \cup {0}
<1>1. 0 \in T /\ \A n \in 1 .. N : n - 1 \in T => n \in T
  OBVIOUS
<1>2. \A n \in 0 .. N : n \in T
  <2> HIDE DEF T
  <2> QED BY <1>1, UpTo
<1> QED BY <1>2

MergeSteps(v) ==
    CHOOSE f : f = [n \in 1 .. Len(v) |-> IF n = 1 THEN v[1] ELSE merge(f[n - 1], v[n])]

LEMMA MergeStepsDef ==
    ASSUME NEW S, NEW v \in Seq(S), v # <<>>
    PROVE  LET f == MergeSteps(v)
           IN  /\ f[1] = v[1]
               /\ \A n \in 2 .. Len(v) : f[n] = merge(f[n - 1], v[n])
               /\ MergeAll(v) = f[Len(v)]
<1> DEFINE Is(f, N) == f = [n \in 1 .. N |-> IF n = 1 THEN v[1] ELSE merge(f[n - 1], v[n])]
           Ok == {N \in 1 .. Len(v) : \E f : Is(f, N)}
<1>1. 1 \in Ok
  <2> DEFINE g == [n \in 1 .. 1 |-> v[1]]
  <2>1. Is(g, 1)
    OBVIOUS
  <2>2. 1 \in 1 .. Len(v)
    OBVIOUS
  <2> HIDE DEF g
  <2> QED BY <2>1, <2>2
<1>2. ASSUME NEW N \in 2 .. Len(v), N - 1 \in Ok
      PROVE  N \in Ok
  <2>1. PICK f : Is(f, N - 1)
    BY <1>2
  <2> DEFINE g == [n \in 1 .. N |-> IF n < N THEN f[n] ELSE merge(f[N - 1], v[N])]
  <2>2. ASSUME NEW n \in 1 .. N
        PROVE  g[n] = IF n = 1 THEN v[1] ELSE merge(g[n - 1], v[n])
    <3>1. CASE n = N
      BY <3>1
    <3>2. CASE n < N
      <4>1. n \in 1 .. N - 1
        BY <3>2
      <4>2. f[n] = IF n = 1 THEN v[1] ELSE merge(f[n - 1], v[n])
        BY <2>1, <4>1
      <4>3. n # 1 => g[n - 1] = f[n - 1]
        BY <4>1
      <4> QED BY <3>2, <4>2, <4>3
    <3> QED BY <3>1, <3>2
  <2>3. DOMAIN g = 1 .. N /\ g = [n \in 1 .. N |-> g[n]]
    OBVIOUS
  <2> HIDE DEF g
  <2>4. Is(g, N)
    BY <2>2, <2>3
  <2> QED BY <2>4
<1>3. Len(v) \in Ok
  <2> HIDE DEF Ok
  <2>1. Len(v) \in Nat
    OBVIOUS
  <2>2. \A n \in 1 .. Len(v) : n \in Ok
    BY <1>1, <1>2, <2>1, UpFrom1
  <2> QED BY <2>1, <2>2
<1>4. Is(MergeSteps(v), Len(v))
  BY <1>3 DEF MergeSteps
<1>5. MergeAll(v) = MergeSteps(v)[Len(v)]
  BY DEF MergeAll, MergeSteps
<1>6. Len(v) \in Nat /\ Len(v) >= 1
  OBVIOUS
<1> HIDE DEF Ok
<1> QED BY <1>4, <1>5, <1>6

\* What is merged of the first n diffs.
LEMMA MergeAllPre ==
    ASSUME NEW S, NEW v \in Seq(S), v # <<>>
    PROVE  /\ MergeAll(Pre(v, 1)) = v[1]
           /\ \A n \in 2 .. Len(v) : MergeAll(Pre(v, n)) = merge(MergeAll(Pre(v, n - 1)), v[n])
<1> DEFINE f == MergeSteps(v)
<1>1. f[1] = v[1] /\ \A n \in 2 .. Len(v) : f[n] = merge(f[n - 1], v[n])
  BY MergeStepsDef
<1> HIDE DEF f
<1>2. ASSUME NEW n \in 1 .. Len(v)
      PROVE  MergeAll(Pre(v, n)) = f[n]
  <2> DEFINE w == Pre(v, n)
             g == MergeSteps(w)
             Ok == {k \in 1 .. n : g[k] = f[k]}
  <2>1. w \in Seq(S) /\ Len(w) = n /\ n \in Nat /\ n >= 1 /\ w # <<>> /\ \A k \in 1 .. n : w[k] = v[k]
    BY PreFacts
  <2> HIDE DEF w
  <2>2. g[1] = w[1] /\ (\A k \in 2 .. n : g[k] = merge(g[k - 1], w[k])) /\ MergeAll(w) = g[n]
    BY <2>1, MergeStepsDef
  <2> HIDE DEF g
  <2>3. 1 \in Ok
    BY <1>1, <2>1, <2>2
  <2>4. ASSUME NEW k \in 2 .. n, k - 1 \in Ok
        PROVE  k \in Ok
    <3>1. k \in 2 .. Len(v) /\ k \in 1 .. n /\ k \in Nat
      BY <2>1
    <3>2. f[k] = merge(f[k - 1], v[k]) /\ g[k] = merge(g[k - 1], v[k])
      BY <1>1, <2>1, <2>2, <3>1
    <3> QED BY <2>4, <3>1, <3>2
  <2>5. n \in Ok
    <3> HIDE DEF Ok
    <3>1. \A k \in 1 .. n : k \in Ok
      BY <2>1, <2>3, <2>4, UpFrom1
    <3> QED BY <2>1, <3>1
  <2> QED BY <2>2, <2>5 DEF w
<1> QED BY <1>1, <1>2

-----------------------------------------------------------------------------
(* Diffs that can be applied one after the other. *)

\* The gids a chain of diffs passes through.
LEMMA ChainFacts ==
    ASSUME NEW g \in 0 .. MaxGid, NEW v \in Seq(LogDiffs), Chain(g, v)
    PROVE  /\ \A i \in 0 .. Len(v) : At(g, v, i) \in 0 .. MaxGid /\ At(g, v, i) \in Nat /\ g <= At(g, v, i)
           /\ \A i \in 1 .. Len(v) : /\ v[i] \in LogDiffs /\ B(v[i]) \in 0 .. MaxGid
                                     /\ B(v[i]) <= At(g, v, i - 1) /\ At(g, v, i - 1) < At(g, v, i)
                                     /\ At(g, v, i) = E(v[i])
<1>1. ASSUME NEW i \in 1 .. Len(v)
      PROVE  v[i] \in LogDiffs /\ B(v[i]) \in 0 .. MaxGid /\ E(v[i]) \in 0 .. MaxGid /\ At(g, v, i) = E(v[i])
  <2>1. v[i] \in LogDiffs /\ i # 0
    OBVIOUS
  <2>2. B(v[i]) \in 0 .. MaxGid /\ E(v[i]) \in 0 .. MaxGid
    BY <2>1, DiffFacts
  <2> QED BY <2>1, <2>2 DEF At
<1>2. \A i \in 0 .. Len(v) : At(g, v, i) \in 0 .. MaxGid /\ At(g, v, i) \in Nat
  <2> SUFFICES ASSUME NEW i \in 0 .. Len(v) PROVE At(g, v, i) \in 0 .. MaxGid
    BY LogType
  <2>1. CASE i = 0
    BY <2>1 DEF At
  <2>2. CASE i # 0
    BY <1>1, <2>2
  <2> QED BY <2>1, <2>2
<1>3. \A i \in 1 .. Len(v) : B(v[i]) <= At(g, v, i - 1) /\ At(g, v, i - 1) < At(g, v, i)
  BY <1>1 DEF Chain
<1> DEFINE Ok == {i \in 0 .. Len(v) : g <= At(g, v, i)}
<1>4. 0 \in Ok
  BY LogType DEF At
<1>5. ASSUME NEW i \in 1 .. Len(v), i - 1 \in Ok
      PROVE  i \in Ok
  <2>1. i - 1 \in 0 .. Len(v) /\ i \in 0 .. Len(v)
    OBVIOUS
  <2>2. At(g, v, i - 1) < At(g, v, i) /\ At(g, v, i) \in Nat /\ At(g, v, i - 1) \in Nat
    BY <1>2, <1>3, <2>1
  <2>3. g <= At(g, v, i - 1)
    BY <1>5
  <2> QED BY <2>1, <2>2, <2>3
<1>6. \A i \in 0 .. Len(v) : i \in Ok
  <2> HIDE DEF Ok
  <2>1. Len(v) \in Nat
    OBVIOUS
  <2> QED BY <1>4, <1>5, <2>1, UpTo
<1> QED BY <1>1, <1>2, <1>3, <1>6

\* A chain goes only forward.
LEMMA ChainRises ==
    ASSUME NEW g \in 0 .. MaxGid, NEW v \in Seq(LogDiffs), Chain(g, v),
           NEW j \in 0 .. Len(v), NEW i \in 0 .. j
    PROVE  At(g, v, i) <= At(g, v, j)
<1> DEFINE Ok == {k \in 0 .. Len(v) : i <= k => At(g, v, i) <= At(g, v, k)}
<1>0. Len(v) \in Nat /\ i \in 0 .. Len(v)
  OBVIOUS
<1>a. \A k \in 0 .. Len(v) : At(g, v, k) \in Nat
  BY ChainFacts
<1>1. 0 \in Ok
  BY <1>0, <1>a
<1>2. ASSUME NEW k \in 1 .. Len(v), k - 1 \in Ok
      PROVE  k \in Ok
  <2>1. At(g, v, k - 1) < At(g, v, k)
    BY ChainFacts
  <2>2. At(g, v, k - 1) \in Nat /\ At(g, v, k) \in Nat /\ At(g, v, i) \in Nat
    BY <1>0, <1>a
  <2>3. CASE i <= k - 1
    BY <1>2, <2>1, <2>2, <2>3
  <2>4. CASE ~(i <= k - 1)
    BY <1>0, <2>2, <2>4
  <2> QED BY <2>3, <2>4
<1>3. \A k \in 0 .. Len(v) : k \in Ok
  <2> HIDE DEF Ok
  <2> QED BY <1>0, <1>1, <1>2, UpTo
<1> QED BY <1>3

\* The beginning of a chain is a chain.
LEMMA ChainPre ==
    ASSUME NEW g \in 0 .. MaxGid, NEW v \in Seq(LogDiffs), Chain(g, v), NEW n \in 0 .. Len(v)
    PROVE  /\ Chain(g, Pre(v, n)) /\ Pre(v, n) \in Seq(LogDiffs) /\ Len(Pre(v, n)) = n
           /\ \A i \in 0 .. n : At(g, Pre(v, n), i) = At(g, v, i)
<1>1. /\ Pre(v, n) \in Seq(LogDiffs) /\ Len(Pre(v, n)) = n /\ n \in Nat
      /\ \A k \in 1 .. n : Pre(v, n)[k] = v[k]
  BY PreFacts
<1>2. \A i \in 0 .. n : At(g, Pre(v, n), i) = At(g, v, i)
  BY <1>1 DEF At
<1>3. Chain(g, Pre(v, n))
  BY <1>1, <1>2, SMTT(30) DEF Chain
<1> QED BY <1>1, <1>2, <1>3

\* Where a chain leads to.
LEMMA ApplyAllFacts ==
    ASSUME NEW s \in MetaSnap, s.gidB \in 0 .. MaxGid, NEW v \in Seq(LogDiffs), Chain(s.gidB, v)
    PROVE  /\ ApplyAll(s, v) \in MetaSnap
           /\ ApplyAll(s, v).gidB = At(s.gidB, v, Len(v))
           /\ ApplyAll(s, v).gidE = Larger(At(s.gidB, v, Len(v)), s.gidE)
           /\ CanApplyAll(s, v)
<1> DEFINE g == s.gidB
           To(n) == ApplyAll(s, Pre(v, n))
           Ok == {n \in 0 .. Len(v) : /\ To(n) \in MetaSnap /\ To(n).gidB = At(g, v, n)
                                      /\ To(n).gidE = Larger(At(g, v, n), s.gidE)}
<1>0. Len(v) \in Nat /\ s.gidE \in Nat /\ g \in Nat /\ g <= s.gidE
  BY DEF MetaSnap
<1>a. \A n \in 0 .. Len(v) : At(g, v, n) \in Nat
  BY ChainFacts
<1>1. To(0) = s /\ \A n \in 1 .. Len(v) : To(n) = apply(To(n - 1), v[n])
  BY ApplyAllPre, ZenonT(40)
<1>2. 0 \in Ok
  BY <1>0, <1>1 DEF At, Larger
<1> HIDE DEF To
<1>3. ASSUME NEW n \in 1 .. Len(v), n - 1 \in Ok
      PROVE  n \in Ok
  <2>1. To(n - 1) \in MetaSnap /\ To(n - 1).gidE = Larger(At(g, v, n - 1), s.gidE)
    BY <1>3
  <2>2. v[n] \in LogDiffs /\ At(g, v, n - 1) < At(g, v, n) /\ At(g, v, n) = E(v[n])
    BY ChainFacts
  <2>3. /\ To(n) \in MetaSnap /\ To(n).gidB = At(g, v, n)
        /\ To(n).gidE = Larger(At(g, v, n), Larger(At(g, v, n - 1), s.gidE))
    BY <1>1, <2>1, <2>2, ApplyFacts
  <2>4. Larger(At(g, v, n), Larger(At(g, v, n - 1), s.gidE)) = Larger(At(g, v, n), s.gidE)
    BY <1>0, <1>a, <2>2 DEF Larger
  <2> QED BY <2>3, <2>4
<1>4. \A n \in 0 .. Len(v) : n \in Ok
  <2> HIDE DEF Ok
  <2> QED BY <1>0, <1>2, <1>3, UpTo
<1>5. Len(v) \in 0 .. Len(v) /\ Pre(v, Len(v)) = v
  BY <1>0, PreFacts
<1>6. /\ ApplyAll(s, v) \in MetaSnap /\ ApplyAll(s, v).gidB = At(g, v, Len(v))
      /\ ApplyAll(s, v).gidE = Larger(At(g, v, Len(v)), s.gidE)
  BY <1>4, <1>5 DEF To
<1>7. \A n \in 1 .. Len(v) : canApply(To(n - 1), v[n])
  <2> SUFFICES ASSUME NEW n \in 1 .. Len(v) PROVE canApply(To(n - 1), v[n])
    OBVIOUS
  <2>1. n - 1 \in Ok
    BY <1>4
  <2>2. To(n - 1) \in MetaSnap /\ To(n - 1).gidB = At(g, v, n - 1)
    BY <2>1
  <2>3. v[n] \in LogDiffs /\ B(v[n]) <= At(g, v, n - 1) /\ At(g, v, n - 1) < E(v[n])
    BY ChainFacts
  <2> QED BY <2>2, <2>3, ApplyFacts
<1>8. CanApplyAll(s, v)
  <2> DEFINE able == CHOOSE f : f = [n \in 0 .. Len(v) |->
                        n = 0 \/ (f[n - 1] /\ canApply(ApplyAll(s, SubSeq(v, 1, n - 1)), v[n]))]
             yes == [n \in 0 .. Len(v) |-> TRUE]
  <2>1. ASSUME NEW n \in 0 .. Len(v)
        PROVE  TRUE = (n = 0 \/ (yes[n - 1] /\ canApply(ApplyAll(s, SubSeq(v, 1, n - 1)), v[n])))
    BY <1>7 DEF To, Pre
  <2>2. yes = [n \in 0 .. Len(v) |->
                  n = 0 \/ (yes[n - 1] /\ canApply(ApplyAll(s, SubSeq(v, 1, n - 1)), v[n]))]
    BY <2>1
  <2>3. able = [n \in 0 .. Len(v) |->
                  n = 0 \/ (able[n - 1] /\ canApply(ApplyAll(s, SubSeq(v, 1, n - 1)), v[n]))]
    BY <2>2
  <2> HIDE DEF yes, able
  <2> DEFINE Fine == {n \in 0 .. Len(v) : able[n] = TRUE}
  <2>a. \A n \in 0 .. Len(v) :
           able[n] = (n = 0 \/ (able[n - 1] /\ canApply(ApplyAll(s, SubSeq(v, 1, n - 1)), v[n])))
    BY <2>3, Zenon
  <2>4. 0 \in Fine
    <3>1. 0 \in 0 .. Len(v)
      BY <1>0
    <3>2. able[0] = TRUE
      BY <2>a, <3>1, Zenon
    <3> QED BY <3>1, <3>2
  <2>5. ASSUME NEW n \in 1 .. Len(v), n - 1 \in Fine
        PROVE  n \in Fine
    <3>1. canApply(ApplyAll(s, SubSeq(v, 1, n - 1)), v[n])
      BY <1>7 DEF To, Pre
    <3>2. n \in 0 .. Len(v) /\ able[n - 1] = TRUE
      BY <2>5
    <3>3. able[n] = TRUE
      BY <2>a, <3>1, <3>2
    <3> QED BY <3>2, <3>3
  <2>6. \A n \in 0 .. Len(v) : n \in Fine
    <3> HIDE DEF Fine
    <3> QED BY <1>0, <2>4, <2>5, UpTo
  <2>7. able[Len(v)]
    BY <1>0, <2>6
  <2> QED BY <2>7 DEF able, CanApplyAll
<1> QED BY <1>6, <1>8

\* The content of a chain of diffs is the volume at its end, with all the blocks
\* that were written since its beginning.
LEMMA MergedDataFacts ==
    ASSUME NEW g \in 0 .. MaxGid, NEW v \in Seq(LogDiffs), Chain(g, v)
    PROVE  /\ DOMAIN MergedData(v) \subseteq Blocks
           /\ \A b \in DOMAIN MergedData(v) : MergedData(v)[b] = Truth(At(g, v, Len(v)))[b]
           /\ WrittenIn(g, At(g, v, Len(v))) \subseteq DOMAIN MergedData(v)
<1> DEFINE M(n) == MergedData(Pre(v, n))
           Ok == {n \in 0 .. Len(v) : /\ DOMAIN M(n) \subseteq Blocks
                                      /\ \A b \in DOMAIN M(n) : M(n)[b] = Truth(At(g, v, n))[b]
                                      /\ WrittenIn(g, At(g, v, n)) \subseteq DOMAIN M(n)}
<1>0. Len(v) \in Nat
  OBVIOUS
<1>a. \A n \in 0 .. Len(v) : At(g, v, n) \in Nat /\ At(g, v, n) \in 0 .. MaxGid /\ g <= At(g, v, n)
  BY ChainFacts
<1>1. M(0) = NoData /\ \A n \in 1 .. Len(v) : M(n) = MergeData(M(n - 1), v[n].data)
  BY MergedDataPre
<1>2. 0 \in Ok
  <2>1. DOMAIN M(0) = {}
    BY <1>1 DEF NoData
  <2>2. WrittenIn(g, At(g, v, 0)) = {}
    BY WrittenInDef, LogType DEF At
  <2> HIDE DEF M
  <2> QED BY <1>0, <2>1, <2>2
<1> HIDE DEF M
<1>3. ASSUME NEW n \in 1 .. Len(v), n - 1 \in Ok
      PROVE  n \in Ok
  <2> DEFINE d == v[n] a == At(g, v, n - 1)
  <2>1. /\ DOMAIN M(n - 1) \subseteq Blocks /\ \A b \in DOMAIN M(n - 1) : M(n - 1)[b] = Truth(a)[b]
        /\ WrittenIn(g, a) \subseteq DOMAIN M(n - 1)
    BY <1>3
  <2>2. d \in LogDiffs /\ B(d) \in 0 .. MaxGid /\ B(d) <= a /\ a < E(d) /\ At(g, v, n) = E(d)
    BY ChainFacts
  <2>3. /\ n - 1 \in 0 .. Len(v) /\ n \in 0 .. Len(v) /\ a \in 0 .. MaxGid /\ a \in Nat /\ g <= a
        /\ E(d) \in Nat /\ B(d) \in Nat /\ E(d) \in 0 .. MaxGid /\ g \in Nat
    BY <1>a, <2>2, LogType
  <2>4. DOMAIN d.data = WrittenIn(B(d), E(d)) /\ \A b \in WrittenIn(B(d), E(d)) : d.data[b] = Truth(E(d))[b]
    BY <2>2, DiffFacts
  <2>5. /\ DOMAIN M(n) = DOMAIN M(n - 1) \cup WrittenIn(B(d), E(d))
        /\ \A b \in DOMAIN M(n) : M(n)[b] = IF b \in WrittenIn(B(d), E(d)) THEN d.data[b] ELSE M(n - 1)[b]
    BY <1>1, <2>4, ZenonT(40) DEF MergeData
  <2> HIDE DEF d, a
  <2>6. WrittenIn(B(d), E(d)) \subseteq Blocks
    BY <2>2, <2>3, WrittenInType
  <2>7. ASSUME NEW b \in DOMAIN M(n)
        PROVE  M(n)[b] = Truth(E(d))[b]
    <3>1. CASE b \in WrittenIn(B(d), E(d))
      BY <2>4, <2>5, <3>1
    <3>2. CASE b \notin WrittenIn(B(d), E(d))
      <4>1. b \in DOMAIN M(n - 1) /\ b \in Blocks
        BY <2>1, <2>5, <3>2
      <4>2. b \notin WrittenIn(a, E(d))
        BY <2>2, <2>3, <3>2, WrittenInGrows
      <4>3. Truth(a)[b] = Truth(E(d))[b]
        BY <2>2, <2>3, <4>1, <4>2, TruthKept
      <4> QED BY <2>1, <2>5, <2>7, <3>2, <4>1, <4>3
    <3> QED BY <3>1, <3>2
  <2>8. WrittenIn(g, E(d)) \subseteq DOMAIN M(n)
    <3>1. WrittenIn(g, a) \cup WrittenIn(a, E(d)) = WrittenIn(g, E(d))
      BY <2>2, <2>3, WrittenInJoins
    <3>2. WrittenIn(a, E(d)) \subseteq WrittenIn(B(d), E(d))
      BY <2>2, <2>3, WrittenInGrows
    <3> QED BY <2>1, <2>5, <3>1, <3>2
  <2> QED BY <2>1, <2>2, <2>3, <2>5, <2>6, <2>7, <2>8
<1>4. \A n \in 0 .. Len(v) : n \in Ok
  <2> HIDE DEF Ok
  <2> QED BY <1>0, <1>2, <1>3, UpTo
<1>5. Len(v) \in Ok /\ Pre(v, Len(v)) = v
  BY <1>0, <1>4, PreFacts
<1> QED BY <1>5 DEF M

\* Written over an image none of whose blocks is newer, a chain of diffs moves it.
LEMMA PatchFacts ==
    ASSUME NEW g \in 0 .. MaxGid, NEW v \in Seq(LogDiffs), Chain(g, v),
           NEW image \in Image, NEW hi \in 0 .. MaxGid, Between(image, g, hi)
    PROVE  LET e == At(g, v, Len(v))
           IN  /\ Patch(image, MergedData(v)) \in Image
               /\ e <= hi => Between(Patch(image, MergedData(v)), e, hi)
               /\ hi <= e => Patch(image, MergedData(v)) = Truth(e)
<1> DEFINE e == At(g, v, Len(v)) M == MergedData(v) p == Patch(image, M)
<1>1. e \in 0 .. MaxGid /\ e \in Nat /\ g <= e /\ g \in Nat /\ hi \in Nat
  BY ChainFacts, LogType
<1>2. DOMAIN M \subseteq Blocks /\ (\A b \in DOMAIN M : M[b] = Truth(e)[b]) /\ WrittenIn(g, e) \subseteq DOMAIN M
  BY MergedDataFacts
<1>3. DOMAIN image = Blocks
  BY DEF Image
<1>4. p = [b \in Blocks |-> IF b \in DOMAIN M THEN M[b] ELSE image[b]]
  BY <1>3 DEF Patch
<1> HIDE DEF e, M, p
<1>5. ASSUME NEW b \in Blocks
      PROVE  \/ p[b] = Truth(e)[b]
             \/ \E t \in 0 .. MaxGid : e < t /\ t <= hi /\ p[b] = Truth(t)[b]
  <2>1. CASE b \in DOMAIN M
    BY <1>2, <1>4, <2>1
  <2>2. CASE b \notin DOMAIN M
    <3>1. PICK t \in g .. hi : image[b] = Truth(t)[b]
      BY DEF Between
    <3>2. t \in 0 .. MaxGid /\ t \in Nat
      BY <1>1, LogType
    <3>3. p[b] = Truth(t)[b]
      BY <1>4, <2>2, <3>1
    <3>4. CASE t <= e
      <4>1. b \notin WrittenIn(t, e)
        BY <1>1, <1>2, <2>2, <3>1, <3>2, WrittenInGrows
      <4>2. Truth(t)[b] = Truth(e)[b]
        BY <1>1, <3>2, <3>4, <4>1, TruthKept
      <4> QED BY <3>3, <4>2
    <3>5. CASE e < t
      BY <3>1, <3>2, <3>3, <3>5
    <3> QED BY <1>1, <3>2, <3>4, <3>5
  <2> QED BY <2>1, <2>2
<1>6. p \in Image
  <2>1. \A b \in Blocks : p[b] \in 0 .. MaxGid
    BY <1>1, <1>5, TruthType
  <2> QED BY <1>4, <2>1 DEF Image
<1>7. ASSUME e <= hi
      PROVE  Between(p, e, hi)
  <2> SUFFICES ASSUME NEW b \in Blocks PROVE \E t \in e .. hi : p[b] = Truth(t)[b]
    BY DEF Between
  <2>1. CASE p[b] = Truth(e)[b]
    BY <1>1, <1>7, <2>1
  <2>2. CASE \E t \in 0 .. MaxGid : e < t /\ t <= hi /\ p[b] = Truth(t)[b]
    BY <1>1, <2>2
  <2> QED BY <1>5, <2>1, <2>2
<1>8. ASSUME hi <= e
      PROVE  p = Truth(e)
  <2>1. \A b \in Blocks : p[b] = Truth(e)[b]
    BY <1>1, <1>5, <1>8
  <2>2. Truth(e) \in Image
    BY <1>1, TruthType
  <2> QED BY <1>6, <2>1, <2>2 DEF Image
<1> QED BY <1>6, <1>7, <1>8 DEF p, M, e

-----------------------------------------------------------------------------
(* The greedy walk. *)

\* The diffs of ds that can be applied at gid c.
Avail(ds, c) == {d \in ds : B(d) <= c /\ c < E(d)}

\* Each diff of v is the one that leads furthest from where those before it lead.
Walk(ds, g, v) ==
    \A i \in 1 .. Len(v) : LET can == Avail(ds, At(g, v, i - 1))
                           IN  can # {} /\ v[i] = getMaxProgressDiff(can)

\* Nothing can be applied at c, or what can leads past m.
Stops(ds, c, m) == Avail(ds, c) = {} \/ m < E(getMaxProgressDiff(Avail(ds, c)))

\* The diff that ends last, and of those the one that begins last.
LEMMA MaxProgress ==
    ASSUME NEW ds, ds \subseteq LogDiffs, ds # {}
    PROVE  LET d == getMaxProgressDiff(ds)
           IN  d \in ds /\ \A e \in ds : E(e) < E(d) \/ (E(e) = E(d) /\ B(e) <= B(d))
<1>0. \A d \in ds : B(d) \in 0 .. MaxGid /\ E(d) \in 0 .. MaxGid
  BY DiffFacts
<1> DEFINE Es == {E(d) : d \in ds}
<1>1. PICK x \in Es : \A y \in Es : y <= x
  <2>1. Es \subseteq 0 .. MaxGid /\ Es # {}
    BY <1>0
  <2> HIDE DEF Es
  <2> QED BY <2>1, LogType, GreatestNat
<1>2. PICK d1 \in ds : x = E(d1)
  OBVIOUS
<1> DEFINE Bs == {B(d) : d \in {c \in ds : E(c) = x}}
<1>3. PICK z \in Bs : \A y \in Bs : y <= z
  <2>1. Bs \subseteq 0 .. MaxGid /\ Bs # {}
    BY <1>0, <1>2
  <2> HIDE DEF Bs, Es
  <2> QED BY <2>1, LogType, GreatestNat
<1>4. PICK d2 \in ds : E(d2) = x /\ B(d2) = z
  BY <1>3
<1>5. \A e \in ds : E(e) < E(d2) \/ (E(e) = E(d2) /\ B(e) <= B(d2))
  <2> SUFFICES ASSUME NEW e \in ds PROVE E(e) < x \/ (E(e) = x /\ B(e) <= z)
    BY <1>4
  <2>1. E(e) \in Nat /\ x \in Nat /\ E(e) <= x
    BY <1>0, <1>1, LogType
  <2>2. E(e) = x => B(e) <= z
    BY <1>3
  <2> QED BY <2>1, <2>2
<1> QED BY <1>5 DEF getMaxProgressDiff, B, E

\* The function getApplicableDiffListByGid computes.
WalkFcn(ds, maxGid) ==
    CHOOSE f : f = [s \in MetaSnap |->
        LET can == {d \in ds : canApply(s, d)}
            d   == getMaxProgressDiff(can)
        IN  IF can = {} \/ apply(s, d).gidB > maxGid THEN <<>> ELSE <<d>> \o f[apply(s, d)]]

\* One turn of its loop, at gid c.
Turn(ds, m, s, f) ==
    LET d == getMaxProgressDiff(Avail(ds, s.gidB))
    IN  IF Stops(ds, s.gidB, m) THEN <<>> ELSE <<d>> \o f[apply(s, d)]

LEMMA TurnFacts ==
    ASSUME NEW ds, ds \subseteq LogDiffs, NEW m \in Nat, NEW s \in MetaSnap, ~Stops(ds, s.gidB, m)
    PROVE  LET d == getMaxProgressDiff(Avail(ds, s.gidB))
           IN  /\ d \in ds /\ d \in LogDiffs /\ Avail(ds, s.gidB) # {}
               /\ apply(s, d) \in MetaSnap /\ apply(s, d).gidB = E(d)
               /\ B(d) <= s.gidB /\ s.gidB < E(d) /\ E(d) <= m /\ E(d) \in Nat
<1> DEFINE A == Avail(ds, s.gidB) d == getMaxProgressDiff(A)
<1>1. A \subseteq LogDiffs /\ A # {}
  BY DEF Avail, Stops
<1>2. d \in A
  <2> HIDE DEF A
  <2> QED BY <1>1, MaxProgress
<1>3. d \in ds /\ d \in LogDiffs /\ B(d) <= s.gidB /\ s.gidB < E(d)
  BY <1>2 DEF Avail
<1>4. E(d) \in Nat /\ ~(m < E(d))
  BY <1>3, DiffFacts DEF Stops
<1>5. apply(s, d) \in MetaSnap /\ apply(s, d).gidB = E(d)
  BY <1>3, ApplyFacts
<1> HIDE DEF A, d
<1>6. E(d) <= m
  BY <1>4
<1> QED BY <1>1, <1>3, <1>4, <1>5, <1>6 DEF A, d

LEMMA TurnIs ==
    ASSUME NEW ds, ds \subseteq LogDiffs, NEW m \in Nat, NEW s \in MetaSnap, NEW f
    PROVE  Turn(ds, m, s, f) =
             LET can == {d \in ds : canApply(s, d)}
                 d   == getMaxProgressDiff(can)
             IN  IF can = {} \/ apply(s, d).gidB > m THEN <<>> ELSE <<d>> \o f[apply(s, d)]
<1> DEFINE can == {d \in ds : canApply(s, d)} d == getMaxProgressDiff(can)
<1>1. can = Avail(ds, s.gidB)
  BY ApplyFacts DEF Avail
<1> SUFFICES Turn(ds, m, s, f) = IF can = {} \/ apply(s, d).gidB > m THEN <<>> ELSE <<d>> \o f[apply(s, d)]
  OBVIOUS
<1> HIDE DEF can
<1>2. CASE can = {}
  BY <1>1, <1>2 DEF Turn, Stops
<1>3. CASE can # {}
  <2>1. can \subseteq LogDiffs
    BY DEF can
  <2>2. d \in can
    BY <1>3, <2>1, MaxProgress
  <2>3. apply(s, d).gidB = E(d) /\ E(d) \in Nat
    BY <2>1, <2>2, ApplyFacts, DiffFacts
  <2>4. apply(s, d).gidB > m <=> m < E(d)
    BY <2>3
  <2> QED BY <1>1, <1>3, <2>4 DEF Turn, Stops
<1> QED BY <1>2, <1>3

\* The loop comes to an end, so that the function exists.
LEMMA WalkDef ==
    ASSUME NEW ds, ds \subseteq LogDiffs, NEW m \in Nat
    PROVE  /\ \A s \in MetaSnap : WalkFcn(ds, m)[s] = Turn(ds, m, s, WalkFcn(ds, m))
           /\ \A s : getApplicableDiffListByGid(ds, s, m) = WalkFcn(ds, m)[s]
<1> DEFINE Is(f, n) == \A s \in MetaSnap : m < s.gidB + n => f[s] = Turn(ds, m, s, f)
           Ok == {n \in 0 .. m + 1 : \E f : Is(f, n)}
<1>t. \A s \in MetaSnap : s.gidB \in Nat
  BY DEF MetaSnap
<1>1. 0 \in Ok
  <2> DEFINE f == [s \in MetaSnap |-> <<>>]
  <2>1. ASSUME NEW s \in MetaSnap, m < s.gidB
        PROVE  f[s] = Turn(ds, m, s, f)
    <3>1. Stops(ds, s.gidB, m)
      <4> SUFFICES ASSUME ~Stops(ds, s.gidB, m) PROVE FALSE
        OBVIOUS
      <4>1. PICK x \in Nat : s.gidB < x /\ x <= m
        BY TurnFacts
      <4> QED BY <1>t, <2>1, <4>1
    <3> QED BY <3>1 DEF Turn
  <2>2. Is(f, 0)
    BY <1>t, <2>1
  <2> HIDE DEF f
  <2> QED BY <2>2
<1>2. ASSUME NEW n \in 1 .. m + 1, n - 1 \in Ok
      PROVE  n \in Ok
  <2>1. PICK f : Is(f, n - 1)
    BY <1>2
  <2> DEFINE g == [s \in MetaSnap |-> Turn(ds, m, s, f)]
  <2>2. ASSUME NEW s \in MetaSnap, m < s.gidB + n
        PROVE  g[s] = Turn(ds, m, s, g)
    <3>1. CASE Stops(ds, s.gidB, m)
      BY <3>1 DEF Turn
    <3>2. CASE ~Stops(ds, s.gidB, m)
      <4> DEFINE d == getMaxProgressDiff(Avail(ds, s.gidB)) t == apply(s, d)
      <4>1. t \in MetaSnap /\ t.gidB \in Nat /\ s.gidB < t.gidB
        BY <3>2, TurnFacts
      <4>2. m < t.gidB + (n - 1)
        BY <1>t, <2>2, <4>1
      <4>3. f[t] = Turn(ds, m, t, f)
        BY <2>1, <4>1, <4>2
      <4>4. g[t] = f[t] /\ g[s] = Turn(ds, m, s, f)
        BY <4>1, <4>3
      <4>5. Turn(ds, m, s, f) = <<d>> \o f[t] /\ Turn(ds, m, s, g) = <<d>> \o g[t]
        BY <3>2 DEF Turn
      <4> HIDE DEF g, t, d
      <4> QED BY <4>4, <4>5
    <3> QED BY <3>1, <3>2
  <2> HIDE DEF g
  <2>3. Is(g, n)
    BY <2>2
  <2> QED BY <2>3
<1>3. m + 1 \in Ok
  <2> HIDE DEF Ok
  <2>1. \A n \in 0 .. m + 1 : n \in Ok
    BY <1>1, <1>2, UpTo
  <2> QED BY <2>1
<1>4. PICK f : Is(f, m + 1)
  BY <1>3
<1> DEFINE h == [s \in MetaSnap |-> Turn(ds, m, s, f)]
<1>5. ASSUME NEW s \in MetaSnap
      PROVE  h[s] = f[s]
  BY <1>t, <1>4
<1>6. ASSUME NEW s \in MetaSnap
      PROVE  Turn(ds, m, s, f) = Turn(ds, m, s, h)
  <2>1. CASE Stops(ds, s.gidB, m)
    BY <2>1 DEF Turn
  <2>2. CASE ~Stops(ds, s.gidB, m)
    <3> DEFINE d == getMaxProgressDiff(Avail(ds, s.gidB)) t == apply(s, d)
    <3>1. t \in MetaSnap
      BY <2>2, TurnFacts
    <3>2. h[t] = f[t]
      BY <1>5, <3>1
    <3>3. Turn(ds, m, s, f) = <<d>> \o f[t] /\ Turn(ds, m, s, h) = <<d>> \o h[t]
      BY <2>2 DEF Turn
    <3> HIDE DEF h, t, d
    <3> QED BY <3>2, <3>3
  <2> QED BY <2>1, <2>2
<1>7. h = [s \in MetaSnap |-> Turn(ds, m, s, h)]
  <2> DEFINE k == h
  <2>1. \A s \in MetaSnap : Turn(ds, m, s, f) = Turn(ds, m, s, k)
    BY <1>6
  <2> HIDE DEF k
  <2>2. [s \in MetaSnap |-> Turn(ds, m, s, f)] = [s \in MetaSnap |-> Turn(ds, m, s, k)]
    BY <2>1
  <2> QED BY <2>2 DEF k
<1> HIDE DEF h
<1> DEFINE Eq(q) == q = [s \in MetaSnap |->
              LET can == {d \in ds : canApply(s, d)}
                  d   == getMaxProgressDiff(can)
              IN  IF can = {} \/ apply(s, d).gidB > m THEN <<>> ELSE <<d>> \o q[apply(s, d)]]
<1>8. ASSUME NEW q
      PROVE  Eq(q) <=> q = [s \in MetaSnap |-> Turn(ds, m, s, q)]
  <2> DEFINE P(s) == LET can == {d \in ds : canApply(s, d)}
                         d   == getMaxProgressDiff(can)
                     IN  IF can = {} \/ apply(s, d).gidB > m THEN <<>> ELSE <<d>> \o q[apply(s, d)]
  <2>1. \A s \in MetaSnap : P(s) = Turn(ds, m, s, q)
    BY TurnIs, ZenonT(40)
  <2> HIDE DEF P
  <2>2. [s \in MetaSnap |-> P(s)] = [s \in MetaSnap |-> Turn(ds, m, s, q)]
    BY <2>1
  <2> QED BY <2>2 DEF P
<1>9. Eq(h)
  BY <1>7, <1>8
<1>10. Eq(WalkFcn(ds, m))
  BY <1>9 DEF WalkFcn
<1>11. WalkFcn(ds, m) = [s \in MetaSnap |-> Turn(ds, m, s, WalkFcn(ds, m))]
  BY <1>8, <1>10
<1>12. \A s \in MetaSnap : WalkFcn(ds, m)[s] = Turn(ds, m, s, WalkFcn(ds, m))
  <2> DEFINE w == WalkFcn(ds, m)
  <2>1. w = [s \in MetaSnap |-> Turn(ds, m, s, w)]
    BY <1>11
  <2> HIDE DEF w
  <2>2. \A s \in MetaSnap : w[s] = Turn(ds, m, s, w)
    BY <2>1
  <2> QED BY <2>2 DEF w
<1>13. \A s : getApplicableDiffListByGid(ds, s, m) = WalkFcn(ds, m)[s]
  BY DEF getApplicableDiffListByGid, WalkFcn
<1> QED BY <1>12, <1>13

\* What a walk is made of.
LEMMA WalkFacts ==
    ASSUME NEW ds, ds \subseteq LogDiffs, NEW m \in Nat, NEW s \in MetaSnap
    PROVE  LET v == getApplicableDiffListByGid(ds, s, m)
           IN  /\ v \in Seq(ds) /\ Walk(ds, s.gidB, v)
               /\ \A i \in 1 .. Len(v) : E(v[i]) <= m
               /\ Stops(ds, At(s.gidB, v, Len(v)), m)
<1> DEFINE f == WalkFcn(ds, m)
           Good(t, v) == /\ v \in Seq(ds) /\ Walk(ds, t.gidB, v)
                         /\ \A i \in 1 .. Len(v) : E(v[i]) <= m
                         /\ Stops(ds, At(t.gidB, v, Len(v)), m)
           Ok == {n \in 0 .. m + 1 : \A t \in MetaSnap : m < t.gidB + n => Good(t, f[t])}
<1>t. \A t \in MetaSnap : t.gidB \in Nat
  BY DEF MetaSnap
<1>0. \A t \in MetaSnap : f[t] = Turn(ds, m, t, f)
  BY WalkDef
<1> HIDE DEF f
<1>1. ASSUME NEW t \in MetaSnap, Stops(ds, t.gidB, m)
      PROVE  Good(t, f[t])
  <2>1. f[t] = <<>>
    BY <1>0, <1>1 DEF Turn
  <2>2. Good(t, <<>>)
    BY <1>1 DEF Walk, At
  <2> HIDE DEF Good
  <2> QED BY <2>1, <2>2
<1>2. 0 \in Ok
  <2> SUFFICES ASSUME NEW t \in MetaSnap, m < t.gidB PROVE Stops(ds, t.gidB, m)
    <3> HIDE DEF Good
    <3> QED BY <1>1, <1>t
  <2> SUFFICES ASSUME ~Stops(ds, t.gidB, m) PROVE FALSE
    OBVIOUS
  <2>1. PICK x \in Nat : t.gidB < x /\ x <= m
    BY TurnFacts
  <2> QED BY <1>t, <2>1
<1>3. ASSUME NEW n \in 1 .. m + 1, n - 1 \in Ok
      PROVE  n \in Ok
  <2> SUFFICES ASSUME NEW t \in MetaSnap, m < t.gidB + n, ~Stops(ds, t.gidB, m) PROVE Good(t, f[t])
    <3> HIDE DEF Good
    <3> QED BY <1>1
  <2> DEFINE d == getMaxProgressDiff(Avail(ds, t.gidB)) u == apply(t, d) w == f[u] v == f[t]
  <2>1. /\ d \in ds /\ d \in LogDiffs /\ Avail(ds, t.gidB) # {} /\ u \in MetaSnap /\ u.gidB = E(d)
        /\ t.gidB < E(d) /\ E(d) <= m /\ E(d) \in Nat
    BY TurnFacts
  <2>2. v = <<d>> \o w
    BY <1>0 DEF Turn
  <2>3. Good(u, w)
    <3>1. m < u.gidB + (n - 1)
      BY <1>t, <2>1
    <3> HIDE DEF Good, u, w
    <3> QED BY <1>3, <2>1, <3>1 DEF w
  <2>4. w \in Seq(ds) /\ Walk(ds, E(d), w) /\ (\A i \in 1 .. Len(w) : E(w[i]) <= m)
        /\ Stops(ds, At(E(d), w, Len(w)), m)
    BY <2>1, <2>3
  <2>d. d = getMaxProgressDiff(Avail(ds, t.gidB))
    OBVIOUS
  <2> HIDE DEF d, u, w, v
  <2>5. /\ v \in Seq(ds) /\ Len(v) = Len(w) + 1 /\ v[1] = d /\ Len(w) \in Nat
        /\ \A i \in 1 .. Len(w) : v[i + 1] = w[i]
    BY <2>1, <2>2, <2>4
  <2>6. \A i \in 2 .. Len(v) : i - 1 \in 1 .. Len(w) /\ v[i] = w[i - 1]
    BY <2>5
  <2>7. At(t.gidB, v, 0) = t.gidB /\ \A i \in 1 .. Len(v) : At(t.gidB, v, i) = At(E(d), w, i - 1)
    <3>1. At(t.gidB, v, 0) = t.gidB /\ At(t.gidB, v, 1) = At(E(d), w, 0)
      BY <2>5 DEF At
    <3>2. \A i \in 2 .. Len(v) : At(t.gidB, v, i) = At(E(d), w, i - 1)
      BY <2>6 DEF At
    <3> QED BY <2>5, <3>1, <3>2
  <2>8. Walk(ds, t.gidB, v)
    <3> SUFFICES ASSUME NEW i \in 1 .. Len(v)
                 PROVE  /\ Avail(ds, At(t.gidB, v, i - 1)) # {}
                        /\ v[i] = getMaxProgressDiff(Avail(ds, At(t.gidB, v, i - 1)))
      BY DEF Walk
    <3>1. CASE i = 1
      BY <2>1, <2>d, <2>5, <2>7, <3>1
    <3>2. CASE i # 1
      <4>1. i \in 2 .. Len(v) /\ i - 1 \in 1 .. Len(v)
        BY <2>5, <3>2
      <4>2. At(t.gidB, v, i - 1) = At(E(d), w, i - 1 - 1) /\ v[i] = w[i - 1] /\ i - 1 \in 1 .. Len(w)
        BY <2>6, <2>7, <4>1
      <4>3. LET can == Avail(ds, At(E(d), w, i - 1 - 1)) IN can # {} /\ w[i - 1] = getMaxProgressDiff(can)
        BY <2>4, <4>2 DEF Walk
      <4> QED BY <4>2, <4>3
    <3> QED BY <3>1, <3>2
  <2>9. \A i \in 1 .. Len(v) : E(v[i]) <= m
    BY <2>1, <2>4, <2>5, <2>6
  <2>10. Stops(ds, At(t.gidB, v, Len(v)), m)
    BY <2>4, <2>5, <2>7
  <2> QED BY <2>5, <2>8, <2>9, <2>10 DEF v
<1>4. \A n \in 0 .. m + 1 : n \in Ok
  <2> HIDE DEF Ok
  <2> QED BY <1>2, <1>3, UpTo
<1>5. m + 1 \in Ok /\ m < s.gidB + (m + 1)
  BY <1>4, <1>t
<1>6. Good(s, f[s])
  <2> HIDE DEF Good
  <2> QED BY <1>5
<1>7. getApplicableDiffListByGid(ds, s, m) = f[s]
  BY WalkDef DEF f
<1> QED BY <1>6, <1>7

\* A walk is a chain.
LEMMA WalkChain ==
    ASSUME NEW ds, ds \subseteq LogDiffs, NEW g \in 0 .. MaxGid, NEW v \in Seq(ds), Walk(ds, g, v)
    PROVE  v \in Seq(LogDiffs) /\ Chain(g, v)
<1>1. v \in Seq(LogDiffs)
  OBVIOUS
<1>2. ASSUME NEW i \in 1 .. Len(v)
      PROVE  B(v[i]) <= At(g, v, i - 1) /\ At(g, v, i - 1) < E(v[i])
  <2> DEFINE can == Avail(ds, At(g, v, i - 1))
  <2>1. can # {} /\ v[i] = getMaxProgressDiff(can)
    BY DEF Walk
  <2>2. can \subseteq LogDiffs
    BY DEF Avail
  <2>3. v[i] \in can
    <3> HIDE DEF can
    <3> QED BY <2>1, <2>2, MaxProgress
  <2> QED BY <2>3 DEF Avail
<1> QED BY <1>1, <1>2 DEF Chain

\* Of two walks from the same gid the shorter one is the beginning of the other.
LEMMA WalkPrefix ==
    ASSUME NEW ds, ds \subseteq LogDiffs, NEW g \in 0 .. MaxGid,
           NEW v \in Seq(ds), Walk(ds, g, v), NEW w \in Seq(ds), Walk(ds, g, w), Len(v) <= Len(w)
    PROVE  At(g, v, Len(v)) <= At(g, w, Len(w))
<1> DEFINE Ok == {i \in 0 .. Len(v) : At(g, v, i) = At(g, w, i)}
<1>0. Len(v) \in Nat /\ Len(w) \in Nat
  OBVIOUS
<1>1. 0 \in Ok
  BY <1>0 DEF At
<1>2. ASSUME NEW i \in 1 .. Len(v), i - 1 \in Ok
      PROVE  i \in Ok
  <2>1. i \in 1 .. Len(w) /\ i # 0 /\ At(g, v, i - 1) = At(g, w, i - 1)
    BY <1>2
  <2>2. /\ v[i] = getMaxProgressDiff(Avail(ds, At(g, v, i - 1)))
        /\ w[i] = getMaxProgressDiff(Avail(ds, At(g, w, i - 1)))
    BY <2>1 DEF Walk
  <2>3. v[i] = w[i]
    BY <2>1, <2>2
  <2> QED BY <2>1, <2>3 DEF At
<1>3. \A i \in 0 .. Len(v) : i \in Ok
  <2> HIDE DEF Ok
  <2> QED BY <1>0, <1>1, <1>2, UpTo
<1>4. At(g, v, Len(v)) = At(g, w, Len(v))
  BY <1>0, <1>3
<1>5. w \in Seq(LogDiffs) /\ Chain(g, w)
  BY WalkChain
<1>6. At(g, w, Len(v)) <= At(g, w, Len(w))
  BY <1>0, <1>5, ChainRises
<1> QED BY <1>4, <1>6

\* A walk in all: the list and where it leads to.
LEMMA WalkEnds ==
    ASSUME NEW ds, ds \subseteq LogDiffs, NEW m \in 0 .. MaxGid, NEW s \in MetaSnap, s.gidB \in 0 .. m
    PROVE  LET v == getApplicableDiffListByGid(ds, s, m)
               e == At(s.gidB, v, Len(v))
           IN  /\ v \in Seq(ds) /\ v \in Seq(LogDiffs) /\ Walk(ds, s.gidB, v) /\ Chain(s.gidB, v)
               /\ e \in s.gidB .. m /\ Stops(ds, e, m)
               /\ ApplyAll(s, v) \in MetaSnap /\ CanApplyAll(s, v)
               /\ ApplyAll(s, v).gidB = e /\ ApplyAll(s, v).gidE = Larger(e, s.gidE)
<1> DEFINE v == getApplicableDiffListByGid(ds, s, m) e == At(s.gidB, v, Len(v))
<1>0. m \in Nat /\ s.gidB \in 0 .. MaxGid
  BY LogType
<1>1. v \in Seq(ds) /\ Walk(ds, s.gidB, v) /\ (\A i \in 1 .. Len(v) : E(v[i]) <= m) /\ Stops(ds, e, m)
  BY <1>0, WalkFacts
<1> HIDE DEF v
<1>2. v \in Seq(LogDiffs) /\ Chain(s.gidB, v)
  BY <1>0, <1>1, WalkChain
<1>3. e \in Nat /\ s.gidB <= e
  BY <1>0, <1>2, ChainFacts
<1>4. e <= m
  <2>1. CASE Len(v) = 0
    BY <1>0, <2>1 DEF At
  <2>2. CASE Len(v) # 0
    <3>1. Len(v) \in 1 .. Len(v) /\ e = E(v[Len(v)])
      BY <1>1, <2>2 DEF At
    <3> QED BY <1>1, <3>1
  <2> QED BY <2>1, <2>2
<1>5. /\ ApplyAll(s, v) \in MetaSnap /\ CanApplyAll(s, v)
      /\ ApplyAll(s, v).gidB = e /\ ApplyAll(s, v).gidE = Larger(e, s.gidE)
  BY <1>0, <1>2, ApplyAllFacts
<1>6. e \in s.gidB .. m
  BY <1>0, <1>3, <1>4
<1> HIDE DEF e
<1> QED BY <1>1, <1>2, <1>5, <1>6 DEF v, e

\* Between gid and m nothing is missing, and no diff leads over m: the walk arrives
\* at m.
LEMMA WalkArrives ==
    ASSUME NEW ds, ds \subseteq LogDiffs, NEW m \in 0 .. MaxGid, NEW s \in MetaSnap, s.gidB \in 0 .. m,
           \A c \in 0 .. MaxGid : s.gidB <= c /\ c < m => Covered(ds, c),
           \A d \in ds : ~(B(d) < m /\ m < E(d))
    PROVE  LET v == getApplicableDiffListByGid(ds, s, m) IN At(s.gidB, v, Len(v)) = m
<1> DEFINE v == getApplicableDiffListByGid(ds, s, m) e == At(s.gidB, v, Len(v))
<1>1. e \in s.gidB .. m /\ Stops(ds, e, m)
  BY WalkEnds
<1> HIDE DEF e
<1>2. s.gidB \in Nat /\ m \in Nat /\ e \in 0 .. MaxGid /\ e \in Nat /\ s.gidB <= e /\ e <= m
  BY <1>1, LogType
<1> SUFFICES ASSUME e < m PROVE FALSE
  BY <1>2 DEF e
<1> DEFINE A == Avail(ds, e) d == getMaxProgressDiff(A)
<1>3. Covered(ds, e)
  BY <1>2
<1>4. A # {} /\ A \subseteq LogDiffs
  BY <1>3 DEF Covered, Avail
<1>5. d \in A
  <2> HIDE DEF A
  <2> QED BY <1>4, MaxProgress
<1>6. m < E(d)
  BY <1>1, <1>4 DEF Stops
<1>7. d \in ds /\ B(d) <= e /\ B(d) \in Nat /\ E(d) \in Nat
  BY <1>5, DiffFacts DEF Avail
<1> HIDE DEF d
<1> QED BY <1>2, <1>6, <1>7

\* The bound of an unbounded walk.
LEMMA EndOfFacts ==
    ASSUME NEW ds, ds \subseteq LogDiffs
    PROVE  EndOf(ds) \in 0 .. MaxGid /\ \A d \in ds : E(d) <= EndOf(ds)
<1> DEFINE Es == {d.snapE.gidB : d \in ds} \cup {0}
<1>0. \A d \in ds : d.snapE.gidB \in 0 .. MaxGid
  <2>1. \A d \in ds : E(d) \in 0 .. MaxGid
    BY DiffFacts
  <2> QED BY <2>1 DEF E
<1>1. Es \subseteq 0 .. MaxGid /\ Es # {}
  BY <1>0, LogType
<1>2. PICK x \in Es : \A y \in Es : y <= x
  <2> HIDE DEF Es
  <2> QED BY <1>1, LogType, GreatestNat
<1>3. \A d \in ds : d.snapE.gidB \in Es
  OBVIOUS
<1>4. EndOf(ds) = CHOOSE n \in Es : \A d \in ds : d.snapE.gidB <= n
  BY DEF EndOf
<1> HIDE DEF Es
<1>5. \A d \in ds : d.snapE.gidB <= x
  BY <1>2, <1>3
<1>6. EndOf(ds) \in Es /\ \A d \in ds : d.snapE.gidB <= EndOf(ds)
  BY <1>2, <1>4, <1>5
<1> QED BY <1>1, <1>6 DEF E

\* The walk of getLatestState and gc: it ends where nothing can be applied, which
\* is not before anything is missing.
LEMMA LatestWalk ==
    ASSUME NEW ds, ds \subseteq LogDiffs, NEW s \in MetaSnap, s.gidB \in 0 .. MaxGid,
           NEW hi \in 0 .. MaxGid, s.gidB <= hi,
           \A c \in 0 .. MaxGid : s.gidB <= c /\ c < hi => Covered(ds, c)
    PROVE  LET v == getApplicableDiffList(ds, s)
               e == At(s.gidB, v, Len(v))
           IN  /\ v \in Seq(ds) /\ v \in Seq(LogDiffs) /\ Chain(s.gidB, v)
               /\ e \in hi .. MaxGid /\ ((\A d \in ds : E(d) <= hi) => e = hi)
               /\ ApplyAll(s, v) \in MetaSnap
               /\ ApplyAll(s, v).gidB = e /\ ApplyAll(s, v).gidE = Larger(e, s.gidE)
<1> DEFINE m == EndOf(ds) v == getApplicableDiffListByGid(ds, s, m) e == At(s.gidB, v, Len(v))
<1>0. m \in 0 .. MaxGid /\ m \in Nat /\ \A d \in ds : E(d) <= m
  BY EndOfFacts, LogType
<1> HIDE DEF m
<1>1. v \in Seq(ds) /\ Walk(ds, s.gidB, v) /\ (\A i \in 1 .. Len(v) : E(v[i]) <= m) /\ Stops(ds, e, m)
  BY <1>0, WalkFacts
<1>v. v = getApplicableDiffList(ds, s)
  BY DEF getApplicableDiffList, m
<1> HIDE DEF v
<1>2. v \in Seq(LogDiffs) /\ Chain(s.gidB, v)
  BY <1>1, WalkChain
<1>3. e \in 0 .. MaxGid /\ e \in Nat /\ s.gidB <= e /\ hi \in Nat
  BY <1>2, ChainFacts, LogType
<1>4. hi <= e
  <2> SUFFICES ASSUME e < hi PROVE FALSE
    BY <1>3
  <2> DEFINE A == Avail(ds, e) d == getMaxProgressDiff(A)
  <2>1. Covered(ds, e)
    BY <1>3
  <2>2. A # {} /\ A \subseteq LogDiffs
    BY <2>1 DEF Covered, Avail
  <2>3. d \in A
    <3> HIDE DEF A
    <3> QED BY <2>2, MaxProgress
  <2>4. m < E(d) /\ d \in ds /\ E(d) \in Nat
    BY <1>1, <2>2, <2>3, DiffFacts DEF Stops, Avail
  <2> HIDE DEF d
  <2> QED BY <1>0, <2>4
<1>5. ASSUME \A d \in ds : E(d) <= hi
      PROVE  e <= hi
  <2>1. CASE Len(v) = 0
    BY <2>1 DEF At
  <2>2. CASE Len(v) # 0
    <3>1. Len(v) \in 1 .. Len(v) /\ e = E(v[Len(v)])
      BY <1>1, <2>2 DEF At
    <3>2. v[Len(v)] \in ds
      BY <1>1, <3>1
    <3> QED BY <1>5, <3>1, <3>2
  <2> QED BY <2>1, <2>2
<1>6. /\ ApplyAll(s, v) \in MetaSnap
      /\ ApplyAll(s, v).gidB = e /\ ApplyAll(s, v).gidE = Larger(e, s.gidE)
  BY <1>2, ApplyAllFacts
<1>7. e \in hi .. MaxGid /\ ((\A d \in ds : E(d) <= hi) => e = hi)
  BY <1>3, <1>4, <1>5
<1> HIDE DEF e
<1> QED BY <1>1, <1>2, <1>6, <1>7, <1>v DEF e

\* Where a chain passes, nothing is missing.
LEMMA ChainCovers ==
    ASSUME NEW g \in 0 .. MaxGid, NEW v \in Seq(LogDiffs), Chain(g, v),
           NEW c \in Nat, g <= c, c < At(g, v, Len(v))
    PROVE  Covered({v[i] : i \in DOMAIN v}, c)
<1> DEFINE Ok == {n \in 0 .. Len(v) : c < At(g, v, n) => \E i \in 1 .. Len(v) : B(v[i]) <= c /\ c < E(v[i])}
<1>0. Len(v) \in Nat /\ g \in Nat /\ DOMAIN v = 1 .. Len(v)
  BY LogType
<1>1. 0 \in Ok
  BY <1>0 DEF At
<1>2. ASSUME NEW n \in 1 .. Len(v), n - 1 \in Ok
      PROVE  n \in Ok
  <2>1. B(v[n]) <= At(g, v, n - 1) /\ At(g, v, n) = E(v[n]) /\ B(v[n]) \in 0 .. MaxGid
    BY ChainFacts
  <2>2. n - 1 \in 0 .. Len(v) /\ n \in 0 .. Len(v)
    OBVIOUS
  <2>3. At(g, v, n - 1) \in Nat /\ B(v[n]) \in Nat
    BY <2>1, <2>2, ChainFacts, LogType
  <2>4. CASE c < At(g, v, n - 1)
    BY <1>2, <2>2, <2>4
  <2>5. CASE ~(c < At(g, v, n - 1))
    BY <2>1, <2>2, <2>3, <2>5
  <2> QED BY <2>4, <2>5
<1>3. \A n \in 0 .. Len(v) : n \in Ok
  <2> HIDE DEF Ok
  <2> QED BY <1>0, <1>1, <1>2, UpTo
<1>4. PICK i \in 1 .. Len(v) : B(v[i]) <= c /\ c < E(v[i])
  BY <1>0, <1>3
<1> QED BY <1>0, <1>4 DEF Covered

\* Garbage collection leaves the way from the base image to the latest snapshot.
LEMMA GcFacts ==
    ASSUME NEW ds, ds \subseteq LogDiffs, NEW st \in MetaState, st.snapB.gidB \in 0 .. MaxGid,
           NEW hi \in 0 .. MaxGid, st.snapB.gidB <= hi,
           \A c \in 0 .. MaxGid : st.snapB.gidB <= c /\ c < hi => Covered(ds, c)
    PROVE  LET e == getLatestState(ds, st).snapB
           IN  /\ gc(ds, st) \subseteq ds
               /\ e \in MetaSnap /\ e.gidB \in hi .. MaxGid /\ ((\A d \in ds : E(d) <= hi) => e.gidB = hi)
               /\ e.gidE = Larger(e.gidB, st.snapB.gidE)
               /\ \A d \in gc(ds, st) : E(d) <= e.gidB
               /\ \A c \in 0 .. MaxGid : st.snapB.gidB <= c /\ c < e.gidB => Covered(gc(ds, st), c)
<1> DEFINE s == st.snapB v == getApplicableDiffList(ds, s) a == At(s.gidB, v, Len(v))
           e == getLatestState(ds, st).snapB
<1>0. s \in MetaSnap
  BY DEF MetaState
<1>1. /\ v \in Seq(ds) /\ v \in Seq(LogDiffs) /\ Chain(s.gidB, v)
      /\ a \in hi .. MaxGid /\ ((\A d \in ds : E(d) <= hi) => a = hi)
      /\ ApplyAll(s, v) \in MetaSnap /\ ApplyAll(s, v).gidB = a /\ ApplyAll(s, v).gidE = Larger(a, s.gidE)
  BY <1>0, LatestWalk
<1>2. e = ApplyAll(s, v)
  BY DEF getLatestState, endApplying, Settled
<1>3. gc(ds, st) = {v[i] : i \in DOMAIN v}
  BY DEF gc
<1>d. s = st.snapB
  OBVIOUS
<1> HIDE DEF v, s, e
<1>4. {v[i] : i \in DOMAIN v} \subseteq ds
  BY <1>1
<1>5. ASSUME NEW d \in {v[i] : i \in DOMAIN v}
      PROVE  E(d) <= a
  <2>1. PICK i \in 1 .. Len(v) : d = v[i]
    BY <1>1
  <2>2. At(s.gidB, v, i) = E(v[i])
    BY <1>1, <1>d, ChainFacts
  <2>3. At(s.gidB, v, i) <= At(s.gidB, v, Len(v))
    BY <1>1, <1>d, ChainRises
  <2> QED BY <2>1, <2>2, <2>3
<1>6. ASSUME NEW c \in 0 .. MaxGid, s.gidB <= c, c < a
      PROVE  Covered({v[i] : i \in DOMAIN v}, c)
  <2>1. c \in Nat
    BY LogType
  <2> QED BY <1>1, <1>d, <1>6, <2>1, ChainCovers
<1> HIDE DEF a
<1> QED BY <1>1, <1>2, <1>3, <1>4, <1>5, <1>6, <1>d DEF e

-----------------------------------------------------------------------------
(* The diffs that are merged. *)

\* There are finitely many diffs.
LEMMA LogDiffsFinite == IsFiniteSet(LogDiffs)
<1> DEFINE G == 0 .. MaxGid T == (G \X G) \X BOOLEAN
           f == [t \in T |-> LogDiff(t[1][1], t[1][2], t[2])]
<1>1. IsFiniteSet(G)
  <2>1. 0 \in Int /\ MaxGid \in Int
    BY LogType
  <2> QED BY <2>1, FS_Interval, ZenonT(40)
<1>2. IsFiniteSet(BOOLEAN)
  <2>1. BOOLEAN = {TRUE, FALSE}
    OBVIOUS
  <2>2. IsFiniteSet({TRUE} \cup {FALSE})
    BY FS_Singleton, FS_Union
  <2>3. {TRUE, FALSE} = {TRUE} \cup {FALSE}
    OBVIOUS
  <2> QED BY <2>1, <2>2, <2>3
<1>3. IsFiniteSet(G \X G)
  BY <1>1, FS_Product
<1>4. IsFiniteSet(T)
  <2> HIDE DEF G
  <2> QED BY <1>2, <1>3, FS_Product
<1>5. IsFiniteSet({f[t] : t \in T})
  <2> DEFINE I == {f[t] : t \in T} h == [t \in T |-> f[t]]
  <2>1. h \in Surjection(T, I)
    BY DEF Surjection
  <2> HIDE DEF I, h, T, f
  <2> QED BY <1>4, <2>1, FS_Surjection DEF I
<1>6. LogDiffs \subseteq {f[t] : t \in T}
  <2> SUFFICES ASSUME NEW d \in LogDiffs PROVE d \in {f[t] : t \in T}
    OBVIOUS
  <2>1. /\ d = LogDiff(B(d), E(d), d.isMergeable)
        /\ B(d) \in G /\ E(d) \in G /\ d.isMergeable \in BOOLEAN
    BY DiffFacts
  <2> DEFINE t == <<<<B(d), E(d)>>, d.isMergeable>>
  <2>2. t \in T
    BY <2>1
  <2>3. f[t] = d
    BY <2>1, <2>2
  <2> HIDE DEF t, T, f
  <2> QED BY <2>2, <2>3
<1> HIDE DEF T, f
<1> QED BY <1>5, <1>6, FS_Subset

\* The list of getMergeableDiffList one diff longer.
Candidates(ds, m) == {d \in ds : ~SameRange(m, d) /\ canMerge(m, d)}

Longer(ds, w) ==
    LET can == Candidates(ds, MergeAll(w))
    IN  IF can = {} THEN w ELSE Append(w, getMaxProgressDiff(can))

\* The diffs the walk may begin with.
First(ds, gid) ==
    LET from == {d \in ds : gid <= d.snapB.gidB}
    IN  {d \in from : \A e \in from : d.snapB.gidB <= e.snapB.gidB}

\* The first n diffs of v are merged into one that the next may be merged to.
Mergeable(ds, v) ==
    /\ v \in Seq(ds) /\ v # <<>>
    /\ \A n \in 2 .. Len(v) : canMerge(MergeAll(Pre(v, n - 1)), v[n])

LEMMA LongerFacts ==
    ASSUME NEW ds, ds \subseteq LogDiffs, NEW w, Mergeable(ds, w)
    PROVE  Mergeable(ds, Longer(ds, w)) /\ Longer(ds, w)[1] = w[1]
<1> DEFINE can == Candidates(ds, MergeAll(w)) d == getMaxProgressDiff(can) v == Append(w, d)
<1>1. w \in Seq(ds) /\ w # <<>> /\ \A n \in 2 .. Len(w) : canMerge(MergeAll(Pre(w, n - 1)), w[n])
  BY DEF Mergeable
<1>2. CASE can = {}
  BY <1>2 DEF Longer
<1>3. CASE can # {}
  <2>1. can \subseteq LogDiffs
    BY DEF Candidates
  <2>2. d \in can
    <3> HIDE DEF can
    <3> QED BY <1>3, <2>1, MaxProgress
  <2>3. d \in ds /\ canMerge(MergeAll(w), d)
    BY <2>2 DEF Candidates
  <2>4. Longer(ds, w) = v
    BY <1>3 DEF Longer
  <2> HIDE DEF d
  <2>5. /\ v \in Seq(ds) /\ v # <<>> /\ Len(v) = Len(w) + 1 /\ Len(w) \in Nat /\ Len(w) >= 1
        /\ v[Len(v)] = d /\ \A i \in 1 .. Len(w) : v[i] = w[i]
    BY <1>1, <2>3
  <2>6. ASSUME NEW n \in 1 .. Len(w)
        PROVE  Pre(v, n) = Pre(w, n)
    BY <1>1, <2>3 DEF Pre
  <2>7. Pre(w, Len(w)) = w
    BY <1>1 DEF Pre
  <2> HIDE DEF v
  <2>8. ASSUME NEW n \in 2 .. Len(v)
        PROVE  canMerge(MergeAll(Pre(v, n - 1)), v[n])
    <3>1. n - 1 \in 1 .. Len(w)
      BY <2>5
    <3>2. Pre(v, n - 1) = Pre(w, n - 1)
      BY <2>6, <3>1
    <3>3. CASE n = Len(v)
      <4>1. n - 1 = Len(w) /\ v[n] = d
        BY <2>5, <3>3
      <4> QED BY <2>3, <2>7, <3>2, <4>1
    <3>4. CASE n # Len(v)
      <4>1. n \in 2 .. Len(w) /\ v[n] = w[n]
        BY <2>5, <3>4
      <4> QED BY <1>1, <3>2, <4>1
    <3> QED BY <3>3, <3>4
  <2>9. Mergeable(ds, v) /\ v[1] = w[1]
    BY <2>5, <2>8 DEF Mergeable
  <2> QED BY <2>4, <2>9
<1> QED BY <1>2, <1>3

MergeWalk(ds, gid) ==
    CHOOSE f : f = [n \in 1 .. Cardinality(ds) |->
        IF n = 1 THEN <<getMaxProgressDiff(First(ds, gid))>> ELSE Longer(ds, f[n - 1])]

LEMMA MergeWalkDef ==
    ASSUME NEW ds, NEW gid, Cardinality(ds) \in Nat \ {0}
    PROVE  LET f == MergeWalk(ds, gid)
           IN  /\ f[1] = <<getMaxProgressDiff(First(ds, gid))>>
               /\ \A n \in 2 .. Cardinality(ds) : f[n] = Longer(ds, f[n - 1])
<1> DEFINE C == Cardinality(ds) a == <<getMaxProgressDiff(First(ds, gid))>>
           Is(f, N) == f = [n \in 1 .. N |-> IF n = 1 THEN a ELSE Longer(ds, f[n - 1])]
           Ok == {N \in 1 .. C : \E f : Is(f, N)}
<1> HIDE DEF C, a
<1>0. C \in Nat /\ C >= 1
  BY DEF C
<1>1. 1 \in Ok
  <2> DEFINE g == [n \in 1 .. 1 |-> a]
  <2>1. Is(g, 1)
    OBVIOUS
  <2>2. 1 \in 1 .. C
    BY <1>0
  <2> HIDE DEF g
  <2> QED BY <2>1, <2>2
<1>2. ASSUME NEW N \in 2 .. C, N - 1 \in Ok
      PROVE  N \in Ok
  <2>1. PICK f : Is(f, N - 1)
    BY <1>2
  <2> DEFINE g == [n \in 1 .. N |-> IF n < N THEN f[n] ELSE Longer(ds, f[N - 1])]
  <2>2. ASSUME NEW n \in 1 .. N
        PROVE  g[n] = IF n = 1 THEN a ELSE Longer(ds, g[n - 1])
    <3>1. CASE n = N
      BY <3>1
    <3>2. CASE n < N
      <4>1. n \in 1 .. N - 1
        BY <3>2
      <4>2. f[n] = IF n = 1 THEN a ELSE Longer(ds, f[n - 1])
        BY <2>1, <4>1
      <4>3. n # 1 => g[n - 1] = f[n - 1]
        BY <4>1
      <4> QED BY <3>2, <4>2, <4>3
    <3> QED BY <3>1, <3>2
  <2>3. DOMAIN g = 1 .. N /\ g = [n \in 1 .. N |-> g[n]]
    OBVIOUS
  <2> HIDE DEF g
  <2>4. Is(g, N)
    BY <2>2, <2>3
  <2>5. N \in 1 .. C
    BY <1>0
  <2> QED BY <2>4, <2>5
<1>3. C \in Ok
  <2> HIDE DEF Ok
  <2>1. \A n \in 1 .. C : n \in Ok
    BY <1>0, <1>1, <1>2, UpFrom1
  <2> QED BY <1>0, <2>1
<1>4. Is(MergeWalk(ds, gid), C)
  BY <1>3 DEF MergeWalk, a, C
<1> HIDE DEF Ok
<1> QED BY <1>0, <1>4 DEF a, C

\* The list of getMergeableDiffList.
LEMMA MergeableFacts ==
    ASSUME NEW ds, ds \subseteq LogDiffs, NEW gid \in Nat, getMergeableDiffList(ds, gid) # <<>>
    PROVE  LET v == getMergeableDiffList(ds, gid)
           IN  /\ Mergeable(ds, v)
               /\ \A d \in ds : B(d) = B(v[1]) => E(d) <= E(v[1])
<1> DEFINE C == Cardinality(ds) f == MergeWalk(ds, gid) a == getMaxProgressDiff(First(ds, gid))
           from == {d \in ds : gid <= d.snapB.gidB}
<1>1. from # {} /\ getMergeableDiffList(ds, gid) = f[C]
  BY DEF getMergeableDiffList, MergeWalk, Longer, Candidates, First
<1>2. IsFiniteSet(ds)
  BY LogDiffsFinite, FS_Subset
<1>3. C \in Nat /\ C # 0
  BY <1>1, <1>2, FS_CardinalityType, FS_EmptySet
<1>4. f[1] = <<a>> /\ \A n \in 2 .. C : f[n] = Longer(ds, f[n - 1])
  BY <1>3, MergeWalkDef
<1>5. First(ds, gid) # {} /\ First(ds, gid) \subseteq ds
  <2> DEFINE Bs == {d.snapB.gidB : d \in from}
  <2>1. \A d \in ds : d.snapB.gidB \in Nat
    <3>1. \A d \in ds : B(d) \in Nat
      BY DiffFacts
    <3> QED BY <3>1 DEF B
  <2>2. Bs \subseteq Nat /\ Bs # {}
    BY <1>1, <2>1
  <2>3. PICK x \in Bs : \A y \in Bs : x <= y
    <3> HIDE DEF Bs
    <3> QED BY <2>2, LeastNat
  <2> QED BY <2>3 DEF First
<1>6. a \in First(ds, gid) /\ \A e \in First(ds, gid) : E(e) < E(a) \/ (E(e) = E(a) /\ B(e) <= B(a))
  BY <1>5, MaxProgress
<1>7. ASSUME NEW d \in ds, B(d) = B(a)
      PROVE  E(d) <= E(a)
  <2>1. d \in First(ds, gid)
    BY <1>6, <1>7 DEF First, B
  <2>2. E(d) \in Nat /\ E(a) \in Nat
    BY <1>5, <1>6, DiffFacts
  <2> QED BY <1>6, <2>1, <2>2
<1> DEFINE Ok == {n \in 1 .. C : Mergeable(ds, f[n]) /\ f[n][1] = a}
<1> HIDE DEF f, C, a
<1>8. 1 \in Ok
  <2>1. a \in ds
    BY <1>5, <1>6
  <2>2. <<a>> \in Seq(ds) /\ <<a>> # <<>> /\ Len(<<a>>) = 1 /\ <<a>>[1] = a
    BY <2>1
  <2>3. Mergeable(ds, <<a>>)
    BY <2>2 DEF Mergeable
  <2> QED BY <1>3, <1>4, <2>2, <2>3
<1>9. ASSUME NEW n \in 2 .. C, n - 1 \in Ok
      PROVE  n \in Ok
  <2>1. Mergeable(ds, f[n - 1]) /\ f[n - 1][1] = a
    BY <1>9
  <2>2. Mergeable(ds, Longer(ds, f[n - 1])) /\ Longer(ds, f[n - 1])[1] = a
    BY <2>1, LongerFacts
  <2>3. n \in 1 .. C
    BY <1>3
  <2> QED BY <1>4, <2>2, <2>3
<1>10. C \in Ok
  <2> HIDE DEF Ok
  <2>1. \A n \in 1 .. C : n \in Ok
    BY <1>3, <1>8, <1>9, UpFrom1
  <2> QED BY <1>3, <2>1
<1> QED BY <1>1, <1>7, <1>10

\* What the first diffs of the list are merged into.
LEMMA MergedFacts ==
    ASSUME NEW ds, ds \subseteq LogDiffs, NEW v, Mergeable(ds, v), NEW n \in 1 .. Len(v)
    PROVE  LET m == MergeAll(Pre(v, n))
           IN  /\ m \in LogDiffs /\ B(m) = B(v[1]) /\ E(m) = E(v[n])
               /\ \A i \in 1 .. n : B(m) <= B(v[i]) /\ E(v[i]) <= E(m) /\ (i < n => E(v[i]) < E(m))
               /\ \A g \in Nat : Keeps(ds, g) => Keeps({m}, g)
<1> DEFINE M(k) == MergeAll(Pre(v, k))
           Ok == {k \in 1 .. Len(v) :
                    /\ M(k) \in LogDiffs /\ B(M(k)) = B(v[1]) /\ E(M(k)) = E(v[k])
                    /\ \A i \in 1 .. k : B(M(k)) <= B(v[i]) /\ E(v[i]) <= E(M(k)) /\ (i < k => E(v[i]) < E(M(k)))
                    /\ \A g \in Nat : Keeps(ds, g) => Keeps({M(k)}, g)}
<1>0. v \in Seq(ds) /\ v # <<>> /\ Len(v) \in Nat /\ Len(v) >= 1
  BY DEF Mergeable
<1>1. M(1) = v[1] /\ \A k \in 2 .. Len(v) : M(k) = merge(M(k - 1), v[k]) /\ canMerge(M(k - 1), v[k])
  BY <1>0, MergeAllPre DEF Mergeable
<1>2. ASSUME NEW i \in 1 .. Len(v)
      PROVE  v[i] \in ds /\ v[i] \in LogDiffs /\ B(v[i]) \in Nat /\ E(v[i]) \in Nat
  <2>1. v[i] \in ds
    BY <1>0
  <2> QED BY <2>1, DiffFacts
<1> HIDE DEF M
<1>3. 1 \in Ok
  <2>1. 1 \in 1 .. Len(v)
    BY <1>0
  <2>2. \A g \in Nat : Keeps(ds, g) => Keeps({v[1]}, g)
    BY <1>2, <2>1 DEF Keeps
  <2>3. v[1] \in LogDiffs /\ B(v[1]) \in Nat /\ E(v[1]) \in Nat
    BY <1>2, <2>1
  <2>4. \A i \in 1 .. 1 : i = 1
    OBVIOUS
  <2>5. \A i \in 1 .. 1 : B(v[1]) <= B(v[i]) /\ E(v[i]) <= E(v[1]) /\ (i < 1 => E(v[i]) < E(v[1]))
    BY <2>3, <2>4
  <2> QED BY <1>1, <2>1, <2>2, <2>3, <2>5
<1>4. ASSUME NEW k \in 2 .. Len(v), k - 1 \in Ok
      PROVE  k \in Ok
  <2> DEFINE p == M(k - 1) d == v[k] q == M(k)
  <2>1. /\ p \in LogDiffs /\ B(p) = B(v[1]) /\ E(p) = E(v[k - 1])
        /\ \A i \in 1 .. k - 1 : B(p) <= B(v[i]) /\ E(v[i]) <= E(p)
        /\ \A g \in Nat : Keeps(ds, g) => Keeps({p}, g)
    BY <1>4
  <2>2. q = merge(p, d) /\ canMerge(p, d) /\ d \in LogDiffs /\ d \in ds /\ k \in 1 .. Len(v)
    BY <1>1, <1>2
  <2> HIDE DEF p, d, q
  <2>3. /\ q \in LogDiffs /\ B(q) = B(p) /\ E(q) = E(d) /\ q.isMergeable = p.isMergeable
        /\ B(p) <= B(d) /\ B(d) <= E(p) /\ E(p) < E(d) /\ d.isMergeable
    BY <2>1, <2>2, MergeFacts
  <2>4. B(p) \in Nat /\ E(p) \in Nat /\ B(d) \in Nat /\ E(d) \in Nat
    BY <2>1, <2>2, DiffFacts
  <2>5. ASSUME NEW i \in 1 .. k
        PROVE  B(q) <= B(v[i]) /\ E(v[i]) <= E(q) /\ (i < k => E(v[i]) < E(q))
    <3>1. CASE i = k
      BY <2>3, <2>4, <3>1 DEF d
    <3>2. CASE i # k
      <4>1. i \in 1 .. k - 1 /\ i \in 1 .. Len(v)
        BY <3>2
      <4>2. B(p) <= B(v[i]) /\ E(v[i]) <= E(p) /\ E(v[i]) \in Nat
        BY <1>2, <2>1, <4>1
      <4> QED BY <2>3, <2>4, <4>2
    <3> QED BY <3>1, <3>2
  <2>6. ASSUME NEW g \in Nat, Keeps(ds, g)
        PROVE  Keeps({q}, g)
    <3>1. ~(B(p) < g /\ g < E(p)) /\ (B(p) = g => ~p.isMergeable)
      BY <2>1, <2>6 DEF Keeps, B, E
    <3>2. ~(B(d) < g /\ g < E(d)) /\ (B(d) = g => ~d.isMergeable)
      BY <2>2, <2>6 DEF Keeps, B, E
    <3>3. ~(B(q) < g /\ g < E(q)) /\ (B(q) = g => ~q.isMergeable)
      BY <2>3, <2>4, <3>1, <3>2
    <3> QED BY <3>3 DEF Keeps, B, E
  <2> QED BY <2>1, <2>2, <2>3, <2>5, <2>6 DEF p, d, q
<1>5. n \in Ok
  <2> HIDE DEF Ok
  <2>1. \A k \in 1 .. Len(v) : k \in Ok
    BY <1>0, <1>3, <1>4, UpFrom1
  <2> QED BY <2>1
<1> QED BY <1>5 DEF M

-----------------------------------------------------------------------------
(* The lists of apply and restore. *)

\* The beginning of a walk is a walk.
LEMMA WalkPre ==
    ASSUME NEW ds, ds \subseteq LogDiffs, NEW g \in 0 .. MaxGid, NEW v \in Seq(ds), Walk(ds, g, v),
           NEW n \in 0 .. Len(v)
    PROVE  Pre(v, n) \in Seq(ds) /\ Len(Pre(v, n)) = n /\ Walk(ds, g, Pre(v, n))
<1>1. /\ Pre(v, n) \in Seq(ds) /\ Len(Pre(v, n)) = n /\ n \in Nat
      /\ \A k \in 1 .. n : Pre(v, n)[k] = v[k]
  BY PreFacts
<1>2. ASSUME NEW i \in 1 .. n
      PROVE  LET can == Avail(ds, At(g, Pre(v, n), i - 1))
             IN  can # {} /\ Pre(v, n)[i] = getMaxProgressDiff(can)
  <2>1. At(g, Pre(v, n), i - 1) = At(g, v, i - 1)
    <3>1. i # 1 => i - 1 \in 1 .. n
      BY <1>1
    <3> QED BY <1>1, <3>1 DEF At
  <2>2. Pre(v, n)[i] = v[i] /\ i \in 1 .. Len(v)
    BY <1>1
  <2> QED BY <2>1, <2>2 DEF Walk
<1> QED BY <1>1, <1>2 DEF Walk

LEMMA FirstDiffsPre ==
    ASSUME NEW S, NEW v \in Seq(S), NEW max \in Nat
    PROVE  \E n \in 0 .. Len(v) : /\ FirstDiffs(v, max) = Pre(v, n)
                                  /\ v # <<>> => n > 0
                                  /\ max = 0 => n = Len(v)
<1>0. Len(v) \in Nat /\ (v # <<>> => Len(v) > 0)
  OBVIOUS
<1>1. CASE max > 0 /\ Len(v) > max
  BY <1>0, <1>1 DEF FirstDiffs, Pre
<1>2. CASE ~(max > 0 /\ Len(v) > max)
  <2>1. Pre(v, Len(v)) = v
    BY <1>0, PreFacts
  <2>2. FirstDiffs(v, max) = v
    BY <1>2 DEF FirstDiffs
  <2> QED BY <1>0, <2>1, <2>2
<1> QED BY <1>1, <1>2

LEMMA MinimumFacts ==
    ASSUME NEW ds, ds \subseteq LogDiffs, NEW st, Labelled(st)
    PROVE  LET w == getMinimumApplicableDiffList(ds, st)
           IN  w \in Seq(ds) /\ Walk(ds, st.snapB.gidB, w)
<1>1. CASE st.isApplying
  <2>1. st.snapB \in MetaSnap /\ st.snapE.gidB \in Nat
    BY <1>1, LogType DEF Labelled, MetaState
  <2> QED BY <1>1, <2>1, WalkFacts DEF getMinimumApplicableDiffList
<1>2. CASE ~st.isApplying
  <2>1. getMinimumApplicableDiffList(ds, st) = <<>>
    BY <1>2 DEF getMinimumApplicableDiffList
  <2>2. <<>> \in Seq(ds) /\ Len(<<>>) = 0
    OBVIOUS
  <2> QED BY <2>1, <2>2 DEF Walk
<1> QED BY <1>1, <1>2

\* The list of apply is a walk, and not shorter than the one an interrupted apply
\* asks for.
LEMMA ToApplyFacts ==
    ASSUME NEW ds, ds \subseteq LogDiffs, NEW st, Labelled(st), NEW gid \in Nat, NEW max \in Nat,
           getDiffListToApply(ds, st, gid, max) # <<>>
    PROVE  LET v == getDiffListToApply(ds, st, gid, max)
               g == st.snapB.gidB
               e == At(g, v, Len(v))
           IN  /\ v \in Seq(ds) /\ Walk(ds, g, v) /\ v \in Seq(LogDiffs) /\ Chain(g, v)
               /\ Len(getMinimumApplicableDiffList(ds, st)) <= Len(v)
               /\ e = E(v[Len(v)]) /\ v[Len(v)] \in ds /\ g < e /\ e \in 0 .. MaxGid
               /\ ApplyAll(st.snapB, v) \in MetaSnap /\ CanApplyAll(st.snapB, v)
               /\ ApplyAll(st.snapB, v).gidB = e /\ ApplyAll(st.snapB, v).gidE = Larger(e, st.snapB.gidE)
<1> DEFINE g == st.snapB.gidB
           a == getApplicableDiffListByGid(ds, st.snapB, gid)
           w == getMinimumApplicableDiffList(ds, st)
           v == getDiffListToApply(ds, st, gid, max)
           e == At(g, v, Len(v))
<1>0. st.snapB \in MetaSnap /\ g \in 0 .. MaxGid
  BY DEF Labelled, MetaState
<1>1. a \in Seq(ds) /\ Walk(ds, g, a)
  BY <1>0, WalkFacts
<1>2. w \in Seq(ds) /\ Walk(ds, g, w)
  BY MinimumFacts
<1>3. v = IF Len(w) > Len(FirstDiffs(a, max)) THEN w ELSE FirstDiffs(a, max)
  BY DEF getDiffListToApply
<1>4. v # <<>>
  OBVIOUS
<1> HIDE DEF a, w, v, g
<1>5. PICK n \in 0 .. Len(a) : FirstDiffs(a, max) = Pre(a, n)
  BY <1>1, FirstDiffsPre
<1>6. Pre(a, n) \in Seq(ds) /\ Walk(ds, g, Pre(a, n))
  BY <1>0, <1>1, WalkPre
<1>7. v \in Seq(ds) /\ Walk(ds, g, v) /\ Len(w) <= Len(v)
  <2>1. Len(w) \in Nat /\ Len(Pre(a, n)) \in Nat
    BY <1>2, <1>6
  <2> QED BY <1>2, <1>3, <1>5, <1>6, <2>1
<1>8. v \in Seq(LogDiffs) /\ Chain(g, v)
  BY <1>0, <1>7, WalkChain
<1>9. Len(v) \in 1 .. Len(v) /\ Len(v) \in Nat /\ Len(v) # 0
  BY <1>4, <1>7
<1>10. e = E(v[Len(v)]) /\ v[Len(v)] \in ds
  BY <1>7, <1>9 DEF At
<1>11. e \in 0 .. MaxGid /\ g < e
  <2>1. /\ At(g, v, Len(v) - 1) \in Nat /\ g <= At(g, v, Len(v) - 1)
        /\ At(g, v, Len(v) - 1) < e /\ e \in 0 .. MaxGid
    <3>1. Len(v) - 1 \in 0 .. Len(v) /\ Len(v) \in 0 .. Len(v)
      BY <1>9
    <3> QED BY <1>0, <1>8, <1>9, <3>1, ChainFacts
  <2> QED BY <1>0, <2>1
<1>12. /\ ApplyAll(st.snapB, v) \in MetaSnap /\ CanApplyAll(st.snapB, v)
       /\ ApplyAll(st.snapB, v).gidB = e /\ ApplyAll(st.snapB, v).gidE = Larger(e, st.snapB.gidE)
  BY <1>0, <1>8, ApplyAllFacts DEF g
<1> HIDE DEF e
<1> QED BY <1>7, <1>8, <1>10, <1>11, <1>12 DEF v, w, g, e

\* The list of restore is the beginning of one that leads to the gid asked for.
LEMMA ToRestoreFacts ==
    ASSUME NEW ds, ds \subseteq LogDiffs, NEW st, Labelled(st), NEW gid \in 0 .. MaxGid, NEW max \in Nat,
           getDiffListToRestore(ds, st, gid, max) # <<>>
    PROVE  LET v == getDiffListToRestore(ds, st, gid, max)
               all == getDiffListToSync(ds, st, Snap(gid, gid))
               g == st.snapB.gidB
               e == At(g, v, Len(v))
           IN  /\ v \in Seq(LogDiffs) /\ Chain(g, v) /\ e \in g .. gid /\ e \in 0 .. MaxGid
               /\ st.snapB.gidE <= gid
               /\ CanApplyState(st, all) /\ st.isApplying => st.snapE.gidB <= gid
               /\ ApplyAll(st.snapB, v) \in MetaSnap
               /\ ApplyAll(st.snapB, v).gidB = e /\ ApplyAll(st.snapB, v).gidE = Larger(e, st.snapB.gidE)
<1> DEFINE g == st.snapB.gidB
           a == getApplicableDiffListByGid(ds, st.snapB, gid)
           all == getDiffListToSync(ds, st, Snap(gid, gid))
           v == getDiffListToRestore(ds, st, gid, max)
           e == At(g, v, Len(v))
<1>0. st.snapB \in MetaSnap /\ g \in 0 .. MaxGid /\ gid \in Nat
  BY LogType DEF Labelled, MetaState
<1>1. a \in Seq(ds) /\ Walk(ds, g, a)
  BY <1>0, WalkFacts
<1>2. v = FirstDiffs(all, max)
  BY DEF getDiffListToRestore
<1>3. all # <<>>
  <2>1. CASE all = <<>>
    <3>1. FirstDiffs(<<>>, max) = <<>>
      <4>1. Len(<<>>) = 0
        OBVIOUS
      <4> QED BY <4>1 DEF FirstDiffs
    <3> QED BY <1>2, <2>1, <3>1
  <2> QED BY <2>1
<1>4. all = a /\ ApplyAll(st.snapB, a) = Snap(gid, gid)
  <2>1. Snap(gid, gid).gidB = gid
    BY DEF Snap
  <2> QED BY <1>3, <2>1 DEF getDiffListToSync
<1>d. g = st.snapB.gidB
  OBVIOUS
<1> HIDE DEF a, all, v, g
<1>5. a \in Seq(LogDiffs) /\ Chain(g, a)
  BY <1>0, <1>1, WalkChain
<1>6. /\ ApplyAll(st.snapB, a).gidB = At(g, a, Len(a))
      /\ ApplyAll(st.snapB, a).gidE = Larger(At(g, a, Len(a)), st.snapB.gidE)
  BY <1>0, <1>5, ApplyAllFacts DEF g
<1>7. At(g, a, Len(a)) = gid /\ Larger(gid, st.snapB.gidE) = gid
  BY <1>4, <1>6 DEF Snap
<1>8. st.snapB.gidE <= gid
  <2>1. st.snapB.gidE \in Nat
    BY <1>0 DEF MetaSnap
  <2> QED BY <1>0, <1>7, <2>1 DEF Larger
<1>9. PICK n \in 0 .. Len(a) : v = Pre(a, n)
  BY <1>1, <1>2, <1>4, FirstDiffsPre
<1>10. v \in Seq(LogDiffs) /\ Chain(g, v) /\ Len(v) = n /\ At(g, v, n) = At(g, a, n)
  <2>1. n \in 0 .. n
    BY <1>1
  <2> QED BY <1>0, <1>5, <1>9, <2>1, ChainPre
<1>11. e \in 0 .. MaxGid /\ g <= e /\ e <= gid
  <2>1. At(g, a, n) <= At(g, a, Len(a))
    <3>1. Len(a) \in 0 .. Len(a) /\ n \in 0 .. Len(a)
      BY <1>1
    <3> QED BY <1>0, <1>5, <3>1, ChainRises
  <2>2. e = At(g, a, n)
    BY <1>10
  <2>3. e \in 0 .. MaxGid /\ g <= e
    BY <1>0, <1>5, <2>2, ChainFacts
  <2> QED BY <1>7, <2>1, <2>2, <2>3
<1>12. /\ ApplyAll(st.snapB, v) \in MetaSnap
       /\ ApplyAll(st.snapB, v).gidB = e /\ ApplyAll(st.snapB, v).gidE = Larger(e, st.snapB.gidE)
  BY <1>0, <1>10, ApplyAllFacts DEF g
<1>13. CanApplyState(st, all) /\ st.isApplying => st.snapE.gidB <= gid
  BY <1>4 DEF CanApplyState, Snap
<1>14. e \in g .. gid
  BY <1>0, <1>11
<1> HIDE DEF e
<1> QED BY <1>8, <1>10, <1>11, <1>12, <1>13, <1>14 DEF v, all, g, e

-----------------------------------------------------------------------------
(* What a step leaves alone. *)

LEMMA LabelKept ==
    ASSUME LabelInv, UNCHANGED <<metaSt, base, latest, acked, overtaken>>
    PROVE  LabelInv'
BY DEF LabelInv

LEMMA DiffsKept ==
    ASSUME DiffsInv, UNCHANGED <<metaSt, files, mgr, latest>>
    PROVE  DiffsInv'
BY DEF DiffsInv

LEMMA SnapshotsKept ==
    ASSUME KeptInv, kept' \subseteq kept, files' \subseteq files
    PROVE  KeptInv'
BY DEF KeptInv, Keeps

LEMMA ApplyKept ==
    ASSUME ApplyInv, ap' = ap, UNCHANGED <<metaSt, base>>,
           ap.pc # "idle" => mg'.pc = "idle", ap.pc = "unlink" => Unlinked(ap.todo)'
    PROVE  ApplyInv'
BY DEF ApplyInv

LEMMA MergeKept ==
    ASSUME MergeInv, mg' = mg, kept' \subseteq kept,
           mg.pc \in {"save", "add", "erase"} => E(MergeAll(mg.list)) <= latest'.gidB,
           mg.pc \in {"save", "add"} => CanAdd(MergeAll(mg.list))',
           mg.pc = "add" => MergeAll(mg.list) \in files',
           mg.pc = "erase" => MergeAll(mg.list) \in mgr',
           mg.pc = "unlink" => Unlinked(mg.todo)'
    PROVE  MergeInv'
BY DEF MergeInv

LEMMA RecvKept ==
    ASSUME RecvInv, UNCHANGED <<rv, latest>>, rv.pc = "add" => rv.diff \subseteq files'
    PROVE  RecvInv'
BY DEF RecvInv

LEMMA RestoreKept ==
    ASSUME RestoreInv, UNCHANGED <<rs, overtaken>>
    PROVE  RestoreInv'
BY DEF RestoreInv

LEMMA BaseKept ==
    ASSUME BaseInv, UNCHANGED <<metaSt, base, overtaken>>
    PROVE  BaseInv'
BY DEF BaseInv

LEMMA RestoredKept ==
    ASSUME RestoredInv, restored' = restored
    PROVE  RestoredInv'
BY DEF RestoredInv, RestoredExact

\* All but what the procedures are about to do.
LEMMA VolumeKept ==
    ASSUME IInv, UNCHANGED <<disk, mgr, latest, acked, kept, overtaken>>
    PROVE  /\ LabelInv' /\ DiffsInv' /\ KeptInv' /\ BaseInv'
           /\ ap' = ap /\ mg' = mg => ApplyInv'
           /\ mg' = mg => MergeInv'
           /\ rv' = rv => RecvInv'
           /\ rs' = rs => RestoreInv'
           /\ restored' = restored => RestoredInv'
<1>1. UNCHANGED <<metaSt, base, files>> /\ UNCHANGED <<mgr, latest, acked, kept, overtaken>>
  BY DEF disk
<1>2. LabelInv' /\ DiffsInv' /\ KeptInv' /\ BaseInv'
  BY <1>1, LabelKept, DiffsKept, SnapshotsKept, BaseKept DEF IInv
<1>3. ASSUME ap' = ap, mg' = mg PROVE ApplyInv'
  BY <1>1, <1>3, ApplyKept DEF IInv, ApplyInv, Unlinked
<1>4. ASSUME mg' = mg PROVE MergeInv'
  BY <1>1, <1>4, MergeKept DEF IInv, MergeInv, Unlinked, CanAdd
<1>5. ASSUME rv' = rv PROVE RecvInv'
  BY <1>1, <1>5, RecvKept DEF IInv, RecvInv
<1>6. ASSUME rs' = rs PROVE RestoreInv'
  BY <1>1, <1>6, RestoreKept DEF IInv
<1>7. ASSUME restored' = restored PROVE RestoredInv'
  BY <1>7, RestoredKept DEF IInv
<1> QED BY <1>2, <1>3, <1>4, <1>5, <1>6, <1>7

LEMMA LabelFacts ==
    ASSUME LabelInv
    PROVE  /\ Labelled(metaSt) /\ metaSt.snapB \in MetaSnap /\ metaSt.snapE \in MetaSnap
           /\ metaSt.snapB.gidB \in Nat /\ metaSt.snapB.gidE \in Nat /\ metaSt.snapB.gidB <= metaSt.snapB.gidE
           /\ metaSt.snapE.gidB \in Nat /\ metaSt.isApplying \in BOOLEAN
           /\ metaSt.snapB.gidE <= MaxGid
           /\ Reach(metaSt) \in 0 .. MaxGid /\ metaSt.snapB.gidE <= Reach(metaSt)
<1>1. metaSt.snapB \in MetaSnap /\ metaSt.snapE \in MetaSnap /\ metaSt.isApplying \in BOOLEAN
  BY DEF LabelInv, MetaState
<1>2. /\ metaSt.snapB.gidB \in Nat /\ metaSt.snapB.gidE \in Nat /\ metaSt.snapB.gidB <= metaSt.snapB.gidE
      /\ metaSt.snapE.gidB \in Nat
  BY <1>1 DEF MetaSnap
<1>3. /\ metaSt.snapB.gidB \in 0 .. MaxGid /\ metaSt.snapB.gidE \in 0 .. MaxGid /\ metaSt.snapB.gidE <= MaxGid
      /\ metaSt.isApplying => metaSt.snapE.gidB \in 0 .. MaxGid
  BY <1>2, LogType DEF LabelInv
<1>4. Reach(metaSt) \in 0 .. MaxGid /\ metaSt.snapB.gidE <= Reach(metaSt)
  BY <1>1, <1>2, <1>3, LogType DEF Reach, Larger
<1>5. Labelled(metaSt)
  BY <1>3 DEF Labelled, LabelInv
<1> QED BY <1>1, <1>2, <1>3, <1>4, <1>5

\* A procedure at rest.
LEMMA NoProcedures ==
    /\ Labelled(NoRestore.st)
    /\ NoApply \in ApplyRec /\ NoMerge \in MergeRec /\ NoRecv \in RecvRec /\ NoRestore \in RestoreRec
    /\ NoApply.pc = "idle" /\ NoMerge.pc = "idle" /\ NoRecv.pc = "idle" /\ NoRestore.pc = "idle"
<1>1. <<>> \in Seq(LogDiffs) /\ 0 \in 0 .. MaxGid
  BY LogType
<1>2. Snap(0, 0) \in MetaSnap
  BY DEF MetaSnap, Snap
<1>3. Settled(Snap(0, 0)) \in MetaState
  BY <1>2 DEF Settled, MetaState
<1>4. [b \in Blocks |-> 0] \in Image
  BY LogType DEF Image
<1>5. NoApply \in ApplyRec /\ NoApply.pc = "idle"
  BY <1>1 DEF NoApply, ApplyRec
<1>6. NoMerge \in MergeRec /\ NoMerge.pc = "idle"
  BY <1>1 DEF NoMerge, MergeRec
<1>7. NoRecv \in RecvRec /\ NoRecv.pc = "idle"
  BY <1>2 DEF NoRecv, RecvRec
<1>8. NoRestore \in RestoreRec /\ NoRestore.pc = "idle"
  BY <1>1, <1>3, <1>4 DEF NoRestore, RestoreRec
<1>9. Labelled(NoRestore.st)
  BY <1>1, <1>3 DEF NoRestore, Labelled, Settled, Snap
<1> QED BY <1>5, <1>6, <1>7, <1>8, <1>9

LEMMA InitInv == Init => IInv
<1> SUFFICES ASSUME Init PROVE IInv
  OBVIOUS
<1>1. PICK gidE \in 0 .. MaxGid :
        /\ metaSt = Settled(Snap(0, gidE))
        /\ base \in {[b \in Blocks |-> Truth(at[b])[b]] : at \in [Blocks -> 0 .. gidE]}
  BY DEF Init
<1>2. PICK at \in [Blocks -> 0 .. gidE] : base = [b \in Blocks |-> Truth(at[b])[b]]
  BY <1>1
<1>3. Snap(0, gidE) \in MetaSnap /\ Snap(0, 0) \in MetaSnap /\ gidE \in Nat
  BY LogType DEF MetaSnap, Snap
<1>4. /\ metaSt \in MetaState /\ ~metaSt.isApplying
      /\ metaSt.snapB = Snap(0, gidE) /\ metaSt.snapB.gidB = 0 /\ metaSt.snapB.gidE = gidE
  BY <1>1, <1>3 DEF MetaState, Settled, Snap
<1>5. base \in Image
  <2>1. \A b \in Blocks : Truth(at[b])[b] \in 0 .. MaxGid
    <3> SUFFICES ASSUME NEW b \in Blocks PROVE Truth(at[b])[b] \in 0 .. MaxGid
      OBVIOUS
    <3>1. at[b] \in 0 .. MaxGid
      BY <1>3, LogType
    <3> QED BY <3>1, TruthType
  <2> QED BY <1>2, <2>1 DEF Image
<1>6. LabelInv
  <2>1. latest \in MetaSnap /\ latest.gidB = 0 /\ latest.gidE = gidE /\ acked = 0 /\ overtaken = FALSE
    BY <1>3, <1>4 DEF Init
  <2>2. 0 \in 0 .. MaxGid /\ gidE \in 0 .. MaxGid
    BY LogType
  <2>3. /\ acked <= latest.gidB /\ metaSt.snapB.gidB <= latest.gidB /\ metaSt.snapB.gidE <= latest.gidE
    BY <1>3, <1>4, <2>1
  <2>4. overtaken \in BOOLEAN
    BY <2>1
  <2> QED BY <1>4, <1>5, <2>1, <2>2, <2>3, <2>4, Zenon DEF LabelInv
<1>7. DiffsInv
  BY <1>4 DEF Init, DiffsInv
<1>8. KeptInv
  BY LogType DEF Init, KeptInv, Keeps
<1>9. ApplyInv /\ MergeInv
  BY NoProcedures DEF Init, ApplyInv, MergeInv
<1>10. RecvInv
  BY NoProcedures DEF Init, RecvInv
<1>11. RestoreInv
  BY NoProcedures DEF Init, RestoreInv
<1>12. BaseInv
  <2>1. Between(base, 0, gidE)
    BY <1>2 DEF Between
  <2> QED BY <1>4, <2>1 DEF BaseInv, Reach
<1>13. RestoredInv
  <2>1. restored = [g \in {} |-> 0]
    BY DEF Init
  <2> QED BY <2>1 DEF RestoredInv, RestoredExact
<1> QED BY <1>6, <1>7, <1>8, <1>9, <1>10, <1>11, <1>12, <1>13 DEF IInv

-----------------------------------------------------------------------------
(* Apply. *)

LEMMA StartApplyInv == ASSUME IInv, StartApply PROVE IInv'
<1>1. /\ UNCHANGED <<disk, mgr, latest, acked, kept, overtaken>> /\ UNCHANGED <<mg, rs, rv, restored>>
      /\ mg.pc = "idle"
  BY DEF StartApply, Idle
<1>2. /\ ap'.pc = "list"
      /\ ap' \in ApplyRec
  <2>1. PICK gid \in 1 .. MaxGid : ap' = [NoApply EXCEPT !.pc = "list", !.gid = gid]
    BY DEF StartApply
  <2>2. <<>> \in Seq(LogDiffs) /\ gid \in 0 .. MaxGid
    OBVIOUS
  <2>3. ap' = [pc |-> "list", gid |-> gid, list |-> <<>>, todo |-> {}]
    BY <2>1 DEF NoApply
  <2> QED BY <2>2, <2>3 DEF ApplyRec
<1>3. ApplyInv'
  BY <1>1, <1>2 DEF ApplyInv
<1> QED BY <1>1, <1>3, VolumeKept DEF IInv

LEMMA ApplyLeft ==
    ASSUME IInv, ap' = NoApply,
           UNCHANGED <<disk, mgr, latest, acked, kept, mg, rs, rv, restored, overtaken, crashes>>
    PROVE  IInv'
<1>1. UNCHANGED <<disk, mgr, latest, acked, kept, overtaken>> /\ UNCHANGED <<mg, rs, rv, restored>>
  OBVIOUS
<1>2. ApplyInv'
  BY NoProcedures DEF ApplyInv
<1> QED BY <1>1, <1>2, VolumeKept DEF IInv

LEMMA ApplyDoneInv == ASSUME IInv, ApplyDone PROVE IInv'
BY ApplyLeft DEF ApplyDone

LEMMA ApplyStoppedInv == ASSUME IInv, ApplyStopped PROVE IInv'
BY ApplyLeft DEF ApplyStopped

\* The diffs that are applied reach as far as an interrupted apply had, or the
\* image is overtaken.
LEMMA ApplyBeginInv == ASSUME IInv, ApplyBegin PROVE IInv'
<1> DEFINE v == getDiffListToApply(mgr, metaSt, ap.gid, MaxOpenDiffs)
           g == metaSt.snapB.gidB
           e == At(g, v, Len(v))
<1>1. /\ ap.pc = "list" /\ v # <<>> /\ metaSt' = beginApplying(metaSt, v)
      /\ overtaken' = (overtaken \/ ~CanApplyState(metaSt, v))
      /\ ap' = [ap EXCEPT !.pc = "write", !.list = v, !.todo = DOMAIN MergedData(v)]
      /\ UNCHANGED <<base, files, mgr, latest, acked, kept, mg, rs, rv, restored>>
  BY DEF ApplyBegin
<1>2. LabelInv /\ DiffsInv /\ KeptInv /\ ApplyInv /\ MergeInv /\ RecvInv /\ RestoreInv /\ BaseInv /\ RestoredInv
  BY DEF IInv
<1>3. mgr \subseteq LogDiffs /\ ap.gid \in Nat /\ MaxOpenDiffs \in Nat /\ mg.pc = "idle"
  BY <1>1, <1>2, LogType, AVAssumption DEF DiffsInv, ApplyInv, ApplyRec
<1>4. /\ Labelled(metaSt) /\ metaSt.snapB \in MetaSnap /\ metaSt.snapB.gidE \in Nat /\ g \in 0 .. MaxGid
      /\ g \in Nat /\ metaSt.snapE.gidB \in Nat /\ metaSt.isApplying \in BOOLEAN
  BY <1>2, LabelFacts DEF Labelled
<1>5. /\ v \in Seq(LogDiffs) /\ Chain(g, v) /\ e = E(v[Len(v)]) /\ v[Len(v)] \in mgr
      /\ g < e /\ e \in 0 .. MaxGid /\ ApplyAll(metaSt.snapB, v) \in MetaSnap /\ ApplyAll(metaSt.snapB, v).gidB = e
  <2>1. Labelled(metaSt) /\ v # <<>>
    BY <1>1, <1>4
  <2> QED BY <1>3, <2>1, ToApplyFacts
<1>6. /\ metaSt' \in MetaState /\ metaSt'.isApplying /\ metaSt'.snapB = metaSt.snapB
      /\ metaSt'.snapE = ApplyAll(metaSt.snapB, v) /\ metaSt'.snapE.gidB = e
  BY <1>1, <1>4, <1>5 DEF beginApplying, MetaState
<1>d. g = metaSt.snapB.gidB
  OBVIOUS
<1> HIDE DEF v, e, g
<1>7. LabelInv'
  <2>1. e <= latest.gidB
    BY <1>2, <1>5 DEF DiffsInv
  <2>2. overtaken' \in BOOLEAN
    BY <1>1, Zenon
  <2>3. metaSt'.isApplying => metaSt'.snapB.gidB < metaSt'.snapE.gidB /\ metaSt'.snapE.gidB <= latest'.gidB
    BY <1>1, <1>5, <1>6, <1>d, <2>1
  <2>4. /\ base' \in Image /\ latest' \in MetaSnap /\ latest'.gidB \in 0 .. MaxGid /\ latest'.gidE \in 0 .. MaxGid
        /\ acked' \in 0 .. MaxGid /\ acked' <= latest'.gidB
        /\ metaSt'.snapB.gidB <= latest'.gidB /\ metaSt'.snapB.gidE <= latest'.gidE
    BY <1>1, <1>2, <1>6 DEF LabelInv
  <2> QED BY <1>6, <2>2, <2>3, <2>4, Zenon DEF LabelInv
<1>8. DiffsInv'
  BY <1>1, <1>2, <1>6 DEF DiffsInv
<1>9. ApplyInv'
  <2>0. v # <<>>
    BY <1>1
  <2>1. ap'.pc = "write" /\ ap'.list = v /\ ap'.todo = DOMAIN MergedData(v)
    BY <1>1, <1>2 DEF ApplyInv, ApplyRec
  <2>2. ap' \in ApplyRec
    <3>1. DOMAIN MergedData(v) \in SUBSET (Blocks \cup LogDiffs)
      BY <1>4, <1>5, MergedDataFacts
    <3> QED BY <1>1, <1>2, <1>5, <3>1 DEF ApplyInv, ApplyRec
  <2> QED BY <1>1, <1>3, <1>5, <1>6, <1>d, <2>0, <2>1, <2>2 DEF ApplyInv
<1>10. RestoreInv'
  <2>1. ~overtaken' => ~overtaken
    BY <1>1, Zenon
  <2> QED BY <1>1, <1>2, <2>1 DEF RestoreInv
<1>11. BaseInv'
  <2> SUFFICES ASSUME ~overtaken' PROVE Between(base', metaSt'.snapB.gidB, Reach(metaSt'))
    BY DEF BaseInv
  <2>1. ~overtaken /\ CanApplyState(metaSt, v)
    BY <1>1, Zenon
  <2>2. Between(base, g, Reach(metaSt))
    BY <1>2, <1>d, <2>1 DEF BaseInv
  <2>3. metaSt.isApplying => metaSt.snapE.gidB <= e
    BY <1>5, <2>1 DEF CanApplyState
  <2>4. Reach(metaSt) <= Reach(metaSt') /\ Reach(metaSt) \in Nat /\ Reach(metaSt') \in Nat
    BY <1>4, <1>5, <1>6, <2>3 DEF Reach, Larger
  <2> QED BY <1>1, <1>4, <1>6, <1>d, <2>2, <2>4 DEF Between
<1>12. KeptInv' /\ MergeInv' /\ RecvInv' /\ RestoredInv'
  <2>1. MergeInv'
    BY <1>1, <1>2, <1>3, MergeKept
  <2> QED BY <1>1, <1>2, <2>1, SnapshotsKept, RecvKept, RestoredKept DEF RecvInv
<1> QED BY <1>7, <1>8, <1>9, <1>10, <1>11, <1>12 DEF IInv

\* What is known while the blocks of an apply are written.
LEMMA WriteFacts ==
    ASSUME IInv, ap.pc = "write"
    PROVE  LET g == metaSt.snapB.gidB
               e == metaSt.snapE.gidB
           IN  /\ g \in 0 .. MaxGid /\ e \in 0 .. MaxGid /\ g < e /\ e <= latest.gidB /\ metaSt.isApplying
               /\ ap.list \in Seq(LogDiffs) /\ Chain(g, ap.list) /\ At(g, ap.list, Len(ap.list)) = e
               /\ DOMAIN MergedData(ap.list) \subseteq Blocks
               /\ \A b \in DOMAIN MergedData(ap.list) : MergedData(ap.list)[b] = Truth(e)[b]
<1> DEFINE g == metaSt.snapB.gidB e == metaSt.snapE.gidB
<1>1. /\ g \in 0 .. MaxGid /\ Labelled(metaSt)
  BY LabelFacts DEF IInv, Labelled
<1>2. /\ metaSt.isApplying /\ ap.list \in Seq(LogDiffs) /\ ap.list # <<>> /\ Chain(g, ap.list)
      /\ e = E(ap.list[Len(ap.list)])
  BY DEF IInv, ApplyInv, ApplyRec
<1>3. e \in 0 .. MaxGid /\ g < e /\ e <= latest.gidB
  BY <1>1, <1>2 DEF Labelled, IInv, LabelInv
<1>4. At(g, ap.list, Len(ap.list)) = e
  <2>1. Len(ap.list) # 0
    BY <1>2
  <2> QED BY <1>2, <2>1 DEF At
<1>5. /\ DOMAIN MergedData(ap.list) \subseteq Blocks
      /\ \A b \in DOMAIN MergedData(ap.list) : MergedData(ap.list)[b] = Truth(e)[b]
  BY <1>1, <1>2, <1>4, MergedDataFacts
<1> QED BY <1>1, <1>2, <1>3, <1>4, <1>5

LEMMA ApplyWriteInv == ASSUME IInv, ApplyWrite PROVE IInv'
<1> DEFINE g == metaSt.snapB.gidB e == metaSt.snapE.gidB D == DOMAIN MergedData(ap.list)
<1>1. PICK b \in ap.todo : /\ base' = [base EXCEPT ![b] = MergedData(ap.list)[b]]
                           /\ ap' = [ap EXCEPT !.todo = @ \ {b}]
  BY DEF ApplyWrite
<1>2. ap.pc = "write" /\ UNCHANGED <<metaSt, files, mgr, latest, acked, kept, mg, rs, rv, restored, overtaken>>
  BY DEF ApplyWrite
<1>3. LabelInv /\ DiffsInv /\ KeptInv /\ ApplyInv /\ MergeInv /\ RecvInv /\ RestoreInv /\ BaseInv /\ RestoredInv
  BY DEF IInv
<1>4. /\ g \in 0 .. MaxGid /\ e \in 0 .. MaxGid /\ g < e /\ metaSt.isApplying
      /\ D \subseteq Blocks /\ \A c \in D : MergedData(ap.list)[c] = Truth(e)[c]
  BY <1>2, WriteFacts
<1>5. b \in D /\ ap.todo \subseteq D /\ \A c \in D \ ap.todo : base[c] = Truth(e)[c]
  BY <1>2, <1>3 DEF ApplyInv
<1>6. base \in Image /\ b \in Blocks /\ base' = [base EXCEPT ![b] = Truth(e)[b]]
  BY <1>1, <1>3, <1>4, <1>5 DEF LabelInv
<1>7. base' \in Image /\ base'[b] = Truth(e)[b] /\ \A c \in Blocks : c # b => base'[c] = base[c]
  <2>1. Truth(e)[b] \in 0 .. MaxGid
    BY <1>4, <1>6, TruthType
  <2> QED BY <1>6, <2>1 DEF Image
<1>8. LabelInv'
  BY <1>2, <1>3, <1>7 DEF LabelInv
<1>9. DiffsInv' /\ KeptInv'
  BY <1>2, <1>3, DiffsKept, SnapshotsKept
<1>10. ApplyInv'
  <2>1. ap' \in ApplyRec /\ ap'.pc = "write" /\ ap'.list = ap.list /\ ap'.todo = ap.todo \ {b}
    BY <1>1, <1>2, <1>3 DEF ApplyInv, ApplyRec
  <2>2. \A c \in D \ ap'.todo : base'[c] = Truth(e)[c]
    BY <1>4, <1>5, <1>7, <2>1
  <2> QED BY <1>2, <1>3, <1>5, <2>1, <2>2 DEF ApplyInv
<1>11. MergeInv'
  <2>1. mg.pc = "idle"
    BY <1>2, <1>3 DEF ApplyInv
  <2> QED BY <1>2, <1>3, <2>1, MergeKept
<1>12. RecvInv' /\ RestoreInv' /\ RestoredInv'
  BY <1>2, <1>3, RecvKept, RestoreKept, RestoredKept DEF RecvInv
<1>13. BaseInv'
  <2> SUFFICES ASSUME ~overtaken PROVE Between(base', g, Reach(metaSt))
    BY <1>2 DEF BaseInv
  <2>1. Between(base, g, Reach(metaSt))
    BY <1>3 DEF BaseInv
  <2>2. e \in g .. Reach(metaSt)
    <3>1. metaSt.snapB.gidE \in Nat
      BY <1>3, LabelFacts
    <3> QED BY <1>4, <3>1 DEF Reach, Larger
  <2> HIDE DEF g, e
  <2> QED BY <1>7, <2>1, <2>2 DEF Between
<1> QED BY <1>8, <1>9, <1>10, <1>11, <1>12, <1>13 DEF IInv

\* The blocks are written, the others were not written to between the label's two gids.
LEMMA ApplyEndInv == ASSUME IInv, ApplyEnd PROVE IInv'
<1> DEFINE g == metaSt.snapB.gidB e == metaSt.snapE.gidB D == DOMAIN MergedData(ap.list)
<1>1. /\ ap.pc = "write" /\ ap.todo = {} /\ metaSt' = endApplying(metaSt, ap.list)
      /\ ap' = [ap EXCEPT !.pc = "remove", !.list = <<>>]
      /\ UNCHANGED <<base, files, mgr, latest, acked, kept, mg, rs, rv, restored, overtaken>>
  BY DEF ApplyEnd
<1>2. LabelInv /\ DiffsInv /\ KeptInv /\ ApplyInv /\ MergeInv /\ RecvInv /\ RestoreInv /\ BaseInv /\ RestoredInv
  BY DEF IInv
<1>3. /\ g \in 0 .. MaxGid /\ e \in 0 .. MaxGid /\ g < e /\ e <= latest.gidB /\ metaSt.isApplying
      /\ ap.list \in Seq(LogDiffs) /\ Chain(g, ap.list) /\ At(g, ap.list, Len(ap.list)) = e
      /\ D \subseteq Blocks /\ \A c \in D : MergedData(ap.list)[c] = Truth(e)[c]
  BY <1>1, WriteFacts
<1>4. \A c \in D : base[c] = Truth(e)[c]
  BY <1>1, <1>2 DEF ApplyInv
<1>5. metaSt.snapB \in MetaSnap /\ metaSt.snapB.gidE \in Nat /\ metaSt.snapB.gidE <= MaxGid
  BY <1>2, LabelFacts
<1>6. /\ ApplyAll(metaSt.snapB, ap.list) \in MetaSnap /\ ApplyAll(metaSt.snapB, ap.list).gidB = e
      /\ ApplyAll(metaSt.snapB, ap.list).gidE = Larger(e, metaSt.snapB.gidE)
  BY <1>3, <1>5, ApplyAllFacts
<1>7. /\ metaSt' \in MetaState /\ metaSt'.isApplying = FALSE /\ metaSt'.snapB.gidB = e
      /\ metaSt'.snapB.gidE = Larger(e, metaSt.snapB.gidE)
  BY <1>1, <1>6 DEF endApplying, Settled, MetaState
<1>8. LabelInv'
  <2>1. metaSt'.snapB.gidE <= latest.gidE
    <3>1. e <= latest.gidE /\ metaSt.snapB.gidE <= latest.gidE
      BY <1>2, <1>3 DEF LabelInv, MetaSnap
    <3> QED BY <1>7, <3>1 DEF Larger
  <2>2. /\ base' \in Image /\ latest' \in MetaSnap /\ latest'.gidB \in 0 .. MaxGid /\ latest'.gidE \in 0 .. MaxGid
        /\ acked' \in 0 .. MaxGid /\ acked' <= latest'.gidB /\ overtaken' \in BOOLEAN
    BY <1>1, <1>2 DEF LabelInv
  <2>3. metaSt'.snapB.gidB <= latest'.gidB /\ metaSt'.snapB.gidE <= latest'.gidE
    BY <1>1, <1>3, <1>7, <2>1
  <2> QED BY <1>7, <2>2, <2>3, Zenon DEF LabelInv
<1>9. DiffsInv'
  <2>1. ASSUME NEW c \in 0 .. MaxGid, metaSt'.snapB.gidB <= c, c < latest'.gidB
        PROVE  Covered(mgr', c)
    <3>1. g <= c /\ c < latest.gidB
      BY <1>1, <1>3, <1>7, <2>1
    <3> QED BY <1>1, <1>2, <3>1 DEF DiffsInv
  <2> QED BY <1>1, <1>2, <2>1 DEF DiffsInv
<1>10. ApplyInv'
  <2>1. ap' \in ApplyRec /\ ap'.pc = "remove"
    <3>1. <<>> \in Seq(LogDiffs)
      OBVIOUS
    <3> QED BY <1>1, <1>2, <3>1 DEF ApplyInv, ApplyRec
  <2> QED BY <1>1, <1>2, <2>1 DEF ApplyInv
<1>11. MergeInv'
  <2>1. mg.pc = "idle"
    BY <1>1, <1>2 DEF ApplyInv
  <2> QED BY <1>1, <1>2, <2>1, MergeKept
<1>12. KeptInv' /\ RecvInv' /\ RestoreInv' /\ RestoredInv'
  BY <1>1, <1>2, SnapshotsKept, RecvKept, RestoreKept, RestoredKept DEF RecvInv
<1>13. BaseInv'
  <2> SUFFICES ASSUME ~overtaken PROVE Between(base, e, Reach(metaSt'))
    BY <1>1, <1>7 DEF BaseInv
  <2>1. Between(base, g, Reach(metaSt))
    BY <1>2 DEF BaseInv
  <2>2. base \in Image /\ Reach(metaSt) \in 0 .. MaxGid
    BY <1>2, LabelFacts DEF LabelInv
  <2>3. Reach(metaSt') = Reach(metaSt) /\ e <= Reach(metaSt)
    BY <1>3, <1>5, <1>7 DEF Reach, Larger
  <2>4. Between(Patch(base, MergedData(ap.list)), e, Reach(metaSt))
    BY <1>3, <2>1, <2>2, <2>3, PatchFacts
  <2>5. Patch(base, MergedData(ap.list)) = base
    <3>1. base = [c \in Blocks |-> base[c]] /\ DOMAIN base = Blocks
      BY <2>2 DEF Image
    <3>2. \A c \in Blocks : (IF c \in D THEN MergedData(ap.list)[c] ELSE base[c]) = base[c]
      BY <1>3, <1>4
    <3> QED BY <3>1, <3>2 DEF Patch
  <2> QED BY <2>3, <2>4, <2>5
<1> QED BY <1>8, <1>9, <1>10, <1>11, <1>12, <1>13 DEF IInv

LEMMA ApplyRemoveInv == ASSUME IInv, ApplyRemove PROVE IInv'
<1>1. /\ ap.pc = "remove" /\ mgr' = eraseBeforeGid(mgr, metaSt.snapB.gidB)
      /\ ap' = [ap EXCEPT !.pc = "unlink", !.todo = mgr \ mgr']
      /\ UNCHANGED <<metaSt, base, files, latest, acked, kept, mg, rs, rv, restored, overtaken>>
  BY DEF ApplyRemove, disk
<1>2. LabelInv /\ DiffsInv /\ KeptInv /\ ApplyInv /\ MergeInv /\ RecvInv /\ RestoreInv /\ BaseInv /\ RestoredInv
  BY DEF IInv
<1>3. mgr' \subseteq mgr /\ \A d \in mgr : metaSt.snapB.gidB < E(d) => d \in mgr'
  BY <1>1 DEF eraseBeforeGid, E
<1>4. DiffsInv'
  <2>1. ASSUME NEW c \in 0 .. MaxGid, metaSt.snapB.gidB <= c, c < latest.gidB
        PROVE  Covered(mgr', c)
    <3>1. PICK d \in mgr : B(d) <= c /\ c < E(d)
      BY <1>2, <2>1 DEF DiffsInv, Covered
    <3>2. metaSt.snapB.gidB \in Nat /\ E(d) \in Nat
      BY <1>2, LabelFacts, DiffFacts DEF DiffsInv
    <3>3. metaSt.snapB.gidB < E(d)
      BY <2>1, <3>1, <3>2
    <3> QED BY <1>3, <3>1, <3>3 DEF Covered
  <2> QED BY <1>1, <1>2, <1>3, <2>1 DEF DiffsInv
<1>5. ApplyInv'
  <2>1. mgr \ mgr' \in SUBSET (Blocks \cup LogDiffs)
    BY <1>2 DEF DiffsInv
  <2>2. ap' \in ApplyRec /\ ap'.pc = "unlink" /\ ap'.todo = mgr \ mgr'
    BY <1>1, <1>2, <2>1 DEF ApplyInv, ApplyRec
  <2>3. Unlinked(ap.todo)'
    BY <1>1, <1>2, <2>2 DEF Unlinked, DiffsInv
  <2> QED BY <1>1, <1>2, <2>2, <2>3 DEF ApplyInv
<1>6. MergeInv'
  <2>1. mg.pc = "idle"
    BY <1>1, <1>2 DEF ApplyInv
  <2> QED BY <1>1, <1>2, <2>1, MergeKept
<1>7. LabelInv' /\ KeptInv' /\ RecvInv' /\ RestoreInv' /\ BaseInv' /\ RestoredInv'
  BY <1>1, <1>2, LabelKept, SnapshotsKept, RecvKept, RestoreKept, BaseKept, RestoredKept DEF RecvInv
<1> QED BY <1>4, <1>5, <1>6, <1>7 DEF IInv

LEMMA ApplyUnlinkInv == ASSUME IInv, ApplyUnlink PROVE IInv'
<1>1. /\ ap.pc = "unlink"
      /\ UNCHANGED <<metaSt, base, mgr, latest, acked, kept, mg, rs, rv, restored, overtaken>>
  BY DEF ApplyUnlink
<1>2. LabelInv /\ DiffsInv /\ KeptInv /\ ApplyInv /\ MergeInv /\ RecvInv /\ RestoreInv /\ BaseInv /\ RestoredInv
  BY DEF IInv
<1>3. Unlinked(ap.todo) /\ mg.pc = "idle"
  BY <1>1, <1>2 DEF ApplyInv
<1>4. files' \subseteq files /\ \A d \in files : d \in ap.todo \/ d \in files'
  BY DEF ApplyUnlink
<1>5. /\ ap' \in ApplyRec /\ ap'.pc \in {"unlink", "list"} /\ ap'.todo \subseteq ap.todo
  <2>1. CASE \E d \in ap.todo : ap' = [ap EXCEPT !.todo = @ \ {d}]
    BY <1>1, <1>2, <2>1 DEF ApplyInv, ApplyRec
  <2>2. CASE ap' = [ap EXCEPT !.pc = "list"]
    BY <1>1, <1>2, <2>2 DEF ApplyInv, ApplyRec
  <2> QED BY <2>1, <2>2 DEF ApplyUnlink
<1>6. DiffsInv'
  <2>1. mgr \subseteq files'
    BY <1>2, <1>3, <1>4 DEF DiffsInv, Unlinked
  <2> QED BY <1>1, <1>2, <1>4, <2>1 DEF DiffsInv
<1>7. ApplyInv'
  BY <1>1, <1>3, <1>5 DEF ApplyInv, Unlinked
<1>8. MergeInv'
  BY <1>1, <1>2, <1>3, MergeKept
<1>9. RecvInv'
  <2>1. ASSUME rv.pc = "add" PROVE rv.diff \subseteq files'
    <3>1. PICK d \in LogDiffs : rv.diff = {d} /\ latest.gidB < E(d) /\ d \in files
      BY <1>2, <2>1 DEF RecvInv
    <3>2. d \notin ap.todo
      <4>1. latest.gidB \in Nat
        BY <1>2, LogType DEF LabelInv
      <4>2. E(d) \in Nat
        BY <3>1, DiffFacts
      <4> QED BY <1>3, <3>1, <4>1, <4>2 DEF Unlinked
    <3> QED BY <1>4, <3>1, <3>2
  <2> QED BY <1>1, <1>2, <2>1, RecvKept
<1>10. LabelInv' /\ KeptInv' /\ RestoreInv' /\ BaseInv' /\ RestoredInv'
  BY <1>1, <1>2, <1>4, LabelKept, SnapshotsKept, RestoreKept, BaseKept, RestoredKept
<1> QED BY <1>6, <1>7, <1>8, <1>9, <1>10 DEF IInv

-----------------------------------------------------------------------------
(* Merge. *)

\* The list of merge is part of a list that can be merged.  What it is merged into is
\* longer than any diff with the same begin.
LEMMA StartMergeInv == ASSUME IInv, StartMerge PROVE IInv'
<1>1. /\ UNCHANGED <<disk, mgr, latest, acked, kept, overtaken>> /\ UNCHANGED <<ap, rs, rv, restored>>
      /\ UNCHANGED <<metaSt, base>> /\ ap.pc = "idle"
  BY DEF StartMerge, Idle, disk
<1>2. LabelInv /\ DiffsInv /\ KeptInv /\ ApplyInv
  BY DEF IInv
<1>3. PICK gid \in 0 .. MaxGid :
        \E n \in 2 .. Len(getMergeableDiffList(mgr, gid)) :
          mg' = [NoMerge EXCEPT !.pc = "save", !.list = SubSeq(getMergeableDiffList(mgr, gid), 1, n)]
  BY DEF StartMerge
<1> DEFINE v == getMergeableDiffList(mgr, gid)
<1>4. PICK n \in 2 .. Len(v) : mg' = [NoMerge EXCEPT !.pc = "save", !.list = Pre(v, n)]
  BY <1>3 DEF Pre
<1> DEFINE m == MergeAll(Pre(v, n))
<1>5. mgr \subseteq LogDiffs /\ mgr \subseteq files /\ gid \in Nat /\ \A d \in mgr : E(d) <= latest.gidB
  BY <1>2, LogType DEF DiffsInv
<1>6. v # <<>>
  <2>1. Len(<<>>) = 0
    OBVIOUS
  <2> QED BY <1>4, <2>1
<1>7. Mergeable(mgr, v) /\ \A d \in mgr : B(d) = B(v[1]) => E(d) <= E(v[1])
  BY <1>5, <1>6, MergeableFacts
<1> HIDE DEF v
<1>8. v \in Seq(mgr) /\ n \in 1 .. Len(v) /\ n \in 0 .. Len(v) /\ Len(v) \in Nat /\ v[1] \in mgr /\ v[n] \in mgr
  <2>1. v \in Seq(mgr)
    BY <1>7 DEF Mergeable
  <2>2. n \in 1 .. Len(v) /\ n \in 0 .. Len(v) /\ 1 \in 1 .. Len(v) /\ Len(v) \in Nat
    BY <1>4, <2>1
  <2> QED BY <2>1, <2>2
<1>9. /\ m \in LogDiffs /\ B(m) = B(v[1]) /\ E(m) = E(v[n])
      /\ \A i \in 1 .. n : B(m) <= B(v[i]) /\ E(v[i]) <= E(m) /\ (i < n => E(v[i]) < E(m))
      /\ \A g \in Nat : Keeps(mgr, g) => Keeps({m}, g)
  BY <1>5, <1>7, <1>8, MergedFacts
<1> HIDE DEF m
<1>10. /\ Pre(v, n) \in Seq(mgr) /\ Len(Pre(v, n)) = n /\ \A k \in 1 .. n : Pre(v, n)[k] = v[k]
  BY <1>8, PreFacts
<1>11. \A d \in mgr : ~SameRange(m, d)
  <2> SUFFICES ASSUME NEW d \in mgr, SameRange(m, d) PROVE FALSE
    OBVIOUS
  <2>1. B(m) = B(d) /\ E(m) = E(d)
    BY DEF SameRange, B, E
  <2>2. E(d) <= E(v[1]) /\ E(v[1]) < E(m)
    BY <1>4, <1>7, <1>8, <1>9, <2>1
  <2>3. E(d) \in Nat /\ E(v[1]) \in Nat
    BY <1>5, <1>8, DiffFacts
  <2> QED BY <2>1, <2>2, <2>3
<1>12. Pre(v, n) \in Seq(LogDiffs)
  BY <1>5, <1>10
<1>13. mg' = [pc |-> "save", list |-> Pre(v, n), todo |-> {}]
  BY <1>4 DEF NoMerge
<1>14. mg' \in MergeRec /\ mg'.pc = "save" /\ mg'.list = Pre(v, n)
  BY <1>12, <1>13 DEF MergeRec
<1>15. MergeInv'
  <2>1. E(m) <= latest'.gidB
    BY <1>1, <1>5, <1>8, <1>9
  <2>2. \A i \in 1 .. n : contains(m, v[i]) /\ ~SameRange(m, v[i])
    BY <1>8, <1>9, <1>11 DEF contains, B, E
  <2>3. \A g \in kept' : Keeps({m}, g)
    <3> SUFFICES ASSUME NEW g \in kept PROVE Keeps({m}, g)
      BY <1>1
    <3>1. g \in Nat /\ Keeps(files, g)
      BY <1>2, LogType DEF KeptInv
    <3>2. Keeps(mgr, g)
      BY <1>5, <3>1 DEF Keeps
    <3> QED BY <1>9, <3>1, <3>2
  <2>4. \A d \in mgr' : ~SameRange(m, d)
    BY <1>1, <1>11
  <2>5. MergeAll(mg'.list) = m
    BY <1>14 DEF m
  <2>6. \A i \in 1 .. Len(mg'.list) : contains(m, mg'.list[i]) /\ ~SameRange(m, mg'.list[i])
    BY <1>10, <1>14, <2>2
  <2> HIDE DEF m
  <2> QED BY <1>9, <1>14, <2>1, <2>3, <2>4, <2>5, <2>6 DEF MergeInv, CanAdd
<1>16. ApplyInv'
  BY <1>1, <1>2, ApplyKept
<1> QED BY <1>1, <1>15, <1>16, VolumeKept DEF IInv

LEMMA MergeStoppedInv == ASSUME IInv, MergeStopped PROVE IInv'
<1>1. /\ UNCHANGED <<disk, mgr, latest, acked, kept, overtaken>> /\ UNCHANGED <<ap, rs, rv, restored>>
      /\ UNCHANGED <<metaSt, base>> /\ mg' = NoMerge
  BY DEF MergeStopped, disk
<1>2. MergeInv'
  BY <1>1, NoProcedures DEF MergeInv
<1>3. ApplyInv'
  BY <1>1, NoProcedures, ApplyKept DEF IInv, ApplyInv, Unlinked
<1> QED BY <1>1, <1>2, <1>3, VolumeKept DEF IInv

LEMMA MergeSaveInv == ASSUME IInv, MergeSave PROVE IInv'
<1> DEFINE m == MergeAll(mg.list)
<1>1. /\ mg.pc = "save" /\ files' = files \cup {m} /\ mg' = [mg EXCEPT !.pc = "add"]
      /\ UNCHANGED <<metaSt, base, mgr, latest, acked, kept, ap, rs, rv, restored, overtaken>>
  BY DEF MergeSave
<1>2. LabelInv /\ DiffsInv /\ KeptInv /\ ApplyInv /\ MergeInv /\ RecvInv /\ RestoreInv /\ BaseInv /\ RestoredInv
  BY DEF IInv
<1>3. ap.pc = "idle" /\ m \in LogDiffs /\ \A g \in kept : Keeps({m}, g)
  BY <1>1, <1>2 DEF ApplyInv, MergeInv
<1>4. mg' \in MergeRec /\ mg'.pc = "add" /\ mg'.list = mg.list
  BY <1>1, <1>2 DEF MergeInv, MergeRec
<1>5. DiffsInv'
  BY <1>1, <1>2, <1>3 DEF DiffsInv
<1>6. KeptInv'
  <2>1. \A g \in kept : Keeps(files', g)
    BY <1>1, <1>2, <1>3 DEF KeptInv, Keeps
  <2> QED BY <1>1, <1>2, <2>1 DEF KeptInv
<1>7. MergeInv'
  <2>1. MergeAll(mg'.list) = m /\ m \in files'
    BY <1>1, <1>4
  <2>2. /\ m \in LogDiffs /\ E(m) <= latest'.gidB
        /\ \A i \in 1 .. Len(mg'.list) : contains(m, mg'.list[i]) /\ ~SameRange(m, mg'.list[i])
        /\ \A g \in kept' : Keeps({m}, g)
        /\ \A d \in mgr' : ~SameRange(m, d)
    BY <1>1, <1>2, <1>4 DEF MergeInv, CanAdd
  <2> HIDE DEF m
  <2> QED BY <1>4, <2>1, <2>2 DEF MergeInv, CanAdd
<1>8. ApplyInv'
  BY <1>1, <1>2, <1>3, ApplyKept
<1>9. RecvInv'
  BY <1>1, <1>2, RecvKept DEF RecvInv
<1>10. LabelInv' /\ RestoreInv' /\ BaseInv' /\ RestoredInv'
  BY <1>1, <1>2, LabelKept, RestoreKept, BaseKept, RestoredKept
<1> QED BY <1>5, <1>6, <1>7, <1>8, <1>9, <1>10 DEF IInv

LEMMA MergeAddInv == ASSUME IInv, MergeAdd PROVE IInv'
<1> DEFINE m == MergeAll(mg.list)
<1>1. /\ mg.pc = "add"
      /\ UNCHANGED <<metaSt, base, files, latest, acked, kept, ap, rs, rv, restored, overtaken>>
  BY DEF MergeAdd, disk
<1>2. LabelInv /\ DiffsInv /\ KeptInv /\ ApplyInv /\ MergeInv /\ RecvInv /\ RestoreInv /\ BaseInv /\ RestoredInv
  BY DEF IInv
<1>3. ap.pc = "idle" /\ m \in LogDiffs /\ E(m) <= latest.gidB /\ m \in files /\ CanAdd(m)
  BY <1>1, <1>2 DEF ApplyInv, MergeInv
<1>4. mgr' = mgr \cup {m} /\ mg' = [mg EXCEPT !.pc = "erase"]
  BY <1>3 DEF MergeAdd
<1>5. mg' \in MergeRec /\ mg'.pc = "erase" /\ mg'.list = mg.list
  BY <1>1, <1>2, <1>4 DEF MergeInv, MergeRec
<1>6. DiffsInv'
  BY <1>1, <1>2, <1>3, <1>4 DEF DiffsInv, Covered
<1>7. MergeInv'
  BY <1>1, <1>2, <1>4, <1>5 DEF MergeInv
<1>8. ApplyInv'
  BY <1>1, <1>2, <1>3, ApplyKept
<1>9. LabelInv' /\ KeptInv' /\ RecvInv' /\ RestoreInv' /\ BaseInv' /\ RestoredInv'
  BY <1>1, <1>2, LabelKept, SnapshotsKept, RecvKept, RestoreKept, BaseKept, RestoredKept DEF RecvInv
<1> QED BY <1>6, <1>7, <1>8, <1>9 DEF IInv

\* The merged diff covers what those it is made of did.
LEMMA MergeEraseInv == ASSUME IInv, MergeErase PROVE IInv'
<1> DEFINE m == MergeAll(mg.list)
<1>1. /\ mg.pc = "erase" /\ mgr' = {d \in mgr : \A i \in DOMAIN mg.list : ~SameRange(d, mg.list[i])}
      /\ mg' = [mg EXCEPT !.pc = "unlink", !.todo = {mg.list[i] : i \in DOMAIN mg.list}]
      /\ UNCHANGED <<metaSt, base, files, latest, acked, kept, ap, rs, rv, restored, overtaken>>
  BY DEF MergeErase, disk
<1>2. LabelInv /\ DiffsInv /\ KeptInv /\ ApplyInv /\ MergeInv /\ RecvInv /\ RestoreInv /\ BaseInv /\ RestoredInv
  BY DEF IInv
<1>3. /\ ap.pc = "idle" /\ mg.list \in Seq(LogDiffs) /\ m \in LogDiffs /\ E(m) <= latest.gidB /\ m \in mgr
      /\ \A i \in 1 .. Len(mg.list) : contains(m, mg.list[i]) /\ ~SameRange(m, mg.list[i])
  BY <1>1, <1>2 DEF ApplyInv, MergeInv, MergeRec
<1>4. DOMAIN mg.list = 1 .. Len(mg.list)
  BY <1>3
<1> HIDE DEF m
<1>5. m \in mgr'
  BY <1>1, <1>3, <1>4
<1>6. DiffsInv'
  <2>1. ASSUME NEW c \in 0 .. MaxGid, metaSt.snapB.gidB <= c, c < latest.gidB
        PROVE  Covered(mgr', c)
    <3>1. PICK d \in mgr : B(d) <= c /\ c < E(d)
      BY <1>2, <2>1 DEF DiffsInv, Covered
    <3>2. CASE d \in mgr'
      BY <3>1, <3>2 DEF Covered
    <3>3. CASE d \notin mgr'
      <4>1. PICK i \in 1 .. Len(mg.list) : SameRange(d, mg.list[i])
        BY <1>1, <1>4, <3>3
      <4>2. B(m) <= B(d) /\ E(d) <= E(m)
        BY <1>3, <4>1 DEF contains, SameRange, B, E
      <4>3. B(m) \in Nat /\ E(m) \in Nat
        BY <1>3, DiffFacts
      <4>4. B(d) \in Nat /\ E(d) \in Nat
        BY <1>2, DiffFacts DEF DiffsInv
      <4>5. B(m) <= c /\ c < E(m)
        BY <3>1, <4>2, <4>3, <4>4
      <4> QED BY <1>5, <4>5 DEF Covered
    <3> QED BY <3>2, <3>3
  <2> QED BY <1>1, <1>2, <2>1 DEF DiffsInv
<1>7. MergeInv'
  <2>1. {mg.list[i] : i \in DOMAIN mg.list} \in SUBSET LogDiffs
    BY <1>3
  <2>2. mg' \in MergeRec /\ mg'.pc = "unlink" /\ mg'.todo = {mg.list[i] : i \in DOMAIN mg.list}
    BY <1>1, <1>2, <2>1 DEF MergeInv, MergeRec
  <2>3. ASSUME NEW i \in 1 .. Len(mg.list)
        PROVE  mg.list[i] \in LogDiffs /\ mg.list[i] \notin mgr' /\ E(mg.list[i]) <= latest'.gidB
    <3>1. SameRange(mg.list[i], mg.list[i])
      BY DEF SameRange
    <3>2. E(mg.list[i]) <= E(m) /\ E(m) <= latest.gidB
      BY <1>3 DEF contains, E
    <3>3. E(m) \in Nat /\ E(mg.list[i]) \in Nat
      <4>1. mg.list[i] \in LogDiffs
        BY <1>3
      <4> QED BY <1>3, <4>1, DiffFacts
    <3>4. latest.gidB \in Nat
      BY <1>2, LogType DEF LabelInv
    <3> QED BY <1>1, <1>3, <1>4, <3>1, <3>2, <3>3, <3>4
  <2>4. Unlinked(mg.todo)'
    BY <1>4, <2>2, <2>3 DEF Unlinked
  <2> QED BY <2>2, <2>4 DEF MergeInv
<1>8. ApplyInv'
  BY <1>1, <1>2, <1>3, ApplyKept
<1>9. LabelInv' /\ KeptInv' /\ RecvInv' /\ RestoreInv' /\ BaseInv' /\ RestoredInv'
  BY <1>1, <1>2, LabelKept, SnapshotsKept, RecvKept, RestoreKept, BaseKept, RestoredKept DEF RecvInv
<1> QED BY <1>6, <1>7, <1>8, <1>9 DEF IInv

LEMMA MergeUnlinkInv == ASSUME IInv, MergeUnlink PROVE IInv'
<1>1. /\ mg.pc = "unlink"
      /\ UNCHANGED <<metaSt, base, mgr, latest, acked, kept, ap, rs, rv, restored, overtaken>>
  BY DEF MergeUnlink
<1>2. LabelInv /\ DiffsInv /\ KeptInv /\ ApplyInv /\ MergeInv /\ RecvInv /\ RestoreInv /\ BaseInv /\ RestoredInv
  BY DEF IInv
<1>3. Unlinked(mg.todo) /\ ap.pc = "idle"
  BY <1>1, <1>2 DEF ApplyInv, MergeInv
<1>4. files' \subseteq files /\ \A d \in files : d \in mg.todo \/ d \in files'
  BY DEF MergeUnlink
<1>5. mg' \in MergeRec /\ mg'.pc \in {"unlink", "idle"} /\ (mg'.pc = "unlink" => mg'.todo \subseteq mg.todo)
  <2>1. CASE \E d \in mg.todo : mg' = [mg EXCEPT !.todo = @ \ {d}]
    BY <1>1, <1>2, <2>1 DEF MergeInv, MergeRec
  <2>2. CASE mg' = NoMerge
    BY <2>2, NoProcedures
  <2> QED BY <2>1, <2>2 DEF MergeUnlink
<1>6. DiffsInv'
  <2>1. mgr \subseteq files'
    BY <1>2, <1>3, <1>4 DEF DiffsInv, Unlinked
  <2> QED BY <1>1, <1>2, <1>4, <2>1 DEF DiffsInv
<1>7. MergeInv'
  BY <1>1, <1>3, <1>5 DEF MergeInv, Unlinked
<1>8. ApplyInv'
  BY <1>1, <1>2, <1>3, ApplyKept
<1>9. RecvInv'
  <2>1. ASSUME rv.pc = "add" PROVE rv.diff \subseteq files'
    <3>1. PICK d \in LogDiffs : rv.diff = {d} /\ latest.gidB < E(d) /\ d \in files
      BY <1>2, <2>1 DEF RecvInv
    <3>2. d \notin mg.todo
      <4>1. latest.gidB \in Nat
        BY <1>2, LogType DEF LabelInv
      <4>2. E(d) \in Nat
        BY <3>1, DiffFacts
      <4> QED BY <1>3, <3>1, <4>1, <4>2 DEF Unlinked
    <3> QED BY <1>4, <3>1, <3>2
  <2> QED BY <1>1, <1>2, <2>1, RecvKept
<1>10. LabelInv' /\ KeptInv' /\ RestoreInv' /\ BaseInv' /\ RestoredInv'
  BY <1>1, <1>2, <1>4, LabelKept, SnapshotsKept, RestoreKept, BaseKept, RestoredKept
<1> QED BY <1>6, <1>7, <1>8, <1>9, <1>10 DEF IInv

-----------------------------------------------------------------------------
(* Restore. *)

LEMMA RestoreLeft ==
    ASSUME IInv, RestoreInv',
           UNCHANGED <<disk, mgr, latest, acked, kept, ap, mg, rv, restored, overtaken, crashes>>
    PROVE  IInv'
<1>1. UNCHANGED <<disk, mgr, latest, acked, kept, overtaken>> /\ UNCHANGED <<ap, mg, rv, restored>>
  OBVIOUS
<1> QED BY <1>1, VolumeKept DEF IInv

LEMMA StartRestoreInv == ASSUME IInv, StartRestore PROVE IInv'
<1>1. UNCHANGED <<disk, mgr, latest, acked, kept, ap, mg, rv, restored, overtaken, crashes>>
  BY DEF StartRestore
<1>2. PICK gid \in 1 .. MaxGid : rs' = [NoRestore EXCEPT !.pc = "label", !.gid = gid]
  BY DEF StartRestore
<1>3. rs' = [pc |-> "label", gid |-> gid, st |-> NoRestore.st, image |-> NoRestore.image, spoilt |-> NoRestore.spoilt]
  BY <1>2 DEF NoRestore
<1>4. /\ NoRestore.st \in MetaState /\ NoRestore.image \in Image /\ NoRestore.spoilt \in BOOLEAN
      /\ Labelled(NoRestore.st) /\ gid \in 0 .. MaxGid
  BY NoProcedures DEF RestoreRec
<1>5. rs' \in RestoreRec /\ rs'.pc = "label" /\ rs'.gid = gid /\ rs'.st = NoRestore.st
  BY <1>3, <1>4 DEF RestoreRec
<1>6. RestoreInv'
  BY <1>4, <1>5 DEF RestoreInv
<1> QED BY <1>1, <1>6, RestoreLeft

LEMMA RestoreReadLabelInv == ASSUME IInv, RestoreReadLabel PROVE IInv'
<1>1. /\ rs.pc = "label" /\ rs' = [rs EXCEPT !.pc = "snapshot", !.st = metaSt]
      /\ UNCHANGED <<disk, mgr, latest, acked, kept, ap, mg, rv, restored, overtaken, crashes>>
  BY DEF RestoreReadLabel
<1>2. rs \in RestoreRec /\ rs.gid \in 1 .. MaxGid
  BY <1>1 DEF IInv, RestoreInv
<1>3. Labelled(metaSt) /\ metaSt \in MetaState
  BY LabelFacts DEF IInv, LabelInv
<1>4. rs' \in RestoreRec /\ rs'.pc = "snapshot" /\ rs'.gid = rs.gid /\ rs'.st = metaSt
  BY <1>1, <1>2, <1>3 DEF RestoreRec
<1>5. RestoreInv'
  BY <1>2, <1>3, <1>4 DEF RestoreInv
<1> QED BY <1>1, <1>5, RestoreLeft

\* The snapshot of the base image has the label that was read, or is known to be spoilt.
LEMMA RestoreSnapshotInv == ASSUME IInv, RestoreSnapshot PROVE IInv'
<1>1. /\ rs.pc = "snapshot" /\ rs' = [rs EXCEPT !.pc = "apply", !.image = base, !.spoilt = metaSt # rs.st]
      /\ UNCHANGED <<disk, mgr, latest, acked, kept, ap, mg, rv, restored, overtaken, crashes>>
  BY DEF RestoreSnapshot
<1>2. rs \in RestoreRec /\ rs.gid \in 1 .. MaxGid /\ Labelled(rs.st)
  BY <1>1 DEF IInv, RestoreInv
<1>3. base \in Image /\ (metaSt # rs.st) \in BOOLEAN
  BY DEF IInv, LabelInv
<1>4. /\ rs' \in RestoreRec /\ rs'.pc = "apply" /\ rs'.gid = rs.gid /\ rs'.st = rs.st /\ rs'.image = base
      /\ rs'.spoilt = (metaSt # rs.st)
  BY <1>1, <1>2, <1>3 DEF RestoreRec
<1>5. ASSUME ~rs'.spoilt, ~overtaken'
      PROVE  Between(rs'.image, rs'.st.snapB.gidB, Reach(rs'.st))
  <2>1. rs'.st = metaSt /\ ~overtaken
    BY <1>1, <1>4, <1>5
  <2>2. Between(base, metaSt.snapB.gidB, Reach(metaSt))
    BY <2>1 DEF IInv, BaseInv
  <2> QED BY <1>4, <2>1, <2>2
<1>6. RestoreInv'
  BY <1>2, <1>4, <1>5 DEF RestoreInv
<1> QED BY <1>1, <1>6, RestoreLeft

LEMMA RestoreEnds ==
    ASSUME IInv, rs' = NoRestore,
           UNCHANGED <<disk, mgr, latest, acked, kept, ap, mg, rv, restored, overtaken, crashes>>
    PROVE  IInv'
<1>1. RestoreInv'
  BY NoProcedures DEF RestoreInv
<1> QED BY <1>1, RestoreLeft

LEMMA RestoreStoppedInv == ASSUME IInv, RestoreStopped PROVE IInv'
BY RestoreEnds DEF RestoreStopped

\* Diffs that lead to the gid asked for reach as far as an interrupted apply had, or
\* the image is known to be spoilt.
LEMMA RestoreApplyInv == ASSUME IInv, RestoreApply PROVE IInv'
<1> DEFINE v == getDiffListToRestore(mgr, rs.st, rs.gid, MaxOpenDiffs)
           all == getDiffListToSync(mgr, rs.st, Snap(rs.gid, rs.gid))
           g == rs.st.snapB.gidB
           e == At(g, v, Len(v))
<1>1. /\ rs.pc = "apply"
      /\ UNCHANGED <<disk, mgr, latest, acked, kept, ap, mg, rv, restored, overtaken, crashes>>
  BY DEF RestoreApply
<1>2. CASE v = <<>>
  <2>1. rs' = NoRestore
    BY <1>2 DEF RestoreApply
  <2> QED BY <1>1, <2>1, RestoreEnds
<1>3. CASE v # <<>>
  <2>1. rs' = [rs EXCEPT !.st = endApplying(rs.st, v), !.image = Patch(@, MergedData(v)),
                         !.spoilt = @ \/ ~CanApplyState(rs.st, all)]
    BY <1>3 DEF RestoreApply
  <2>2. rs \in RestoreRec /\ rs.gid \in 1 .. MaxGid /\ Labelled(rs.st)
    BY <1>1 DEF IInv, RestoreInv
  <2>3. mgr \subseteq LogDiffs /\ rs.gid \in 0 .. MaxGid /\ MaxOpenDiffs \in Nat
    BY <2>2, AVAssumption DEF IInv, DiffsInv
  <2>4. /\ v \in Seq(LogDiffs) /\ Chain(g, v) /\ e \in g .. rs.gid /\ e \in 0 .. MaxGid
        /\ rs.st.snapB.gidE <= rs.gid
        /\ CanApplyState(rs.st, all) /\ rs.st.isApplying => rs.st.snapE.gidB <= rs.gid
        /\ ApplyAll(rs.st.snapB, v) \in MetaSnap
        /\ ApplyAll(rs.st.snapB, v).gidB = e /\ ApplyAll(rs.st.snapB, v).gidE = Larger(e, rs.st.snapB.gidE)
    BY <1>3, <2>2, <2>3, ToRestoreFacts
  <2>5. /\ g \in 0 .. MaxGid /\ rs.st.snapB.gidE \in 0 .. MaxGid /\ rs.st.isApplying \in BOOLEAN
        /\ rs.st.snapE.gidB \in Nat /\ rs.image \in Image /\ rs.spoilt \in BOOLEAN /\ rs.st \in MetaState
    BY <2>2 DEF Labelled, RestoreRec, MetaState, MetaSnap
  <2> DEFINE st2 == endApplying(rs.st, v) image2 == Patch(rs.image, MergedData(v))
  <2> HIDE DEF v, all, g, e
  <2>6. /\ st2 \in MetaState /\ st2.isApplying = FALSE /\ st2.snapB.gidB = e
        /\ st2.snapB.gidE = Larger(e, rs.st.snapB.gidE)
    BY <2>4 DEF endApplying, Settled, MetaState
  <2>7. st2.snapB.gidE <= rs.gid /\ Labelled(st2)
    <3>1. Larger(e, rs.st.snapB.gidE) <= rs.gid /\ Larger(e, rs.st.snapB.gidE) \in 0 .. MaxGid
      BY <2>3, <2>4, <2>5, LogType DEF Larger
    <3> QED BY <2>4, <2>6, <3>1 DEF Labelled
  <2>8. image2 \in Image
    <3>1. DOMAIN MergedData(v) \subseteq Blocks /\ \A b \in DOMAIN MergedData(v) : MergedData(v)[b] = Truth(e)[b]
      BY <2>4, <2>5, MergedDataFacts DEF e
    <3>2. \A b \in Blocks : Truth(e)[b] \in 0 .. MaxGid
      BY <2>4, TruthType
    <3> QED BY <2>5, <3>1, <3>2 DEF Image, Patch
  <2> HIDE DEF st2, image2
  <2>9. (rs.spoilt \/ ~CanApplyState(rs.st, all)) \in BOOLEAN
    OBVIOUS
  <2>10. /\ rs' \in RestoreRec /\ rs'.pc = "apply" /\ rs'.gid = rs.gid /\ rs'.st = st2 /\ rs'.image = image2
         /\ rs'.spoilt = (rs.spoilt \/ ~CanApplyState(rs.st, all))
    <3>1. rs' = [rs EXCEPT !.st = st2, !.image = image2, !.spoilt = rs.spoilt \/ ~CanApplyState(rs.st, all)]
      BY <2>1 DEF st2, image2
    <3> QED BY <1>1, <2>2, <2>6, <2>8, <2>9, <3>1 DEF RestoreRec
  <2>11. ASSUME ~rs'.spoilt, ~overtaken'
         PROVE  Between(image2, e, rs.gid)
    <3>1. ~rs.spoilt /\ CanApplyState(rs.st, all) /\ ~overtaken
      BY <1>1, <2>10, <2>11, Zenon
    <3>2. Reach(rs.st) <= rs.gid /\ Reach(rs.st) \in Nat
      BY <2>2, <2>4, <2>5, <3>1 DEF Reach, Larger
    <3>3. Between(rs.image, g, Reach(rs.st)) \/ Between(rs.image, g, rs.gid)
      BY <1>1, <3>1 DEF IInv, RestoreInv, g
    <3>4. Between(rs.image, g, rs.gid)
      BY <2>3, <2>5, <3>2, <3>3 DEF Between
    <3>5. e <= rs.gid
      BY <2>4
    <3> QED BY <2>3, <2>4, <2>5, <3>4, <3>5, PatchFacts DEF e, image2
  <2>12. RestoreInv'
    BY <2>2, <2>6, <2>7, <2>10, <2>11 DEF RestoreInv
  <2> QED BY <1>1, <2>12, RestoreLeft
<1> QED BY <1>2, <1>3

\* What is left of the label says that every block is of the gid asked for.
LEMMA RestoreFinishInv == ASSUME IInv, RestoreFinish PROVE IInv'
<1>1. /\ rs.pc = "apply" /\ NoNeedToApply(rs.st, rs.gid) /\ rs' = NoRestore
      /\ restored' = [g \in DOMAIN restored \cup {rs.gid} |->
                        IF g # rs.gid THEN restored[g]
                        ELSE [image |-> rs.image, spoilt |-> rs.spoilt \/ overtaken]]
      /\ UNCHANGED <<disk, mgr, latest, acked, kept, overtaken>> /\ UNCHANGED <<ap, mg, rv>>
  BY DEF RestoreFinish
<1>2. rs \in RestoreRec /\ rs.gid \in 1 .. MaxGid /\ rs.image \in Image /\ rs.spoilt \in BOOLEAN /\ Labelled(rs.st)
  BY <1>1 DEF IInv, RestoreInv, RestoreRec
<1>3. ~rs.st.isApplying /\ rs.st.snapB.gidB = rs.gid /\ rs.st.snapB.gidE = rs.gid
  BY <1>1 DEF NoNeedToApply, IsClean
<1>4. ASSUME ~rs.spoilt, ~overtaken PROVE rs.image = Truth(rs.gid)
  <2>1. Between(rs.image, rs.gid, rs.gid)
    BY <1>1, <1>3, <1>4 DEF IInv, RestoreInv, Reach
  <2>2. \A b \in Blocks : rs.image[b] = Truth(rs.gid)[b]
    BY <1>2, <2>1 DEF Between
  <2>3. Truth(rs.gid) \in Image
    BY <1>2, TruthType
  <2> QED BY <1>2, <2>2, <2>3 DEF Image
<1>5. RestoreInv'
  BY <1>1, NoProcedures DEF RestoreInv
<1>6. RestoredInv'
  <2>1. /\ restored \in [DOMAIN restored -> [image : Image, spoilt : BOOLEAN]] /\ DOMAIN restored \subseteq 1 .. MaxGid
        /\ \A g \in DOMAIN restored : restored[g].spoilt \/ restored[g].image = Truth(g)
    BY DEF IInv, RestoredInv, RestoredExact
  <2> DEFINE r == [image |-> rs.image, spoilt |-> rs.spoilt \/ overtaken]
  <2>2. (rs.spoilt \/ overtaken) \in BOOLEAN
    OBVIOUS
  <2>3. r \in [image : Image, spoilt : BOOLEAN]
    BY <1>2, <2>2
  <2>4. r.spoilt \/ r.image = Truth(rs.gid)
    BY <1>4
  <2> HIDE DEF r
  <2>5. restored' = [g \in DOMAIN restored \cup {rs.gid} |-> IF g # rs.gid THEN restored[g] ELSE r]
    BY <1>1 DEF r
  <2>6. DOMAIN restored' = DOMAIN restored \cup {rs.gid}
    BY <2>5
  <2>7. \A g \in DOMAIN restored' : /\ restored'[g] \in [image : Image, spoilt : BOOLEAN]
                                    /\ restored'[g].spoilt \/ restored'[g].image = Truth(g)
    BY <2>1, <2>3, <2>4, <2>5
  <2>8. restored' \in [DOMAIN restored' -> [image : Image, spoilt : BOOLEAN]]
    BY <2>5, <2>6, <2>7
  <2> QED BY <1>2, <2>1, <2>6, <2>7, <2>8 DEF RestoredInv, RestoredExact
<1> QED BY <1>1, <1>5, <1>6, VolumeKept DEF IInv

LEMMA DeleteRestoredInv == ASSUME IInv, DeleteRestored PROVE IInv'
<1>1. UNCHANGED <<disk, mgr, latest, acked, kept, overtaken>> /\ UNCHANGED <<ap, mg, rs, rv>>
  BY DEF DeleteRestored, procs
<1>2. PICK gid \in DOMAIN restored : restored' = [g \in DOMAIN restored \ {gid} |-> restored[g]]
  BY DEF DeleteRestored
<1>3. RestoredInv'
  <2>1. /\ restored \in [DOMAIN restored -> [image : Image, spoilt : BOOLEAN]] /\ DOMAIN restored \subseteq 1 .. MaxGid
        /\ \A g \in DOMAIN restored : restored[g].spoilt \/ restored[g].image = Truth(g)
    BY DEF IInv, RestoredInv, RestoredExact
  <2>2. DOMAIN restored' = DOMAIN restored \ {gid} /\ \A g \in DOMAIN restored' : restored'[g] = restored[g]
    BY <1>2
  <2>3. restored' \in [DOMAIN restored' -> [image : Image, spoilt : BOOLEAN]]
    BY <1>2, <2>1, <2>2
  <2> QED BY <2>1, <2>2, <2>3 DEF RestoredInv, RestoredExact
<1> QED BY <1>1, <1>3, VolumeKept DEF IInv

-----------------------------------------------------------------------------
(* Reception. *)

LEMMA StartRecvInv == ASSUME IInv, StartRecv PROVE IInv'
<1>1. UNCHANGED <<disk, mgr, latest, acked, kept, overtaken>> /\ UNCHANGED <<ap, mg, rs, restored>>
  BY DEF StartRecv
<1>2. PICK b \in 0 .. MaxGid, e \in 0 .. MaxGid :
        /\ b < e /\ canApply(latest, WlogDiff(b, e))
        /\ rv' = [pc |-> "save", diff |-> {WlogDiff(b, e)}, latest |-> latest]
  BY DEF StartRecv
<1>3. WlogDiff(b, e) \in LogDiffs
  BY <1>2, WlogDiffIn
<1>4. B(WlogDiff(b, e)) <= latest.gidB /\ latest.gidB < E(WlogDiff(b, e))
  BY <1>2 DEF canApply, B, E
<1>5. latest \in MetaSnap
  BY DEF IInv, LabelInv
<1>6. rv' \in RecvRec /\ rv'.pc = "save" /\ rv'.diff = {WlogDiff(b, e)} /\ rv'.latest = latest
  BY <1>2, <1>3, <1>5 DEF RecvRec
<1>7. RecvInv'
  BY <1>1, <1>3, <1>4, <1>6 DEF RecvInv
<1> QED BY <1>1, <1>7, VolumeKept DEF IInv

LEMMA RecvStoppedInv == ASSUME IInv, RecvStopped PROVE IInv'
<1>1. /\ UNCHANGED <<disk, mgr, latest, acked, kept, overtaken>> /\ UNCHANGED <<ap, mg, rs, restored>>
      /\ rv' = NoRecv
  BY DEF RecvStopped
<1>2. RecvInv'
  BY <1>1, NoProcedures DEF RecvInv
<1> QED BY <1>1, <1>2, VolumeKept DEF IInv

LEMMA RecvSaveInv == ASSUME IInv, RecvSave PROVE IInv'
<1>1. /\ rv.pc = "save" /\ files' = files \cup rv.diff /\ kept' = {gid \in kept : Keeps(rv.diff, gid)}
      /\ rv' = [rv EXCEPT !.pc = "add"]
      /\ UNCHANGED <<metaSt, base, mgr, latest, acked, ap, mg, rs, restored, overtaken>>
  BY DEF RecvSave
<1>2. LabelInv /\ DiffsInv /\ KeptInv /\ ApplyInv /\ MergeInv /\ RecvInv /\ RestoreInv /\ BaseInv /\ RestoredInv
  BY DEF IInv
<1>3. rv.diff \subseteq LogDiffs
  BY <1>2 DEF RecvInv, RecvRec
<1>4. rv' \in RecvRec /\ rv'.pc = "add" /\ rv'.diff = rv.diff /\ rv'.latest = rv.latest
  BY <1>1, <1>2 DEF RecvInv, RecvRec
<1>5. DiffsInv'
  BY <1>1, <1>2, <1>3 DEF DiffsInv
<1>6. KeptInv'
  <2>1. \A g \in kept' : Keeps(files', g)
    BY <1>1, <1>2 DEF KeptInv, Keeps
  <2> QED BY <1>1, <1>2, <2>1 DEF KeptInv
<1>7. RecvInv'
  BY <1>1, <1>2, <1>4 DEF RecvInv
<1>8. ApplyInv'
  BY <1>1, <1>2, ApplyKept DEF ApplyInv, Unlinked
<1>9. MergeInv'
  <2>1. kept' \subseteq kept /\ files \subseteq files'
    BY <1>1
  <2> QED BY <1>1, <1>2, <2>1, MergeKept DEF MergeInv, Unlinked, CanAdd
<1>10. LabelInv' /\ RestoreInv' /\ BaseInv' /\ RestoredInv'
  BY <1>1, <1>2, LabelKept, RestoreKept, BaseKept, RestoredKept
<1> QED BY <1>5, <1>6, <1>7, <1>8, <1>9, <1>10 DEF IInv

\* A received diff ends later than any that is there.
LEMMA RecvFacts ==
    ASSUME IInv, rv.pc # "idle", NEW d \in rv.diff
    PROVE  /\ d \in LogDiffs /\ rv.diff = {d} /\ rv.latest = latest /\ B(d) <= latest.gidB /\ latest.gidB < E(d)
           /\ \A x \in LogDiffs : E(x) <= latest.gidB => E(x) < E(d)
           /\ CanAdd(d)
<1>1. d \in LogDiffs /\ rv.diff = {d} /\ rv.latest = latest /\ B(d) <= latest.gidB /\ latest.gidB < E(d)
  BY DEF IInv, RecvInv
<1>2. latest.gidB \in Nat
  BY LogType DEF IInv, LabelInv
<1>3. ASSUME NEW x \in LogDiffs, E(x) <= latest.gidB PROVE E(x) < E(d)
  <2>1. E(x) \in Nat /\ E(d) \in Nat
    BY <1>1, DiffFacts
  <2> QED BY <1>1, <1>2, <1>3, <2>1
<1>4. ASSUME NEW x \in mgr PROVE ~SameRange(d, x)
  <2>1. x \in LogDiffs /\ E(x) <= latest.gidB
    BY DEF IInv, DiffsInv
  <2>2. E(x) < E(d)
    BY <1>3, <2>1
  <2>3. E(x) \in Nat /\ E(d) \in Nat
    BY <1>1, <2>1, DiffFacts
  <2>4. E(x) # E(d)
    BY <2>2, <2>3
  <2> QED BY <2>4 DEF SameRange, E
<1> QED BY <1>1, <1>3, <1>4 DEF CanAdd

LEMMA RecvAddInv == ASSUME IInv, RecvAdd PROVE IInv'
<1>0. rv.pc = "add"
  BY DEF RecvAdd
<1>1. PICK d \in rv.diff : CanAdd(d) => mgr' = mgr \cup {d} /\ latest' = apply(rv.latest, d) /\ acked' = d.snapE.gidB
  BY DEF RecvAdd
<1>2. /\ rv' = NoRecv /\ UNCHANGED <<metaSt, base, files, kept, ap, mg, rs, restored, overtaken>>
  BY DEF RecvAdd, disk
<1>3. LabelInv /\ DiffsInv /\ KeptInv /\ ApplyInv /\ MergeInv /\ RecvInv /\ RestoreInv /\ BaseInv /\ RestoredInv
  BY DEF IInv
<1>4. /\ d \in LogDiffs /\ rv.latest = latest /\ B(d) <= latest.gidB /\ latest.gidB < E(d) /\ CanAdd(d)
      /\ \A x \in LogDiffs : E(x) <= latest.gidB => E(x) < E(d)
  BY <1>0, RecvFacts
<1>5. /\ latest \in MetaSnap /\ latest.gidB \in Nat /\ latest.gidE \in 0 .. MaxGid /\ latest.gidB <= latest.gidE
      /\ latest.gidB \in 0 .. MaxGid
  BY <1>3, LogType DEF LabelInv, MetaSnap
<1>6. B(d) \in Nat /\ E(d) \in 0 .. MaxGid /\ E(d) \in Nat
  BY <1>4, DiffFacts
<1>7. /\ mgr' = mgr \cup {d} /\ acked' = E(d) /\ latest' \in MetaSnap
      /\ latest'.gidB = E(d) /\ latest'.gidE = Larger(E(d), latest.gidE)
  BY <1>1, <1>4, <1>5, ApplyFacts DEF E
<1>8. latest'.gidE \in 0 .. MaxGid /\ latest.gidE <= latest'.gidE
  BY <1>5, <1>6, <1>7 DEF Larger
<1>9. LabelInv'
  <2>1. metaSt.snapB.gidB \in Nat /\ metaSt.snapB.gidE \in Nat /\ metaSt.snapE.gidB \in Nat
    BY <1>3, LabelFacts
  <2>2. /\ metaSt'.snapB.gidB <= latest'.gidB /\ metaSt'.snapB.gidE <= latest'.gidE
        /\ metaSt'.isApplying => metaSt'.snapB.gidB < metaSt'.snapE.gidB /\ metaSt'.snapE.gidB <= latest'.gidB
    BY <1>2, <1>3, <1>4, <1>5, <1>6, <1>7, <1>8, <2>1 DEF LabelInv
  <2>3. acked' \in 0 .. MaxGid /\ acked' <= latest'.gidB
    BY <1>6, <1>7
  <2>4. metaSt' \in MetaState /\ base' \in Image /\ overtaken' \in BOOLEAN
    BY <1>2, <1>3 DEF LabelInv
  <2>5. latest' \in MetaSnap /\ latest'.gidB \in 0 .. MaxGid /\ latest'.gidE \in 0 .. MaxGid
    BY <1>6, <1>7, <1>8
  <2> QED BY <2>2, <2>3, <2>4, <2>5, Zenon DEF LabelInv
<1>10. DiffsInv'
  <2>1. d \in files
    BY <1>0, <1>1, <1>3 DEF RecvInv
  <2>2. ASSUME NEW x \in mgr' PROVE E(x) <= latest'.gidB
    <3>1. CASE x = d
      BY <1>6, <1>7, <3>1
    <3>2. CASE x \in mgr
      <4>1. x \in LogDiffs /\ E(x) <= latest.gidB
        BY <1>3, <3>2 DEF DiffsInv
      <4>2. E(x) < E(d)
        BY <1>4, <4>1
      <4>3. E(x) \in Nat
        BY <4>1, DiffFacts
      <4> QED BY <1>6, <1>7, <4>2, <4>3
    <3> QED BY <1>7, <2>2, <3>1, <3>2
  <2>3. ASSUME NEW c \in 0 .. MaxGid, metaSt'.snapB.gidB <= c, c < latest'.gidB
        PROVE  Covered(mgr', c)
    <3>1. CASE c < latest.gidB
      <4>1. Covered(mgr, c)
        BY <1>2, <1>3, <2>3, <3>1 DEF DiffsInv
      <4> QED BY <1>7, <4>1 DEF Covered
    <3>2. CASE ~(c < latest.gidB)
      <4>1. B(d) <= c /\ c < E(d)
        BY <1>4, <1>5, <1>6, <1>7, <2>3, <3>2
      <4> QED BY <1>7, <4>1 DEF Covered
    <3> QED BY <3>1, <3>2
  <2> QED BY <1>2, <1>3, <1>7, <2>1, <2>2, <2>3 DEF DiffsInv
<1>11. ASSUME NEW T, Unlinked(T)
       PROVE  \A x \in T : x \in LogDiffs /\ x \notin mgr' /\ E(x) <= latest'.gidB
  <2> SUFFICES ASSUME NEW x \in T PROVE x \in LogDiffs /\ x \notin mgr' /\ E(x) <= latest'.gidB
    OBVIOUS
  <2>0. x \in LogDiffs /\ x \notin mgr /\ E(x) <= latest.gidB
    BY <1>11 DEF Unlinked
  <2>1. E(x) < E(d) /\ E(x) \in Nat
    BY <1>4, <2>0, DiffFacts
  <2>2. x # d
    BY <1>6, <2>1
  <2> QED BY <1>6, <1>7, <2>0, <2>1, <2>2
<1>12. ApplyInv'
  <2>1. ASSUME ap.pc = "unlink" PROVE Unlinked(ap.todo)'
    <3>1. Unlinked(ap.todo)
      BY <1>3, <2>1 DEF ApplyInv
    <3>2. \A x \in ap.todo : x \in LogDiffs /\ x \notin mgr' /\ E(x) <= latest'.gidB
      BY <1>11, <3>1
    <3> QED BY <1>2, <3>2 DEF Unlinked
  <2> QED BY <1>2, <1>3, <2>1, ApplyKept DEF ApplyInv
<1>13. MergeInv'
  <2>1. ASSUME mg.pc = "unlink" PROVE Unlinked(mg.todo)'
    <3>1. Unlinked(mg.todo) /\ mg.todo \subseteq LogDiffs
      BY <1>3, <2>1 DEF MergeInv, MergeRec
    <3>2. \A x \in mg.todo : x \in LogDiffs /\ x \notin mgr' /\ E(x) <= latest'.gidB
      BY <1>11, <3>1
    <3> QED BY <1>2, <3>2 DEF Unlinked
  <2>2. ASSUME mg.pc \in {"save", "add", "erase"}
        PROVE  E(MergeAll(mg.list)) <= latest'.gidB /\ ~SameRange(MergeAll(mg.list), d)
    <3>1. MergeAll(mg.list) \in LogDiffs /\ E(MergeAll(mg.list)) <= latest.gidB
      BY <1>3, <2>2 DEF MergeInv
    <3>2. E(MergeAll(mg.list)) < E(d) /\ E(MergeAll(mg.list)) \in Nat
      BY <1>4, <3>1, DiffFacts
    <3>3. E(MergeAll(mg.list)) # E(d)
      BY <1>6, <3>2
    <3> QED BY <1>6, <1>7, <3>2, <3>3 DEF SameRange, E
  <2>3. mg.pc \in {"save", "add"} => CanAdd(MergeAll(mg.list))'
    BY <1>2, <1>3, <1>7, <2>2 DEF MergeInv, CanAdd
  <2>4. /\ mg.pc = "add" => MergeAll(mg.list) \in files'
        /\ mg.pc = "erase" => MergeAll(mg.list) \in mgr'
    BY <1>2, <1>3, <1>7 DEF MergeInv
  <2> QED BY <1>2, <1>3, <2>1, <2>2, <2>3, <2>4, MergeKept
<1>14. RecvInv'
  BY <1>2, NoProcedures DEF RecvInv
<1>15. KeptInv' /\ RestoreInv' /\ BaseInv' /\ RestoredInv'
  BY <1>2, <1>3, SnapshotsKept, RestoreKept, BaseKept, RestoredKept
<1> QED BY <1>9, <1>10, <1>12, <1>13, <1>14, <1>15 DEF IInv

-----------------------------------------------------------------------------
(* The commands that hold the lock, and restarts. *)

LEMMA GarbageCollectInv == ASSUME IInv, GarbageCollect PROVE IInv'
<1>1. /\ ap.pc = "idle" /\ mg.pc = "idle" /\ mgr' = gc(mgr, metaSt) /\ files' = files \ (mgr \ mgr')
      /\ UNCHANGED <<metaSt, base, latest, acked, kept, ap, mg, rs, rv, restored, overtaken>>
  BY DEF GarbageCollect, Idle, procs
<1>2. LabelInv /\ DiffsInv /\ KeptInv /\ ApplyInv /\ MergeInv /\ RecvInv /\ RestoreInv /\ BaseInv /\ RestoredInv
  BY DEF IInv
<1>3. /\ metaSt \in MetaState /\ metaSt.snapB.gidB \in 0 .. MaxGid /\ latest.gidB \in 0 .. MaxGid
      /\ metaSt.snapB.gidB <= latest.gidB
  BY <1>2, LabelFacts DEF LabelInv, Labelled
<1>4. /\ mgr \subseteq LogDiffs /\ mgr \subseteq files /\ \A d \in mgr : E(d) <= latest.gidB
      /\ \A c \in 0 .. MaxGid : metaSt.snapB.gidB <= c /\ c < latest.gidB => Covered(mgr, c)
  BY <1>2 DEF DiffsInv
<1>5. /\ mgr' \subseteq mgr
      /\ \A c \in 0 .. MaxGid : metaSt.snapB.gidB <= c /\ c < latest.gidB => Covered(mgr', c)
  <2> DEFINE e == getLatestState(mgr, metaSt).snapB
  <2>1. /\ gc(mgr, metaSt) \subseteq mgr /\ ((\A d \in mgr : E(d) <= latest.gidB) => e.gidB = latest.gidB)
        /\ \A c \in 0 .. MaxGid : metaSt.snapB.gidB <= c /\ c < e.gidB => Covered(gc(mgr, metaSt), c)
    BY <1>3, <1>4, GcFacts
  <2> HIDE DEF e
  <2>2. e.gidB = latest.gidB
    BY <1>4, <2>1
  <2> QED BY <1>1, <2>1, <2>2
<1>6. DiffsInv'
  <2>1. files' \subseteq files /\ mgr' \subseteq files'
    BY <1>1, <1>4, <1>5
  <2> QED BY <1>1, <1>2, <1>5, <2>1 DEF DiffsInv
<1>7. RecvInv'
  <2>1. ASSUME rv.pc = "add" PROVE rv.diff \subseteq files'
    <3> SUFFICES ASSUME NEW d \in rv.diff PROVE d \in files'
      OBVIOUS
    <3>1. CanAdd(d) /\ d \in files
      BY <1>2, <2>1, RecvFacts DEF RecvInv
    <3>2. d \notin mgr
      BY <3>1 DEF CanAdd, SameRange
    <3> QED BY <1>1, <3>1, <3>2
  <2> QED BY <1>1, <1>2, <2>1, RecvKept
<1>8. ApplyInv' /\ MergeInv'
  BY <1>1, <1>2, ApplyKept, MergeKept
<1>9. LabelInv' /\ KeptInv' /\ RestoreInv' /\ BaseInv' /\ RestoredInv'
  BY <1>1, <1>2, LabelKept, SnapshotsKept, RestoreKept, BaseKept, RestoredKept
<1> QED BY <1>6, <1>7, <1>8, <1>9 DEF IInv

\* A diff whose snapshot is changed keeps its gids.
LEMMA ChangedFacts ==
    ASSUME NEW d \in LogDiffs, NEW m \in BOOLEAN
    PROVE  LET x == [d EXCEPT !.isMergeable = m]
           IN  x \in LogDiffs /\ B(x) = B(d) /\ E(x) = E(d) /\ x.isMergeable = m
<1>1. d = LogDiff(B(d), E(d), d.isMergeable) /\ B(d) \in 0 .. MaxGid /\ E(d) \in 0 .. MaxGid /\ B(d) < E(d)
  BY DiffFacts
<1>2. [LogDiff(B(d), E(d), d.isMergeable) EXCEPT !.isMergeable = m] = LogDiff(B(d), E(d), m)
  <2>1. ASSUME NEW x, NEW y, NEW z, NEW c, NEW data, NEW n,
               NEW r, r = [snapB |-> x, snapE |-> y, isMergeable |-> z, isCompDiff |-> c, data |-> data]
        PROVE  [r EXCEPT !.isMergeable = n] =
                 [snapB |-> x, snapE |-> y, isMergeable |-> n, isCompDiff |-> c, data |-> data]
    BY <2>1
  <2> DEFINE data == [c \in WrittenIn(B(d), E(d)) |-> Truth(E(d))[c]]
             no == FALSE
             sB == Snap(B(d), B(d))
             sE == Snap(E(d), E(d))
  <2>2. \A z : LogDiff(B(d), E(d), z) =
           [snapB |-> sB, snapE |-> sE, isMergeable |-> z, isCompDiff |-> no, data |-> data]
    BY DEF LogDiff
  <2> HIDE DEF data, no, sB, sE
  <2> DEFINE r == LogDiff(B(d), E(d), d.isMergeable)
  <2>3. r = [snapB |-> sB, snapE |-> sE, isMergeable |-> d.isMergeable, isCompDiff |-> no, data |-> data]
    BY <2>2
  <2> HIDE DEF r
  <2>4. [r EXCEPT !.isMergeable = m] =
          [snapB |-> sB, snapE |-> sE, isMergeable |-> m, isCompDiff |-> no, data |-> data]
    BY <2>1, <2>3
  <2> QED BY <2>2, <2>4, Zenon DEF r
<1>3. [d EXCEPT !.isMergeable = m] = LogDiff(B(d), E(d), m)
  BY <1>1, <1>2
<1> QED BY <1>1, <1>3, LogDiffIn

LEMMA ChangeSnapshotInv == ASSUME IInv, ChangeSnapshot PROVE IInv'
<1>1. /\ ap.pc = "idle" /\ mg.pc = "idle"
      /\ UNCHANGED <<metaSt, base, latest, acked, ap, mg, rs, rv, restored, overtaken>>
  BY DEF ChangeSnapshot, Idle, procs
<1>2. LabelInv /\ DiffsInv /\ KeptInv /\ ApplyInv /\ MergeInv /\ RecvInv /\ RestoreInv /\ BaseInv /\ RestoredInv
  BY DEF IInv
<1>3. PICK gid \in 1 .. MaxGid, enable \in BOOLEAN :
        LET found == {d \in mgr : d.snapB.gidB = gid}
            Changed(ds) == {IF d \in found THEN [d EXCEPT !.isMergeable = ~enable] ELSE d : d \in ds}
        IN  /\ mgr' = Changed(mgr) /\ files' = Changed(files)
            /\ kept' = IF ~enable THEN kept \ {gid}
                       ELSE IF Keeps(files', gid) THEN kept \cup {gid} ELSE kept
  BY DEF ChangeSnapshot
<1> DEFINE found == {d \in mgr : d.snapB.gidB = gid}
           New(d) == IF d \in found THEN [d EXCEPT !.isMergeable = ~enable] ELSE d
<1>4. /\ mgr' = {New(d) : d \in mgr} /\ files' = {New(d) : d \in files}
      /\ kept' = IF ~enable THEN kept \ {gid} ELSE IF Keeps(files', gid) THEN kept \cup {gid} ELSE kept
  BY <1>3
<1>5. files \subseteq LogDiffs /\ mgr \subseteq files /\ \A d \in mgr : E(d) <= latest.gidB
  BY <1>2 DEF DiffsInv
<1>6. ASSUME NEW d \in files
      PROVE  /\ New(d) \in LogDiffs /\ B(New(d)) = B(d) /\ E(New(d)) = E(d)
             /\ B(d) # gid => New(d).isMergeable = d.isMergeable
             /\ enable /\ ~d.isMergeable => ~New(d).isMergeable
             /\ d \notin mgr => New(d) = d
  <2>0. d \in LogDiffs /\ (~enable) \in BOOLEAN
    BY <1>5
  <2>1. CASE d \in found
    <3>1. New(d) = [d EXCEPT !.isMergeable = ~enable] /\ B(d) = gid /\ d \in mgr
      BY <2>1 DEF B
    <3>2. New(d) \in LogDiffs /\ B(New(d)) = B(d) /\ E(New(d)) = E(d) /\ New(d).isMergeable = ~enable
      BY <2>0, <3>1, ChangedFacts
    <3> QED BY <3>1, <3>2, Zenon
  <2>2. CASE d \notin found
    BY <2>0, <2>2
  <2> QED BY <2>1, <2>2
<1> HIDE DEF New
<1>7. DiffsInv'
  <2>1. files' \subseteq LogDiffs /\ mgr' \subseteq files' /\ \A d \in mgr' : E(d) <= latest'.gidB
    BY <1>1, <1>4, <1>5, <1>6
  <2>2. ASSUME NEW c \in 0 .. MaxGid, metaSt'.snapB.gidB <= c, c < latest'.gidB
        PROVE  Covered(mgr', c)
    <3>1. PICK d \in mgr : B(d) <= c /\ c < E(d)
      BY <1>1, <1>2, <2>2 DEF DiffsInv, Covered
    <3>2. New(d) \in mgr' /\ B(New(d)) <= c /\ c < E(New(d))
      BY <1>4, <1>5, <1>6, <3>1
    <3> QED BY <3>2 DEF Covered
  <2> QED BY <2>1, <2>2 DEF DiffsInv
<1>8. KeptInv'
  <2>1. kept \subseteq 1 .. MaxGid /\ \A g \in kept : Keeps(files, g)
    BY <1>2 DEF KeptInv
  <2>2. ASSUME NEW g \in kept, enable \/ g # gid
        PROVE  Keeps(files', g)
    <3> SUFFICES ASSUME NEW x \in files' PROVE ~(B(x) < g /\ g < E(x)) /\ (B(x) = g => ~x.isMergeable)
      BY DEF Keeps, B, E
    <3>1. PICK d \in files : x = New(d)
      BY <1>4
    <3>2. ~(B(d) < g /\ g < E(d)) /\ (B(d) = g => ~d.isMergeable)
      BY <2>1 DEF Keeps, B, E
    <3> QED BY <1>6, <2>2, <3>1, <3>2
  <2>3. CASE enable
    <3>1. kept' = kept \/ (kept' = kept \cup {gid} /\ Keeps(files', gid))
      BY <1>4, <2>3
    <3> QED BY <2>1, <2>2, <2>3, <3>1 DEF KeptInv
  <2>4. CASE ~enable
    <3>1. kept' = kept \ {gid}
      BY <1>4, <2>4
    <3> QED BY <2>1, <2>2, <3>1 DEF KeptInv
  <2> QED BY <2>3, <2>4
<1>9. RecvInv'
  <2>1. ASSUME rv.pc = "add" PROVE rv.diff \subseteq files'
    <3> SUFFICES ASSUME NEW d \in rv.diff PROVE d \in files'
      OBVIOUS
    <3>1. CanAdd(d) /\ d \in files
      BY <1>2, <2>1, RecvFacts DEF RecvInv
    <3>2. d \notin mgr
      BY <3>1 DEF CanAdd, SameRange
    <3>3. New(d) = d
      BY <1>6, <3>1, <3>2
    <3> QED BY <1>4, <3>1, <3>3
  <2> QED BY <1>1, <1>2, <2>1, RecvKept
<1>10. ApplyInv'
  BY <1>1, <1>2, ApplyKept
<1>11. MergeInv'
  BY <1>1, <1>2 DEF MergeInv
<1>12. LabelInv' /\ RestoreInv' /\ BaseInv' /\ RestoredInv'
  BY <1>1, <1>2, LabelKept, RestoreKept, BaseKept, RestoredKept
<1> QED BY <1>7, <1>8, <1>9, <1>10, <1>11, <1>12 DEF IInv

\* The files lead at least as far as the diffs that were registered.
LEMMA RestartInv == ASSUME IInv, Restart PROVE IInv'
<1>1. /\ latest' = getLatestState(files, metaSt).snapB /\ mgr' = gc(files, metaSt) /\ files' = mgr'
      /\ ap' = NoApply /\ mg' = NoMerge /\ rs' = NoRestore /\ rv' = NoRecv
      /\ UNCHANGED <<metaSt, base, acked, kept, restored, overtaken>>
  BY DEF Restart
<1>2. LabelInv /\ DiffsInv /\ KeptInv /\ BaseInv /\ RestoredInv
  BY DEF IInv
<1>3. /\ metaSt \in MetaState /\ metaSt.snapB.gidB \in 0 .. MaxGid /\ latest.gidB \in 0 .. MaxGid
      /\ metaSt.snapB.gidB <= latest.gidB /\ metaSt.snapB.gidE \in 0 .. MaxGid /\ metaSt.snapE.gidB \in Nat
  BY <1>2, LabelFacts DEF LabelInv, Labelled
<1>4. /\ files \subseteq LogDiffs
      /\ \A c \in 0 .. MaxGid : metaSt.snapB.gidB <= c /\ c < latest.gidB => Covered(files, c)
  BY <1>2 DEF DiffsInv, Covered
<1>5. /\ mgr' \subseteq files /\ latest' \in MetaSnap /\ latest'.gidB \in latest.gidB .. MaxGid
      /\ latest'.gidE = Larger(latest'.gidB, metaSt.snapB.gidE)
      /\ \A d \in mgr' : E(d) <= latest'.gidB
      /\ \A c \in 0 .. MaxGid : metaSt.snapB.gidB <= c /\ c < latest'.gidB => Covered(mgr', c)
  BY <1>1, <1>3, <1>4, GcFacts
<1>6. LabelInv'
  <2>1. /\ latest'.gidB \in 0 .. MaxGid /\ latest.gidB <= latest'.gidB /\ latest'.gidE \in 0 .. MaxGid
        /\ metaSt.snapB.gidE <= latest'.gidE
    BY <1>3, <1>5, LogType DEF Larger
  <2>2. acked' \in 0 .. MaxGid /\ acked' <= latest'.gidB
    BY <1>1, <1>2, <1>3, <2>1, LogType DEF LabelInv
  <2>3. /\ metaSt'.snapB.gidB <= latest'.gidB
        /\ metaSt'.isApplying => metaSt'.snapB.gidB < metaSt'.snapE.gidB /\ metaSt'.snapE.gidB <= latest'.gidB
    BY <1>1, <1>2, <1>3, <2>1, LogType DEF LabelInv
  <2>4. metaSt' \in MetaState /\ base' \in Image /\ overtaken' \in BOOLEAN
    BY <1>1, <1>2 DEF LabelInv
  <2>5. metaSt'.snapB.gidE <= latest'.gidE
    BY <1>1, <2>1
  <2> QED BY <1>5, <2>1, <2>2, <2>3, <2>4, <2>5, Zenon DEF LabelInv
<1>7. DiffsInv'
  BY <1>1, <1>4, <1>5 DEF DiffsInv
<1>8. KeptInv' /\ BaseInv' /\ RestoredInv'
  <2>1. files' \subseteq files
    BY <1>1, <1>5
  <2> QED BY <1>1, <1>2, <2>1, SnapshotsKept, BaseKept, RestoredKept
<1>9. ApplyInv' /\ MergeInv' /\ RecvInv' /\ RestoreInv'
  BY <1>1, NoProcedures DEF ApplyInv, MergeInv, RecvInv, RestoreInv
<1> QED BY <1>6, <1>7, <1>8, <1>9 DEF IInv

-----------------------------------------------------------------------------
(* Every step. *)

LEMMA NextInv == IInv /\ [Next]_vars => IInv'
<1> SUFFICES ASSUME IInv, [Next]_vars PROVE IInv'
  OBVIOUS
<1>1. CASE StartApply \/ ApplyStep \/ ApplyStopped
  BY <1>1, StartApplyInv, ApplyBeginInv, ApplyDoneInv, ApplyWriteInv, ApplyEndInv, ApplyRemoveInv,
     ApplyUnlinkInv, ApplyStoppedInv DEF ApplyStep
<1>2. CASE StartMerge \/ MergeStep \/ MergeStopped
  BY <1>2, StartMergeInv, MergeSaveInv, MergeAddInv, MergeEraseInv, MergeUnlinkInv, MergeStoppedInv DEF MergeStep
<1>3. CASE StartRestore \/ RestoreStep \/ RestoreStopped \/ DeleteRestored
  BY <1>3, StartRestoreInv, RestoreReadLabelInv, RestoreSnapshotInv, RestoreApplyInv, RestoreFinishInv,
     RestoreStoppedInv, DeleteRestoredInv DEF RestoreStep
<1>4. CASE StartRecv \/ RecvStopped \/ RecvSave \/ RecvAdd
  BY <1>4, StartRecvInv, RecvStoppedInv, RecvSaveInv, RecvAddInv
<1>5. CASE GarbageCollect \/ ChangeSnapshot \/ Restart
  BY <1>5, GarbageCollectInv, ChangeSnapshotInv, RestartInv
<1>6. CASE UNCHANGED vars
  <2>1. /\ UNCHANGED <<disk, mgr, latest, acked, kept, overtaken>> /\ UNCHANGED <<ap, mg, rs, rv, restored>>
    BY <1>6 DEF vars, procs
  <2> QED BY <2>1, VolumeKept DEF IInv
<1> QED BY <1>1, <1>2, <1>3, <1>4, <1>5, <1>6 DEF Next

-----------------------------------------------------------------------------
(* What follows. *)

LEMMA ExactImage ==
    ASSUME NEW image \in Image, NEW t \in 0 .. MaxGid, Between(image, t, t)
    PROVE  image = Truth(t)
<1>1. \A b \in Blocks : image[b] = Truth(t)[b]
  BY DEF Between
<1>2. Truth(t) \in Image
  BY TruthType
<1> QED BY <1>1, <1>2 DEF Image

LEMMA TypeFollows == IInv => TypeOK
<1> SUFFICES ASSUME IInv PROVE TypeOK
  OBVIOUS
<1>1. /\ metaSt \in MetaState /\ base \in Image /\ latest \in MetaSnap /\ acked \in 0 .. MaxGid
      /\ kept \subseteq 1 .. MaxGid
  BY DEF IInv, LabelInv, KeptInv
<1>2. /\ ap.pc \in {"idle", "list", "write", "remove", "unlink"}
      /\ mg.pc \in {"idle", "save", "add", "erase", "unlink"}
      /\ rs.pc \in {"idle", "label", "snapshot", "apply"} /\ rs.st \in MetaState /\ rs.image \in Image
      /\ rv.pc \in {"idle", "save", "add"} /\ rv.latest \in MetaSnap
  BY DEF IInv, ApplyInv, MergeInv, RestoreInv, RecvInv, ApplyRec, MergeRec, RestoreRec, RecvRec
<1>3. /\ restored \in [DOMAIN restored -> [image : Image, spoilt : BOOLEAN]] /\ DOMAIN restored \subseteq 1 .. MaxGid
  BY DEF IInv, RestoredInv
<1>4. ASSUME NEW d \in files \cup mgr
      PROVE  Progresses(d.snapB, d.snapE) /\ DOMAIN d.data \subseteq Blocks
  <2>1. d \in LogDiffs
    BY DEF IInv, DiffsInv
  <2>2. /\ B(d) \in 0 .. MaxGid /\ E(d) \in 0 .. MaxGid /\ B(d) \in Nat /\ E(d) \in Nat /\ B(d) < E(d)
        /\ d.snapB = Snap(B(d), B(d)) /\ d.snapE = Snap(E(d), E(d)) /\ DOMAIN d.data = WrittenIn(B(d), E(d))
    BY <2>1, DiffFacts
  <2>3. d.snapB.gidE = B(d) /\ d.snapE.gidE = E(d)
    BY <2>2 DEF Snap
  <2> QED BY <2>2, <2>3, WrittenInType DEF Progresses, B, E
<1> QED BY <1>1, <1>2, <1>3, <1>4 DEF TypeOK

LEMMA BaseFollows == IInv => BaseExact
<1> SUFFICES ASSUME IInv, ~metaSt.isApplying, IsClean(metaSt.snapB), ~overtaken
             PROVE  base = Truth(metaSt.snapB.gidB)
  BY DEF BaseExact
<1>1. Between(base, metaSt.snapB.gidB, metaSt.snapB.gidB)
  BY DEF IInv, BaseInv, Reach, IsClean
<1>2. metaSt.snapB.gidB \in 0 .. MaxGid /\ base \in Image
  BY LabelFacts DEF IInv, Labelled, LabelInv
<1> QED BY <1>1, <1>2, ExactImage

\* The blocks are not past a latest snapshot that is clean.
LEMMA LatestFollows == IInv => LatestReadable
<1> DEFINE g == metaSt.snapB.gidB
           v == getApplicableDiffList(mgr, metaSt.snapB)
<1> SUFFICES ASSUME IInv, IsClean(latest), ~overtaken
             PROVE  Patch(base, MergedData(v)) = Truth(latest.gidB)
  BY DEF LatestReadable
<1>1. /\ g \in 0 .. MaxGid /\ metaSt.snapB \in MetaSnap /\ metaSt.snapB.gidE \in Nat /\ metaSt.snapE.gidB \in Nat
      /\ Reach(metaSt) \in 0 .. MaxGid
  BY LabelFacts DEF IInv, Labelled
<1>2. /\ base \in Image /\ latest.gidB \in 0 .. MaxGid /\ latest.gidE = latest.gidB
      /\ g <= latest.gidB /\ metaSt.snapB.gidE <= latest.gidE
      /\ metaSt.isApplying => metaSt.snapE.gidB <= latest.gidB
  BY DEF IInv, LabelInv, IsClean
<1>3. /\ mgr \subseteq LogDiffs /\ \A d \in mgr : E(d) <= latest.gidB
      /\ \A c \in 0 .. MaxGid : g <= c /\ c < latest.gidB => Covered(mgr, c)
  BY DEF IInv, DiffsInv
<1>4. /\ v \in Seq(LogDiffs) /\ Chain(g, v)
      /\ (\A d \in mgr : E(d) <= latest.gidB) => At(g, v, Len(v)) = latest.gidB
  BY <1>1, <1>2, <1>3, LatestWalk
<1> HIDE DEF v
<1>5. At(g, v, Len(v)) = latest.gidB
  BY <1>3, <1>4
<1>6. Reach(metaSt) <= latest.gidB
  BY <1>1, <1>2 DEF Reach, Larger
<1>7. Between(base, g, Reach(metaSt))
  BY DEF IInv, BaseInv
<1> QED BY <1>1, <1>2, <1>4, <1>5, <1>6, <1>7, PatchFacts

LEMMA AckedFollows == IInv => AckedIsDurable
<1> SUFFICES ASSUME IInv PROVE acked <= getLatestState(files, metaSt).snapB.gidB
  BY DEF AckedIsDurable
<1>1. /\ metaSt \in MetaState /\ metaSt.snapB.gidB \in 0 .. MaxGid /\ latest.gidB \in 0 .. MaxGid
      /\ metaSt.snapB.gidB <= latest.gidB /\ acked \in 0 .. MaxGid /\ acked <= latest.gidB
  BY LabelFacts DEF IInv, LabelInv, Labelled
<1>2. /\ files \subseteq LogDiffs
      /\ \A c \in 0 .. MaxGid : metaSt.snapB.gidB <= c /\ c < latest.gidB => Covered(files, c)
  BY DEF IInv, DiffsInv, Covered
<1>3. getLatestState(files, metaSt).snapB.gidB \in latest.gidB .. MaxGid
  BY <1>1, <1>2, GcFacts
<1> QED BY <1>1, <1>3, LogType

\* The walk to a gid that is kept arrives there, and what an interrupted apply asks
\* for is no longer than it.
LEMMA KeptFollows == IInv => KeptIsRestorable
<1> DEFINE g == metaSt.snapB.gidB
<1> SUFFICES ASSUME IInv, NEW gid \in kept,
                    Larger((IF metaSt.isApplying THEN metaSt.snapE ELSE metaSt.snapB).gidB,
                           metaSt.snapB.gidE) <= gid,
                    gid <= latest.gidB
             PROVE  Restorable(gid)
  BY DEF KeptIsRestorable
<1> DEFINE a == getApplicableDiffListByGid(mgr, metaSt.snapB, gid)
           w == getMinimumApplicableDiffList(mgr, metaSt)
           all == getDiffListToSync(mgr, metaSt, Snap(gid, gid))
<1>1. /\ g \in 0 .. MaxGid /\ g \in Nat /\ metaSt.snapB \in MetaSnap /\ metaSt.snapB.gidE \in Nat
      /\ g <= metaSt.snapB.gidE /\ metaSt.snapE.gidB \in Nat /\ Labelled(metaSt) /\ metaSt.isApplying \in BOOLEAN
      /\ metaSt.isApplying => metaSt.snapE.gidB \in 0 .. MaxGid
  BY LabelFacts DEF IInv, Labelled
<1>2. gid \in 0 .. MaxGid /\ gid \in Nat /\ Keeps(files, gid) /\ latest.gidB \in Nat
  BY LogType DEF IInv, KeptInv, LabelInv
<1>3. metaSt.snapB.gidE <= gid /\ (metaSt.isApplying => metaSt.snapE.gidB <= gid)
  BY <1>1, <1>2 DEF Larger
<1>4. g \in 0 .. gid
  BY <1>1, <1>2, <1>3
<1>5. /\ mgr \subseteq LogDiffs /\ \A c \in 0 .. MaxGid : g <= c /\ c < gid => Covered(mgr, c)
      /\ \A d \in mgr : ~(B(d) < gid /\ gid < E(d))
  <2>1. \A c \in 0 .. MaxGid : g <= c /\ c < gid => c < latest.gidB
    BY <1>2, LogType
  <2> QED BY <1>2, <2>1 DEF IInv, DiffsInv, Keeps, B, E
<1>6. /\ a \in Seq(mgr) /\ a \in Seq(LogDiffs) /\ Walk(mgr, g, a) /\ Chain(g, a)
      /\ ApplyAll(metaSt.snapB, a) \in MetaSnap
      /\ ApplyAll(metaSt.snapB, a).gidB = At(g, a, Len(a))
      /\ ApplyAll(metaSt.snapB, a).gidE = Larger(At(g, a, Len(a)), metaSt.snapB.gidE)
  BY <1>1, <1>2, <1>4, <1>5, WalkEnds
<1>7. At(g, a, Len(a)) = gid
  BY <1>1, <1>2, <1>4, <1>5, WalkArrives
<1>8. ApplyAll(metaSt.snapB, a) = Snap(gid, gid)
  <2>1. Larger(gid, metaSt.snapB.gidE) = gid
    BY <1>1, <1>2, <1>3 DEF Larger
  <2> HIDE DEF a
  <2> QED BY <1>6, <1>7, <2>1 DEF MetaSnap, Snap
<1>9. w \in Seq(mgr) /\ Walk(mgr, g, w)
  BY <1>1, <1>5, MinimumFacts
<1>10. Len(w) <= Len(a)
  <2>1. CASE ~metaSt.isApplying
    <3>1. w = <<>>
      BY <2>1 DEF getMinimumApplicableDiffList
    <3> QED BY <1>6, <3>1
  <2>2. CASE metaSt.isApplying
    <3> HIDE DEF a, w
    <3> SUFFICES ASSUME Len(a) < Len(w) PROVE FALSE
      BY <1>6, <1>9
    <3> DEFINE n == Len(w) - 1
    <3>1. n \in 0 .. Len(w) /\ Len(a) <= n /\ n + 1 = Len(w) /\ Len(w) \in 1 .. Len(w) /\ Len(w) \in 0 .. Len(w)
      BY <1>6, <1>9
    <3> HIDE DEF n
    <3>2. Pre(w, n) \in Seq(mgr) /\ Len(Pre(w, n)) = n /\ Walk(mgr, g, Pre(w, n))
      BY <1>1, <1>5, <1>9, <3>1, WalkPre
    <3>3. At(g, a, Len(a)) <= At(g, Pre(w, n), n)
      BY <1>1, <1>5, <1>6, <3>1, <3>2, WalkPrefix
    <3>4. w \in Seq(LogDiffs) /\ Chain(g, w)
      BY <1>1, <1>5, <1>9, WalkChain
    <3>5. At(g, Pre(w, n), n) = At(g, w, n)
      <4>1. n \in 0 .. n
        BY <3>1
      <4> QED BY <1>1, <3>1, <3>4, <4>1, ChainPre
    <3>6. At(g, w, n) < At(g, w, Len(w)) /\ At(g, w, n) \in Nat /\ At(g, w, Len(w)) \in Nat
      <4>1. Len(w) - 1 = n
        BY <3>1
      <4> QED BY <1>1, <3>1, <3>4, <4>1, ChainFacts
    <3>7. At(g, w, Len(w)) <= metaSt.snapE.gidB
      <4>1. w = getApplicableDiffListByGid(mgr, metaSt.snapB, metaSt.snapE.gidB)
        BY <2>2 DEF w, getMinimumApplicableDiffList
      <4>2. \A i \in 1 .. Len(w) : E(w[i]) <= metaSt.snapE.gidB
        BY <1>1, <1>5, <4>1, WalkFacts
      <4>3. At(g, w, Len(w)) = E(w[Len(w)])
        BY <3>1 DEF At
      <4> QED BY <3>1, <4>2, <4>3
    <3> QED BY <1>1, <1>2, <1>3, <1>7, <2>2, <3>3, <3>5, <3>6, <3>7
  <2> QED BY <1>1, <2>1, <2>2
<1>11. CASE a = <<>>
  <2>1. g = gid
    <3>1. Len(<<>>) = 0
      OBVIOUS
    <3> QED BY <1>7, <1>11, <3>1 DEF At
  <2>2. metaSt.snapB.gidB = gid /\ metaSt.snapB.gidE = gid
    BY <1>1, <1>2, <1>3, <2>1
  <2>3. ~metaSt.isApplying
    BY <1>1, <1>2, <1>3, <2>2 DEF IInv, LabelInv
  <2> QED BY <2>2, <2>3 DEF Restorable, NoNeedToApply, IsClean
<1>12. CASE a # <<>>
  <2>1. Snap(gid, gid).gidB = gid
    BY DEF Snap
  <2>2. ~(Len(w) > Len(a))
    BY <1>6, <1>9, <1>10
  <2>3. all = a
    BY <1>8, <1>12, <2>1, <2>2 DEF getDiffListToSync
  <2>4. FirstDiffs(all, 0) = all
    BY DEF FirstDiffs
  <2> QED BY <1>12, <2>3, <2>4 DEF Restorable, getDiffListToRestore
<1> QED BY <1>11, <1>12

LEMMA AddFollows == IInv => AddNeverRefused
<1> SUFFICES ASSUME IInv PROVE AddNeverRefused
  OBVIOUS
<1>1. mg.pc = "add" => CanAdd(MergeAll(mg.list))
  BY DEF IInv, MergeInv
<1>2. rv.pc = "add" => \A d \in rv.diff : CanAdd(d)
  BY RecvFacts
<1> QED BY <1>1, <1>2 DEF AddNeverRefused

\* The shortest list an interrupted apply asks for arrives at that apply's end, unless a
\* diff leads over it, and the list of apply is not shorter.
LEMMA ApplyFollows == IInv => ApplyProgresses
<1> DEFINE g == metaSt.snapB.gidB
           v == getDiffListToApply(mgr, metaSt, ap.gid, MaxOpenDiffs)
           w == getMinimumApplicableDiffList(mgr, metaSt)
           end == metaSt.snapE.gidB
<1> SUFFICES ASSUME IInv, ap.pc = "list", v # <<>>, \A d \in mgr : ~(d.snapB.gidB < end /\ end < d.snapE.gidB)
             PROVE  CanApplyState(metaSt, v)
  BY DEF ApplyProgresses
<1>1. /\ mgr \subseteq LogDiffs /\ ap.gid \in Nat /\ MaxOpenDiffs \in Nat /\ Labelled(metaSt)
      /\ g \in 0 .. MaxGid /\ metaSt.snapB \in MetaSnap
  BY LogType, LabelFacts, AVAssumption DEF IInv, DiffsInv, ApplyInv, ApplyRec, Labelled
<1>2. /\ v \in Seq(mgr) /\ Walk(mgr, g, v) /\ Len(w) <= Len(v)
      /\ CanApplyAll(metaSt.snapB, v) /\ ApplyAll(metaSt.snapB, v).gidB = At(g, v, Len(v))
  BY <1>1, ToApplyFacts
<1> HIDE DEF v
<1>3. ASSUME metaSt.isApplying PROVE end <= At(g, v, Len(v))
  <2>1. end \in 0 .. MaxGid /\ g < end /\ end <= latest.gidB
    BY <1>1, <1>3 DEF IInv, LabelInv, Labelled
  <2>2. g \in 0 .. end
    BY <1>1, <2>1
  <2>3. \A c \in 0 .. MaxGid : g <= c /\ c < end => Covered(mgr, c)
    <3>1. latest.gidB \in Nat /\ end \in Nat
      BY <2>1, LogType DEF IInv, LabelInv
    <3>2. \A c \in 0 .. MaxGid : c < end => c < latest.gidB
      BY <2>1, <3>1, LogType
    <3> QED BY <3>2 DEF IInv, DiffsInv
  <2>4. w = getApplicableDiffListByGid(mgr, metaSt.snapB, end)
    BY <1>3 DEF getMinimumApplicableDiffList
  <2>5. \A d \in mgr : ~(B(d) < end /\ end < E(d))
    BY DEF B, E
  <2> HIDE DEF end, w
  <2>6. At(g, w, Len(w)) = end
    BY <1>1, <2>1, <2>2, <2>3, <2>4, <2>5, WalkArrives
  <2>7. w \in Seq(mgr) /\ Walk(mgr, g, w)
    BY <1>1, MinimumFacts DEF w
  <2> QED BY <1>1, <1>2, <2>6, <2>7, WalkPrefix
<1> QED BY <1>2, <1>3 DEF CanApplyState
-----------------------------------------------------------------------------
(* What never moves back. *)

\* How far the base image, the latest snapshot and the acknowledged diffs lead.
MovesForward ==
    /\ metaSt.snapB.gidB <= metaSt'.snapB.gidB
    /\ latest.gidB <= latest'.gidB
    /\ acked <= acked'

LEMMA StillForward == ASSUME IInv, UNCHANGED <<metaSt, latest, acked>> PROVE MovesForward
BY LabelFacts, LogType DEF IInv, LabelInv, MovesForward

\* The label and the latest snapshot change in the steps below only.
LEMMA ApplyForward == ASSUME IInv, ApplyBegin \/ ApplyEnd PROVE MovesForward
<1> DEFINE g == metaSt.snapB.gidB e == metaSt.snapE.gidB
<1>1. UNCHANGED <<latest, acked>>
  BY DEF ApplyBegin, ApplyEnd
<1>2. metaSt.snapB \in MetaSnap /\ g \in Nat
  BY LabelFacts DEF IInv
<1>3. CASE ApplyBegin
  <2>1. metaSt'.snapB = metaSt.snapB
    BY <1>3 DEF ApplyBegin, beginApplying
  <2> QED BY <1>1, <1>2, <2>1, LogType DEF IInv, LabelInv, MovesForward
<1>4. CASE ApplyEnd
  <2>1. ap.pc = "write" /\ metaSt' = endApplying(metaSt, ap.list)
    BY <1>4 DEF ApplyEnd
  <2>2. /\ g \in 0 .. MaxGid /\ e \in 0 .. MaxGid /\ g < e
        /\ ap.list \in Seq(LogDiffs) /\ Chain(g, ap.list) /\ At(g, ap.list, Len(ap.list)) = e
    BY <2>1, WriteFacts
  <2>3. ApplyAll(metaSt.snapB, ap.list).gidB = e
    BY <1>2, <2>2, ApplyAllFacts
  <2>4. metaSt'.snapB.gidB = e
    BY <2>1, <2>3 DEF endApplying, Settled
  <2> QED BY <1>1, <2>2, <2>4, LogType DEF IInv, LabelInv, MovesForward
<1> QED BY <1>3, <1>4

\* What is received ends after everything before it.
LEMMA RecvForward == ASSUME IInv, RecvAdd PROVE MovesForward
<1>1. rv.pc = "add" /\ UNCHANGED metaSt
  BY DEF RecvAdd, disk
<1>2. PICK d \in rv.diff : CanAdd(d) => latest' = apply(rv.latest, d) /\ acked' = d.snapE.gidB
  BY DEF RecvAdd
<1>3. d \in LogDiffs /\ rv.latest = latest /\ B(d) <= latest.gidB /\ latest.gidB < E(d) /\ CanAdd(d)
  BY <1>1, RecvFacts
<1>4. latest \in MetaSnap /\ latest.gidB \in Nat /\ acked \in Nat /\ acked <= latest.gidB
  BY LogType DEF IInv, LabelInv
<1>5. latest'.gidB = E(d) /\ acked' = E(d) /\ E(d) \in Nat
  <2>1. apply(latest, d).gidB = E(d)
    BY <1>3, <1>4, ApplyFacts
  <2>2. E(d) \in Nat
    BY <1>3, DiffFacts
  <2> QED BY <1>2, <1>3, <2>1, <2>2 DEF E
<1>6. metaSt.snapB.gidB \in Nat
  BY LabelFacts DEF IInv
<1> QED BY <1>1, <1>3, <1>4, <1>5, <1>6 DEF MovesForward

\* The files lead at least as far as the latest snapshot did before the crash.
LEMMA RestartForward == ASSUME IInv, Restart PROVE MovesForward
<1>1. latest' = getLatestState(files, metaSt).snapB /\ UNCHANGED <<metaSt, acked>>
  BY DEF Restart
<1>2. /\ metaSt \in MetaState /\ metaSt.snapB.gidB \in 0 .. MaxGid /\ latest.gidB \in 0 .. MaxGid
      /\ metaSt.snapB.gidB <= latest.gidB /\ acked \in 0 .. MaxGid
  BY LabelFacts DEF IInv, LabelInv, Labelled
<1>3. /\ files \subseteq LogDiffs
      /\ \A c \in 0 .. MaxGid : metaSt.snapB.gidB <= c /\ c < latest.gidB => Covered(files, c)
  BY DEF IInv, DiffsInv, Covered
<1>4. latest'.gidB \in latest.gidB .. MaxGid
  BY <1>1, <1>2, <1>3, GcFacts
<1> QED BY <1>1, <1>2, <1>4, LogType DEF MovesForward

LEMMA NextForward == IInv /\ [Next]_vars => MovesForward
<1> SUFFICES ASSUME IInv, [Next]_vars PROVE MovesForward
  OBVIOUS
<1>1. CASE ApplyBegin \/ ApplyEnd \/ RecvAdd \/ Restart
  BY <1>1, ApplyForward, RecvForward, RestartForward
<1>2. CASE UNCHANGED <<metaSt, latest, acked>>
  BY <1>2, StillForward
<1>3. CASE StartApply \/ ApplyDone \/ ApplyWrite \/ ApplyRemove \/ ApplyUnlink \/ ApplyStopped
  BY <1>2, <1>3 DEF StartApply, ApplyDone, ApplyWrite, ApplyRemove, ApplyUnlink, ApplyStopped, disk
<1>4. CASE StartMerge \/ MergeStep \/ MergeStopped
  BY <1>2, <1>4 DEF StartMerge, MergeStep, MergeSave, MergeAdd, MergeErase, MergeUnlink, MergeStopped, disk
<1>5. CASE StartRestore \/ RestoreStep \/ RestoreStopped \/ DeleteRestored
  BY <1>2, <1>5 DEF StartRestore, RestoreStep, RestoreReadLabel, RestoreSnapshot, RestoreApply,
     RestoreFinish, RestoreStopped, DeleteRestored, disk
<1>6. CASE StartRecv \/ RecvStopped \/ RecvSave \/ GarbageCollect \/ ChangeSnapshot \/ UNCHANGED vars
  BY <1>2, <1>6 DEF StartRecv, RecvStopped, RecvSave, GarbageCollect, ChangeSnapshot, vars, disk
<1> QED BY <1>1, <1>3, <1>4, <1>5, <1>6 DEF Next, ApplyStep


-----------------------------------------------------------------------------

\* IInv: the label, the diffs, the files, and what each procedure has done so far, fit
\* together whatever the procedures do beside each other.
THEOREM Invariance == Spec => []IInv
BY InitInv, NextInv, PTL DEF Spec

\* TypeOK: every variable keeps its type, and every diff progresses as
\* MetaDiff::verify demands.
THEOREM TypeCorrect == Spec => []TypeOK
BY Invariance, TypeFollows, PTL

\* BaseExact: a base image with a clean label and no apply under way is the volume
\* at that gid (applyDiffsToVolume).
THEOREM AppliedCorrectly == Spec => []BaseExact
BY Invariance, BaseFollows, PTL

\* RestoredExact: a restored volume is the volume at the gid asked for, unless the
\* label changed under it or an apply was overtaken (restore).
THEOREM RestoredCorrectly == Spec => []RestoredExact
<1>1. IInv => RestoredExact
  BY DEF IInv, RestoredInv
<1> QED BY <1>1, Invariance, PTL

\* LatestReadable: at every moment the base image and the diffs make the latest
\* snapshot, which hash backup and replication read (prepareVirtualFullScanner).
THEOREM LatestIsReadable == Spec => []LatestReadable
BY Invariance, LatestFollows, PTL

\* AckedIsDurable: a diff that was acknowledged to a proxy is found again after a
\* crash at any moment (p2aWdiffTransferServer, restart).
THEOREM AckedIsNeverLost == Spec => []AckedIsDurable
BY Invariance, AckedFollows, PTL

\* KeptIsRestorable: a snapshot that is to be kept can be restored from when it is
\* received until the base image is to pass it (getDiffListToRestore).
THEOREM KeptStaysRestorable == Spec => []KeptIsRestorable
BY Invariance, KeptFollows, PTL

\* AddNeverRefused: MetaDiffManager::add never finds a diff with the same snapshots.
THEOREM AddIsNeverRefused == Spec => []AddNeverRefused
BY Invariance, AddFollows, PTL

\* ApplyProgresses: the assertion of beginApplying holds unless a longer diff has
\* come over the end of an interrupted apply.
THEOREM ApplyAlwaysProgresses == Spec => []ApplyProgresses
BY Invariance, ApplyFollows, PTL

\* MovesForward: no stop, error or crash takes the base image, the latest snapshot or
\* what was acknowledged back to an earlier gid (endApplying, restart).
THEOREM NothingMovesBack == Spec => [][MovesForward]_vars
BY Invariance, NextForward, PTL DEF Spec
=============================================================================
