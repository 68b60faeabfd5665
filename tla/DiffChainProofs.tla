--------------------------- MODULE DiffChainProofs ---------------------------
(***************************************************************************)
(* Proofs about DiffChain, for every set of blocks and of contents and     *)
(* every bound.                                                            *)
(*                                                                         *)
(* The argument: the archive passes one line of snapshots, one per gidB,   *)
(* each with one image.  Every diff it holds, however it has come about,   *)
(* leads from every snapshot of the line it is applicable to to a snapshot *)
(* of the line, in label and in content.  So it does not matter which      *)
(* diffs a reader takes.                                                   *)
(***************************************************************************)
EXTENDS DiffChain, TLAPS

R == DOMAIN line

SnapAt(g) == Snap(g, line[g].gidE)

\* The line of snapshots ends at the latest one, and its dirty ranges do not
\* move backwards; since the log was reset they all end where the first one
\* does, or have been passed.
LineInv ==
    /\ latest.gidB \in R /\ latest = SnapAt(latest.gidB)
    /\ lo <= latest.gidB
    /\ \A g \in R : g <= latest.gidB /\ g <= line[g].gidE
    /\ \A g, h \in R : g < h => line[g].gidE <= line[h].gidE
    /\ \A g, h \in R : lo <= g /\ g < h => line[h].gidE = Larger(h, line[g].gidE)

\* A snapshot of the line with its image.
OnLine(snap, image) ==
    snap.gidB \in R /\ snap = SnapAt(snap.gidB) /\ image = line[snap.gidB].image

\* The diff leads from the line to the line.
Sound(d) ==
    \A g \in R : canApply(SnapAt(g), d) =>
        /\ apply(SnapAt(g), d) = SnapAt(d.snapE.gidB)
        /\ Patch(line[g].image, d.data) = line[d.snapE.gidB].image

\* What it contains is what the image it leads to contains, and a dirty one
\* knows the label of that image.
Lands(d) ==
    /\ d.snapB.gidB < d.snapE.gidB
    /\ d.snapE.gidB \in R
    /\ \A b \in DOMAIN d.data : d.data[b] = line[d.snapE.gidB].image[b]
    /\ ~IsCleanDiff(d) => d.snapE = SnapAt(d.snapE.gidB)

DiffInv == \A d \in diffs : Sound(d) /\ Lands(d)

\* Every block of a snapshot |B,E| is as it was at some gid between B and E;
\* blocks the log has written since it was reset are as they were at B; images
\* differ in the blocks written in between only.
TruthInv ==
    /\ Consistent(truth, written, lo, top)
    /\ \A g \in R : IsClean(SnapAt(g)) => line[g].image = truth[g]
    /\ \A g \in R, b \in Blocks : lo <= g =>
            \E x \in g .. line[g].gidE : line[g].image[b] = truth[x][b]
    /\ \A g \in R, b \in Blocks : lo <= g /\ b \in WrittenIn(lo, g) =>
            line[g].image[b] = truth[g][b]
    /\ \A g, h \in R, b \in Blocks : lo <= g /\ g < h /\ b \notin WrittenIn(g, h) =>
            line[g].image[b] = line[h].image[b]

\* A diff that starts at an explicit snapshot cannot be merged to the left.
FlagsInv ==
    \A d \in diffs : ~d.isCompDiff /\ d.snapB.gidB \in explicit \cap R => ~d.isMergeable

\* Explicit snapshots are taken outside of dirty ranges.
ExplicitInv == \A x \in explicit, g \in R : g <= x => line[g].gidE <= x

\* The inductive invariant.
IInv ==
    /\ TypeOK /\ LineInv
    /\ OnLine(base, baseImage) /\ OnLine(cur, curImage)
    /\ DiffInv /\ TruthInv
    /\ NoHole /\ ExplicitSnapshotsKept /\ FlagsInv /\ ExplicitInv

-----------------------------------------------------------------------------
(* Labels, images and data. *)

\* A block is written between two gids when it is at one of them.
LEMMA WrittenInPointwise ==
    ASSUME NEW p \in Nat, NEW q \in Nat, NEW b
    PROVE  b \in WrittenIn(p, q) <=> \E x \in p + 1 .. q : b \in written[x]
BY DEF WrittenIn

\* The data of a diff is content for some of the blocks.
LEMMA DataType ==
    ASSUME NEW d \in Diff
    PROVE  /\ DOMAIN d.data \subseteq Blocks
           /\ d.data \in [DOMAIN d.data -> Values]
<1>1. PICK W \in SUBSET Blocks : d.data \in [W -> Values]
  BY DEF Diff
<1>2. DOMAIN d.data = W
  BY <1>1
<1> QED BY <1>1, <1>2

\* The labels and flags of a diff.
LEMMA DiffType ==
    ASSUME NEW d \in Diff
    PROVE  /\ d.snapB \in MetaSnap /\ d.snapE \in MetaSnap
           /\ d.isMergeable \in BOOLEAN /\ d.isCompDiff \in BOOLEAN
           /\ d.snapB.gidB \in Nat /\ d.snapB.gidE \in Nat /\ d.snapB.gidB <= d.snapB.gidE
           /\ d.snapE.gidB \in Nat /\ d.snapE.gidE \in Nat /\ d.snapE.gidB <= d.snapE.gidE
BY DEF Diff, MetaSnap

\* The gids of a label.
LEMMA SnapFields ==
    ASSUME NEW b, NEW e
    PROVE  Snap(b, e).gidB = b /\ Snap(b, e).gidE = e
BY DEF Snap

\* A label with ordered gids is a snapshot.
LEMMA SnapType ==
    ASSUME NEW b \in Nat, NEW e \in Nat, b <= e
    PROVE  Snap(b, e) \in MetaSnap
BY DEF Snap, MetaSnap

\* A snapshot is its two gids.
LEMMA SnapEta ==
    ASSUME NEW s \in MetaSnap
    PROVE  s = Snap(s.gidB, s.gidE) /\ s.gidB \in Nat /\ s.gidE \in Nat /\ s.gidB <= s.gidE
BY DEF Snap, MetaSnap

\* std::max.
LEMMA LargerFacts ==
    ASSUME NEW m \in Nat, NEW n \in Nat
    PROVE  /\ Larger(m, n) \in Nat /\ m <= Larger(m, n) /\ n <= Larger(m, n)
           /\ Larger(m, n) \in {m, n}
BY DEF Larger

\* A diff leads where it says, except for the end of the dirty range.
LEMMA ApplyFacts ==
    ASSUME NEW s \in MetaSnap, NEW d \in Diff
    PROVE  /\ apply(s, d) \in MetaSnap
           /\ apply(s, d).gidB = d.snapE.gidB
           /\ IsCleanDiff(d) => apply(s, d).gidE = Larger(d.snapE.gidB, s.gidE)
           /\ ~IsCleanDiff(d) => apply(s, d) = d.snapE
BY SMTT(30), DiffType, SnapFields, SnapType, SnapEta, LargerFacts DEF apply

\* A diff over an image is an image.
LEMMA PatchType ==
    ASSUME NEW image \in Image, NEW d \in Diff
    PROVE  Patch(image, d.data) \in Image
BY DataType DEF Patch, Image

\* The blocks of an image with a diff over it.
LEMMA PatchAt ==
    ASSUME NEW image \in Image, NEW data, NEW b \in Blocks
    PROVE  Patch(image, data)[b] = IF b \in DOMAIN data THEN data[b] ELSE image[b]
BY DEF Patch, Image

\* Images are equal when they are block by block.
LEMMA ImageEquality ==
    ASSUME NEW i \in Image, NEW j \in Image, \A b \in Blocks : i[b] = j[b]
    PROVE  i = j
BY DEF Image

\* The blocks of a merged diff, the newer diff prevailing.
LEMMA MergeDataFacts ==
    ASSUME NEW d0 \in Diff, NEW d1 \in Diff
    PROVE  /\ MergeData(d0.data, d1.data) \in UNION {[W -> Values] : W \in SUBSET Blocks}
           /\ DOMAIN MergeData(d0.data, d1.data) = DOMAIN d0.data \cup DOMAIN d1.data
           /\ \A b \in DOMAIN d0.data \cup DOMAIN d1.data :
                MergeData(d0.data, d1.data)[b] = IF b \in DOMAIN d1.data THEN d1.data[b] ELSE d0.data[b]
<1> DEFINE W == DOMAIN d0.data \cup DOMAIN d1.data
<1>1. W \in SUBSET Blocks
  BY DataType
<1>2. MergeData(d0.data, d1.data) \in [W -> Values]
  BY DataType DEF MergeData
<1>3. MergeData(d0.data, d1.data) \in UNION {[V -> Values] : V \in SUBSET Blocks}
  BY <1>1, <1>2
<1> QED BY <1>3 DEF MergeData

\* The types of a snapshot of the line.
LEMMA LineType ==
    ASSUME TypeOK, LineInv, NEW g \in R
    PROVE  /\ g \in Nat /\ line[g].gidE \in Nat /\ line[g].image \in Image
           /\ SnapAt(g) \in MetaSnap /\ SnapAt(g).gidB = g /\ SnapAt(g).gidE = line[g].gidE
           /\ g <= top /\ line[g].gidE <= top
<1>1. top \in Nat /\ g \in 0 .. top /\ line[g] \in [gidE : 0 .. top, image : Image]
  BY DEF TypeOK, R
<1>2. g \in Nat /\ line[g].gidE \in Nat /\ line[g].image \in Image /\ g <= top /\ line[g].gidE <= top
  BY <1>1
<1>3. g <= line[g].gidE
  BY DEF LineInv
<1> QED BY <1>2, <1>3, SnapType, SnapFields DEF SnapAt

-----------------------------------------------------------------------------
(* Merging. *)

\* The fields of a merged diff.
LEMMA MergeType ==
    ASSUME NEW d0 \in Diff, NEW d1 \in Diff
    PROVE  /\ merge(d0, d1) \in Diff
           /\ merge(d0, d1).snapB = d0.snapB
           /\ merge(d0, d1).snapE.gidB = d1.snapE.gidB
           /\ IsCleanDiff(d1) => merge(d0, d1).snapE.gidE = Larger(d1.snapE.gidB, d0.snapE.gidE)
           /\ ~IsCleanDiff(d1) => merge(d0, d1).snapE = d1.snapE
           /\ merge(d0, d1).data = MergeData(d0.data, d1.data)
           /\ merge(d0, d1).isMergeable = d0.isMergeable /\ ~merge(d0, d1).isCompDiff
<1> DEFINE e == IF IsCleanDiff(d1)
                THEN Snap(d1.snapE.gidB, Larger(d1.snapE.gidB, d0.snapE.gidE))
                ELSE d1.snapE
<1>1. e \in MetaSnap
  BY DiffType, SnapType, LargerFacts
<1>2. MergeData(d0.data, d1.data) \in UNION {[W -> Values] : W \in SUBSET Blocks}
  BY MergeDataFacts
<1>3. d0.snapB \in MetaSnap /\ d0.isMergeable \in BOOLEAN
  BY DiffType
<1>4. merge(d0, d1) = [snapB |-> d0.snapB, snapE |-> e, isMergeable |-> d0.isMergeable,
                       isCompDiff |-> FALSE, data |-> MergeData(d0.data, d1.data)]
  BY DEF merge
<1> HIDE DEF e
<1>5. merge(d0, d1) \in Diff
  BY <1>1, <1>2, <1>3, <1>4 DEF Diff
<1>6. /\ merge(d0, d1).snapB = d0.snapB /\ merge(d0, d1).snapE = e
      /\ merge(d0, d1).data = MergeData(d0.data, d1.data)
      /\ merge(d0, d1).isMergeable = d0.isMergeable /\ ~merge(d0, d1).isCompDiff
  BY <1>4
<1>7. /\ e.gidB = d1.snapE.gidB
      /\ IsCleanDiff(d1) => e.gidE = Larger(d1.snapE.gidB, d0.snapE.gidE)
      /\ ~IsCleanDiff(d1) => e = d1.snapE
  BY SnapFields DEF e
<1> QED BY <1>5, <1>6, <1>7

\* The label and the image at which the merge of two sound diffs arrives.
LEMMA MergeSound ==
    ASSUME TypeOK, LineInv, NEW d0 \in Diff, NEW d1 \in Diff, canMerge(d0, d1),
           Sound(d0), Lands(d0), Sound(d1), Lands(d1)
    PROVE  Sound(merge(d0, d1)) /\ Lands(merge(d0, d1))
<1> DEFINE m  == merge(d0, d1)
           E0 == d0.snapE.gidB
           E1 == d1.snapE.gidB
<1>m. /\ m \in Diff /\ m.snapB = d0.snapB /\ m.snapE.gidB = E1
      /\ m.data = MergeData(d0.data, d1.data)
  BY MergeType
<1>d. /\ DOMAIN m.data = DOMAIN d0.data \cup DOMAIN d1.data
      /\ DOMAIN m.data \subseteq Blocks
      /\ \A b \in DOMAIN m.data : m.data[b] = IF b \in DOMAIN d1.data THEN d1.data[b] ELSE d0.data[b]
  <2>1. m.data = MergeData(d0.data, d1.data)
    BY <1>m
  <2>2. DOMAIN m.data = DOMAIN d0.data \cup DOMAIN d1.data
    BY <2>1, MergeDataFacts
  <2>3. \A b \in DOMAIN d0.data \cup DOMAIN d1.data :
          m.data[b] = IF b \in DOMAIN d1.data THEN d1.data[b] ELSE d0.data[b]
    <3>1. \A b \in DOMAIN d0.data \cup DOMAIN d1.data :
            MergeData(d0.data, d1.data)[b] = IF b \in DOMAIN d1.data THEN d1.data[b] ELSE d0.data[b]
      BY MergeDataFacts
    <3> QED BY <2>1, <3>1
  <2>4. DOMAIN d0.data \subseteq Blocks /\ DOMAIN d1.data \subseteq Blocks
    BY DataType
  <2> QED BY <2>2, <2>3, <2>4
<1>g. /\ d0.snapB.gidB <= d1.snapB.gidB /\ d1.snapB.gidB <= E0 /\ E0 < E1
      /\ d0.snapB.gidB < E0 /\ d1.snapB.gidB < E1
      /\ E0 \in R /\ E1 \in R
  BY DEF canMerge, Lands
<1>n. /\ d0.snapB.gidB \in Nat /\ d1.snapB.gidB \in Nat /\ E0 \in Nat /\ E1 \in Nat
      /\ d0.snapE.gidE \in Nat /\ E0 <= d0.snapE.gidE /\ d1.snapE.gidE \in Nat /\ E1 <= d1.snapE.gidE
  BY DiffType
\* Between the ends of the two diffs only the second one changes the image.
<1>1. /\ apply(SnapAt(E0), d1) = SnapAt(E1)
      /\ Patch(line[E0].image, d1.data) = line[E1].image
  <2>1. canApply(SnapAt(E0), d1)
    BY <1>g, <1>n, LineType DEF canApply
  <2> QED BY <2>1, <1>g DEF Sound
<1>2. \A b \in Blocks \ DOMAIN d1.data : line[E0].image[b] = line[E1].image[b]
  BY <1>1, <1>g, LineType, PatchAt
<1>3. \A b \in DOMAIN m.data : m.data[b] = line[E1].image[b]
  <2> SUFFICES ASSUME NEW b \in DOMAIN m.data PROVE m.data[b] = line[E1].image[b]
    OBVIOUS
  <2>1. b \in Blocks /\ b \in DOMAIN d0.data \cup DOMAIN d1.data
    BY <1>d
  <2>2. CASE b \in DOMAIN d1.data
    BY <2>2, <1>d DEF Lands
  <2>3. CASE b \notin DOMAIN d1.data
    <3>1. m.data[b] = d0.data[b] /\ b \in DOMAIN d0.data
      BY <2>1, <2>3, <1>d
    <3>2. d0.data[b] = line[E0].image[b]
      BY <3>1 DEF Lands
    <3> QED BY <3>1, <3>2, <2>1, <2>3, <1>2
  <2> QED BY <2>2, <2>3
\* The label at the end of the line is the one the merged diff computes.
<1>4. IF IsCleanDiff(d1) THEN line[E1].gidE = Larger(E1, line[E0].gidE)
                         ELSE d1.snapE = SnapAt(E1)
  <2>1. CASE IsCleanDiff(d1)
    <3>1. SnapAt(E0) \in MetaSnap /\ SnapAt(E0).gidE = line[E0].gidE /\ SnapAt(E1).gidE = line[E1].gidE
      BY <1>g, LineType
    <3> QED BY <2>1, <3>1, <1>1, ApplyFacts
  <2>2. CASE ~IsCleanDiff(d1)
    BY <2>2 DEF Lands
  <2> QED BY <2>1, <2>2
<1>5. ~IsCleanDiff(d0) => line[E0].gidE = d0.snapE.gidE
  BY SnapFields DEF Lands, SnapAt
<1>6. IsCleanDiff(d0) => d0.snapE.gidE = E0
  BY DEF IsCleanDiff, IsClean
<1>7. ~IsCleanDiff(m) => m.snapE = SnapAt(E1)
  <2> SUFFICES ASSUME ~IsCleanDiff(m) PROVE m.snapE = SnapAt(E1)
    OBVIOUS
  <2>1. CASE ~IsCleanDiff(d1)
    BY <2>1, <1>4, MergeType
  <2>2. CASE IsCleanDiff(d1)
    <3>1. m.snapE.gidE = Larger(E1, d0.snapE.gidE)
      BY <2>2, MergeType
    <3>2. ~IsCleanDiff(d0)
      <4> SUFFICES ASSUME IsCleanDiff(d0) PROVE FALSE
        OBVIOUS
      <4>1. m.snapE.gidE = E1
        BY <3>1, <1>6, <1>g, <1>n DEF Larger
      <4> QED BY <4>1, <1>m DEF IsCleanDiff, IsClean
    <3>3. m.snapE.gidE = line[E1].gidE
      BY <3>1, <3>2, <1>5, <1>4, <2>2
    <3> QED BY <3>3, <1>m, DiffType, SnapEta DEF SnapAt
  <2> QED BY <2>1, <2>2
<1>8. Lands(m)
  BY <1>m, <1>g, <1>n, <1>3, <1>7 DEF Lands
<1>9. Sound(m)
  <2> SUFFICES ASSUME NEW g \in R, canApply(SnapAt(g), m)
               PROVE  /\ apply(SnapAt(g), m) = SnapAt(E1)
                      /\ Patch(line[g].image, m.data) = line[E1].image
    BY <1>m DEF Sound
  <2>1. /\ g \in Nat /\ d0.snapB.gidB <= g /\ g < E1 /\ line[g].gidE \in Nat
        /\ SnapAt(g) \in MetaSnap /\ SnapAt(g).gidE = line[g].gidE /\ line[g].image \in Image
    BY <1>m, LineType DEF canApply
  <2>2. line[g].gidE <= line[E1].gidE /\ line[E1].gidE \in Nat
    BY <2>1, <1>g, LineType DEF LineInv
  <2>3. line[E1].image \in Image /\ line[E0].image \in Image
    BY <1>g, LineType
  \* The labels.
  <2>4. apply(SnapAt(g), m) = SnapAt(E1)
    <3>1. CASE ~IsCleanDiff(m)
      BY <3>1, <1>7, <1>m, <2>1, ApplyFacts
    <3>2. CASE IsCleanDiff(m)
      <4>1. /\ apply(SnapAt(g), m).gidB = E1 /\ apply(SnapAt(g), m) \in MetaSnap
            /\ apply(SnapAt(g), m).gidE = Larger(E1, line[g].gidE)
        BY <3>2, <1>m, <2>1, ApplyFacts
      <4>2. m.snapE.gidE = E1
        BY <3>2, <1>m DEF IsCleanDiff, IsClean
      <4>3. Larger(E1, line[g].gidE) = line[E1].gidE
        <5>1. CASE ~IsCleanDiff(d1)
          <6>1. line[E1].gidE = E1
            BY <5>1, <4>2, <1>4, MergeType, SnapFields DEF SnapAt
          <6> QED BY <6>1, <2>2, <2>1, <1>n DEF Larger
        <5>2. CASE IsCleanDiff(d1) /\ ~IsCleanDiff(d0)
          <6>1. Larger(E1, d0.snapE.gidE) = E1
            BY <5>2, <4>2, MergeType
          <6>2. line[E1].gidE = E1
            BY <6>1, <5>2, <1>4, <1>5
          <6> QED BY <6>2, <2>2, <2>1, <1>n DEF Larger
        <5>3. CASE IsCleanDiff(d1) /\ IsCleanDiff(d0)
          <6>1. CASE g < E0
            <7>1. canApply(SnapAt(g), d0)
              BY <6>1, <2>1, LineType DEF canApply
            <7>2. apply(SnapAt(g), d0) = SnapAt(E0)
              BY <7>1 DEF Sound
            <7>3. line[E0].gidE = Larger(E0, line[g].gidE)
              <8>1. SnapAt(E0).gidE = line[E0].gidE
                BY <1>g, LineType
              <8>2. apply(SnapAt(g), d0).gidE = Larger(E0, line[g].gidE)
                BY <5>3, <2>1, ApplyFacts
              <8> QED BY <8>1, <8>2, <7>2
            <7> QED BY <7>3, <1>4, <5>3, <2>1, <1>n, <1>g DEF Larger
          <6>2. CASE E0 <= g
            <7>1. canApply(SnapAt(g), d1)
              BY <6>2, <2>1, <1>g, <1>n, LineType DEF canApply
            <7>2. apply(SnapAt(g), d1) = SnapAt(E1)
              BY <7>1 DEF Sound
            <7>3. SnapAt(E1).gidE = line[E1].gidE
              BY <1>g, LineType
            <7>4. apply(SnapAt(g), d1).gidE = Larger(E1, line[g].gidE)
              BY <5>3, <2>1, ApplyFacts
            <7> QED BY <7>2, <7>3, <7>4
          <6> QED BY <6>1, <6>2, <2>1, <1>n
        <5> QED BY <5>1, <5>2, <5>3
      <4> QED BY <4>1, <4>3, SnapEta DEF SnapAt
    <3> QED BY <3>1, <3>2
  \* The images.
  <2>5. Patch(line[g].image, m.data) = line[E1].image
    <3>1. Patch(line[g].image, m.data) \in Image
      BY <2>1, <1>m, PatchType
    <3>2. ASSUME NEW b \in Blocks
          PROVE  Patch(line[g].image, m.data)[b] = line[E1].image[b]
      <4>1. CASE b \in DOMAIN m.data
        BY <4>1, <1>3, <2>1, PatchAt
      <4>2. CASE b \notin DOMAIN m.data
        <5>1. b \notin DOMAIN d0.data /\ b \notin DOMAIN d1.data
          BY <4>2, <1>d
        <5>2. Patch(line[g].image, m.data)[b] = line[g].image[b]
          BY <4>2, <2>1, PatchAt
        <5>3. CASE g < E0
          <6>1. canApply(SnapAt(g), d0)
            BY <5>3, <2>1, LineType DEF canApply
          <6>2. Patch(line[g].image, d0.data) = line[E0].image
            BY <6>1 DEF Sound
          <6>3. line[g].image[b] = line[E0].image[b]
            BY <6>2, <5>1, <2>1, PatchAt
          <6> QED BY <6>3, <5>1, <5>2, <1>2
        <5>4. CASE E0 <= g
          <6>1. canApply(SnapAt(g), d1)
            BY <5>4, <2>1, <1>g, <1>n, LineType DEF canApply
          <6>2. Patch(line[g].image, d1.data) = line[E1].image
            BY <6>1 DEF Sound
          <6> QED BY <6>2, <5>1, <5>2, <2>1, PatchAt
        <5> QED BY <5>3, <5>4, <2>1, <1>n
      <4> QED BY <4>1, <4>2
    <3> QED BY <3>1, <3>2, <2>3, ImageEquality
  <2> QED BY <2>4, <2>5
<1> QED BY <1>8, <1>9

-----------------------------------------------------------------------------
(* One step of a reader or of apply. *)

\* An applicable diff leads from a snapshot of the line to a snapshot of it.
LEMMA StepOnLine ==
    ASSUME TypeOK, LineInv, DiffInv, NEW d \in diffs, NEW snap, NEW image,
           OnLine(snap, image), canApply(snap, d)
    PROVE  /\ apply(snap, d) = SnapAt(d.snapE.gidB) /\ apply(snap, d).gidB = d.snapE.gidB
           /\ Patch(image, d.data) = line[d.snapE.gidB].image
           /\ d.snapE.gidB \in R
           /\ apply(snap, d) \in MetaSnap /\ Patch(image, d.data) \in Image
<1> DEFINE g == snap.gidB
<1>1. g \in R /\ snap = SnapAt(g) /\ image = line[g].image
  BY DEF OnLine
<1>2. Sound(d) /\ Lands(d) /\ d \in Diff
  BY DEF DiffInv, TypeOK
<1>3. d.snapE.gidB \in R
  BY <1>2 DEF Lands
<1>4. apply(snap, d) = SnapAt(d.snapE.gidB) /\ Patch(image, d.data) = line[d.snapE.gidB].image
  BY <1>1, <1>2 DEF Sound
<1>5. /\ SnapAt(d.snapE.gidB) \in MetaSnap /\ line[d.snapE.gidB].image \in Image
      /\ SnapAt(d.snapE.gidB).gidB = d.snapE.gidB
  BY <1>3, LineType
<1> QED BY <1>3, <1>4, <1>5

\* What does not depend on the diffs, the base image and the reader.
LEMMA LineUnchanged ==
    ASSUME LineInv, TruthInv, ExplicitInv, UNCHANGED <<storage, latest, line>>
    PROVE  /\ LineInv' /\ TruthInv' /\ ExplicitInv' /\ R' = R
           /\ \A d : (Sound(d) => Sound(d)') /\ (Lands(d) => Lands(d)')
           /\ \A snap, image : OnLine(snap, image) => OnLine(snap, image)'
<1>u. /\ top' = top /\ lo' = lo /\ truth' = truth /\ written' = written /\ explicit' = explicit
      /\ latest' = latest /\ line' = line
  BY DEF storage
<1>1. R' = R /\ (\A g : SnapAt(g)' = SnapAt(g)) /\ (\A g, h : WrittenIn(g, h)' = WrittenIn(g, h))
  BY <1>u DEF R, SnapAt, WrittenIn
<1>2. LineInv'
  BY <1>u, <1>1 DEF LineInv
<1>3. TruthInv'
  BY <1>u, <1>1 DEF TruthInv, Consistent
<1>4. ExplicitInv'
  BY <1>u, <1>1 DEF ExplicitInv
<1>5. ASSUME NEW d
      PROVE  (Sound(d) => Sound(d)') /\ (Lands(d) => Lands(d)')
  BY <1>u, <1>1 DEF Sound, Lands
<1>6. ASSUME NEW snap, NEW image
      PROVE  OnLine(snap, image) => OnLine(snap, image)'
  BY <1>u, <1>1 DEF OnLine
<1> QED BY <1>1, <1>2, <1>3, <1>4, <1>5, <1>6

\* ReadBase keeps the invariant.
LEMMA ReadBaseInv ==
    ASSUME IInv, ReadBase
    PROVE  IInv'
<1>u. /\ UNCHANGED <<storage, base, baseImage, latest, diffs, line>>
      /\ cur' = base /\ curImage' = baseImage
  BY DEF ReadBase
<1>l. /\ LineInv' /\ TruthInv' /\ ExplicitInv' /\ R' = R
      /\ \A d : (Sound(d) => Sound(d)') /\ (Lands(d) => Lands(d)')
      /\ OnLine(base, baseImage)'
  BY <1>u, LineUnchanged DEF IInv, OnLine, R, SnapAt
<1>1. TypeOK'
  BY <1>u DEF IInv, TypeOK, storage
<1>2. OnLine(cur, curImage)'
  BY <1>l, <1>u DEF OnLine
<1>3. DiffInv'
  BY <1>u, <1>l DEF IInv, DiffInv
<1>4. NoHole' /\ ExplicitSnapshotsKept' /\ FlagsInv'
  BY <1>u, <1>l DEF IInv, NoHole, ExplicitSnapshotsKept, FlagsInv, storage, R
<1> QED BY <1>l, <1>1, <1>2, <1>3, <1>4 DEF IInv

\* ReadDiff keeps the invariant.
LEMMA ReadDiffInv ==
    ASSUME IInv, ReadDiff
    PROVE  IInv'
<1>d. PICK d \in diffs : /\ canApply(cur, d)
                         /\ cur' = apply(cur, d) /\ curImage' = Patch(curImage, d.data)
                         /\ UNCHANGED <<storage, base, baseImage, latest, diffs, line>>
  BY DEF ReadDiff
<1>l. /\ LineInv' /\ TruthInv' /\ ExplicitInv' /\ R' = R
      /\ \A e : (Sound(e) => Sound(e)') /\ (Lands(e) => Lands(e)')
      /\ OnLine(base, baseImage)'
  BY <1>d, LineUnchanged DEF IInv, OnLine, R, SnapAt
<1>s. /\ cur' = SnapAt(d.snapE.gidB) /\ cur'.gidB = d.snapE.gidB
      /\ curImage' = line[d.snapE.gidB].image /\ d.snapE.gidB \in R
      /\ cur' \in MetaSnap /\ curImage' \in Image
  BY <1>d, StepOnLine DEF IInv
<1>1. TypeOK'
  BY <1>d, <1>s DEF IInv, TypeOK, storage
<1>2. OnLine(cur, curImage)'
  BY <1>d, <1>s DEF OnLine, SnapAt, R
<1>3. DiffInv'
  BY <1>d, <1>l DEF IInv, DiffInv
<1>4. NoHole' /\ ExplicitSnapshotsKept' /\ FlagsInv'
  BY <1>d, <1>l DEF IInv, NoHole, ExplicitSnapshotsKept, FlagsInv, storage, R
<1> QED BY <1>l, <1>1, <1>2, <1>3, <1>4 DEF IInv

\* ApplyDiff keeps the invariant: what it removes does not lead anywhere from
\* the new base image.
LEMMA ApplyDiffInv ==
    ASSUME IInv, ApplyDiff
    PROVE  IInv'
<1>d. PICK d \in diffs : /\ canApply(base, d)
                         /\ base' = apply(base, d) /\ baseImage' = Patch(baseImage, d.data)
                         /\ diffs' = eraseBeforeGid(diffs, base'.gidB)
                         /\ UNCHANGED <<storage, latest, line, reader>>
  BY DEF ApplyDiff
<1>l. /\ LineInv' /\ TruthInv' /\ ExplicitInv' /\ R' = R
      /\ \A e : (Sound(e) => Sound(e)') /\ (Lands(e) => Lands(e)')
      /\ OnLine(cur, curImage)'
  BY <1>d, LineUnchanged DEF IInv, OnLine, R, SnapAt, reader
<1>s. /\ base' = SnapAt(d.snapE.gidB) /\ base'.gidB = d.snapE.gidB
      /\ baseImage' = line[d.snapE.gidB].image /\ d.snapE.gidB \in R
      /\ base' \in MetaSnap /\ baseImage' \in Image
  BY <1>d, StepOnLine DEF IInv
<1>e. diffs' \subseteq diffs /\ \A e \in diffs : base'.gidB < e.snapE.gidB => e \in diffs'
  BY <1>d DEF eraseBeforeGid
<1>1. TypeOK'
  BY <1>d, <1>s, <1>e DEF IInv, TypeOK, storage, reader
<1>2. OnLine(base, baseImage)'
  BY <1>d, <1>s DEF OnLine, SnapAt, R
<1>3. DiffInv'
  BY <1>e, <1>l DEF IInv, DiffInv
<1>4. ExplicitSnapshotsKept' /\ FlagsInv'
  BY <1>d, <1>e, <1>l DEF IInv, ExplicitSnapshotsKept, FlagsInv, storage, R
<1>5. NoHole'
  <2> SUFFICES ASSUME NEW g \in base'.gidB .. latest'.gidB - 1
               PROVE  \E e \in diffs' : e.snapB.gidB <= g /\ g < e.snapE.gidB
    BY DEF NoHole
  <2>1. /\ base.gidB \in Nat /\ latest.gidB \in Nat /\ d \in Diff /\ latest' = latest
        /\ base.gidB < d.snapE.gidB /\ d.snapE.gidB \in Nat
    BY <1>d, SnapEta, DiffType DEF IInv, TypeOK, canApply
  <2>2. g \in base.gidB .. latest.gidB - 1 /\ base'.gidB <= g /\ g \in Nat /\ base'.gidB \in Nat
    BY <2>1, <1>s
  <2>3. PICK e \in diffs : e.snapB.gidB <= g /\ g < e.snapE.gidB
    BY <2>2 DEF IInv, NoHole
  <2>4. e.snapE.gidB \in Nat
    BY DiffType DEF IInv, TypeOK
  <2>5. e \in diffs'
    BY <2>2, <2>3, <2>4, <1>e
  <2> QED BY <2>3, <2>5
<1> QED BY <1>l, <1>1, <1>2, <1>3, <1>4, <1>5 DEF IInv

\* MergeDiffs keeps the invariant.
LEMMA MergeDiffsInv ==
    ASSUME IInv, MergeDiffs
    PROVE  IInv'
<1>d. PICK d0 \in diffs, d1 \in diffs :
          /\ canMerge(d0, d1)
          /\ \E removed \in SUBSET {d0, d1} : diffs' = (diffs \ removed) \cup {merge(d0, d1)}
          /\ UNCHANGED <<storage, base, baseImage, latest, line, reader>>
  BY DEF MergeDiffs
<1> DEFINE m == merge(d0, d1)
<1>r. PICK removed \in SUBSET {d0, d1} : diffs' = (diffs \ removed) \cup {m}
  BY <1>d
<1>l. /\ LineInv' /\ TruthInv' /\ ExplicitInv' /\ R' = R
      /\ \A e : (Sound(e) => Sound(e)') /\ (Lands(e) => Lands(e)')
      /\ OnLine(cur, curImage)' /\ OnLine(base, baseImage)'
  BY <1>d, LineUnchanged DEF IInv, OnLine, R, SnapAt, reader
<1>t. d0 \in Diff /\ d1 \in Diff
  BY DEF IInv, TypeOK
<1>m. /\ m \in Diff /\ m.snapB = d0.snapB /\ m.snapE.gidB = d1.snapE.gidB
      /\ m.isMergeable = d0.isMergeable
  BY <1>t, MergeType
<1>n. /\ d0.snapB.gidB \in Nat /\ d0.snapE.gidB \in Nat /\ d1.snapB.gidB \in Nat /\ d1.snapE.gidB \in Nat
      /\ d0.snapB.gidB <= d1.snapB.gidB /\ d1.snapB.gidB <= d0.snapE.gidB
      /\ d0.snapE.gidB < d1.snapE.gidB /\ ~d0.isCompDiff /\ ~d1.isCompDiff /\ d1.isMergeable
  BY <1>t, <1>d, DiffType DEF canMerge
<1>1. TypeOK'
  BY <1>d, <1>r, <1>m DEF IInv, TypeOK, storage, reader
<1>2. DiffInv'
  <2>1. Sound(m) /\ Lands(m)
    BY <1>d, <1>t, MergeSound DEF IInv, DiffInv
  <2>2. Sound(m)' /\ Lands(m)'
    BY <2>1, <1>l
  <2>3. \A e \in diffs : Sound(e)' /\ Lands(e)'
    BY <1>l DEF IInv, DiffInv
  <2> QED BY <2>2, <2>3, <1>r DEF DiffInv
<1>3. NoHole'
  <2> SUFFICES ASSUME NEW g \in base.gidB .. latest.gidB - 1
               PROVE  \E e \in diffs' : e.snapB.gidB <= g /\ g < e.snapE.gidB
    BY <1>d DEF NoHole
  <2>1. PICK e \in diffs : e.snapB.gidB <= g /\ g < e.snapE.gidB
    BY DEF IInv, NoHole
  <2>g. g \in Nat
    BY SnapEta DEF IInv, TypeOK
  <2>2. CASE e \in {d0, d1}
    <3>1. m.snapB.gidB <= g /\ g < m.snapE.gidB
      BY <2>g, <2>1, <2>2, <1>m, <1>n
    <3> QED BY <3>1, <1>r
  <2>3. CASE e \notin {d0, d1}
    BY <2>1, <2>3, <1>r
  <2> QED BY <2>2, <2>3
<1>4. ExplicitSnapshotsKept'
  <2>1. ASSUME NEW g \in explicit \cap R, m.snapB.gidB < g, g < m.snapE.gidB
        PROVE  FALSE
    <3>1. g \in Nat
      BY DEF IInv, TypeOK
    <3>2. g = d1.snapB.gidB
      BY <2>1, <3>1, <1>m, <1>n DEF IInv, ExplicitSnapshotsKept, R
    <3> QED BY <3>2, <1>n DEF IInv, FlagsInv
  <2>2. \A e \in diffs, g \in explicit \cap R : ~(e.snapB.gidB < g /\ g < e.snapE.gidB)
    BY DEF IInv, ExplicitSnapshotsKept, R
  <2>3. explicit' \cap (DOMAIN line)' = explicit \cap R
    BY <1>d DEF R, storage
  <2> QED BY <2>1, <2>2, <2>3, <1>r DEF ExplicitSnapshotsKept
<1>5. FlagsInv'
  <2>1. d0.snapB.gidB \in explicit \cap R => ~d0.isMergeable
    BY <1>n DEF IInv, FlagsInv
  <2>2. m.snapB.gidB \in explicit \cap R => ~m.isMergeable
    BY <2>1, <1>m
  <2>3. explicit' = explicit
    BY <1>d DEF storage
  <2> HIDE DEF m
  <2> QED BY <2>2, <2>3, <1>l, <1>r DEF IInv, FlagsInv
<1> QED BY <1>l, <1>1, <1>2, <1>3, <1>4, <1>5 DEF IInv

-----------------------------------------------------------------------------
(* The storage. *)

\* StorageWrites keeps the invariant: the line of snapshots is about gids up to
\* the old top, at which nothing changes.
LEMMA StorageWritesInv ==
    ASSUME IInv, StorageWrites
    PROVE  IInv'
<1>w. PICK W \in SUBSET Blocks : \E content \in [W -> Values] :
          /\ truth' = [g \in 0 .. top + 1 |-> IF g = top + 1 THEN Patch(truth[top], content) ELSE truth[g]]
          /\ written' = [g \in 0 .. top + 1 |-> IF g = top + 1 THEN W ELSE written[g]]
  BY DEF StorageWrites
<1>c. PICK content \in [W -> Values] :
          /\ truth' = [g \in 0 .. top + 1 |-> IF g = top + 1 THEN Patch(truth[top], content) ELSE truth[g]]
          /\ written' = [g \in 0 .. top + 1 |-> IF g = top + 1 THEN W ELSE written[g]]
  BY <1>w
<1>u. /\ top' = top + 1 /\ explicit' \in {explicit, explicit \cup {top + 1}}
      /\ UNCHANGED <<lo, base, baseImage, latest, diffs, line, reader>>
  BY DEF StorageWrites
<1>t. /\ top \in Nat /\ lo \in Nat /\ lo <= top /\ truth \in [0 .. top -> Image]
      /\ written \in [0 .. top -> SUBSET Blocks]
  BY DEF IInv, TypeOK
<1>o. \A g \in 0 .. top : truth'[g] = truth[g] /\ written'[g] = written[g]
  BY <1>c, <1>t
<1>n. written'[top + 1] = W /\ truth'[top + 1] = Patch(truth[top], content)
  BY <1>c, <1>t
<1>i. truth[top] \in Image /\ truth'[top + 1] \in Image
  BY <1>t, <1>n DEF Patch, Image
<1>k. \A b \in Blocks \ W : truth'[top + 1][b] = truth[top][b]
  BY <1>n, <1>i, PatchAt
<1>r. /\ R' = R /\ (\A g : SnapAt(g)' = SnapAt(g))
      /\ \A g \in R : g \in 0 .. top /\ line[g].gidE \in 0 .. top
  BY <1>u, <1>t, LineType DEF IInv, R, SnapAt
<1>1. TypeOK'
  <2>1. truth' \in [0 .. top' -> Image]
    BY <1>c, <1>u, <1>t, <1>i, <1>n
  <2>2. written' \in [0 .. top' -> SUBSET Blocks]
    BY <1>c, <1>u, <1>t
  <2>3. top' \in Nat /\ lo' \in 0 .. top' /\ explicit' \subseteq Nat
    BY <1>u, <1>t DEF IInv, TypeOK
  <2>4. 0 .. top \subseteq 0 .. top'
    BY <1>u, <1>t
  <2>5. line \in [DOMAIN line -> [gidE : 0 .. top', image : Image]] /\ DOMAIN line \subseteq 0 .. top'
    BY <2>4 DEF IInv, TypeOK
  <2> QED BY <2>1, <2>2, <2>3, <2>5, <1>u DEF IInv, TypeOK, reader
<1>2. LineInv' /\ OnLine(base, baseImage)' /\ OnLine(cur, curImage)'
  BY <1>u, <1>r DEF IInv, LineInv, OnLine, reader
<1>3. DiffInv'
  BY <1>u, <1>r DEF IInv, DiffInv, Sound, Lands
<1>4. NoHole'
  BY <1>u DEF IInv, NoHole
<1>5. explicit' \cap R' = explicit \cap R
  BY <1>u, <1>r, <1>t
<1>6. ExplicitSnapshotsKept' /\ FlagsInv'
  BY <1>5, <1>u DEF IInv, ExplicitSnapshotsKept, FlagsInv, R
<1>7. ExplicitInv'
  BY <1>u, <1>r, <1>t DEF IInv, ExplicitInv
<1>8. TruthInv'
  <2>1. Consistent(truth, written, lo, top)'
    <3> SUFFICES ASSUME NEW g \in lo .. top + 1, NEW h \in lo .. top + 1, NEW b \in Blocks,
                        g < h, \A x \in g + 1 .. h : b \notin written'[x]
                 PROVE  truth'[g][b] = truth'[h][b]
      BY <1>u DEF Consistent
    <3>1. \A x \in g + 1 .. h : x \in 0 .. top => b \notin written[x]
      BY <1>o
    <3>2. CASE h <= top
      <4>1. g \in lo .. top /\ h \in lo .. top /\ (\A x \in g + 1 .. h : b \notin written[x])
        BY <3>2, <3>1, <1>t
      <4>2. truth[g][b] = truth[h][b]
        BY <4>1 DEF IInv, TruthInv, Consistent
      <4> QED BY <4>1, <4>2, <1>o, <1>t
    <3>3. CASE h = top + 1
      <4>1. b \notin W
        BY <3>3, <1>n, <1>t
      <4>2. truth'[h][b] = truth[top][b]
        BY <3>3, <4>1, <1>k
      <4>3. g \in lo .. top /\ top \in lo .. top /\ truth'[g] = truth[g]
        BY <3>3, <1>t, <1>o
      <4>4. truth[g][b] = truth[top][b]
        <5>1. CASE g = top
          BY <5>1
        <5>2. CASE g < top
          <6>1. \A x \in g + 1 .. top : b \notin written[x]
            BY <3>1, <3>3, <1>t, <4>3
          <6> QED BY <6>1, <5>2, <4>3 DEF IInv, TruthInv, Consistent
        <5> QED BY <5>1, <5>2, <4>3, <1>t
      <4> QED BY <4>2, <4>3, <4>4
    <3> QED BY <3>2, <3>3, <1>t
  <2>2. \A g, h \in R : lo <= g => WrittenIn(g, h)' = WrittenIn(g, h)
    BY <1>r, <1>o, <1>t DEF WrittenIn
  <2>3. \A h \in R : WrittenIn(lo, h)' = WrittenIn(lo, h)
    BY <1>u, <1>r, <1>o, <1>t DEF WrittenIn
  <2>4. \A g \in R : IsClean(SnapAt(g))' => line'[g].image = truth'[g]
    BY <1>u, <1>r, <1>o DEF IInv, TruthInv, IsClean
  <2>5. \A g \in R, b \in Blocks : lo <= g =>
            \E x \in g .. line[g].gidE : line[g].image[b] = truth'[x][b]
    <3> SUFFICES ASSUME NEW g \in R, NEW b \in Blocks, lo <= g
                 PROVE  \E x \in g .. line[g].gidE : line[g].image[b] = truth'[x][b]
      OBVIOUS
    <3>1. PICK x \in g .. line[g].gidE : line[g].image[b] = truth[x][b]
      BY DEF IInv, TruthInv
    <3>2. x \in 0 .. top
      BY <1>r, <1>t
    <3> QED BY <3>1, <3>2, <1>o
  <2>6. \A g \in R, b \in Blocks : lo <= g /\ b \in WrittenIn(lo, g) => line[g].image[b] = truth'[g][b]
    BY <1>r, <1>o DEF IInv, TruthInv
  <2>7. \A g, h \in R, b \in Blocks : lo <= g /\ g < h /\ b \notin WrittenIn(g, h)' =>
            line[g].image[b] = line[h].image[b]
    BY <2>2 DEF IInv, TruthInv
  <2>8. \A g \in R, b \in Blocks : lo <= g /\ b \in WrittenIn(lo, g)' => line[g].image[b] = truth'[g][b]
    BY <2>3, <2>6
  <2>9. lo' = lo /\ line' = line /\ R' = R
    BY <1>u, <1>r
  <2> QED BY <2>1, <2>4, <2>5, <2>7, <2>8, <2>9 DEF TruthInv
<1> QED BY <1>1, <1>2, <1>3, <1>4, <1>6, <1>7, <1>8 DEF IInv

-----------------------------------------------------------------------------
(* Adding a diff at the end of the line. *)

\* The line with a new snapshot at its end, whatever happened to the storage
\* above the old end.
LEMMA AddDiffLine ==
    ASSUME TypeOK, LineInv, DiffInv, NEW d \in Diff, NEW to, AddDiff(d, to),
           latest.gidB < d.snapE.gidB, latest'.gidB = d.snapE.gidB,
           latest' \in MetaSnap, latest.gidE <= latest'.gidE
    PROVE  /\ d.snapE.gidB \notin R /\ R' = R \cup {d.snapE.gidB}
           /\ \A g \in R : line'[g] = line[g] /\ SnapAt(g)' = SnapAt(g)
           /\ line'[d.snapE.gidB].gidE = latest'.gidE
           /\ line'[d.snapE.gidB].image = Patch(line[latest.gidB].image, d.data)
           /\ line'[d.snapE.gidB].image \in Image
           /\ SnapAt(d.snapE.gidB)' = latest'
           /\ \A g \in R' : g <= d.snapE.gidB /\ g <= line'[g].gidE
           /\ \A g, h \in R' : g < h => line'[g].gidE <= line'[h].gidE
           /\ \A e \in diffs : Sound(e)' /\ Lands(e)' /\ e.snapE.gidB <= latest.gidB
           /\ \A snap, image : OnLine(snap, image) => OnLine(snap, image)'
<1> DEFINE n == d.snapE.gidB
           L == latest.gidB
<1>t. /\ n \in Nat /\ L \in Nat /\ latest.gidE \in Nat /\ latest'.gidE \in Nat
      /\ n <= latest'.gidE /\ latest' = Snap(n, latest'.gidE)
  BY DiffType, SnapEta DEF TypeOK
<1>L. L \in R /\ line[L].image \in Image /\ line[L].gidE = latest.gidE
  <2>1. L \in R /\ latest = SnapAt(L)
    BY DEF LineInv
  <2> QED BY <2>1, LineType
<1>g. \A g \in R : /\ g \in Nat /\ g <= L /\ g <= line[g].gidE /\ line[g].gidE \in Nat
                   /\ g < n /\ line[g].gidE <= latest.gidE
  <2> TAKE g \in R
  <2>1. g \in Nat /\ g <= L /\ g <= line[g].gidE /\ line[g].gidE \in Nat
    BY LineType DEF LineInv
  <2>2. line[g].gidE <= line[L].gidE
    BY <2>1, <1>L, <1>t DEF LineInv
  <2> QED BY <2>1, <2>2, <1>L, <1>t
<1>1. n \notin R
  BY <1>g, <1>t
<1>2. line' = [g \in R \cup {n} |->
                 IF g = n THEN [gidE |-> latest'.gidE, image |-> Patch(line[L].image, d.data)]
                          ELSE line[g]]
  BY DEF AddDiff, R
<1>3. R' = R \cup {n}
  BY <1>2 DEF R
<1>4. \A g \in R : line'[g] = line[g]
  BY <1>1, <1>2
<1>5. line'[n] = [gidE |-> latest'.gidE, image |-> Patch(line[L].image, d.data)]
  BY <1>2
<1>6. line'[n].gidE = latest'.gidE /\ line'[n].image = Patch(line[L].image, d.data)
  BY <1>5
<1>7. line'[n].image \in Image
  BY <1>6, <1>L, PatchType
<1>8. \A g \in R : SnapAt(g)' = SnapAt(g)
  BY <1>4 DEF SnapAt
<1>9. SnapAt(n)' = latest'
  BY <1>6, <1>t DEF SnapAt
<1>10. \A g \in R' : g <= n /\ g <= line'[g].gidE
  BY <1>3, <1>4, <1>6, <1>g, <1>t
<1>11. \A g, h \in R' : g < h => line'[g].gidE <= line'[h].gidE
  <2> SUFFICES ASSUME NEW g \in R', NEW h \in R', g < h PROVE line'[g].gidE <= line'[h].gidE
    OBVIOUS
  <2>1. CASE h \in R /\ g \in R
    BY <2>1, <1>4 DEF LineInv
  <2>2. CASE h = n /\ g \in R
    BY <2>2, <1>4, <1>6, <1>g, <1>t
  <2>3. g # n
    BY <1>3, <1>g, <1>t
  <2> QED BY <2>1, <2>2, <2>3, <1>3
<1>12. ASSUME NEW e \in diffs
       PROVE  Sound(e)' /\ Lands(e)' /\ e.snapE.gidB <= latest.gidB
  <2>1. Sound(e) /\ Lands(e) /\ e \in Diff
    BY DEF DiffInv, TypeOK
  <2>2. e.snapE.gidB \in R /\ e.snapE.gidB \in Nat /\ e.snapE.gidB <= L
    BY <2>1, <1>g DEF Lands
  <2>3. Lands(e)'
    BY <2>1, <2>2, <1>3, <1>4, <1>8 DEF Lands
  <2>4. Sound(e)'
    <3> SUFFICES ASSUME NEW g \in R', canApply(SnapAt(g)', e)
                 PROVE  /\ apply(SnapAt(g)', e) = SnapAt(e.snapE.gidB)'
                        /\ Patch(line'[g].image, e.data) = line'[e.snapE.gidB].image
      BY DEF Sound
    <3>1. g \in R
      <4> SUFFICES ASSUME g = n PROVE FALSE
        BY <1>3
      <4>1. n < e.snapE.gidB
        BY <1>9, <1>t, SnapFields DEF canApply
      <4> QED BY <4>1, <2>2, <1>t
    <3>2. SnapAt(g)' = SnapAt(g) /\ line'[g] = line[g]
      BY <3>1, <1>4, <1>8
    <3>3. SnapAt(e.snapE.gidB)' = SnapAt(e.snapE.gidB) /\ line'[e.snapE.gidB] = line[e.snapE.gidB]
      BY <2>2, <1>4, <1>8
    <3> QED BY <3>1, <3>2, <3>3, <2>1 DEF Sound
  <2> QED BY <2>2, <2>3, <2>4
<1>13. ASSUME NEW snap, NEW image, OnLine(snap, image)
       PROVE  OnLine(snap, image)'
  BY <1>13, <1>3, <1>4, <1>8 DEF OnLine
<1> QED BY <1>1, <1>3, <1>4, <1>6, <1>7, <1>8, <1>9, <1>10, <1>11, <1>12, <1>13

\* What all the ways of adding a diff have in common.
LEMMA AddDiffFrame ==
    ASSUME IInv, NEW d \in Diff, NEW to, AddDiff(d, to),
           d.snapB.gidB <= latest.gidB, latest.gidB < d.snapE.gidB, latest'.gidB = d.snapE.gidB,
           latest' \in MetaSnap, latest.gidE <= latest'.gidE,
           top' \in Nat, latest'.gidE <= top', UNCHANGED <<base, baseImage, reader>>,
           d \in diffs', diffs' \subseteq diffs \cup {d}, \A e \in diffs \ diffs' : contains(d, e)
    PROVE  /\ {base, latest, cur}' \subseteq MetaSnap /\ {baseImage, curImage}' \subseteq Image
           /\ diffs' \subseteq Diff /\ (DOMAIN line)' \subseteq 0 .. top'
           /\ line' \in [(DOMAIN line)' -> [gidE : 0 .. top', image : Image]]
           /\ latest'.gidB \in R' /\ latest' = SnapAt(latest.gidB)'
           /\ OnLine(base, baseImage)' /\ OnLine(cur, curImage)'
           /\ NoHole'
<1> DEFINE n == d.snapE.gidB
           L == latest.gidB
<1>l. /\ R' = R \cup {n}
      /\ \A g \in R : line'[g] = line[g]
      /\ line'[n].gidE = latest'.gidE /\ line'[n].image \in Image
      /\ SnapAt(n)' = latest'
      /\ \A g \in R' : g <= n /\ g <= line'[g].gidE
      /\ \A g, h \in R' : g < h => line'[g].gidE <= line'[h].gidE
      /\ \A snap, image : OnLine(snap, image) => OnLine(snap, image)'
  BY AddDiffLine DEF IInv
<1>t. /\ n \in Nat /\ d.snapB.gidB \in Nat /\ L \in Nat /\ latest.gidE \in Nat /\ latest'.gidE \in Nat
      /\ n <= latest'.gidE
  BY DiffType, SnapEta DEF IInv, TypeOK
<1>1. {base, latest, cur}' \subseteq MetaSnap /\ {baseImage, curImage}' \subseteq Image /\ diffs' \subseteq Diff
  BY DEF IInv, TypeOK, reader
<1>2. R' \subseteq 0 .. top' /\ \A g \in R' : line'[g].gidE \in 0 .. top' /\ line'[g].image \in Image
  <2>1. n \in 0 .. top' /\ line'[n].gidE \in 0 .. top' /\ line'[n].image \in Image
    BY <1>l, <1>t
  <2>2. ASSUME NEW g \in R
        PROVE  g \in 0 .. top' /\ line'[g].gidE \in 0 .. top' /\ line'[g].image \in Image
    <3>1. g \in Nat /\ line[g].gidE \in Nat /\ line[g].image \in Image
      BY LineType DEF IInv
    <3>2. g <= n /\ line'[g] = line[g]
      BY <1>l
    <3>3. line'[g].gidE <= line'[n].gidE
      BY <3>1, <3>2, <1>l, <1>t
    <3> QED BY <3>1, <3>2, <3>3, <1>l, <1>t
  <2> QED BY <2>1, <2>2, <1>l
<1>3. line' \in [R' -> [gidE : 0 .. top', image : Image]]
  <2>1. line' = [g \in R' |-> IF g = n THEN [gidE |-> latest'.gidE, image |-> Patch(line[L].image, d.data)]
                                       ELSE line[g]]
    BY <1>l DEF AddDiff, R
  <2>2. line'[n] = [gidE |-> line'[n].gidE, image |-> line'[n].image]
    BY <2>1, <1>l
  <2>3. line'[n] \in [gidE : 0 .. top', image : Image]
    BY <2>2, <1>2, <1>l
  <2>4. ASSUME NEW g \in R
        PROVE  line'[g] \in [gidE : 0 .. top', image : Image]
    <3>1. line[g] \in [gidE : 0 .. top, image : Image]
      BY DEF IInv, TypeOK, R
    <3>2. line[g] = [gidE |-> line[g].gidE, image |-> line[g].image]
      BY <3>1
    <3> QED BY <3>2, <1>2, <1>l
  <2>5. \A g \in R' : line'[g] \in [gidE : 0 .. top', image : Image]
    BY <2>3, <2>4, <1>l
  <2> QED BY <2>1, <2>5
<1>4. latest'.gidB \in R' /\ latest' = SnapAt(latest.gidB)'
  BY <1>l
<1>5. OnLine(base, baseImage)'
  <2>1. OnLine(base, baseImage) /\ base' = base /\ baseImage' = baseImage
    BY DEF IInv
  <2> QED BY <2>1, <1>l DEF OnLine
<1>6. OnLine(cur, curImage)'
  <2>1. OnLine(cur, curImage) /\ cur' = cur /\ curImage' = curImage
    BY DEF IInv, reader
  <2> QED BY <2>1, <1>l DEF OnLine
<1>7. NoHole'
  <2> SUFFICES ASSUME NEW g \in base.gidB .. n - 1
               PROVE  \E e \in diffs' : e.snapB.gidB <= g /\ g < e.snapE.gidB
    BY <1>l DEF NoHole
  <2>1. base.gidB \in Nat /\ g \in Nat /\ g < n
    BY <1>t, SnapEta DEF IInv, TypeOK
  <2>2. CASE L <= g
    BY <2>1, <2>2, <1>t
  <2>3. CASE g < L
    <3>1. PICK e \in diffs : e.snapB.gidB <= g /\ g < e.snapE.gidB
      BY <2>1, <2>3, <1>t DEF IInv, NoHole
    <3>2. e.snapB.gidB \in Nat /\ e.snapE.gidB \in Nat
      BY DiffType DEF IInv, TypeOK
    <3>3. CASE contains(d, e)
      <4>1. d.snapB.gidB <= g /\ g < d.snapE.gidB
        BY <3>1, <3>2, <3>3, <2>1, <1>t DEF contains
      <4> QED BY <4>1
    <3>4. CASE e \in diffs'
      BY <3>1, <3>4
    <3> QED BY <3>3, <3>4
  <2> QED BY <2>1, <2>2, <2>3, <1>t
<1> QED BY <1>1, <1>2, <1>3, <1>4, <1>5, <1>6, <1>7 DEF R

\* The diff of two images leads from one to the other.
LEMMA HashData ==
    ASSUME NEW i \in Image, NEW j \in Image, NEW data,
           data = [b \in {c \in Blocks : i[c] # j[c]} |-> i[b]]
    PROVE  /\ data \in UNION {[W -> Values] : W \in SUBSET Blocks}
           /\ Patch(j, data) = i
           /\ \A b \in DOMAIN data : data[b] = i[b]
<1> DEFINE W == {c \in Blocks : i[c] # j[c]}
<1>1. DOMAIN data = W /\ W \in SUBSET Blocks /\ \A b \in W : data[b] = i[b]
  OBVIOUS
<1>2. data \in [W -> Values]
  BY DEF Image
<1>3. data \in UNION {[V -> Values] : V \in SUBSET Blocks}
  BY <1>1, <1>2
<1>4. Patch(j, data) \in Image
  BY <1>1, <1>2 DEF Patch, Image
<1>5. \A b \in Blocks : Patch(j, data)[b] = i[b]
  BY <1>1, PatchAt
<1>6. Patch(j, data) = i
  BY <1>4, <1>5, ImageEquality
<1> QED BY <1>1, <1>3, <1>6

\* A diff that starts at the latest snapshot is applicable nowhere else.
LEMMA SoundFromLatest ==
    ASSUME TypeOK, LineInv, DiffInv, NEW d \in Diff, NEW to, AddDiff(d, to),
           d.snapB = latest, latest.gidB < d.snapE.gidB, latest' = d.snapE,
           latest.gidE <= latest'.gidE, IsCleanDiff(d) => apply(latest, d) = d.snapE
    PROVE  /\ Sound(d)'
           /\ \A b \in DOMAIN d.data : d.data[b] = line'[d.snapE.gidB].image[b]
           /\ d.snapE = SnapAt(d.snapE.gidB)'
<1> DEFINE n == d.snapE.gidB
           L == latest.gidB
<1>t. n \in Nat /\ L \in Nat /\ d.snapE \in MetaSnap
  BY DiffType, SnapEta DEF TypeOK
<1>l. /\ R' = R \cup {n}
      /\ \A g \in R : line'[g] = line[g] /\ SnapAt(g)' = SnapAt(g)
      /\ line'[n].image = Patch(line[L].image, d.data)
      /\ SnapAt(n)' = latest'
  BY <1>t, AddDiffLine
<1>L. L \in R /\ latest = SnapAt(L) /\ line[L].image \in Image
  <2>1. L \in R /\ latest = SnapAt(L)
    BY DEF LineInv
  <2> QED BY <2>1, LineType
<1>1. apply(latest, d) = d.snapE
  BY DEF apply
<1>2. Sound(d)'
  <2> SUFFICES ASSUME NEW g \in R', canApply(SnapAt(g)', d)
               PROVE  /\ apply(SnapAt(g)', d) = SnapAt(n)'
                      /\ Patch(line'[g].image, d.data) = line'[n].image
    BY DEF Sound
  <2>1. g \in R
    <3> SUFFICES ASSUME g = n PROVE FALSE
      BY <1>l
    <3>1. n < n
      BY <1>l DEF canApply
    <3> QED BY <3>1, <1>t
  <2>2. g \in Nat /\ g <= L /\ SnapAt(g)' = SnapAt(g) /\ SnapAt(g).gidB = g
    BY <2>1, <1>l, LineType DEF LineInv
  <2>3. g = L
    BY <2>2, <1>t DEF canApply
  <2> QED BY <2>3, <2>2, <1>1, <1>l, <1>L
<1>3. \A b \in DOMAIN d.data : d.data[b] = line'[n].image[b]
  BY <1>l, <1>L, DataType, PatchAt
<1> QED BY <1>2, <1>3, <1>l

\* HashReplication keeps the invariant: the new snapshot is the volume at gid.
LEMMA HashReplicationInv ==
    ASSUME IInv, HashReplication
    PROVE  IInv'
<1> DEFINE D(gid) == [snapB |-> latest, snapE |-> Snap(gid, gid),
                      isMergeable |-> TRUE, isCompDiff |-> TRUE,
                      data |-> [b \in {c \in Blocks : truth[gid][c] # line[latest.gidB].image[c]} |-> truth[gid][b]]]
           L == latest.gidB
<1>p. PICK n \in lo .. top : /\ Progresses(D(n).snapB, D(n).snapE)
                             /\ AddDiff(D(n), apply(latest, D(n))) /\ diffs' = diffs \cup {D(n)}
                             /\ UNCHANGED <<storage, base, baseImage, reader>>
  BY DEF HashReplication
<1>t. /\ top \in Nat /\ lo \in Nat /\ n \in Nat /\ lo <= n /\ n <= top
      /\ L \in Nat /\ latest.gidE \in Nat /\ latest \in MetaSnap
      /\ truth[n] \in Image
  BY SnapEta DEF IInv, TypeOK
<1>L. L \in R /\ latest = SnapAt(L) /\ line[L].image \in Image /\ line[L].gidE = latest.gidE
  <2>1. L \in R /\ latest = SnapAt(L)
    BY DEF IInv, LineInv
  <2> QED BY <2>1, LineType DEF IInv
<1> DEFINE data == [b \in {c \in Blocks : truth[n][c] # line[L].image[c]} |-> truth[n][b]]
<1>h. /\ data \in UNION {[W -> Values] : W \in SUBSET Blocks}
      /\ Patch(line[L].image, data) = truth[n]
  BY SMTT(30), <1>t, <1>L, HashData
<1>d. PICK d : d = D(n)
  OBVIOUS
<1>f. /\ d.snapB = latest /\ d.snapE = Snap(n, n) /\ d.isCompDiff /\ d.data = data
      /\ d = [snapB |-> latest, snapE |-> Snap(n, n), isMergeable |-> TRUE, isCompDiff |-> TRUE, data |-> data]
  BY <1>d
<1> HIDE DEF data, D
<1>D. d \in Diff
  BY <1>f, <1>h, <1>t, SnapType DEF Diff
<1>s. d.snapE.gidB = n /\ d.snapE.gidE = n /\ d.snapE \in MetaSnap
  BY <1>f, <1>t, SnapFields, SnapType
<1>g. L < n /\ latest.gidE <= n
  BY <1>p, <1>d, <1>f, <1>s DEF Progresses
<1>a. apply(latest, d) = d.snapE
  BY <1>f, <1>g, <1>s, <1>t DEF apply, Larger
<1>u. /\ AddDiff(d, d.snapE) /\ diffs' = diffs \cup {d} /\ latest' = d.snapE
      /\ UNCHANGED <<storage, base, baseImage, reader>>
      /\ top' = top /\ lo' = lo /\ truth' = truth /\ written' = written /\ explicit' = explicit
  BY <1>p, <1>d, <1>a DEF AddDiff, storage
<1>l. /\ n \notin R /\ R' = R \cup {n}
      /\ \A g \in R : line'[g] = line[g] /\ SnapAt(g)' = SnapAt(g)
      /\ line'[n].gidE = n /\ line'[n].image = truth[n]
      /\ SnapAt(n)' = latest'
      /\ \A g \in R' : g <= n /\ g <= line'[g].gidE
      /\ \A g, h \in R' : g < h => line'[g].gidE <= line'[h].gidE
      /\ \A e \in diffs : Sound(e)' /\ Lands(e)' /\ e.snapE.gidB <= L
  BY <1>D, <1>u, <1>s, <1>g, <1>t, <1>f, <1>h, AddDiffLine DEF IInv
<1>x. /\ {base, latest, cur}' \subseteq MetaSnap /\ {baseImage, curImage}' \subseteq Image
      /\ diffs' \subseteq Diff /\ (DOMAIN line)' \subseteq 0 .. top'
      /\ line' \in [(DOMAIN line)' -> [gidE : 0 .. top', image : Image]]
      /\ latest'.gidB \in R' /\ latest' = SnapAt(latest.gidB)'
      /\ OnLine(base, baseImage)' /\ OnLine(cur, curImage)'
      /\ NoHole'
  <2>1. d.snapB.gidB <= latest.gidB /\ latest'.gidB = d.snapE.gidB /\ latest' \in MetaSnap
    BY <1>f, <1>t, <1>u, <1>s
  <2>2. latest.gidE <= latest'.gidE /\ top' \in Nat /\ latest'.gidE <= top' /\ latest.gidB < d.snapE.gidB
    BY <1>u, <1>s, <1>g, <1>t
  <2>3. d \in diffs' /\ diffs' \subseteq diffs \cup {d} /\ \A e \in diffs \ diffs' : contains(d, e)
    BY <1>u
  <2> QED BY <2>1, <2>2, <2>3, <1>D, <1>u, AddDiffFrame
<1>r. \A g \in R : /\ g \in Nat /\ g <= L /\ line[g].gidE \in Nat /\ line[g].gidE <= latest.gidE
                   /\ g <= line[g].gidE /\ line[g].image \in Image
  <2> TAKE g \in R
  <2>1. g \in Nat /\ g <= L /\ line[g].gidE \in Nat /\ g <= line[g].gidE /\ line[g].image \in Image
    BY LineType DEF IInv, LineInv
  <2>2. line[g].gidE <= line[L].gidE
    BY <2>1, <1>L, <1>t DEF IInv, LineInv
  <2> QED BY <2>1, <2>2, <1>L
<1>1. TypeOK'
  BY <1>x, <1>u DEF IInv, TypeOK
<1>2. LineInv'
  <2>1. \A g, h \in R' : lo <= g /\ g < h => line'[h].gidE = Larger(h, line'[g].gidE)
    <3> SUFFICES ASSUME NEW g \in R', NEW h \in R', lo <= g, g < h
                 PROVE  line'[h].gidE = Larger(h, line'[g].gidE)
      OBVIOUS
    <3>1. CASE h \in R /\ g \in R
      BY <3>1, <1>l DEF IInv, LineInv
    <3>2. CASE h = n /\ g \in R
      BY <3>2, <1>l, <1>r, <1>g, <1>t DEF Larger
    <3>3. g # n
      BY <1>l, <1>r, <1>g, <1>t
    <3> QED BY <3>1, <3>2, <3>3, <1>l
  <2> QED BY <2>1, <1>x, <1>l, <1>u, <1>s, <1>t DEF LineInv
<1>3. DiffInv'
  <2>1. Sound(d)' /\ (\A b \in DOMAIN d.data : d.data[b] = line'[n].image[b]) /\ d.snapE = SnapAt(n)'
    BY <1>D, <1>u, <1>s, <1>g, <1>a, <1>f, SoundFromLatest DEF IInv
  <2>2. Lands(d)'
    BY <2>1, <1>s, <1>g, <1>f, <1>l DEF Lands
  <2> QED BY <2>1, <2>2, <1>u, <1>l DEF DiffInv
<1>4. TruthInv'
  <2>1. Consistent(truth, written, lo, top)'
    BY <1>u DEF IInv, TruthInv, Consistent
  <2>2. \A g \in R' : IsClean(SnapAt(g))' => line'[g].image = truth'[g]
    <3> SUFFICES ASSUME NEW g \in R, IsClean(SnapAt(g)) PROVE line[g].image = truth[g]
      BY <1>l, <1>u DEF IsClean
    <3> QED BY DEF IInv, TruthInv
  <2>3. \A g \in R', b \in Blocks : lo' <= g =>
            \E y \in g .. line'[g].gidE : line'[g].image[b] = truth'[y][b]
    <3>1. \E y \in n .. line'[n].gidE : \A b \in Blocks : line'[n].image[b] = truth'[y][b]
      BY <1>l, <1>u, <1>t
    <3>2. \A g \in R, b \in Blocks : lo <= g => \E y \in g .. line[g].gidE : line[g].image[b] = truth[y][b]
      BY DEF IInv, TruthInv
    <3> QED BY <3>1, <3>2, <1>l, <1>u
  <2>4. \A g, h : WrittenIn(g, h)' = WrittenIn(g, h)
    BY <1>u DEF WrittenIn
  <2>5. \A g \in R', b \in Blocks : lo' <= g /\ b \in WrittenIn(lo, g) => line'[g].image[b] = truth'[g][b]
    BY <1>l, <1>u DEF IInv, TruthInv
  <2>6. \A g, h \in R', b \in Blocks : lo' <= g /\ g < h /\ b \notin WrittenIn(g, h) =>
            line'[g].image[b] = line'[h].image[b]
    <3> SUFFICES ASSUME NEW g \in R', NEW h \in R', NEW b \in Blocks,
                        lo <= g, g < h, b \notin WrittenIn(g, h)
                 PROVE  line'[g].image[b] = line'[h].image[b]
      BY <1>u
    <3>1. CASE h \in R /\ g \in R
      BY <3>1, <1>l DEF IInv, TruthInv
    <3>2. CASE h = n /\ g \in R
      <4>1. PICK y \in g .. line[g].gidE : line[g].image[b] = truth[y][b]
        BY <3>2 DEF IInv, TruthInv
      <4>2. y \in Nat /\ lo <= y /\ y <= n /\ g <= y
        <5>1. g \in Nat /\ line[g].gidE \in Nat /\ line[g].gidE <= latest.gidE
          BY <3>2, <1>r
        <5> QED BY <5>1, <1>g, <1>t
      <4>3. \A z \in y + 1 .. n : b \notin written[z]
        <5>1. g \in Nat
          BY <3>2, <1>r
        <5>2. \A z \in g + 1 .. n : b \notin written[z]
          BY <5>1, <3>2, <1>t, WrittenInPointwise
        <5> QED BY <5>1, <5>2, <4>2, <1>t
      <4>4. truth[y][b] = truth[n][b]
        <5>1. CASE y = n
          BY <5>1
        <5>2. CASE y < n
          BY <5>2, <4>2, <4>3, <1>t DEF IInv, TruthInv, Consistent
        <5> QED BY <5>1, <5>2, <4>2, <1>t
      <4> QED BY <4>1, <4>4, <3>2, <1>l
    <3>3. g # n
      BY <1>l, <1>r, <1>g, <1>t
    <3> QED BY <3>1, <3>2, <3>3, <1>l
  <2> QED BY <2>1, <2>2, <2>3, <2>4, <2>5, <2>6, <1>u DEF TruthInv
<1>5. ExplicitSnapshotsKept'
  <2> SUFFICES ASSUME NEW e \in diffs', NEW g \in explicit \cap R', e.snapB.gidB < g, g < e.snapE.gidB
               PROVE  FALSE
    BY <1>u DEF ExplicitSnapshotsKept, R
  <2>1. CASE e = d
    BY <2>1, <1>f, <1>s, <1>l, <1>r, <1>t
  <2>2. CASE e \in diffs
    <3>1. e.snapE.gidB \in Nat /\ e.snapE.gidB <= L
      BY <2>2, <1>l, DiffType DEF IInv, TypeOK
    <3>2. g \in R
      BY <3>1, <1>l, <1>g, <1>t
    <3> QED BY <2>2, <3>2 DEF IInv, ExplicitSnapshotsKept, R
  <2> QED BY <2>1, <2>2, <1>u
<1>6. FlagsInv'
  <2> SUFFICES ASSUME NEW e \in diffs', ~e.isCompDiff, e.snapB.gidB \in explicit \cap R'
               PROVE  ~e.isMergeable
    BY <1>u DEF FlagsInv
  <2>1. e \in diffs
    BY <1>u, <1>f
  <2>2. e.snapB.gidB \in Nat /\ e.snapE.gidB \in Nat /\ e.snapE.gidB <= L /\ e.snapB.gidB < e.snapE.gidB
    BY <2>1, <1>l, DiffType DEF IInv, TypeOK, DiffInv, Lands
  <2>3. e.snapB.gidB \in R
    BY <2>2, <1>l, <1>g, <1>t
  <2> QED BY <2>1, <2>3 DEF IInv, FlagsInv
<1>7. ExplicitInv'
  BY <1>l, <1>u DEF IInv, ExplicitInv
<1> QED BY <1>1, <1>2, <1>3, <1>4, <1>5, <1>6, <1>7, <1>x DEF IInv

\* HashBackup keeps the invariant: the log starts anew above everything the
\* archive has.
LEMMA HashBackupInv ==
    ASSUME IInv, HashBackup
    PROVE  IInv'
<1>q. PICK n, L : n = latest.gidE + 1 /\ L = latest.gidB
  OBVIOUS
<1> DEFINE D(gidE, image) ==
              [snapB |-> latest, snapE |-> Snap(n, gidE),
               isMergeable |-> ~IsClean(latest), isCompDiff |-> FALSE,
               data |-> [b \in {c \in Blocks : image[c] # line[latest.gidB].image[c]} |-> image[b]]]
<1> DEFINE Synced(gidE, t, w) ==
        /\ Consistent(t, w, n, gidE)
        /\ \E image \in SyncedImages(t, n, gidE) :
             AddDiff(D(gidE, image), D(gidE, image).snapE) /\ diffs' = diffs \cup {D(gidE, image)}
        /\ top' = gidE /\ lo' = n
        /\ truth' = [g \in 0 .. gidE |-> IF g < n THEN truth[g] ELSE t[g]]
        /\ written' = [g \in 0 .. gidE |-> IF g < n THEN written[g] ELSE w[g]]
        /\ explicit' = {g \in explicit : g < n} \cup (IF IsClean(latest) THEN {latest.gidB} ELSE {})
<1>9. PICK gidE \in n .. MaxGid : \E t \in [n .. gidE -> Image], w \in [n .. gidE -> SUBSET Blocks] :
        Synced(gidE, t, w)
  BY ZenonT(40), <1>q DEF HashBackup
<1>0. PICK t \in [n .. gidE -> Image], w \in [n .. gidE -> SUBSET Blocks] : Synced(gidE, t, w)
  BY ZenonT(40), <1>9
<1>1. PICK image \in SyncedImages(t, n, gidE) :
        AddDiff(D(gidE, image), D(gidE, image).snapE) /\ diffs' = diffs \cup {D(gidE, image)}
  BY <1>0
<1>b. UNCHANGED <<base, baseImage, reader>>
  BY DEF HashBackup
<1>t. /\ top \in Nat /\ lo \in Nat /\ lo <= top /\ L \in Nat /\ latest.gidE \in Nat /\ L <= latest.gidE
      /\ latest \in MetaSnap /\ n \in Nat /\ gidE \in Nat /\ n <= gidE /\ L < n /\ latest.gidE < n
      /\ latest.gidE <= top
  <2>1. latest \in MetaSnap /\ top \in Nat /\ lo \in Nat /\ lo <= top
    BY DEF IInv, TypeOK
  <2>2. L \in Nat /\ latest.gidE \in Nat /\ L <= latest.gidE
    BY <2>1, <1>q, SnapEta
  <2>3. MaxGid \in Nat
    BY DCBoundsAssumption
  <2>4. L \in R /\ latest = SnapAt(L)
    BY <1>q DEF IInv, LineInv
  <2>5. latest.gidE <= top
    BY <2>4, LineType DEF IInv
  <2> QED BY <2>1, <2>2, <2>3, <2>5, <1>q
<1>L. L \in R /\ latest = SnapAt(L) /\ line[L].image \in Image /\ line[L].gidE = latest.gidE
  <2>1. L \in R /\ latest = SnapAt(L)
    BY <1>q DEF IInv, LineInv
  <2> QED BY <2>1, LineType DEF IInv
\* The image is read while the volume goes from n to gidE.
<1>i. /\ image \in Image
      /\ \A b \in Blocks : \E y \in n .. gidE : image[b] = t[y][b]
  <2>1. PICK at \in [Blocks -> n .. gidE] : image = [b \in Blocks |-> t[at[b]][b]]
    BY DEF SyncedImages
  <2>2. \A b \in Blocks : at[b] \in n .. gidE /\ image[b] = t[at[b]][b] /\ t[at[b]] \in Image
    BY <2>1
  <2>3. \A b \in Blocks : image[b] \in Values
    BY <2>2 DEF Image
  <2> QED BY <2>1, <2>2, <2>3 DEF Image
<1> DEFINE data == [b \in {c \in Blocks : image[c] # line[L].image[c]} |-> image[b]]
<1>h. /\ data \in UNION {[W -> Values] : W \in SUBSET Blocks}
      /\ Patch(line[L].image, data) = image
  BY <1>i, <1>L, HashData
<1>d. PICK d : d = D(gidE, image)
  OBVIOUS
<1>f. /\ d.snapB = latest /\ d.snapE = Snap(n, gidE) /\ ~d.isCompDiff /\ d.data = data
      /\ d.isMergeable = ~IsClean(latest)
      /\ d = [snapB |-> latest, snapE |-> Snap(n, gidE),
              isMergeable |-> ~IsClean(latest), isCompDiff |-> FALSE, data |-> data]
  BY <1>d, <1>q
<1>u. AddDiff(d, d.snapE) /\ diffs' = diffs \cup {d}
  BY <1>1, <1>d
<1> HIDE DEF data, D
<1>s. d.snapE.gidB = n /\ d.snapE.gidE = gidE /\ d.snapE \in MetaSnap
  BY <1>f, <1>t, SnapFields, SnapType
<1>D. d \in Diff
  <2>1. (~IsClean(latest)) \in BOOLEAN
    BY DEF IsClean
  <2> QED BY <2>1, <1>f, <1>h, <1>t, <1>s DEF Diff
<1>a. apply(latest, d) = d.snapE
  <2>1. IsCleanDiff(d) => n = gidE
    BY <1>s DEF IsCleanDiff, IsClean
  <2>2. Larger(n, latest.gidE) = n
    BY <1>t DEF Larger
  <2> QED BY <2>1, <2>2, <1>s, <1>f DEF apply
<1>A. latest' = d.snapE
  BY <1>u, <1>a DEF AddDiff
<1>l. /\ n \notin R /\ R' = R \cup {n}
      /\ \A g \in R : line'[g] = line[g] /\ SnapAt(g)' = SnapAt(g)
      /\ line'[n].gidE = gidE /\ line'[n].image = image
      /\ SnapAt(n)' = latest'
      /\ \A g \in R' : g <= n /\ g <= line'[g].gidE
      /\ \A g, h \in R' : g < h => line'[g].gidE <= line'[h].gidE
      /\ \A e \in diffs : Sound(e)' /\ Lands(e)' /\ e.snapE.gidB <= L
  <2>1. latest.gidB < d.snapE.gidB /\ latest'.gidB = d.snapE.gidB /\ latest' \in MetaSnap
    BY <1>s, <1>A, <1>t, <1>q
  <2>2. latest.gidE <= latest'.gidE
    BY <1>s, <1>A, <1>t
  <2> QED BY <2>1, <2>2, <1>D, <1>u, <1>s, <1>A, <1>f, <1>h, <1>q, AddDiffLine DEF IInv
<1>x. /\ {base, latest, cur}' \subseteq MetaSnap /\ {baseImage, curImage}' \subseteq Image
      /\ diffs' \subseteq Diff /\ (DOMAIN line)' \subseteq 0 .. top'
      /\ line' \in [(DOMAIN line)' -> [gidE : 0 .. top', image : Image]]
      /\ latest'.gidB \in R' /\ latest' = SnapAt(latest.gidB)'
      /\ OnLine(base, baseImage)' /\ OnLine(cur, curImage)'
      /\ NoHole'
  <2>1. d.snapB.gidB <= latest.gidB /\ latest'.gidB = d.snapE.gidB /\ latest' \in MetaSnap
    BY <1>f, <1>t, <1>A, <1>s, <1>q
  <2>2. latest.gidE <= latest'.gidE /\ top' \in Nat /\ latest'.gidE <= top' /\ latest.gidB < d.snapE.gidB
    BY <1>A, <1>s, <1>t, <1>0, <1>q
  <2>3. d \in diffs' /\ diffs' \subseteq diffs \cup {d} /\ \A e \in diffs \ diffs' : contains(d, e)
    BY <1>u
  <2> QED BY <2>1, <2>2, <2>3, <1>D, <1>u, <1>b, AddDiffFrame
<1>r. \A g \in R : /\ g \in Nat /\ g <= L /\ g < n /\ line[g].gidE \in Nat /\ line[g].gidE <= latest.gidE
                   /\ g <= line[g].gidE
  <2> TAKE g \in R
  <2>1. g \in Nat /\ g <= L /\ line[g].gidE \in Nat /\ g <= line[g].gidE
    BY <1>q, LineType DEF IInv, LineInv
  <2>2. line[g].gidE <= line[L].gidE
    BY <2>1, <1>L, <1>t DEF IInv, LineInv
  <2> QED BY <2>1, <2>2, <1>L, <1>t
\* The storage below n and from n on.
<1>o. /\ \A g \in 0 .. gidE : g < n => truth'[g] = truth[g]
      /\ \A g \in n .. gidE : truth'[g] = t[g] /\ written'[g] = w[g]
  BY <1>0, <1>t
<1>2. TypeOK'
  <2>1. truth' \in [0 .. gidE -> Image]
    <3>1. \A g \in 0 .. gidE : g < n => truth[g] \in Image
      BY <1>t, <1>q DEF IInv, TypeOK
    <3>2. \A g \in 0 .. gidE : ~(g < n) => t[g] \in Image
      BY <1>t
    <3> QED BY <1>0, <3>1, <3>2
  <2>2. written' \in [0 .. gidE -> SUBSET Blocks]
    <3>1. \A g \in 0 .. gidE : g < n => written[g] \in SUBSET Blocks
      BY <1>t, <1>q DEF IInv, TypeOK
    <3>2. \A g \in 0 .. gidE : ~(g < n) => w[g] \in SUBSET Blocks
      BY <1>t
    <3> QED BY <1>0, <3>1, <3>2
  <2>3. explicit' \subseteq Nat
    BY <1>0, <1>t, <1>q DEF IInv, TypeOK
  <2>4. top' \in Nat /\ lo' \in 0 .. top' /\ top' = gidE
    BY <1>0, <1>t
  <2> QED BY <2>1, <2>2, <2>3, <2>4, <1>x DEF TypeOK
<1>3. LineInv'
  <2>1. \A g, h \in R' : lo' <= g /\ g < h => line'[h].gidE = Larger(h, line'[g].gidE)
    <3> SUFFICES ASSUME NEW g \in R', NEW h \in R', n <= g, g < h PROVE FALSE
      BY <1>0
    <3> QED BY <1>l, <1>r, <1>t
  <2>2. latest'.gidB = n /\ lo' <= latest'.gidB
    BY <1>A, <1>s, <1>0, <1>t
  <2> QED BY <2>1, <2>2, <1>x, <1>l DEF LineInv
<1>4. DiffInv'
  <2>0. latest.gidB < d.snapE.gidB /\ latest.gidE <= latest'.gidE
    BY <1>A, <1>s, <1>t, <1>q
  <2>1. Sound(d)' /\ (\A b \in DOMAIN d.data : d.data[b] = line'[n].image[b]) /\ d.snapE = SnapAt(n)'
    BY <2>0, <1>D, <1>u, <1>A, <1>s, <1>a, <1>f, SoundFromLatest DEF IInv
  <2>2. d.snapB.gidB < d.snapE.gidB
    BY <2>0, <1>f
  <2>3. Lands(d)'
    BY <2>1, <2>2, <1>s, <1>l DEF Lands
  <2> QED BY <2>1, <2>3, <1>u, <1>l DEF DiffInv
<1>5. TruthInv'
  <2>0. top' = gidE /\ lo' = n
    BY <1>0
  <2>1. Consistent(truth, written, lo, top)'
    <3> SUFFICES ASSUME NEW g \in n .. gidE, NEW h \in n .. gidE, NEW b \in Blocks,
                        g < h, \A y \in g + 1 .. h : b \notin written'[y]
                 PROVE  truth'[g][b] = truth'[h][b]
      BY <2>0 DEF Consistent
    <3>1. \A y \in g + 1 .. h : b \notin w[y]
      BY <1>o, <1>t
    <3>2. t[g][b] = t[h][b]
      BY <3>1, <1>0 DEF Consistent
    <3> QED BY <3>2, <1>o
  <2>2. \A b \in Blocks : \E y \in n .. gidE : line'[n].image[b] = truth'[y][b]
    BY <1>i, <1>l, <1>o
  <2>3. \A g \in R' : IsClean(SnapAt(g))' => line'[g].image = truth'[g]
    <3> SUFFICES ASSUME NEW g \in R', IsClean(SnapAt(g))' PROVE line'[g].image = truth'[g]
      OBVIOUS
    <3>1. CASE g \in R
      <4>1. line[g].image = truth[g]
        BY <3>1, <1>l DEF IInv, TruthInv, IsClean
      <4> QED BY <4>1, <3>1, <1>l, <1>r, <1>o, <1>t
    <3>2. CASE g = n
      <4>1. gidE = n
        BY <3>2, <1>l, <1>A, <1>s DEF IsClean
      <4>2. \A b \in Blocks : line'[n].image[b] = truth'[n][b]
        BY <4>1, <2>2, <1>t
      <4>3. truth'[n] \in Image
        BY <1>2, <2>0, <1>t DEF TypeOK
      <4> QED BY <4>2, <4>3, <3>2, <1>l, <1>i, ImageEquality
    <3> QED BY <3>1, <3>2, <1>l
  \* Above the new start of the log there is the new snapshot only.
  <2>4. \A g \in R' : lo' <= g => g = n
    BY <2>0, <1>l, <1>r, <1>t
  <2>5. \A b : b \notin WrittenIn(lo, n)'
    <3>1. n + 1 .. n = {}
      BY <1>t
    <3>2. WrittenIn(lo, n)' = UNION {written'[g] : g \in n + 1 .. n}
      BY <2>0 DEF WrittenIn
    <3> QED BY <3>1, <3>2
  <2>6. \A g \in R', b \in Blocks : lo' <= g =>
            \E y \in g .. line'[g].gidE : line'[g].image[b] = truth'[y][b]
    BY <2>2, <2>4, <1>l
  <2>7. \A g \in R', b \in Blocks : lo' <= g /\ b \in WrittenIn(lo, g)' => line'[g].image[b] = truth'[g][b]
    BY <2>4, <2>5
  <2>8. \A g, h \in R', b \in Blocks : lo' <= g /\ g < h /\ b \notin WrittenIn(g, h)' =>
            line'[g].image[b] = line'[h].image[b]
    <3> SUFFICES ASSUME NEW g \in R', NEW h \in R', lo' <= g, g < h PROVE FALSE
      OBVIOUS
    <3>1. g = n
      BY <2>4
    <3>2. n <= h /\ h \in Nat
      BY <3>1, <1>l, <1>r, <1>t
    <3> QED BY <3>1, <3>2, <2>4, <2>0, <1>t
  <2> QED BY <2>1, <2>3, <2>6, <2>7, <2>8 DEF TruthInv
<1>e. explicit' \subseteq explicit \cup {L} /\ n \notin explicit' /\ (\A g \in explicit' : g < n)
  BY <1>0, <1>t, <1>q
<1>6. ExplicitSnapshotsKept'
  <2> SUFFICES ASSUME NEW e \in diffs', NEW g \in explicit' \cap R', e.snapB.gidB < g, g < e.snapE.gidB
               PROVE  FALSE
    BY DEF ExplicitSnapshotsKept, R
  <2>0. g \in R /\ g \in Nat /\ g <= L
    BY <1>l, <1>e, <1>r
  <2>1. CASE e = d
    BY <2>0, <2>1, <1>f, <1>t, <1>q
  <2>2. CASE e \in diffs
    <3>1. e.snapE.gidB \in Nat /\ e.snapE.gidB <= L
      BY <2>2, <1>l, DiffType DEF IInv, TypeOK
    <3>2. g \in explicit
      BY <3>1, <2>0, <1>e, <1>t
    <3> QED BY <2>2, <2>0, <3>2 DEF IInv, ExplicitSnapshotsKept, R
  <2> QED BY <2>1, <2>2, <1>u
<1>7. FlagsInv'
  <2> SUFFICES ASSUME NEW e \in diffs', ~e.isCompDiff, e.snapB.gidB \in explicit' \cap R'
               PROVE  ~e.isMergeable
    BY DEF FlagsInv
  <2>1. CASE e = d
    <3>1. L \in explicit' /\ d.snapB.gidB = L
      BY <2>1, <1>f, <1>q
    <3>2. CASE L \in explicit
      <4>1. line[L].gidE <= L
        BY <3>2, <1>L, <1>t DEF IInv, ExplicitInv
      <4>2. IsClean(latest)
        BY <4>1, <1>L, <1>t, <1>q DEF IsClean
      <4> QED BY <4>2, <2>1, <1>f
    <3>3. CASE L \notin explicit
      <4>1. IsClean(latest)
        BY <3>1, <3>3, <1>0
      <4> QED BY <4>1, <2>1, <1>f
    <3> QED BY <3>2, <3>3
  <2>2. CASE e \in diffs
    <3>1. e.snapB.gidB \in Nat /\ e.snapE.gidB \in Nat /\ e.snapE.gidB <= L /\ e.snapB.gidB < e.snapE.gidB
      BY <2>2, <1>l, DiffType DEF IInv, TypeOK, DiffInv, Lands
    <3>2. e.snapB.gidB \in R /\ e.snapB.gidB \in explicit
      BY <3>1, <1>l, <1>e, <1>t
    <3> QED BY <2>2, <3>2 DEF IInv, FlagsInv
  <2> QED BY <2>1, <2>2, <1>u
<1>8. ExplicitInv'
  <2> SUFFICES ASSUME NEW z \in explicit', NEW g \in R', g <= z
               PROVE  line'[g].gidE <= z
    BY DEF ExplicitInv
  <2>1. g \in R /\ z \in Nat
    BY <1>l, <1>e, <1>t DEF IInv, TypeOK
  <2>2. CASE z \in explicit
    BY <2>1, <2>2, <1>l DEF IInv, ExplicitInv
  <2>3. CASE z \notin explicit
    <3>1. z = L /\ IsClean(latest)
      BY <2>3, <1>0, <1>q
    <3>2. latest.gidE = L
      BY <3>1, <1>q DEF IsClean
    <3> QED BY <3>1, <3>2, <2>1, <1>l, <1>r, <1>t
  <2> QED BY <2>2, <2>3
<1> QED BY <1>2, <1>3, <1>4, <1>5, <1>6, <1>7, <1>8, <1>x DEF IInv

\* ReceiveDiff keeps the invariant.  The diff may start below the latest
\* snapshot, when it was sent before or overlaps with what was.
LEMMA ReceiveDiffInv ==
    ASSUME IInv, ReceiveDiff
    PROVE  IInv'
<1>0. PICK gB \in lo .. top, n \in lo .. top :
        /\ gB < n
        /\ \A g \in explicit : ~(gB < g /\ g < n)
        /\ canApply(latest, WlogDiff(gB, n))
        /\ AddDiff(WlogDiff(gB, n), apply(latest, WlogDiff(gB, n)))
        /\ diffs' \in {diffs \cup {WlogDiff(gB, n)}, gcRange(diffs \cup {WlogDiff(gB, n)}, WlogDiff(gB, n))}
        /\ UNCHANGED <<storage, base, baseImage, reader>>
  BY DEF ReceiveDiff
<1>q. PICK d, L : d = WlogDiff(gB, n) /\ L = latest.gidB
  OBVIOUS
<1>u. /\ AddDiff(d, apply(latest, d)) /\ canApply(latest, d) /\ diffs' \in {diffs \cup {d}, gcRange(diffs \cup {d}, d)}
      /\ UNCHANGED <<base, baseImage, reader>>
      /\ top' = top /\ lo' = lo /\ truth' = truth /\ written' = written /\ explicit' = explicit
  BY <1>0, <1>q DEF storage
<1>t. /\ top \in Nat /\ lo \in Nat /\ gB \in Nat /\ n \in Nat /\ lo <= gB /\ gB < n /\ n <= top
      /\ L \in Nat /\ latest.gidE \in Nat /\ L <= latest.gidE /\ latest \in MetaSnap
      /\ truth[n] \in Image /\ written \in [0 .. top -> SUBSET Blocks]
  BY <1>0, <1>q, SnapEta DEF IInv, TypeOK
<1>L. /\ L \in R /\ latest = SnapAt(L) /\ line[L].image \in Image /\ line[L].gidE = latest.gidE
      /\ lo <= L /\ latest.gidE <= top
  <2>1. L \in R /\ latest = SnapAt(L) /\ lo <= L
    BY <1>q DEF IInv, LineInv
  <2> QED BY <2>1, LineType DEF IInv
<1>f. /\ d.snapB = Snap(gB, gB) /\ d.snapE = Snap(n, n)
      /\ ~d.isCompDiff /\ d.isMergeable = (gB \notin explicit)
      /\ d.data = [b \in WrittenIn(gB, n) |-> truth[n][b]]
  BY <1>q DEF WlogDiff
<1>W. WrittenIn(gB, n) \subseteq Blocks
  BY <1>t DEF WrittenIn
<1>D. d \in Diff
  <2>1. d.data \in [WrittenIn(gB, n) -> Values]
    BY <1>f, <1>W, <1>t DEF Image
  <2>2. d.data \in UNION {[W -> Values] : W \in SUBSET Blocks}
    BY <2>1, <1>W
  <2>3. PICK flag \in BOOLEAN, data \in {d.data} : flag = (gB \notin explicit) /\ data = d.data
    OBVIOUS
  <2>4. d = [snapB |-> Snap(gB, gB), snapE |-> Snap(n, n),
             isMergeable |-> flag, isCompDiff |-> FALSE, data |-> data]
    BY <2>3, <1>q, <1>f DEF WlogDiff
  <2>5. Snap(gB, gB) \in MetaSnap /\ Snap(n, n) \in MetaSnap
    BY <1>t, SnapType
  <2> QED BY <2>2, <2>3, <2>4, <2>5 DEF Diff
<1>s. /\ d.snapB.gidB = gB /\ d.snapE.gidB = n /\ d.snapE.gidE = n /\ IsCleanDiff(d)
      /\ DOMAIN d.data = WrittenIn(gB, n) /\ \A b \in WrittenIn(gB, n) : d.data[b] = truth[n][b]
  BY <1>f, <1>t, SnapFields DEF IsCleanDiff, IsClean
<1>g. gB <= L /\ L < n
  BY <1>u, <1>s, <1>q DEF canApply
<1>a. /\ latest' \in MetaSnap /\ latest'.gidB = n /\ latest'.gidE = Larger(n, latest.gidE)
      /\ latest'.gidE \in Nat /\ latest.gidE <= latest'.gidE /\ n <= latest'.gidE /\ latest'.gidE <= top
  <2>1. latest' = apply(latest, d)
    BY <1>u DEF AddDiff
  <2>2. latest' \in MetaSnap /\ latest'.gidB = n /\ latest'.gidE = Larger(n, latest.gidE)
    BY <2>1, <1>D, <1>s, <1>t, ApplyFacts
  <2> QED BY <2>2, <1>t, <1>L DEF Larger
<1>e. d \in diffs' /\ diffs' \subseteq diffs \cup {d} /\ \A e \in diffs \ diffs' : contains(d, e)
  BY <1>u DEF gcRange
<1>l. /\ n \notin R /\ R' = R \cup {n}
      /\ \A g \in R : line'[g] = line[g] /\ SnapAt(g)' = SnapAt(g)
      /\ line'[n].gidE = latest'.gidE /\ line'[n].image = Patch(line[L].image, d.data)
      /\ line'[n].image \in Image
      /\ SnapAt(n)' = latest'
      /\ \A g \in R' : g <= n /\ g <= line'[g].gidE
      /\ \A g, h \in R' : g < h => line'[g].gidE <= line'[h].gidE
      /\ \A e \in diffs : Sound(e)' /\ Lands(e)' /\ e.snapE.gidB <= L
  <2>1. latest.gidB < d.snapE.gidB /\ latest'.gidB = d.snapE.gidB
    BY <1>g, <1>s, <1>q, <1>a
  <2> QED BY <2>1, <1>D, <1>u, <1>s, <1>a, <1>q, AddDiffLine DEF IInv
<1>x. /\ {base, latest, cur}' \subseteq MetaSnap /\ {baseImage, curImage}' \subseteq Image
      /\ diffs' \subseteq Diff /\ (DOMAIN line)' \subseteq 0 .. top'
      /\ line' \in [(DOMAIN line)' -> [gidE : 0 .. top', image : Image]]
      /\ latest'.gidB \in R' /\ latest' = SnapAt(latest.gidB)'
      /\ OnLine(base, baseImage)' /\ OnLine(cur, curImage)'
      /\ NoHole'
  <2>1. /\ d.snapB.gidB <= latest.gidB /\ latest.gidB < d.snapE.gidB /\ latest'.gidB = d.snapE.gidB
        /\ top' \in Nat /\ latest'.gidE <= top'
    BY <1>g, <1>s, <1>q, <1>a, <1>u, <1>t
  <2> QED BY <2>1, <1>D, <1>u, <1>a, <1>e, AddDiffFrame
<1>r. \A g \in R : /\ g \in Nat /\ g <= L /\ g < n /\ line[g].gidE \in Nat
                   /\ g <= line[g].gidE /\ line[g].image \in Image /\ SnapAt(g) \in MetaSnap
                   /\ SnapAt(g).gidB = g /\ SnapAt(g).gidE = line[g].gidE
  <2> TAKE g \in R
  <2>1. /\ g \in Nat /\ g <= L /\ line[g].gidE \in Nat /\ g <= line[g].gidE /\ line[g].image \in Image
        /\ SnapAt(g) \in MetaSnap /\ SnapAt(g).gidB = g /\ SnapAt(g).gidE = line[g].gidE
    BY <1>q, LineType DEF IInv, LineInv
  <2> QED BY <2>1, <1>g, <1>t
\* The content of the new image, block by block.
<1>in. \A b \in WrittenIn(gB, n) : line'[n].image[b] = truth[n][b]
  BY <1>l, <1>s, <1>W, <1>L, PatchAt
<1>out. \A b \in Blocks \ WrittenIn(gB, n) : line'[n].image[b] = line[L].image[b]
  BY <1>l, <1>s, <1>L, PatchAt
\* A block that the log does not write between two gids has not changed.
<1>c. ASSUME NEW y \in Nat, NEW b \in Blocks, lo <= y, y <= n, b \notin WrittenIn(y, n)
      PROVE  truth[y][b] = truth[n][b]
  <2>1. \A z \in y + 1 .. n : b \notin written[z]
    BY <1>c, <1>t, WrittenInPointwise
  <2>2. CASE y = n
    BY <2>2
  <2>3. CASE y < n
    BY <2>1, <2>3, <1>c, <1>t DEF IInv, TruthInv, Consistent
  <2> QED BY <2>2, <2>3, <1>c, <1>t
<1>m. ASSUME NEW p \in Nat, NEW y \in Nat, NEW z \in Nat, p <= y, z <= n, NEW b, b \notin WrittenIn(p, n)
      PROVE  b \notin WrittenIn(y, z)
  BY <1>m, <1>t, WrittenInPointwise
\* The end of the dirty range does not depend on where the log was joined.
<1>E. \A g \in R : lo <= g => latest'.gidE = Larger(n, line[g].gidE)
  <2> SUFFICES ASSUME NEW g \in R, lo <= g PROVE latest'.gidE = Larger(n, line[g].gidE)
    OBVIOUS
  <2>1. CASE g = L
    BY <2>1, <1>a, <1>L
  <2>2. CASE g < L
    <3>1. latest.gidE = Larger(L, line[g].gidE)
      BY <2>2, <1>L DEF IInv, LineInv
    <3> QED BY <3>1, <1>a, <1>g, <1>r, <1>t DEF Larger
  <2> QED BY <2>1, <2>2, <1>r, <1>t
<1>1. TypeOK'
  BY <1>x, <1>u DEF IInv, TypeOK
<1>2. LineInv'
  <2>1. \A g, h \in R' : lo <= g /\ g < h => line'[h].gidE = Larger(h, line'[g].gidE)
    <3> SUFFICES ASSUME NEW g \in R', NEW h \in R', lo <= g, g < h
                 PROVE  line'[h].gidE = Larger(h, line'[g].gidE)
      OBVIOUS
    <3>1. CASE h \in R /\ g \in R
      BY <3>1, <1>l DEF IInv, LineInv
    <3>2. CASE h = n /\ g \in R
      BY <3>2, <1>l, <1>E
    <3>3. g # n
      BY <1>l, <1>r, <1>t
    <3> QED BY <3>1, <3>2, <3>3, <1>l
  <2> QED BY <2>1, <1>x, <1>l, <1>u, <1>a, <1>t DEF LineInv
<1>3. Sound(d)'
  <2> SUFFICES ASSUME NEW g \in R', canApply(SnapAt(g)', d)
               PROVE  /\ apply(SnapAt(g)', d) = SnapAt(n)'
                      /\ Patch(line'[g].image, d.data) = line'[n].image
    BY <1>s DEF Sound
  <2>1. g \in R
    <3> SUFFICES ASSUME g = n PROVE FALSE
      BY <1>l
    <3>1. n < n
      BY <1>l, <1>a, <1>s DEF canApply
    <3> QED BY <3>1, <1>t
  <2>2. SnapAt(g)' = SnapAt(g) /\ line'[g] = line[g] /\ gB <= g
    BY <2>1, <1>l, <1>r, <1>s DEF canApply
  <2>3. lo <= g
    BY <2>1, <2>2, <1>r, <1>t
  <2>4. apply(SnapAt(g), d) = latest'
    <3>1. /\ apply(SnapAt(g), d) \in MetaSnap /\ apply(SnapAt(g), d).gidB = n
          /\ apply(SnapAt(g), d).gidE = Larger(n, line[g].gidE)
      BY <2>1, <1>r, <1>D, <1>s, ApplyFacts
    <3>2. latest'.gidE = Larger(n, line[g].gidE)
      BY <2>1, <2>3, <1>E
    <3> QED BY <3>1, <3>2, <1>a, SnapEta
  <2>5. Patch(line[g].image, d.data) = line'[n].image
    <3>1. Patch(line[g].image, d.data) \in Image
      BY <2>1, <1>r, <1>D, PatchType
    <3>2. ASSUME NEW b \in Blocks
          PROVE  Patch(line[g].image, d.data)[b] = line'[n].image[b]
      <4>1. CASE b \in WrittenIn(gB, n)
        BY <4>1, <1>s, <1>in, <2>1, <1>r, PatchAt
      <4>2. CASE b \notin WrittenIn(gB, n)
        <5>1. Patch(line[g].image, d.data)[b] = line[g].image[b]
          BY <4>2, <1>s, <2>1, <1>r, PatchAt
        <5>2. line[g].image[b] = line[L].image[b]
          <6>1. CASE g = L
            BY <6>1
          <6>2. CASE g < L
            <7>1. b \notin WrittenIn(g, L)
              BY <4>2, <2>1, <2>2, <1>r, <1>g, <1>t, <1>m
            <7> QED BY <7>1, <6>2, <2>1, <2>3, <1>L DEF IInv, TruthInv
          <6> QED BY <6>1, <6>2, <2>1, <1>r, <1>t
        <5> QED BY <5>1, <5>2, <4>2, <1>out
      <4> QED BY <4>1, <4>2
    <3> QED BY <3>1, <3>2, <1>l, ImageEquality
  <2> QED BY <2>2, <2>4, <2>5, <1>l
<1>4. DiffInv'
  <2>1. Lands(d)'
    BY <1>s, <1>t, <1>l, <1>in DEF Lands
  <2> QED BY <2>1, <1>3, <1>e, <1>l DEF DiffInv
<1>5. TruthInv'
  \* Every block of the new image is as it was at some gid of its range.
  <2>1. ASSUME NEW b \in Blocks
        PROVE  \E y \in n .. latest'.gidE : line'[n].image[b] = truth[y][b]
    <3>1. CASE b \in WrittenIn(gB, n)
      <4>1. n \in n .. latest'.gidE
        BY <1>a, <1>t
      <4> QED BY <4>1, <3>1, <1>in
    <3>2. CASE b \notin WrittenIn(gB, n)
      <4>1. PICK y \in L .. line[L].gidE : line[L].image[b] = truth[y][b]
        BY <1>L DEF IInv, TruthInv
      <4>2. y \in Nat /\ L <= y /\ y <= latest.gidE
        BY <1>L, <1>t
      <4>3. CASE n <= y
        <5>1. y \in n .. latest'.gidE
          BY <4>2, <4>3, <1>a, <1>t
        <5> QED BY <5>1, <4>1, <3>2, <1>out
      <4>4. CASE y < n
        <5>1. b \notin WrittenIn(y, n)
          BY <3>2, <4>2, <1>g, <1>t, <1>m
        <5>2. truth[y][b] = truth[n][b]
          BY <5>1, <4>2, <4>4, <1>L, <1>t, <1>c
        <5>3. n \in n .. latest'.gidE
          BY <1>a, <1>t
        <5> QED BY <5>2, <5>3, <4>1, <3>2, <1>out
      <4> QED BY <4>2, <4>3, <4>4, <1>t
    <3> QED BY <3>1, <3>2
  <2>2. \A g \in R' : IsClean(SnapAt(g))' => line'[g].image = truth'[g]
    <3>1. \A g \in R : IsClean(SnapAt(g))' => line'[g].image = truth'[g]
      BY <1>l, <1>u DEF IInv, TruthInv, IsClean
    <3>2. ASSUME IsClean(SnapAt(n))' PROVE line'[n].image = truth[n]
      <4>1. latest'.gidE = n
        BY <3>2, <1>l, <1>a DEF IsClean
      <4>2. \A b \in Blocks : line'[n].image[b] = truth[n][b]
        BY <4>1, <2>1, <1>t
      <4> QED BY <4>2, <1>l, <1>t, ImageEquality
    <3> QED BY <3>1, <3>2, <1>l, <1>u
  <2>3. \A g \in R', b \in Blocks : lo' <= g =>
            \E y \in g .. line'[g].gidE : line'[g].image[b] = truth'[y][b]
    <3>1. \A g \in R, b \in Blocks : lo <= g => \E y \in g .. line[g].gidE : line[g].image[b] = truth[y][b]
      BY DEF IInv, TruthInv
    <3> QED BY <2>1, <3>1, <1>l, <1>u
  <2>4. \A g, h : WrittenIn(g, h)' = WrittenIn(g, h)
    BY <1>u DEF WrittenIn
  <2>5. \A g \in R', b \in Blocks : lo' <= g /\ b \in WrittenIn(lo, g) => line'[g].image[b] = truth'[g][b]
    <3>1. ASSUME NEW b \in Blocks, b \in WrittenIn(lo, n) PROVE line'[n].image[b] = truth[n][b]
      <4>1. CASE b \in WrittenIn(gB, n)
        BY <4>1, <1>in
      <4>2. CASE b \notin WrittenIn(gB, n)
        <5>1. b \in WrittenIn(lo, L)
          BY <3>1, <4>2, <1>g, <1>t, WrittenInPointwise
        <5>2. line[L].image[b] = truth[L][b]
          BY <5>1, <1>L DEF IInv, TruthInv
        <5>3. b \notin WrittenIn(L, n)
          BY <4>2, <1>g, <1>t, <1>m
        <5>4. truth[L][b] = truth[n][b]
          BY <5>3, <1>L, <1>g, <1>t, <1>c
        <5> QED BY <5>2, <5>4, <4>2, <1>out
      <4> QED BY <4>1, <4>2
    <3>2. \A g \in R, b \in Blocks : lo <= g /\ b \in WrittenIn(lo, g) => line[g].image[b] = truth[g][b]
      BY DEF IInv, TruthInv
    <3> QED BY <3>1, <3>2, <1>l, <1>u
  <2>6. \A g, h \in R', b \in Blocks : lo' <= g /\ g < h /\ b \notin WrittenIn(g, h) =>
            line'[g].image[b] = line'[h].image[b]
    <3> SUFFICES ASSUME NEW g \in R', NEW h \in R', NEW b \in Blocks,
                        lo <= g, g < h, b \notin WrittenIn(g, h)
                 PROVE  line'[g].image[b] = line'[h].image[b]
      BY <1>u
    <3>1. CASE h \in R /\ g \in R
      BY <3>1, <1>l DEF IInv, TruthInv
    <3>2. CASE h = n /\ g \in R
      <4>0. g \in Nat /\ g <= L /\ g < n /\ line'[g] = line[g] /\ b \notin WrittenIn(g, n)
        BY <3>2, <1>r, <1>l
      <4>1. CASE b \in WrittenIn(gB, n)
        <5>1. b \in WrittenIn(lo, g)
          BY <4>0, <4>1, <1>t, WrittenInPointwise
        <5>2. line[g].image[b] = truth[g][b]
          BY <5>1, <3>2 DEF IInv, TruthInv
        <5>3. truth[g][b] = truth[n][b]
          BY <4>0, <1>c
        <5> QED BY <5>2, <5>3, <4>0, <4>1, <3>2, <1>in
      <4>2. CASE b \notin WrittenIn(gB, n)
        <5>1. line[g].image[b] = line[L].image[b]
          <6>1. CASE g = L
            BY <6>1
          <6>2. CASE g < L
            <7>1. b \notin WrittenIn(g, L)
              BY <4>0, <1>g, <1>t, <1>m
            <7> QED BY <7>1, <6>2, <3>2, <1>L DEF IInv, TruthInv
          <6> QED BY <6>1, <6>2, <4>0, <1>t
        <5> QED BY <5>1, <4>0, <4>2, <3>2, <1>out
      <4> QED BY <4>1, <4>2
    <3>3. g # n
      BY <1>l, <1>r, <1>t
    <3> QED BY <3>1, <3>2, <3>3, <1>l
  <2>7. Consistent(truth, written, lo, top)'
    BY <1>u DEF IInv, TruthInv, Consistent
  <2> QED BY <2>2, <2>3, <2>4, <2>5, <2>6, <2>7, <1>u DEF TruthInv
<1>6. ExplicitSnapshotsKept'
  <2> SUFFICES ASSUME NEW e \in diffs', NEW g \in explicit \cap R', e.snapB.gidB < g, g < e.snapE.gidB
               PROVE  FALSE
    BY <1>u DEF ExplicitSnapshotsKept, R
  <2>1. CASE e = d
    BY <2>1, <1>0, <1>s
  <2>2. CASE e \in diffs
    <3>1. e.snapE.gidB \in Nat /\ e.snapE.gidB <= L
      BY <2>2, <1>l, DiffType DEF IInv, TypeOK
    <3>2. g \in R
      BY <3>1, <1>l, <1>g, <1>t
    <3> QED BY <2>2, <3>2 DEF IInv, ExplicitSnapshotsKept, R
  <2> QED BY <2>1, <2>2, <1>e
<1>7. FlagsInv'
  <2> SUFFICES ASSUME NEW e \in diffs', ~e.isCompDiff, e.snapB.gidB \in explicit \cap R'
               PROVE  ~e.isMergeable
    BY <1>u DEF FlagsInv
  <2>1. CASE e = d
    BY <2>1, <1>f, <1>s
  <2>2. CASE e \in diffs
    <3>1. e.snapB.gidB \in Nat /\ e.snapE.gidB \in Nat /\ e.snapE.gidB <= L /\ e.snapB.gidB < e.snapE.gidB
      BY <2>2, <1>l, DiffType DEF IInv, TypeOK, DiffInv, Lands
    <3>2. e.snapB.gidB \in R
      BY <3>1, <1>l, <1>g, <1>t
    <3> QED BY <2>2, <3>2 DEF IInv, FlagsInv
  <2> QED BY <2>1, <2>2, <1>e
<1>8. ExplicitInv'
  <2> SUFFICES ASSUME NEW z \in explicit, NEW g \in R', g <= z
               PROVE  line'[g].gidE <= z
    BY <1>u DEF ExplicitInv
  <2>1. z \in Nat
    BY DEF IInv, TypeOK
  <2>2. CASE g \in R
    BY <2>2, <1>l DEF IInv, ExplicitInv
  <2>3. CASE g = n
    <3>1. line[L].gidE <= z
      BY <2>1, <2>3, <1>L, <1>g, <1>t DEF IInv, ExplicitInv
    <3> QED BY <3>1, <2>1, <2>3, <1>l, <1>a, <1>L, <1>t DEF Larger
  <2> QED BY <2>2, <2>3, <1>l
<1> QED BY <1>1, <1>2, <1>4, <1>5, <1>6, <1>7, <1>8, <1>x DEF IInv

-----------------------------------------------------------------------------
(* The invariant and what follows from it. *)

\* A full backup establishes the invariant.
LEMMA InitInv ==
    ASSUME Init
    PROVE  IInv
<1>t. /\ top \in Nat /\ lo = 0 /\ truth \in [0 .. top -> Image] /\ written \in [0 .. top -> SUBSET Blocks]
      /\ explicit = {} /\ diffs = {} /\ base = Snap(0, top) /\ latest = base
      /\ cur = base /\ curImage = baseImage
      /\ line = [g \in {0} |-> [gidE |-> top, image |-> baseImage]]
  BY DCBoundsAssumption DEF Init
<1>i. /\ baseImage \in Image
      /\ \A b \in Blocks : \E y \in 0 .. top : baseImage[b] = truth[y][b]
  <2>1. PICK at \in [Blocks -> 0 .. top] : baseImage = [b \in Blocks |-> truth[at[b]][b]]
    BY DEF Init, SyncedImages
  <2>2. \A b \in Blocks : at[b] \in 0 .. top /\ baseImage[b] = truth[at[b]][b] /\ truth[at[b]] \in Image
    BY <2>1, <1>t
  <2>3. \A b \in Blocks : baseImage[b] \in Values
    BY <2>2 DEF Image
  <2> QED BY <2>1, <2>2, <2>3 DEF Image
<1>s. base \in MetaSnap /\ base.gidB = 0 /\ base.gidE = top
  BY <1>t, SnapType, SnapFields
<1>l. R = {0} /\ line[0].gidE = top /\ line[0].image = baseImage /\ SnapAt(0) = base
  BY <1>t DEF R, SnapAt
<1>1. TypeOK
  <2>1. line \in [DOMAIN line -> [gidE : 0 .. top, image : Image]] /\ DOMAIN line \subseteq 0 .. top
    BY <1>t, <1>i
  <2> QED BY <2>1, <1>t, <1>i, <1>s DEF TypeOK
<1>2. LineInv
  BY <1>l, <1>s, <1>t DEF LineInv
<1>3. OnLine(base, baseImage) /\ OnLine(cur, curImage)
  BY <1>l, <1>s, <1>t DEF OnLine
<1>4. DiffInv /\ ExplicitSnapshotsKept /\ FlagsInv /\ ExplicitInv
  BY <1>t DEF DiffInv, ExplicitSnapshotsKept, FlagsInv, ExplicitInv
<1>5. NoHole
  BY <1>t, <1>s DEF NoHole
<1>6. TruthInv
  <2>1. Consistent(truth, written, lo, top)
    BY <1>t DEF Init
  <2>2. \A g \in R : IsClean(SnapAt(g)) => line[g].image = truth[g]
    <3> SUFFICES ASSUME top = 0 PROVE baseImage = truth[0]
      BY <1>l, <1>s DEF IsClean
    <3>1. \A b \in Blocks : baseImage[b] = truth[0][b]
      BY <1>i
    <3>2. truth[0] \in Image
      BY <1>t
    <3> QED BY <3>1, <3>2, <1>i, ImageEquality
  <2>3. \A b : b \notin WrittenIn(0, 0)
    BY DEF WrittenIn
  <2> QED BY <2>1, <2>2, <2>3, <1>i, <1>l, <1>t DEF TruthInv
<1> QED BY <1>1, <1>2, <1>3, <1>4, <1>5, <1>6 DEF IInv

\* Every step keeps the invariant.
LEMMA NextInv ==
    ASSUME IInv, [Next]_vars
    PROVE  IInv'
<1>1. CASE StorageWrites
  BY <1>1, StorageWritesInv
<1>2. CASE ReceiveDiff
  BY <1>2, ReceiveDiffInv
<1>3. CASE HashBackup
  BY <1>3, HashBackupInv
<1>4. CASE HashReplication
  BY <1>4, HashReplicationInv
<1>5. CASE MergeDiffs
  BY <1>5, MergeDiffsInv
<1>6. CASE ApplyDiff
  BY <1>6, ApplyDiffInv
<1>7. CASE ReadBase
  BY <1>7, ReadBaseInv
<1>8. CASE ReadDiff
  BY <1>8, ReadDiffInv
<1>9. CASE UNCHANGED vars
  <2>1. UNCHANGED <<storage, base, baseImage, latest, diffs, line, reader>>
    BY <1>9 DEF vars
  <2>u. /\ top' = top /\ lo' = lo /\ truth' = truth /\ written' = written /\ explicit' = explicit
        /\ base' = base /\ baseImage' = baseImage /\ latest' = latest /\ diffs' = diffs /\ line' = line
        /\ cur' = cur /\ curImage' = curImage
    BY <2>1 DEF storage, reader
  <2>2. /\ LineInv' /\ TruthInv' /\ ExplicitInv' /\ R' = R
        /\ \A e : (Sound(e) => Sound(e)') /\ (Lands(e) => Lands(e)')
    BY <2>1, LineUnchanged DEF IInv
  <2>3. TypeOK'
    BY <2>u DEF IInv, TypeOK
  <2>4. OnLine(base, baseImage)' /\ OnLine(cur, curImage)'
    BY <2>u DEF IInv, OnLine, R, SnapAt
  <2>5. DiffInv'
    BY <2>u, <2>2 DEF IInv, DiffInv
  <2>6. NoHole' /\ ExplicitSnapshotsKept' /\ FlagsInv'
    BY <2>u, <2>2 DEF IInv, NoHole, ExplicitSnapshotsKept, FlagsInv
  <2> QED BY <2>2, <2>3, <2>4, <2>5, <2>6 DEF IInv
<1> QED BY <1>1, <1>2, <1>3, <1>4, <1>5, <1>6, <1>7, <1>8, <1>9 DEF Next

\* The inductive invariant holds in every state of DiffChain.
THEOREM InvariantHolds == Spec => []IInv
<1>1. Init => IInv
  BY InitInv
<1>2. IInv /\ [Next]_vars => IInv'
  BY NextInv
<1> QED BY <1>1, <1>2, PTL DEF Spec

\* Every variable of DiffChain keeps its type.
THEOREM TypeCorrect == Spec => []TypeOK
<1>1. IInv => TypeOK
  BY DEF IInv
<1> QED BY <1>1, InvariantHolds, PTL

\* A clean snapshot on the line is the volume at its gid, whoever has come to it.
LEMMA OnLineExact ==
    ASSUME IInv, NEW snap, NEW image, OnLine(snap, image), IsClean(snap)
    PROVE  image = truth[snap.gidB]
<1>1. snap.gidB \in R /\ snap = SnapAt(snap.gidB) /\ image = line[snap.gidB].image
  BY DEF OnLine
<1>2. IsClean(SnapAt(snap.gidB))
  BY <1>1
<1> QED BY <1>1, <1>2 DEF IInv, TruthInv

\* restore and every other reader gets the volume as it was at the gid of the
\* clean snapshot it ends at, whichever applicable diffs it has taken.
THEOREM RestoredExactHolds == Spec => []RestoredExact
<1>1. IInv => RestoredExact
  BY OnLineExact DEF IInv, RestoredExact
<1> QED BY <1>1, InvariantHolds, PTL

\* applyDiffsToVolumeOnce leaves the volume as it was at the gid of its base.
THEOREM BaseExactHolds == Spec => []BaseExact
<1>1. IInv => BaseExact
  BY OnLineExact DEF IInv, BaseExact
<1> QED BY <1>1, InvariantHolds, PTL

\* Neither merge nor gcRange nor eraseBeforeGid leaves a hole in the diffs
\* between the base image and the latest snapshot.
THEOREM NoHoleHolds == Spec => []NoHole
<1>1. IInv => NoHole
  BY DEF IInv
<1> QED BY <1>1, InvariantHolds, PTL

\* No merge makes an explicit snapshot unreachable.
THEOREM ExplicitSnapshotsKeptHolds == Spec => []ExplicitSnapshotsKept
<1>1. IInv => ExplicitSnapshotsKept
  BY DEF IInv
<1> QED BY <1>1, InvariantHolds, PTL

\* The cached latest snapshot is the one that applying the diffs arrives at.
THEOREM LatestAgreesHolds == Spec => []LatestAgrees
<1>1. IInv => LatestAgrees
  <2> SUFFICES ASSUME IInv PROVE LatestAgrees
    OBVIOUS
  <2>1. cur.gidB \in R /\ cur = SnapAt(cur.gidB)
    BY DEF IInv, OnLine
  <2>2. latest = SnapAt(latest.gidB) /\ \A g \in R : g <= latest.gidB
    BY DEF IInv, LineInv
  <2> QED BY <2>1, <2>2 DEF LatestAgrees
<1> QED BY <1>1, InvariantHolds, PTL

=============================================================================
