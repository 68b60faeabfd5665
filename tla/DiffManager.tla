----------------------------- MODULE DiffManager -----------------------------
(***************************************************************************)
(* The queries of MetaDiffManager (meta.cpp) over the set of diffs it      *)
(* keeps: which diffs, in which order, lead from a base image to the image *)
(* that is asked for.                                                      *)
(*                                                                         *)
(* All of them walk greedily: of the diffs that can be applied next, the   *)
(* one that ends last is taken.  A base image is labelled by a MetaState:  *)
(* snapB, and, while diffs are being written into it, the snapshot snapE   *)
(* they will lead to.                                                      *)
(***************************************************************************)
EXTENDS Meta, Sequences, FiniteSets

MetaState == [snapB : MetaSnap, snapE : MetaSnap, isApplying : BOOLEAN]

\* A base image nothing is being applied to.
Settled(snap) == [snapB |-> snap, snapE |-> snap, isApplying |-> FALSE]

\* Mutant of getMaxProgressDiff: the diff that ends first is taken.
MinProgressDiff(ds) ==
    CHOOSE d \in ds : \A e \in ds : d.snapE.gidB <= e.snapE.gidB

getMaxProgressDiff(ds) ==
    CHOOSE d \in ds : \A e \in ds :
        \/ e.snapE.gidB < d.snapE.gidB
        \/ e.snapE.gidB = d.snapE.gidB /\ e.snapB.gidB <= d.snapB.gidB

\* MetaSnap apply(const MetaSnap &, const MetaDiffVec &).
ApplyAll(snap, v) ==
    LET after[n \in 0 .. Len(v)] == IF n = 0 THEN snap ELSE apply(after[n - 1], v[n])
    IN  after[Len(v)]

CanApplyAll(snap, v) ==
    LET able[n \in 0 .. Len(v)] ==
            n = 0 \/ (able[n - 1] /\ canApply(ApplyAll(snap, SubSeq(v, 1, n - 1)), v[n]))
    IN  able[Len(v)]

\* bool canApply(const MetaState &, const MetaDiffVec &): diffs for an image
\* that others were being written into have to reach at least as far as those.
CanApplyState(st, v) ==
    /\ CanApplyAll(st.snapB, v)
    /\ st.isApplying => st.snapE.gidB <= ApplyAll(st.snapB, v).gidB

beginApplying(st, v) == [snapB |-> st.snapB, snapE |-> ApplyAll(st.snapB, v), isApplying |-> TRUE]

endApplying(st, v) == Settled(ApplyAll(st.snapB, v))

\* The content of the diffs of v, later ones over earlier ones, as DiffMerger
\* gives it to applyOpenedDiffs.
MergedData(v) ==
    LET data[n \in 0 .. Len(v)] == IF n = 0 THEN [b \in {} |-> 0] ELSE MergeData(data[n - 1], v[n].data)
    IN  data[Len(v)]

\* The loop ends at the first diff whose result is past maxGid.
getApplicableDiffListByGid(ds, snap, maxGid) ==
    LET list[s \in MetaSnap] ==
            LET can == {d \in ds : canApply(s, d)}
                d   == getMaxProgressDiff(can)
            IN  IF can = {} \/ apply(s, d).gidB > maxGid THEN <<>> ELSE <<d>> \o list[apply(s, d)]
    IN  list[snap]

\* No diff of ds leads past it.
EndOf(ds) == CHOOSE n \in {d.snapE.gidB : d \in ds} \cup {0} : \A d \in ds : d.snapE.gidB <= n

getApplicableDiffList(ds, snap) == getApplicableDiffListByGid(ds, snap, EndOf(ds))

getMinimumApplicableDiffList(ds, st) ==
    IF st.isApplying THEN getApplicableDiffListByGid(ds, st.snapB, st.snapE.gidB) ELSE <<>>

getLatestState(ds, st) == endApplying(st, getApplicableDiffList(ds, st.snapB))

\* At most maxNr of them; 0 means all.
FirstDiffs(v, maxNr) == IF maxNr > 0 /\ Len(v) > maxNr THEN SubSeq(v, 1, maxNr) ELSE v

\* Mutant of getDiffListToApply: an interrupted apply is not taken into account.
ToApplyIgnoringInterrupted(ds, st, gid, maxNr) ==
    FirstDiffs(getApplicableDiffListByGid(ds, st.snapB, gid), maxNr)

getDiffListToApply(ds, st, gid, maxNr) ==
    LET applicableV == getApplicableDiffListByGid(ds, st.snapB, gid)
        minV == getMinimumApplicableDiffList(ds, st)
    IN  IF applicableV = <<>> THEN <<>>
        ELSE IF Len(minV) > Len(FirstDiffs(applicableV, maxNr)) THEN minV
        ELSE FirstDiffs(applicableV, maxNr)

\* Empty when the snapshot cannot be made from this base image.
getDiffListToSync(ds, st, snap) ==
    LET applicableV == getApplicableDiffListByGid(ds, st.snapB, snap.gidB)
        minV == IF applicableV = <<>> THEN <<>> ELSE getMinimumApplicableDiffList(ds, st)
    IN  IF Len(minV) > Len(applicableV) \/ ApplyAll(st.snapB, applicableV) # snap
        THEN <<>> ELSE applicableV

getDiffListToRestore(ds, st, gid, maxNr) == FirstDiffs(getDiffListToSync(ds, st, Snap(gid, gid)), maxNr)

\* MetaDiff merge(const MetaDiffVec &).
MergeAll(v) ==
    LET merged[n \in 1 .. Len(v)] == IF n = 1 THEN v[1] ELSE merge(merged[n - 1], v[n])
    IN  merged[Len(v)]

\* The walk starts at the diffs with the smallest snapB.gidB not below gid.
getMergeableDiffList(ds, gid) ==
    LET from  == {d \in ds : gid <= d.snapB.gidB}
        first == {d \in from : \A e \in from : d.snapB.gidB <= e.snapB.gidB}
        Candidates(m) == {d \in ds : ~SameRange(m, d) /\ canMerge(m, d)}
        walk[n \in 1 .. Cardinality(ds)] ==
            IF n = 1 THEN <<getMaxProgressDiff(first)>>
            ELSE LET can == Candidates(MergeAll(walk[n - 1]))
                 IN  IF can = {} THEN walk[n - 1] ELSE Append(walk[n - 1], getMaxProgressDiff(can))
    IN  IF from = {} THEN <<>> ELSE walk[Cardinality(ds)]

\* Mutant of gc: the walk starts at the snapshot an apply will reach.
GcFromEnd(ds, st) ==
    LET v == getApplicableDiffList(ds, st.snapE) IN {v[i] : i \in DOMAIN v}

\* MetaDiffManager::gc keeps the diffs of one walk from the base image.
gc(ds, st) == LET v == getApplicableDiffList(ds, st.snapB) IN {v[i] : i \in DOMAIN v}

=============================================================================
