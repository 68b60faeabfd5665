-------------------------------- MODULE Meta --------------------------------
(***************************************************************************)
(* Snapshots and diffs as meta data (meta.hpp).                            *)
(*                                                                         *)
(* A snapshot |B,E| is an image of the volume; it is clean, |B|, when      *)
(* B = E, and otherwise mixes states of the volume between gid B and gid   *)
(* E.  A diff leads from the image of one snapshot to that of another.     *)
(* Which diff may be applied to which snapshot, and which diffs may be     *)
(* merged, is decided from the gids alone.                                 *)
(*                                                                         *)
(* The data of a diff is a function from the blocks it contains to their   *)
(* content, so that applying and merging diffs are the two forms of        *)
(* overlaying functions.  Timestamps and sizes are left out.               *)
(***************************************************************************)
EXTENDS Naturals

MetaSnap == {s \in [gidB : Nat, gidE : Nat] : s.gidB <= s.gidE}

Snap(b, e) == [gidB |-> b, gidE |-> e]

IsClean(snap) == snap.gidB = snap.gidE

IsCleanDiff(d) == IsClean(d.snapB) /\ IsClean(d.snapE)

\* The constraint MetaDiff::verify puts on the two ends of a diff.
Progresses(snapB, snapE) == snapB.gidB < snapE.gidB /\ snapB.gidE <= snapE.gidE

Larger(m, n) == IF m < n THEN n ELSE m

canApply(snap, d) == d.snapB.gidB <= snap.gidB /\ snap.gidB < d.snapE.gidB

\* Mutant of apply: a clean diff makes a dirty snapshot clean.
ApplyForgetsDirty(snap, d) == d.snapE

apply(snap, d) ==
    IF IsCleanDiff(d) THEN Snap(d.snapE.gidB, Larger(d.snapE.gidB, snap.gidE)) ELSE d.snapE

\* Mutant of canMerge: a gap between the two diffs is overlooked.
CanMergeOverGap(d0, d1) ==
    /\ d1.isMergeable
    /\ ~d0.isCompDiff /\ ~d1.isCompDiff
    /\ d0.snapB.gidB <= d1.snapB.gidB
    /\ d0.snapE.gidB < d1.snapE.gidB

\* Mutant of canMerge: the diff on the left is asked whether it is mergeable.
CanMergeByFirst(d0, d1) ==
    /\ d0.isMergeable
    /\ ~d0.isCompDiff /\ ~d1.isCompDiff
    /\ d0.snapB.gidB <= d1.snapB.gidB
    /\ d1.snapB.gidB <= d0.snapE.gidB
    /\ d0.snapE.gidB < d1.snapE.gidB

canMerge(d0, d1) ==
    /\ d1.isMergeable
    /\ ~d0.isCompDiff /\ ~d1.isCompDiff
    /\ d0.snapB.gidB <= d1.snapB.gidB
    /\ d1.snapB.gidB <= d0.snapE.gidB
    /\ d0.snapE.gidB < d1.snapE.gidB

\* The image with the blocks of the diff written over it.
Patch(image, data) ==
    [b \in DOMAIN image |-> IF b \in DOMAIN data THEN data[b] ELSE image[b]]

\* What DiffMerger makes of two diffs, the second being the newer one.
MergeData(data0, data1) ==
    [b \in DOMAIN data0 \cup DOMAIN data1 |-> IF b \in DOMAIN data1 THEN data1[b] ELSE data0[b]]

\* Mutant of merge: a clean right-hand diff makes the merged diff end clean.
MergeForgetsDirty(d0, d1) ==
    [snapB |-> d0.snapB, snapE |-> d1.snapE,
     isMergeable |-> d0.isMergeable, isCompDiff |-> FALSE,
     data |-> MergeData(d0.data, d1.data)]

merge(d0, d1) ==
    [snapB |-> d0.snapB,
     snapE |-> IF IsCleanDiff(d1)
               THEN Snap(d1.snapE.gidB, Larger(d1.snapE.gidB, d0.snapE.gidE))
               ELSE d1.snapE,
     isMergeable |-> d0.isMergeable, isCompDiff |-> FALSE,
     data |-> MergeData(d0.data, d1.data)]

\* MetaDiff::operator==.
SameRange(d0, d1) == d0.snapB = d1.snapB /\ d0.snapE = d1.snapE

\* Mutant of contains: an overlap is enough.
Overlaps(dC, d) == dC.snapB.gidB <= d.snapE.gidB /\ d.snapB.gidB <= dC.snapE.gidB

contains(dC, d) == dC.snapB.gidB <= d.snapB.gidB /\ d.snapE.gidB <= dC.snapE.gidB

\* MetaDiffManager::gcRange.  The diff itself is not garbage, nor is one with the same gids.
gcRange(ds, d) ==
    {e \in ds : contains(d, e) => d.snapB.gidB = e.snapB.gidB /\ d.snapE.gidB = e.snapE.gidB}

eraseBeforeGid(ds, gid) == {e \in ds : gid < e.snapE.gidB}

=============================================================================
