--------------------------- MODULE GidRangeManager ---------------------------
(***************************************************************************)
(* The index of MetaDiffManager (meta.cpp).  All the diffs of a volume are *)
(* in a multimap; GidRangeManager cuts the gids into ranges and keeps with *)
(* every range the diffs that cover it, so that the diffs applicable to a  *)
(* snapshot are found with one search.                                     *)
(*                                                                         *)
(* A range is added with the diffs that need it and is never joined with a *)
(* neighbour again.  Every operation of MetaDiffManager that changes the   *)
(* diffs is a sequence of the three actions below, under one lock: gc and  *)
(* reset clear the index and add diffs, erase, gcRange and eraseBeforeGid  *)
(* remove one diff after the other.                                        *)
(***************************************************************************)
EXTENDS Meta

CONSTANT Diffs      \* the diffs a volume may have, as pairs of snapshots

ASSUME DiffsAssumption ==
    \A d \in Diffs : /\ d.snapB \in MetaSnap /\ d.snapE \in MetaSnap
                     /\ Progresses(d.snapB, d.snapE)

VARIABLES
    mmap,           \* the diffs
    map             \* the ranges: gidB, gidE, the key, and its, the diffs that cover it

vars == <<mmap, map>>

GidRange == [gidB : Nat, gidE : Nat, its : SUBSET Diffs]

Covers(d, gidB, gidE) == d.snapB.gidB <= gidB /\ gidE <= d.snapE.gidB

-----------------------------------------------------------------------------
getRange(gidB, gidE) == {r \in map : gidB < r.gidE /\ r.gidB < gidE}

\* The ranges with gid strictly inside one of them cut in two.
Split(rs, gid) ==
    LET across == {r \in rs : r.gidB < gid /\ gid < r.gidE}
    IN  (rs \ across) \cup {[r EXCEPT !.gidE = gid] : r \in across}
                      \cup {[r EXCEPT !.gidB = gid] : r \in across}

\* The parts of gidB .. gidE that no range of rs covers.
Gaps(rs, gidB, gidE) ==
    {g \in ({gidB} \cup {r.gidE : r \in rs}) \X ({gidE} \cup {r.gidB : r \in rs}) :
        /\ gidB <= g[1] /\ g[1] < g[2] /\ g[2] <= gidE
        /\ \A r \in rs : r.gidE <= g[1] \/ g[2] <= r.gidB}

\* Mutant of merge: the ranges are not cut at the end of the new diff.
MergeUncutEnd(rs, d) ==
    LET gidB == d.snapB.gidB
        gidE == d.snapE.gidB
        cut  == Split(rs, gidB)
        inside == {r \in cut : gidB <= r.gidB}
    IN  (cut \ inside) \cup {[r EXCEPT !.its = @ \cup {d}] : r \in inside}
                       \cup {[gidB |-> g[1], gidE |-> g[2], its |-> {d}] : g \in Gaps(rs, gidB, gidE)}

\* GidRangeManager::merge of the overlapped ranges with the range of a diff.
mergeRange(rs, d) ==
    LET gidB == d.snapB.gidB
        gidE == d.snapE.gidB
        cut  == Split(Split(rs, gidB), gidE)
        inside == {r \in cut : gidB <= r.gidB /\ r.gidE <= gidE}
    IN  (cut \ inside) \cup {[r EXCEPT !.its = @ \cup {d}] : r \in inside}
                       \cup {[gidB |-> g[1], gidE |-> g[2], its |-> {d}] : g \in Gaps(rs, gidB, gidE)}

\* The ranges remove comes through: from the one that ends after snapB.gidB to
\* the one with which snapE.gidB is reached.
Walked(d) ==
    {r \in map : /\ d.snapB.gidB < r.gidE
                 /\ \A q \in map : d.snapB.gidB < q.gidE /\ q.gidE < r.gidE => q.gidE < d.snapE.gidB}

\* search: the range with the smallest key above gid, if it begins early enough.
First(gid) == {r \in map : gid < r.gidE /\ \A q \in map : gid < q.gidE => r.gidE <= q.gidE}

search(gid) == UNION {r.its : r \in {q \in First(gid) : q.gidB <= gid}}

-----------------------------------------------------------------------------
\* addNolock; it throws when the diff exists.
Add(d) ==
    LET hit == getRange(d.snapB.gidB, d.snapE.gidB)
    IN  /\ \A e \in mmap : ~SameRange(d, e)
        /\ mmap' = mmap \cup {d}
        /\ map' = (map \ hit) \cup mergeRange(hit, d)

\* eraseNolock; it does nothing when the diff does not exist.
Erase(d) ==
    /\ d \in mmap
    /\ mmap' = mmap \ {d}
    /\ map' = (map \ Walked(d)) \cup {r \in {[q EXCEPT !.its = @ \ {d}] : q \in Walked(d)} : r.its # {}}

Clear == mmap' = {} /\ map' = {}

Init == mmap = {} /\ map = {}

Next ==
    \/ \E d \in Diffs : Add(d) \/ Erase(d)
    \/ Clear

Spec == Init /\ [][Next]_vars

-----------------------------------------------------------------------------
(* Properties. *)

TypeOK == mmap \subseteq Diffs /\ map \subseteq GidRange

\* validateForTest and the assertion of putRange: the ranges do not overlap, so
\* that keys are unique, none is empty, and each has exactly the diffs that
\* cover it.
RangesExact ==
    /\ \A r \in map : r.gidB < r.gidE /\ r.its # {}
    /\ \A r, q \in map : r # q => r.gidE <= q.gidB \/ q.gidE <= r.gidB
    /\ \A r \in map : r.its = {d \in mmap : Covers(d, r.gidB, r.gidE)}

\* What every query relies on: after any additions and removals of overlapping
\* diffs the index is sound, and a search for gid finds the diffs that begin at
\* or before gid and end after it, and no others.
SearchExact ==
    /\ RangesExact
    /\ \A gid \in UNION {d.snapB.gidB .. d.snapE.gidB : d \in Diffs} :
            search(gid) = {d \in mmap : Covers(d, gid, gid + 1)}

=============================================================================
