----------------------- MODULE GidRangeManagerProofs -----------------------
(***************************************************************************)
(* Proofs about GidRangeManager, for every set of diffs.                   *)
(*                                                                         *)
(* That each range has exactly the diffs that cover it is not enough: a    *)
(* diff that covers a part of a range would be in no list, and a gid of it *)
(* in no range.  The invariant says besides that no diff ends inside of a  *)
(* range, and that the ranges cover all the diffs.                         *)
(***************************************************************************)
EXTENDS GidRangeManager, WellFoundedInduction, TLAPS

Inside(gid, r)  == r.gidB <= gid /\ gid < r.gidE
Apart(r, q)     == r.gidE <= q.gidB \/ q.gidE <= r.gidB
Spanned(rs, gid) == \E r \in rs : Inside(gid, r)
Outside(d, r)   == r.gidE <= d.snapB.gidB \/ d.snapE.gidB <= r.gidB
CoversRange(d, r) == Covers(d, r.gidB, r.gidE)
Part(x, r)      == r.gidB <= x.gidB /\ x.gidE <= r.gidE

\* The ranges rs are an index of the diffs ds, as far as the ranges go.
Sound(rs, ds) ==
    /\ rs \subseteq GidRange
    /\ \A r \in rs : r.gidB < r.gidE /\ r.its # {}
    /\ \A r, q \in rs : r # q => Apart(r, q)
    /\ \A r \in rs : r.its = {d \in ds : CoversRange(d, r)}
    /\ \A r \in rs, d \in ds : Outside(d, r) \/ CoversRange(d, r)

\* They go far enough.
Complete(rs, ds) ==
    \A d \in ds, gid \in Nat : d.snapB.gidB <= gid /\ gid < d.snapE.gidB => Spanned(rs, gid)

\* The inductive invariant.
IInv == mmap \subseteq Diffs /\ Sound(map, mmap) /\ Complete(map, mmap)

-----------------------------------------------------------------------------
(* Numbers. *)

\* The order of the naturals as a well-founded relation.
LEMMA NatOrder ==
    \E R : IsWellFoundedOn(R, Nat) /\ \A x, y \in Nat : <<x, y>> \in R <=> x < y
<1>1. \A x, y \in Nat : <<x, y>> \in OpToRel(<, Nat) <=> x < y
  BY DEF OpToRel
<1> QED BY <1>1, NatLessThanWellFounded, Zenon

\* Every non-empty set of naturals has a least element.
LEMMA LeastNat ==
    ASSUME NEW S, S \subseteq Nat, S # {}
    PROVE  \E m \in S : \A x \in S : m <= x
<1>1. PICK R : IsWellFoundedOn(R, Nat) /\ \A x, y \in Nat : <<x, y>> \in R <=> x < y
  BY NatOrder
<1>2. IsWellFoundedOn(R, Nat)
  BY <1>1
<1>3. PICK m \in S : \A x \in S : ~(<<x, m>> \in R)
  BY <1>2, WFMin
<1>4. ASSUME NEW x \in S
      PROVE  m <= x
  <2>1. ~(x < m)
    BY <1>1, <1>3
  <2> QED BY <2>1
<1> QED BY <1>4

\* Every non-empty bounded set of naturals has a greatest element.
LEMMA GreatestNat ==
    ASSUME NEW S, S \subseteq Nat, S # {}, NEW n \in Nat, \A x \in S : x <= n
    PROVE  \E m \in S : \A x \in S : x <= m
<1> DEFINE D == {n - x : x \in S}
<1>1. D \subseteq Nat /\ D # {}
  <2>1. \A x \in S : n - x \in Nat
    OBVIOUS
  <2>2. PICK x \in S : TRUE
    OBVIOUS
  <2>3. n - x \in D
    OBVIOUS
  <2> QED BY <2>1, <2>3
<1> HIDE DEF D
<1>2. PICK d \in D : \A e \in D : d <= e
  BY <1>1, LeastNat
<1>3. PICK m \in S : d = n - m
  BY DEF D
<1>4. ASSUME NEW x \in S
      PROVE  x <= m
  <2>1. n - x \in D
    BY DEF D
  <2>2. n - m <= n - x
    BY <1>2, <1>3, <2>1
  <2> QED BY <2>2
<1> QED BY <1>4

\* The gids of a diff.
LEMMA DiffGids ==
    ASSUME NEW d \in Diffs
    PROVE  d.snapB.gidB \in Nat /\ d.snapE.gidB \in Nat /\ d.snapB.gidB < d.snapE.gidB
BY DiffsAssumption DEF MetaSnap, Progresses

-----------------------------------------------------------------------------
(* The operations on ranges. *)

Left(r, gid)  == [gidB |-> r.gidB, gidE |-> gid, its |-> r.its]
Right(r, gid) == [gidB |-> gid, gidE |-> r.gidE, its |-> r.its]
Across(r, gid) == r.gidB < gid /\ gid < r.gidE

\* The elements of a split.
LEMMA SplitElements ==
    ASSUME NEW rs \in SUBSET GidRange, NEW gid \in Nat
    PROVE  Split(rs, gid) = {r \in rs : ~Across(r, gid)}
                              \cup {Left(r, gid) : r \in {q \in rs : Across(q, gid)}}
                              \cup {Right(r, gid) : r \in {q \in rs : Across(q, gid)}}
<1>1. \A r \in rs : /\ [r EXCEPT !.gidE = gid] = Left(r, gid)
                    /\ [r EXCEPT !.gidB = gid] = Right(r, gid)
  BY DEF GidRange, Left, Right
<1> DEFINE across == {q \in rs : Across(q, gid)}
<1>2. rs \ across = {r \in rs : ~Across(r, gid)}
  OBVIOUS
<1>3. /\ {[r EXCEPT !.gidE = gid] : r \in across} = {Left(r, gid) : r \in across}
      /\ {[r EXCEPT !.gidB = gid] : r \in across} = {Right(r, gid) : r \in across}
  BY <1>1
<1>4. Split(rs, gid) = (rs \ across) \cup {[r EXCEPT !.gidE = gid] : r \in across}
                                     \cup {[r EXCEPT !.gidB = gid] : r \in across}
  BY DEF Split, Across
<1> QED BY <1>2, <1>3, <1>4, Zenon

\* A range that a split makes is a part of one that was there.
LEMMA SplitParts ==
    ASSUME NEW rs \in SUBSET GidRange, NEW gid \in Nat, NEW x \in Split(rs, gid)
    PROVE  /\ x \in GidRange
           /\ ~Across(x, gid)
           /\ \E r \in rs : /\ Part(x, r) /\ x.its = r.its
                            /\ r.gidB < r.gidE => x.gidB < x.gidE
                            /\ x # r => /\ Across(r, gid)
                                        /\ x = Left(r, gid) \/ x = Right(r, gid)
<1>1. CASE x \in rs /\ ~Across(x, gid)
  BY <1>1 DEF Part, GidRange
<1>2. CASE \E r \in rs : Across(r, gid) /\ x = Left(r, gid)
  BY <1>2 DEF Part, Left, Across, GidRange
<1>3. CASE \E r \in rs : Across(r, gid) /\ x = Right(r, gid)
  BY <1>3 DEF Part, Right, Across, GidRange
<1> QED BY <1>1, <1>2, <1>3, SplitElements

\* A split covers what was covered.
LEMMA SplitSpans ==
    ASSUME NEW rs \in SUBSET GidRange, NEW gid \in Nat, NEW h \in Nat, Spanned(rs, h)
    PROVE  Spanned(Split(rs, gid), h)
<1>1. PICK r \in rs : Inside(h, r)
  BY DEF Spanned
<1>2. CASE ~Across(r, gid)
  BY <1>1, <1>2, SplitElements DEF Spanned
<1>3. CASE Across(r, gid)
  <2>1. Left(r, gid) \in Split(rs, gid) /\ Right(r, gid) \in Split(rs, gid)
    BY <1>3, SplitElements
  <2>2. Inside(h, Left(r, gid)) \/ Inside(h, Right(r, gid))
    BY <1>1 DEF Inside, Left, Right, GidRange
  <2> QED BY <2>1, <2>2 DEF Spanned
<1> QED BY <1>2, <1>3

\* A part of a range has the diffs of the range.
LEMMA PartSound ==
    ASSUME NEW rs, NEW ds \in SUBSET Diffs, Sound(rs, ds), NEW r \in rs,
           NEW x \in GidRange, Part(x, r), x.gidB < x.gidE, x.its = r.its
    PROVE  /\ x.its # {}
           /\ x.its = {d \in ds : CoversRange(d, x)}
           /\ \A d \in ds : Outside(d, x) \/ CoversRange(d, x)
<1>1. ASSUME NEW d \in ds PROVE /\ CoversRange(d, x) <=> CoversRange(d, r)
                                /\ Outside(d, x) \/ CoversRange(d, x)
  <2>1. d.snapB.gidB \in Nat /\ d.snapE.gidB \in Nat
    BY DiffGids
  <2>2. r \in GidRange /\ (Outside(d, r) \/ CoversRange(d, r))
    BY DEF Sound
  <2> QED BY <2>1, <2>2 DEF Part, Outside, CoversRange, Covers, GidRange
<1>2. r.its # {} /\ r.its = {d \in ds : CoversRange(d, r)}
  BY DEF Sound
<1> QED BY <1>1, <1>2

LEMMA SplitSound ==
    ASSUME NEW rs, NEW ds \in SUBSET Diffs, Sound(rs, ds), NEW gid \in Nat
    PROVE  Sound(Split(rs, gid), ds)
<1> DEFINE xs == Split(rs, gid)
<1>1. rs \in SUBSET GidRange
  BY DEF Sound
<1>2. ASSUME NEW x \in xs
      PROVE  /\ x \in GidRange /\ x.gidB < x.gidE /\ x.its # {}
             /\ x.its = {d \in ds : CoversRange(d, x)}
             /\ \A d \in ds : Outside(d, x) \/ CoversRange(d, x)
  <2>1. PICK r \in rs : Part(x, r) /\ x.its = r.its /\ (r.gidB < r.gidE => x.gidB < x.gidE)
    BY <1>1, SplitParts
  <2>2. x \in GidRange
    BY <1>1, SplitParts
  <2>3. x.gidB < x.gidE
    BY <2>1 DEF Sound
  <2> QED BY <2>1, <2>2, <2>3, PartSound
<1>3. ASSUME NEW x \in xs, NEW y \in xs, x # y PROVE Apart(x, y)
  <2>1. x \in GidRange /\ y \in GidRange /\ ~Across(x, gid) /\ ~Across(y, gid)
    BY <1>1, SplitParts
  <2>2. PICK r \in rs : /\ Part(x, r)
                        /\ x # r => Across(r, gid) /\ (x = Left(r, gid) \/ x = Right(r, gid))
    BY <1>1, SplitParts
  <2>3. PICK q \in rs : /\ Part(y, q)
                        /\ y # q => Across(q, gid) /\ (y = Left(q, gid) \/ y = Right(q, gid))
    BY <1>1, SplitParts
  <2>4. CASE r # q
    <3>1. Apart(r, q) /\ r \in GidRange /\ q \in GidRange
      BY <2>4 DEF Sound
    <3> QED BY <2>1, <2>2, <2>3, <3>1 DEF Part, Apart, GidRange
  <2>5. CASE r = q
    <3>1. (x = Left(r, gid) /\ y = Right(r, gid)) \/ (x = Right(r, gid) /\ y = Left(r, gid))
      BY <1>3, <2>1, <2>2, <2>3, <2>5
    <3> QED BY <3>1 DEF Apart, Left, Right
  <2> QED BY <2>4, <2>5
<1> QED BY <1>2, <1>3 DEF Sound

-----------------------------------------------------------------------------
(* The gaps a new diff fills. *)

LEMMA GapTypes ==
    ASSUME NEW rs \in SUBSET GidRange, NEW b \in Nat, NEW e \in Nat, NEW g \in Gaps(rs, b, e)
    PROVE  /\ g[1] \in Nat /\ g[2] \in Nat /\ b <= g[1] /\ g[1] < g[2] /\ g[2] <= e
           /\ \A r \in rs : r.gidE <= g[1] \/ g[2] <= r.gidB
           /\ g[1] = b \/ \E r \in rs : g[1] = r.gidE
           /\ g[2] = e \/ \E r \in rs : g[2] = r.gidB
BY DEF Gaps, GidRange

\* Two gaps do not overlap: one that begins inside of the other begins at the
\* end of a range, which would have to be inside of the other, too.
LEMMA GapsApart ==
    ASSUME NEW rs \in SUBSET GidRange, \A r \in rs : r.gidB < r.gidE,
           NEW b \in Nat, NEW e \in Nat, NEW g \in Gaps(rs, b, e), NEW h \in Gaps(rs, b, e)
    PROVE  (g[1] = h[1] /\ g[2] = h[2]) \/ g[2] <= h[1] \/ h[2] <= g[1]
<1>1. \A r \in rs : r.gidB \in Nat /\ r.gidE \in Nat
  BY DEF GidRange
<1>2. /\ g[1] \in Nat /\ g[2] \in Nat /\ b <= g[1] /\ g[1] < g[2] /\ g[2] <= e
      /\ \A r \in rs : r.gidE <= g[1] \/ g[2] <= r.gidB
      /\ g[1] = b \/ \E r \in rs : g[1] = r.gidE
      /\ g[2] = e \/ \E r \in rs : g[2] = r.gidB
  BY GapTypes
<1>3. /\ h[1] \in Nat /\ h[2] \in Nat /\ b <= h[1] /\ h[1] < h[2] /\ h[2] <= e
      /\ \A r \in rs : r.gidE <= h[1] \/ h[2] <= r.gidB
      /\ h[1] = b \/ \E r \in rs : h[1] = r.gidE
      /\ h[2] = e \/ \E r \in rs : h[2] = r.gidB
  BY GapTypes
<1> QED BY <1>1, <1>2, <1>3

\* Every gid of the diff that no range covers is in a gap: from the last end of
\* a range before it to the first beginning of a range after it.
LEMMA GapsFill ==
    ASSUME NEW rs \in SUBSET GidRange, NEW b \in Nat, NEW e \in Nat,
           NEW gid \in Nat, b <= gid, gid < e, ~Spanned(rs, gid)
    PROVE  \E g \in Gaps(rs, b, e) : g[1] <= gid /\ gid < g[2]
<1>1. \A r \in rs : r.gidB \in Nat /\ r.gidE \in Nat /\ (r.gidE <= gid \/ gid < r.gidB)
  BY DEF Spanned, Inside, GidRange
<1> DEFINE ends   == {x \in {b} \cup {r.gidE : r \in rs} : b <= x /\ x <= gid}
           begins == {x \in {e} \cup {r.gidB : r \in rs} : gid < x /\ x <= e}
<1>2. PICK lo \in ends : \A x \in ends : x <= lo
  <2>1. ends \subseteq Nat /\ ends # {} /\ \A x \in ends : x <= gid
    BY <1>1
  <2> HIDE DEF ends
  <2> QED BY <2>1, GreatestNat
<1>3. PICK hi \in begins : \A x \in begins : hi <= x
  <2>1. begins \subseteq Nat /\ begins # {}
    BY <1>1
  <2> HIDE DEF begins
  <2> QED BY <2>1, LeastNat
<1>4. lo \in Nat /\ hi \in Nat /\ b <= lo /\ lo <= gid /\ gid < hi /\ hi <= e
  BY <1>1, <1>2, <1>3
<1>5. ASSUME NEW r \in rs PROVE r.gidE <= lo \/ hi <= r.gidB
  <2>1. CASE r.gidE <= gid
    <3>1. CASE b <= r.gidE
      BY <1>2, <2>1, <3>1
    <3>2. CASE ~(b <= r.gidE)
      BY <1>1, <1>4, <3>2
    <3> QED BY <3>1, <3>2
  <2>2. CASE gid < r.gidB
    <3>1. CASE r.gidB <= e
      BY <1>3, <2>2, <3>1
    <3>2. CASE ~(r.gidB <= e)
      BY <1>1, <1>4, <3>2
    <3> QED BY <3>1, <3>2
  <2> QED BY <1>1, <2>1, <2>2
<1>6. <<lo, hi>> \in Gaps(rs, b, e)
  <2>1. lo \in {b} \cup {r.gidE : r \in rs} /\ hi \in {e} \cup {r.gidB : r \in rs}
    BY <1>2, <1>3
  <2>2. lo < hi
    BY <1>4
  <2> QED BY <1>4, <1>5, <2>1, <2>2 DEF Gaps
<1> QED BY <1>4, <1>6

-----------------------------------------------------------------------------
(* The actions. *)

\* Add: the ranges that are left alone, the parts of those that are hit, and
\* the gaps between them are together an index with the new diff.
LEMMA AddStep ==
    ASSUME IInv, NEW d \in Diffs, Add(d)
    PROVE  IInv'
<1> DEFINE b == d.snapB.gidB
           e == d.snapE.gidB
           hit == getRange(b, e)
           rest == map \ hit
           cut == Split(Split(hit, b), e)
           inside == {r \in cut : b <= r.gidB /\ r.gidE <= e}
           outer == cut \ inside
           With(r) == [r EXCEPT !.its = @ \cup {d}]
           inner == {With(r) : r \in inside}
           NewRange(g) == [gidB |-> g[1], gidE |-> g[2], its |-> {d}]
           gaps == {NewRange(g) : g \in Gaps(hit, b, e)}
           all == mmap \cup {d}
<1>1. b \in Nat /\ e \in Nat /\ b < e /\ \A c \in all : c \in Diffs
  BY DiffGids DEF IInv
<1>2. mmap' = all /\ map' = rest \cup (outer \cup inner \cup gaps)
  BY DEF Add, mergeRange
<1>3. Sound(map, mmap) /\ Complete(map, mmap) /\ map \subseteq GidRange /\ mmap \in SUBSET Diffs
  BY DEF IInv, Sound
<1>4. hit \subseteq map /\ \A r \in map : r \in hit <=> b < r.gidE /\ r.gidB < e
  BY DEF getRange
<1>5. Sound(hit, mmap) /\ hit \in SUBSET GidRange
  BY <1>3, <1>4 DEF Sound
<1> HIDE DEF hit, rest, cut, inside, outer, inner, gaps, b, e, all, With, NewRange
<1>6. Sound(Split(hit, b), mmap) /\ Split(hit, b) \in SUBSET GidRange
  BY <1>1, <1>3, <1>5, SplitSound DEF Sound
<1>7. Sound(cut, mmap) /\ cut \in SUBSET GidRange
  BY <1>1, <1>3, <1>6, SplitSound DEF Sound, cut
\* The parts lie in ranges that are hit, and end where the diff ends.
<1>8. ASSUME NEW x \in cut
      PROVE  /\ x.gidE <= b \/ e <= x.gidB \/ (b <= x.gidB /\ x.gidE <= e)
             /\ \E r \in hit : Part(x, r)
  <2>1. ~Across(x, e) /\ x.gidB \in Nat /\ x.gidE \in Nat /\ x.gidB < x.gidE
    BY <1>1, <1>6, <1>7, SplitParts DEF cut, Sound, GidRange
  <2>2. PICK y \in Split(hit, b) : Part(x, y)
    BY <1>1, <1>6, SplitParts DEF cut
  <2>3. ~Across(y, b) /\ y.gidB \in Nat /\ y.gidE \in Nat
    BY <1>1, <1>5, <1>6, SplitParts DEF GidRange
  <2>4. PICK r \in hit : Part(y, r)
    BY <1>1, <1>5, SplitParts
  <2>5. r.gidB \in Nat /\ r.gidE \in Nat
    BY <1>5 DEF GidRange
  <2> QED BY <1>1, <2>1, <2>2, <2>3, <2>4, <2>5 DEF Across, Part
<1>9. ASSUME NEW gid \in Nat, Spanned(hit, gid) PROVE Spanned(outer \cup inner, gid)
  <2>1. Spanned(cut, gid)
    BY <1>1, <1>5, <1>6, <1>9, SplitSpans DEF cut
  <2>2. PICK x \in cut : Inside(gid, x)
    BY <2>1 DEF Spanned
  <2>3. CASE x \in inside
    <3>1. With(x) \in inner /\ Inside(gid, With(x))
      BY <1>7, <2>2, <2>3 DEF inner, With, Inside, GidRange
    <3> QED BY <3>1 DEF Spanned
  <2>4. CASE x \notin inside
    BY <2>2, <2>4 DEF Spanned, outer
  <2> QED BY <2>3, <2>4
\* The four kinds of ranges.
<1>10. ASSUME NEW r \in rest \cup outer
       PROVE  /\ r \in GidRange /\ r.gidB < r.gidE /\ r.its # {}
              /\ Outside(d, r)
              /\ r.its = {c \in mmap : CoversRange(c, r)}
              /\ \A c \in mmap : Outside(c, r) \/ CoversRange(c, r)
  <2>1. CASE r \in rest
    <3>1. r \in map /\ r \notin hit
      BY <2>1 DEF rest
    <3>2. r \in GidRange /\ r.gidB < r.gidE
      BY <1>3, <3>1 DEF Sound
    <3>3. Outside(d, r)
      BY <1>1, <1>4, <3>1, <3>2 DEF Outside, GidRange, b, e
    <3> QED BY <1>3, <3>1, <3>3 DEF Sound
  <2>2. CASE r \in outer
    <3>1. r \in cut /\ r \notin inside
      BY <2>2 DEF outer
    <3>2. Outside(d, r)
      BY <1>8, <3>1 DEF inside, Outside, b, e
    <3> QED BY <1>7, <3>1, <3>2 DEF Sound
  <2> QED BY <2>1, <2>2
<1>11. ASSUME NEW r \in inner
       PROVE  \E x \in inside : /\ x \in cut /\ r = With(x)
                                /\ r \in GidRange /\ r.gidB = x.gidB /\ r.gidE = x.gidE
                                /\ r.its = x.its \cup {d}
  <2>1. PICK x \in inside : r = With(x)
    BY DEF inner
  <2>2. x \in cut /\ x \in GidRange
    BY <1>7 DEF inside
  <2> QED BY <2>1, <2>2 DEF With, GidRange
<1>12. ASSUME NEW r \in gaps
       PROVE  \E g \in Gaps(hit, b, e) :
                r = NewRange(g) /\ r.gidB = g[1] /\ r.gidE = g[2] /\ r.its = {d}
  BY DEF gaps, NewRange
<1>13. ASSUME NEW r \in gaps
       PROVE  /\ r.gidB \in Nat /\ r.gidE \in Nat /\ r \in GidRange
              /\ b <= r.gidB /\ r.gidB < r.gidE /\ r.gidE <= e
              /\ \A q \in hit : Apart(q, r)
  BY <1>1, <1>5, <1>12, GapTypes DEF Apart, GidRange, NewRange
\* None of the other diffs touches a gap: it would have a range there.
<1>14. ASSUME NEW r \in gaps, NEW c \in mmap PROVE Outside(c, r)
  <2> SUFFICES ASSUME ~Outside(c, r) PROVE FALSE
    OBVIOUS
  <2>1. c.snapB.gidB \in Nat /\ c.snapE.gidB \in Nat
    BY <1>3, DiffGids
  <2>2. PICK gid \in Nat : /\ c.snapB.gidB <= gid /\ gid < c.snapE.gidB
                           /\ r.gidB <= gid /\ gid < r.gidE
    <3>1. CASE c.snapB.gidB <= r.gidB
      BY <1>13, <2>1, <3>1 DEF Outside
    <3>2. CASE r.gidB < c.snapB.gidB
      <4>1. c.snapB.gidB < c.snapE.gidB
        BY <1>3, DiffGids
      <4> QED BY <1>13, <2>1, <3>2, <4>1 DEF Outside
    <3> QED BY <1>13, <2>1, <3>1, <3>2
  <2>3. PICK q \in map : Inside(gid, q)
    BY <1>3, <2>2 DEF Complete, Spanned
  <2>4. q.gidB \in Nat /\ q.gidE \in Nat
    BY <1>3 DEF GidRange
  <2>5. q \in hit
    BY <1>1, <1>4, <1>13, <2>2, <2>3, <2>4 DEF Inside
  <2> QED BY <1>13, <2>2, <2>3, <2>4, <2>5 DEF Inside, Apart
<1> DEFINE new == rest \cup (outer \cup inner \cup gaps)
<1>15. ASSUME NEW r \in new
       PROVE  /\ r \in GidRange /\ r.gidB < r.gidE /\ r.its # {}
              /\ r.its = {c \in all : CoversRange(c, r)}
              /\ \A c \in all : Outside(c, r) \/ CoversRange(c, r)
  <2>1. CASE r \in rest \cup outer
    <3>1. r.gidB \in Nat /\ r.gidE \in Nat /\ r.gidB < r.gidE
      BY <1>10, <2>1 DEF GidRange
    <3>2. ~CoversRange(d, r) /\ Outside(d, r)
      BY <1>1, <1>10, <2>1, <3>1 DEF CoversRange, Covers, Outside, b, e
    <3> QED BY <1>10, <2>1, <3>2 DEF all
  <2>2. CASE r \in inner
    <3>1. PICK x \in inside : /\ x \in cut /\ r \in GidRange /\ r.gidB = x.gidB /\ r.gidE = x.gidE
                              /\ r.its = x.its \cup {d}
      BY <1>11, <2>2
    <3>2. CoversRange(d, r)
      BY <3>1 DEF inside, CoversRange, Covers, b, e
    <3>3. /\ x.gidB < x.gidE /\ x.its = {c \in mmap : CoversRange(c, x)}
          /\ \A c \in mmap : Outside(c, x) \/ CoversRange(c, x)
      BY <1>7, <3>1 DEF Sound
    <3>4. \A c \in mmap : /\ CoversRange(c, x) <=> CoversRange(c, r)
                          /\ Outside(c, x) <=> Outside(c, r)
      BY <3>1 DEF CoversRange, Covers, Outside
    <3> QED BY <3>1, <3>2, <3>3, <3>4 DEF all
  <2>3. CASE r \in gaps
    <3>1. CoversRange(d, r) /\ r.its = {d}
      BY <1>12, <1>13, <2>3 DEF CoversRange, Covers, b, e
    <3>2. ASSUME NEW c \in mmap PROVE Outside(c, r) /\ ~CoversRange(c, r)
      <4>1. c.snapB.gidB \in Nat /\ c.snapE.gidB \in Nat
        BY <1>3, DiffGids
      <4> QED BY <1>13, <1>14, <2>3, <4>1 DEF Outside, CoversRange, Covers
    <3> QED BY <1>13, <2>3, <3>1, <3>2 DEF all
  <2> QED BY <2>1, <2>2, <2>3
<1>16. ASSUME NEW r \in new, NEW q \in new, r # q PROVE Apart(r, q)
  <2>0. ASSUME NEW x \in new PROVE x.gidB \in Nat /\ x.gidE \in Nat /\ x.gidB < x.gidE
    BY <1>15 DEF GidRange
  <2>1. ASSUME NEW x \in rest, NEW y \in rest, x # y PROVE Apart(x, y)
    BY <1>3, <2>1 DEF rest, Sound
  \* A range of cut, up to its list, for each one of the middle kinds.
  <2>2. ASSUME NEW y \in outer \cup inner
        PROVE  \E x \in cut : /\ y.gidB = x.gidB /\ y.gidE = x.gidE
                              /\ (y \in outer => y = x)
                              /\ (y \in inner => y = With(x) /\ x \in inside)
    BY <1>11 DEF outer, inside
  <2>3. ASSUME NEW x \in rest, NEW y \in outer \cup inner PROVE Apart(x, y)
    <3>1. PICK z \in cut : y.gidB = z.gidB /\ y.gidE = z.gidE
      BY <2>2
    <3>2. PICK h \in hit : Part(z, h)
      BY <1>8
    <3>3. Apart(x, h) /\ h \in GidRange
      BY <1>3, <1>4, <1>5 DEF rest, Sound
    <3> QED BY <2>0, <3>1, <3>2, <3>3 DEF Apart, Part, GidRange
  <2>4. ASSUME NEW x \in rest, NEW y \in gaps PROVE Apart(x, y)
    <3>1. Outside(d, x)
      BY <1>10
    <3> QED BY <1>1, <1>13, <2>0, <3>1 DEF Apart, Outside, b, e
  <2>5. ASSUME NEW x \in outer \cup inner, NEW y \in outer \cup inner, x # y PROVE Apart(x, y)
    <3>1. PICK u \in cut : /\ x.gidB = u.gidB /\ x.gidE = u.gidE
                           /\ (x \in outer => x = u) /\ (x \in inner => x = With(u) /\ u \in inside)
      BY <2>2
    <3>2. PICK v \in cut : /\ y.gidB = v.gidB /\ y.gidE = v.gidE
                           /\ (y \in outer => y = v) /\ (y \in inner => y = With(v) /\ v \in inside)
      BY <2>2
    <3>3. u # v
      BY <2>5, <3>1, <3>2 DEF outer
    <3> QED BY <1>7, <3>1, <3>2, <3>3 DEF Sound, Apart
  <2>6. ASSUME NEW x \in outer \cup inner, NEW y \in gaps PROVE Apart(x, y)
    <3>1. PICK z \in cut : x.gidB = z.gidB /\ x.gidE = z.gidE
      BY <2>2
    <3>2. PICK h \in hit : Part(z, h)
      BY <1>8
    <3>3. Apart(h, y) /\ h \in GidRange
      BY <1>5, <1>13
    <3> QED BY <2>0, <3>1, <3>2, <3>3 DEF Apart, Part, GidRange
  <2>7. ASSUME NEW x \in gaps, NEW y \in gaps, x # y PROVE Apart(x, y)
    <3>1. PICK g \in Gaps(hit, b, e) : x = NewRange(g) /\ x.gidB = g[1] /\ x.gidE = g[2]
      BY <1>12
    <3>2. PICK h \in Gaps(hit, b, e) : y = NewRange(h) /\ y.gidB = h[1] /\ y.gidE = h[2]
      BY <1>12
    <3>3. \A z \in hit : z.gidB < z.gidE
      BY <1>5 DEF Sound
    <3>4. (g[1] = h[1] /\ g[2] = h[2]) \/ g[2] <= h[1] \/ h[2] <= g[1]
      BY <1>1, <1>5, <3>3, GapsApart
    <3> QED BY <2>7, <3>1, <3>2, <3>4 DEF Apart, NewRange
  <2>8. \A x, y : Apart(x, y) => Apart(y, x)
    BY DEF Apart
  <2> QED BY <1>16, <2>1, <2>3, <2>4, <2>5, <2>6, <2>7, <2>8
<1>17. Sound(new, all)
  <2> HIDE DEF new
  <2> QED BY <1>15, <1>16 DEF Sound
<1>18. Complete(new, all)
  <2> SUFFICES ASSUME NEW c \in all, NEW gid \in Nat, c.snapB.gidB <= gid, gid < c.snapE.gidB
               PROVE  Spanned(new, gid)
    BY DEF Complete
  <2>1. CASE Spanned(hit, gid)
    BY <1>9, <2>1 DEF Spanned
  <2>2. CASE ~Spanned(hit, gid)
    <3>1. CASE c \in mmap
      <4>1. PICK r \in map : Inside(gid, r)
        BY <1>3, <3>1 DEF Complete, Spanned
      <4>2. r \in rest
        BY <2>2, <4>1 DEF Spanned, rest
      <4> QED BY <4>1, <4>2 DEF Spanned
    <3>2. CASE c = d
      <4>1. b <= gid /\ gid < e
        BY <3>2 DEF b, e
      <4>2. PICK g \in Gaps(hit, b, e) : g[1] <= gid /\ gid < g[2]
        BY <1>1, <1>5, <2>2, <4>1, GapsFill
      <4>3. NewRange(g) \in gaps /\ Inside(gid, NewRange(g))
        BY <4>2 DEF gaps, NewRange, Inside
      <4> QED BY <4>3 DEF Spanned
    <3> QED BY <3>1, <3>2 DEF all
  <2> QED BY <2>1, <2>2
<1>19. all \subseteq Diffs
  BY <1>1
<1>20. Sound(map', mmap') /\ Complete(map', mmap') /\ mmap' \subseteq Diffs
  BY <1>2, <1>17, <1>18, <1>19
<1> QED BY <1>20 DEF IInv, Sound, Complete, Spanned, Inside, Apart, Outside, CoversRange

\* The ranges remove walks through are at least those the diff covers.
LEMMA EraseStep ==
    ASSUME IInv, NEW d \in Diffs, Erase(d)
    PROVE  IInv'
<1> DEFINE Less(r) == [r EXCEPT !.its = @ \ {d}]
           rest == map \ Walked(d)
           thin == {r \in {Less(q) : q \in Walked(d)} : r.its # {}}
           new == rest \cup thin
           left == mmap \ {d}
<1>1. Sound(map, mmap) /\ Complete(map, mmap) /\ map \subseteq GidRange /\ mmap \subseteq Diffs
  BY DEF IInv, Sound
<1>2. map' = new /\ mmap' = left
  BY DEF Erase
<1>3. Walked(d) \subseteq map
  BY DEF Walked
<1>4. ASSUME NEW r \in map, d \in r.its PROVE r \in Walked(d)
  <2>1. CoversRange(d, r) /\ r \in GidRange /\ r.gidB < r.gidE
    BY <1>1, <1>4 DEF Sound
  <2>2. d.snapB.gidB \in Nat /\ d.snapE.gidB \in Nat
    BY DiffGids
  <2>3. \A q \in map : q.gidE \in Nat
    BY <1>1 DEF GidRange
  <2> QED BY <2>1, <2>2, <2>3 DEF Walked, CoversRange, Covers, GidRange
\* Every new range is an old one without the diff, and every old one that has
\* another diff is still there.
<1>5. ASSUME NEW r \in new
      PROVE  \E q \in map : /\ r \in GidRange /\ r.gidB = q.gidB /\ r.gidE = q.gidE
                            /\ r.its = q.its \ {d} /\ r.its # {}
                            /\ r = Less(q)
  <2>1. CASE r \in rest
    <3>1. r \in map /\ d \notin r.its /\ r \in GidRange /\ r.its # {}
      BY <1>1, <1>4, <2>1 DEF Sound
    <3>2. r.its \ {d} = r.its
      BY <3>1
    <3>3. Less(r) = r
      BY <3>1, <3>2 DEF GidRange
    <3> QED BY <3>1, <3>2, <3>3
  <2>2. CASE r \in thin
    <3>1. PICK q \in Walked(d) : r = Less(q)
      BY <2>2
    <3>2. q \in GidRange /\ q \in map
      BY <1>1, <1>3
    <3>3. r.its # {}
      BY <2>2
    <3> QED BY <3>1, <3>2, <3>3 DEF GidRange
  <2> QED BY <2>1, <2>2
<1>6. ASSUME NEW q \in map, q.its \ {d} # {}
      PROVE  \E r \in new : r.gidB = q.gidB /\ r.gidE = q.gidE
  <2>1. CASE q \in Walked(d)
    <3>1. q \in GidRange
      BY <1>1
    <3>2. Less(q).its = q.its \ {d} /\ Less(q).gidB = q.gidB /\ Less(q).gidE = q.gidE
      BY <3>1 DEF GidRange
    <3>3. Less(q) \in thin
      BY <1>6, <2>1, <3>2
    <3> QED BY <3>2, <3>3
  <2>2. CASE q \notin Walked(d)
    BY <2>2
  <2> QED BY <2>1, <2>2
<1> HIDE DEF new, rest, thin, Less
<1>7. ASSUME NEW r \in new
      PROVE  /\ r \in GidRange /\ r.gidB < r.gidE /\ r.its # {}
             /\ r.its = {c \in left : CoversRange(c, r)}
             /\ \A c \in left : Outside(c, r) \/ CoversRange(c, r)
  <2>1. PICK q \in map : /\ r \in GidRange /\ r.gidB = q.gidB /\ r.gidE = q.gidE
                         /\ r.its = q.its \ {d} /\ r.its # {}
    BY <1>5
  <2>2. /\ q.gidB < q.gidE /\ q.its = {c \in mmap : CoversRange(c, q)}
        /\ \A c \in mmap : Outside(c, q) \/ CoversRange(c, q)
    BY <1>1 DEF Sound
  <2>3. \A c \in mmap : /\ CoversRange(c, q) <=> CoversRange(c, r)
                        /\ Outside(c, q) <=> Outside(c, r)
    BY <2>1 DEF CoversRange, Covers, Outside
  <2> QED BY <2>1, <2>2, <2>3
<1>8. ASSUME NEW r \in new, NEW s \in new, r # s PROVE Apart(r, s)
  <2>1. PICK q \in map : r.gidB = q.gidB /\ r.gidE = q.gidE /\ r = Less(q)
    BY <1>5
  <2>2. PICK p \in map : s.gidB = p.gidB /\ s.gidE = p.gidE /\ s = Less(p)
    BY <1>5
  <2>3. q # p
    BY <1>8, <2>1, <2>2
  <2>4. Apart(q, p)
    BY <1>1, <2>3 DEF Sound
  <2> QED BY <2>1, <2>2, <2>4 DEF Apart
<1>9. Sound(new, left)
  BY <1>7, <1>8 DEF Sound
<1>10. Complete(new, left)
  <2> SUFFICES ASSUME NEW c \in left, NEW gid \in Nat, c.snapB.gidB <= gid, gid < c.snapE.gidB
               PROVE  Spanned(new, gid)
    BY DEF Complete
  <2>1. PICK q \in map : Inside(gid, q)
    BY <1>1 DEF Complete, Spanned
  <2>2. c \in Diffs /\ c.snapB.gidB \in Nat /\ c.snapE.gidB \in Nat /\ q \in GidRange
    BY <1>1, DiffGids
  <2>3. c \in q.its
    <3>1. ~Outside(c, q)
      BY <2>1, <2>2 DEF Outside, Inside, GidRange
    <3> QED BY <1>1, <3>1 DEF Sound
  <2>4. PICK r \in new : r.gidB = q.gidB /\ r.gidE = q.gidE
    BY <1>6, <2>3
  <2> QED BY <2>1, <2>4 DEF Spanned, Inside
<1>11. Sound(map', mmap') /\ Complete(map', mmap') /\ mmap' \subseteq Diffs
  BY <1>1, <1>2, <1>9, <1>10
<1> QED BY <1>11 DEF IInv, Sound, Complete, Spanned, Inside, Apart, Outside, CoversRange

-----------------------------------------------------------------------------
(* The theorems. *)

\* The invariant holds initially, is kept, and so holds always.
LEMMA Invariance == Spec => []IInv
<1>1. Init => IInv
  BY DEF Init, IInv, Sound, Complete
<1>2. IInv /\ [Next]_vars => IInv'
  <2> SUFFICES ASSUME IInv, [Next]_vars PROVE IInv'
    OBVIOUS
  <2>1. ASSUME NEW d \in Diffs, Add(d) PROVE IInv'
    BY <2>1, AddStep
  <2>2. ASSUME NEW d \in Diffs, Erase(d) PROVE IInv'
    BY <2>2, EraseStep
  <2>3. CASE Clear
    BY <2>3 DEF Clear, IInv, Sound, Complete
  <2>4. CASE UNCHANGED vars
    BY <2>4 DEF vars, IInv, Sound, Complete, Spanned, Inside, Apart, Outside, CoversRange
  <2> QED BY <2>1, <2>2, <2>3, <2>4 DEF Next
<1> QED BY <1>1, <1>2, PTL DEF Spec

\* A search finds the diffs whose range the gid lies in, and no others.
LEMMA SearchFinds ==
    ASSUME IInv, NEW gid \in Nat
    PROVE  search(gid) = {d \in mmap : Covers(d, gid, gid + 1)}
<1>1. Sound(map, mmap) /\ Complete(map, mmap) /\ map \subseteq GidRange /\ mmap \subseteq Diffs
  BY DEF IInv, Sound
<1>2. \A r \in map : r.gidB \in Nat /\ r.gidE \in Nat /\ r.gidB < r.gidE
  BY <1>1 DEF Sound, GidRange
<1>3. \A d \in mmap : d.snapB.gidB \in Nat /\ d.snapE.gidB \in Nat
  BY <1>1, DiffGids
<1>4. ASSUME NEW d \in search(gid) PROVE d \in mmap /\ Covers(d, gid, gid + 1)
  <2>1. PICK r \in First(gid) : r.gidB <= gid /\ d \in r.its
    BY DEF search
  <2>2. r \in map /\ gid < r.gidE
    BY DEF First
  <2>3. d \in mmap /\ CoversRange(d, r)
    BY <1>1, <2>1, <2>2 DEF Sound
  <2> QED BY <1>2, <1>3, <2>1, <2>2, <2>3 DEF CoversRange, Covers
<1>5. ASSUME NEW d \in mmap, Covers(d, gid, gid + 1) PROVE d \in search(gid)
  <2>1. PICK r \in map : Inside(gid, r)
    BY <1>1, <1>3, <1>5 DEF Complete, Spanned, Covers
  <2>2. ASSUME NEW q \in map, gid < q.gidE PROVE r.gidE <= q.gidE
    <3>1. r = q \/ Apart(r, q)
      BY <1>1 DEF Sound
    <3> QED BY <1>2, <2>1, <2>2, <3>1 DEF Apart, Inside
  <2>3. r \in First(gid) /\ r.gidB <= gid
    BY <2>1, <2>2 DEF First, Inside
  <2>4. d \in r.its
    <3>1. ~Outside(d, r)
      BY <1>2, <1>3, <1>5, <2>1 DEF Outside, Covers, Inside
    <3> QED BY <1>1, <3>1 DEF Sound
  <2> QED BY <2>3, <2>4 DEF search
<1> QED BY <1>4, <1>5

\* After any additions and removals of overlapping diffs the index of
\* MetaDiffManager is sound, and search(gid) answers what a look at all the
\* diffs would.
THEOREM IndexExact == Spec => []SearchExact
<1>1. IInv => SearchExact
  <2> SUFFICES ASSUME IInv PROVE SearchExact
    OBVIOUS
  <2>1. RangesExact
    BY DEF IInv, Sound, RangesExact, CoversRange, Apart
  <2>2. ASSUME NEW d \in Diffs, NEW gid \in d.snapB.gidB .. d.snapE.gidB PROVE gid \in Nat
    BY DiffGids
  <2>3. \A gid \in UNION {d.snapB.gidB .. d.snapE.gidB : d \in Diffs} : gid \in Nat
    BY <2>2
  <2> QED BY <2>1, <2>3, SearchFinds DEF SearchExact
<1> QED BY <1>1, Invariance, PTL

\* The diffs and the ranges keep their types.
THEOREM TypeCorrect == Spec => []TypeOK
<1>1. IInv => TypeOK
  BY DEF IInv, Sound, TypeOK
<1> QED BY <1>1, Invariance, PTL

=============================================================================
