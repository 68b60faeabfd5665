------------------------- MODULE WlogTransferProofs -------------------------
(***************************************************************************)
(* Proofs about WlogTransfer, for every set of logpack sizes, every set of *)
(* values of maxWlogSendPb and every bound.                                *)
(*                                                                         *)
(* The safety properties are not inductive by themselves.  What carries    *)
(* them is how the queue, the done record and the locals of a running      *)
(* transfer hang together: IInv below.                                     *)
(***************************************************************************)
EXTENDS WlogTransfer, WellFoundedInduction, TLAPS

\* A queue ordered by gid and lsid, at whose place in the order the record rec
\* stands; its newest record is not older than rec.
Ordered(q, rec) ==
    /\ \A i, j \in 1 .. Len(q) : i < j => q[i].gid < q[j].gid /\ q[i].lsid <= q[j].lsid
    /\ \A i \in 1 .. Len(q) : IF q[i].gid <= rec.gid THEN q[i].lsid <= rec.lsid
                                                      ELSE q[i].lsid >= rec.lsid
    /\ q # <<>> => rec.gid <= q[Len(q)].gid

\* Every snapshot is at a boundary between logpacks.
OnBoundary(q) == \A i \in 1 .. Len(q) : q[i].lsid \in packs

Elems(q) == {q[i] : i \in 1 .. Len(q)}

DeviceInv ==
    /\ latest \in packs /\ permanent \in packs
    /\ \A b \in packs : b <= latest

FilesInv ==
    /\ done.lsid \in packs /\ done.lsid <= permanent
    /\ oldest <= done.lsid
    /\ Ordered(queue, done)
    /\ OnBoundary(queue)

\* The range of a running transfer: it starts at the done record, heads for a
\* record of the queue, passes over mergeable records only, and is cut before
\* that record only if it is the next one and a gid is free in between.
RangeInv(recB, recE, limit, q) ==
    /\ recE \in Elems(q)
    /\ recB.gid < recE.gid
    /\ recB.lsid <= limit /\ limit <= recE.lsid /\ limit <= permanent
    /\ limit # recE.lsid => recB.gid + 1 < recE.gid
    /\ \A r \in Elems(q) : recB.gid < r.gid /\ r.gid < recE.gid =>
            r.isMergeable /\ limit = recE.lsid

TransferInv ==
    /\ pc \in {"send", "ack"} => rec0 = done /\ RangeInv(rec0, rec1, lsidLimit, queue)
    /\ pc = "ack" =>
            /\ lsidE \in packs /\ rec0.lsid <= lsidE /\ lsidE <= lsidLimit
            /\ lsidE # rec1.lsid => lsidLimit # rec1.lsid
            /\ getTransferDiff(rec0, rec1, lsidE) \in delivered
    /\ pc = "trim" => done = DoneRecord(rec0, rec1, lsidE)

\* An explicit snapshot has been passed or is still in the queue, and nothing
\* delivered goes beyond the newest snapshot.
HistoryInv ==
    /\ \A s \in snaps :
            \/ s.gid <= done.gid /\ s.lsid <= done.lsid
            \/ s \in Elems(queue) /\ ~s.isMergeable
    /\ \A d \in delivered : d.gidE <= LatestSnap(queue, done).gid /\ d.lsidE <= latest

\* The inductive invariant.
IInv == TypeOK /\ DeviceInv /\ FilesInv /\ TransferInv /\ HistoryInv /\ SnapshotsExact

-----------------------------------------------------------------------------
(* Arithmetic and sequences. *)

\* The order of the naturals as a well-founded relation.
LEMMA NatOrder ==
    \E R : IsWellFoundedOn(R, Nat) /\ \A x, y \in Nat : <<x, y>> \in R <=> x < y
<1>1. \A x, y \in Nat : <<x, y>> \in OpToRel(<, Nat) <=> x < y
  BY DEF OpToRel
<1> QED BY <1>1, NatLessThanWellFounded, Zenon

\* Every non-empty set of naturals has a least element.
LEMMA LeastNat ==
    ASSUME NEW S, S \subseteq Nat, S # {}
    PROVE  \E m \in S : \A x \in S : m <= x
<1>1. PICK R : IsWellFoundedOn(R, Nat) /\ \A x, y \in Nat : <<x, y>> \in R <=> x < y
  BY NatOrder
<1>2. IsWellFoundedOn(R, Nat)
  BY <1>1
<1>3. PICK m \in S : \A x \in S : ~(<<x, m>> \in R)
  BY <1>2, WFMin
<1>4. ASSUME NEW x \in S
      PROVE  m <= x
  <2>1. ~(x < m)
    BY <1>1, <1>3
  <2> QED BY <2>1
<1> QED BY <1>4

\* Every non-empty bounded set of naturals has a greatest element.
LEMMA GreatestNat ==
    ASSUME NEW S, S \subseteq Nat, S # {}, NEW n \in Nat, \A x \in S : x <= n
    PROVE  \E m \in S : \A x \in S : x <= m
<1> DEFINE D == {n - x : x \in S}
<1>1. D \subseteq Nat /\ D # {}
  <2>1. \A x \in S : n - x \in Nat
    OBVIOUS
  <2>2. PICK x \in S : TRUE
    OBVIOUS
  <2>3. n - x \in D
    OBVIOUS
  <2> QED BY <2>1, <2>3
<1> HIDE DEF D
<1>2. PICK d \in D : \A e \in D : d <= e
  BY <1>1, LeastNat
<1>3. PICK m \in S : d = n - m
  BY DEF D
<1>4. ASSUME NEW x \in S
      PROVE  x <= m
  <2>1. n - x \in D
    BY DEF D
  <2>2. n - m <= n - x
    BY <1>2, <1>3, <2>1
  <2> QED BY <2>2
<1> QED BY <1>4

\* FirstKept is where the records that are not old begin.
LEMMA FirstKeptProperty ==
    ASSUME NEW q \in Seq(MetaLsidGid), NEW rec \in MetaLsidGid
    PROVE  /\ FirstKept(q, rec) \in 1 .. Len(q) + 1
           /\ \A i \in 1 .. FirstKept(q, rec) - 1 : IsOld(q[i], rec)
           /\ FirstKept(q, rec) <= Len(q) => ~IsOld(q[FirstKept(q, rec)], rec)
<1> DEFINE S == {j \in 1 .. Len(q) + 1 : j <= Len(q) => ~IsOld(q[j], rec)}
<1>1. S \subseteq Nat /\ S # {}
  <2>1. Len(q) + 1 \in S
    OBVIOUS
  <2> QED BY <2>1
<1>2. PICK k \in S : \A j \in S : k <= j
  <2> HIDE DEF S
  <2> QED BY <1>1, LeastNat
<1>3. \A i \in 1 .. k - 1 : IsOld(q[i], rec)
  BY <1>2
<1>4. k \in 1 .. Len(q) + 1 /\ (k <= Len(q) => ~IsOld(q[k], rec))
  OBVIOUS
<1> DEFINE P(x) == /\ \A i \in 1 .. x - 1 : IsOld(q[i], rec)
                   /\ x <= Len(q) => ~IsOld(q[x], rec)
<1>5. \E x \in 1 .. Len(q) + 1 : P(x)
  BY <1>3, <1>4
<1>6. FirstKept(q, rec) = CHOOSE x \in 1 .. Len(q) + 1 : P(x)
  BY DEF FirstKept
<1>7. FirstKept(q, rec) \in 1 .. Len(q) + 1 /\ P(FirstKept(q, rec))
  <2> HIDE DEF P
  <2> QED BY <1>5, <1>6
<1> QED BY <1>7

\* EndIndex is the last record up to which the transfer can be extended.
LEMMA EndIndexProperty ==
    ASSUME NEW q \in Seq(MetaLsidGid), q # <<>>, NEW rec \in MetaLsidGid,
           NEW max \in Nat, NEW perm \in Nat
    PROVE  /\ EndIndex(q, rec, max, perm) \in 1 .. Len(q)
           /\ CanExtendTo(q, rec, EndIndex(q, rec, max, perm), max, perm)
<1> DEFINE Ext(k) == CanExtendTo(q, rec, k, max, perm)
           S == {j \in 1 .. Len(q) : j < Len(q) => ~Ext(j + 1)}
<1>1. S \subseteq Nat /\ S # {}
  <2>1. Len(q) \in S
    OBVIOUS
  <2> QED BY <2>1
<1>2. PICK k \in S : \A j \in S : k <= j
  <2> HIDE DEF S
  <2> QED BY <1>1, LeastNat
<1>3. Ext(k)
  <2>1. CASE k = 1
    BY <2>1 DEF CanExtendTo
  <2>2. CASE k # 1
    <3> HIDE DEF Ext
    <3>1. k - 1 \in 1 .. Len(q) /\ k - 1 < Len(q) /\ ~(k <= k - 1)
      BY <2>2
    <3>2. k - 1 \notin S
      BY <1>2, <3>1
    <3>3. (k - 1) + 1 = k
      OBVIOUS
    <3> QED BY <3>1, <3>2, <3>3
  <2> QED BY <2>1, <2>2
<1>4. k \in 1 .. Len(q) /\ (k < Len(q) => ~Ext(k + 1))
  OBVIOUS
<1> DEFINE P(x) == Ext(x) /\ (x < Len(q) => ~Ext(x + 1))
<1>5. \E x \in 1 .. Len(q) : P(x)
  BY <1>3, <1>4
<1>6. EndIndex(q, rec, max, perm) = CHOOSE x \in 1 .. Len(q) : P(x)
  BY DEF EndIndex
<1>7. EndIndex(q, rec, max, perm) \in 1 .. Len(q) /\ P(EndIndex(q, rec, max, perm))
  <2> HIDE DEF P
  <2> QED BY <1>5, <1>6
<1> QED BY <1>7

\* What removeOldRecords leaves of an ordered queue: the records after rec.
LEMMA RemoveOldProperty ==
    ASSUME NEW q \in Seq(MetaLsidGid), NEW rec \in MetaLsidGid, Ordered(q, rec)
    PROVE  LET r == removeOldRecords(q, rec)
           IN  /\ r \in Seq(MetaLsidGid)
               /\ Ordered(r, rec)
               /\ \A i \in 1 .. Len(r) : rec.gid < r[i].gid
               /\ Elems(r) = {x \in Elems(q) : rec.gid < x.gid}
               /\ LatestSnap(r, rec).gid >= LatestSnap(q, rec).gid
<1> DEFINE k == FirstKept(q, rec)
           r == removeOldRecords(q, rec)
<1>1. /\ k \in 1 .. Len(q) + 1
      /\ \A i \in 1 .. k - 1 : IsOld(q[i], rec)
      /\ k <= Len(q) => ~IsOld(q[k], rec)
  BY FirstKeptProperty
<1> HIDE DEF k
<1>2. r = SubSeq(q, k, Len(q))
  BY DEF k, removeOldRecords
<1>3. /\ r \in Seq(MetaLsidGid) /\ Len(r) = Len(q) - k + 1
      /\ \A i \in 1 .. Len(r) : r[i] = q[i + k - 1]
  BY <1>1, <1>2
<1> HIDE DEF r
<1>4. \A i \in 1 .. Len(q) : q[i] \in MetaLsidGid
  OBVIOUS
<1>5. \A i \in 1 .. Len(q) : IsOld(q[i], rec) <=> q[i].gid <= rec.gid
  BY <1>4 DEF Ordered, IsOld, MetaLsidGid
<1>6. ASSUME NEW i \in k .. Len(q)
      PROVE  rec.gid < q[i].gid
  <2>1. k \in 1 .. Len(q) /\ i \in 1 .. Len(q)
    BY <1>1
  <2>2. rec.gid < q[k].gid
    BY <1>1, <1>4, <1>5, <2>1 DEF MetaLsidGid
  <2>3. i = k \/ q[k].gid < q[i].gid
    BY <2>1 DEF Ordered
  <2> QED BY <1>4, <2>1, <2>2, <2>3 DEF MetaLsidGid
<1>7. \A i \in 1 .. Len(r) : i + k - 1 \in k .. Len(q)
  BY <1>1, <1>3
<1>8. \A i \in 1 .. Len(r) : rec.gid < r[i].gid
  BY <1>3, <1>6, <1>7
<1>9. Ordered(r, rec)
  <2>1. \A i, j \in 1 .. Len(r) : i < j => r[i].gid < r[j].gid /\ r[i].lsid <= r[j].lsid
    <3> SUFFICES ASSUME NEW i \in 1 .. Len(r), NEW j \in 1 .. Len(r), i < j
                 PROVE  r[i].gid < r[j].gid /\ r[i].lsid <= r[j].lsid
      OBVIOUS
    <3>1. i + k - 1 \in 1 .. Len(q) /\ j + k - 1 \in 1 .. Len(q) /\ i + k - 1 < j + k - 1
      BY <1>1, <1>3
    <3> QED BY <1>3, <3>1 DEF Ordered
  <2>2. \A i \in 1 .. Len(r) : r[i].lsid >= rec.lsid /\ ~(r[i].gid <= rec.gid)
    <3> SUFFICES ASSUME NEW i \in 1 .. Len(r)
                 PROVE  r[i].lsid >= rec.lsid /\ ~(r[i].gid <= rec.gid)
      OBVIOUS
    <3>1. i + k - 1 \in 1 .. Len(q) /\ r[i] = q[i + k - 1]
      BY <1>1, <1>3
    <3>2. rec.gid < r[i].gid /\ r[i] \in MetaLsidGid
      BY <1>4, <1>8, <3>1
    <3> QED BY <3>1, <3>2 DEF Ordered, MetaLsidGid
  <2>3. r # <<>> => rec.gid <= r[Len(r)].gid
    <3> SUFFICES ASSUME r # <<>> PROVE rec.gid <= r[Len(r)].gid
      OBVIOUS
    <3>1. Len(r) \in 1 .. Len(r)
      BY <1>3
    <3>2. r[Len(r)] \in MetaLsidGid
      BY <1>3, <3>1
    <3>3. rec.gid < r[Len(r)].gid
      BY <1>8, <3>1
    <3> QED BY <3>2, <3>3 DEF MetaLsidGid
  <2> QED BY <2>1, <2>2, <2>3 DEF Ordered
<1>10. Elems(r) = {x \in Elems(q) : rec.gid < x.gid}
  <2>1. \A x \in Elems(r) : x \in Elems(q) /\ rec.gid < x.gid
    <3> SUFFICES ASSUME NEW i \in 1 .. Len(r)
                 PROVE  r[i] \in Elems(q) /\ rec.gid < r[i].gid
      BY DEF Elems
    <3>1. i + k - 1 \in 1 .. Len(q) /\ r[i] = q[i + k - 1]
      BY <1>1, <1>3
    <3> QED BY <1>8, <3>1 DEF Elems
  <2>2. ASSUME NEW j \in 1 .. Len(q), rec.gid < q[j].gid
        PROVE  q[j] \in Elems(r)
    <3>1. j >= k
      BY <1>1, <1>4, <1>5, <2>2 DEF MetaLsidGid
    <3>2. j - k + 1 \in 1 .. Len(r) /\ r[j - k + 1] = q[j]
      BY <1>1, <1>3, <3>1
    <3> QED BY <3>2 DEF Elems
  <2> QED BY <2>1, <2>2 DEF Elems
<1>11. LatestSnap(r, rec).gid >= LatestSnap(q, rec).gid
  <2>1. CASE q = <<>>
    <3>1. r = <<>>
      BY <1>1, <1>3, <2>1
    <3> QED BY <2>1, <3>1 DEF LatestSnap, MetaLsidGid
  <2>2. CASE q # <<>> /\ k <= Len(q)
    <3>1. r # <<>> /\ r[Len(r)] = q[Len(q)]
      BY <1>1, <1>3, <2>2
    <3> QED BY <1>4, <2>2, <3>1 DEF LatestSnap, MetaLsidGid
  <2>3. CASE q # <<>> /\ k = Len(q) + 1
    <3>1. r = <<>>
      BY <1>1, <1>3, <2>3
    <3>2. IsOld(q[Len(q)], rec) /\ Len(q) \in 1 .. Len(q)
      BY <1>1, <2>3
    <3>3. q[Len(q)].gid <= rec.gid
      BY <1>5, <3>2
    <3> QED BY <1>4, <2>3, <3>1, <3>2, <3>3 DEF LatestSnap, MetaLsidGid
  <2> QED BY <1>1, <2>1, <2>2, <2>3
<1> QED BY <1>3, <1>8, <1>9, <1>10, <1>11 DEF r

\* A snapshot pushed on an ordered queue comes after everything in it.
LEMMA PushSnapshotProperty ==
    ASSUME TypeOK, DeviceInv, NEW q \in Seq(MetaLsidGid), Ordered(q, done), OnBoundary(q),
           done.lsid \in packs, NEW m \in BOOLEAN, NEW rec,
           rec = SnapshotRecord(LatestSnap(q, done), maxPb, m, latest),
           LatestSnap(q, done).lsid <= latest
    PROVE  /\ rec \in MetaLsidGid /\ rec.lsid = latest /\ rec.isMergeable = m
           /\ LatestSnap(q, done).gid < rec.gid /\ done.gid < rec.gid
           /\ \A x \in Elems(q) : x.gid < rec.gid /\ x.lsid <= latest
           /\ Append(q, rec) \in Seq(MetaLsidGid)
           /\ Ordered(Append(q, rec), done)
           /\ OnBoundary(Append(q, rec))
           /\ Elems(Append(q, rec)) = Elems(q) \cup {rec}
           /\ LatestSnap(Append(q, rec), done) = rec
<1> DEFINE pre == LatestSnap(q, done)
           r == Append(q, rec)
<1>1. ASSUME NEW i \in 1 .. Len(q)
      PROVE  q[i] \in MetaLsidGid /\ q[i].lsid <= latest
  <2>1. q[i] \in MetaLsidGid
    OBVIOUS
  <2>2. q[i].lsid \in packs
    BY DEF OnBoundary
  <2> QED BY <2>1, <2>2 DEF DeviceInv
<1>2. done \in MetaLsidGid /\ latest \in Nat /\ maxPb \in Nat \ {0} /\ done.lsid <= latest
  BY MaxWlogSendPbsAssumption DEF TypeOK, DeviceInv
<1>3. pre \in MetaLsidGid
  <2>1. CASE q = <<>>
    BY <1>2, <2>1 DEF LatestSnap
  <2>2. CASE q # <<>>
    BY <1>1, <2>2 DEF LatestSnap
  <2> QED BY <2>1, <2>2
<1>4. (latest - pre.lsid) \div maxPb \in Nat
  <2>1. latest - pre.lsid \in Nat
    BY <1>2, <1>3 DEF MetaLsidGid
  <2>2. \A a \in Nat, b \in Nat \ {0} : a \div b \in Nat
    OBVIOUS
  <2> QED BY <1>2, <2>1, <2>2
<1>5. rec = [lsid |-> latest, gid |-> pre.gid + 1 + (latest - pre.lsid) \div maxPb,
             isMergeable |-> m]
  BY DEF SnapshotRecord
<1>6. rec \in MetaLsidGid /\ rec.lsid = latest /\ rec.isMergeable = m /\ pre.gid < rec.gid
  <2> DEFINE n == (latest - pre.lsid) \div maxPb
  <2>1. n \in Nat /\ pre.gid \in Nat
    BY <1>3, <1>4 DEF MetaLsidGid
  <2>2. rec = [lsid |-> latest, gid |-> pre.gid + 1 + n, isMergeable |-> m]
    BY <1>5
  <2> HIDE DEF n, pre
  <2> QED BY <1>2, <2>1, <2>2 DEF MetaLsidGid
<1>7. \A i \in 1 .. Len(q) : q[i].gid <= pre.gid
  BY <1>1 DEF Ordered, LatestSnap, MetaLsidGid
<1>8. done.gid <= pre.gid
  BY <1>2 DEF Ordered, LatestSnap, MetaLsidGid
<1> HIDE DEF pre
<1>9. \A i \in 1 .. Len(q) : q[i].gid < rec.gid /\ q[i].lsid <= latest
  BY <1>1, <1>3, <1>6, <1>7 DEF MetaLsidGid
<1>10. done.gid < rec.gid
  BY <1>2, <1>3, <1>6, <1>8 DEF MetaLsidGid
<1>11. /\ r \in Seq(MetaLsidGid) /\ Len(r) = Len(q) + 1 /\ r[Len(q) + 1] = rec
       /\ \A i \in 1 .. Len(q) : r[i] = q[i]
  BY <1>6
<1> HIDE DEF r
<1>12. Ordered(r, done)
  <2>1. \A i, j \in 1 .. Len(r) : i < j => r[i].gid < r[j].gid /\ r[i].lsid <= r[j].lsid
    <3> SUFFICES ASSUME NEW i \in 1 .. Len(r), NEW j \in 1 .. Len(r), i < j
                 PROVE  r[i].gid < r[j].gid /\ r[i].lsid <= r[j].lsid
      OBVIOUS
    <3>1. CASE j = Len(q) + 1
      BY <1>6, <1>9, <1>11, <3>1
    <3>2. CASE j \in 1 .. Len(q)
      BY <1>11, <3>2 DEF Ordered
    <3> QED BY <1>11, <3>1, <3>2
  <2>2. \A i \in 1 .. Len(r) : IF r[i].gid <= done.gid THEN r[i].lsid <= done.lsid
                                                      ELSE r[i].lsid >= done.lsid
    <3> SUFFICES ASSUME NEW i \in 1 .. Len(r)
                 PROVE  IF r[i].gid <= done.gid THEN r[i].lsid <= done.lsid
                                                ELSE r[i].lsid >= done.lsid
      OBVIOUS
    <3>1. CASE i = Len(q) + 1
      <4>1. r[i] = rec /\ ~(rec.gid <= done.gid)
        BY <1>2, <1>6, <1>10, <1>11, <3>1 DEF MetaLsidGid
      <4> QED BY <1>2, <1>6, <4>1 DEF MetaLsidGid
    <3>2. CASE i \in 1 .. Len(q)
      BY <1>11, <3>2 DEF Ordered
    <3> QED BY <1>11, <3>1, <3>2
  <2>3. done.gid <= r[Len(r)].gid
    BY <1>2, <1>6, <1>10, <1>11 DEF MetaLsidGid
  <2> QED BY <2>1, <2>2, <2>3 DEF Ordered
<1>13. OnBoundary(r)
  BY <1>6, <1>11 DEF OnBoundary, DeviceInv
<1>14. Elems(r) = Elems(q) \cup {rec}
  <2>1. Elems(r) \subseteq Elems(q) \cup {rec}
    BY <1>11 DEF Elems
  <2>2. Elems(q) \subseteq Elems(r)
    <3> SUFFICES ASSUME NEW i \in 1 .. Len(q) PROVE q[i] \in Elems(r)
      BY DEF Elems
    <3>1. i \in 1 .. Len(r) /\ r[i] = q[i]
      BY <1>11
    <3> QED BY <3>1 DEF Elems
  <2>3. rec \in Elems(r)
    <3>1. Len(q) + 1 \in 1 .. Len(r)
      BY <1>11
    <3> QED BY <1>11, <3>1 DEF Elems
  <2> QED BY <2>1, <2>2, <2>3
<1>15. LatestSnap(r, done) = rec
  BY <1>11 DEF LatestSnap
<1> QED BY <1>6, <1>9, <1>10, <1>11, <1>12, <1>13, <1>14, <1>15 DEF r, pre, Elems

\* What prepareWlogTransfer chooses from a queue of records after the done
\* record is a range in the sense of RangeInv.
LEMMA PreparedRange ==
    ASSUME TypeOK, NEW q \in Seq(MetaLsidGid), q # <<>>, Ordered(q, done),
           \A i \in 1 .. Len(q) : done.gid < q[i].gid,
           NEW nr, nr = EndIndex(q, done, maxPb, permanent),
           NEW lim, lim = EndLsid(done, q[nr], nr, maxPb),
           lim <= permanent
    PROVE  nr \in 1 .. Len(q) /\ lim \in Nat /\ RangeInv(done, q[nr], lim, q)
<1>1. done \in MetaLsidGid /\ permanent \in Nat /\ maxPb \in Nat
  BY MaxWlogSendPbsAssumption DEF TypeOK
<1>2. nr \in 1 .. Len(q) /\ CanExtendTo(q, done, nr, maxPb, permanent)
  BY <1>1, EndIndexProperty
<1>3. ASSUME NEW i \in 1 .. Len(q)
      PROVE  q[i] \in MetaLsidGid /\ done.lsid <= q[i].lsid
  <2>1. q[i] \in MetaLsidGid
    OBVIOUS
  <2>2. ~(q[i].gid <= done.gid)
    BY <1>1, <2>1 DEF MetaLsidGid
  <2>3. q[i].lsid >= done.lsid
    BY <2>2 DEF Ordered
  <2> QED BY <1>1, <2>1, <2>3 DEF MetaLsidGid
<1> DEFINE recE == q[nr]
<1>4. recE \in MetaLsidGid /\ done.lsid <= recE.lsid /\ done.gid < recE.gid
  BY <1>2, <1>3
<1>5. nr # 1 => recE.lsid <= done.lsid + maxPb
  BY <1>2 DEF CanExtendTo
<1>6. lim = EndLsid(done, recE, nr, maxPb)
  OBVIOUS
<1>7. recE \in Elems(q)
  BY <1>2 DEF Elems
<1>8. ASSUME NEW j \in 1 .. Len(q), q[j].gid < recE.gid
      PROVE  nr # 1 /\ q[j].isMergeable
  <2>1. j < nr
    <3>1. ~(nr < j)
      BY <1>2, <1>3, <1>8 DEF Ordered, MetaLsidGid
    <3>2. nr # j
      BY <1>3, <1>8 DEF MetaLsidGid
    <3> QED BY <1>2, <3>1, <3>2
  <2>2. j + 1 \in 2 .. nr /\ (j + 1) - 1 = j
    BY <1>2, <2>1
  <2> QED BY <1>2, <2>1, <2>2 DEF CanExtendTo
<1> HIDE DEF recE
<1>9. /\ lim \in Nat /\ done.lsid <= lim /\ lim <= recE.lsid
      /\ lim # recE.lsid => nr = 1 /\ done.gid + 1 < recE.gid
  <2>1. /\ done.lsid \in Nat /\ done.gid \in Nat /\ recE.lsid \in Nat /\ recE.gid \in Nat
        /\ nr \in Nat
    BY <1>1, <1>2, <1>4 DEF MetaLsidGid
  <2>2. CASE nr = 1 /\ recE.gid = done.gid + 1
    BY <1>4, <1>6, <2>1, <2>2 DEF EndLsid
  <2>3. CASE ~(nr = 1 /\ recE.gid = done.gid + 1)
    <3>1. lim = IF done.lsid + maxPb < recE.lsid THEN done.lsid + maxPb ELSE recE.lsid
      BY <1>6, <2>3 DEF EndLsid
    <3>2. CASE done.lsid + maxPb < recE.lsid
      <4>1. nr = 1
        BY <1>1, <1>5, <2>1, <3>2
      <4>2. done.gid + 1 < recE.gid
        BY <1>4, <2>1, <2>3, <4>1
      <4>3. lim = done.lsid + maxPb
        BY <3>1, <3>2
      <4> QED BY <1>1, <2>1, <3>2, <4>1, <4>2, <4>3
    <3>3. CASE ~(done.lsid + maxPb < recE.lsid)
      <4>1. lim = recE.lsid
        BY <3>1, <3>3
      <4> QED BY <1>4, <2>1, <4>1
    <3> QED BY <3>2, <3>3
  <2> QED BY <2>2, <2>3
<1>10. \A r \in Elems(q) : done.gid < r.gid /\ r.gid < recE.gid =>
           r.isMergeable /\ lim = recE.lsid
  BY <1>8, <1>9 DEF Elems
<1>11. RangeInv(done, recE, lim, q)
  BY <1>4, <1>7, <1>9, <1>10 DEF RangeInv
<1> QED BY <1>2, <1>9, <1>11 DEF recE

\* The logpacks sent end at the last boundary within the limit.
LEMMA SentEndProperty ==
    ASSUME TypeOK, NEW lsidB \in packs, NEW limit \in Nat, lsidB <= limit
    PROVE  /\ SentEnd(lsidB, limit) \in packs
           /\ lsidB <= SentEnd(lsidB, limit) /\ SentEnd(lsidB, limit) <= limit
           /\ \A c \in packs : c <= limit => c <= SentEnd(lsidB, limit)
<1> DEFINE S == {b \in packs : b <= limit}
           P(b) == /\ lsidB <= b /\ b <= limit
                   /\ \A c \in packs : c <= limit => c <= b
<1>1. packs \subseteq Nat
  BY DEF TypeOK
<1>2. PICK b \in S : \A c \in S : c <= b
  <2>1. S \subseteq Nat /\ S # {} /\ \A x \in S : x <= limit
    BY <1>1
  <2> HIDE DEF S
  <2> QED BY <2>1, GreatestNat
<1>3. \E x \in packs : P(x)
  BY <1>2
<1>4. SentEnd(lsidB, limit) = CHOOSE x \in packs : P(x)
  BY DEF SentEnd
<1>5. SentEnd(lsidB, limit) \in packs /\ P(SentEnd(lsidB, limit))
  <2> HIDE DEF P
  <2> QED BY <1>3, <1>4
<1> QED BY <1>5

-----------------------------------------------------------------------------
(* The initial state and one lemma per kind of step. *)

\* The state resetWlog leaves behind satisfies the inductive invariant.
LEMMA InitIInv == Init => IInv
<1> SUFFICES ASSUME Init PROVE IInv
  OBVIOUS
<1> USE DEF Init
<1>1. ResetRecord \in MetaLsidGid /\ ResetRecord.lsid = 0
  BY Gid0Assumption DEF ResetRecord, MetaLsidGid
<1>2. TypeOK
  <2>1. queue \in Seq(MetaLsidGid) /\ pc \in Pcs /\ packs \subseteq Nat
    BY DEF Pcs
  <2> QED BY <1>1, <2>1 DEF TypeOK
<1>3. DeviceInv
  BY DEF DeviceInv
<1>4. FilesInv
  BY <1>1 DEF FilesInv, Ordered, OnBoundary
<1>5. TransferInv /\ HistoryInv /\ SnapshotsExact
  BY DEF TransferInv, HistoryInv, SnapshotsExact
<1> QED BY <1>2, <1>3, <1>4, <1>5 DEF IInv

\* Steps of the device leave everything else alone, and the log only grows.
LEMMA DeviceStep == ASSUME IInv, Device PROVE IInv'
<1> USE DEF IInv
<1>1. UNCHANGED <<oldest, done, queue, maxPb, pc, rec0, rec1, lsidLimit, lsidE,
                  delivered, snaps, nrCrashes>>
  BY DEF Device, WriteLogpack, MakePermanent, Checkpoint, files, local, hist
<1>2. latest' \in Nat /\ permanent' \in Nat /\ prevWritten' \in Nat /\ packs' \subseteq Nat
      /\ overflow' \in BOOLEAN
  <2>1. CASE WriteLogpack
    BY <2>1, PackSizesAssumption DEF WriteLogpack, TypeOK
  <2>2. CASE MakePermanent
    BY <2>2 DEF MakePermanent, TypeOK
  <2>3. CASE Checkpoint
    BY <2>3 DEF Checkpoint, TypeOK
  <2> QED BY <2>1, <2>2, <2>3 DEF Device
<1>3. latest <= latest' /\ permanent <= permanent' /\ packs \subseteq packs' /\ DeviceInv'
  <2>1. CASE WriteLogpack
    BY <2>1, PackSizesAssumption DEF WriteLogpack, TypeOK, DeviceInv
  <2>2. CASE MakePermanent
    BY <2>2 DEF MakePermanent, TypeOK, DeviceInv
  <2>3. CASE Checkpoint
    BY <2>3 DEF Checkpoint, TypeOK, DeviceInv
  <2> QED BY <2>1, <2>2, <2>3 DEF Device
<1>4. TypeOK'
  BY <1>1, <1>2 DEF TypeOK
<1>5. FilesInv'
  <2>1. Ordered(queue, done)' /\ OnBoundary(queue)'
    BY <1>1, <1>3 DEF FilesInv, Ordered, OnBoundary
  <2>2. done.lsid \in Nat /\ permanent \in Nat
    BY DEF TypeOK, MetaLsidGid
  <2> QED BY <1>1, <1>2, <1>3, <2>1, <2>2 DEF FilesInv
<1>6. TransferInv'
  <2>1. ASSUME RangeInv(rec0, rec1, lsidLimit, queue)
        PROVE  RangeInv(rec0, rec1, lsidLimit, queue)'
    <3>1. permanent \in Nat /\ lsidLimit \in Nat
      BY DEF TypeOK
    <3> QED BY <1>1, <1>2, <1>3, <2>1, <3>1 DEF RangeInv, Elems
  <2> QED BY <1>1, <1>3, <2>1 DEF TransferInv, getTransferDiff, DoneRecord
<1>7. HistoryInv'
  <2>1. \A d \in delivered : d.lsidE \in Nat
    BY DEF TypeOK, Diff
  <2>2. latest \in Nat
    BY DEF TypeOK
  <2> QED BY <1>1, <1>2, <1>3, <2>1, <2>2 DEF HistoryInv, Elems, LatestSnap
<1>8. SnapshotsExact'
  BY <1>1 DEF SnapshotsExact
<1> QED BY <1>3, <1>4, <1>5, <1>6, <1>7, <1>8

\* Steps that end a transfer or move it without touching the files.
LEMMA ControlStep ==
    ASSUME IInv,
           UNCHANGED <<latest, permanent, prevWritten, packs, overflow, done, queue,
                       delivered, snaps>>,
           oldest' \in Nat, oldest' <= done.lsid,
           maxPb' \in MaxWlogSendPbs, nrCrashes' \in Nat,
           pc' \in {"idle", "required", "prepare"},
           UNCHANGED local \/ ForgetLocals
    PROVE  IInv'
<1> USE DEF IInv
<1>1. ResetRecord \in MetaLsidGid
  BY Gid0Assumption DEF ResetRecord, MetaLsidGid
<1>2. TypeOK'
  BY <1>1 DEF TypeOK, Pcs, ForgetLocals, local
<1>3. DeviceInv'
  BY DEF DeviceInv
<1>4. FilesInv'
  BY DEF FilesInv, Ordered, OnBoundary
<1>5. TransferInv'
  BY DEF TransferInv
<1>6. HistoryInv' /\ SnapshotsExact'
  BY DEF HistoryInv, SnapshotsExact, Elems, LatestSnap
<1> QED BY <1>2, <1>3, <1>4, <1>5, <1>6

\* deleteGarbageWlogs erases no further than the done record.
LEMMA EraseStep ==
    ASSUME IInv, deleteGarbageWlogs
    PROVE  oldest' \in Nat /\ oldest' <= done.lsid
<1>1. oldest \in Nat /\ prevWritten \in Nat /\ done.lsid \in Nat /\ oldest <= done.lsid
  BY DEF IInv, TypeOK, FilesInv, MetaLsidGid
<1>2. EraseTarget \in Nat /\ EraseTarget <= done.lsid
  BY <1>1 DEF EraseTarget
<1> QED BY <1>1, <1>2 DEF deleteGarbageWlogs

\* The newest snapshot is a record.
LEMMA LatestSnapType == ASSUME TypeOK PROVE LatestSnap(queue, done) \in MetaLsidGid
<1>1. queue \in Seq(MetaLsidGid) /\ done \in MetaLsidGid
  BY DEF TypeOK
<1>2. CASE queue = <<>>
  BY <1>1, <1>2 DEF LatestSnap
<1>3. CASE queue # <<>>
  <2>1. Len(queue) \in 1 .. Len(queue)
    BY <1>1, <1>3
  <2> QED BY <1>1, <1>3, <2>1 DEF LatestSnap
<1> QED BY <1>2, <1>3

\* An explicit snapshot goes to the end of the queue and disturbs no transfer.
LEMMA TakeSnapshotStep == ASSUME IInv, takeSnapshot PROVE IInv'
<1> USE DEF IInv
<1> DEFINE rec == SnapshotRecord(LatestSnap(queue, done), maxPb, FALSE, latest)
<1>1. /\ queue' = Append(queue, rec) /\ snaps' = snaps \cup {rec} /\ pc # "trim"
      /\ UNCHANGED <<latest, permanent, prevWritten, oldest, packs, overflow, done, maxPb,
                     pc, rec0, rec1, lsidLimit, lsidE, delivered, nrCrashes>>
  BY DEF takeSnapshot, dev, local
<1>2. LatestSnap(queue, done).lsid <= latest
  BY DEF takeSnapshot, canTakeSnapshot
<1> HIDE DEF rec
<1>3. /\ rec \in MetaLsidGid /\ rec.lsid = latest /\ rec.isMergeable = FALSE
      /\ LatestSnap(queue, done).gid < rec.gid /\ done.gid < rec.gid
      /\ \A x \in Elems(queue) : x.gid < rec.gid /\ x.lsid <= latest
      /\ queue' \in Seq(MetaLsidGid)
      /\ Ordered(queue', done)
      /\ OnBoundary(queue')
      /\ Elems(queue') = Elems(queue) \cup {rec}
      /\ LatestSnap(queue', done) = rec
  <2>1. queue \in Seq(MetaLsidGid) /\ Ordered(queue, done) /\ OnBoundary(queue)
        /\ done.lsid \in packs
    BY DEF TypeOK, FilesInv
  <2>2. rec = SnapshotRecord(LatestSnap(queue, done), maxPb, FALSE, latest)
    BY DEF rec
  <2> HIDE DEF IInv
  <2>3. TypeOK /\ DeviceInv
    BY DEF IInv
  <2> QED BY <1>1, <1>2, <2>1, <2>2, <2>3, PushSnapshotProperty
<1>3a. LatestSnap(queue, done) \in MetaLsidGid
  BY LatestSnapType
<1>4. TypeOK'
  BY <1>1, <1>3 DEF TypeOK
<1>5. DeviceInv' /\ FilesInv'
  BY <1>1, <1>3 DEF DeviceInv, FilesInv, OnBoundary
<1>6. TransferInv'
  <2>1. ASSUME pc \in {"send", "ack"} PROVE RangeInv(rec0, rec1, lsidLimit, queue)'
    <3>1. RangeInv(rec0, rec1, lsidLimit, queue)
      BY <2>1 DEF TransferInv
    <3>2. rec1 \in Elems(queue) /\ rec1.gid < rec.gid
      BY <1>3, <3>1 DEF RangeInv
    <3>3. ~(rec.gid < rec1.gid)
      BY <1>3, <3>2 DEF TypeOK, MetaLsidGid
    <3>4. Elems(queue)' = Elems(queue) \cup {rec}
      BY <1>3 DEF Elems
    <3> QED BY <1>1, <3>1, <3>2, <3>3, <3>4 DEF RangeInv
  <2> QED BY <1>1, <2>1 DEF TransferInv, getTransferDiff
<1>7. HistoryInv'
  <2>1. Elems(queue)' = Elems(queue) \cup {rec} /\ LatestSnap(queue, done)' = rec
    BY <1>1, <1>3 DEF Elems, LatestSnap
  <2>2. \A d \in delivered : d.gidE <= rec.gid
    <3>1. LatestSnap(queue, done).gid \in Nat
      BY <1>3a DEF MetaLsidGid
    <3>2. \A d \in delivered : d.gidE \in Nat
      BY DEF TypeOK, Diff
    <3> QED BY <1>3, <3>1, <3>2 DEF HistoryInv, MetaLsidGid
  <2> QED BY <1>1, <1>3, <2>1, <2>2 DEF HistoryInv
<1>8. SnapshotsExact'
  <2>1. \A d \in delivered : d.gidE <= rec.gid /\ d.lsidE <= rec.lsid
    BY <1>1, <1>3, <1>7 DEF HistoryInv, LatestSnap
  <2> QED BY <1>1, <2>1 DEF SnapshotsExact
<1> QED BY <1>4, <1>5, <1>6, <1>7, <1>8

\* Steps that replace the queue by one that still has every record after the
\* done record; they end the transfer or start the sending.
LEMMA QueueStep ==
    ASSUME IInv,
           UNCHANGED <<latest, permanent, prevWritten, oldest, packs, overflow, done, maxPb,
                       delivered, snaps, nrCrashes>>,
           queue' \in Seq(MetaLsidGid), Ordered(queue', done), OnBoundary(queue'),
           \A x \in Elems(queue) : done.gid < x.gid => x \in Elems(queue'),
           LatestSnap(queue', done).gid >= LatestSnap(queue, done).gid,
           LatestSnap(queue', done).gid \in Nat,
           \/ pc' \in {"idle", "gc"} /\ (UNCHANGED local \/ ForgetLocals)
           \/ /\ pc' = "send" /\ rec0' = done /\ lsidE' = lsidE
              /\ rec1' \in MetaLsidGid /\ lsidLimit' \in Nat
              /\ RangeInv(done, rec1', lsidLimit', queue')
    PROVE  IInv'
<1> USE DEF IInv
<1>1. ResetRecord \in MetaLsidGid
  BY Gid0Assumption DEF ResetRecord, MetaLsidGid
<1>2. TypeOK'
  <2>1. pc' \in Pcs
    BY DEF Pcs
  <2>2. rec0' \in MetaLsidGid /\ rec1' \in MetaLsidGid /\ lsidLimit' \in Nat /\ lsidE' \in Nat
    BY <1>1 DEF TypeOK, ForgetLocals, local
  <2> QED BY <2>1, <2>2 DEF TypeOK
<1>3. DeviceInv' /\ FilesInv'
  BY DEF DeviceInv, FilesInv, OnBoundary
<1>4. TransferInv'
  <2>1. CASE pc' \in {"idle", "gc"}
    BY <2>1 DEF TransferInv
  <2>2. CASE pc' = "send" /\ rec0' = done /\ RangeInv(done, rec1', lsidLimit', queue')
    <3>1. RangeInv(rec0, rec1, lsidLimit, queue)'
      BY <2>2 DEF RangeInv, Elems
    <3> QED BY <2>2, <3>1 DEF TransferInv
  <2> QED BY <2>1, <2>2
<1>5. HistoryInv'
  <2>1. ASSUME NEW x \in Elems(queue), ~(done.gid < x.gid)
        PROVE  x.gid <= done.gid /\ x.lsid <= done.lsid
    <3>1. PICK i \in 1 .. Len(queue) : x = queue[i]
      BY DEF Elems
    <3>2. x \in MetaLsidGid /\ done \in MetaLsidGid
      BY <3>1 DEF TypeOK
    <3>3. x.gid <= done.gid
      BY <2>1, <3>2 DEF MetaLsidGid
    <3> QED BY <3>1, <3>3 DEF FilesInv, Ordered
  <2>2. Elems(queue)' = Elems(queue')
    BY DEF Elems
  <2>3. \A s \in snaps : \/ s.gid <= done.gid /\ s.lsid <= done.lsid
                         \/ s \in Elems(queue') /\ ~s.isMergeable
    <3> TAKE s \in snaps
    <3>1. CASE s.gid <= done.gid /\ s.lsid <= done.lsid
      BY <3>1
    <3>2. CASE s \in Elems(queue) /\ ~s.isMergeable
      <4>1. CASE done.gid < s.gid
        BY <3>2, <4>1
      <4>2. CASE ~(done.gid < s.gid)
        BY <2>1, <3>2, <4>2
      <4> QED BY <4>1, <4>2
    <3> QED BY <3>1, <3>2 DEF HistoryInv
  <2>4. \A d \in delivered : d.gidE <= LatestSnap(queue', done).gid
    <3>1. LatestSnap(queue, done).gid \in Nat
      BY LatestSnapType DEF MetaLsidGid
    <3>2. \A d \in delivered : d.gidE \in Nat /\ d.gidE <= LatestSnap(queue, done).gid
      BY DEF TypeOK, Diff, HistoryInv
    <3> QED BY <3>1, <3>2
  <2>5. LatestSnap(queue, done)' = LatestSnap(queue', done)
    BY DEF LatestSnap
  <2> QED BY <2>2, <2>3, <2>4, <2>5 DEF HistoryInv
<1>6. SnapshotsExact'
  BY DEF SnapshotsExact
<1> QED BY <1>2, <1>3, <1>4, <1>5, <1>6

\* What removeOldRecords makes of the queue.
LEMMA TrimmedQueue ==
    ASSUME IInv
    PROVE  LET q0 == removeOldRecords(queue, done)
           IN  /\ q0 \in Seq(MetaLsidGid) /\ Ordered(q0, done) /\ OnBoundary(q0)
               /\ \A i \in 1 .. Len(q0) : done.gid < q0[i].gid
               /\ \A x \in Elems(queue) : done.gid < x.gid => x \in Elems(q0)
               /\ LatestSnap(q0, done).gid >= LatestSnap(queue, done).gid
               /\ LatestSnap(q0, done) \in MetaLsidGid
<1> DEFINE q0 == removeOldRecords(queue, done)
<1>1. queue \in Seq(MetaLsidGid) /\ done \in MetaLsidGid /\ Ordered(queue, done)
      /\ OnBoundary(queue)
  BY DEF IInv, TypeOK, FilesInv
<1>2. /\ q0 \in Seq(MetaLsidGid) /\ Ordered(q0, done)
      /\ \A i \in 1 .. Len(q0) : done.gid < q0[i].gid
      /\ Elems(q0) = {x \in Elems(queue) : done.gid < x.gid}
      /\ LatestSnap(q0, done).gid >= LatestSnap(queue, done).gid
  BY <1>1, RemoveOldProperty
<1> HIDE DEF q0
<1>3. OnBoundary(q0)
  <2> SUFFICES ASSUME NEW i \in 1 .. Len(q0) PROVE q0[i].lsid \in packs
    BY DEF OnBoundary
  <2>1. q0[i] \in Elems(queue)
    BY <1>2 DEF Elems
  <2> QED BY <1>1, <2>1 DEF OnBoundary, Elems
<1>4. LatestSnap(q0, done) \in MetaLsidGid
  <2>1. CASE q0 = <<>>
    BY <1>1, <2>1 DEF LatestSnap
  <2>2. CASE q0 # <<>>
    <3>1. Len(q0) \in 1 .. Len(q0)
      BY <1>2, <2>2
    <3> QED BY <1>2, <2>2, <3>1 DEF LatestSnap
  <2> QED BY <2>1, <2>2
<1> QED BY <1>2, <1>3, <1>4 DEF q0

\* finishWlogTransfer removes the records behind the done record it has written.
LEMMA TrimStep == ASSUME IInv, trimQueue PROVE IInv'
<1>1. done = DoneRecord(rec0, rec1, lsidE)
  BY DEF IInv, TransferInv, trimQueue
<1>2. queue' = removeOldRecords(queue, done) /\ pc' = "gc" /\ ForgetLocals
      /\ UNCHANGED <<latest, permanent, prevWritten, oldest, packs, overflow, done, maxPb,
                     delivered, snaps, nrCrashes>>
  BY <1>1 DEF trimQueue, dev, hist
<1>3. LatestSnap(queue', done).gid \in Nat
  BY <1>2, TrimmedQueue DEF MetaLsidGid
<1> QED BY <1>2, <1>3, TrimmedQueue, QueueStep

\* prepareWlogTransfer trims, maybe adds an implicit snapshot, and picks a range
\* that the queue and the done record justify.
LEMMA PrepareStep == ASSUME IInv, prepareWlogTransfer PROVE IInv'
<1> DEFINE q0 == removeOldRecords(queue, done)
           may == q0 = <<>> \/ q0[Len(q0)].lsid < latest
<1>1. /\ q0 \in Seq(MetaLsidGid) /\ Ordered(q0, done) /\ OnBoundary(q0)
      /\ \A i \in 1 .. Len(q0) : done.gid < q0[i].gid
      /\ \A x \in Elems(queue) : done.gid < x.gid => x \in Elems(q0)
      /\ LatestSnap(q0, done).gid >= LatestSnap(queue, done).gid
      /\ LatestSnap(q0, done) \in MetaLsidGid
  BY TrimmedQueue
<1>2. UNCHANGED <<latest, permanent, prevWritten, oldest, packs, overflow, done, maxPb,
                  delivered, snaps, nrCrashes>>
  BY DEF prepareWlogTransfer, dev, hist
<1> DEFINE q1(imp) == IF imp THEN takeSnapshotDetail(q0, done, maxPb, TRUE, latest) ELSE q0
           nr(imp) == EndIndex(q1(imp), done, maxPb, permanent)
           lim(imp) == EndLsid(done, q1(imp)[nr(imp)], nr(imp), maxPb)
<1>3. PICK imp \in {may, q0 = <<>>} :
         IF imp /\ ~canTakeSnapshot(q0, done, latest)
         THEN queue' = q0 /\ pc' = "idle" /\ UNCHANGED local
         ELSE /\ queue' = q1(imp)
              /\ IF permanent < lim(imp) \/ q1(imp)[nr(imp)].lsid < done.lsid
                 THEN pc' = "idle" /\ UNCHANGED local
                 ELSE /\ pc' = "send" /\ rec0' = done /\ rec1' = q1(imp)[nr(imp)]
                      /\ lsidLimit' = lim(imp) /\ UNCHANGED lsidE
  BY Zenon DEF prepareWlogTransfer
<1> HIDE DEF q0
<1>4. TypeOK /\ DeviceInv /\ done.lsid \in packs
  BY DEF IInv, FilesInv
<1>5. CASE imp /\ ~canTakeSnapshot(q0, done, latest)
  <2>1. queue' = q0 /\ pc' = "idle" /\ UNCHANGED local
    BY <1>3, <1>5
  <2>2. LatestSnap(q0, done).gid \in Nat
    BY <1>1 DEF MetaLsidGid
  <2> QED BY <1>1, <1>2, <2>1, <2>2, QueueStep
<1>6. CASE ~(imp /\ ~canTakeSnapshot(q0, done, latest))
  <2> DEFINE q == q1(imp)
  <2>1. /\ q \in Seq(MetaLsidGid) /\ q # <<>> /\ Ordered(q, done) /\ OnBoundary(q)
        /\ \A i \in 1 .. Len(q) : done.gid < q[i].gid
        /\ \A x \in Elems(queue) : done.gid < x.gid => x \in Elems(q)
        /\ LatestSnap(q, done).gid >= LatestSnap(queue, done).gid
        /\ LatestSnap(q, done).gid \in Nat
    <3>1. CASE imp
      <4> DEFINE rec == SnapshotRecord(LatestSnap(q0, done), maxPb, TRUE, latest)
      <4>1. q = Append(q0, rec)
        BY <3>1 DEF takeSnapshotDetail
      <4>2. LatestSnap(q0, done).lsid <= latest
        BY <1>6, <3>1 DEF canTakeSnapshot
      <4> HIDE DEF q, q1
      <4>3. /\ rec \in MetaLsidGid /\ LatestSnap(q0, done).gid < rec.gid /\ done.gid < rec.gid
            /\ Append(q0, rec) \in Seq(MetaLsidGid)
            /\ Ordered(Append(q0, rec), done)
            /\ OnBoundary(Append(q0, rec))
            /\ Elems(Append(q0, rec)) = Elems(q0) \cup {rec}
            /\ LatestSnap(Append(q0, rec), done) = rec
        BY <1>1, <1>4, <4>2, PushSnapshotProperty
      <4> HIDE DEF rec
      <4>4. q # <<>>
        BY <1>1, <4>1, <4>3
      <4>5. \A i \in 1 .. Len(q) : done.gid < q[i].gid
        BY <1>1, <4>1, <4>3
      <4>6. LatestSnap(q, done).gid >= LatestSnap(queue, done).gid
        <5>1. LatestSnap(queue, done) \in MetaLsidGid
          BY <1>4, LatestSnapType
        <5> QED BY <1>1, <4>1, <4>3, <5>1 DEF MetaLsidGid
      <4> QED BY <1>1, <4>1, <4>3, <4>4, <4>5, <4>6 DEF MetaLsidGid
    <3>2. CASE ~imp
      <4>1. q = q0 /\ q0 # <<>>
        BY <1>3, <3>2
      <4> QED BY <1>1, <4>1 DEF MetaLsidGid
    <3> QED BY <3>1, <3>2
  <2>2. queue' = q
    BY <1>3, <1>6
  <2>3. \/ pc' = "idle" /\ UNCHANGED local
        \/ /\ pc' = "send" /\ rec0' = done /\ rec1' = q[nr(imp)]
           /\ lsidLimit' = lim(imp) /\ lsidE' = lsidE
           /\ ~(permanent < lim(imp))
    BY <1>3, <1>6
  <2>4. CASE pc' = "idle" /\ UNCHANGED local
    <3> HIDE DEF q, q1
    <3> QED BY <1>2, <2>1, <2>2, <2>4, QueueStep
  <2>5. CASE /\ pc' = "send" /\ rec0' = done /\ rec1' = q[nr(imp)]
             /\ lsidLimit' = lim(imp) /\ lsidE' = lsidE
             /\ ~(permanent < lim(imp))
    <3> DEFINE n == nr(imp)
               l == lim(imp)
    <3>1. n = EndIndex(q, done, maxPb, permanent) /\ l = EndLsid(done, q[n], n, maxPb)
      OBVIOUS
    <3>2. rec1' = q[n] /\ lsidLimit' = l /\ ~(permanent < l)
      BY <2>5
    <3> HIDE DEF q, q1, n, l, nr, lim
    <3>3. permanent \in Nat /\ maxPb \in Nat /\ done \in MetaLsidGid
      BY <1>4, MaxWlogSendPbsAssumption DEF TypeOK
    <3>4. n \in 1 .. Len(q)
      BY <2>1, <3>1, <3>3, EndIndexProperty
    <3>5. l \in Nat
      <4>1. q[n] \in MetaLsidGid
        BY <2>1, <3>4
      <4> QED BY <3>1, <3>3, <4>1 DEF EndLsid, MetaLsidGid
    <3>6. l <= permanent
      BY <3>2, <3>3, <3>5
    <3>7. RangeInv(done, q[n], l, q)
      BY <1>4, <2>1, <3>1, <3>6, PreparedRange
    <3>8. q[n] \in MetaLsidGid
      BY <2>1, <3>4
    <3>9. /\ pc' = "send" /\ rec0' = done /\ lsidE' = lsidE
          /\ rec1' \in MetaLsidGid /\ lsidLimit' \in Nat
          /\ RangeInv(done, rec1', lsidLimit', queue')
      BY <2>2, <2>5, <3>2, <3>5, <3>7, <3>8
    <3> QED BY <1>2, <2>1, <2>2, <3>9, QueueStep
  <2> QED BY <2>3, <2>4, <2>5
<1> QED BY <1>5, <1>6

\* What is delivered begins at the done record and reaches over no snapshot.
LEMMA SendStep == ASSUME IInv, SendWlog PROVE IInv'
<1> USE DEF IInv
<1> DEFINE diff == getTransferDiff(rec0, rec1, lsidE')
<1>1. /\ pc = "send" /\ pc' = "ack"
      /\ lsidE' = SentEnd(rec0.lsid, lsidLimit)
      /\ delivered' = delivered \cup {diff}
      /\ UNCHANGED <<latest, permanent, prevWritten, oldest, packs, overflow, done, queue, maxPb,
                     rec0, rec1, lsidLimit, snaps, nrCrashes>>
  BY DEF SendWlog, dev, files
<1>2. rec0 = done /\ RangeInv(rec0, rec1, lsidLimit, queue)
  BY <1>1 DEF TransferInv
<1>3. rec0 \in MetaLsidGid /\ rec1 \in MetaLsidGid /\ lsidLimit \in Nat /\ packs \subseteq Nat
      /\ rec0.lsid \in packs
  BY <1>2 DEF TypeOK, FilesInv
<1>4. /\ lsidE' \in packs /\ rec0.lsid <= lsidE' /\ lsidE' <= lsidLimit
      /\ \A c \in packs : c <= lsidLimit => c <= lsidE'
  <2>1. rec0.lsid <= lsidLimit
    BY <1>2 DEF RangeInv
  <2> HIDE DEF IInv
  <2>2. TypeOK
    BY DEF IInv
  <2> QED BY <1>1, <1>3, <2>1, <2>2, SentEndProperty
<1>5. rec1 \in Elems(queue) /\ rec1.lsid \in packs
  <2>1. rec1 \in Elems(queue)
    BY <1>2 DEF RangeInv
  <2> QED BY <2>1 DEF Elems, FilesInv, OnBoundary
<1>6. lsidE' # rec1.lsid => lsidLimit # rec1.lsid
  BY <1>3, <1>4, <1>5
<1>7. lsidE' <= rec1.lsid /\ (lsidE' # rec1.lsid => rec0.gid + 1 < rec1.gid)
  BY <1>2, <1>3, <1>4, <1>6 DEF RangeInv, MetaLsidGid
<1>8. /\ diff \in Diff
      /\ diff.gidB = done.gid /\ diff.lsidB = done.lsid /\ diff.lsidE = lsidE'
      /\ diff.gidE <= rec1.gid
  <2>1. rec0.gid \in Nat /\ rec1.gid \in Nat /\ rec0.lsid \in Nat /\ lsidE' \in Nat
        /\ rec0.isMergeable \in BOOLEAN
    BY <1>3, <1>4 DEF MetaLsidGid
  <2>2. diff.gidE = (IF lsidE' = rec1.lsid THEN rec1.gid ELSE rec0.gid + 1)
    BY DEF getTransferDiff
  <2>3. diff.gidE \in Nat /\ diff.gidE <= rec1.gid
    BY <1>7, <2>1, <2>2
  <2> QED BY <1>2, <2>1, <2>3 DEF getTransferDiff, Diff
<1>9. TypeOK'
  BY <1>1, <1>3, <1>4, <1>8 DEF TypeOK, Pcs
<1>10. DeviceInv' /\ FilesInv'
  BY <1>1 DEF DeviceInv, FilesInv, Ordered, OnBoundary
<1>11. TransferInv'
  <2>1. RangeInv(rec0, rec1, lsidLimit, queue)'
    BY <1>1, <1>2 DEF RangeInv, Elems
  <2>2. getTransferDiff(rec0, rec1, lsidE)' \in delivered'
    BY <1>1 DEF getTransferDiff
  <2> QED BY <1>1, <1>2, <1>4, <1>6, <2>1, <2>2 DEF TransferInv
<1>12. rec1.gid <= LatestSnap(queue, done).gid
  <2>1. PICK i \in 1 .. Len(queue) : rec1 = queue[i]
    BY <1>5 DEF Elems
  <2>2. queue \in Seq(MetaLsidGid) /\ queue # <<>> /\ Len(queue) \in 1 .. Len(queue)
    BY <2>1 DEF TypeOK
  <2>3. LatestSnap(queue, done) = queue[Len(queue)]
    BY <2>2 DEF LatestSnap
  <2>4. i = Len(queue) \/ queue[i].gid < queue[Len(queue)].gid
    BY <2>2 DEF FilesInv, Ordered
  <2>5. queue[Len(queue)] \in MetaLsidGid
    BY <2>2
  <2> QED BY <1>3, <2>1, <2>3, <2>4, <2>5 DEF MetaLsidGid
<1>13. HistoryInv'
  <2>1. diff.gidE <= LatestSnap(queue, done).gid
    <3>1. LatestSnap(queue, done).gid \in Nat
      BY LatestSnapType DEF MetaLsidGid
    <3> QED BY <1>3, <1>8, <1>12, <3>1 DEF Diff, MetaLsidGid
  <2>2. diff.lsidE <= latest
    BY <1>4, <1>8 DEF DeviceInv
  <2>3. Elems(queue)' = Elems(queue) /\ LatestSnap(queue, done)' = LatestSnap(queue, done)
    BY <1>1 DEF Elems, LatestSnap
  <2> HIDE DEF diff
  <2> QED BY <1>1, <2>1, <2>2, <2>3 DEF HistoryInv
<1>14. SnapshotsExact'
  <2>1. ASSUME NEW s \in snaps
        PROVE  \/ diff.gidE <= s.gid /\ diff.lsidE <= s.lsid
               \/ diff.gidB >= s.gid /\ diff.lsidB >= s.lsid
    <3>1. s \in MetaLsidGid /\ done \in MetaLsidGid
      BY DEF TypeOK
    <3>2. CASE s.gid <= done.gid /\ s.lsid <= done.lsid
      BY <1>8, <3>1, <3>2 DEF MetaLsidGid
    <3>3. CASE s \in Elems(queue) /\ ~s.isMergeable /\ ~(s.gid <= done.gid /\ s.lsid <= done.lsid)
      <4>1. PICK i \in 1 .. Len(queue) : s = queue[i]
        BY <3>3 DEF Elems
      <4>2. done.gid < s.gid
        BY <3>1, <3>3, <4>1 DEF FilesInv, Ordered, MetaLsidGid
      <4>3. ~(s.gid < rec1.gid)
        BY <1>2, <3>3, <4>2 DEF RangeInv
      <4>4. PICK j \in 1 .. Len(queue) : rec1 = queue[j]
        BY <1>5 DEF Elems
      <4>5. rec1.lsid <= s.lsid
        <5>1. ~(i < j)
          BY <4>1, <4>3, <4>4 DEF FilesInv, Ordered
        <5>2. i = j \/ j < i
          BY <5>1
        <5> QED BY <1>3, <4>1, <4>4, <5>2 DEF FilesInv, Ordered, MetaLsidGid
      <4> QED BY <1>3, <1>4, <1>7, <1>8, <3>1, <4>3, <4>5 DEF MetaLsidGid, Diff
    <3> QED BY <3>2, <3>3 DEF HistoryInv
  <2> HIDE DEF diff
  <2> QED BY <1>1, <2>1 DEF SnapshotsExact
<1> QED BY <1>9, <1>10, <1>11, <1>13, <1>14

\* The done record moves to the end of the transfer: forwards, along the diff
\* just delivered, past no record that is not passed by the transfer.
LEMMA FinishStep ==
    ASSUME IInv, finishWlogTransfer
    PROVE  /\ IInv'
           /\ queue # <<>>
           /\ done.gid < done'.gid /\ done.lsid <= done'.lsid
           /\ \E d \in delivered : /\ d.gidB = done.gid  /\ d.lsidB = done.lsid
                                   /\ d.gidE = done'.gid /\ d.lsidE = done'.lsid
<1> USE DEF IInv
<1>1. pc = "ack" /\ rec0 = done /\ RangeInv(rec0, rec1, lsidLimit, queue)
  BY DEF finishWlogTransfer, TransferInv
<1>2. /\ lsidE \in packs /\ rec0.lsid <= lsidE /\ lsidE <= lsidLimit
      /\ lsidE # rec1.lsid => lsidLimit # rec1.lsid
      /\ getTransferDiff(rec0, rec1, lsidE) \in delivered
  BY <1>1 DEF TransferInv
<1>3. PICK k \in 1 .. Len(queue) : rec1 = queue[k]
  BY <1>1 DEF RangeInv, Elems
<1>4. queue \in Seq(MetaLsidGid) /\ queue # <<>>
  BY <1>3 DEF TypeOK
<1>5. /\ pc' = "trim" /\ done' = DoneRecord(rec0, rec1, lsidE)
      /\ UNCHANGED <<latest, permanent, prevWritten, oldest, packs, overflow, queue, maxPb,
                     rec0, rec1, lsidLimit, lsidE, delivered, snaps, nrCrashes>>
  BY <1>4 DEF finishWlogTransfer, dev, hist, local
<1>6. /\ done \in MetaLsidGid /\ rec1 \in MetaLsidGid /\ lsidE \in Nat /\ lsidLimit \in Nat
      /\ oldest \in Nat /\ permanent \in Nat
      /\ \A i \in 1 .. Len(queue) : queue[i] \in MetaLsidGid
  BY <1>4 DEF TypeOK
<1>7. /\ done.gid < rec1.gid /\ lsidLimit <= rec1.lsid /\ lsidLimit <= permanent
      /\ lsidLimit # rec1.lsid => done.gid + 1 < rec1.gid
  BY <1>1 DEF RangeInv
<1>8. /\ done' \in MetaLsidGid /\ done'.lsid = lsidE
      /\ done'.gid = (IF lsidE = rec1.lsid THEN rec1.gid ELSE done.gid + 1)
      /\ done.gid < done'.gid /\ done'.gid <= rec1.gid
      /\ done.lsid <= done'.lsid
  <2>1. CASE lsidE = rec1.lsid
    BY <1>1, <1>2, <1>5, <1>6, <1>7, <2>1 DEF DoneRecord, MetaLsidGid
  <2>2. CASE lsidE # rec1.lsid
    <3>1. done' = [lsid |-> lsidE, gid |-> done.gid + 1, isMergeable |-> TRUE]
      BY <1>1, <1>5, <2>2 DEF DoneRecord
    <3> QED BY <1>1, <1>2, <1>6, <1>7, <2>2, <3>1 DEF MetaLsidGid
  <2> QED BY <2>1, <2>2
<1>9. /\ getTransferDiff(rec0, rec1, lsidE).gidB = done.gid
      /\ getTransferDiff(rec0, rec1, lsidE).lsidB = done.lsid
      /\ getTransferDiff(rec0, rec1, lsidE).gidE = done'.gid
      /\ getTransferDiff(rec0, rec1, lsidE).lsidE = done'.lsid
  BY <1>1, <1>8 DEF getTransferDiff
<1>10. Ordered(queue, done')
  <2>1. ASSUME NEW i \in 1 .. Len(queue)
        PROVE  IF queue[i].gid <= done'.gid THEN queue[i].lsid <= done'.lsid
                                            ELSE queue[i].lsid >= done'.lsid
    <3>1. queue[i] \in MetaLsidGid
      BY <1>6
    <3>2. CASE lsidE = rec1.lsid
      <4>1. done'.gid = rec1.gid /\ done'.lsid = rec1.lsid
        BY <1>8, <3>2
      <4>2. i = k \/ i < k \/ k < i
        OBVIOUS
      <4>3. /\ i < k => queue[i].gid < rec1.gid /\ queue[i].lsid <= rec1.lsid
            /\ k < i => rec1.gid < queue[i].gid /\ rec1.lsid <= queue[i].lsid
        BY <1>3 DEF FilesInv, Ordered
      <4> QED BY <1>3, <1>6, <3>1, <4>1, <4>2, <4>3 DEF MetaLsidGid
    <3>3. CASE lsidE # rec1.lsid /\ queue[i].gid <= done.gid
      <4>1. queue[i].lsid <= done.lsid
        BY <3>3 DEF FilesInv, Ordered
      <4> QED BY <1>6, <1>8, <3>1, <3>3, <4>1 DEF MetaLsidGid
    <3>4. CASE lsidE # rec1.lsid /\ ~(queue[i].gid <= done.gid)
      <4>1. queue[i] \in Elems(queue) /\ done.gid < queue[i].gid
        BY <1>6, <3>1, <3>4 DEF Elems, MetaLsidGid
      <4>2. ~(queue[i].gid < rec1.gid)
        BY <1>1, <1>2, <3>4, <4>1 DEF RangeInv
      <4>3. i = k \/ k < i
        BY <1>3, <4>2 DEF FilesInv, Ordered
      <4>4. rec1.lsid <= queue[i].lsid
        BY <1>3, <1>6, <4>3 DEF FilesInv, Ordered, MetaLsidGid
      <4>5. lsidE <= queue[i].lsid
        BY <1>2, <1>6, <1>7, <3>1, <4>4 DEF MetaLsidGid
      <4>6. ~(queue[i].gid <= done'.gid)
        <5>1. done'.gid = done.gid + 1 /\ done.gid + 1 < rec1.gid
          BY <1>2, <1>7, <1>8, <3>4
        <5> QED BY <1>6, <3>1, <4>2, <5>1 DEF MetaLsidGid
      <4> QED BY <1>6, <1>8, <3>1, <4>5, <4>6 DEF MetaLsidGid
    <3> QED BY <3>2, <3>3, <3>4
  <2>2. done'.gid <= queue[Len(queue)].gid
    <3>1. Len(queue) \in 1 .. Len(queue) /\ (k = Len(queue) \/ k < Len(queue))
      BY <1>3, <1>4
    <3>2. rec1.gid <= queue[Len(queue)].gid
      BY <1>3, <1>6, <3>1 DEF FilesInv, Ordered, MetaLsidGid
    <3> QED BY <1>6, <1>8, <3>1, <3>2 DEF MetaLsidGid
  <2> QED BY <2>1, <2>2 DEF FilesInv, Ordered
<1>11. TypeOK'
  BY <1>5, <1>8 DEF TypeOK, Pcs
<1>12. DeviceInv'
  BY <1>5 DEF DeviceInv
<1>13. FilesInv'
  <2>1. Ordered(queue, done)' /\ OnBoundary(queue)'
    BY <1>5, <1>10 DEF Ordered, FilesInv, OnBoundary
  <2>2. done'.lsid \in packs /\ done'.lsid <= permanent
    BY <1>2, <1>6, <1>7, <1>8
  <2>3. oldest <= done'.lsid
    BY <1>6, <1>8 DEF FilesInv, MetaLsidGid
  <2> QED BY <1>5, <2>1, <2>2, <2>3 DEF FilesInv
<1>14. TransferInv'
  BY <1>5 DEF TransferInv, DoneRecord
<1>15. HistoryInv'
  <2>1. ASSUME NEW s \in snaps
        PROVE  \/ s.gid <= done'.gid /\ s.lsid <= done'.lsid
               \/ s \in Elems(queue) /\ ~s.isMergeable
    <3>1. s \in MetaLsidGid
      BY DEF TypeOK
    <3>2. CASE s.gid <= done.gid /\ s.lsid <= done.lsid
      BY <1>6, <1>8, <3>1, <3>2 DEF MetaLsidGid
    <3>3. CASE s \in Elems(queue) /\ ~s.isMergeable
      BY <3>3
    <3> QED BY <3>2, <3>3 DEF HistoryInv
  <2>2. Elems(queue)' = Elems(queue) /\ LatestSnap(queue, done)' = LatestSnap(queue, done)
    BY <1>4, <1>5 DEF Elems, LatestSnap
  <2> QED BY <1>5, <2>1, <2>2 DEF HistoryInv
<1>16. SnapshotsExact'
  BY <1>5 DEF SnapshotsExact
<1> QED BY <1>2, <1>4, <1>8, <1>9, <1>11, <1>12, <1>13, <1>14, <1>15, <1>16

-----------------------------------------------------------------------------
(* The theorems. *)

\* Every step of the specification preserves the inductive invariant.
LEMMA NextIInv == IInv /\ [Next]_vars => IInv'
<1> SUFFICES ASSUME IInv, [Next]_vars PROVE IInv'
  OBVIOUS
<1>1. /\ oldest \in Nat /\ oldest <= done.lsid /\ nrCrashes \in Nat
      /\ maxPb \in MaxWlogSendPbs
  BY DEF IInv, TypeOK, FilesInv
<1>2. CASE Device
  BY <1>2, DeviceStep
<1>3. CASE takeSnapshot
  BY <1>3, TakeSnapshotStep
<1>4. CASE BeginTransfer
  <2>1. oldest' \in Nat /\ oldest' <= done.lsid
    BY <1>4, EraseStep DEF BeginTransfer
  <2> QED BY <1>1, <1>4, <2>1, ControlStep DEF BeginTransfer, deleteGarbageWlogs, files, hist
<1>5. CASE mayWlogTransferBeRequiredNow
  BY <1>1, <1>5, ControlStep DEF mayWlogTransferBeRequiredNow, dev, files, hist
<1>6. CASE prepareWlogTransfer
  BY <1>6, PrepareStep
<1>7. CASE SendWlog
  BY <1>7, SendStep
<1>8. CASE TransferFails
  BY <1>1, <1>8, ControlStep DEF TransferFails, dev, files, hist
<1>9. CASE finishWlogTransfer
  BY <1>9, FinishStep
<1>10. CASE trimQueue
  BY <1>10, TrimStep
<1>11. CASE EndTransfer
  <2>1. oldest' \in Nat /\ oldest' <= done.lsid
    BY <1>11, EraseStep DEF EndTransfer
  <2> QED BY <1>1, <1>11, <2>1, ControlStep DEF EndTransfer, deleteGarbageWlogs, files, hist
<1>12. CASE CrashAndRestart
  BY <1>1, <1>12, ControlStep DEF CrashAndRestart, dev, files
<1>13. CASE UNCHANGED vars
  <2>1. /\ UNCHANGED <<latest, permanent, prevWritten, oldest, packs, overflow, done, queue,
                       maxPb, pc>>
        /\ UNCHANGED <<rec0, rec1, lsidLimit, lsidE, delivered, snaps, nrCrashes>>
    BY <1>13 DEF vars, dev, files, local, hist
  <2>2. TypeOK' /\ DeviceInv' /\ FilesInv'
    BY <2>1 DEF IInv, TypeOK, DeviceInv, FilesInv, Ordered, OnBoundary
  <2>3. TransferInv'
    BY <2>1 DEF IInv, TransferInv, RangeInv, Elems, getTransferDiff, DoneRecord
  <2>4. HistoryInv' /\ SnapshotsExact'
    BY <2>1 DEF IInv, HistoryInv, SnapshotsExact, Elems, LatestSnap
  <2> QED BY <2>2, <2>3, <2>4 DEF IInv
<1> QED BY <1>2, <1>3, <1>4, <1>5, <1>6, <1>7, <1>8, <1>9, <1>10, <1>11, <1>12, <1>13
        DEF Next, Worker

\* Every reachable state of a wlog transfer satisfies the inductive invariant:
\* the queue file, the done file and the locals of the transfer fit together.
THEOREM InductiveInvariant == Spec => []IInv
BY InitIInv, NextIInv, PTL DEF Spec

\* Type correctness of the device, the files and the transfer's locals.
THEOREM TypeCorrect == Spec => []TypeOK
<1>1. IInv => TypeOK
  BY DEF IInv
<1> QED BY <1>1, InductiveInvariant, PTL

\* The queue file stays sorted by gid and by lsid around the done record, in
\* spite of crashes between the two writes of finishWlogTransfer.
THEOREM QueueIsOrdered == Spec => []SnapshotOrder
<1>1. IInv => SnapshotOrder
  BY DEF IInv, FilesInv, Ordered, SnapshotOrder
<1> QED BY <1>1, InductiveInvariant, PTL

\* None of the assertions of getEndSnapshot, getTransferDiff and
\* finishWlogTransfer fails, whatever maxWlogSendMb the daemon restarts with.
THEOREM AssertionsHold == Spec => []AssertsHold
<1>1. IInv => AssertsHold
  <2> SUFFICES ASSUME IInv PROVE AssertsHold
    OBVIOUS
  <2>1. ASSUME pc \in {"send", "ack"}
        PROVE  rec0.gid < rec1.gid /\ rec0.lsid <= rec1.lsid
    BY <2>1 DEF IInv, TransferInv, RangeInv, TypeOK, MetaLsidGid
  <2>2. ASSUME pc = "ack"
        PROVE  /\ rec0.lsid <= lsidE /\ lsidE <= rec1.lsid
               /\ lsidE # rec1.lsid => rec0.gid + 1 < rec1.gid
               /\ queue # <<>>
    <3>1. RangeInv(rec0, rec1, lsidLimit, queue) /\ rec0.lsid <= lsidE /\ lsidE <= lsidLimit
          /\ (lsidE # rec1.lsid => lsidLimit # rec1.lsid)
      BY <2>2 DEF IInv, TransferInv
    <3>2. queue # <<>>
      BY <3>1 DEF RangeInv, Elems, IInv, TypeOK
    <3>3. lsidE \in Nat /\ lsidLimit \in Nat /\ rec1 \in MetaLsidGid
      BY DEF IInv, TypeOK
    <3> QED BY <3>1, <3>2, <3>3 DEF RangeInv, MetaLsidGid
  <2> QED BY <2>1, <2>2 DEF AssertsHold
<1> QED BY <1>1, InductiveInvariant, PTL

\* No logpack is erased before a proxy has acknowledged it, nor while it is
\* being read.
THEOREM WlogIsKept == Spec => []WlogKept
<1>1. IInv => WlogKept
  BY DEF IInv, FilesInv, TransferInv, WlogKept
<1> QED BY <1>1, InductiveInvariant, PTL

\* No delivered diff reaches over an explicit snapshot.
THEOREM SnapshotsAreExact == Spec => []SnapshotsExact
<1>1. IInv => SnapshotsExact
  BY DEF IInv
<1> QED BY <1>1, InductiveInvariant, PTL

\* The done record follows the diffs that were delivered, one at a time.
THEOREM DoneIsDelivered == Spec => DoneFollowsDelivery
<1>1. ASSUME IInv, [Next]_vars, done' # done
      PROVE  /\ done.gid < done'.gid /\ done.lsid <= done'.lsid
             /\ \E d \in delivered : /\ d.gidB = done.gid  /\ d.lsidB = done.lsid
                                     /\ d.gidE = done'.gid /\ d.lsidE = done'.lsid
  <2>1. finishWlogTransfer
    BY <1>1 DEF Next, Worker, Device, WriteLogpack, MakePermanent, Checkpoint, takeSnapshot,
         BeginTransfer, mayWlogTransferBeRequiredNow, prepareWlogTransfer, SendWlog,
         TransferFails, trimQueue, EndTransfer, CrashAndRestart, vars, files
  <2> QED BY <1>1, <2>1, FinishStep
<1>2. IInv /\ [Next]_vars =>
         [done' # done =>
            /\ done.gid < done'.gid /\ done.lsid <= done'.lsid
            /\ \E d \in delivered : /\ d.gidB = done.gid  /\ d.lsidB = done.lsid
                                    /\ d.gidE = done'.gid /\ d.lsidE = done'.lsid]_vars
  BY <1>1
<1> QED BY <1>2, InductiveInvariant, PTL DEF Spec, DoneFollowsDelivery

-----------------------------------------------------------------------------
(* Gids and lsids. *)

\* The daemon keeps its maxWlogSendMb.
Steady == nrCrashes = 0 \/ \A m, n \in MaxWlogSendPbs : m = n

Place == [gid : Nat, lsid : Nat]

PlaceOf(rec) == [gid |-> rec.gid, lsid |-> rec.lsid]

Agree(p, r) ==
    /\ p.gid = r.gid => p.lsid = r.lsid
    /\ p.gid < r.gid => p.lsid <= r.lsid

\* Where a transfer from rec is cut: at the last logpack within the limit.
IsCut(p, rec) ==
    /\ p.gid = rec.gid + 1
    /\ rec.lsid + maxPb <= permanent
    /\ p.lsid \in packs /\ p.lsid <= rec.lsid + maxPb
    /\ \A b \in packs : b <= rec.lsid + maxPb => b <= p.lsid

\* The known places ps, the queue q and the done record rec agree; what of ps
\* is ahead of rec is a record of q or the place at which the transfer is cut.
PlacesInv(ps, q, rec) ==
    /\ \A p, r \in ps \cup {PlaceOf(rec)} \cup {PlaceOf(x) : x \in Elems(q)} : Agree(p, r)
    /\ \A p \in ps : p.gid <= LatestSnap(q, rec).gid /\ p.lsid <= latest
    /\ \A p \in ps : rec.gid < p.gid => p \in {PlaceOf(x) : x \in Elems(q)} \/ IsCut(p, rec)

\* A transfer that is cut is cut at maxWlogSendPb.
CutInv == pc \in {"send", "ack"} /\ lsidLimit # rec1.lsid => lsidLimit = rec0.lsid + maxPb

GidInv == CutInv /\ (Steady => PlacesInv(Points, queue, done))

\* What is known of a place.
LEMMA PointsArePlaces == ASSUME TypeOK PROVE Points \subseteq Place
<1>1. /\ \A d \in delivered : d.gidB \in Nat /\ d.lsidB \in Nat /\ d.gidE \in Nat /\ d.lsidE \in Nat
      /\ \A s \in snaps : s.gid \in Nat /\ s.lsid \in Nat
  BY DEF TypeOK, Diff, MetaLsidGid
<1> QED BY <1>1 DEF Points, Place

\* Records are places.
LEMMA RecordsArePlaces ==
    ASSUME NEW q \in Seq(MetaLsidGid), NEW x \in Elems(q)
    PROVE  /\ x \in MetaLsidGid /\ PlaceOf(x) \in Place
           /\ PlaceOf(x).gid = x.gid /\ PlaceOf(x).lsid = x.lsid
<1>1. x \in MetaLsidGid
  BY DEF Elems
<1> QED BY <1>1 DEF PlaceOf, Place, MetaLsidGid

\* The newest record of a queue, or the record before it.
LEMMA LatestSnapOf ==
    ASSUME NEW q \in Seq(MetaLsidGid), NEW rec \in MetaLsidGid
    PROVE  LatestSnap(q, rec) \in MetaLsidGid
<1>1. CASE q = <<>>
  BY <1>1 DEF LatestSnap
<1>2. CASE q # <<>>
  <2>1. Len(q) \in 1 .. Len(q)
    BY <1>2
  <2> QED BY <1>2, <2>1 DEF LatestSnap
<1> QED BY <1>1, <1>2

\* Removing the records behind the done record leaves every place known.
LEMMA PlacesTrim ==
    ASSUME NEW ps \in SUBSET Place, NEW q \in Seq(MetaLsidGid), NEW rec \in MetaLsidGid,
           Ordered(q, rec), PlacesInv(ps, q, rec), NEW r, r = removeOldRecords(q, rec)
    PROVE  PlacesInv(ps, r, rec)
<1>1. /\ r \in Seq(MetaLsidGid)
      /\ Elems(r) = {x \in Elems(q) : rec.gid < x.gid}
      /\ LatestSnap(r, rec).gid >= LatestSnap(q, rec).gid
  BY RemoveOldProperty
<1>2. LatestSnap(r, rec).gid \in Nat /\ LatestSnap(q, rec).gid \in Nat
  BY <1>1, LatestSnapOf DEF MetaLsidGid
<1>3. \A p \in ps : p.gid \in Nat
  BY DEF Place
<1>4. \A p \in ps : p.gid <= LatestSnap(r, rec).gid /\ p.lsid <= latest
  BY <1>1, <1>2, <1>3 DEF PlacesInv
<1>5. \A x \in Elems(q) : PlaceOf(x).gid = x.gid
  BY RecordsArePlaces
<1>6. ASSUME NEW p \in ps, rec.gid < p.gid
      PROVE  p \in {PlaceOf(x) : x \in Elems(r)} \/ IsCut(p, rec)
  BY <1>1, <1>5, <1>6 DEF PlacesInv
<1>7. {PlaceOf(x) : x \in Elems(r)} \subseteq {PlaceOf(x) : x \in Elems(q)}
  BY <1>1
<1> QED BY <1>4, <1>6, <1>7 DEF PlacesInv

\* A snapshot at the end of the log agrees with all that is known.
LEMMA PlacesPush ==
    ASSUME TypeOK, DeviceInv, NEW q \in Seq(MetaLsidGid), Ordered(q, done), OnBoundary(q),
           done.lsid \in packs, NEW m \in BOOLEAN, NEW rec,
           rec = SnapshotRecord(LatestSnap(q, done), maxPb, m, latest),
           LatestSnap(q, done).lsid <= latest,
           NEW ps \in SUBSET Place, PlacesInv(ps, q, done),
           NEW ps2, ps2 \subseteq ps \cup {PlaceOf(rec)}
    PROVE  PlacesInv(ps2, Append(q, rec), done)
<1>1. /\ rec \in MetaLsidGid /\ rec.lsid = latest
      /\ LatestSnap(q, done).gid < rec.gid /\ done.gid < rec.gid
      /\ \A x \in Elems(q) : x.gid < rec.gid /\ x.lsid <= latest
      /\ Elems(Append(q, rec)) = Elems(q) \cup {rec}
      /\ LatestSnap(Append(q, rec), done) = rec
  BY PushSnapshotProperty
<1>2. /\ done \in MetaLsidGid /\ latest \in Nat /\ done.lsid <= latest
      /\ LatestSnap(q, done).gid \in Nat
  <2>1. done \in MetaLsidGid /\ latest \in Nat /\ done.lsid <= latest
    BY DEF TypeOK, DeviceInv
  <2> QED BY <2>1, LatestSnapOf DEF MetaLsidGid
<1> DEFINE old == ps \cup {PlaceOf(done)} \cup {PlaceOf(x) : x \in Elems(q)}
           new == PlaceOf(rec)
<1>3. new \in Place /\ new.gid = rec.gid /\ new.lsid = latest
  BY <1>1 DEF PlaceOf, Place, MetaLsidGid
<1>4. ASSUME NEW p \in old
      PROVE  p \in Place /\ p.gid < new.gid /\ p.lsid <= new.lsid
  <2>1. CASE p \in ps
    BY <1>1, <1>2, <1>3, <2>1 DEF PlacesInv, Place
  <2>2. CASE p = PlaceOf(done)
    BY <1>1, <1>2, <1>3, <2>2 DEF PlaceOf, Place, MetaLsidGid
  <2>3. CASE p \in {PlaceOf(x) : x \in Elems(q)}
    BY <1>1, <1>3, <2>3, RecordsArePlaces
  <2> QED BY <2>1, <2>2, <2>3
<1>5. \A p, r \in old : Agree(p, r)
  BY DEF PlacesInv
<1> HIDE DEF old, new
<1>6. \A p, r \in old \cup {new} : Agree(p, r)
  BY <1>3, <1>4, <1>5 DEF Agree, Place
<1>7. ps2 \cup {PlaceOf(done)} \cup {PlaceOf(x) : x \in Elems(Append(q, rec))} \subseteq old \cup {new}
  BY <1>1 DEF old, new
<1>8. \A p \in ps2 : p.gid <= rec.gid /\ p.lsid <= latest
  <2>1. ps2 \subseteq old \cup {new}
    BY DEF old, new
  <2> QED BY <1>1, <1>2, <1>3, <1>4, <2>1 DEF Place
<1>9. ASSUME NEW p \in ps2, done.gid < p.gid
      PROVE  p \in {PlaceOf(x) : x \in Elems(Append(q, rec))} \/ IsCut(p, done)
  BY <1>1, <1>9 DEF PlacesInv
<1> QED BY <1>1, <1>6, <1>7, <1>8, <1>9 DEF PlacesInv

\* Steps that leave the files and the history alone: new logpacks lie beyond the
\* place of any cut.
LEMMA PlacesKept ==
    ASSUME TypeOK, TypeOK', DeviceInv, PlacesInv(Points, queue, done),
           UNCHANGED <<delivered, snaps, done, queue, maxPb>>,
           latest <= latest', permanent <= permanent', packs \subseteq packs',
           \A b \in packs' : b \in packs \/ permanent < b
    PROVE  PlacesInv(Points, queue, done)'
<1>1. Points' = Points /\ Points \subseteq Place
  BY PointsArePlaces DEF Points
<1>2. Elems(queue)' = Elems(queue) /\ LatestSnap(queue, done)' = LatestSnap(queue, done)
  BY DEF Elems, LatestSnap
<1>3. /\ latest \in Nat /\ latest' \in Nat /\ permanent \in Nat /\ permanent' \in Nat
      /\ packs' \subseteq Nat /\ done.lsid \in Nat /\ maxPb \in Nat
  BY MaxWlogSendPbsAssumption DEF TypeOK, MetaLsidGid
<1>4. ASSUME NEW p \in Points, IsCut(p, done) PROVE IsCut(p, done)'
  <2>1. /\ p.gid = done.gid + 1 /\ done.lsid + maxPb <= permanent /\ p.lsid \in packs
        /\ p.lsid <= done.lsid + maxPb
        /\ \A b \in packs : b <= done.lsid + maxPb => b <= p.lsid
    BY <1>4 DEF IsCut
  <2>2. p.lsid \in packs'
    BY <2>1
  <2>3. PICK l \in Nat : l = done.lsid + maxPb
    BY <1>3
  <2>4. done.lsid + maxPb <= permanent'
    BY <1>3, <2>1, <2>3
  <2>5. \A b \in packs' : b <= done.lsid + maxPb => b <= p.lsid
    BY <1>3, <2>1
  <2> QED BY <2>1, <2>2, <2>4, <2>5 DEF IsCut
<1>5. \A p \in Points : p.lsid <= latest'
  BY <1>1, <1>3 DEF PlacesInv, Place
<1> QED BY <1>1, <1>2, <1>4, <1>5 DEF PlacesInv

\* What is sent ends at a record or at the cut, which is the same in every attempt.
LEMMA PlacesSend ==
    ASSUME IInv, CutInv, PlacesInv(Points, queue, done), SendWlog
    PROVE  PlacesInv(Points, queue, done)'
<1>1. /\ pc = "send" /\ rec0 = done
      /\ lsidE' = SentEnd(rec0.lsid, lsidLimit)
      /\ delivered' = delivered \cup {getTransferDiff(rec0, rec1, lsidE')}
      /\ UNCHANGED <<latest, permanent, packs, done, queue, maxPb, snaps>>
  BY DEF SendWlog, dev, files, IInv, TransferInv
<1>2. RangeInv(done, rec1, lsidLimit, queue)
  BY <1>1 DEF IInv, TransferInv
<1>3. /\ TypeOK /\ done \in MetaLsidGid /\ packs \subseteq Nat /\ lsidLimit \in Nat
      /\ done.lsid \in packs /\ done.lsid <= lsidLimit /\ rec1 \in Elems(queue)
      /\ queue \in Seq(MetaLsidGid) /\ maxPb \in Nat /\ rec1 \in MetaLsidGid
      /\ lsidLimit <= rec1.lsid /\ lsidLimit <= permanent /\ permanent \in Nat
  BY <1>1, <1>2, MaxWlogSendPbsAssumption DEF IInv, TypeOK, FilesInv, RangeInv
<1>4. PICK e : e = lsidE'
  OBVIOUS
<1>5. /\ e \in packs /\ e \in Nat /\ done.lsid <= e /\ e <= lsidLimit
      /\ \A c \in packs : c <= lsidLimit => c <= e
  BY <1>1, <1>3, <1>4, SentEndProperty
<1>6. PICK c : c = [gid |-> getTransferDiff(rec0, rec1, e).gidE, lsid |-> e]
  OBVIOUS
<1>7. Points' = Points \cup {PlaceOf(done), c}
  <2>1. PICK d : d = getTransferDiff(rec0, rec1, e)
    OBVIOUS
  <2>2. d.gidB = done.gid /\ d.lsidB = done.lsid /\ d.gidE = c.gid /\ d.lsidE = c.lsid
    BY <1>1, <1>6, <2>1 DEF getTransferDiff
  <2>3. delivered' = delivered \cup {d} /\ snaps' = snaps
    BY <1>1, <1>4, <2>1
  <2>4. c = [gid |-> d.gidE, lsid |-> d.lsidE] /\ PlaceOf(done) = [gid |-> d.gidB, lsid |-> d.lsidB]
    BY <1>6, <2>1, <2>2 DEF PlaceOf
  <2> QED BY <2>3, <2>4 DEF Points
<1> DEFINE old == Points \cup {PlaceOf(done)} \cup {PlaceOf(x) : x \in Elems(queue)}
<1>8. \A p \in old : p \in Place
  BY <1>3, PointsArePlaces, RecordsArePlaces DEF PlaceOf, Place, MetaLsidGid
<1>9. LatestSnap(queue, done) \in MetaLsidGid /\ latest \in Nat /\ e <= latest
      /\ done.lsid <= latest /\ \A p \in old : p.lsid <= latest
  <2>1. /\ latest \in Nat /\ \A b \in packs : b <= latest
        /\ \A x \in Elems(queue) : x.lsid \in packs
    BY DEF IInv, TypeOK, DeviceInv, FilesInv, OnBoundary, Elems
  <2>2. \A x \in Elems(queue) : PlaceOf(x).lsid = x.lsid
    BY <1>3, RecordsArePlaces
  <2>3. PlaceOf(done).lsid = done.lsid
    BY DEF PlaceOf
  <2> QED BY <1>3, <1>5, <2>1, <2>2, <2>3, LatestSnapOf DEF PlacesInv
<1>10. \A x \in Elems(queue) : x.gid <= LatestSnap(queue, done).gid
  <2> SUFFICES ASSUME NEW i \in 1 .. Len(queue)
               PROVE  queue[i].gid <= LatestSnap(queue, done).gid
    BY DEF Elems
  <2>1. queue # <<>> /\ Len(queue) \in 1 .. Len(queue) /\ queue[i] \in MetaLsidGid
    BY <1>3
  <2>2. i = Len(queue) \/ queue[i].gid < queue[Len(queue)].gid
    BY <2>1 DEF IInv, FilesInv, Ordered
  <2> QED BY <1>9, <2>1, <2>2 DEF LatestSnap, MetaLsidGid
<1>11. done.gid < rec1.gid /\ rec1.gid <= LatestSnap(queue, done).gid
  BY <1>2, <1>3, <1>10 DEF RangeInv
<1> HIDE DEF old
<1>12. /\ c \in Place /\ c.gid <= LatestSnap(queue, done).gid /\ c.lsid <= latest
       /\ \A p \in old : Agree(p, c) /\ Agree(c, p)
       /\ c \in {PlaceOf(x) : x \in Elems(queue)} \/ IsCut(c, done)
  <2>1. CASE e = rec1.lsid
    <3>1. c = PlaceOf(rec1)
      BY <1>6, <2>1 DEF getTransferDiff, PlaceOf
    <3>2. c \in {PlaceOf(x) : x \in Elems(queue)} /\ c \in old /\ c \in Place
      BY <1>3, <1>8, <3>1 DEF old
    <3>3. c.gid = rec1.gid /\ c.lsid = rec1.lsid
      BY <3>1 DEF PlaceOf
    <3>4. \A p \in old : Agree(p, c) /\ Agree(c, p)
      BY <3>2 DEF PlacesInv, old
    <3> QED BY <1>9, <1>11, <2>1, <3>2, <3>3, <3>4
  <2>2. CASE e # rec1.lsid
    <3>1. lsidLimit # rec1.lsid
      <4>1. rec1.lsid \in packs
        BY <1>3 DEF IInv, FilesInv, OnBoundary, Elems
      <4> QED BY <1>3, <1>5, <2>2, <4>1 DEF MetaLsidGid
    <3>2. /\ lsidLimit = done.lsid + maxPb /\ done.gid + 1 < rec1.gid
          /\ \A x \in Elems(queue) : ~(done.gid < x.gid /\ x.gid < rec1.gid)
      BY <1>1, <1>2, <3>1 DEF CutInv, RangeInv
    <3>3. c = [gid |-> done.gid + 1, lsid |-> e]
      BY <1>1, <1>6, <2>2 DEF getTransferDiff
    <3>4. IsCut(c, done)
      BY <1>3, <1>5, <3>2, <3>3 DEF IsCut
    <3>5. c \in Place /\ c.gid = done.gid + 1 /\ c.lsid = e
      BY <1>3, <1>5, <3>3 DEF Place, MetaLsidGid
    <3>6. ASSUME NEW x \in Elems(queue)
          PROVE  /\ x.gid <= done.gid => x.lsid <= done.lsid
                 /\ done.gid < x.gid => done.gid + 1 < x.gid /\ e <= x.lsid
      <4>1. PICK i \in 1 .. Len(queue), k \in 1 .. Len(queue) : x = queue[i] /\ rec1 = queue[k]
        BY <1>3 DEF Elems
      <4>2. x \in MetaLsidGid
        BY <1>3, <4>1
      <4>3. x.gid <= done.gid => x.lsid <= done.lsid
        BY <4>1 DEF IInv, FilesInv, Ordered
      <4>4. ASSUME done.gid < x.gid PROVE done.gid + 1 < x.gid /\ e <= x.lsid
        <5>1. ~(x.gid < rec1.gid)
          BY <3>2, <4>4
        <5>2. ~(i < k)
          BY <4>1, <5>1 DEF IInv, FilesInv, Ordered
        <5>3. i = k \/ k < i
          BY <5>2
        <5>4. rec1.lsid <= x.lsid
          BY <1>3, <4>1, <5>3 DEF IInv, FilesInv, Ordered, MetaLsidGid
        <5>5. done.gid + 1 < x.gid
          BY <1>3, <3>2, <4>2, <5>1 DEF MetaLsidGid
        <5>6. e <= x.lsid
          BY <1>3, <1>5, <4>2, <5>4 DEF MetaLsidGid
        <5> QED BY <5>5, <5>6
      <4> QED BY <4>3, <4>4
    <3>7. ASSUME NEW p \in old
          PROVE  Agree(p, c) /\ Agree(c, p)
      <4>1. p \in Place
        BY <1>8 DEF old
      <4>2. CASE p = PlaceOf(done)
        <5>1. p.gid = done.gid /\ p.lsid = done.lsid
          BY <4>2 DEF PlaceOf
        <5> QED BY <1>3, <1>5, <3>5, <5>1 DEF Agree, MetaLsidGid
      <4>3. ASSUME NEW x \in Elems(queue), p = PlaceOf(x) PROVE Agree(p, c) /\ Agree(c, p)
        <5>1. p.gid = x.gid /\ p.lsid = x.lsid /\ x \in MetaLsidGid
          BY <1>3, <4>3, RecordsArePlaces
        <5>2. CASE x.gid <= done.gid
          BY <1>3, <1>5, <3>5, <3>6, <5>1, <5>2 DEF Agree, MetaLsidGid
        <5>3. CASE done.gid < x.gid
          BY <1>3, <1>5, <3>5, <3>6, <5>1, <5>3 DEF Agree, MetaLsidGid
        <5> QED BY <1>3, <5>1, <5>2, <5>3 DEF MetaLsidGid
      <4>4. CASE p \in Points /\ p.gid <= done.gid
        <5>1. PlaceOf(done) \in old
          BY DEF old
        <5>2. Agree(p, PlaceOf(done))
          BY <5>1 DEF PlacesInv, old
        <5>3. p.lsid <= done.lsid
          BY <1>3, <4>1, <4>4, <5>2 DEF Agree, PlaceOf, Place, MetaLsidGid
        <5> QED BY <1>3, <1>5, <3>5, <4>1, <4>4, <5>3 DEF Agree, Place, MetaLsidGid
      <4>5. CASE p \in Points /\ done.gid < p.gid /\ IsCut(p, done)
        <5>1. p.gid = done.gid + 1
          BY <4>5 DEF IsCut
        <5>2. p.lsid <= e /\ e <= p.lsid
          BY <1>3, <1>5, <3>2, <4>5 DEF IsCut
        <5>3. p.lsid = e
          BY <1>5, <4>1, <5>2 DEF Place
        <5> QED BY <3>5, <5>1, <5>3 DEF Agree, Place
      <4>6. CASE p \in Points /\ done.gid < p.gid /\ ~IsCut(p, done)
        BY <4>3, <4>6 DEF PlacesInv
      <4>7. p.gid <= done.gid \/ done.gid < p.gid
        BY <1>3, <4>1 DEF Place, MetaLsidGid
      <4> QED BY <4>2, <4>3, <4>4, <4>5, <4>6, <4>7 DEF old
    <3>8. c.gid <= LatestSnap(queue, done).gid
      BY <1>3, <1>9, <1>11, <3>2, <3>5 DEF MetaLsidGid
    <3> QED BY <1>9, <3>4, <3>5, <3>7, <3>8
  <2> QED BY <2>1, <2>2
<1>13. \A p, r \in old : Agree(p, r)
  BY DEF PlacesInv, old
<1>14. Agree(c, c)
  BY <1>12 DEF Agree, Place
<1>15. Points' \cup {PlaceOf(done)} \cup {PlaceOf(x) : x \in Elems(queue)} = old \cup {c}
  BY <1>7 DEF old
<1>16. \A p \in Points' : p.gid <= LatestSnap(queue, done).gid /\ p.lsid <= latest
  <2>1. PlaceOf(done).gid <= LatestSnap(queue, done).gid /\ PlaceOf(done).lsid <= latest
    BY <1>3, <1>9, <1>11 DEF PlaceOf, MetaLsidGid
  <2> QED BY <1>7, <1>12, <2>1 DEF PlacesInv
<1>17. \A p \in Points' : done.gid < p.gid =>
            p \in {PlaceOf(x) : x \in Elems(queue)} \/ IsCut(p, done)
  <2>1. ~(done.gid < PlaceOf(done).gid)
    BY <1>3 DEF PlaceOf, MetaLsidGid
  <2> QED BY <1>7, <1>12, <2>1 DEF PlacesInv
<1>18. PlacesInv(Points', queue, done)
  BY <1>12, <1>13, <1>14, <1>15, <1>16, <1>17 DEF PlacesInv
<1> QED BY <1>1, <1>18 DEF PlacesInv, Elems, LatestSnap, IsCut

\* The new done record is a place that is known; what is ahead of it is in the queue.
LEMMA PlacesFinish ==
    ASSUME IInv, PlacesInv(Points, queue, done), finishWlogTransfer
    PROVE  PlacesInv(Points, queue, done)'
<1>1. /\ queue # <<>> /\ done.gid < done'.gid
      /\ \E d \in delivered : d.gidE = done'.gid /\ d.lsidE = done'.lsid
      /\ TypeOK /\ TypeOK'
  BY FinishStep DEF IInv
<1>2. UNCHANGED <<latest, permanent, packs, queue, maxPb, delivered, snaps>>
  BY DEF finishWlogTransfer, dev, hist
<1>3. PlaceOf(done') \in Points
  BY <1>1 DEF Points, PlaceOf
<1>4. done.gid \in Nat /\ done'.gid \in Nat /\ Points \subseteq Place
  BY <1>1, PointsArePlaces DEF TypeOK, MetaLsidGid
<1>5. LatestSnap(queue, done') = LatestSnap(queue, done)
  BY <1>1 DEF LatestSnap
<1>6. ASSUME NEW p \in Points, done'.gid < p.gid
      PROVE  p \in {PlaceOf(x) : x \in Elems(queue)}
  <2>1. p.gid \in Nat
    BY <1>4 DEF Place
  <2>2. done.gid < p.gid /\ p.gid # done.gid + 1
    BY <1>1, <1>4, <1>6, <2>1
  <2> QED BY <2>2 DEF PlacesInv, IsCut
<1>7. Points \cup {PlaceOf(done')} \cup {PlaceOf(x) : x \in Elems(queue)}
        \subseteq Points \cup {PlaceOf(done)} \cup {PlaceOf(x) : x \in Elems(queue)}
  BY <1>3
<1>8. PlacesInv(Points, queue, done')
  BY <1>5, <1>6, <1>7 DEF PlacesInv
<1>9. Points' = Points
  BY <1>2 DEF Points
<1> QED BY <1>2, <1>8, <1>9 DEF PlacesInv, Elems, LatestSnap, IsCut

\* Only prepareWlogTransfer begins a transfer, and it cuts it at maxWlogSendPb.
LEMMA CutStep == IInv /\ CutInv /\ [Next]_vars => CutInv'
<1> SUFFICES ASSUME IInv, CutInv, [Next]_vars PROVE CutInv'
  OBVIOUS
<1>1. CASE prepareWlogTransfer
  <2>1. UNCHANGED maxPb
    BY <1>1 DEF prepareWlogTransfer
  <2>2. \/ pc' = "idle"
        \/ \E r, n : rec0' = done /\ rec1' = r /\ lsidLimit' = EndLsid(done, r, n, maxPb)
    BY <1>1, ZenonT(40) DEF prepareWlogTransfer
  <2> QED BY <2>1, <2>2 DEF CutInv, EndLsid
<1>2. CASE ~prepareWlogTransfer
  BY <1>2 DEF Next, Worker, Device, WriteLogpack, MakePermanent, Checkpoint, takeSnapshot,
     BeginTransfer, mayWlogTransferBeRequiredNow, SendWlog, TransferFails,
     finishWlogTransfer, trimQueue, EndTransfer, CrashAndRestart, vars, local, CutInv
<1> QED BY <1>1, <1>2

\* prepareWlogTransfer, of the queue: trimmed, and maybe an implicit snapshot more.
LEMMA PlacesPrepare ==
    ASSUME IInv, PlacesInv(Points, queue, done), prepareWlogTransfer
    PROVE  PlacesInv(Points, queue, done)'
<1>1. UNCHANGED <<latest, permanent, packs, done, maxPb, delivered, snaps>>
  BY DEF prepareWlogTransfer, dev, hist
<1> DEFINE q0 == removeOldRecords(queue, done)
           rec == SnapshotRecord(LatestSnap(q0, done), maxPb, TRUE, latest)
<1>2. \/ queue' = q0
      \/ queue' = Append(q0, rec) /\ LatestSnap(q0, done).lsid <= latest
  BY DEF prepareWlogTransfer, takeSnapshotDetail, canTakeSnapshot
<1>3. /\ TypeOK /\ DeviceInv /\ Points \subseteq Place /\ done.lsid \in packs
      /\ queue \in Seq(MetaLsidGid) /\ done \in MetaLsidGid /\ Ordered(queue, done)
  BY PointsArePlaces DEF IInv, TypeOK, FilesInv
<1>4. q0 \in Seq(MetaLsidGid) /\ Ordered(q0, done) /\ OnBoundary(q0)
  BY TrimmedQueue
<1> HIDE DEF q0
<1>5. PlacesInv(Points, q0, done)
  BY <1>3, PlacesTrim DEF q0
<1>6. PlacesInv(Points, queue', done)
  <2>1. CASE queue' = q0
    BY <1>5, <2>1
  <2>2. CASE queue' = Append(q0, rec) /\ LatestSnap(q0, done).lsid <= latest
    BY <1>3, <1>4, <1>5, <2>2, PlacesPush
  <2> QED BY <1>2, <2>1, <2>2
<1>7. Points' = Points
  BY <1>1 DEF Points
<1> QED BY <1>1, <1>6, <1>7 DEF PlacesInv, Elems, LatestSnap, IsCut

\* An explicit snapshot is a new place, ahead of all others.
LEMMA PlacesSnapshot ==
    ASSUME IInv, PlacesInv(Points, queue, done), takeSnapshot
    PROVE  PlacesInv(Points, queue, done)'
<1>1. PICK rec : /\ rec = SnapshotRecord(LatestSnap(queue, done), maxPb, FALSE, latest)
                 /\ queue' = Append(queue, rec) /\ snaps' = snaps \cup {rec}
  BY DEF takeSnapshot
<1>2. /\ UNCHANGED <<latest, permanent, packs, done, maxPb, delivered>>
      /\ LatestSnap(queue, done).lsid <= latest
  BY DEF takeSnapshot, canTakeSnapshot, dev
<1>3. /\ TypeOK /\ DeviceInv /\ Points \subseteq Place /\ done.lsid \in packs
      /\ queue \in Seq(MetaLsidGid) /\ Ordered(queue, done) /\ OnBoundary(queue)
  BY PointsArePlaces DEF IInv, TypeOK, FilesInv
<1>4. Points' \subseteq Points \cup {PlaceOf(rec)}
  BY <1>1, <1>2 DEF Points, PlaceOf
<1>5. PlacesInv(Points', queue', done)
  BY <1>1, <1>2, <1>3, <1>4, PlacesPush
<1> QED BY <1>2, <1>5 DEF PlacesInv, Elems, LatestSnap, IsCut

\* finishWlogTransfer trims the queue.
LEMMA PlacesTrimQueue ==
    ASSUME IInv, PlacesInv(Points, queue, done), trimQueue
    PROVE  PlacesInv(Points, queue, done)'
<1>1. /\ queue' = removeOldRecords(queue, done)
      /\ UNCHANGED <<latest, permanent, packs, done, maxPb, delivered, snaps>>
  BY DEF IInv, TransferInv, trimQueue, dev, hist
<1>2. /\ Points \subseteq Place /\ queue \in Seq(MetaLsidGid) /\ done \in MetaLsidGid
      /\ Ordered(queue, done)
  BY PointsArePlaces DEF IInv, TypeOK, FilesInv
<1>3. PlacesInv(Points, queue', done)
  BY <1>1, <1>2, PlacesTrim
<1>4. Points' = Points
  BY <1>1 DEF Points
<1> QED BY <1>1, <1>3, <1>4 DEF PlacesInv, Elems, LatestSnap, IsCut

\* GidInv is inductive relative to IInv.
LEMMA NextGidInv == IInv /\ GidInv /\ [Next]_vars => GidInv'
<1> SUFFICES ASSUME IInv, GidInv, [Next]_vars PROVE GidInv'
  OBVIOUS
<1>1. CutInv /\ CutInv'
  BY CutStep DEF GidInv
<1>2. IInv'
  BY NextIInv
<1> SUFFICES ASSUME Steady' PROVE PlacesInv(Points, queue, done)'
  BY <1>1 DEF GidInv
<1>3. Steady
  <2>1. nrCrashes \in Nat /\ (nrCrashes' = nrCrashes \/ nrCrashes' = nrCrashes + 1)
    BY DEF IInv, TypeOK, Next, Worker, Device, WriteLogpack, MakePermanent, Checkpoint,
       takeSnapshot, BeginTransfer, mayWlogTransferBeRequiredNow, prepareWlogTransfer,
       SendWlog, TransferFails, finishWlogTransfer, trimQueue, EndTransfer,
       CrashAndRestart, vars, hist
  <2> QED BY <2>1 DEF Steady
<1>4. PlacesInv(Points, queue, done) /\ TypeOK /\ TypeOK' /\ DeviceInv
  BY <1>2, <1>3 DEF GidInv, IInv
<1>5. /\ latest \in Nat /\ permanent \in Nat /\ packs \subseteq Nat /\ permanent <= latest
      /\ permanent \in packs
  BY <1>4 DEF TypeOK, DeviceInv
<1>6. CASE WriteLogpack
  <2>1. PICK size \in PackSizes : latest' = latest + size /\ packs' = packs \cup {latest + size}
    BY <1>6 DEF WriteLogpack
  <2>2. size \in Nat /\ 0 < size
    BY PackSizesAssumption
  <2>3. UNCHANGED <<delivered, snaps, done, queue, maxPb, permanent>>
    BY <1>6 DEF WriteLogpack, files, hist
  <2> QED BY <1>4, <1>5, <2>1, <2>2, <2>3, PlacesKept
<1>7. CASE MakePermanent
  <2>1. /\ permanent < permanent' /\ permanent' \in packs
        /\ UNCHANGED <<delivered, snaps, done, queue, maxPb, latest, packs>>
    BY <1>7 DEF MakePermanent, files, hist
  <2> QED BY <1>4, <1>5, <2>1, PlacesKept
<1>8. CASE Checkpoint \/ BeginTransfer \/ mayWlogTransferBeRequiredNow \/ TransferFails
           \/ EndTransfer \/ UNCHANGED vars
  <2>1. UNCHANGED <<delivered, snaps, done, queue, maxPb, latest, packs, permanent>>
    BY <1>8 DEF Checkpoint, BeginTransfer, mayWlogTransferBeRequiredNow, TransferFails,
       EndTransfer, deleteGarbageWlogs, vars, files, hist, dev
  <2> QED BY <1>4, <1>5, <2>1, PlacesKept
<1>9. CASE CrashAndRestart
  <2>1. /\ UNCHANGED <<delivered, snaps, done, queue, latest, packs, permanent>>
        /\ nrCrashes' = nrCrashes + 1 /\ maxPb' \in MaxWlogSendPbs
    BY <1>9 DEF CrashAndRestart, files, dev
  <2>2. nrCrashes \in Nat /\ maxPb \in MaxWlogSendPbs
    BY <1>4 DEF TypeOK
  <2>3. maxPb' = maxPb
    BY <2>1, <2>2 DEF Steady
  <2> QED BY <1>4, <1>5, <2>1, <2>3, PlacesKept
<1>10. CASE prepareWlogTransfer
  BY <1>4, <1>10, PlacesPrepare
<1>11. CASE SendWlog
  BY <1>1, <1>4, <1>11, PlacesSend
<1>12. CASE finishWlogTransfer
  BY <1>4, <1>12, PlacesFinish
<1>13. CASE trimQueue
  BY <1>4, <1>13, PlacesTrimQueue
<1>14. CASE takeSnapshot
  BY <1>4, <1>14, PlacesSnapshot
<1> QED BY <1>6, <1>7, <1>8, <1>9, <1>10, <1>11, <1>12, <1>13, <1>14 DEF Next, Worker, Device

\* Two attempts to send the same part of the log, with whatever snapshots,
\* failures and lost acks between them, never give one gid to two places, as long
\* as the daemon keeps its maxWlogSendMb.
THEOREM GidsAreUnique == Spec => []GidsIdentifyLsids
<1>1. Init => GidInv
  <2> SUFFICES ASSUME Init PROVE CutInv /\ PlacesInv(Points, queue, done)
    BY DEF GidInv
  <2>1. Points = {} /\ Elems(queue) = {} /\ pc = "idle"
    BY DEF Init, Points, Elems
  <2>2. PlaceOf(done) \in Place
    BY Gid0Assumption DEF Init, ResetRecord, PlaceOf, Place
  <2> QED BY <2>1, <2>2 DEF CutInv, PlacesInv, Agree, Place
<1>2. GidInv => GidsIdentifyLsids
  BY DEF GidInv, Steady, PlacesInv, Agree, GidsIdentifyLsids
<1> QED BY <1>1, <1>2, NextGidInv, InductiveInvariant, PTL DEF Spec

-----------------------------------------------------------------------------
(* The transfer implements the relay. *)

\* The done record is where the log begins or where a delivered diff ends.
DoneInv == done.lsid = 0 \/ \E d \in delivered : d.lsidE = done.lsid

\* The pieces of the relay.
PiecesOf(ds) == {[b |-> d.lsidB, e |-> d.lsidE] : d \in ds}

\* DoneInv is kept: the done record moves along a delivered diff, and what is
\* delivered stays delivered.
LEMMA NextDoneInv == IInv /\ DoneInv /\ [Next]_vars => DoneInv'
<1> SUFFICES ASSUME IInv, DoneInv, [Next]_vars PROVE DoneInv'
  OBVIOUS
<1>1. delivered \subseteq delivered'
  BY DEF Next, Worker, Device, WriteLogpack, MakePermanent, Checkpoint, takeSnapshot,
     BeginTransfer, mayWlogTransferBeRequiredNow, prepareWlogTransfer, SendWlog, TransferFails,
     finishWlogTransfer, trimQueue, EndTransfer, CrashAndRestart, vars, hist
<1>2. CASE done' = done
  BY <1>1, <1>2 DEF DoneInv
<1>3. CASE done' # done
  <2>1. finishWlogTransfer
    BY <1>3 DEF Next, Worker, Device, WriteLogpack, MakePermanent, Checkpoint, takeSnapshot,
       BeginTransfer, mayWlogTransferBeRequiredNow, prepareWlogTransfer, SendWlog,
       TransferFails, trimQueue, EndTransfer, CrashAndRestart, vars, files
  <2>2. \E d \in delivered : d.lsidE = done'.lsid
    BY <1>3, <2>1, FinishStep
  <2> QED BY <1>1, <2>2 DEF DoneInv
<1> QED BY <1>2, <1>3

\* A step of the device that is seen from outside is a growth of the log.
LEMMA GrowRefines ==
    ASSUME IInv, WriteLogpack
    PROVE  RelayOfWlog!Grow
<1>1. PICK size \in PackSizes :
        /\ latest' = latest + size
        /\ overflow' = (overflow \/ latest + size - oldest > LogCapacityPb)
  BY DEF WriteLogpack
<1>2. latest \in Nat /\ size \in Nat /\ size > 0
  BY PackSizesAssumption DEF IInv, TypeOK
<1>3. latest' \in Nat /\ latest' > latest
  BY <1>1, <1>2
<1>4. overflow' \in BOOLEAN /\ (overflow => overflow')
  BY <1>1
<1>5. UNCHANGED <<delivered, oldest>>
  BY DEF WriteLogpack, hist
<1> QED BY <1>3, <1>4, <1>5 DEF RelayOfWlog!Grow

\* What is sent begins at the done record, so no gap is left before it.
LEMMA StoreRefines ==
    ASSUME IInv, DoneInv, SendWlog
    PROVE  RelayOfWlog!Store
<1>1. /\ pc = "send" /\ rec0 = done
      /\ lsidE' = SentEnd(rec0.lsid, lsidLimit)
      /\ delivered' = delivered \cup {getTransferDiff(rec0, rec1, lsidE')}
      /\ UNCHANGED <<latest, oldest, overflow, packs>>
  BY DEF SendWlog, dev, IInv, TransferInv
<1>2. RangeInv(rec0, rec1, lsidLimit, queue)
  BY <1>1 DEF IInv, TransferInv
<1>3. /\ TypeOK /\ rec0 \in MetaLsidGid /\ packs \subseteq Nat /\ lsidLimit \in Nat
      /\ rec0.lsid \in packs /\ rec0.lsid <= lsidLimit
      /\ latest \in Nat /\ \A b \in packs : b <= latest
  BY <1>1, <1>2 DEF IInv, TypeOK, FilesInv, DeviceInv, RangeInv
<1>4. lsidE' \in packs /\ rec0.lsid <= lsidE'
  BY <1>1, <1>3, SentEndProperty
<1>5. done.lsid \in 0 .. latest /\ lsidE' \in 0 .. latest /\ done.lsid <= lsidE'
  <2>1. \A b \in packs : b \in 0 .. latest
    BY <1>3
  <2> QED BY <1>1, <1>3, <1>4, <2>1
<1>6. PICK n : n = lsidE'
  OBVIOUS
<1>7. PiecesOf(delivered') = PiecesOf(delivered) \cup {[b |-> done.lsid, e |-> n]}
  <2>1. /\ getTransferDiff(rec0, rec1, n).lsidB = done.lsid
        /\ getTransferDiff(rec0, rec1, n).lsidE = n
    BY <1>1 DEF getTransferDiff
  <2>2. delivered' = delivered \cup {getTransferDiff(rec0, rec1, n)}
    BY <1>1, <1>6
  <2> QED BY <2>1, <2>2 DEF PiecesOf
<1>8. done.lsid = 0 \/ \E p \in PiecesOf(delivered) : done.lsid <= p.e
  <2>1. CASE done.lsid = 0
    BY <2>1
  <2>2. CASE \E d \in delivered : d.lsidE = done.lsid
    <3>1. PICK d \in delivered : d.lsidE = done.lsid
      BY <2>2
    <3>2. [b |-> d.lsidB, e |-> d.lsidE] \in PiecesOf(delivered)
      BY DEF PiecesOf
    <3> QED BY <1>5, <3>1, <3>2
  <2> QED BY <2>1, <2>2 DEF DoneInv
<1> QED BY <1>1, <1>5, <1>6, <1>7, <1>8 DEF RelayOfWlog!Store, PiecesOf

\* deleteGarbageWlogs forgets no more than what a stored piece covers.
LEMMA ForgetRefines ==
    ASSUME IInv, DoneInv, deleteGarbageWlogs, UNCHANGED delivered
    PROVE  RelayOfWlog!Forget \/ UNCHANGED RelayOfWlog!vars
<1>1. oldest' \in Nat /\ oldest' <= done.lsid
  BY EraseStep
<1>2. oldest \in Nat /\ prevWritten \in Nat /\ done.lsid \in Nat
  BY DEF IInv, TypeOK, MetaLsidGid
<1>3. UNCHANGED <<latest, overflow>> /\ (oldest' = oldest \/ oldest' > oldest)
  BY <1>2 DEF deleteGarbageWlogs, EraseTarget
<1>4. CASE oldest' = oldest
  BY <1>3, <1>4 DEF RelayOfWlog!vars
<1>5. CASE oldest' > oldest
  <2>1. done.lsid # 0
    BY <1>1, <1>2, <1>5
  <2>2. PICK d \in delivered : d.lsidE = done.lsid
    BY <2>1 DEF DoneInv
  <2>3. [b |-> d.lsidB, e |-> d.lsidE] \in PiecesOf(delivered)
    BY DEF PiecesOf
  <2>4. \E p \in PiecesOf(delivered) : oldest' <= p.e
    BY <1>1, <2>2, <2>3
  <2> QED BY <1>1, <1>3, <1>5, <2>4 DEF RelayOfWlog!Forget, PiecesOf
<1> QED BY <1>3, <1>4, <1>5

\* Every other step is not seen from outside.
LEMMA StepRefines ==
    IInv /\ DoneInv /\ [Next]_vars => [RelayOfWlog!Next]_RelayOfWlog!vars
<1> SUFFICES ASSUME IInv, DoneInv, [Next]_vars
             PROVE  RelayOfWlog!Next \/ UNCHANGED RelayOfWlog!vars
  OBVIOUS
<1>1. CASE WriteLogpack
  BY <1>1, GrowRefines DEF RelayOfWlog!Next
<1>2. CASE SendWlog
  BY <1>2, StoreRefines DEF RelayOfWlog!Next
<1>3. CASE BeginTransfer \/ EndTransfer
  BY <1>3, ForgetRefines DEF RelayOfWlog!Next, BeginTransfer, EndTransfer, hist
<1>4. CASE ~(WriteLogpack \/ SendWlog \/ BeginTransfer \/ EndTransfer)
  <2>1. UNCHANGED <<latest, delivered, oldest, overflow>>
    BY <1>4 DEF Next, Worker, Device, MakePermanent, Checkpoint, takeSnapshot,
       mayWlogTransferBeRequiredNow, prepareWlogTransfer, TransferFails,
       finishWlogTransfer, trimQueue, CrashAndRestart, vars, dev, hist
  <2> QED BY <2>1 DEF RelayOfWlog!vars
<1> QED BY <1>1, <1>2, <1>3, <1>4

\* The storage daemon implements the relay, for every size of logpack, limit,
\* capacity and bound: it stores the log at the proxies without a gap and
\* forgets only what it has stored.
THEOREM RelayIsImplemented == Spec => ImplementsRelay
<1>1. Init => RelayOfWlog!Init /\ DoneInv
  BY DEF Init, RelayOfWlog!Init, DoneInv, ResetRecord
<1> QED BY <1>1, NextDoneInv, StepRefines, InductiveInvariant, PTL
        DEF Spec, ImplementsRelay, RelayOfWlog!Spec

-----------------------------------------------------------------------------
(* What a relay promises: nothing that is forgotten is lost. *)

Pieces == {[b |-> d.lsidB, e |-> d.lsidE] : d \in delivered}

\* Below the end of a stored piece everything is stored: a piece begins where
\* those before it leave no gap.  The log is forgotten up to such an end.
PiecesClosed == \A p \in Pieces : \A l \in Nat : l < p.e => RelayOfWlog!Stored(l)

RelayInv ==
    /\ RelayOfWlog!TypeOK
    /\ PiecesClosed
    /\ oldest = 0 \/ \E p \in Pieces : oldest <= p.e

\* Storing a piece leaves no gap below it.
LEMMA StoreKeepsClosed ==
    ASSUME RelayInv, RelayOfWlog!Store
    PROVE  RelayOfWlog!TypeOK' /\ PiecesClosed'
<1>1. PICK b, e \in 0 .. latest :
        /\ b <= e
        /\ b = 0 \/ \E p \in Pieces : b <= p.e
        /\ Pieces' = Pieces \cup {[b |-> b, e |-> e]}
  BY DEF RelayOfWlog!Store, Pieces
<1>2. latest \in Nat /\ Pieces \subseteq RelayOfWlog!Piece /\ oldest \in Nat /\ overflow \in BOOLEAN
  BY DEF RelayInv, RelayOfWlog!TypeOK, Pieces
<1>3. b \in Nat /\ e \in Nat
  BY <1>2
<1>4. RelayOfWlog!TypeOK'
  BY <1>1, <1>2, <1>3 DEF RelayOfWlog!Store, RelayOfWlog!TypeOK, RelayOfWlog!Piece, Pieces
<1>5. ASSUME NEW l \in Nat, l < b
      PROVE  RelayOfWlog!Stored(l)
  <2>1. PICK p \in Pieces : b <= p.e
    BY <1>1, <1>3, <1>5
  <2>2. p.e \in Nat
    BY <1>2, <2>1 DEF RelayOfWlog!Piece
  <2>3. l < p.e
    BY <1>3, <1>5, <2>1, <2>2
  <2> QED BY <2>1, <2>3 DEF RelayInv, PiecesClosed
<1>6. ASSUME NEW l \in Nat, l < e
      PROVE  RelayOfWlog!Stored(l)'
  <2>1. CASE l < b
    BY <1>1, <1>5, <2>1 DEF RelayOfWlog!Stored, Pieces
  <2>2. CASE b <= l
    <3>1. [b |-> b, e |-> e] \in Pieces'
      BY <1>1
    <3> QED BY <1>6, <2>2, <3>1 DEF RelayOfWlog!Stored, Pieces
  <2> QED BY <1>3, <2>1, <2>2
<1>7. ASSUME NEW p \in Pieces, NEW l \in Nat, l < p.e
      PROVE  RelayOfWlog!Stored(l)'
  <2>1. RelayOfWlog!Stored(l)
    BY <1>7 DEF RelayInv, PiecesClosed
  <2> QED BY <1>1, <2>1 DEF RelayOfWlog!Stored, Pieces
<1>8. ASSUME NEW p \in Pieces', NEW l \in Nat, l < p.e
      PROVE  RelayOfWlog!Stored(l)'
  <2>1. CASE p \in Pieces
    BY <1>7, <1>8, <2>1
  <2>2. CASE p = [b |-> b, e |-> e]
    BY <1>6, <1>8, <2>2
  <2> QED BY <1>1, <2>1, <2>2
<1> QED BY <1>4, <1>8 DEF PiecesClosed

\* Every step of the relay keeps the invariant.
LEMMA RelayNextInv == RelayInv /\ [RelayOfWlog!Next]_RelayOfWlog!vars => RelayInv'
<1> SUFFICES ASSUME RelayInv, [RelayOfWlog!Next]_RelayOfWlog!vars PROVE RelayInv'
  OBVIOUS
<1>1. CASE RelayOfWlog!Grow
  <2>1. UNCHANGED <<Pieces, oldest>> /\ RelayOfWlog!TypeOK'
    BY <1>1 DEF RelayOfWlog!Grow, RelayInv, RelayOfWlog!TypeOK, Pieces
  <2>2. PiecesClosed'
    BY <2>1 DEF RelayInv, PiecesClosed, RelayOfWlog!Stored, Pieces
  <2> QED BY <2>1, <2>2 DEF RelayInv
<1>2. CASE RelayOfWlog!Store
  <2>1. RelayOfWlog!TypeOK' /\ PiecesClosed'
    BY <1>2, StoreKeepsClosed
  <2>2. oldest' = oldest /\ Pieces \subseteq Pieces'
    BY <1>2 DEF RelayOfWlog!Store, Pieces
  <2> QED BY <2>1, <2>2 DEF RelayInv
<1>3. CASE RelayOfWlog!Forget
  <2>1. /\ UNCHANGED <<latest, Pieces, overflow>> /\ oldest' \in Nat
        /\ \E p \in Pieces : oldest' <= p.e
    BY <1>3 DEF RelayOfWlog!Forget, Pieces
  <2>2. RelayOfWlog!TypeOK'
    BY <2>1 DEF RelayInv, RelayOfWlog!TypeOK, Pieces
  <2>3. PiecesClosed'
    BY <2>1 DEF RelayInv, PiecesClosed, RelayOfWlog!Stored, Pieces
  <2> QED BY <2>1, <2>2, <2>3 DEF RelayInv
<1>4. CASE UNCHANGED RelayOfWlog!vars
  BY <1>4 DEF RelayOfWlog!vars, RelayInv, RelayOfWlog!TypeOK, PiecesClosed, RelayOfWlog!Stored, Pieces
<1> QED BY <1>1, <1>2, <1>3, <1>4 DEF RelayOfWlog!Next

\* The log that deleteGarbageWlogs has erased is in the diffs the proxies have
\* stored, block by block: what the relay promises, of the storage daemon.
THEOREM ErasedLogIsDelivered == Spec => []ErasedIsDelivered
<1>1. RelayOfWlog!Init => RelayInv
  <2> SUFFICES ASSUME RelayOfWlog!Init PROVE RelayInv
    OBVIOUS
  <2>1. latest = 0 /\ Pieces = {} /\ oldest = 0 /\ overflow \in BOOLEAN
    BY DEF RelayOfWlog!Init, Pieces
  <2> QED BY <2>1 DEF RelayInv, RelayOfWlog!TypeOK, PiecesClosed, Pieces
<1>2. RelayInv => RelayOfWlog!ForgottenIsStored
  <2> SUFFICES ASSUME RelayInv, NEW l \in Nat, l < oldest PROVE RelayOfWlog!Stored(l)
    BY DEF RelayOfWlog!ForgottenIsStored
  <2>1. oldest \in Nat /\ Pieces \subseteq RelayOfWlog!Piece
    BY DEF RelayInv, RelayOfWlog!TypeOK, Pieces
  <2>2. PICK p \in Pieces : oldest <= p.e
    BY <2>1 DEF RelayInv
  <2>3. p.e \in Nat
    BY <2>1, <2>2 DEF RelayOfWlog!Piece
  <2>4. l < p.e
    BY <2>1, <2>2, <2>3
  <2> QED BY <2>2, <2>4 DEF RelayInv, PiecesClosed
<1>3. TypeOK /\ RelayOfWlog!ForgottenIsStored => ErasedIsDelivered
  <2> SUFFICES ASSUME TypeOK, RelayOfWlog!ForgottenIsStored, NEW lsid \in 0 .. oldest - 1
               PROVE  \E d \in delivered : d.lsidB <= lsid /\ lsid < d.lsidE
    BY DEF ErasedIsDelivered
  <2>1. lsid \in Nat /\ lsid < oldest
    BY DEF TypeOK
  <2>2. RelayOfWlog!Stored(lsid)
    BY <2>1 DEF RelayOfWlog!ForgottenIsStored
  <2> QED BY <2>2 DEF RelayOfWlog!Stored
<1> QED BY <1>1, <1>2, <1>3, RelayNextInv, RelayIsImplemented, TypeCorrect, PTL
        DEF ImplementsRelay, RelayOfWlog!Spec

=============================================================================
