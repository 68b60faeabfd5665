------------------------- MODULE ColdSnapshotProofs -------------------------
(***************************************************************************)
(* Proofs about ColdSnapshot, for every number of snapshots, of restored   *)
(* volumes and of failures.                                                *)
(*                                                                         *)
(* restore, apply, del-cold and the crashes meet in the logical volumes,   *)
(* the timestamps and the cache.  The invariant says what each of the three*)
(* threads may rely on at each of its steps, whatever the others did since:*)
(* what restore has in its temporary volume, how far apply has got in      *)
(* replacing the base image, and which entry of the cache is being removed *)
(* by whom.                                                                *)
(***************************************************************************)
EXTENDS ColdSnapshot, WellFoundedInduction, TLAPS

Images == [lo : Int, hi : Int]
States == [lo : Gid, hi : Gid]

\* Base and TmpRestored are the only names of their kinds.
Names == {n \in [kind : {"base", "cold", "toBase", "restored", "tmp"}, gid : Gid] :
            n.kind \in {"base", "tmp"} => n.gid = 0}

RestorePcs == {"idle", "state", "snap", "apply", "cold", "addCold", "stamp", "name",
               "list", "keepOne", "keepOneStamp", "keepOneCache"}
ApplyPcs   == {"idle", "recover", "state", "aside", "uncache", "drop", "meta", "rename",
               "stamp", "clean", "diffs", "write", "done"}
DelPcs     == {"idle", "remove", "uncache", "stamp"}

Threads(pcs) == [pc : pcs, gid : Gid, st : States, cold : BOOLEAN, old : SUBSET Gid]

\* What is on the disk and in the cache; nothing runs unless the daemon is up.
DataInv ==
    /\ latest \in Gid /\ diffs \subseteq Gid
    /\ metaSt \in States /\ metaSt.lo <= metaSt.hi
    /\ stamps \subseteq Gid /\ cache \subseteq Gid

LvInv == \A n \in DOMAIN lvs : n \in Names /\ lvs[n] \in Images

ThreadInv ==
    /\ up \in {"up", "down", "recovered"}
    /\ rst \in Threads(RestorePcs) /\ apl \in Threads(ApplyPcs) /\ del \in Threads(DelPcs)
    /\ rst.pc = "keepOne" => rst.old # {}
    /\ up # "up" => rst = NoThread /\ apl = NoThread /\ del = NoThread

\* At most one image is set aside, and there is one when there is no base
\* image.  The steps of apply know where they are.
AsideInv ==
    /\ \A m, n \in Left : m = n
    /\ ~Exists(Base) => Left # {} /\ \A n \in Left : n.gid >= metaSt.lo
    /\ apl.pc \in {"state", "aside", "stamp", "clean", "diffs", "write", "done"} =>
            Left = {} /\ Exists(Base)
    /\ apl.pc \in {"uncache", "drop", "meta", "rename"} => Left = {ToBase(apl.st.lo)}
    /\ apl.pc \in {"uncache", "drop"} => Exists(Base)
    /\ apl.pc \in {"meta", "rename"} => ~Exists(Base)

\* The state that apply has read or set, and the one on the disk.
ApplyInv ==
    /\ apl.pc \in {"aside", "uncache", "drop", "meta"} =>
            apl.st = Exact(apl.st.lo) /\ apl.st.lo > metaSt.lo
    /\ apl.pc \in {"rename", "stamp", "clean"} => apl.st = Exact(apl.st.lo) /\ metaSt = apl.st
    /\ apl.pc = "diffs" => metaSt = apl.st

\* The base image, and the temporary volume of restore.
ImageInv ==
    /\ rst.pc \in {"apply", "cold", "addCold", "stamp", "name"} => Exists(TmpRestored)
    /\ rst.pc = "snap" /\ rst.cold => rst.st = Exact(rst.st.lo)
    /\ "overtaken" \notin accidents =>
        /\ Exists(Base) /\ apl.pc = "done" => lvs[Base] = Exact(metaSt.hi)
        /\ rst.pc = "apply" => /\ rst.st.lo <= lvs[TmpRestored].lo
                               /\ lvs[TmpRestored].lo <= lvs[TmpRestored].hi
                               /\ lvs[TmpRestored].hi <= rst.st.hi
        /\ rst.pc \in {"cold", "addCold", "stamp", "name"} => lvs[TmpRestored] = Exact(rst.gid)
        /\ Exists(Base) => lvs[Base].lo <= lvs[Base].hi

\* The image set aside has no namesake, and keeps its timestamp, unless one of
\* the known races happened.
StampInv ==
    "twice" \notin accidents =>
        /\ \A n \in Left : ~Exists(Cold(n.gid))
        /\ "stampLost" \notin accidents => \A n \in Left : n.gid \in stamps

\* Who may still remove an entry from the cache, its volume being gone, or is
\* about to write the timestamp of one.
Removing(g) == \/ rst.pc \in {"keepOneStamp", "keepOneCache"} /\ rst.gid = g
               \/ apl.pc = "uncache" /\ apl.st.lo = g
               \/ del.pc = "uncache" /\ del.gid = g
Forgotten(g) == rst.pc = "keepOneCache" /\ rst.gid = g

\* What the cache holds beyond the base image exists, or is being removed; it
\* has its timestamp, or is getting it, or is about to leave.  A start of the
\* daemon mends what the two accidents have done.
CacheInv ==
    (up = "up" => "stampGone" \notin accidents /\ "addedLate" \notin accidents) =>
        \A g \in cache : g > metaSt.lo =>
            /\ Exists(Cold(g)) \/ Removing(g)
            /\ up = "up" => g \in stamps \/ Stamping(g) \/ Forgotten(g)

\* LatestReachable, without the choice of the image that is set aside.
ReachInv ==
    /\ Exists(Base) => \A g \in metaSt.lo .. latest - 1 : g \in diffs
    /\ ~Exists(Base) => \A n \in Left : \A g \in n.gid .. latest - 1 : g \in diffs

\* The inductive invariant.
IInv == /\ DataInv /\ LvInv /\ ThreadInv /\ AsideInv /\ ApplyInv /\ ImageInv /\ StampInv /\ CacheInv
        /\ ReachInv /\ BaseMatchesMetaState /\ ImagesExact

-----------------------------------------------------------------------------
(* Names, numbers and the choices of the model. *)

\* The names of different kinds, or gids, differ.
LEMMA NameFacts ==
    /\ Base \in Names /\ Base.kind = "base" /\ Base.gid = 0
    /\ TmpRestored \in Names /\ TmpRestored.kind = "tmp" /\ TmpRestored.gid = 0
    /\ \A g : /\ Cold(g).kind = "cold" /\ Cold(g).gid = g
              /\ ToBase(g).kind = "toBase" /\ ToBase(g).gid = g
              /\ Restored(g).kind = "restored" /\ Restored(g).gid = g
    /\ \A g \in Gid : Cold(g) \in Names /\ ToBase(g) \in Names /\ Restored(g) \in Names
    /\ \A n \in Names : /\ n.gid \in Gid
                        /\ n.kind = "base" => n = Base
                        /\ n.kind = "tmp" => n = TmpRestored
                        /\ n.kind = "cold" => n = Cold(n.gid)
                        /\ n.kind = "toBase" => n = ToBase(n.gid)
                        /\ n.kind = "restored" => n = Restored(n.gid)
<1>1. 0 \in Gid
  BY BoundsAreSane DEF Gid
<1> USE DEF Base, TmpRestored, Cold, ToBase, Restored
<1>2. \A g : /\ Cold(g).kind = "cold" /\ Cold(g).gid = g
             /\ ToBase(g).kind = "toBase" /\ ToBase(g).gid = g
             /\ Restored(g).kind = "restored" /\ Restored(g).gid = g
  OBVIOUS
<1>3. \A g \in Gid : Cold(g) \in Names /\ ToBase(g) \in Names /\ Restored(g) \in Names
  BY DEF Names
<1>4. ASSUME NEW n \in Names
      PROVE  /\ n.gid \in Gid
             /\ n.kind = "base" => n = Base
             /\ n.kind = "tmp" => n = TmpRestored
             /\ n.kind = "cold" => n = Cold(n.gid)
             /\ n.kind = "toBase" => n = ToBase(n.gid)
             /\ n.kind = "restored" => n = Restored(n.gid)
  BY DEF Names
<1>5. Base \in Names /\ Base.kind = "base" /\ Base.gid = 0
  BY <1>1 DEF Names
<1>6. TmpRestored \in Names /\ TmpRestored.kind = "tmp" /\ TmpRestored.gid = 0
  BY <1>1 DEF Names
<1> QED BY <1>2, <1>3, <1>4, <1>5, <1>6

LEMMA GidsAreNumbers ==
    /\ 0 \in Gid /\ Gid \subseteq Int
    /\ \A g \in Gid : Exact(g) \in States /\ Exact(g) \in Images
    /\ Broken \in Images
    /\ Exact(0) \in States
  BY BoundsAreSane DEF Gid, Exact, States, Images, Broken

\* An image between a snapshot and itself.
LEMMA Squeezed ==
    ASSUME NEW g \in Int, NEW img \in Images, g <= img.lo, img.lo <= img.hi, img.hi <= g
    PROVE  img = Exact(g)
  BY DEF Images, Exact

\* The order of the naturals as a well-founded relation.
LEMMA NatOrder ==
    \E R : IsWellFoundedOn(R, Nat) /\ \A x, y \in Nat : <<x, y>> \in R <=> x < y
<1>1. \A x, y \in Nat : <<x, y>> \in OpToRel(<, Nat) <=> x < y
  BY DEF OpToRel
<1> QED BY <1>1, NatLessThanWellFounded, Zenon

\* A set of naturals that is not empty has a least element.
LEMMA LeastNat ==
    ASSUME NEW S, S \subseteq Nat, S # {}
    PROVE  \E m \in S : \A x \in S : m <= x
<1>1. PICK R : IsWellFoundedOn(R, Nat) /\ \A x, y \in Nat : <<x, y>> \in R <=> x < y
  BY NatOrder
<1>2. IsWellFoundedOn(R, Nat)
  BY <1>1
<1>3. PICK m \in S : \A x \in S : ~(<<x, m>> \in R)
  BY <1>2, WFMin
<1>4. ASSUME NEW x \in S
      PROVE  m <= x
  <2>1. ~(x < m)
    BY <1>1, <1>3
  <2> QED BY <2>1
<1> QED BY <1>4

\* Max of a set of gids is the greatest of them.
LEMMA MaxOfGids ==
    ASSUME NEW S, S \subseteq Gid, S # {}
    PROVE  Max(S) \in S /\ \A g \in S : g <= Max(S)
<1> DEFINE D == {MaxGid - g : g \in S}
<1>1. S \subseteq Nat /\ \A g \in S : MaxGid - g \in Nat
  BY BoundsAreSane DEF Gid
<1>2. D \subseteq Nat /\ D # {}
  BY <1>1
<1>3. PICK d \in D : \A e \in D : d <= e
  <2> HIDE DEF D
  <2> QED BY <1>2, LeastNat
<1>4. PICK m \in S : d = MaxGid - m
  OBVIOUS
<1>5. ASSUME NEW g \in S
      PROVE  m >= g
  <2>1. d <= MaxGid - g
    BY <1>3
  <2> QED BY <2>1, <1>1, <1>4, BoundsAreSane
<1>6. Max(S) = CHOOSE x \in S : \A y \in S : x >= y
  BY DEF Max
<1>7. Max(S) \in S /\ \A y \in S : Max(S) >= y
  BY <1>5, <1>6
<1> QED BY <1>7, <1>1

\* Min of a set of gids is one of them.
LEMMA MinOfGids ==
    ASSUME NEW S, S \subseteq Gid, S # {}
    PROVE  Min(S) \in S
<1>1. S \subseteq Nat
  BY BoundsAreSane DEF Gid
<1>2. \E m \in S : \A x \in S : m <= x
  BY <1>1, LeastNat
<1> QED BY <1>2 DEF Min

\* Max of two numbers.
LEMMA MaxOfTwo ==
    ASSUME NEW m \in Int, NEW n \in Int
    PROVE  Max({m, n}) = IF m >= n THEN m ELSE n
<1> DEFINE x == IF m >= n THEN m ELSE n
<1>1. x \in {m, n} /\ \A y \in {m, n} : x >= y
  OBVIOUS
<1>2. \A z \in {m, n} : (\A y \in {m, n} : z >= y) => z = x
  OBVIOUS
<1> HIDE DEF x
<1>3. Max({m, n}) = x
  BY <1>1, <1>2 DEF Max
<1> QED BY <1>3 DEF x

\* The state that restore and apply start from.
LEMMA MetaStateType ==
    ASSUME DataInv, NEW gid \in Gid, NEW isApply \in BOOLEAN
    PROVE  /\ UseCold(gid, isApply) \in BOOLEAN
           /\ getMetaStateForDetail(gid, isApply) \in States
           /\ UseCold(gid, isApply) =>
                \E g \in cache : /\ g > metaSt.lo
                                 /\ getMetaStateForDetail(gid, isApply) = Exact(g)
           /\ ~UseCold(gid, isApply) => getMetaStateForDetail(gid, isApply) = metaSt
<1>1. UseCold(gid, isApply) \in BOOLEAN
  BY DEF UseCold
<1>2. CASE UseCold(gid, isApply)
  <2>1. ColdGids(gid) # {} /\ ColdGids(gid) \subseteq Gid
    BY <1>2 DEF UseCold, ColdGids, DataInv
  <2>2. Max(ColdGids(gid)) \in ColdGids(gid)
    BY <2>1, MaxOfGids
  <2>3. getMetaStateForDetail(gid, isApply) = Exact(Max(ColdGids(gid)))
    BY <1>2 DEF getMetaStateForDetail
  <2> QED BY <1>1, <1>2, <2>1, <2>2, <2>3, GidsAreNumbers DEF ColdGids
<1>3. CASE ~UseCold(gid, isApply)
  BY <1>1, <1>3 DEF getMetaStateForDetail, DataInv
<1> QED BY <1>2, <1>3

\* Of one image set aside, LeftGid is the gid.
LEMMA LeftOne ==
    ASSUME \A m, n \in Left : m = n, NEW n \in Left
    PROVE  LeftGid = n.gid
<1>1. \E m \in Left : TRUE
  OBVIOUS
<1>2. (CHOOSE m \in Left : TRUE) \in Left
  BY <1>1
<1>3. (CHOOSE m \in Left : TRUE) = n
  BY <1>2
<1> QED BY <1>3 DEF LeftGid

\* Writing into a volume that exists changes nothing else.
LEMMA WithEffect ==
    ASSUME NEW name \in DOMAIN lvs, NEW img, lvs' = With(name, img)
    PROVE  /\ DOMAIN lvs' = DOMAIN lvs
           /\ lvs'[name] = img
           /\ \A n \in DOMAIN lvs : n # name => lvs'[n] = lvs[n]
  BY DEF With

\* The volumes once the image of snapshot g, set aside, is the base image.
Replaced(g) ==
    [n \in (DOMAIN lvs \ ({ToBase(g)} \cup {Cold(c) : c \in {c \in cache : c < g}})) \cup {Base} |->
        IF n = Base THEN lvs[ToBase(g)] ELSE lvs[n]]

\* What recovery does with the image of snapshot g, set aside: it is old, or
\* the base image is still there, or the base image is gone.
Forgets(g) ==
    /\ Exists(Base) /\ g <= metaSt.lo
    /\ lvs' = Without({ToBase(g)}) /\ stamps' = stamps \ {g}
    /\ UNCHANGED <<diffs, metaSt, cache>>

PutsBack(g) ==
    /\ Exists(Base) /\ g > metaSt.lo /\ ~Exists(Cold(g))
    /\ lvs' = Rename(ToBase(g), Cold(g))
    /\ UNCHANGED <<diffs, metaSt, stamps, cache>>

Completes(g) ==
    /\ ~Exists(Base) /\ g >= metaSt.lo /\ g \in stamps
    /\ metaSt' = Exact(g) /\ lvs' = Replaced(g)
    /\ stamps' = {t \in stamps : t > g} /\ diffs' = {d \in diffs : d >= g}
    /\ cache' = {c \in cache : c >= g}

LEMMA RecoverEffect ==
    ASSUME LvInv, AsideInv, recoverColdToBaseIfNecessary, cache' = RecoveredCache
    PROVE  \/ Left = {} /\ Exists(Base) /\ UNCHANGED <<diffs, metaSt, lvs, stamps, cache>>
           \/ \E g \in Gid : /\ Left = {ToBase(g)} /\ Exists(ToBase(g))
                             /\ Forgets(g) \/ PutsBack(g) \/ Completes(g)
<1>1. CASE Left = {}
  BY <1>1 DEF recoverColdToBaseIfNecessary, RecoveredCache
<1>2. CASE Left # {}
  <2>1. PICK n \in Left : TRUE
    BY <1>2
  <2>2. n \in DOMAIN lvs /\ n.kind = "toBase"
    BY DEF Left
  <2>3. n \in Names
    BY <2>2 DEF LvInv
  <2>4. n.gid \in Gid /\ n = ToBase(n.gid)
    BY <2>2, <2>3, NameFacts
  <2>5. Left = {ToBase(n.gid)}
    BY <2>4 DEF AsideInv
  <2>6. LeftGid = n.gid
    BY LeftOne DEF AsideInv
  <2>7. ~Exists(Base) => n.gid >= metaSt.lo
    BY DEF AsideInv
  <2>8. Forgets(n.gid) \/ PutsBack(n.gid) \/ Completes(n.gid)
    BY <1>2, <2>4, <2>5, <2>6, <2>7
    DEF recoverColdToBaseIfNecessary, RecoveredCache, Forgets, PutsBack, Completes, Replaced
  <2> QED BY <2>2, <2>4, <2>5, <2>8 DEF Exists
<1> QED BY <1>1, <1>2

-----------------------------------------------------------------------------
(* Every conjunct of the invariant is kept by every action. *)

\* The files and the cache; the meta state never runs backwards.
LEMMA DataStep == IInv /\ Next => DataInv'
<1> SUFFICES ASSUME IInv, Next PROVE DataInv'
  OBVIOUS
<1> USE BoundsAreSane, NameFacts DEF IInv, DataInv, ThreadInv, AsideInv, ApplyInv, LvInv,
                                     Threads, States, Gid, Exact
<1>1. ASSUME NEW g \in Gid, RestoreBegin(g) PROVE DataInv'
  BY <1>1 DEF RestoreBegin, Exists, MuFree, NoThread, Without, history
<1>2. ASSUME NEW g \in Gid, ApplyBegin(g) PROVE DataInv'
  BY <1>2 DEF ApplyBegin, MuFree, NoThread, Reach, durable, history, Chain
<1>3. ASSUME NEW g \in Gid, DelBegin(g) PROVE DataInv'
  BY <1>3 DEF DelBegin, Fault, MuFree, NoThread, durable
<1>4. ASSUME NEW g \in Gid, DelRestored(g) PROVE DataInv'
  BY <1>4 DEF DelRestored, Exists, MuFree, Without, history, threads
<1>5. CASE RestoreReadState
  BY <1>5 DEF RestoreReadState, UseCold, durable, getMetaStateForDetail, history, ColdGids
<1>6. CASE RestoreSnap
  BY <1>6 DEF RestoreSnap, Exists, Noted, Origin, With
<1>7. CASE RestoreApply
  BY <1>7 DEF RestoreApply, Chain, NoThread, With, Written, history, Broken
<1>8. CASE RestoreNoNeedToApply
  BY <1>8 DEF RestoreNoNeedToApply, NoThread, durable, history
<1>9. CASE RestoreMakeCold
  BY <1>9 DEF RestoreMakeCold, Exists, Noted, With
<1>10. CASE RestoreSetColdTimestamp
  BY <1>10 DEF RestoreSetColdTimestamp, history
<1>11. CASE RestoreRename
  BY <1>11 DEF RestoreRename, NoThread, Rename, history
<1>12. CASE RestoreRemoveCold
  BY <1>12 DEF RestoreRemoveCold, Without, history
<1>13. CASE RestoreRemoveStamp
  BY <1>13 DEF RestoreRemoveStamp, Noted, Exists
<1>14. CASE RestoreListCold
  BY <1>14 DEF RestoreListCold, KeepOneNext, NoThread, durable, history
<1>15. CASE RestoreFails
  BY <1>15 DEF RestoreFails, Chain, Exists, NoThread, Origin, UseCold, Without,
               getMetaStateForDetail, history, ColdGids
<1>16. CASE ApplyRecover
  BY <1>16 DEF ApplyRecover, RecoveredCache, history, recoverColdToBaseIfNecessary, Exists,
               Left, Rename, Without
<1>17. CASE ApplyReadState
  BY <1>17 DEF ApplyReadState, UseCold, durable, getMetaStateForDetail, history, ColdGids
<1>18. CASE makeColdToBase
  BY <1>18 DEF makeColdToBase, Exists, Rename, history
<1>19. CASE DropBase
  BY <1>19 DEF DropBase, Without, history
<1>20. CASE SetColdMetaState
  BY <1>20 DEF SetColdMetaState, history
<1>21. CASE MakeColdToBaseFails
  BY <1>21 DEF MakeColdToBaseFails, Fault, NoThread, durable
<1>22. CASE RenameToBase
  BY <1>22 DEF RenameToBase, Rename, history
<1>23. CASE RemoveColdTimestamp
  BY <1>23 DEF RemoveColdTimestamp, history
<1>24. CASE CleanBeforeCold
  BY <1>24 DEF CleanBeforeCold, NoThread, history, removeBeforeGid, Without
<1>25. CASE ApplyDiffs
  BY <1>25 DEF ApplyDiffs, Reach, history, Chain
<1>26. CASE ApplyWrite
  BY <1>26 DEF ApplyWrite, With, Written, history, Broken
<1>27. CASE ApplyDone
  BY <1>27 DEF ApplyDone, history, removeBeforeGid, Without
<1>28. CASE ApplyEnd
  BY <1>28 DEF ApplyEnd, CanRecover, Exists, NoThread, Reach, UseCold, durable,
               getMetaStateForDetail, history, ColdGids, Chain, Left
<1>29. CASE DelRemove
  BY <1>29 DEF DelRemove, Without, history
<1>30. CASE DelStamp
  BY <1>30 DEF DelStamp, Exists, NoThread, Noted
<1>31. CASE Receive
  BY <1>31 DEF Receive, history, threads
<1>32. CASE Crash
  BY <1>32 DEF Crash, Fault, NoThread, Without
<1>33. CASE Recover
  BY <1>33 DEF Recover, RecoveredCache, history, recoverColdToBaseIfNecessary, threads, Exists,
               Left, Rename, Without
<1>34. CASE VerifyCold
  BY <1>34 DEF VerifyCold, Without, history, threads
<1>35. CASE RestoreAddCold
  BY <1>35 DEF RestoreAddCold, Noted, durable
<1>36. CASE RestoreUncache
  BY <1>36 DEF RestoreUncache, KeepOneNext, NoThread, durable, history
<1>37. CASE UncacheCold
  BY <1>37 DEF UncacheCold, durable, history
<1>38. CASE DelUncache
  BY <1>38 DEF DelUncache, durable, history
<1> QED
  BY <1>1, <1>2, <1>3, <1>4, <1>5, <1>6, <1>7, <1>8, <1>9, <1>10, <1>11, <1>12, <1>13, <1>14,
        <1>15, <1>16, <1>17, <1>18, <1>19, <1>20, <1>21, <1>22, <1>23, <1>24, <1>25, <1>26,
              <1>27, <1>28, <1>29, <1>30, <1>31, <1>32, <1>33, <1>34, <1>35, <1>36,
        <1>37, <1>38 DEF Next

\* The logical volumes.
LEMMA LvStep == IInv /\ Next => LvInv'
<1> SUFFICES ASSUME IInv, Next PROVE LvInv'
  OBVIOUS
<1> USE NameFacts, GidsAreNumbers DEF IInv, LvInv, DataInv, ThreadInv, AsideInv, ImageInv,
                                      Images, States, Threads, Exists, Left
<1>1. ASSUME NEW g \in Gid, RestoreBegin(g) PROVE LvInv'
  BY <1>1 DEF RestoreBegin, MuFree, NoThread, Without, history
<1>2. ASSUME NEW g \in Gid, ApplyBegin(g) PROVE LvInv'
  BY <1>2 DEF ApplyBegin, MuFree, NoThread, Reach, durable, history, Chain
<1>3. ASSUME NEW g \in Gid, DelBegin(g) PROVE LvInv'
  BY <1>3 DEF DelBegin, Fault, MuFree, NoThread, durable
<1>4. ASSUME NEW g \in Gid, DelRestored(g) PROVE LvInv'
  BY <1>4 DEF DelRestored, MuFree, Without, history, threads
<1>5. CASE RestoreReadState
  BY <1>5 DEF RestoreReadState, UseCold, durable, getMetaStateForDetail, history, ColdGids
<1>6. CASE RestoreSnap
  BY <1>6 DEF RestoreSnap, Noted, Origin, With
<1>7. CASE RestoreApply
  BY <1>7 DEF RestoreApply, Chain, NoThread, With, Written, history
<1>8. CASE RestoreNoNeedToApply
  BY <1>8 DEF RestoreNoNeedToApply, NoThread, durable, history
<1>9. CASE RestoreMakeCold
  BY <1>9 DEF RestoreMakeCold, Noted, With
<1>10. CASE RestoreSetColdTimestamp
  BY <1>10 DEF RestoreSetColdTimestamp, history
<1>11. CASE RestoreRename
  BY <1>11 DEF RestoreRename, NoThread, Rename, history
<1>12. CASE RestoreRemoveCold
  BY <1>12 DEF RestoreRemoveCold, Without, history
<1>13. CASE RestoreRemoveStamp
  BY <1>13 DEF RestoreRemoveStamp, Noted, Exists
<1>14. CASE RestoreListCold
  BY <1>14 DEF RestoreListCold, KeepOneNext, NoThread, durable, history
<1>15. CASE RestoreFails
  BY <1>15 DEF RestoreFails, Chain, NoThread, Origin, UseCold, Without, getMetaStateForDetail,
               history, ColdGids
<1>16. CASE ApplyRecover
  <2>1. recoverColdToBaseIfNecessary /\ cache' = RecoveredCache
    BY <1>16 DEF ApplyRecover
  <2>2. CASE Left = {} /\ Exists(Base) /\ UNCHANGED <<diffs, metaSt, lvs, stamps, cache>>
    BY <1>16, <2>2 DEF ApplyRecover, history
  <2>3. ASSUME NEW g \in Gid, Left = {ToBase(g)}, Exists(ToBase(g)), Forgets(g)
        PROVE  LvInv'
    BY <1>16, <2>3 DEF ApplyRecover, history, Forgets, Without
  <2>4. ASSUME NEW g \in Gid, Left = {ToBase(g)}, Exists(ToBase(g)), PutsBack(g)
        PROVE  LvInv'
    BY <1>16, <2>4 DEF ApplyRecover, history, PutsBack, Rename
  <2>5. ASSUME NEW g \in Gid, Left = {ToBase(g)}, Exists(ToBase(g)), Completes(g)
        PROVE  LvInv'
    BY <1>16, <2>5 DEF ApplyRecover, history, Completes, Replaced
  <2> QED BY <2>1, <2>2, <2>3, <2>4, <2>5, RecoverEffect
<1>17. CASE ApplyReadState
  BY <1>17 DEF ApplyReadState, UseCold, durable, getMetaStateForDetail, history, ColdGids
<1>18. CASE makeColdToBase
  BY <1>18 DEF makeColdToBase, Rename, history
<1>19. CASE DropBase
  BY <1>19 DEF DropBase, Without, history
<1>20. CASE SetColdMetaState
  BY <1>20 DEF SetColdMetaState, history
<1>21. CASE MakeColdToBaseFails
  BY <1>21 DEF MakeColdToBaseFails, Fault, NoThread, durable
<1>22. CASE RenameToBase
  BY <1>22 DEF RenameToBase, Rename, history
<1>23. CASE RemoveColdTimestamp
  BY <1>23 DEF RemoveColdTimestamp, history
<1>24. CASE CleanBeforeCold
  BY <1>24 DEF CleanBeforeCold, NoThread, history, removeBeforeGid, Without
<1>25. CASE ApplyDiffs
  BY <1>25 DEF ApplyDiffs, Reach, history, Chain
<1>26. CASE ApplyWrite
  <2>1. Exists(Base) /\ lvs[Base] \in Images /\ metaSt.hi \in Int /\ metaSt.hi \in Gid
    BY <1>26 DEF ApplyWrite
  <2>2. Max({lvs[Base].hi, metaSt.hi}) \in Int
    <3>1. lvs[Base].hi \in Int
      BY <2>1
    <3>2. Max({lvs[Base].hi, metaSt.hi}) = IF lvs[Base].hi >= metaSt.hi THEN lvs[Base].hi ELSE metaSt.hi
      BY ZenonT(40), <2>1, <3>1, MaxOfTwo
    <3> QED BY <2>1, <3>1, <3>2
  <2>3. CASE lvs' = With(Base, [lvs[Base] EXCEPT !.hi = Max({@, metaSt.hi})])
    BY <2>1, <2>2, <2>3 DEF With
  <2>4. CASE lvs' = With(Base, Written(lvs[Base], metaSt.lo, metaSt.hi))
    BY SMTT(30), <2>1, <2>4 DEF With, Written
  <2> QED BY <1>26, <2>3, <2>4 DEF ApplyWrite
<1>27. CASE ApplyDone
  BY <1>27 DEF ApplyDone, history, removeBeforeGid, Without
<1>28. CASE ApplyEnd
  BY <1>28 DEF ApplyEnd, CanRecover, NoThread, Reach, UseCold, durable, getMetaStateForDetail,
               history, ColdGids, Chain
<1>29. CASE DelRemove
  BY <1>29 DEF DelRemove, Without, history
<1>30. CASE DelStamp
  BY <1>30 DEF DelStamp, NoThread, Noted
<1>31. CASE Receive
  BY <1>31 DEF Receive, history, threads
<1>32. CASE Crash
  BY <1>32 DEF Crash, Fault, NoThread, Without
<1>33. CASE Recover
  <2>1. recoverColdToBaseIfNecessary /\ cache' = RecoveredCache
    BY <1>33 DEF Recover
  <2>2. CASE Left = {} /\ Exists(Base) /\ UNCHANGED <<diffs, metaSt, lvs, stamps, cache>>
    BY <1>33, <2>2 DEF Recover, threads, history
  <2>3. ASSUME NEW g \in Gid, Left = {ToBase(g)}, Exists(ToBase(g)), Forgets(g)
        PROVE  LvInv'
    BY <1>33, <2>3 DEF Recover, threads, history, Forgets, Without
  <2>4. ASSUME NEW g \in Gid, Left = {ToBase(g)}, Exists(ToBase(g)), PutsBack(g)
        PROVE  LvInv'
    BY <1>33, <2>4 DEF Recover, threads, history, PutsBack, Rename
  <2>5. ASSUME NEW g \in Gid, Left = {ToBase(g)}, Exists(ToBase(g)), Completes(g)
        PROVE  LvInv'
    BY SMTT(30), <1>33, <2>5 DEF Recover, threads, history, Completes, Replaced
  <2> QED BY <2>1, <2>2, <2>3, <2>4, <2>5, RecoverEffect
<1>34. CASE VerifyCold
  BY <1>34 DEF VerifyCold, Without, history, threads
<1>35. CASE RestoreAddCold
  BY <1>35 DEF RestoreAddCold, Noted, durable
<1>36. CASE RestoreUncache
  BY <1>36 DEF RestoreUncache, KeepOneNext, NoThread, durable, history
<1>37. CASE UncacheCold
  BY <1>37 DEF UncacheCold, durable, history
<1>38. CASE DelUncache
  BY <1>38 DEF DelUncache, durable, history
<1> QED
  BY <1>1, <1>2, <1>3, <1>4, <1>5, <1>6, <1>7, <1>8, <1>9, <1>10, <1>11, <1>12, <1>13, <1>14,
        <1>15, <1>16, <1>17, <1>18, <1>19, <1>20, <1>21, <1>22, <1>23, <1>24, <1>25, <1>26,
              <1>27, <1>28, <1>29, <1>30, <1>31, <1>32, <1>33, <1>34, <1>35, <1>36,
        <1>37, <1>38 DEF Next

\* The three threads are where the daemon is.
LEMMA ThreadStep == IInv /\ Next => ThreadInv'
<1> SUFFICES ASSUME IInv, Next PROVE ThreadInv'
  OBVIOUS
<1> USE GidsAreNumbers DEF IInv, ThreadInv, DataInv, Threads, RestorePcs, ApplyPcs, DelPcs,
                           NoThread
<1>1. ASSUME NEW g \in Gid, RestoreBegin(g) PROVE ThreadInv'
  BY <1>1 DEF RestoreBegin, Exists, MuFree, Without, history
<1>2. ASSUME NEW g \in Gid, ApplyBegin(g) PROVE ThreadInv'
  BY <1>2 DEF ApplyBegin, MuFree, Reach, durable, history, Chain
<1>3. ASSUME NEW g \in Gid, DelBegin(g) PROVE ThreadInv'
  BY <1>3 DEF DelBegin, Fault, MuFree, durable
<1>4. ASSUME NEW g \in Gid, DelRestored(g) PROVE ThreadInv'
  BY <1>4 DEF DelRestored, Exists, MuFree, Without, history, threads
<1>5. CASE RestoreReadState
  <2>1. rst \in Threads(RestorePcs) /\ FALSE \in BOOLEAN /\ rst.gid \in Gid
    OBVIOUS
  <2>2. UseCold(rst.gid, FALSE) \in BOOLEAN /\ getMetaStateForDetail(rst.gid, FALSE) \in States
    BY <2>1, MetaStateType
  <2> QED BY <1>5, <2>1, <2>2 DEF RestoreReadState, history
<1>6. CASE RestoreSnap
  BY <1>6 DEF RestoreSnap, Exists, Noted, Origin, With
<1>7. CASE RestoreApply
  BY <1>7 DEF RestoreApply, Chain, With, Written, history, Broken
<1>8. CASE RestoreNoNeedToApply
  BY <1>8 DEF RestoreNoNeedToApply, durable, history
<1>9. CASE RestoreMakeCold
  BY <1>9 DEF RestoreMakeCold, Exists, Noted, With
<1>10. CASE RestoreSetColdTimestamp
  BY <1>10 DEF RestoreSetColdTimestamp, history
<1>11. CASE RestoreRename
  <2>1. rst' = [NoThread EXCEPT !.pc = "list"] \/ rst' = NoThread
    BY <1>11 DEF RestoreRename
  <2>2. UNCHANGED <<up, apl, del>> /\ up = "up"
    BY <1>11 DEF RestoreRename
  <2>3. CASE rst' = NoThread
    BY <2>2, <2>3
  <2>4. CASE rst' = [NoThread EXCEPT !.pc = "list"]
    BY <2>2, <2>4
  <2> QED BY <2>1, <2>3, <2>4
<1>12. CASE RestoreRemoveCold
  <2>1. rst.old \subseteq Gid /\ rst.old # {}
    BY <1>12 DEF RestoreRemoveCold
  <2>2. Min(rst.old) \in Gid
    BY <2>1, MinOfGids
  <2>3. rst' = [rst EXCEPT !.pc = "keepOneStamp", !.gid = Min(rst.old),
                           !.old = rst.old \ {Min(rst.old)}]
    BY <1>12 DEF RestoreRemoveCold
  <2> HIDE DEF NoThread
  <2>4. rst' \in Threads(RestorePcs) /\ rst'.pc = "keepOneStamp"
    BY <2>1, <2>2, <2>3
  <2>5. UNCHANGED <<up, apl, del>>
    BY <1>12 DEF RestoreRemoveCold
  <2>6. up = "up"
    BY <1>12 DEF RestoreRemoveCold, NoThread
  <2> QED BY <2>4, <2>5, <2>6
<1>13. CASE RestoreRemoveStamp
  BY <1>13 DEF RestoreRemoveStamp, Noted, Exists
<1>14. CASE RestoreListCold
  BY <1>14 DEF RestoreListCold, KeepOneNext, NoThread, durable, history
<1>15. CASE RestoreFails
  BY <1>15 DEF RestoreFails, Chain, Exists, Origin, Without, history
<1>16. CASE ApplyRecover
  BY <1>16 DEF ApplyRecover, history
<1>17. CASE ApplyReadState
  <2>1. apl \in Threads(ApplyPcs) /\ TRUE \in BOOLEAN /\ apl.gid \in Gid
    OBVIOUS
  <2>2. UseCold(apl.gid, TRUE) \in BOOLEAN /\ getMetaStateForDetail(apl.gid, TRUE) \in States
    BY <2>1, MetaStateType
  <2> QED BY <1>17, <2>1, <2>2 DEF ApplyReadState, history
<1>18. CASE makeColdToBase
  BY <1>18 DEF makeColdToBase, Exists, Rename, history
<1>19. CASE DropBase
  BY <1>19 DEF DropBase, Without, history
<1>20. CASE SetColdMetaState
  BY <1>20 DEF SetColdMetaState, history
<1>21. CASE MakeColdToBaseFails
  BY <1>21 DEF MakeColdToBaseFails, Fault, durable
<1>22. CASE RenameToBase
  BY <1>22 DEF RenameToBase, Rename, history
<1>23. CASE RemoveColdTimestamp
  BY <1>23 DEF RemoveColdTimestamp, history
<1>24. CASE CleanBeforeCold
  BY <1>24 DEF CleanBeforeCold, history, removeBeforeGid, Without
<1>25. CASE ApplyDiffs
  BY <1>25 DEF ApplyDiffs, Reach, history, Chain
<1>26. CASE ApplyWrite
  BY <1>26 DEF ApplyWrite, With, Written, history, Broken
<1>27. CASE ApplyDone
  <2>1. Exact(metaSt.hi) \in States
    BY GidsAreNumbers DEF States
  <2> QED BY <1>27, <2>1 DEF ApplyDone, history
<1>28. CASE ApplyEnd
  BY <1>28 DEF ApplyEnd, CanRecover, Exists, Reach, durable, history, Chain, Left
<1>29. CASE DelRemove
  BY <1>29 DEF DelRemove, Without, history
<1>30. CASE DelStamp
  BY <1>30 DEF DelStamp, Exists, Noted
<1>31. CASE Receive
  BY <1>31 DEF Receive, history, threads
<1>32. CASE Crash
  BY <1>32 DEF Crash, Fault, Without
<1>33. CASE Recover
  BY <1>33 DEF Recover, history, threads
<1>34. CASE VerifyCold
  BY <1>34 DEF VerifyCold, Without, history, threads
<1>35. CASE RestoreAddCold
  BY <1>35 DEF RestoreAddCold, Noted, durable
<1>36. CASE RestoreUncache
  BY <1>36 DEF RestoreUncache, KeepOneNext, NoThread, durable, history
<1>37. CASE UncacheCold
  BY <1>37 DEF UncacheCold, durable, history
<1>38. CASE DelUncache
  BY <1>38 DEF DelUncache, durable, history
<1> QED
  BY <1>1, <1>2, <1>3, <1>4, <1>5, <1>6, <1>7, <1>8, <1>9, <1>10, <1>11, <1>12, <1>13, <1>14,
        <1>15, <1>16, <1>17, <1>18, <1>19, <1>20, <1>21, <1>22, <1>23, <1>24, <1>25, <1>26,
              <1>27, <1>28, <1>29, <1>30, <1>31, <1>32, <1>33, <1>34, <1>35, <1>36,
        <1>37, <1>38 DEF Next

\* At most one image is set aside, and recovery leaves none.
LEMMA AsideStep == IInv /\ Next => AsideInv'
<1> SUFFICES ASSUME IInv, Next PROVE AsideInv'
  OBVIOUS
<1> USE BoundsAreSane, NameFacts DEF IInv, LvInv, ThreadInv, AsideInv, ApplyInv, DataInv,
                                     States, Gid, Exists, Left, Threads, NoThread
<1>1. ASSUME NEW g \in Gid, RestoreBegin(g) PROVE AsideInv'
  BY <1>1 DEF RestoreBegin, MuFree, Without, history
<1>2. ASSUME NEW g \in Gid, ApplyBegin(g) PROVE AsideInv'
  BY <1>2 DEF ApplyBegin, MuFree, Reach, durable, history, Chain
<1>3. ASSUME NEW g \in Gid, DelBegin(g) PROVE AsideInv'
  BY <1>3 DEF DelBegin, Fault, MuFree, durable
<1>4. ASSUME NEW g \in Gid, DelRestored(g) PROVE AsideInv'
  BY <1>4 DEF DelRestored, MuFree, Without, history, threads
<1>5. CASE RestoreReadState
  BY <1>5 DEF RestoreReadState, durable, history
<1>6. CASE RestoreSnap
  BY <1>6 DEF RestoreSnap, Noted, Origin, With
<1>7. CASE RestoreApply
  BY <1>7 DEF RestoreApply, Chain, With, Written, history, Broken
<1>8. CASE RestoreNoNeedToApply
  BY <1>8 DEF RestoreNoNeedToApply, durable, history
<1>9. CASE RestoreMakeCold
  BY <1>9 DEF RestoreMakeCold, Noted, With
<1>10. CASE RestoreSetColdTimestamp
  BY <1>10 DEF RestoreSetColdTimestamp, history
<1>11. CASE RestoreRename
  BY <1>11 DEF RestoreRename, Rename, history
<1>12. CASE RestoreRemoveCold
  BY <1>12 DEF RestoreRemoveCold, Without, history
<1>13. CASE RestoreRemoveStamp
  BY <1>13 DEF RestoreRemoveStamp, Noted, Exists
<1>14. CASE RestoreListCold
  BY <1>14 DEF RestoreListCold, KeepOneNext, NoThread, durable, history
<1>15. CASE RestoreFails
  BY <1>15 DEF RestoreFails, Chain, Origin, Without, history
<1>16. CASE ApplyRecover
  <2>1. recoverColdToBaseIfNecessary /\ cache' = RecoveredCache
    BY <1>16 DEF ApplyRecover
  <2>2. CASE Left = {} /\ Exists(Base) /\ UNCHANGED <<diffs, metaSt, lvs, stamps, cache>>
    BY <1>16, <2>2 DEF ApplyRecover, history
  <2>3. ASSUME NEW g \in Gid, Left = {ToBase(g)}, Exists(ToBase(g)), Forgets(g)
        PROVE  AsideInv'
    BY <1>16, <2>3 DEF ApplyRecover, history, Forgets, Without
  <2>4. ASSUME NEW g \in Gid, Left = {ToBase(g)}, Exists(ToBase(g)), PutsBack(g)
        PROVE  AsideInv'
    BY <1>16, <2>4 DEF ApplyRecover, history, PutsBack, Rename
  <2>5. ASSUME NEW g \in Gid, Left = {ToBase(g)}, Exists(ToBase(g)), Completes(g)
        PROVE  AsideInv'
    BY <1>16, <2>5 DEF ApplyRecover, history, Completes, Replaced
  <2> QED BY <2>1, <2>2, <2>3, <2>4, <2>5, RecoverEffect
<1>17. CASE ApplyReadState
  BY <1>17 DEF ApplyReadState, durable, history
<1>18. CASE makeColdToBase
  BY <1>18 DEF makeColdToBase, Rename, history
<1>19. CASE DropBase
  BY <1>19 DEF DropBase, Without, history
<1>20. CASE SetColdMetaState
  BY <1>20 DEF SetColdMetaState, history
<1>21. CASE MakeColdToBaseFails
  BY <1>21 DEF MakeColdToBaseFails, Fault, durable
<1>22. CASE RenameToBase
  BY <1>22 DEF RenameToBase, Rename, history
<1>23. CASE RemoveColdTimestamp
  BY <1>23 DEF RemoveColdTimestamp, history
<1>24. CASE CleanBeforeCold
  BY <1>24 DEF CleanBeforeCold, history, removeBeforeGid, Without
<1>25. CASE ApplyDiffs
  BY <1>25 DEF ApplyDiffs, Reach, history, Chain
<1>26. CASE ApplyWrite
  BY <1>26 DEF ApplyWrite, With, Written, history, Broken
<1>27. CASE ApplyDone
  BY <1>27 DEF ApplyDone, history, removeBeforeGid, Without
<1>28. CASE ApplyEnd
  BY <1>28 DEF ApplyEnd, CanRecover, Reach, durable, history, Chain
<1>29. CASE DelRemove
  BY <1>29 DEF DelRemove, Without, history
<1>30. CASE DelStamp
  BY <1>30 DEF DelStamp, Noted
<1>31. CASE Receive
  BY <1>31 DEF Receive, history, threads
<1>32. CASE Crash
  BY <1>32 DEF Crash, Fault, Without
<1>33. CASE Recover
  <2>1. recoverColdToBaseIfNecessary /\ cache' = RecoveredCache
    BY <1>33 DEF Recover
  <2>2. CASE Left = {} /\ Exists(Base) /\ UNCHANGED <<diffs, metaSt, lvs, stamps, cache>>
    BY <1>33, <2>2 DEF Recover, threads, history
  <2>3. ASSUME NEW g \in Gid, Left = {ToBase(g)}, Exists(ToBase(g)), Forgets(g)
        PROVE  AsideInv'
    BY <1>33, <2>3 DEF Recover, threads, history, Forgets, Without
  <2>4. ASSUME NEW g \in Gid, Left = {ToBase(g)}, Exists(ToBase(g)), PutsBack(g)
        PROVE  AsideInv'
    BY <1>33, <2>4 DEF Recover, threads, history, PutsBack, Rename
  <2>5. ASSUME NEW g \in Gid, Left = {ToBase(g)}, Exists(ToBase(g)), Completes(g)
        PROVE  AsideInv'
    BY <1>33, <2>5 DEF Recover, threads, history, Completes, Replaced
  <2> QED BY <2>1, <2>2, <2>3, <2>4, <2>5, RecoverEffect
<1>34. CASE VerifyCold
  BY <1>34 DEF VerifyCold, Without, history, threads
<1>35. CASE RestoreAddCold
  BY <1>35 DEF RestoreAddCold, Noted, durable
<1>36. CASE RestoreUncache
  BY <1>36 DEF RestoreUncache, KeepOneNext, NoThread, durable, history
<1>37. CASE UncacheCold
  BY <1>37 DEF UncacheCold, durable, history
<1>38. CASE DelUncache
  BY <1>38 DEF DelUncache, durable, history
<1> QED
  BY <1>1, <1>2, <1>3, <1>4, <1>5, <1>6, <1>7, <1>8, <1>9, <1>10, <1>11, <1>12, <1>13, <1>14,
        <1>15, <1>16, <1>17, <1>18, <1>19, <1>20, <1>21, <1>22, <1>23, <1>24, <1>25, <1>26,
              <1>27, <1>28, <1>29, <1>30, <1>31, <1>32, <1>33, <1>34, <1>35, <1>36,
        <1>37, <1>38 DEF Next

\* apply knows the meta state at each of its steps.
LEMMA ApplyStep == IInv /\ Next => ApplyInv'
<1> SUFFICES ASSUME IInv, Next PROVE ApplyInv'
  OBVIOUS
<1> USE BoundsAreSane DEF IInv, DataInv, ThreadInv, AsideInv, ApplyInv, States, Gid, Threads,
                          Exact, NoThread
<1>1. ASSUME NEW g \in Gid, RestoreBegin(g) PROVE ApplyInv'
  BY <1>1 DEF RestoreBegin, Exists, MuFree, Without, history
<1>2. ASSUME NEW g \in Gid, ApplyBegin(g) PROVE ApplyInv'
  BY <1>2 DEF ApplyBegin, MuFree, Reach, durable, history, Chain
<1>3. ASSUME NEW g \in Gid, DelBegin(g) PROVE ApplyInv'
  BY <1>3 DEF DelBegin, Fault, MuFree, durable
<1>4. ASSUME NEW g \in Gid, DelRestored(g) PROVE ApplyInv'
  BY <1>4 DEF DelRestored, Exists, MuFree, Without, history, threads
<1>5. CASE RestoreReadState
  BY <1>5 DEF RestoreReadState, durable, history
<1>6. CASE RestoreSnap
  BY <1>6 DEF RestoreSnap, Exists, Noted, Origin, With
<1>7. CASE RestoreApply
  BY <1>7 DEF RestoreApply, Chain, With, Written, history, Broken
<1>8. CASE RestoreNoNeedToApply
  BY <1>8 DEF RestoreNoNeedToApply, durable, history
<1>9. CASE RestoreMakeCold
  BY <1>9 DEF RestoreMakeCold, Exists, Noted, With
<1>10. CASE RestoreSetColdTimestamp
  BY <1>10 DEF RestoreSetColdTimestamp, history
<1>11. CASE RestoreRename
  BY <1>11 DEF RestoreRename, Rename, history
<1>12. CASE RestoreRemoveCold
  BY <1>12 DEF RestoreRemoveCold, Without, history
<1>13. CASE RestoreRemoveStamp
  BY <1>13 DEF RestoreRemoveStamp, Noted, Exists
<1>14. CASE RestoreListCold
  BY <1>14 DEF RestoreListCold, KeepOneNext, NoThread, durable, history
<1>15. CASE RestoreFails
  BY <1>15 DEF RestoreFails, Chain, Exists, Origin, Without, history
<1>16. CASE ApplyRecover
  BY <1>16 DEF ApplyRecover, history
<1>17. CASE ApplyReadState
  <2>1. apl \in Threads(ApplyPcs) /\ TRUE \in BOOLEAN /\ apl.gid \in Gid
    OBVIOUS
  <2>2. /\ UseCold(apl.gid, TRUE) =>
                \E g \in cache : /\ g > metaSt.lo
                                 /\ getMetaStateForDetail(apl.gid, TRUE) = Exact(g)
        /\ ~UseCold(apl.gid, TRUE) => getMetaStateForDetail(apl.gid, TRUE) = metaSt
    BY <2>1, MetaStateType
  <2>3. CASE UseCold(apl.gid, TRUE)
    <3>1. PICK g \in cache : g > metaSt.lo /\ getMetaStateForDetail(apl.gid, TRUE) = Exact(g)
      BY <2>2, <2>3
    <3>2. apl'.pc = "aside" /\ apl'.st = Exact(g)
      BY <1>17, <2>3, <3>1 DEF ApplyReadState
    <3>3. apl'.st = Exact(apl'.st.lo) /\ apl'.st.lo = g
      BY <3>2 DEF Exact
    <3>4. UNCHANGED metaSt
      BY <1>17 DEF ApplyReadState, durable
    <3> QED BY <3>1, <3>2, <3>3, <3>4 DEF ApplyInv
  <2>4. CASE ~UseCold(apl.gid, TRUE)
    <3>1. apl'.pc = "diffs" /\ apl'.st = metaSt
      BY <1>17, <2>2, <2>4 DEF ApplyReadState
    <3> QED BY <1>17, <3>1 DEF ApplyReadState, durable
  <2> QED BY <2>3, <2>4
<1>18. CASE makeColdToBase
  BY <1>18 DEF makeColdToBase, Exists, Rename, history
<1>19. CASE DropBase
  BY <1>19 DEF DropBase, Without, history
<1>20. CASE SetColdMetaState
  BY <1>20 DEF SetColdMetaState, history
<1>21. CASE MakeColdToBaseFails
  BY <1>21 DEF MakeColdToBaseFails, Fault, durable
<1>22. CASE RenameToBase
  BY <1>22 DEF RenameToBase, Rename, history
<1>23. CASE RemoveColdTimestamp
  BY <1>23 DEF RemoveColdTimestamp, history
<1>24. CASE CleanBeforeCold
  BY <1>24 DEF CleanBeforeCold, history, removeBeforeGid, Without
<1>25. CASE ApplyDiffs
  BY <1>25 DEF ApplyDiffs, Reach, history, Chain
<1>26. CASE ApplyWrite
  BY <1>26 DEF ApplyWrite, With, Written, history, Broken
<1>27. CASE ApplyDone
  BY <1>27 DEF ApplyDone, history, removeBeforeGid, Without
<1>28. CASE ApplyEnd
  BY <1>28 DEF ApplyEnd, CanRecover, Exists, Reach, durable, history, Chain, Left
<1>29. CASE DelRemove
  BY <1>29 DEF DelRemove, Without, history
<1>30. CASE DelStamp
  BY <1>30 DEF DelStamp, Exists, Noted
<1>31. CASE Receive
  BY <1>31 DEF Receive, history, threads
<1>32. CASE Crash
  BY <1>32 DEF Crash, Fault, Without
<1>33. CASE Recover
  BY <1>33 DEF Recover, history, threads
<1>34. CASE VerifyCold
  BY <1>34 DEF VerifyCold, Without, history, threads
<1>35. CASE RestoreAddCold
  BY <1>35 DEF RestoreAddCold, Noted, durable
<1>36. CASE RestoreUncache
  BY <1>36 DEF RestoreUncache, KeepOneNext, NoThread, durable, history
<1>37. CASE UncacheCold
  BY <1>37 DEF UncacheCold, durable, history
<1>38. CASE DelUncache
  BY <1>38 DEF DelUncache, durable, history
<1> QED
  BY <1>1, <1>2, <1>3, <1>4, <1>5, <1>6, <1>7, <1>8, <1>9, <1>10, <1>11, <1>12, <1>13, <1>14,
        <1>15, <1>16, <1>17, <1>18, <1>19, <1>20, <1>21, <1>22, <1>23, <1>24, <1>25, <1>26,
              <1>27, <1>28, <1>29, <1>30, <1>31, <1>32, <1>33, <1>34, <1>35, <1>36,
        <1>37, <1>38 DEF Next

\* What restore copies and apply writes is what they think it is.
LEMMA ImageStep == IInv /\ Next => ImageInv'
<1> SUFFICES ASSUME IInv, Next PROVE ImageInv'
  OBVIOUS
<1> USE BoundsAreSane, NameFacts DEF IInv, LvInv, ThreadInv, AsideInv, ApplyInv, ImageInv,
                                     BaseMatchesMetaState, ImagesExact, DataInv, Images, States,
                                     Gid, Exists, Left, Threads, NoThread, Exact
<1>1. ASSUME NEW g \in Gid, RestoreBegin(g) PROVE ImageInv'
  BY <1>1 DEF RestoreBegin, MuFree, Without, history
<1>2. ASSUME NEW g \in Gid, ApplyBegin(g) PROVE ImageInv'
  BY <1>2 DEF ApplyBegin, MuFree, Reach, durable, history, Chain
<1>3. ASSUME NEW g \in Gid, DelBegin(g) PROVE ImageInv'
  BY <1>3 DEF DelBegin, Fault, MuFree, durable
<1>4. ASSUME NEW g \in Gid, DelRestored(g) PROVE ImageInv'
  BY <1>4 DEF DelRestored, MuFree, Without, history, threads
<1>5. CASE RestoreReadState
  <2>1. rst \in Threads(RestorePcs) /\ FALSE \in BOOLEAN /\ rst.gid \in Gid
    OBVIOUS
  <2>2. /\ UseCold(rst.gid, FALSE) \in BOOLEAN
        /\ UseCold(rst.gid, FALSE) =>
                \E g \in cache : getMetaStateForDetail(rst.gid, FALSE) = Exact(g)
    BY <2>1, MetaStateType
  <2>3. rst' = [rst EXCEPT !.pc = "snap", !.st = getMetaStateForDetail(rst.gid, FALSE),
                           !.cold = UseCold(rst.gid, FALSE)]
    BY <1>5 DEF RestoreReadState
  <2>4. rst'.pc = "snap" /\ (rst'.cold => rst'.st = Exact(rst'.st.lo))
    <3>1. rst'.pc = "snap" /\ rst'.cold = UseCold(rst.gid, FALSE)
          /\ rst'.st = getMetaStateForDetail(rst.gid, FALSE)
      BY <2>1, <2>3 DEF Threads
    <3>2. ASSUME rst'.cold PROVE rst'.st = Exact(rst'.st.lo)
      <4>1. UseCold(rst.gid, FALSE)
        BY <3>1, <3>2, Zenon
      <4>2. PICK g \in cache : getMetaStateForDetail(rst.gid, FALSE) = Exact(g)
        BY <2>2, <4>1, Zenon
      <4>3. rst'.st = Exact(g)
        BY <3>1, <4>2, Zenon
      <4> QED BY <4>3 DEF Exact
    <3> QED BY <3>1, <3>2
  <2> QED BY <1>5, <2>4 DEF RestoreReadState, durable, history
<1>6. CASE RestoreSnap
  BY <1>6 DEF RestoreSnap, Noted, Origin, With
<1>7. CASE RestoreApply
  BY <1>7 DEF RestoreApply, Chain, With, Written, history, Broken
<1>8. CASE RestoreNoNeedToApply
  <2>1. Exists(TmpRestored) /\ lvs[TmpRestored] \in Images /\ rst.gid \in Int
    BY <1>8 DEF RestoreNoNeedToApply
  <2>2. "overtaken" \notin accidents => lvs[TmpRestored] = Exact(rst.gid)
    <3> SUFFICES ASSUME "overtaken" \notin accidents PROVE lvs[TmpRestored] = Exact(rst.gid)
      OBVIOUS
    <3>1. rst.st.lo = rst.gid /\ rst.st.hi = rst.gid
      BY <1>8 DEF RestoreNoNeedToApply
    <3>2. rst.pc = "apply"
      BY <1>8 DEF RestoreNoNeedToApply
    <3>3. /\ rst.st.lo <= lvs[TmpRestored].lo
          /\ lvs[TmpRestored].lo <= lvs[TmpRestored].hi
          /\ lvs[TmpRestored].hi <= rst.st.hi
      BY <3>2 DEF ImageInv
    <3> QED BY <2>1, <3>1, <3>3, Squeezed
  <2> QED BY <1>8, <2>1, <2>2 DEF RestoreNoNeedToApply, durable, history
<1>9. CASE RestoreMakeCold
  BY <1>9 DEF RestoreMakeCold, Noted, With
<1>10. CASE RestoreSetColdTimestamp
  BY <1>10 DEF RestoreSetColdTimestamp, history
<1>11. CASE RestoreRename
  BY <1>11 DEF RestoreRename, Rename, history
<1>12. CASE RestoreRemoveCold
  BY <1>12 DEF RestoreRemoveCold, Without, history
<1>13. CASE RestoreRemoveStamp
  BY <1>13 DEF RestoreRemoveStamp, Noted, Exists
<1>14. CASE RestoreListCold
  BY <1>14 DEF RestoreListCold, KeepOneNext, NoThread, durable, history
<1>15. CASE RestoreFails
  BY <1>15 DEF RestoreFails, Chain, Origin, Without, history
<1>16. CASE ApplyRecover
  <2>1. recoverColdToBaseIfNecessary /\ cache' = RecoveredCache
    BY <1>16 DEF ApplyRecover
  <2>2. CASE Left = {} /\ Exists(Base) /\ UNCHANGED <<diffs, metaSt, lvs, stamps, cache>>
    BY <1>16, <2>2 DEF ApplyRecover, history
  <2>3. ASSUME NEW g \in Gid, Left = {ToBase(g)}, Exists(ToBase(g)), Forgets(g)
        PROVE  ImageInv'
    BY <1>16, <2>3 DEF ApplyRecover, history, Forgets, Without
  <2>4. ASSUME NEW g \in Gid, Left = {ToBase(g)}, Exists(ToBase(g)), PutsBack(g)
        PROVE  ImageInv'
    BY <1>16, <2>4 DEF ApplyRecover, history, PutsBack, Rename
  <2>5. ASSUME NEW g \in Gid, Left = {ToBase(g)}, Exists(ToBase(g)), Completes(g)
        PROVE  ImageInv'
    BY <1>16, <2>5 DEF ApplyRecover, history, Completes, Replaced
  <2> QED BY <2>1, <2>2, <2>3, <2>4, <2>5, RecoverEffect
<1>17. CASE ApplyReadState
  BY <1>17 DEF ApplyReadState, durable, history
<1>18. CASE makeColdToBase
  BY <1>18 DEF makeColdToBase, Rename, history
<1>19. CASE DropBase
  BY <1>19 DEF DropBase, Without, history
<1>20. CASE SetColdMetaState
  BY <1>20 DEF SetColdMetaState, history
<1>21. CASE MakeColdToBaseFails
  BY <1>21 DEF MakeColdToBaseFails, Fault, durable
<1>22. CASE RenameToBase
  BY <1>22 DEF RenameToBase, Rename, history
<1>23. CASE RemoveColdTimestamp
  BY <1>23 DEF RemoveColdTimestamp, history
<1>24. CASE CleanBeforeCold
  BY <1>24 DEF CleanBeforeCold, history, removeBeforeGid, Without
<1>25. CASE ApplyDiffs
  BY <1>25 DEF ApplyDiffs, Reach, history, Chain
<1>26. CASE ApplyWrite
  <2>1. /\ Exists(Base) /\ lvs[Base] \in Images
        /\ lvs[Base].hi \in Int /\ lvs[Base].lo \in Int /\ metaSt.hi \in Int /\ metaSt.lo \in Int
    BY <1>26 DEF ApplyWrite
  <2>2. Max({lvs[Base].hi, metaSt.hi}) = IF lvs[Base].hi >= metaSt.hi THEN lvs[Base].hi ELSE metaSt.hi
    BY SMTT(30), <2>1, MaxOfTwo
  <2>3. CASE /\ lvs' = With(Base, [lvs[Base] EXCEPT !.hi = Max({@, metaSt.hi})])
             /\ UNCHANGED apl
    <3>1. /\ DOMAIN lvs' = DOMAIN lvs
          /\ lvs'[Base] = [lvs[Base] EXCEPT !.hi = Max({lvs[Base].hi, metaSt.hi})]
          /\ \A n \in DOMAIN lvs : n # Base => lvs'[n] = lvs[n]
      BY <2>1, <2>3, WithEffect
    <3>2. /\ lvs'[Base].lo = lvs[Base].lo
          /\ lvs'[Base].hi = IF lvs[Base].hi >= metaSt.hi THEN lvs[Base].hi ELSE metaSt.hi
      BY <2>1, <2>2, <3>1
    <3> QED BY SMTT(30), <1>26, <2>1, <2>3, <3>1, <3>2 DEF ApplyWrite, history
  <2>4. CASE /\ lvs' = With(Base, Written(lvs[Base], metaSt.lo, metaSt.hi))
             /\ apl' = [apl EXCEPT !.pc = "done"]
    BY <1>26, <2>1, <2>4 DEF ApplyWrite, With, Written, history
  <2> QED BY <1>26, <2>3, <2>4 DEF ApplyWrite
<1>27. CASE ApplyDone
  BY <1>27 DEF ApplyDone, history, removeBeforeGid, Without
<1>28. CASE ApplyEnd
  BY <1>28 DEF ApplyEnd, CanRecover, Reach, durable, history, Chain
<1>29. CASE DelRemove
  BY <1>29 DEF DelRemove, Without, history
<1>30. CASE DelStamp
  BY <1>30 DEF DelStamp, Noted
<1>31. CASE Receive
  BY <1>31 DEF Receive, history, threads
<1>32. CASE Crash
  BY <1>32 DEF Crash, Fault, Without
<1>33. CASE Recover
  <2>1. recoverColdToBaseIfNecessary /\ cache' = RecoveredCache
    BY <1>33 DEF Recover
  <2>2. CASE Left = {} /\ Exists(Base) /\ UNCHANGED <<diffs, metaSt, lvs, stamps, cache>>
    BY <1>33, <2>2 DEF Recover, threads, history
  <2>3. ASSUME NEW g \in Gid, Left = {ToBase(g)}, Exists(ToBase(g)), Forgets(g)
        PROVE  ImageInv'
    BY <1>33, <2>3 DEF Recover, threads, history, Forgets, Without
  <2>4. ASSUME NEW g \in Gid, Left = {ToBase(g)}, Exists(ToBase(g)), PutsBack(g)
        PROVE  ImageInv'
    BY <1>33, <2>4 DEF Recover, threads, history, PutsBack, Rename
  <2>5. ASSUME NEW g \in Gid, Left = {ToBase(g)}, Exists(ToBase(g)), Completes(g)
        PROVE  ImageInv'
    BY <1>33, <2>5 DEF Recover, threads, history, Completes, Replaced
  <2> QED BY <2>1, <2>2, <2>3, <2>4, <2>5, RecoverEffect
<1>34. CASE VerifyCold
  BY <1>34 DEF VerifyCold, Without, history, threads
<1>35. CASE RestoreAddCold
  BY <1>35 DEF RestoreAddCold, Noted, durable
<1>36. CASE RestoreUncache
  BY <1>36 DEF RestoreUncache, KeepOneNext, NoThread, durable, history
<1>37. CASE UncacheCold
  BY <1>37 DEF UncacheCold, durable, history
<1>38. CASE DelUncache
  BY <1>38 DEF DelUncache, durable, history
<1> QED
  BY <1>1, <1>2, <1>3, <1>4, <1>5, <1>6, <1>7, <1>8, <1>9, <1>10, <1>11, <1>12, <1>13, <1>14,
        <1>15, <1>16, <1>17, <1>18, <1>19, <1>20, <1>21, <1>22, <1>23, <1>24, <1>25, <1>26,
              <1>27, <1>28, <1>29, <1>30, <1>31, <1>32, <1>33, <1>34, <1>35, <1>36,
        <1>37, <1>38 DEF Next

\* The image set aside keeps its timestamp and its name.
LEMMA StampStep == IInv /\ Next => StampInv'
<1> SUFFICES ASSUME IInv, Next PROVE StampInv'
  OBVIOUS
<1> USE NameFacts DEF IInv, LvInv, ThreadInv, AsideInv, StampInv, DataInv, Exists, Left,
                      Threads, NoThread
<1>1. ASSUME NEW g \in Gid, RestoreBegin(g) PROVE StampInv'
  BY <1>1 DEF RestoreBegin, MuFree, Without, history
<1>2. ASSUME NEW g \in Gid, ApplyBegin(g) PROVE StampInv'
  BY <1>2 DEF ApplyBegin, MuFree, Reach, durable, history, Chain
<1>3. ASSUME NEW g \in Gid, DelBegin(g) PROVE StampInv'
  BY <1>3 DEF DelBegin, Fault, MuFree, durable
<1>4. ASSUME NEW g \in Gid, DelRestored(g) PROVE StampInv'
  BY <1>4 DEF DelRestored, MuFree, Without, history, threads
<1>5. CASE RestoreReadState
  BY <1>5 DEF RestoreReadState, durable, history
<1>6. CASE RestoreSnap
  BY <1>6 DEF RestoreSnap, Noted, Origin, With
<1>7. CASE RestoreApply
  BY <1>7 DEF RestoreApply, Chain, With, Written, history, Broken
<1>8. CASE RestoreNoNeedToApply
  BY <1>8 DEF RestoreNoNeedToApply, durable, history
<1>9. CASE RestoreMakeCold
  BY <1>9 DEF RestoreMakeCold, Noted, With
<1>10. CASE RestoreSetColdTimestamp
  BY <1>10 DEF RestoreSetColdTimestamp, history
<1>11. CASE RestoreRename
  BY <1>11 DEF RestoreRename, Rename, history
<1>12. CASE RestoreRemoveCold
  <2>1. PICK g : lvs' = Without({Cold(g)})
    BY <1>12 DEF RestoreRemoveCold
  <2> QED BY <1>12, <2>1 DEF RestoreRemoveCold, Without, history
<1>13. CASE RestoreRemoveStamp
  BY <1>13 DEF RestoreRemoveStamp, Noted, Exists
<1>14. CASE RestoreListCold
  BY <1>14 DEF RestoreListCold, KeepOneNext, NoThread, durable, history
<1>15. CASE RestoreFails
  BY <1>15 DEF RestoreFails, Chain, Origin, Without, history
<1>16. CASE ApplyRecover
  <2>1. recoverColdToBaseIfNecessary /\ cache' = RecoveredCache
    BY <1>16 DEF ApplyRecover
  <2>2. CASE Left = {} /\ Exists(Base) /\ UNCHANGED <<diffs, metaSt, lvs, stamps, cache>>
    BY <1>16, <2>2 DEF ApplyRecover, history
  <2>3. ASSUME NEW g \in Gid, Left = {ToBase(g)}, Exists(ToBase(g)), Forgets(g)
        PROVE  StampInv'
    BY <1>16, <2>3 DEF ApplyRecover, history, Forgets, Without
  <2>4. ASSUME NEW g \in Gid, Left = {ToBase(g)}, Exists(ToBase(g)), PutsBack(g)
        PROVE  StampInv'
    BY <1>16, <2>4 DEF ApplyRecover, history, PutsBack, Rename
  <2>5. ASSUME NEW g \in Gid, Left = {ToBase(g)}, Exists(ToBase(g)), Completes(g)
        PROVE  StampInv'
    BY <1>16, <2>5 DEF ApplyRecover, history, Completes, Replaced
  <2> QED BY <2>1, <2>2, <2>3, <2>4, <2>5, RecoverEffect
<1>17. CASE ApplyReadState
  BY <1>17 DEF ApplyReadState, durable, history
<1>18. CASE makeColdToBase
  BY <1>18 DEF makeColdToBase, Rename, history
<1>19. CASE DropBase
  BY <1>19 DEF DropBase, Without, history
<1>20. CASE SetColdMetaState
  BY <1>20 DEF SetColdMetaState, history
<1>21. CASE MakeColdToBaseFails
  BY <1>21 DEF MakeColdToBaseFails, Fault, durable
<1>22. CASE RenameToBase
  BY <1>22 DEF RenameToBase, Rename, history
<1>23. CASE RemoveColdTimestamp
  BY <1>23 DEF RemoveColdTimestamp, history
<1>24. CASE CleanBeforeCold
  BY <1>24 DEF CleanBeforeCold, history, removeBeforeGid, Without
<1>25. CASE ApplyDiffs
  BY <1>25 DEF ApplyDiffs, Reach, history, Chain
<1>26. CASE ApplyWrite
  BY <1>26 DEF ApplyWrite, With, Written, history, Broken
<1>27. CASE ApplyDone
  BY <1>27 DEF ApplyDone, history, removeBeforeGid, Without
<1>28. CASE ApplyEnd
  BY <1>28 DEF ApplyEnd, CanRecover, Reach, durable, history, Chain
<1>29. CASE DelRemove
  <2>1. Left' = Left /\ DOMAIN lvs' \subseteq DOMAIN lvs
    BY <1>29 DEF DelRemove, Without
  <2> QED BY <1>29, <2>1 DEF DelRemove, history
<1>30. CASE DelStamp
  BY <1>30 DEF DelStamp, Noted
<1>31. CASE Receive
  BY <1>31 DEF Receive, history, threads
<1>32. CASE Crash
  BY <1>32 DEF Crash, Fault, Without
<1>33. CASE Recover
  <2>1. recoverColdToBaseIfNecessary /\ cache' = RecoveredCache
    BY <1>33 DEF Recover
  <2>2. CASE Left = {} /\ Exists(Base) /\ UNCHANGED <<diffs, metaSt, lvs, stamps, cache>>
    BY <1>33, <2>2 DEF Recover, threads, history
  <2>3. ASSUME NEW g \in Gid, Left = {ToBase(g)}, Exists(ToBase(g)), Forgets(g)
        PROVE  StampInv'
    BY <1>33, <2>3 DEF Recover, threads, history, Forgets, Without
  <2>4. ASSUME NEW g \in Gid, Left = {ToBase(g)}, Exists(ToBase(g)), PutsBack(g)
        PROVE  StampInv'
    BY <1>33, <2>4 DEF Recover, threads, history, PutsBack, Rename
  <2>5. ASSUME NEW g \in Gid, Left = {ToBase(g)}, Exists(ToBase(g)), Completes(g)
        PROVE  StampInv'
    BY <1>33, <2>5 DEF Recover, threads, history, Completes, Replaced
  <2> QED BY <2>1, <2>2, <2>3, <2>4, <2>5, RecoverEffect
<1>34. CASE VerifyCold
  <2>1. Left' = Left /\ DOMAIN lvs' \subseteq DOMAIN lvs
    BY <1>34 DEF VerifyCold, Without
  <2>2. /\ "twice" \in accidents' <=> "twice" \in accidents
        /\ "stampLost" \in accidents' <=> "stampLost" \in accidents
    BY <1>34 DEF VerifyCold
  <2> QED BY <1>34, <2>1, <2>2 DEF VerifyCold
<1>35. CASE RestoreAddCold
  BY <1>35 DEF RestoreAddCold, Noted, durable
<1>36. CASE RestoreUncache
  BY <1>36 DEF RestoreUncache, KeepOneNext, NoThread, durable, history
<1>37. CASE UncacheCold
  BY <1>37 DEF UncacheCold, durable, history
<1>38. CASE DelUncache
  BY <1>38 DEF DelUncache, durable, history
<1> QED
  BY <1>1, <1>2, <1>3, <1>4, <1>5, <1>6, <1>7, <1>8, <1>9, <1>10, <1>11, <1>12, <1>13, <1>14,
        <1>15, <1>16, <1>17, <1>18, <1>19, <1>20, <1>21, <1>22, <1>23, <1>24, <1>25, <1>26,
              <1>27, <1>28, <1>29, <1>30, <1>31, <1>32, <1>33, <1>34, <1>35, <1>36,
        <1>37, <1>38 DEF Next

\* The cache names what exists, or what is about to leave it.
LEMMA CacheStep == IInv /\ Next => CacheInv'
<1> SUFFICES ASSUME IInv, Next PROVE CacheInv'
  OBVIOUS
<1> USE NameFacts, BoundsAreSane DEF IInv, DataInv, LvInv, ThreadInv, AsideInv, ApplyInv,
                                     CacheInv, Removing, Stamping, Forgotten, States, Gid,
                                     Exists, Left, Threads, NoThread, Exact
<1>1. ASSUME NEW g \in Gid, RestoreBegin(g) PROVE CacheInv'
  BY <1>1 DEF RestoreBegin, MuFree, Without, history
<1>2. ASSUME NEW g \in Gid, ApplyBegin(g) PROVE CacheInv'
  BY <1>2 DEF ApplyBegin, MuFree, Reach, durable, history, Chain
<1>3. ASSUME NEW g \in Gid, DelBegin(g) PROVE CacheInv'
  BY <1>3 DEF DelBegin, Fault, MuFree, durable
<1>4. ASSUME NEW g \in Gid, DelRestored(g) PROVE CacheInv'
  BY <1>4 DEF DelRestored, MuFree, Without, history, threads
<1>5. CASE RestoreReadState
  BY <1>5 DEF RestoreReadState, durable, history
<1>6. CASE RestoreSnap
  BY <1>6 DEF RestoreSnap, Noted, Origin, With
<1>7. CASE RestoreApply
  BY <1>7 DEF RestoreApply, Chain, With, Written, history, Broken
<1>8. CASE RestoreNoNeedToApply
  BY <1>8 DEF RestoreNoNeedToApply, durable, history
<1>9. CASE RestoreMakeCold
  BY <1>9 DEF RestoreMakeCold, Noted, With
<1>10. CASE RestoreSetColdTimestamp
  BY <1>10 DEF RestoreSetColdTimestamp, history
<1>11. CASE RestoreRename
  BY <1>11 DEF RestoreRename, Rename, history
<1>12. CASE RestoreRemoveCold
  BY <1>12 DEF RestoreRemoveCold, Without, history
<1>13. CASE RestoreRemoveStamp
  BY <1>13 DEF RestoreRemoveStamp, Noted, Exists
<1>14. CASE RestoreListCold
  BY <1>14 DEF RestoreListCold, KeepOneNext, NoThread, durable, history
<1>15. CASE RestoreFails
  BY <1>15 DEF RestoreFails, Chain, Origin, Without, history
<1>16. CASE ApplyRecover
  <2>1. recoverColdToBaseIfNecessary /\ cache' = RecoveredCache
    BY <1>16 DEF ApplyRecover
  <2>2. CASE Left = {} /\ Exists(Base) /\ UNCHANGED <<diffs, metaSt, lvs, stamps, cache>>
    BY <1>16, <2>2 DEF ApplyRecover, history
  <2>3. ASSUME NEW g \in Gid, Left = {ToBase(g)}, Exists(ToBase(g)), Forgets(g)
        PROVE  CacheInv'
    BY <1>16, <2>3 DEF ApplyRecover, history, Forgets, Without
  <2>4. ASSUME NEW g \in Gid, Left = {ToBase(g)}, Exists(ToBase(g)), PutsBack(g)
        PROVE  CacheInv'
    BY <1>16, <2>4 DEF ApplyRecover, history, PutsBack, Rename
  <2>5. ASSUME NEW g \in Gid, Left = {ToBase(g)}, Exists(ToBase(g)), Completes(g)
        PROVE  CacheInv'
    BY <1>16, <2>5 DEF ApplyRecover, history, Completes, Replaced
  <2> QED BY <2>1, <2>2, <2>3, <2>4, <2>5, RecoverEffect
<1>17. CASE ApplyReadState
  BY <1>17 DEF ApplyReadState, durable, history
<1>18. CASE makeColdToBase
  BY <1>18 DEF makeColdToBase, Rename, history
<1>19. CASE DropBase
  BY <1>19 DEF DropBase, Without, history
<1>20. CASE SetColdMetaState
  BY <1>20 DEF SetColdMetaState, history
<1>21. CASE MakeColdToBaseFails
  BY <1>21 DEF MakeColdToBaseFails, Fault, durable
<1>22. CASE RenameToBase
  BY <1>22 DEF RenameToBase, Rename, history
<1>23. CASE RemoveColdTimestamp
  BY <1>23 DEF RemoveColdTimestamp, history
<1>24. CASE CleanBeforeCold
  BY <1>24 DEF CleanBeforeCold, history, removeBeforeGid, Without
<1>25. CASE ApplyDiffs
  BY <1>25 DEF ApplyDiffs, Reach, history, Chain
<1>26. CASE ApplyWrite
  BY <1>26 DEF ApplyWrite, With, Written, history, Broken
<1>27. CASE ApplyDone
  BY <1>27 DEF ApplyDone, history, removeBeforeGid, Without
<1>28. CASE ApplyEnd
  BY <1>28 DEF ApplyEnd, CanRecover, Reach, durable, history, Chain
<1>29. CASE DelRemove
  BY <1>29 DEF DelRemove, Without, history
<1>30. CASE DelStamp
  <2>1. /\ stamps' = stamps \ {del.gid} /\ del' = NoThread /\ up = "up"
        /\ UNCHANGED <<metaSt, lvs, cache, up, rst, apl>>
    BY <1>30 DEF DelStamp
  <2> SUFFICES ASSUME "stampGone" \notin accidents', "addedLate" \notin accidents'
               PROVE  CacheInv'
    BY <2>1
  <2>2. /\ "stampGone" \notin accidents /\ "addedLate" \notin accidents
        /\ del.gid \in cache => Stamping(del.gid)
    BY <1>30 DEF DelStamp, Noted
  <2>3. ASSUME NEW g \in cache, g > metaSt.lo
        PROVE  /\ Exists(Cold(g)) \/ Removing(g)
               /\ g \in stamps \/ Stamping(g) \/ Forgotten(g)
    BY <2>1, <2>2, <2>3
  <2>4. ASSUME NEW g \in cache, g > metaSt.lo
        PROVE  (Exists(Cold(g)) \/ Removing(g))' /\ (g \in stamps \/ Stamping(g) \/ Forgotten(g))'
    BY <1>30, <2>1, <2>2, <2>3, <2>4 DEF DelStamp
  <2> QED BY <2>1, <2>4
<1>31. CASE Receive
  BY <1>31 DEF Receive, history, threads
<1>32. CASE Crash
  BY <1>32 DEF Crash, Fault, Without
<1>33. CASE Recover
  <2>1. recoverColdToBaseIfNecessary /\ cache' = RecoveredCache
    BY <1>33 DEF Recover
  <2>2. CASE Left = {} /\ Exists(Base) /\ UNCHANGED <<diffs, metaSt, lvs, stamps, cache>>
    BY <1>33, <2>2 DEF Recover, threads, history
  <2>3. ASSUME NEW g \in Gid, Left = {ToBase(g)}, Exists(ToBase(g)), Forgets(g)
        PROVE  CacheInv'
    BY <1>33, <2>3 DEF Recover, threads, history, Forgets, Without
  <2>4. ASSUME NEW g \in Gid, Left = {ToBase(g)}, Exists(ToBase(g)), PutsBack(g)
        PROVE  CacheInv'
    BY <1>33, <2>4 DEF Recover, threads, history, PutsBack, Rename
  <2>5. ASSUME NEW g \in Gid, Left = {ToBase(g)}, Exists(ToBase(g)), Completes(g)
        PROVE  CacheInv'
    BY <1>33, <2>5 DEF Recover, threads, history, Completes, Replaced
  <2> QED BY <2>1, <2>2, <2>3, <2>4, <2>5, RecoverEffect
<1>34. CASE VerifyCold
  <2>1. ASSUME NEW g \in cache \cap stamps, g > metaSt.lo
        PROVE  Exists(Cold(g))
    BY <1>34, <2>1 DEF VerifyCold
  <2>2. \A g \in cache \cap stamps : Exists(Cold(g)) => Exists(Cold(g))'
    BY <1>34 DEF VerifyCold, Without
  <2>3. cache' = cache \cap stamps /\ UNCHANGED <<metaSt, stamps>>
    BY <1>34 DEF VerifyCold
  <2> QED BY <2>1, <2>2, <2>3
<1>35. CASE RestoreAddCold
  BY <1>35 DEF RestoreAddCold, Noted, durable
<1>36. CASE RestoreUncache
  BY <1>36 DEF RestoreUncache, KeepOneNext, NoThread, durable, history
<1>37. CASE UncacheCold
  BY <1>37 DEF UncacheCold, durable, history
<1>38. CASE DelUncache
  BY <1>38 DEF DelUncache, durable, history
<1> QED
  BY <1>1, <1>2, <1>3, <1>4, <1>5, <1>6, <1>7, <1>8, <1>9, <1>10, <1>11, <1>12, <1>13, <1>14,
        <1>15, <1>16, <1>17, <1>18, <1>19, <1>20, <1>21, <1>22, <1>23, <1>24, <1>25, <1>26,
              <1>27, <1>28, <1>29, <1>30, <1>31, <1>32, <1>33, <1>34, <1>35, <1>36,
        <1>37, <1>38 DEF Next

\* The base image is what the meta state says.
LEMMA BaseStep == IInv /\ Next => BaseMatchesMetaState'
<1> SUFFICES ASSUME IInv, Next PROVE BaseMatchesMetaState'
  OBVIOUS
<1> USE NameFacts, BoundsAreSane DEF IInv, DataInv, LvInv, ThreadInv, AsideInv, ApplyInv,
                                     ImageInv, BaseMatchesMetaState, ImagesExact, States,
                                     Images, Gid, Exists, Left, Threads, Exact
<1>1. ASSUME NEW g \in Gid, RestoreBegin(g) PROVE BaseMatchesMetaState'
  BY <1>1 DEF RestoreBegin, MuFree, NoThread, Without, history
<1>2. ASSUME NEW g \in Gid, ApplyBegin(g) PROVE BaseMatchesMetaState'
  BY <1>2 DEF ApplyBegin, MuFree, NoThread, Reach, durable, history, Chain
<1>3. ASSUME NEW g \in Gid, DelBegin(g) PROVE BaseMatchesMetaState'
  BY <1>3 DEF DelBegin, Fault, MuFree, NoThread, durable
<1>4. ASSUME NEW g \in Gid, DelRestored(g) PROVE BaseMatchesMetaState'
  BY <1>4 DEF DelRestored, MuFree, Without, history, threads
<1>5. CASE RestoreReadState
  BY <1>5 DEF RestoreReadState, durable, history
<1>6. CASE RestoreSnap
  BY <1>6 DEF RestoreSnap, Noted, Origin, With
<1>7. CASE RestoreApply
  BY <1>7 DEF RestoreApply, Chain, NoThread, With, Written, history, Broken
<1>8. CASE RestoreNoNeedToApply
  BY <1>8 DEF RestoreNoNeedToApply, NoThread, durable, history
<1>9. CASE RestoreMakeCold
  BY <1>9 DEF RestoreMakeCold, Noted, With
<1>10. CASE RestoreSetColdTimestamp
  BY <1>10 DEF RestoreSetColdTimestamp, history
<1>11. CASE RestoreRename
  BY <1>11 DEF RestoreRename, NoThread, Rename, history
<1>12. CASE RestoreRemoveCold
  BY <1>12 DEF RestoreRemoveCold, Without, history
<1>13. CASE RestoreRemoveStamp
  BY <1>13 DEF RestoreRemoveStamp, Noted, Exists
<1>14. CASE RestoreListCold
  BY <1>14 DEF RestoreListCold, KeepOneNext, NoThread, durable, history
<1>15. CASE RestoreFails
  BY <1>15 DEF RestoreFails, Chain, NoThread, Origin, Without, history
<1>16. CASE ApplyRecover
  <2>1. recoverColdToBaseIfNecessary /\ cache' = RecoveredCache
    BY <1>16 DEF ApplyRecover
  <2>2. CASE Left = {} /\ Exists(Base) /\ UNCHANGED <<diffs, metaSt, lvs, stamps, cache>>
    BY <1>16, <2>2 DEF ApplyRecover, history
  <2>3. ASSUME NEW g \in Gid, Left = {ToBase(g)}, Exists(ToBase(g)), Forgets(g)
        PROVE  BaseMatchesMetaState'
    BY <1>16, <2>3 DEF ApplyRecover, history, Forgets, Without
  <2>4. ASSUME NEW g \in Gid, Left = {ToBase(g)}, Exists(ToBase(g)), PutsBack(g)
        PROVE  BaseMatchesMetaState'
    BY <1>16, <2>4 DEF ApplyRecover, history, PutsBack, Rename
  <2>5. ASSUME NEW g \in Gid, Left = {ToBase(g)}, Exists(ToBase(g)), Completes(g)
        PROVE  BaseMatchesMetaState'
    BY <1>16, <2>5 DEF ApplyRecover, history, Completes, Replaced
  <2> QED BY <2>1, <2>2, <2>3, <2>4, <2>5, RecoverEffect
<1>17. CASE ApplyReadState
  BY <1>17 DEF ApplyReadState, durable, history
<1>18. CASE makeColdToBase
  BY <1>18 DEF makeColdToBase, Rename, history
<1>19. CASE DropBase
  BY <1>19 DEF DropBase, Without, history
<1>20. CASE SetColdMetaState
  BY <1>20 DEF SetColdMetaState, history
<1>21. CASE MakeColdToBaseFails
  BY <1>21 DEF MakeColdToBaseFails, Fault, NoThread, durable
<1>22. CASE RenameToBase
  BY <1>22 DEF RenameToBase, Rename, history
<1>23. CASE RemoveColdTimestamp
  BY <1>23 DEF RemoveColdTimestamp, history
<1>24. CASE CleanBeforeCold
  BY <1>24 DEF CleanBeforeCold, NoThread, history, removeBeforeGid, Without
<1>25. CASE ApplyDiffs
  BY <1>25 DEF ApplyDiffs, Reach, history, Chain
<1>26. CASE ApplyWrite
  <2>1. /\ Exists(Base) /\ lvs[Base] \in Images
        /\ lvs[Base].hi \in Int /\ lvs[Base].lo \in Int /\ metaSt.hi \in Int /\ metaSt.lo \in Int
    BY <1>26 DEF ApplyWrite
  <2>2. Max({lvs[Base].hi, metaSt.hi}) = IF lvs[Base].hi >= metaSt.hi THEN lvs[Base].hi ELSE metaSt.hi
    BY <2>1, MaxOfTwo
  <2>3. CASE /\ lvs' = With(Base, [lvs[Base] EXCEPT !.hi = Max({@, metaSt.hi})])
             /\ UNCHANGED apl
    <3>1. /\ DOMAIN lvs' = DOMAIN lvs
          /\ lvs'[Base] = [lvs[Base] EXCEPT !.hi = Max({lvs[Base].hi, metaSt.hi})]
          /\ \A n \in DOMAIN lvs : n # Base => lvs'[n] = lvs[n]
      BY <2>1, <2>3, WithEffect
    <3>2. /\ lvs'[Base].lo = lvs[Base].lo
          /\ lvs'[Base].hi = IF lvs[Base].hi >= metaSt.hi THEN lvs[Base].hi ELSE metaSt.hi
      BY <2>1, <2>2, <3>1
    <3> QED BY SMTT(30), <1>26, <2>1, <2>3, <3>1, <3>2 DEF ApplyWrite, history
  <2>4. CASE /\ lvs' = With(Base, Written(lvs[Base], metaSt.lo, metaSt.hi))
             /\ apl' = [apl EXCEPT !.pc = "done"]
    BY <1>26, <2>1, <2>4 DEF ApplyWrite, With, Written, history
  <2> QED BY <1>26, <2>3, <2>4 DEF ApplyWrite
<1>27. CASE ApplyDone
  BY <1>27 DEF ApplyDone, history, removeBeforeGid, Without
<1>28. CASE ApplyEnd
  BY <1>28 DEF ApplyEnd, CanRecover, NoThread, Reach, durable, history, Chain
<1>29. CASE DelRemove
  BY <1>29 DEF DelRemove, Without, history
<1>30. CASE DelStamp
  BY <1>30 DEF DelStamp, NoThread, Noted
<1>31. CASE Receive
  BY <1>31 DEF Receive, history, threads
<1>32. CASE Crash
  BY <1>32 DEF Crash, Fault, NoThread, Without
<1>33. CASE Recover
  <2>1. recoverColdToBaseIfNecessary /\ cache' = RecoveredCache
    BY <1>33 DEF Recover
  <2>2. CASE Left = {} /\ Exists(Base) /\ UNCHANGED <<diffs, metaSt, lvs, stamps, cache>>
    BY <1>33, <2>2 DEF Recover, threads, history
  <2>3. ASSUME NEW g \in Gid, Left = {ToBase(g)}, Exists(ToBase(g)), Forgets(g)
        PROVE  BaseMatchesMetaState'
    BY <1>33, <2>3 DEF Recover, threads, history, Forgets, Without
  <2>4. ASSUME NEW g \in Gid, Left = {ToBase(g)}, Exists(ToBase(g)), PutsBack(g)
        PROVE  BaseMatchesMetaState'
    BY <1>33, <2>4 DEF Recover, threads, history, PutsBack, Rename
  <2>5. ASSUME NEW g \in Gid, Left = {ToBase(g)}, Exists(ToBase(g)), Completes(g)
        PROVE  BaseMatchesMetaState'
    BY <1>33, <2>5 DEF Recover, threads, history, Completes, Replaced
  <2> QED BY <2>1, <2>2, <2>3, <2>4, <2>5, RecoverEffect
<1>34. CASE VerifyCold
  BY <1>34 DEF VerifyCold, Without, history, threads
<1>35. CASE RestoreAddCold
  BY <1>35 DEF RestoreAddCold, Noted, durable
<1>36. CASE RestoreUncache
  BY <1>36 DEF RestoreUncache, KeepOneNext, NoThread, durable, history
<1>37. CASE UncacheCold
  BY <1>37 DEF UncacheCold, durable, history
<1>38. CASE DelUncache
  BY <1>38 DEF DelUncache, durable, history
<1> QED
  BY <1>1, <1>2, <1>3, <1>4, <1>5, <1>6, <1>7, <1>8, <1>9, <1>10, <1>11, <1>12, <1>13, <1>14,
        <1>15, <1>16, <1>17, <1>18, <1>19, <1>20, <1>21, <1>22, <1>23, <1>24, <1>25, <1>26,
              <1>27, <1>28, <1>29, <1>30, <1>31, <1>32, <1>33, <1>34, <1>35, <1>36,
        <1>37, <1>38 DEF Next

\* Cold snapshots and restored volumes are what their names say.
LEMMA ImagesStep == IInv /\ Next => ImagesExact'
<1> SUFFICES ASSUME IInv, Next PROVE ImagesExact'
  OBVIOUS
<1> USE NameFacts DEF IInv, LvInv, ThreadInv, AsideInv, ApplyInv, ImageInv, ImagesExact, Exists,
                      Left, Threads, Exact
<1>1. ASSUME NEW g \in Gid, RestoreBegin(g) PROVE ImagesExact'
  BY <1>1 DEF RestoreBegin, MuFree, NoThread, Without, history
<1>2. ASSUME NEW g \in Gid, ApplyBegin(g) PROVE ImagesExact'
  BY <1>2 DEF ApplyBegin, MuFree, NoThread, Reach, durable, history, Chain
<1>3. ASSUME NEW g \in Gid, DelBegin(g) PROVE ImagesExact'
  BY <1>3 DEF DelBegin, Fault, MuFree, NoThread, durable
<1>4. ASSUME NEW g \in Gid, DelRestored(g) PROVE ImagesExact'
  BY <1>4 DEF DelRestored, MuFree, Without, history, threads
<1>5. CASE RestoreReadState
  BY <1>5 DEF RestoreReadState, durable, history
<1>6. CASE RestoreSnap
  BY <1>6 DEF RestoreSnap, Noted, Origin, With
<1>7. CASE RestoreApply
  BY <1>7 DEF RestoreApply, Chain, NoThread, With, Written, history, Broken
<1>8. CASE RestoreNoNeedToApply
  BY <1>8 DEF RestoreNoNeedToApply, NoThread, durable, history
<1>9. CASE RestoreMakeCold
  BY <1>9 DEF RestoreMakeCold, Noted, With
<1>10. CASE RestoreSetColdTimestamp
  BY <1>10 DEF RestoreSetColdTimestamp, history
<1>11. CASE RestoreRename
  BY <1>11 DEF RestoreRename, NoThread, Rename, history
<1>12. CASE RestoreRemoveCold
  BY <1>12 DEF RestoreRemoveCold, Without, history
<1>13. CASE RestoreRemoveStamp
  BY <1>13 DEF RestoreRemoveStamp, Noted, Exists
<1>14. CASE RestoreListCold
  BY <1>14 DEF RestoreListCold, KeepOneNext, NoThread, durable, history
<1>15. CASE RestoreFails
  BY <1>15 DEF RestoreFails, Chain, NoThread, Origin, Without, history
<1>16. CASE ApplyRecover
  <2>1. recoverColdToBaseIfNecessary /\ cache' = RecoveredCache
    BY <1>16 DEF ApplyRecover
  <2>2. CASE Left = {} /\ Exists(Base) /\ UNCHANGED <<diffs, metaSt, lvs, stamps, cache>>
    BY <1>16, <2>2 DEF ApplyRecover, history
  <2>3. ASSUME NEW g \in Gid, Left = {ToBase(g)}, Exists(ToBase(g)), Forgets(g)
        PROVE  ImagesExact'
    BY <1>16, <2>3 DEF ApplyRecover, history, Forgets, Without
  <2>4. ASSUME NEW g \in Gid, Left = {ToBase(g)}, Exists(ToBase(g)), PutsBack(g)
        PROVE  ImagesExact'
    BY <1>16, <2>4 DEF ApplyRecover, history, PutsBack, Rename
  <2>5. ASSUME NEW g \in Gid, Left = {ToBase(g)}, Exists(ToBase(g)), Completes(g)
        PROVE  ImagesExact'
    BY <1>16, <2>5 DEF ApplyRecover, history, Completes, Replaced
  <2> QED BY <2>1, <2>2, <2>3, <2>4, <2>5, RecoverEffect
<1>17. CASE ApplyReadState
  BY <1>17 DEF ApplyReadState, durable, history
<1>18. CASE makeColdToBase
  BY <1>18 DEF makeColdToBase, Rename, history
<1>19. CASE DropBase
  BY <1>19 DEF DropBase, Without, history
<1>20. CASE SetColdMetaState
  BY <1>20 DEF SetColdMetaState, history
<1>21. CASE MakeColdToBaseFails
  BY <1>21 DEF MakeColdToBaseFails, Fault, NoThread, durable
<1>22. CASE RenameToBase
  BY <1>22 DEF RenameToBase, Rename, history
<1>23. CASE RemoveColdTimestamp
  BY <1>23 DEF RemoveColdTimestamp, history
<1>24. CASE CleanBeforeCold
  BY <1>24 DEF CleanBeforeCold, NoThread, history, removeBeforeGid, Without
<1>25. CASE ApplyDiffs
  BY <1>25 DEF ApplyDiffs, Reach, history, Chain
<1>26. CASE ApplyWrite
  BY <1>26 DEF ApplyWrite, With, Written, history, Broken
<1>27. CASE ApplyDone
  BY <1>27 DEF ApplyDone, history, removeBeforeGid, Without
<1>28. CASE ApplyEnd
  BY <1>28 DEF ApplyEnd, CanRecover, NoThread, Reach, durable, history, Chain
<1>29. CASE DelRemove
  BY <1>29 DEF DelRemove, Without, history
<1>30. CASE DelStamp
  BY <1>30 DEF DelStamp, NoThread, Noted
<1>31. CASE Receive
  BY <1>31 DEF Receive, history, threads
<1>32. CASE Crash
  BY <1>32 DEF Crash, Fault, NoThread, Without
<1>33. CASE Recover
  <2>1. recoverColdToBaseIfNecessary /\ cache' = RecoveredCache
    BY <1>33 DEF Recover
  <2>2. CASE Left = {} /\ Exists(Base) /\ UNCHANGED <<diffs, metaSt, lvs, stamps, cache>>
    BY <1>33, <2>2 DEF Recover, threads, history
  <2>3. ASSUME NEW g \in Gid, Left = {ToBase(g)}, Exists(ToBase(g)), Forgets(g)
        PROVE  ImagesExact'
    BY <1>33, <2>3 DEF Recover, threads, history, Forgets, Without
  <2>4. ASSUME NEW g \in Gid, Left = {ToBase(g)}, Exists(ToBase(g)), PutsBack(g)
        PROVE  ImagesExact'
    BY <1>33, <2>4 DEF Recover, threads, history, PutsBack, Rename
  <2>5. ASSUME NEW g \in Gid, Left = {ToBase(g)}, Exists(ToBase(g)), Completes(g)
        PROVE  ImagesExact'
    BY <1>33, <2>5 DEF Recover, threads, history, Completes, Replaced
  <2> QED BY <2>1, <2>2, <2>3, <2>4, <2>5, RecoverEffect
<1>34. CASE VerifyCold
  BY <1>34 DEF VerifyCold, Without, history, threads
<1>35. CASE RestoreAddCold
  BY <1>35 DEF RestoreAddCold, Noted, durable
<1>36. CASE RestoreUncache
  BY <1>36 DEF RestoreUncache, KeepOneNext, NoThread, durable, history
<1>37. CASE UncacheCold
  BY <1>37 DEF UncacheCold, durable, history
<1>38. CASE DelUncache
  BY <1>38 DEF DelUncache, durable, history
<1> QED
  BY <1>1, <1>2, <1>3, <1>4, <1>5, <1>6, <1>7, <1>8, <1>9, <1>10, <1>11, <1>12, <1>13, <1>14,
        <1>15, <1>16, <1>17, <1>18, <1>19, <1>20, <1>21, <1>22, <1>23, <1>24, <1>25, <1>26,
              <1>27, <1>28, <1>29, <1>30, <1>31, <1>32, <1>33, <1>34, <1>35, <1>36,
        <1>37, <1>38 DEF Next

\* The diffs that the latest snapshot needs are kept.
LEMMA ReachStep == IInv /\ Next => ReachInv'
<1> SUFFICES ASSUME IInv, Next PROVE ReachInv'
  OBVIOUS
<1> USE NameFacts, BoundsAreSane DEF IInv, DataInv, LvInv, ThreadInv, AsideInv, ApplyInv,
                                     ReachInv, States, Gid, Exists, Left, Threads, Exact
<1>1. ASSUME NEW g \in Gid, RestoreBegin(g) PROVE ReachInv'
  BY <1>1 DEF RestoreBegin, MuFree, NoThread, Without, history
<1>2. ASSUME NEW g \in Gid, ApplyBegin(g) PROVE ReachInv'
  BY <1>2 DEF ApplyBegin, MuFree, NoThread, Reach, durable, history, Chain
<1>3. ASSUME NEW g \in Gid, DelBegin(g) PROVE ReachInv'
  BY <1>3 DEF DelBegin, Fault, MuFree, NoThread, durable
<1>4. ASSUME NEW g \in Gid, DelRestored(g) PROVE ReachInv'
  BY <1>4 DEF DelRestored, MuFree, Without, history, threads
<1>5. CASE RestoreReadState
  BY <1>5 DEF RestoreReadState, durable, history
<1>6. CASE RestoreSnap
  BY <1>6 DEF RestoreSnap, Noted, Origin, With
<1>7. CASE RestoreApply
  BY <1>7 DEF RestoreApply, Chain, NoThread, With, Written, history, Broken
<1>8. CASE RestoreNoNeedToApply
  BY <1>8 DEF RestoreNoNeedToApply, NoThread, durable, history
<1>9. CASE RestoreMakeCold
  BY <1>9 DEF RestoreMakeCold, Noted, With
<1>10. CASE RestoreSetColdTimestamp
  BY <1>10 DEF RestoreSetColdTimestamp, history
<1>11. CASE RestoreRename
  BY <1>11 DEF RestoreRename, NoThread, Rename, history
<1>12. CASE RestoreRemoveCold
  BY <1>12 DEF RestoreRemoveCold, Without, history
<1>13. CASE RestoreRemoveStamp
  BY <1>13 DEF RestoreRemoveStamp, Noted, Exists
<1>14. CASE RestoreListCold
  BY <1>14 DEF RestoreListCold, KeepOneNext, NoThread, durable, history
<1>15. CASE RestoreFails
  BY <1>15 DEF RestoreFails, Chain, NoThread, Origin, Without, history
<1>16. CASE ApplyRecover
  <2>1. recoverColdToBaseIfNecessary /\ cache' = RecoveredCache
    BY <1>16 DEF ApplyRecover
  <2>2. CASE Left = {} /\ Exists(Base) /\ UNCHANGED <<diffs, metaSt, lvs, stamps, cache>>
    BY <1>16, <2>2 DEF ApplyRecover, history
  <2>3. ASSUME NEW g \in Gid, Left = {ToBase(g)}, Exists(ToBase(g)), Forgets(g)
        PROVE  ReachInv'
    BY <1>16, <2>3 DEF ApplyRecover, history, Forgets, Without
  <2>4. ASSUME NEW g \in Gid, Left = {ToBase(g)}, Exists(ToBase(g)), PutsBack(g)
        PROVE  ReachInv'
    BY <1>16, <2>4 DEF ApplyRecover, history, PutsBack, Rename
  <2>5. ASSUME NEW g \in Gid, Left = {ToBase(g)}, Exists(ToBase(g)), Completes(g)
        PROVE  ReachInv'
    BY <1>16, <2>5 DEF ApplyRecover, history, Completes, Replaced
  <2> QED BY <2>1, <2>2, <2>3, <2>4, <2>5, RecoverEffect
<1>17. CASE ApplyReadState
  BY <1>17 DEF ApplyReadState, durable, history
<1>18. CASE makeColdToBase
  BY <1>18 DEF makeColdToBase, Rename, history
<1>19. CASE DropBase
  BY <1>19 DEF DropBase, Without, history
<1>20. CASE SetColdMetaState
  BY <1>20 DEF SetColdMetaState, history
<1>21. CASE MakeColdToBaseFails
  BY <1>21 DEF MakeColdToBaseFails, Fault, NoThread, durable
<1>22. CASE RenameToBase
  BY <1>22 DEF RenameToBase, Rename, history
<1>23. CASE RemoveColdTimestamp
  BY <1>23 DEF RemoveColdTimestamp, history
<1>24. CASE CleanBeforeCold
  BY <1>24 DEF CleanBeforeCold, NoThread, history, removeBeforeGid, Without
<1>25. CASE ApplyDiffs
  BY <1>25 DEF ApplyDiffs, Reach, history, Chain
<1>26. CASE ApplyWrite
  BY <1>26 DEF ApplyWrite, With, Written, history, Broken
<1>27. CASE ApplyDone
  BY <1>27 DEF ApplyDone, history, removeBeforeGid, Without
<1>28. CASE ApplyEnd
  BY <1>28 DEF ApplyEnd, CanRecover, NoThread, Reach, durable, history, Chain
<1>29. CASE DelRemove
  BY <1>29 DEF DelRemove, Without, history
<1>30. CASE DelStamp
  BY <1>30 DEF DelStamp, NoThread, Noted
<1>31. CASE Receive
  <2>1. latest' = latest + 1 /\ diffs' = diffs \cup {latest} /\ UNCHANGED <<metaSt, lvs>>
    BY <1>31 DEF Receive
  <2>2. \A g \in Int : g <= latest' - 1 => g <= latest - 1 \/ g = latest
    BY <2>1
  <2>3. CASE Exists(Base)
    BY <2>1, <2>2, <2>3
  <2>4. CASE ~Exists(Base)
    BY <2>1, <2>2, <2>4
  <2> QED BY <2>3, <2>4
<1>32. CASE Crash
  BY <1>32 DEF Crash, Fault, NoThread, Without
<1>33. CASE Recover
  <2>1. recoverColdToBaseIfNecessary /\ cache' = RecoveredCache
    BY <1>33 DEF Recover
  <2>2. CASE Left = {} /\ Exists(Base) /\ UNCHANGED <<diffs, metaSt, lvs, stamps, cache>>
    BY <1>33, <2>2 DEF Recover, threads, history
  <2>3. ASSUME NEW g \in Gid, Left = {ToBase(g)}, Exists(ToBase(g)), Forgets(g)
        PROVE  ReachInv'
    BY <1>33, <2>3 DEF Recover, threads, history, Forgets, Without
  <2>4. ASSUME NEW g \in Gid, Left = {ToBase(g)}, Exists(ToBase(g)), PutsBack(g)
        PROVE  ReachInv'
    BY <1>33, <2>4 DEF Recover, threads, history, PutsBack, Rename
  <2>5. ASSUME NEW g \in Gid, Left = {ToBase(g)}, Exists(ToBase(g)), Completes(g)
        PROVE  ReachInv'
    BY <1>33, <2>5 DEF Recover, threads, history, Completes, Replaced
  <2> QED BY <2>1, <2>2, <2>3, <2>4, <2>5, RecoverEffect
<1>34. CASE VerifyCold
  BY <1>34 DEF VerifyCold, Without, history, threads
<1>35. CASE RestoreAddCold
  BY <1>35 DEF RestoreAddCold, Noted, durable
<1>36. CASE RestoreUncache
  BY <1>36 DEF RestoreUncache, KeepOneNext, NoThread, durable, history
<1>37. CASE UncacheCold
  BY <1>37 DEF UncacheCold, durable, history
<1>38. CASE DelUncache
  BY <1>38 DEF DelUncache, durable, history
<1> QED
  BY <1>1, <1>2, <1>3, <1>4, <1>5, <1>6, <1>7, <1>8, <1>9, <1>10, <1>11, <1>12, <1>13, <1>14,
        <1>15, <1>16, <1>17, <1>18, <1>19, <1>20, <1>21, <1>22, <1>23, <1>24, <1>25, <1>26,
              <1>27, <1>28, <1>29, <1>30, <1>31, <1>32, <1>33, <1>34, <1>35, <1>36,
        <1>37, <1>38 DEF Next

-----------------------------------------------------------------------------
(* The theorems. *)

\* A fresh volume satisfies the invariant.
LEMMA InitIInv == Init => IInv
<1> SUFFICES ASSUME Init PROVE IInv
  OBVIOUS
<1>1. DOMAIN lvs = {Base} /\ lvs[Base] = Exact(0) /\ metaSt = Exact(0)
  BY DEF Init
<1>2. Left = {} /\ Exists(Base)
  BY <1>1, NameFacts DEF Left, Exists
<1>3. DataInv
  BY GidsAreNumbers DEF Init, DataInv, Exact
<1>4. LvInv
  BY <1>1, NameFacts, GidsAreNumbers DEF LvInv
<1>5. ThreadInv
  BY GidsAreNumbers DEF Init, ThreadInv, NoThread, Threads, RestorePcs, ApplyPcs, DelPcs
<1>6. AsideInv /\ ApplyInv /\ StampInv /\ CacheInv
  BY <1>2 DEF Init, AsideInv, ApplyInv, StampInv, CacheInv, NoThread
<1>7. ImageInv /\ BaseMatchesMetaState
  BY <1>1 DEF Init, ImageInv, BaseMatchesMetaState, NoThread, Exact
<1>8. ImagesExact
  BY <1>1, NameFacts DEF ImagesExact
<1>9. ReachInv
  BY <1>1, <1>2 DEF Init, ReachInv, Exact
<1> QED BY <1>3, <1>4, <1>5, <1>6, <1>7, <1>8, <1>9 DEF IInv

\* Stuttering keeps the invariant.
LEMMA StutterIInv == IInv /\ UNCHANGED vars => IInv'
  BY DEF IInv, DataInv, LvInv, ThreadInv, AsideInv, ApplyInv, ImageInv, StampInv, CacheInv,
         Removing, Stamping, Forgotten, ReachInv, BaseMatchesMetaState, ImagesExact, Exists,
         Left, vars, durable, threads, history

\* The invariant holds in every behaviour of restore, apply, del-cold, the
\* crashes and the recoveries.
THEOREM Invariance == Spec => []IInv
<1>1. IInv /\ Next => IInv'
  BY DataStep, LvStep, ThreadStep, AsideStep, ApplyStep, ImageStep, StampStep, CacheStep,
        ReachStep, BaseStep, ImagesStep DEF IInv
<1>2. IInv /\ [Next]_vars => IInv'
  BY <1>1, StutterIInv
<1> QED BY <1>2, InitIInv, PTL DEF Spec

\* At no step of makeColdToBase, of apply or of a recovery, and at no crash
\* between two of them, does the base image differ from the meta state.
THEOREM BaseImageCorrect == Spec => []BaseMatchesMetaState
<1>1. IInv => BaseMatchesMetaState
  BY DEF IInv
<1> QED BY <1>1, Invariance, PTL

\* Cold snapshots, also those set aside, and restored volumes hold the snapshot
\* they are named for.
THEOREM ColdImagesCorrect == Spec => []ImagesExact
<1>1. IInv => ImagesExact
  BY DEF IInv
<1> QED BY <1>1, Invariance, PTL

\* No clean-up removes a diff that the latest snapshot is built from, whether
\* the base image is there or is being replaced.
THEOREM LatestAlwaysReachable == Spec => []LatestReachable
<1>1. IInv => LatestReachable
  <2> SUFFICES ASSUME IInv PROVE LatestReachable
    OBVIOUS
  <2>1. CASE Exists(Base)
    BY <2>1 DEF IInv, ReachInv, LatestReachable
  <2>2. CASE ~Exists(Base)
    <3>1. PICK n \in Left : TRUE
      BY <2>2 DEF IInv, AsideInv
    <3>2. LeftGid = n.gid
      BY LeftOne DEF IInv, AsideInv
    <3>3. \A g \in n.gid .. latest - 1 : g \in diffs
      BY <2>2 DEF IInv, ReachInv
    <3> QED BY <2>2, <3>2, <3>3 DEF LatestReachable
  <2> QED BY <2>1, <2>2
<1> QED BY <1>1, Invariance, PTL

\* Whatever a crash leaves, verifyAndRecoverArchiveVol can go on from it.
THEOREM AlwaysRecoverable == Spec => []Recoverable
<1>1. IInv => Recoverable
  <2> SUFFICES ASSUME IInv, "twice" \notin accidents, "stampLost" \notin accidents
               PROVE  CanRecover
    BY DEF Recoverable
  <2>1. CASE Left = {}
    BY <2>1 DEF IInv, AsideInv, CanRecover
  <2>2. CASE Left # {}
    <3>1. PICK n \in Left : TRUE
      BY <2>2
    <3>2. LeftGid = n.gid
      BY LeftOne DEF IInv, AsideInv
    <3>3. ~Exists(Cold(n.gid)) /\ n.gid \in stamps
      BY DEF IInv, StampInv
    <3> QED BY <2>2, <3>2, <3>3 DEF CanRecover
  <2> QED BY <2>1, <2>2
<1> QED BY <1>1, Invariance, PTL

\* Every cold snapshot that the cache offers, when nothing runs, can be used.
THEOREM CacheCorrect == Spec => []ColdUsable
<1>1. IInv => ColdUsable
  BY DEF IInv, CacheInv, Removing, Stamping, Forgotten, ColdUsable
<1> QED BY <1>1, Invariance, PTL
=============================================================================
