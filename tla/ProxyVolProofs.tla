--------------------------- MODULE ProxyVolProofs ---------------------------
(***************************************************************************)
(* Proofs about ProxyVol, for every set of archives, of worker threads and *)
(* of concurrent stop commands, and every bound on the gids.               *)
(*                                                                         *)
(* A diff file may go once every archive has its content.  Who removes it, *)
(* and when, depends on the receiver, on the workers, on the commands and  *)
(* on where a crash fell; the invariant says what each of them knows about *)
(* the files it works on: that one worker at most serves an archive, that  *)
(* what it unlinks the archive has, that what the receiver deletes is      *)
(* linked everywhere, and that the directories never hold a diff without   *)
(* those before it, unless a removal that was cut off has made the gap.    *)
(***************************************************************************)
EXTENDS ProxyVol, FiniteSetTheorems, WellFoundedInduction, TLAPS

\* The diffs that can be received.
Files == {d \in Diffs : d.snapB.gidB < d.snapE.gidB}

Administering == {"AddArchiveInfo", "DeleteArchiveInfo", "ClearVol"}

ServerPcs == {"idle", "recv", "saved", "ack", "acked", "link", "clean"}
WorkerPcs == {"idle", "popped", "send", "erase", "unlink", "push", "error"}
AdminPcs  == {"idle", "init", "save", "dir", "files", "info", "clear"}
Modes     == {"Stopping", "ForceStopping", "WaitingForEmpty"}

DataInv ==
    /\ archiveSet \subseteq Archives /\ infos \subseteq Archives
    /\ dirs \subseteq Archives /\ gutted \subseteq dirs
    /\ recvMgr \subseteq Files /\ received \subseteq Files
    /\ mgr \in [Archives -> SUBSET Files] /\ sendto \in [Archives -> SUBSET Files]
    /\ ac \in [Archives -> {0, 1}]
    /\ latest \in [Archives -> Nat] /\ done \in 0 .. MaxGid /\ nrCrashes \in Nat

ProcInv ==
    /\ worker \in [Workers -> [pc : WorkerPcs, archive : Archives \cup {"none"}, list : Seq(Files)]]
    /\ \A w \in Workers : worker[w].pc # "idle" => worker[w].archive \in Archives
    /\ server \in [pc : ServerPcs, diff : Files \cup {Diff(0, 1)}, todo : SUBSET (Files \X Archives)]
    /\ server.pc # "idle" => server.diff \in Files
    /\ stopper \in [Stoppers -> {"idle", "remove", "commit", "empty"} \cup Modes]
    /\ admin \in [pc : AdminPcs, archive : Archives \cup {"none"}, ensure : BOOLEAN]
    /\ admin.pc \notin {"idle", "clear"} => admin.archive \in Archives
    /\ queue \subseteq Archives

\* The state of the volume says which handler is at work; one of them is.
StateInv ==
    /\ server.pc # "idle" <=> sm = "WlogRecv"
    /\ admin.pc \in {"init", "save", "dir"} <=> sm = "AddArchiveInfo"
    /\ admin.pc \in {"files", "info"} => sm = "DeleteArchiveInfo"
    /\ admin.pc # "idle" <=> sm \in Administering
    /\ \A s \in Stoppers : /\ stopper[s] = "empty" => sm = "WaitForEmpty"
                           /\ stopper[s] \in {"remove", "commit"} => sm = "Stop"
    /\ \A s, t \in Stoppers :
            stopper[s] \in {"empty", "remove", "commit"}
                /\ stopper[t] \in {"empty", "remove", "commit"} => s = t

\* The directories, the set of archives and the .archive files, in the order in
\* which they are made.  A directory that the volume does not know is what a
\* removal has left.  What a handler that removes things has forgotten nobody knows.
ArchiveInv ==
    /\ archiveSet \subseteq infos /\ dirs \ gutted \subseteq infos
    /\ admin.pc # "clear" => dirs \ gutted \subseteq archiveSet
    /\ admin.pc = "clear" => archiveSet = {}
    /\ sm # "Down" => archiveSet \ dirs \subseteq IF admin.pc = "info" THEN {admin.archive} ELSE {}
    /\ admin.pc = "info" => admin.archive \notin dirs
    /\ admin.pc = "dir" => admin.archive \in infos
    /\ admin.pc \in {"files", "info"} => mgr[admin.archive] = {}
    /\ (sm = "Clear" <=> tree = {}) /\ (tree # {} => "vol" \in tree)
    /\ tree = {} => infos = {}
    /\ "received" \notin tree => received = {}
    /\ sm \notin {"Clear", "Down"} /\ admin.pc \notin {"init", "clear"} => "received" \in tree
    /\ \A a \in Archives : a \notin dirs => sendto[a] = {}
    /\ \A a \in Archives : a \notin archiveSet \cap dirs => mgr[a] = {}

Busy(w) == worker[w].pc \in {"send", "erase", "unlink"}

\* One worker at most serves an archive, and none while archives are changed.
BusyInv ==
    /\ \A w \in Workers :
          Busy(w) => worker[w].archive \in archiveSet \cap dirs /\ ac[worker[w].archive] = 1
    /\ \A w \in Workers : Busy(w) => sm \notin Administering
    /\ \A w, x \in Workers : Busy(w) /\ Busy(x) /\ worker[w].archive = worker[x].archive => w = x
    /\ \A a \in Archives : ac[a] = 1 => \E w \in Workers : Busy(w) /\ worker[w].archive = a

Increasing(v) == \A i, j \in 1 .. Len(v) : i < j => v[i].snapE.gidB < v[j].snapE.gidB

\* What it sends, forgets and unlinks.
ListOf(w) ==
    LET a == worker[w].archive
        v == worker[w].list
    IN  /\ Busy(w) => Increasing(v)
        /\ worker[w].pc \in {"send", "erase"} =>
                v # <<>> /\ \A i \in 1 .. Len(v) : v[i] \in mgr[a]
        /\ worker[w].pc = "send" /\ a \notin gutted => v[1].snapB.gidB <= latest[a]
        /\ worker[w].pc \in {"erase", "unlink"} =>
                \A i \in 1 .. Len(v) : v[i].snapE.gidB <= latest[a]
        /\ worker[w].pc = "unlink" =>
                \A i \in 1 .. Len(v) : v[i] \in sendto[a] /\ v[i] \notin mgr[a]

ListInv == \A w \in Workers : ListOf(w)

\* The received files and their manager.  No diff begins beyond what the
\* storage server has acks for.
ReceivedInv ==
    /\ server.pc \in {"idle", "recv", "ack", "acked", "link"} /\ admin.pc # "clear" =>
            received = recvMgr
    /\ admin.pc = "clear" => recvMgr = {}
    /\ server.pc = "saved" => received = recvMgr \cup {server.diff}
    /\ server.pc = "clean" => recvMgr = {}
    /\ server.pc \in {"ack", "acked", "link"} => server.diff \in recvMgr
    /\ server.pc \in {"recv", "saved", "ack"} => server.diff.snapB.gidB = done
    /\ server.pc # "idle" => server.diff.snapB.gidB <= done
    /\ \A d \in received : d.snapB.gidB <= done
    /\ \A a \in Archives : \A d \in sendto[a] : d.snapB.gidB <= done

\* A received file is still to be linked, or linked, or the archive has it.
LinkInv ==
    /\ server.pc = "link" => \A d \in recvMgr, a \in archiveSet :
            <<d, a>> \in server.todo \/ d \in sendto[a] \/ d.snapE.gidB <= latest[a]
    /\ server.pc = "link" => server.todo \subseteq recvMgr \X archiveSet
    /\ server.pc = "clean" => \A d \in received, a \in archiveSet :
            d \in sendto[a] \/ d.snapE.gidB <= latest[a]

Covers(d, g) == d.snapB.gidB <= g /\ g < d.snapE.gidB

\* Below a diff of an archive there is no gap, unless a removal has made one.
NoGapInv ==
    \A a \in dirs \ gutted : \A d \in sendto[a] : \A g \in latest[a] .. d.snapB.gidB - 1 :
        \E c \in sendto[a] : Covers(c, g)

\* AckedIsKept, also while clear has forgotten the archives.
KeptInv ==
    \A a \in dirs \ gutted : \A g \in latest[a] .. done - 1 :
        \E d \in sendto[a] \cup received : Covers(d, g)

\* UnsentIsScheduled, also while a stop is under way.
Scheduled(a) ==
    \/ a \in queue \cup err \cup cut
    \/ \E w \in Workers : worker[w].pc # "idle" /\ worker[w].archive = a

ToSchedule == sm \in {"Started", "WlogRecv", "WaitForEmpty"} /\ recvMgr = {} /\ server.pc # "clean"

ScheduleInv == ToSchedule => \A a \in archiveSet : mgr[a] # {} => Scheduled(a)

\* ManagersMatchFiles: a file that no manager has is about to be unlinked.
Unlinking(d, a) ==
    \E w \in Workers : /\ worker[w].archive = a /\ worker[w].pc = "unlink"
                       /\ \E i \in 1 .. Len(worker[w].list) : worker[w].list[i] = d

MatchInv ==
    \A a \in archiveSet \cap dirs :
        /\ mgr[a] \subseteq sendto[a]
        /\ \/ a \in gutted
           \/ admin.pc = "files" /\ admin.archive = a
           \/ \A d \in sendto[a] : d \in mgr[a] \/ Unlinking(d, a)

\* The inductive invariant.
IInv == /\ DataInv /\ ProcInv /\ StateInv /\ ArchiveInv /\ BusyInv /\ ListInv
        /\ ReceivedInv /\ LinkInv /\ NoGapInv /\ ScheduleInv
        /\ KeptInv /\ MatchInv

-----------------------------------------------------------------------------
(* Numbers and diffs. *)

\* The order of the naturals as a well-founded relation.
LEMMA NatOrder ==
    \E R : IsWellFoundedOn(R, Nat) /\ \A x, y \in Nat : <<x, y>> \in R <=> x < y
<1>1. \A x, y \in Nat : <<x, y>> \in OpToRel(<, Nat) <=> x < y
  BY DEF OpToRel
<1> QED BY <1>1, NatLessThanWellFounded, Zenon

\* A set of naturals that is not empty has a least element.
LEMMA LeastNat ==
    ASSUME NEW S, S \subseteq Nat, S # {}
    PROVE  \E m \in S : \A x \in S : m <= x
<1>1. PICK R : IsWellFoundedOn(R, Nat) /\ \A x, y \in Nat : <<x, y>> \in R <=> x < y
  BY NatOrder
<1>2. IsWellFoundedOn(R, Nat)
  BY <1>1
<1>3. PICK m \in S : \A x \in S : ~(<<x, m>> \in R)
  BY <1>2, WFMin
<1>4. ASSUME NEW x \in S
      PROVE  m <= x
  <2>1. ~(x < m)
    BY <1>1, <1>3
  <2> QED BY <2>1
<1> QED BY <1>4

\* A set of gids that is not empty has a greatest element.
LEMMA GreatestGid ==
    ASSUME NEW S, S \subseteq 0 .. MaxGid, S # {}
    PROVE  \E m \in S : \A x \in S : x <= m
<1> DEFINE D == {MaxGid - x : x \in S}
<1>1. \A x \in S : x \in Nat /\ MaxGid - x \in Nat
  BY GidsAreBounded
<1>2. D \subseteq Nat /\ D # {}
  BY <1>1
<1>3. PICK d \in D : \A e \in D : d <= e
  <2> HIDE DEF D
  <2> QED BY <1>2, LeastNat
<1>4. PICK m \in S : d = MaxGid - m
  OBVIOUS
<1>5. ASSUME NEW x \in S
      PROVE  x <= m
  <2>1. d <= MaxGid - x
    BY <1>3
  <2> QED BY <2>1, <1>1, <1>4, GidsAreBounded
<1> QED BY <1>5

\* The gids of a diff.
LEMMA FileFacts ==
    \A d \in Files : /\ d.snapB.gidB \in 0 .. MaxGid /\ d.snapE.gidB \in 0 .. MaxGid
                     /\ d.snapB.gidB \in Nat /\ d.snapE.gidB \in Nat
                     /\ d.snapB.gidB < d.snapE.gidB
  BY GidsAreBounded DEF Files, Diffs, Diff, Snap

\* What is received next is a diff.
LEMMA DiffIsFile ==
    ASSUME NEW b \in 0 .. MaxGid, NEW e \in 0 .. MaxGid, b < e
    PROVE  /\ Diff(b, e) \in Files
           /\ Diff(b, e).snapB.gidB = b /\ Diff(b, e).snapE.gidB = e
<1>1. Diff(b, e) \in Diffs
  BY DEF Diffs
<1>2. Diff(b, e).snapB.gidB = b /\ Diff(b, e).snapE.gidB = e
  BY DEF Diff, Snap
<1> QED BY <1>1, <1>2 DEF Files

\* There are finitely many of them.
LEMMA FilesAreFinite ==
    ASSUME NEW ds \in SUBSET Files
    PROVE  IsFiniteSet(ds) /\ Cardinality(ds) \in Nat /\ (ds # {} => Cardinality(ds) # 0)
<1> DEFINE G == 0 .. MaxGid
           f == [p \in G \X G |-> Diff(p[1], p[2])]
<1>1. IsFiniteSet(G)
  BY FS_Interval, GidsAreBounded
<1>2. IsFiniteSet(G \X G)
  BY <1>1, FS_Product
<1>3. f \in Surjection(G \X G, Diffs)
  <2>1. \A p \in G \X G : f[p] \in Diffs
    BY DEF Diffs
  <2>2. ASSUME NEW d \in Diffs
        PROVE  \E p \in G \X G : f[p] = d
    <3>1. PICK b \in G, e \in G : d = Diff(b, e)
      BY DEF Diffs
    <3>2. <<b, e>> \in G \X G /\ f[<<b, e>>] = d
      BY <3>1
    <3> QED BY <3>2
  <2> QED BY <2>1, <2>2 DEF Surjection
<1>4. IsFiniteSet(Diffs)
  <2> HIDE DEF f
  <2> QED BY <1>2, <1>3, FS_Surjection
<1>5. ds \in SUBSET Diffs
  BY DEF Files
<1>6. IsFiniteSet(ds)
  BY <1>4, <1>5, FS_Subset
<1> QED BY <1>6, FS_CardinalityType, FS_EmptySet

\* getMaxProgressDiff finds one.
LEMMA MaxProgress ==
    ASSUME NEW S, S \subseteq Files, S # {}
    PROVE  getMaxProgressDiff(S) \in S
<1> DEFINE Ends == {d.snapE.gidB : d \in S}
<1>1. Ends \subseteq 0 .. MaxGid /\ Ends # {}
  BY FileFacts
<1>2. PICK m \in Ends : \A x \in Ends : x <= m
  <2> HIDE DEF Ends
  <2> QED BY <1>1, GreatestGid
<1> DEFINE Begins == {d.snapB.gidB : d \in {e \in S : e.snapE.gidB = m}}
<1>3. Begins \subseteq 0 .. MaxGid /\ Begins # {}
  BY <1>2, FileFacts
<1>4. PICK k \in Begins : \A x \in Begins : x <= k
  <2> HIDE DEF Begins
  <2> QED BY <1>3, GreatestGid
<1>5. PICK d \in S : d.snapE.gidB = m /\ d.snapB.gidB = k
  BY <1>4
<1>6. ASSUME NEW e \in S
      PROVE  \/ e.snapE.gidB < d.snapE.gidB
             \/ e.snapE.gidB = d.snapE.gidB /\ e.snapB.gidB <= d.snapB.gidB
  <2>1. e.snapE.gidB <= m
    BY <1>2
  <2>2. e.snapE.gidB = m => e.snapB.gidB <= k
    BY <1>4
  <2>3. e.snapE.gidB \in Nat /\ d.snapE.gidB \in Nat
    BY FileFacts
  <2> QED BY <1>5, <2>1, <2>2, <2>3
<1> QED BY <1>6, Zenon DEF getMaxProgressDiff

-----------------------------------------------------------------------------
(* Merging.  A recursive function is what its definition says once some    *)
(* function is; that there is one follows from the least length for which  *)
(* there would be none.                                                    *)

IsMergeOf(m, v, k) == m = [n \in 1 .. k |-> IF n = 1 THEN v[1] ELSE merge(m[n - 1], v[n])]

LEMMA MergeExists ==
    ASSUME NEW v, NEW l \in Nat
    PROVE  \E m : IsMergeOf(m, v, l)
<1> DEFINE S == {k \in Nat : ~ \E m : IsMergeOf(m, v, k)}
<1>1. SUFFICES ASSUME S # {} PROVE FALSE
  OBVIOUS
<1>2. PICK k \in S : \A x \in S : k <= x
  <2>1. S \subseteq Nat
    OBVIOUS
  <2> HIDE DEF S
  <2> QED BY <1>1, <2>1, LeastNat
<1>3. k # 0
  <2>1. IsMergeOf([n \in 1 .. 0 |-> v], v, 0)
    BY DEF IsMergeOf
  <2> QED BY <2>1
<1>4. PICK f : IsMergeOf(f, v, k - 1)
  <2>1. k - 1 \in Nat /\ ~(k <= k - 1)
    BY <1>3
  <2>2. k - 1 \notin S
    BY <1>2, <2>1
  <2> QED BY <2>1, <2>2
<1> DEFINE g == [n \in 1 .. k |-> IF n = 1 THEN v[1] ELSE merge(f[n - 1], v[n])]
<1>5. ASSUME NEW n \in 1 .. k, n # 1
      PROVE  g[n - 1] = f[n - 1]
  <2>1. n - 1 \in 1 .. k /\ n - 1 \in 1 .. k - 1
    BY <1>5
  <2>2. f[n - 1] = IF n - 1 = 1 THEN v[1] ELSE merge(f[n - 1 - 1], v[n - 1])
    BY <2>1, <1>4 DEF IsMergeOf
  <2> QED BY <2>1, <2>2
<1>6. IsMergeOf(g, v, k)
  BY <1>5 DEF IsMergeOf
<1> QED BY <1>6

LEMMA MergeEnds ==
    ASSUME NEW d0, NEW d1
    PROVE  merge(d0, d1).snapB = d0.snapB /\ merge(d0, d1).snapE.gidB = d1.snapE.gidB
<1>1. merge(d0, d1).snapB = d0.snapB
  BY DEF merge
<1>2. merge(d0, d1).snapE = IF IsCleanDiff(d1)
                            THEN Snap(d1.snapE.gidB, Larger(d1.snapE.gidB, d0.snapE.gidE))
                            ELSE d1.snapE
  BY DEF merge
<1>3. \A x, y : Snap(x, y).gidB = x
  BY DEF Snap
<1> QED BY <1>1, <1>2, <1>3

\* The merged diff begins where the first one does and ends where the last does.
LEMMA MergeAllEnds ==
    ASSUME NEW v, Len(v) \in Nat, Len(v) # 0
    PROVE  /\ MergeAll(v).snapB = v[1].snapB
           /\ MergeAll(v).snapE.gidB = v[Len(v)].snapE.gidB
<1>1. PICK f : IsMergeOf(f, v, Len(v))
  BY MergeExists
<1>2. PICK m : IsMergeOf(m, v, Len(v)) /\ MergeAll(v) = m[Len(v)]
  BY <1>1, Zenon DEF IsMergeOf, MergeAll
<1> DEFINE S == {n \in 1 .. Len(v) : m[n].snapB # v[1].snapB}
<1>3. \A n \in 1 .. Len(v) : m[n] = IF n = 1 THEN v[1] ELSE merge(m[n - 1], v[n])
  BY <1>2 DEF IsMergeOf
<1>4. S = {}
  <2>1. SUFFICES ASSUME S # {} PROVE FALSE
    OBVIOUS
  <2>2. PICK n \in S : \A x \in S : n <= x
    <3>1. S \subseteq Nat
      OBVIOUS
    <3> HIDE DEF S
    <3> QED BY <2>1, <3>1, LeastNat
  <2>3. n # 1
    BY <1>3
  <2>4. n - 1 \in 1 .. Len(v) /\ ~(n <= n - 1)
    BY <2>3
  <2>5. m[n - 1].snapB = v[1].snapB
    BY <2>2, <2>4
  <2>6. m[n].snapB = m[n - 1].snapB
    BY <1>3, <2>3, MergeEnds
  <2> QED BY <2>5, <2>6
<1>5. Len(v) \in 1 .. Len(v)
  OBVIOUS
<1>6. m[Len(v)].snapE.gidB = v[Len(v)].snapE.gidB
  BY <1>3, <1>5, MergeEnds
<1> QED BY <1>2, <1>4, <1>5, <1>6

\* One step of the walk of getMergeableDiffList.
Mergeable(ds, m) == {d \in ds : ~SameRange(m, d) /\ canMerge(m, d)}

Extended(ds, u) ==
    IF Mergeable(ds, MergeAll(u)) = {} THEN u
    ELSE Append(u, getMaxProgressDiff(Mergeable(ds, MergeAll(u))))

IsWalkOf(w, ds, v, k) == w = [n \in 1 .. k |-> IF n = 1 THEN v ELSE Extended(ds, w[n - 1])]

LEMMA WalkExists ==
    ASSUME NEW ds, NEW v, NEW l \in Nat
    PROVE  \E w : IsWalkOf(w, ds, v, l)
<1> DEFINE S == {k \in Nat : ~ \E w : IsWalkOf(w, ds, v, k)}
<1>1. SUFFICES ASSUME S # {} PROVE FALSE
  OBVIOUS
<1>2. PICK k \in S : \A x \in S : k <= x
  <2>1. S \subseteq Nat
    OBVIOUS
  <2> HIDE DEF S
  <2> QED BY <1>1, <2>1, LeastNat
<1>3. k # 0
  <2>1. IsWalkOf([n \in 1 .. 0 |-> v], ds, v, 0)
    BY DEF IsWalkOf
  <2> QED BY <2>1
<1>4. PICK f : IsWalkOf(f, ds, v, k - 1)
  <2>1. k - 1 \in Nat /\ ~(k <= k - 1)
    BY <1>3
  <2>2. k - 1 \notin S
    BY <1>2, <2>1
  <2> QED BY <2>1, <2>2
<1> DEFINE g == [n \in 1 .. k |-> IF n = 1 THEN v ELSE Extended(ds, f[n - 1])]
<1>5. ASSUME NEW n \in 1 .. k, n # 1
      PROVE  g[n - 1] = f[n - 1]
  <2>1. n - 1 \in 1 .. k /\ n - 1 \in 1 .. k - 1
    BY <1>5
  <2>2. f[n - 1] = IF n - 1 = 1 THEN v ELSE Extended(ds, f[n - 1 - 1])
    BY <2>1, <1>4 DEF IsWalkOf
  <2> QED BY <2>1, <2>2
<1>6. IsWalkOf(g, ds, v, k)
  BY <1>5 DEF IsWalkOf
<1> QED BY <1>6

Lowest(ds) == {d \in ds : \A e \in ds : d.snapB.gidB <= e.snapB.gidB}

\* getMergeableDiffList is the end of a walk from the lowest diffs.
LEMMA MergeableIsWalk ==
    ASSUME NEW ds \in SUBSET Files, ds # {}
    PROVE  \E w : /\ IsWalkOf(w, ds, <<getMaxProgressDiff(Lowest(ds))>>, Cardinality(ds))
                  /\ getMergeableDiffList(ds, 0) = w[Cardinality(ds)]
<1>1. {d \in ds : 0 <= d.snapB.gidB} = ds
  BY FileFacts
<1>2. PICK f : IsWalkOf(f, ds, <<getMaxProgressDiff(Lowest(ds))>>, Cardinality(ds))
  BY WalkExists, FilesAreFinite
<1> DEFINE from  == {d \in ds : 0 <= d.snapB.gidB}
           first == {d \in from : \A e \in from : d.snapB.gidB <= e.snapB.gidB}
           Candidates(m) == {d \in ds : ~SameRange(m, d) /\ canMerge(m, d)}
           walk[n \in 1 .. Cardinality(ds)] ==
               IF n = 1 THEN <<getMaxProgressDiff(first)>>
               ELSE LET can == Candidates(MergeAll(walk[n - 1]))
                    IN  IF can = {} THEN walk[n - 1] ELSE Append(walk[n - 1], getMaxProgressDiff(can))
<1>3. first = Lowest(ds)
  BY <1>1 DEF Lowest
<1>4. getMergeableDiffList(ds, 0) = IF from = {} THEN <<>> ELSE walk[Cardinality(ds)]
  BY DEF getMergeableDiffList
<1>5. walk = CHOOSE w : IsWalkOf(w, ds, <<getMaxProgressDiff(Lowest(ds))>>, Cardinality(ds))
  BY <1>3 DEF IsWalkOf, Extended, Mergeable
<1> HIDE DEF walk
<1>6. IsWalkOf(walk, ds, <<getMaxProgressDiff(Lowest(ds))>>, Cardinality(ds))
  BY <1>2, <1>5, Zenon
<1> QED BY <1>1, <1>4, <1>6

\* What setupMerger may choose: the diffs end ever later, and none of the
\* manager begins before the first.
IsMergeList(ds, u) ==
    /\ u \in Seq(ds) /\ Len(u) \in Nat /\ Len(u) # 0
    /\ Increasing(u)
    /\ \A d \in ds : u[1].snapB.gidB <= d.snapB.gidB

LEMMA ExtendedList ==
    ASSUME NEW ds \in SUBSET Files, NEW u, IsMergeList(ds, u)
    PROVE  IsMergeList(ds, Extended(ds, u))
<1> DEFINE can == Mergeable(ds, MergeAll(u))
<1>1. CASE can = {}
  BY <1>1 DEF Extended
<1>2. CASE can # {}
  <2>1. can \subseteq Files /\ can \subseteq ds
    BY DEF Mergeable
  <2>2. PICK d \in can : d = getMaxProgressDiff(can)
    <3> HIDE DEF can
    <3> QED BY <1>2, <2>1, MaxProgress
  <2>3. Extended(ds, u) = Append(u, d)
    BY <1>2, <2>2 DEF Extended
  <2>4. MergeAll(u).snapE.gidB < d.snapE.gidB
    BY DEF Mergeable, canMerge
  <2>5. u[Len(u)].snapE.gidB < d.snapE.gidB
    BY <2>4, MergeAllEnds DEF IsMergeList
  <2>6. d \in ds /\ d.snapE.gidB \in Nat
    BY <2>1, FileFacts
  <2>7. \A i \in 1 .. Len(u) : u[i] \in Files /\ u[i].snapE.gidB \in Nat
    BY FileFacts DEF IsMergeList
  <2>8. /\ Append(u, d) \in Seq(ds) /\ Len(Append(u, d)) = Len(u) + 1
        /\ \A i \in 1 .. Len(u) : Append(u, d)[i] = u[i]
        /\ Append(u, d)[Len(u) + 1] = d
    BY <2>6 DEF IsMergeList
  <2>9. ASSUME NEW i \in 1 .. Len(u) + 1, NEW j \in 1 .. Len(u) + 1, i < j
        PROVE  Append(u, d)[i].snapE.gidB < Append(u, d)[j].snapE.gidB
    <3>1. i \in 1 .. Len(u) /\ Len(u) \in 1 .. Len(u)
      BY <2>9 DEF IsMergeList
    <3>2. u[i].snapE.gidB <= u[Len(u)].snapE.gidB
      BY <3>1, <2>7 DEF IsMergeList, Increasing
    <3>3. CASE j = Len(u) + 1
      BY <3>1, <3>2, <3>3, <2>5, <2>6, <2>7, <2>8
    <3>4. CASE j # Len(u) + 1
      <4>1. j \in 1 .. Len(u)
        BY <3>4 DEF IsMergeList
      <4> QED BY <4>1, <3>1, <2>8, <2>9 DEF IsMergeList, Increasing
    <3> QED BY <3>3, <3>4
  <2> HIDE DEF can
  <2>10. 1 \in 1 .. Len(u)
    BY DEF IsMergeList
  <2>11. Increasing(Append(u, d))
    BY <2>8, <2>9 DEF Increasing
  <2>12. \A c \in ds : Append(u, d)[1].snapB.gidB <= c.snapB.gidB
    BY <2>8, <2>10 DEF IsMergeList
  <2>13. Len(Append(u, d)) \in Nat /\ Len(Append(u, d)) # 0
    BY <2>8 DEF IsMergeList
  <2> QED BY <2>3, <2>8, <2>11, <2>12, <2>13 DEF IsMergeList
<1> QED BY <1>1, <1>2

LEMMA MergeableList ==
    ASSUME NEW ds \in SUBSET Files, ds # {}
    PROVE  IsMergeList(ds, getMergeableDiffList(ds, 0))
<1> DEFINE l == Cardinality(ds)
           v == <<getMaxProgressDiff(Lowest(ds))>>
<1>1. l \in Nat /\ l # 0
  BY FilesAreFinite
<1>2. PICK w : IsWalkOf(w, ds, v, l) /\ getMergeableDiffList(ds, 0) = w[l]
  BY MergeableIsWalk
<1>3. IsMergeList(ds, v)
  <2> DEFINE B == {d.snapB.gidB : d \in ds}
  <2>1. B \subseteq Nat /\ B # {}
    BY FileFacts
  <2>2. PICK m \in B : \A x \in B : m <= x
    <3> HIDE DEF B
    <3> QED BY <2>1, LeastNat
  <2>3. Lowest(ds) # {} /\ Lowest(ds) \subseteq ds /\ Lowest(ds) \subseteq Files
    BY <2>2 DEF Lowest
  <2>4. getMaxProgressDiff(Lowest(ds)) \in Lowest(ds)
    BY <2>3, MaxProgress
  <2>5. PICK d \in Lowest(ds) : d = getMaxProgressDiff(Lowest(ds))
    BY <2>4
  <2>6. v = <<d>> /\ d \in ds /\ \A e \in ds : d.snapB.gidB <= e.snapB.gidB
    BY <2>3, <2>5 DEF Lowest
  <2> HIDE DEF v
  <2>7. Len(v) = 1 /\ v[1] = d /\ v \in Seq(ds)
    BY <2>6
  <2>8. Increasing(v)
    BY <2>7 DEF Increasing
  <2> QED BY <2>6, <2>7, <2>8 DEF IsMergeList
<1> HIDE DEF l, v
<1>4. \A n \in 1 .. l : w[n] = IF n = 1 THEN v ELSE Extended(ds, w[n - 1])
  BY <1>2 DEF IsWalkOf
<1> DEFINE S == {n \in 1 .. l : ~IsMergeList(ds, w[n])}
<1>5. S = {}
  <2>1. SUFFICES ASSUME S # {} PROVE FALSE
    OBVIOUS
  <2>2. PICK n \in S : \A x \in S : n <= x
    <3>1. S \subseteq Nat
      BY <1>1
    <3> HIDE DEF S
    <3> QED BY <2>1, <3>1, LeastNat
  <2>3. n # 1
    BY <1>3, <1>4
  <2>4. n - 1 \in 1 .. l /\ ~(n <= n - 1)
    BY <1>1, <2>3
  <2>5. IsMergeList(ds, w[n - 1])
    BY <2>2, <2>4
  <2>6. w[n] = Extended(ds, w[n - 1])
    BY <1>4, <2>3
  <2> QED BY <2>5, <2>6, ExtendedList
<1>6. l \in 1 .. l
  BY <1>1
<1> QED BY <1>2, <1>5, <1>6

\* A worker sends the first n of them.
LEMMA SentList ==
    ASSUME NEW ds \in SUBSET Files, ds # {},
           NEW n \in 1 .. Len(getMergeableDiffList(ds, 0))
    PROVE  LET u == SubSeq(getMergeableDiffList(ds, 0), 1, n)
           IN  IsMergeList(ds, u) /\ u \in Seq(Files) /\ \A i \in 1 .. Len(u) : u[i] \in ds
<1>1. PICK v : v = getMergeableDiffList(ds, 0)
  OBVIOUS
<1>2. IsMergeList(ds, v) /\ n \in 1 .. Len(v)
  BY <1>1, MergeableList
<1> DEFINE u == SubSeq(v, 1, n)
<1>3. u \in Seq(ds) /\ Len(u) = n /\ \A i \in 1 .. n : u[i] = v[i]
  BY <1>2 DEF IsMergeList
<1>4. \A i \in 1 .. n : i \in 1 .. Len(v)
  BY <1>2 DEF IsMergeList
<1> HIDE DEF u
<1>5. IsMergeList(ds, u)
  BY <1>2, <1>3, <1>4 DEF IsMergeList, Increasing
<1>6. u \in Seq(Files) /\ \A i \in 1 .. Len(u) : u[i] \in ds
  BY <1>3
<1> QED BY <1>1, <1>5, <1>6 DEF u

-----------------------------------------------------------------------------
(* A conjunct of the invariant whose variables do not change. *)

LEMMA DataKept ==
    DataInv /\ UNCHANGED <<archiveSet, infos, dirs, gutted, recvMgr, received, mgr, sendto, ac, latest,
                             done, nrCrashes>>
        => DataInv'
  BY DEF DataInv

LEMMA ProcKept ==
    ProcInv /\ UNCHANGED <<worker, server, stopper, admin, queue>>
        => ProcInv'
  BY DEF ProcInv

LEMMA StateKept ==
    StateInv /\ UNCHANGED <<server, sm, admin, stopper>>
        => StateInv'
  BY DEF StateInv

LEMMA ArchiveKept ==
    ArchiveInv /\ UNCHANGED <<dirs, archiveSet, infos, tree, gutted, admin, mgr, sendto>>
        /\ received' \subseteq received
        /\ (sm' = sm \/ (sm' \notin {"Clear", "Down"} /\ sm \notin {"Clear", "Down"}))
        => ArchiveInv'
  BY DEF ArchiveInv

LEMMA BusyKept ==
    BusyInv /\ UNCHANGED <<worker, ac, dirs, archiveSet>> /\ (sm' = sm \/ sm' \notin Administering)
        => BusyInv'
  BY DEF BusyInv, Busy

LEMMA ListKept ==
    ListInv /\ UNCHANGED <<worker, mgr, sendto, latest, gutted>>
        => ListInv'
  BY DEF ListInv, ListOf, Busy

LEMMA ReceivedKept ==
    ReceivedInv /\ UNCHANGED <<server, received, recvMgr, done, sendto, admin>>
        => ReceivedInv'
  BY DEF ReceivedInv

LEMMA LinksKept ==
    LinkInv /\ UNCHANGED <<server, recvMgr, received, archiveSet, sendto, latest>>
        => LinkInv'
  BY DEF LinkInv

LEMMA NoGapKept ==
    NoGapInv /\ UNCHANGED <<dirs, gutted, sendto, latest>>
        => NoGapInv'
  BY DEF NoGapInv

LEMMA TasksKept ==
    ScheduleInv /\ UNCHANGED <<sm, recvMgr, server, archiveSet, mgr, queue, err, cut, worker>>
        => ScheduleInv'
  BY DEF ScheduleInv, Scheduled, ToSchedule

LEMMA KeptKept ==
    KeptInv /\ UNCHANGED <<dirs, gutted, latest, done, sendto, received>>
        => KeptInv'
  BY DEF KeptInv

LEMMA MatchKept ==
    MatchInv /\ UNCHANGED <<archiveSet, dirs, gutted, admin, mgr, sendto, worker>>
        => MatchInv'
  BY DEF MatchInv, Unlinking

-----------------------------------------------------------------------------
(* What the steps of the workers and of the receiver do. *)

\* The effects of the actions of a worker, of linking and of acknowledging, on
\* everything that they change.
Tasks == [pc : WorkerPcs, archive : Archives \cup {"none"}, list : Seq(Files)]

Becomes(w, task) ==
    /\ worker' \in [Workers -> Tasks] /\ worker'[w] = task
    /\ \A x \in Workers : x # w => worker'[x] = worker[x]

At(w, pc, v) == [pc |-> pc, archive |-> worker[w].archive, list |-> v]

\* No worker changes any of these.
steady == <<sm, stopState, archiveSet, recvMgr, server, stopper, admin, received, infos, dirs,
            tree, gutted, done, nrCrashes>>

\* An archive only gets further.
Grows == latest' \in [Archives -> Nat] /\ \A a \in Archives : latest[a] <= latest'[a]

Pops(w) ==
    /\ worker[w].pc = "idle"
    /\ \E a \in queue : /\ Becomes(w, [pc |-> "popped", archive |-> a, list |-> <<>>])
                        /\ queue' = queue \ {a}
    /\ UNCHANGED <<steady, mgr, ac, err, sendto, latest, cut>>

Puts(w) ==
    /\ worker[w].pc = "popped"
    /\ Becomes(w, At(w, "push", worker[w].list))
    /\ UNCHANGED <<steady, mgr, ac, err, queue, sendto, latest, cut>>

Drops(w) ==
    /\ worker[w].pc = "popped"
    /\ mgr[worker[w].archive] = {} \/ ac[worker[w].archive] = 1
    /\ Becomes(w, NoTask)
    /\ UNCHANGED <<steady, mgr, ac, err, queue, sendto, latest, cut>>

Sends(w) ==
    /\ worker[w].pc = "popped" /\ ac[worker[w].archive] = 0
    /\ mgr[worker[w].archive] # {} /\ sm \notin Administering
    /\ \E v \in Seq(Files) : /\ Becomes(w, At(w, "send", v))
                             /\ v # <<>> /\ Increasing(v)
                             /\ \A i \in 1 .. Len(v) : v[i] \in mgr[worker[w].archive]
                             /\ \A d \in mgr[worker[w].archive] : v[1].snapB.gidB <= d.snapB.gidB
    /\ ac' = [ac EXCEPT ![worker[w].archive] = 1]
    /\ UNCHANGED <<steady, mgr, err, queue, sendto, latest, cut>>

IsAnswered(w) ==
    /\ worker[w].pc = "send"
    /\ Becomes(w, At(w, "erase", worker[w].list))
    /\ Grows
    /\ \A i \in 1 .. Len(worker[w].list) :
            worker[w].list[i].snapE.gidB <= latest'[worker[w].archive]
    /\ UNCHANGED <<steady, mgr, ac, err, queue, sendto, cut>>

\* The worker gives up its archive for now.
Leaves(w, pc) ==
    /\ Busy(w)
    /\ Becomes(w, At(w, pc, <<>>))
    /\ ac' = [ac EXCEPT ![worker[w].archive] = 0]
    /\ UNCHANGED <<steady, mgr, err, queue, sendto, cut>>

IsCutOff(w) ==
    /\ worker[w].pc = "send"
    /\ Becomes(w, NoTask)
    /\ ac' = [ac EXCEPT ![worker[w].archive] = 0]
    /\ cut' = cut \cup {worker[w].archive}
    /\ UNCHANGED <<steady, mgr, err, queue, sendto, latest>>

Erases(w) ==
    /\ worker[w].pc = "erase"
    /\ Becomes(w, At(w, "unlink", worker[w].list))
    /\ mgr' = [mgr EXCEPT ![worker[w].archive] = @ \ Listed(w)]
    /\ UNCHANGED <<steady, ac, err, queue, sendto, latest, cut>>

Unlinks(w) ==
    /\ worker[w].pc = "unlink" /\ worker[w].list # <<>>
    /\ Becomes(w, At(w, "unlink", Tail(worker[w].list)))
    /\ sendto' = [sendto EXCEPT ![worker[w].archive] = @ \ {worker[w].list[1]}]
    /\ UNCHANGED <<steady, mgr, ac, err, queue, latest, cut>>

PutsAgain(w) ==
    /\ worker[w].pc = "push"
    /\ Becomes(w, NoTask)
    /\ queue' = queue \cup {worker[w].archive} /\ cut' = cut \ {worker[w].archive}
    /\ UNCHANGED <<steady, mgr, ac, err, sendto, latest>>

Complains(w) ==
    /\ worker[w].pc = "error"
    /\ Becomes(w, NoTask)
    /\ err' = err \cup {worker[w].archive}
    /\ UNCHANGED <<steady, mgr, ac, queue, sendto, latest, cut>>

\* What is merged of the list of a worker that sends.
LEMMA MergedEnds ==
    ASSUME ProcInv, ListInv, NEW w \in Workers, worker[w].pc = "send"
    PROVE  /\ Merged(w).snapE.gidB \in Nat
           /\ Merged(w).snapB.gidB = worker[w].list[1].snapB.gidB
           /\ \A i \in 1 .. Len(worker[w].list) :
                    worker[w].list[i].snapE.gidB <= Merged(w).snapE.gidB
<1>1. PICK v \in Seq(Files) : v = worker[w].list
  BY DEF ProcInv
<1>2. v # <<>> /\ Increasing(v)
  BY <1>1 DEF ListInv, ListOf, Busy
<1>3. Len(v) \in Nat /\ Len(v) # 0 /\ Len(v) \in 1 .. Len(v)
  BY <1>2
<1>4. \A i \in 1 .. Len(v) : v[i].snapE.gidB \in Nat
  BY FileFacts
<1>5. \A i \in 1 .. Len(v) : v[i].snapE.gidB <= v[Len(v)].snapE.gidB
  BY <1>2, <1>3, <1>4 DEF Increasing
<1>6. MergeAll(v).snapB = v[1].snapB /\ MergeAll(v).snapE.gidB = v[Len(v)].snapE.gidB
  BY <1>3, MergeAllEnds
<1> QED BY <1>1, <1>3, <1>4, <1>5, <1>6 DEF Merged

\* An archive that takes the diff gets further.
LEMMA ReceivedEffect ==
    ASSUME DataInv, ProcInv, ListInv, NEW w \in Workers, worker[w].pc = "send",
           Wanted(w), Received(w)
    PROVE  /\ Grows
           /\ \A i \in 1 .. Len(worker[w].list) :
                    worker[w].list[i].snapE.gidB <= latest'[worker[w].archive]
<1>1. worker[w].archive \in Archives
  BY DEF ProcInv
<1>2. PICK m : m = Merged(w).snapE.gidB
  OBVIOUS
<1>3. m \in Nat /\ \A i \in 1 .. Len(worker[w].list) : worker[w].list[i].snapE.gidB <= m
  BY <1>2, MergedEnds
<1>4. latest[worker[w].archive] < m
  BY <1>2 DEF Wanted, canApply, Snap
<1>5. latest' = [latest EXCEPT ![worker[w].archive] = m]
  BY <1>2 DEF Received
<1> QED BY <1>1, <1>3, <1>4, <1>5 DEF Grows, DataInv

LEMMA TaskType ==
    ASSUME ProcInv, NEW w \in Workers
    PROVE  /\ worker \in [Workers -> Tasks]
           /\ worker[w] = [pc |-> worker[w].pc, archive |-> worker[w].archive, list |-> worker[w].list]
           /\ worker[w].archive \in Archives \cup {"none"} /\ worker[w].list \in Seq(Files)
           /\ <<>> \in Seq(Files)
  BY DEF ProcInv, Tasks

\* Changing fields of a task.
LEMMA TaskExcept ==
    ASSUME NEW t \in Tasks, NEW p, NEW v
    PROVE  /\ [t EXCEPT !.pc = p] = [pc |-> p, archive |-> t.archive, list |-> t.list]
           /\ [t EXCEPT !.list = v] = [pc |-> t.pc, archive |-> t.archive, list |-> v]
<1>1. PICK q, a, l : t = [pc |-> q, archive |-> a, list |-> l]
  BY DEF Tasks
<1>2. [t EXCEPT !.pc = p] = [pc |-> p, archive |-> t.archive, list |-> t.list]
  BY <1>1
<1>3. [t EXCEPT !.list = v] = [pc |-> t.pc, archive |-> t.archive, list |-> v]
  BY <1>1
<1> QED BY <1>2, <1>3

LEMMA PopEffect ==
    ASSUME ProcInv, NEW w \in Workers, Pop(w)
    PROVE  Pops(w)
<1>1. PICK a \in queue : /\ queue' = queue \ {a}
                         /\ worker' = [worker EXCEPT ![w] = [pc |-> "popped", archive |-> a, list |-> <<>>]]
  BY DEF Pop
<1>2. [pc |-> "popped", archive |-> a, list |-> <<>>] \in Tasks
  BY DEF ProcInv, Tasks, WorkerPcs
<1>3. Becomes(w, [pc |-> "popped", archive |-> a, list |-> <<>>])
  BY <1>1, <1>2, TaskType DEF Becomes
<1> QED BY <1>1, <1>3 DEF Pop, Pops, steady, disk, places

LEMMA NotNowEffect ==
    ASSUME ProcInv, NEW w \in Workers, SendNotNow(w)
    PROVE  Puts(w)
<1>1. worker' = [worker EXCEPT ![w] = At(w, "push", worker[w].list)]
  <2>1. worker' = [worker EXCEPT ![w] = [worker[w] EXCEPT !.pc = "push"]]
    BY DEF SendNotNow, To
  <2>2. [worker[w] EXCEPT !.pc = "push"] = At(w, "push", worker[w].list)
    <3>1. worker[w] \in Tasks
      BY TaskType
    <3> QED BY <3>1, TaskExcept DEF At
  <2> QED BY <2>1, <2>2
<1>2. At(w, "push", worker[w].list) \in Tasks
  BY TaskType DEF At, Tasks, WorkerPcs
<1>3. Becomes(w, At(w, "push", worker[w].list))
  BY <1>1, <1>2, TaskType DEF Becomes
<1> QED BY <1>3 DEF SendNotNow, Puts, steady, memory, disk, places

\* A worker that has nothing to do any more.
LEMMA IdleEffect ==
    ASSUME ProcInv, NEW w \in Workers, worker' = [worker EXCEPT ![w] = NoTask]
    PROVE  Becomes(w, NoTask)
  BY TaskType DEF Becomes, NoTask, Tasks, WorkerPcs

LEMMA DontSendEffect ==
    ASSUME DataInv, ProcInv, NEW w \in Workers, DontSend(w)
    PROVE  Drops(w)
<1>1. Becomes(w, NoTask)
  BY IdleEffect DEF DontSend
<1>2. worker[w].archive \in Archives
  BY DEF ProcInv, DontSend
<1>3. mgr[worker[w].archive] = {} \/ ac[worker[w].archive] = 1
  BY <1>2 DEF DataInv, DontSend
<1> QED BY <1>1, <1>3 DEF DontSend, Drops, steady, memory, disk, places

LEMMA SendEffect ==
    ASSUME DataInv, ProcInv, NEW w \in Workers, SendBegin(w)
    PROVE  Sends(w)
<1>1. PICK a \in Archives : a = worker[w].archive
  BY DEF ProcInv, SendBegin
<1>2. mgr[a] \in SUBSET Files /\ mgr[a] # {} /\ ac[a] = 0
  BY <1>1 DEF DataInv, SendBegin
<1>3. PICK n \in 1 .. Len(getMergeableDiffList(mgr[a], 0)) :
        worker' = [worker EXCEPT ![w].pc = "send",
                                 ![w].list = SubSeq(getMergeableDiffList(mgr[a], 0), 1, n)]
  BY <1>1 DEF SendBegin
<1>4. PICK v : v = SubSeq(getMergeableDiffList(mgr[a], 0), 1, n)
  OBVIOUS
<1>5. IsMergeList(mgr[a], v) /\ v \in Seq(Files) /\ \A i \in 1 .. Len(v) : v[i] \in mgr[a]
  BY <1>2, <1>4, SentList
<1>6. worker' = [worker EXCEPT ![w] = At(w, "send", v)]
  <2>1. worker' = [worker EXCEPT ![w] = [worker[w] EXCEPT !.pc = "send", !.list = v]]
    BY <1>3, <1>4
  <2>2. [worker[w] EXCEPT !.pc = "send", !.list = v] = At(w, "send", v)
    <3>1. PICK t \in Tasks : t = worker[w]
      BY TaskType
    <3>2. [t EXCEPT !.pc = "send", !.list = v] = [pc |-> "send", archive |-> t.archive, list |-> v]
      <4>1. PICK u : u = [t EXCEPT !.pc = "send"]
        OBVIOUS
      <4>2. u = [pc |-> "send", archive |-> t.archive, list |-> t.list]
        BY <4>1, TaskExcept
      <4>3. [u EXCEPT !.list = v] = [pc |-> "send", archive |-> t.archive, list |-> v]
        BY <4>2
      <4> QED BY <4>1, <4>3
    <3> QED BY <3>1, <3>2 DEF At
  <2> QED BY <2>1, <2>2
<1>7. At(w, "send", v) \in Tasks
  BY <1>5, TaskType DEF At, Tasks, WorkerPcs
<1>8. Becomes(w, At(w, "send", v))
  BY <1>6, <1>7, TaskType DEF Becomes
<1>9. ac' = [ac EXCEPT ![a] = 1]
  BY <1>1, <1>2 DEF SendBegin, DataInv
<1>10. /\ worker[w].pc = "popped" /\ sm \notin Administering
       /\ UNCHANGED <<steady, mgr, err, queue, sendto, latest, cut>>
  BY DEF SendBegin, MaySend, pAcceptForWdiffSend, Administering, steady, disk, places
<1>11. v # <<>> /\ Increasing(v) /\ \A d \in mgr[a] : v[1].snapB.gidB <= d.snapB.gidB
  BY <1>5 DEF IsMergeList
<1> QED BY <1>1, <1>2, <1>5, <1>8, <1>9, <1>10, <1>11 DEF Sends

LEMMA AnsweredEffect ==
    ASSUME DataInv, ProcInv, ListInv, NEW w \in Workers, SendAnswered(w)
    PROVE  IsAnswered(w)
<1>1. worker' = [worker EXCEPT ![w] = At(w, "erase", worker[w].list)]
  <2>1. worker' = [worker EXCEPT ![w] = [worker[w] EXCEPT !.pc = "erase"]]
    BY DEF SendAnswered, To
  <2>2. [worker[w] EXCEPT !.pc = "erase"] = At(w, "erase", worker[w].list)
    <3>1. worker[w] \in Tasks
      BY TaskType
    <3> QED BY <3>1, TaskExcept DEF At
  <2> QED BY <2>1, <2>2
<1>2. At(w, "erase", worker[w].list) \in Tasks
  BY TaskType DEF At, Tasks, WorkerPcs
<1>3. Becomes(w, At(w, "erase", worker[w].list))
  BY <1>1, <1>2, TaskType DEF Becomes
<1>4. worker[w].pc = "send" /\ UNCHANGED <<steady, mgr, ac, err, queue, sendto, cut>>
  BY DEF SendAnswered, steady, memory, disk, places
<1>5. /\ Grows
      /\ \A i \in 1 .. Len(worker[w].list) :
                    worker[w].list[i].snapE.gidB <= latest'[worker[w].archive]
  <2>1. CASE Wanted(w) /\ Received(w)
    BY <1>4, <2>1, ReceivedEffect
  <2>2. CASE TooOld(w) /\ UNCHANGED latest
    <3>1. PICK m : m = Merged(w).snapE.gidB
      OBVIOUS
    <3>2. m \in Nat /\ \A i \in 1 .. Len(worker[w].list) : worker[w].list[i].snapE.gidB <= m
      BY <1>4, <3>1, MergedEnds
    <3>3. m <= latest[worker[w].archive] /\ worker[w].archive \in Archives
      BY <1>4, <2>2, <3>1 DEF TooOld, ProcInv
    <3>4. \A i \in 1 .. Len(worker[w].list) : worker[w].list[i].snapE.gidB \in Nat
      <4>1. PICK v \in Seq(Files) : v = worker[w].list
        BY TaskType
      <4>2. \A i \in 1 .. Len(v) : v[i] \in Files
        OBVIOUS
      <4> QED BY <4>1, <4>2, FileFacts
    <3>5. latest \in [Archives -> Nat] /\ latest' = latest
      BY <2>2 DEF DataInv
    <3> QED BY <3>2, <3>3, <3>4, <3>5 DEF Grows
  <2> QED BY <2>1, <2>2 DEF SendAnswered
<1> QED BY <1>3, <1>4, <1>5 DEF IsAnswered

\* Closing the action of a busy worker.
LEMMA CloseEffect ==
    ASSUME DataInv, ProcInv, BusyInv, NEW w \in Workers, Busy(w), CloseAction(w)
    PROVE  ac' = [ac EXCEPT ![worker[w].archive] = 0]
<1>1. ac[worker[w].archive] = 1
  BY DEF BusyInv
<1> QED BY <1>1 DEF CloseAction

LEMMA LeaveEffect ==
    ASSUME DataInv, ProcInv, BusyInv, NEW w \in Workers, Busy(w), NEW pc \in WorkerPcs, Leave(w, pc),
           UNCHANGED <<steady, mgr, err, queue, sendto, cut>>
    PROVE  Leaves(w, pc)
<1>1. ac' = [ac EXCEPT ![worker[w].archive] = 0]
  BY CloseEffect DEF Leave
<1>2. worker' = [worker EXCEPT ![w] = At(w, pc, <<>>)]
  <2>1. worker' = [worker EXCEPT ![w] = [worker[w] EXCEPT !.pc = pc, !.list = <<>>]]
    BY DEF Leave
  <2>2. [worker[w] EXCEPT !.pc = pc, !.list = <<>>] = At(w, pc, <<>>)
    <3>1. PICK t \in Tasks : t = worker[w]
      BY TaskType
    <3>2. [t EXCEPT !.pc = pc, !.list = <<>>] = [pc |-> pc, archive |-> t.archive, list |-> <<>>]
      <4>1. PICK u : u = [t EXCEPT !.pc = pc]
        OBVIOUS
      <4>2. u = [pc |-> pc, archive |-> t.archive, list |-> t.list]
        BY <4>1, TaskExcept
      <4>3. [u EXCEPT !.list = <<>>] = [pc |-> pc, archive |-> t.archive, list |-> <<>>]
        BY <4>2
      <4> QED BY <4>1, <4>3
    <3> QED BY <3>1, <3>2 DEF At
  <2> QED BY <2>1, <2>2
<1>3. At(w, pc, <<>>) \in Tasks
  BY TaskType DEF At, Tasks
<1>4. Becomes(w, At(w, pc, <<>>))
  BY <1>2, <1>3, TaskType DEF Becomes
<1> QED BY <1>1, <1>4 DEF Leaves

LEMMA LaterEffect ==
    ASSUME DataInv, ProcInv, BusyInv, ListInv, NEW w \in Workers, SendLater(w)
    PROVE  Leaves(w, "push") /\ Grows
<1>1. worker[w].pc = "send" /\ UNCHANGED <<steady, mgr, err, queue, sendto, cut>>
  BY DEF SendLater, steady, disk, places
<1>2. "push" \in WorkerPcs /\ Busy(w)
  BY <1>1 DEF WorkerPcs, Busy
<1>3. Leaves(w, "push")
  BY <1>1, <1>2, LeaveEffect DEF SendLater
<1>4. CASE UNCHANGED latest
  BY <1>3, <1>4 DEF Grows, DataInv
<1>5. CASE Wanted(w) /\ Received(w)
  BY <1>1, <1>3, <1>5, ReceivedEffect
<1> QED BY <1>4, <1>5 DEF SendLater

LEMMA RefusedEffect ==
    ASSUME DataInv, ProcInv, BusyInv, NEW w \in Workers, SendRefused(w)
    PROVE  Leaves(w, "error") /\ UNCHANGED latest
<1>1. worker[w].pc = "send" /\ UNCHANGED <<steady, mgr, err, queue, sendto, cut>>
  BY DEF SendRefused, steady, disk, places
<1>2. "error" \in WorkerPcs /\ Busy(w)
  BY <1>1 DEF WorkerPcs, Busy
<1> QED BY <1>1, <1>2, LeaveEffect DEF SendRefused

LEMMA EndEffect ==
    ASSUME DataInv, ProcInv, BusyInv, NEW w \in Workers, SendEnd(w)
    PROVE  Leaves(w, "push") /\ UNCHANGED latest /\ worker[w].pc = "unlink" /\ worker[w].list = <<>>
<1>1. worker[w].pc = "unlink" /\ UNCHANGED <<steady, mgr, err, queue, sendto, cut>>
  BY DEF SendEnd, steady, disk, places
<1>2. "push" \in WorkerPcs /\ Busy(w)
  BY <1>1 DEF WorkerPcs, Busy
<1> QED BY <1>1, <1>2, LeaveEffect DEF SendEnd

LEMMA CutOffEffect ==
    ASSUME DataInv, ProcInv, BusyInv, NEW w \in Workers, SendCutOff(w)
    PROVE  IsCutOff(w)
<1>1. worker[w].pc = "send" /\ Busy(w)
  BY DEF SendCutOff, Busy
<1>2. Becomes(w, NoTask)
  BY IdleEffect DEF SendCutOff
<1>3. ac' = [ac EXCEPT ![worker[w].archive] = 0]
  BY <1>1, CloseEffect DEF SendCutOff
<1> QED BY <1>1, <1>2, <1>3 DEF SendCutOff, IsCutOff, steady, disk, places

LEMMA EraseEffect ==
    ASSUME ProcInv, NEW w \in Workers, SendErase(w)
    PROVE  Erases(w)
<1>1. worker' = [worker EXCEPT ![w] = At(w, "unlink", worker[w].list)]
  <2>1. worker' = [worker EXCEPT ![w] = [worker[w] EXCEPT !.pc = "unlink"]]
    BY DEF SendErase, To
  <2>2. [worker[w] EXCEPT !.pc = "unlink"] = At(w, "unlink", worker[w].list)
    <3>1. worker[w] \in Tasks
      BY TaskType
    <3> QED BY <3>1, TaskExcept DEF At
  <2> QED BY <2>1, <2>2
<1>2. At(w, "unlink", worker[w].list) \in Tasks
  BY TaskType DEF At, Tasks, WorkerPcs
<1>3. Becomes(w, At(w, "unlink", worker[w].list))
  BY <1>1, <1>2, TaskType DEF Becomes
<1> QED BY <1>3 DEF SendErase, Erases, steady, disk, places

LEMMA UnlinkEffect ==
    ASSUME ProcInv, NEW w \in Workers, SendUnlink(w)
    PROVE  Unlinks(w)
<1>1. PICK v \in Seq(Files) : v = worker[w].list
  BY TaskType
<1>2. v # <<>> /\ Tail(v) \in Seq(Files) /\ Head(v) = v[1]
  BY <1>1 DEF SendUnlink
<1>3. worker' = [worker EXCEPT ![w] = At(w, "unlink", Tail(v))]
  <2>1. worker' = [worker EXCEPT ![w] = [worker[w] EXCEPT !.list = Tail(v)]]
    BY <1>1 DEF SendUnlink
  <2>2. worker[w].pc = "unlink"
    BY DEF SendUnlink
  <2>3. [worker[w] EXCEPT !.list = Tail(v)] = At(w, "unlink", Tail(v))
    <3>1. PICK t \in Tasks : t = worker[w]
      BY TaskType
    <3>2. [t EXCEPT !.list = Tail(v)] = [pc |-> t.pc, archive |-> t.archive, list |-> Tail(v)]
      BY TaskExcept
    <3> QED BY <2>2, <3>1, <3>2 DEF At
  <2> QED BY <2>1, <2>3
<1>4. At(w, "unlink", Tail(v)) \in Tasks
  BY <1>2, TaskType DEF At, Tasks, WorkerPcs
<1>5. Becomes(w, At(w, "unlink", Tail(v)))
  BY <1>3, <1>4, TaskType DEF Becomes
<1>6. sendto' = [sendto EXCEPT ![worker[w].archive] = @ \ {v[1]}]
  BY <1>1, <1>2 DEF SendUnlink
<1> QED BY <1>1, <1>2, <1>5, <1>6 DEF SendUnlink, Unlinks, steady, memory, places

LEMMA PushEffect ==
    ASSUME ProcInv, NEW w \in Workers, PushAgain(w)
    PROVE  PutsAgain(w)
<1>1. Becomes(w, NoTask)
  BY IdleEffect DEF PushAgain
<1> QED BY <1>1 DEF PushAgain, PutsAgain, Push, steady, disk, places

LEMMA ErrorEffect ==
    ASSUME ProcInv, NEW w \in Workers, SetError(w)
    PROVE  Complains(w)
<1>1. Becomes(w, NoTask)
  BY IdleEffect DEF SetError
<1> QED BY <1>1 DEF SetError, Complains, steady, disk, places

\* The receiver links one diff into one directory, in the order of the gids.
Links ==
    /\ server.pc = "link"
    /\ \E d \in Files, a \in Archives :
          /\ <<d, a>> \in server.todo
          /\ \A c \in Files, b \in Archives : <<c, b>> \in server.todo => d.snapB.gidB <= c.snapB.gidB
          /\ \/ d \in sendto[a] /\ UNCHANGED <<sendto, mgr>>
             \/ /\ d \notin sendto[a]
                /\ sendto' = [sendto EXCEPT ![a] = @ \cup {d}]
                /\ mgr' = [mgr EXCEPT ![a] = @ \cup {d}]
          /\ server' = [pc |-> "link", diff |-> server.diff, todo |-> server.todo \ {<<d, a>>}]
    /\ UNCHANGED <<sm, stopState, archiveSet, recvMgr, ac, err, queue, worker, stopper, admin,
                   received, infos, dirs, tree, gutted, latest, done, cut, nrCrashes>>

LEMMA LinkEffect ==
    ASSUME ProcInv, Link
    PROVE  Links
<1>1. PICK p \in server.todo :
        /\ \A q \in server.todo : p[1].snapB.gidB <= q[1].snapB.gidB
        /\ tryToMakeHardlinkForArchive(p[1], p[2])
        /\ server' = [server EXCEPT !.todo = @ \ {p}]
  BY DEF Link
<1>2. server.todo \subseteq Files \X Archives /\ server.pc = "link"
  BY DEF ProcInv, Link
<1>3. PICK d \in Files, a \in Archives : p = <<d, a>>
  BY <1>2
<1>4. p[1] = d /\ p[2] = a
  BY <1>3
<1>5. \A c \in Files, b \in Archives : <<c, b>> \in server.todo => d.snapB.gidB <= c.snapB.gidB
  <2> SUFFICES ASSUME NEW c \in Files, NEW b \in Archives, <<c, b>> \in server.todo
               PROVE  d.snapB.gidB <= c.snapB.gidB
    OBVIOUS
  <2>1. <<c, b>>[1] = c
    OBVIOUS
  <2>2. p[1].snapB.gidB <= <<c, b>>[1].snapB.gidB
    BY <1>1
  <2> QED BY <1>4, <2>1, <2>2
<1>6. \/ d \in sendto[a] /\ UNCHANGED <<sendto, mgr>>
      \/ /\ d \notin sendto[a]
         /\ sendto' = [sendto EXCEPT ![a] = @ \cup {d}]
         /\ mgr' = [mgr EXCEPT ![a] = @ \cup {d}]
  BY <1>1, <1>4 DEF tryToMakeHardlinkForArchive
<1>7. server' = [pc |-> "link", diff |-> server.diff, todo |-> server.todo \ {<<d, a>>}]
  BY <1>1, <1>2, <1>3 DEF ProcInv
<1>8. UNCHANGED <<sm, stopState, archiveSet, recvMgr, ac, err, queue, worker, stopper, admin,
                  received, infos, dirs, tree, gutted, latest, done, cut, nrCrashes>>
  BY DEF Link, places
<1>9. <<d, a>> \in server.todo
  BY <1>3
<1> QED BY <1>2, <1>5, <1>6, <1>7, <1>8, <1>9 DEF Links

\* The storage server has the ack, or has not, and the diff is there.
Acks ==
    /\ server.pc = "ack"
    /\ \/ /\ server' = [pc |-> "acked", diff |-> server.diff, todo |-> server.todo]
          /\ UNCHANGED sm
          /\ done' = done \/ done' = server.diff.snapE.gidB
       \/ server' = NoRecv /\ sm' = "Started" /\ UNCHANGED done
    /\ UNCHANGED <<stopState, archiveSet, recvMgr, mgr, ac, err, queue, worker, stopper, admin,
                   disk, latest, cut, nrCrashes>>

LEMMA AckEffect ==
    ASSUME ProcInv, RecvAck
    PROVE  Acks
<1>1. [server EXCEPT !.pc = "acked"] = [pc |-> "acked", diff |-> server.diff, todo |-> server.todo]
  BY DEF ProcInv
<1> QED BY <1>1 DEF RecvAck, Acks, RecvEnds

LEMMA StartEffect ==
    ASSUME DataInv, NEW e \in 1 .. MaxGid, RecvStart(e)
    PROVE  /\ server' = [pc |-> "recv", diff |-> Diff(done, e), todo |-> {}]
           /\ Diff(done, e) \in Files
           /\ Diff(done, e).snapB.gidB = done
<1>1. done \in 0 .. MaxGid /\ e \in 0 .. MaxGid /\ done < e
  BY GidsAreBounded DEF DataInv, RecvStart
<1> QED BY <1>1, DiffIsFile DEF RecvStart


-----------------------------------------------------------------------------
(* What a worker that takes its next step leaves as it was. *)

LEMMA ProcFrame ==
    ASSUME ProcInv, NEW w \in Workers, NEW task, Becomes(w, task),
           task.pc # "idle" => task.archive \in Archives,
           queue' \subseteq Archives, UNCHANGED <<server, stopper, admin>>
    PROVE  ProcInv'
<1>1. worker' \in [Workers -> Tasks]
  BY DEF Becomes
<1>2. ASSUME NEW x \in Workers, worker'[x].pc # "idle"
      PROVE  worker'[x].archive \in Archives
  BY <1>2 DEF Becomes, ProcInv
<1> QED BY <1>1, <1>2 DEF ProcInv, Tasks

NotBusy == {"idle", "popped", "push", "error"}

\* A worker that was not busy with an archive and is not.
LEMMA BusyAside ==
    ASSUME BusyInv, NEW w \in Workers, NEW task, Becomes(w, task),
           worker[w].pc \in NotBusy, task.pc \in NotBusy, UNCHANGED <<ac, dirs, archiveSet, sm>>
    PROVE  BusyInv'
<1>1. ~Busy(w) /\ ~Busy(w)'
  BY DEF Busy, Becomes, NotBusy
<1>2. \A x \in Workers : /\ Busy(x)' => Busy(x) /\ worker'[x].archive = worker[x].archive
                         /\ Busy(x) => Busy(x)' /\ worker'[x].archive = worker[x].archive
  BY <1>1 DEF Busy, Becomes
<1>3. \A a \in Archives : ac'[a] = 1 => \E x \in Workers : Busy(x)' /\ worker'[x].archive = a
  BY <1>2 DEF BusyInv
<1>4. \A x, y \in Workers : Busy(x)' /\ Busy(y)' /\ worker'[x].archive = worker'[y].archive => x = y
  BY <1>2 DEF BusyInv
<1> QED BY <1>2, <1>3, <1>4 DEF BusyInv

\* A worker that gives an archive up.
LEMMA BusyEnds ==
    ASSUME DataInv, BusyInv, NEW w \in Workers, NEW task, Becomes(w, task),
           Busy(w), task.pc \in NotBusy, ac' = [ac EXCEPT ![worker[w].archive] = 0],
           UNCHANGED <<dirs, archiveSet, sm>>
    PROVE  BusyInv'
<1>1. ~Busy(w)'
  BY DEF Busy, Becomes, NotBusy
<1>2. \A x \in Workers : Busy(x)' => x # w /\ Busy(x) /\ worker'[x].archive = worker[x].archive
  BY <1>1 DEF Busy, Becomes
<1>3. \A x \in Workers : Busy(x) /\ x # w => Busy(x)' /\ worker'[x].archive = worker[x].archive
  BY <1>1 DEF Busy, Becomes
<1>4. ASSUME NEW a \in Archives, ac'[a] = 1
      PROVE  \E x \in Workers : Busy(x)' /\ worker'[x].archive = a
  <2>1. a # worker[w].archive /\ ac[a] = 1
    BY <1>4 DEF DataInv
  <2>2. PICK x \in Workers : Busy(x) /\ worker[x].archive = a
    BY <2>1 DEF BusyInv
  <2> QED BY <1>3, <2>1, <2>2
<1>5. ASSUME NEW x \in Workers, Busy(x)'
      PROVE  /\ worker'[x].archive \in archiveSet' \cap dirs' /\ ac'[worker'[x].archive] = 1
             /\ sm' \notin Administering
  <2>1. x # w /\ Busy(x) /\ worker'[x].archive = worker[x].archive
    BY <1>2, <1>5
  <2>2. worker[x].archive # worker[w].archive
    BY <2>1 DEF BusyInv
  <2>3. /\ worker[x].archive \in archiveSet \cap dirs /\ ac[worker[x].archive] = 1
        /\ sm \notin Administering
    BY <2>1 DEF BusyInv
  <2> QED BY <2>1, <2>2, <2>3 DEF DataInv
<1>6. \A x, y \in Workers : Busy(x)' /\ Busy(y)' /\ worker'[x].archive = worker'[y].archive => x = y
  BY <1>2 DEF BusyInv
<1> QED BY <1>4, <1>5, <1>6 DEF BusyInv

\* A worker that goes on with its archive.
LEMMA BusyGoesOn ==
    ASSUME BusyInv, NEW w \in Workers, NEW task, Becomes(w, task),
           Busy(w), task.pc \in {"send", "erase", "unlink"}, task.archive = worker[w].archive,
           UNCHANGED <<ac, dirs, archiveSet, sm>>
    PROVE  BusyInv'
<1>1. \A x \in Workers : (Busy(x)' <=> Busy(x)) /\ worker'[x].archive = worker[x].archive
  BY DEF Busy, Becomes
<1>2. \A a \in Archives : ac'[a] = 1 => \E x \in Workers : Busy(x)' /\ worker'[x].archive = a
  BY <1>1 DEF BusyInv
<1>3. \A x, y \in Workers : Busy(x)' /\ Busy(y)' /\ worker'[x].archive = worker'[y].archive => x = y
  BY <1>1 DEF BusyInv
<1> QED BY <1>1, <1>2, <1>3 DEF BusyInv

LEMMA NothingLost == ASSUME DataInv, UNCHANGED latest PROVE Grows
  BY DEF DataInv, Grows

\* What another worker knows.
LEMMA OthersList ==
    ASSUME DataInv, ProcInv, ListInv, NEW x \in Workers, worker'[x] = worker[x], Grows,
           UNCHANGED gutted,
           Busy(x) => /\ mgr'[worker[x].archive] = mgr[worker[x].archive]
                      /\ sendto'[worker[x].archive] = sendto[worker[x].archive]
    PROVE  ListOf(x)'
<1>1. CASE ~Busy(x)
  BY <1>1 DEF ListOf, Busy
<1>2. CASE Busy(x)
  <2>1. PICK a \in Archives : a = worker[x].archive
    BY <1>2 DEF ProcInv, Busy
  <2>2. PICK v \in Seq(Files) : v = worker[x].list
    BY DEF ProcInv
  <2>3. \A i \in 1 .. Len(v) : v[i] \in Files
    OBVIOUS
  <2>4. \A i \in 1 .. Len(v) : v[i].snapE.gidB \in Nat /\ v[i].snapB.gidB \in Nat
    BY <2>3, FileFacts
  <2>5. latest[a] \in Nat /\ latest'[a] \in Nat /\ latest[a] <= latest'[a]
    BY DEF DataInv, Grows
  <2>6. ListOf(x)
    BY DEF ListInv
  <2>7. worker[x].pc = "send" /\ a \notin gutted => v[1].snapB.gidB <= latest'[a]
    <3>1. SUFFICES ASSUME worker[x].pc = "send", a \notin gutted PROVE v[1].snapB.gidB <= latest'[a]
      OBVIOUS
    <3>2. v # <<>> /\ v[1].snapB.gidB <= latest[a]
      BY <2>1, <2>2, <2>6, <3>1 DEF ListOf
    <3>3. 1 \in 1 .. Len(v)
      BY <3>2
    <3> QED BY <2>4, <2>5, <3>2, <3>3
  <2>8. worker[x].pc \in {"erase", "unlink"} => \A i \in 1 .. Len(v) : v[i].snapE.gidB <= latest'[a]
    <3>1. worker[x].pc \in {"erase", "unlink"} =>
              \A i \in 1 .. Len(v) : v[i].snapE.gidB <= latest[a]
      BY <2>1, <2>2, <2>6 DEF ListOf
    <3> QED BY <2>4, <2>5, <3>1
  <2>9. mgr'[a] = mgr[a] /\ sendto'[a] = sendto[a]
    BY <1>2, <2>1
  <2> QED BY <2>1, <2>2, <2>6, <2>7, <2>8, <2>9 DEF ListOf, Busy
<1> QED BY <1>1, <1>2

\* A worker that is not busy any more knows nothing.
LEMMA ListAside ==
    ASSUME DataInv, ProcInv, ListInv, NEW w \in Workers, NEW task, Becomes(w, task),
           task.pc \in NotBusy, Grows, UNCHANGED <<mgr, sendto, gutted>>
    PROVE  ListInv'
<1>1. ListOf(w)'
  BY DEF ListOf, Busy, Becomes, NotBusy
<1>2. ASSUME NEW x \in Workers, x # w
      PROVE  ListOf(x)'
  <2>1. worker'[x] = worker[x]
    BY <1>2 DEF Becomes
  <2> QED BY <2>1, OthersList
<1> QED BY <1>1, <1>2 DEF ListInv

\* Archives that are not those of the worker stay with their tasks, and so does
\* its own when the task goes on or is put somewhere.
LEMMA StillScheduled ==
    ASSUME NEW w \in Workers, NEW task, Becomes(w, task), NEW a, Scheduled(a),
           a \in queue \cup err \cup cut =>
               a \in queue' \cup err' \cup cut' \/ (a = task.archive /\ task.pc # "idle"),
           \/ worker[w].pc = "idle" \/ a # worker[w].archive
           \/ task.pc # "idle" /\ task.archive = a
           \/ a \in queue' \cup err' \cup cut'
    PROVE  Scheduled(a)'
<1>1. CASE task.pc # "idle" /\ a = task.archive
  BY <1>1 DEF Scheduled, Becomes
<1>2. CASE a \in queue' \cup err' \cup cut'
  BY <1>2 DEF Scheduled
<1>3. CASE ~(task.pc # "idle" /\ a = task.archive) /\ a \notin queue' \cup err' \cup cut'
  <2>1. PICK x \in Workers : worker[x].pc # "idle" /\ worker[x].archive = a
    BY <1>3 DEF Scheduled
  <2>2. x # w
    BY <1>3, <2>1
  <2>3. worker'[x] = worker[x]
    BY <2>2 DEF Becomes
  <2> QED BY <2>1, <2>3 DEF Scheduled
<1> QED BY <1>1, <1>2, <1>3

\* When the worker drops a task that is to be kept, another one is busy with it.
LEMMA ScheduleFrame ==
    ASSUME DataInv, ScheduleInv, NEW w \in Workers, NEW task, Becomes(w, task),
           UNCHANGED <<sm, recvMgr, server, archiveSet>>,
           \A a \in Archives : mgr'[a] \subseteq mgr[a],
           \A a \in queue \cup err \cup cut :
                a \in queue' \cup err' \cup cut' \/ (a = task.archive /\ task.pc # "idle"),
           \/ worker[w].pc = "idle"
           \/ task.pc # "idle" /\ task.archive = worker[w].archive
           \/ worker[w].archive \in queue' \cup err' \cup cut'
           \/ mgr'[worker[w].archive] = {}
    PROVE  ScheduleInv'
<1> SUFFICES ASSUME ToSchedule',
                    NEW a \in archiveSet', mgr'[a] # {}
             PROVE  Scheduled(a)'
  BY DEF ScheduleInv
<1>1. a \in Archives /\ a \in archiveSet /\ mgr[a] # {} /\ ToSchedule
  BY DEF DataInv, ToSchedule
<1>2. Scheduled(a)
  BY <1>1 DEF ScheduleInv
<1> QED BY <1>2, StillScheduled

\* What keeps the tasks keeps the archives scheduled.
LEMMA ScheduleKept ==
    ASSUME ScheduleInv, UNCHANGED <<worker, archiveSet, mgr>>,
           queue \cup err \cup cut \subseteq queue' \cup err' \cup cut',
           ToSchedule' => ToSchedule
    PROVE  ScheduleInv'
<1>1. ASSUME NEW a, Scheduled(a) PROVE Scheduled(a)'
  BY <1>1 DEF Scheduled
<1> QED BY <1>1 DEF ScheduleInv

\* The files that a worker unlinks.
LEMMA StillUnlinking ==
    ASSUME NEW w \in Workers, NEW task, Becomes(w, task), NEW a, NEW d, Unlinking(d, a),
           worker[w].pc # "unlink" \/ worker[w].archive # a
    PROVE  Unlinking(d, a)'
<1>1. PICK x \in Workers : /\ worker[x].archive = a /\ worker[x].pc = "unlink"
                           /\ \E i \in 1 .. Len(worker[x].list) : worker[x].list[i] = d
  BY DEF Unlinking
<1>2. worker'[x] = worker[x]
  BY <1>1 DEF Becomes
<1> QED BY <1>1, <1>2 DEF Unlinking

LEMMA MatchFrame ==
    ASSUME MatchInv, NEW w \in Workers, NEW task, Becomes(w, task),
           worker[w].pc # "unlink" \/ worker[w].list = <<>>,
           UNCHANGED <<archiveSet, dirs, gutted, admin, mgr, sendto>>
    PROVE  MatchInv'
<1> SUFFICES ASSUME NEW a \in archiveSet \cap dirs, NEW d \in sendto[a], Unlinking(d, a)
             PROVE  Unlinking(d, a)'
  BY DEF MatchInv
<1>1. PICK x \in Workers : /\ worker[x].archive = a /\ worker[x].pc = "unlink"
                           /\ \E i \in 1 .. Len(worker[x].list) : worker[x].list[i] = d
  BY DEF Unlinking
<1>2. x # w
  BY <1>1
<1>3. worker'[x] = worker[x]
  BY <1>2 DEF Becomes
<1> QED BY <1>1, <1>3 DEF Unlinking

\* The threads, when a worker goes on.
LEMMA ProcTransfer == ASSUME IInv, NEW w \in Workers, Transfer(w) PROVE ProcInv'
<1>0. /\ DataInv /\ ProcInv /\ StateInv /\ ArchiveInv /\ BusyInv /\ ListInv /\ NoGapInv
      /\ ScheduleInv /\ MatchInv
  BY DEF IInv
<1>1. CASE Pop(w)
  <2>1. Pops(w)
    BY <1>0, <1>1, PopEffect
  <2>2. PICK a \in queue : /\ Becomes(w, [pc |-> "popped", archive |-> a, list |-> <<>>])
                           /\ queue' = queue \ {a}
    BY <2>1 DEF Pops
  <2>3. UNCHANGED <<server, stopper, admin>> /\ queue' \subseteq Archives /\ a \in Archives
    BY <1>0, <2>1, <2>2 DEF Pops, steady, ProcInv
  <2> QED BY <1>0, <2>2, <2>3, ProcFrame
<1>2. CASE SendNotNow(w)
  <2>1. Puts(w)
    BY <1>0, <1>2, NotNowEffect
  <2>2. Becomes(w, At(w, "push", worker[w].list))
    BY <2>1 DEF Puts
  <2>3. UNCHANGED <<server, stopper, admin>> /\ queue' \subseteq Archives
    BY <1>0, <2>1 DEF Puts, steady, ProcInv
  <2>4. At(w, "push", worker[w].list).pc # "idle" =>
            At(w, "push", worker[w].list).archive \in Archives
    BY <1>0, <2>1 DEF Puts, ProcInv, At, NoTask
  <2> QED BY <1>0, <2>2, <2>3, <2>4, ProcFrame
<1>3. CASE DontSend(w)
  <2>1. Drops(w)
    BY <1>0, <1>3, DontSendEffect
  <2>2. Becomes(w, NoTask)
    BY <2>1 DEF Drops
  <2>3. UNCHANGED <<server, stopper, admin>> /\ queue' \subseteq Archives
    BY <1>0, <2>1 DEF Drops, steady, ProcInv
  <2>4. NoTask.pc # "idle" => NoTask.archive \in Archives
    BY <1>0, <2>1 DEF Drops, ProcInv, At, NoTask
  <2> QED BY <1>0, <2>2, <2>3, <2>4, ProcFrame
<1>4. CASE SendBegin(w)
  <2>1. Sends(w)
    BY <1>0, <1>4, SendEffect
  <2>2. PICK v \in Seq(Files) : Becomes(w, At(w, "send", v))
    BY <2>1 DEF Sends
  <2>3. /\ UNCHANGED <<server, stopper, admin>> /\ queue' \subseteq Archives
        /\ At(w, "send", v).archive \in Archives
    BY <1>0, <2>1 DEF Sends, steady, ProcInv, At
  <2> QED BY <1>0, <2>2, <2>3, ProcFrame
<1>5. CASE SendAnswered(w)
  <2>1. IsAnswered(w)
    BY <1>0, <1>5, AnsweredEffect
  <2>2. Becomes(w, At(w, "erase", worker[w].list))
    BY <2>1 DEF IsAnswered
  <2>3. UNCHANGED <<server, stopper, admin>> /\ queue' \subseteq Archives
    BY <1>0, <2>1 DEF IsAnswered, steady, ProcInv
  <2>4. At(w, "erase", worker[w].list).pc # "idle" =>
            At(w, "erase", worker[w].list).archive \in Archives
    BY <1>0, <2>1 DEF IsAnswered, ProcInv, At, NoTask
  <2> QED BY <1>0, <2>2, <2>3, <2>4, ProcFrame
<1>6. CASE SendLater(w)
  <2>1. Leaves(w, "push") /\ Grows
    BY <1>0, <1>6, LaterEffect
  <2>2. Becomes(w, At(w, "push", <<>>))
    BY <2>1 DEF Leaves
  <2>3. UNCHANGED <<server, stopper, admin>> /\ queue' \subseteq Archives
    BY <1>0, <2>1 DEF Leaves, steady, ProcInv, Busy
  <2>4. At(w, "push", <<>>).pc # "idle" => At(w, "push", <<>>).archive \in Archives
    BY <1>0, <2>1 DEF Leaves, ProcInv, At, NoTask, Busy
  <2> QED BY <1>0, <2>2, <2>3, <2>4, ProcFrame
<1>7. CASE SendRefused(w)
  <2>1. Leaves(w, "error") /\ UNCHANGED latest
    BY <1>0, <1>7, RefusedEffect
  <2>2. Becomes(w, At(w, "error", <<>>))
    BY <2>1 DEF Leaves
  <2>3. UNCHANGED <<server, stopper, admin>> /\ queue' \subseteq Archives
    BY <1>0, <2>1 DEF Leaves, steady, ProcInv, Busy
  <2>4. At(w, "error", <<>>).pc # "idle" => At(w, "error", <<>>).archive \in Archives
    BY <1>0, <2>1 DEF Leaves, ProcInv, At, NoTask, Busy
  <2> QED BY <1>0, <2>2, <2>3, <2>4, ProcFrame
<1>8. CASE SendCutOff(w)
  <2>1. IsCutOff(w)
    BY <1>0, <1>8, CutOffEffect
  <2>2. Becomes(w, NoTask)
    BY <2>1 DEF IsCutOff
  <2>3. UNCHANGED <<server, stopper, admin>> /\ queue' \subseteq Archives
    BY <1>0, <2>1 DEF IsCutOff, steady, ProcInv
  <2>4. NoTask.pc # "idle" => NoTask.archive \in Archives
    BY <1>0, <2>1 DEF IsCutOff, ProcInv, At, NoTask
  <2> QED BY <1>0, <2>2, <2>3, <2>4, ProcFrame
<1>9. CASE SendErase(w)
  <2>1. Erases(w)
    BY <1>0, <1>9, EraseEffect
  <2>2. Becomes(w, At(w, "unlink", worker[w].list))
    BY <2>1 DEF Erases
  <2>3. UNCHANGED <<server, stopper, admin>> /\ queue' \subseteq Archives
    BY <1>0, <2>1 DEF Erases, steady, ProcInv
  <2>4. At(w, "unlink", worker[w].list).pc # "idle" =>
            At(w, "unlink", worker[w].list).archive \in Archives
    BY <1>0, <2>1 DEF Erases, ProcInv, At, NoTask
  <2> QED BY <1>0, <2>2, <2>3, <2>4, ProcFrame
<1>10. CASE SendUnlink(w)
  <2>1. Unlinks(w)
    BY <1>0, <1>10, UnlinkEffect
  <2>2. Becomes(w, At(w, "unlink", Tail(worker[w].list)))
    BY <2>1 DEF Unlinks
  <2>3. UNCHANGED <<server, stopper, admin>> /\ queue' \subseteq Archives
    BY <1>0, <2>1 DEF Unlinks, steady, ProcInv
  <2>4. At(w, "unlink", Tail(worker[w].list)).pc # "idle" =>
            At(w, "unlink", Tail(worker[w].list)).archive \in Archives
    BY <1>0, <2>1 DEF Unlinks, ProcInv, At, NoTask
  <2> QED BY <1>0, <2>2, <2>3, <2>4, ProcFrame
<1>11. CASE SendEnd(w)
  <2>1. Leaves(w, "push") /\ UNCHANGED latest /\ worker[w].pc = "unlink" /\ worker[w].list = <<>>
    BY <1>0, <1>11, EndEffect
  <2>2. Becomes(w, At(w, "push", <<>>))
    BY <2>1 DEF Leaves
  <2>3. UNCHANGED <<server, stopper, admin>> /\ queue' \subseteq Archives
    BY <1>0, <2>1 DEF Leaves, steady, ProcInv, Busy
  <2>4. At(w, "push", <<>>).pc # "idle" => At(w, "push", <<>>).archive \in Archives
    BY <1>0, <2>1 DEF Leaves, ProcInv, At, NoTask, Busy
  <2> QED BY <1>0, <2>2, <2>3, <2>4, ProcFrame
<1>12. CASE PushAgain(w)
  <2>1. PutsAgain(w)
    BY <1>0, <1>12, PushEffect
  <2>2. Becomes(w, NoTask)
    BY <2>1 DEF PutsAgain
  <2>3. UNCHANGED <<server, stopper, admin>> /\ queue' \subseteq Archives
    BY <1>0, <2>1 DEF PutsAgain, steady, ProcInv
  <2>4. NoTask.pc # "idle" => NoTask.archive \in Archives
    BY <1>0, <2>1 DEF PutsAgain, ProcInv, At, NoTask
  <2> QED BY <1>0, <2>2, <2>3, <2>4, ProcFrame
<1>13. CASE SetError(w)
  <2>1. Complains(w)
    BY <1>0, <1>13, ErrorEffect
  <2>2. Becomes(w, NoTask)
    BY <2>1 DEF Complains
  <2>3. UNCHANGED <<server, stopper, admin>> /\ queue' \subseteq Archives
    BY <1>0, <2>1 DEF Complains, steady, ProcInv
  <2>4. NoTask.pc # "idle" => NoTask.archive \in Archives
    BY <1>0, <2>1 DEF Complains, ProcInv, At, NoTask
  <2> QED BY <1>0, <2>2, <2>3, <2>4, ProcFrame
<1> QED
  BY <1>1, <1>2, <1>3, <1>4, <1>5, <1>6, <1>7, <1>8, <1>9, <1>10, <1>11, <1>12, <1>13 DEF Transfer

\* One worker for an archive.
LEMMA BusyTransfer == ASSUME IInv, NEW w \in Workers, Transfer(w) PROVE BusyInv'
<1>0. /\ DataInv /\ ProcInv /\ StateInv /\ ArchiveInv /\ BusyInv /\ ListInv /\ NoGapInv
      /\ ScheduleInv /\ MatchInv
  BY DEF IInv
<1>1. CASE Pop(w)
  <2>1. Pops(w)
    BY <1>0, <1>1, PopEffect
  <2>2. PICK a \in queue : Becomes(w, [pc |-> "popped", archive |-> a, list |-> <<>>])
    BY <2>1 DEF Pops
  <2>3. worker[w].pc \in NotBusy /\ [pc |-> "popped", archive |-> a, list |-> <<>>].pc \in NotBusy
    BY <2>1 DEF Pops, NotBusy
  <2>4. UNCHANGED <<ac, dirs, archiveSet, sm>>
    BY <2>1 DEF Pops, steady
  <2> QED BY <1>0, <2>2, <2>3, <2>4, BusyAside
<1>2. CASE SendNotNow(w)
  <2>1. Puts(w)
    BY <1>0, <1>2, NotNowEffect
  <2>2. Becomes(w, At(w, "push", worker[w].list))
    BY <2>1 DEF Puts
  <2>3. /\ worker[w].pc \in NotBusy /\ At(w, "push", worker[w].list).pc \in NotBusy
        /\ UNCHANGED <<ac, dirs, archiveSet, sm>>
    BY <2>1 DEF Puts, steady, At, NoTask, NotBusy, Busy
  <2> QED BY <1>0, <2>2, <2>3, BusyAside
<1>3. CASE DontSend(w)
  <2>1. Drops(w)
    BY <1>0, <1>3, DontSendEffect
  <2>2. Becomes(w, NoTask)
    BY <2>1 DEF Drops
  <2>3. worker[w].pc \in NotBusy /\ NoTask.pc \in NotBusy /\ UNCHANGED <<ac, dirs, archiveSet, sm>>
    BY <2>1 DEF Drops, steady, At, NoTask, NotBusy, Busy
  <2> QED BY <1>0, <2>2, <2>3, BusyAside
<1>4. CASE SendBegin(w)
  <2>1. Sends(w)
    BY <1>0, <1>4, SendEffect
  <2>2. PICK v \in Seq(Files) : Becomes(w, At(w, "send", v))
    BY <2>1 DEF Sends
  <2>3. PICK a \in Archives : a = worker[w].archive
    BY <1>0, <2>1 DEF Sends, ProcInv
  <2>4. /\ ac[a] = 0 /\ ac' = [ac EXCEPT ![a] = 1] /\ UNCHANGED <<dirs, archiveSet, sm>>
        /\ a \in archiveSet \cap dirs /\ ~Busy(w) /\ sm \notin Administering
    BY <1>0, <2>1, <2>3 DEF Sends, steady, ArchiveInv, Busy
  <2>5. Busy(w)' /\ worker'[w].archive = a
    BY <2>2, <2>3 DEF Becomes, At, Busy
  <2>6. \A x \in Workers : x # w => (Busy(x)' <=> Busy(x)) /\ worker'[x].archive = worker[x].archive
    BY <2>2 DEF Becomes, Busy
  <2>7. \A x \in Workers : Busy(x) => worker[x].archive # a /\ worker[x].archive \in Archives
    BY <1>0, <2>4 DEF BusyInv, ProcInv, Busy
  <2>8. ASSUME NEW b \in Archives, ac'[b] = 1
        PROVE  \E x \in Workers : Busy(x)' /\ worker'[x].archive = b
    <3>1. CASE b = a
      BY <2>5, <3>1
    <3>2. CASE b # a
      <4>1. ac[b] = 1
        BY <1>0, <2>4, <2>8, <3>2 DEF DataInv
      <4>2. PICK x \in Workers : Busy(x) /\ worker[x].archive = b
        BY <1>0, <4>1 DEF BusyInv
      <4> QED BY <2>4, <2>6, <4>2
    <3> QED BY <3>1, <3>2
  <2>9. ASSUME NEW x \in Workers, Busy(x)'
        PROVE  /\ worker'[x].archive \in archiveSet' \cap dirs' /\ ac'[worker'[x].archive] = 1
               /\ sm' \notin Administering
    <3>1. CASE x = w
      BY <1>0, <2>4, <2>5, <3>1 DEF DataInv
    <3>2. CASE x # w
      <4>1. Busy(x) /\ worker'[x].archive = worker[x].archive
        BY <2>6, <2>9, <3>2
      <4>2. worker[x].archive \in archiveSet \cap dirs /\ ac[worker[x].archive] = 1
        BY <1>0, <4>1 DEF BusyInv
      <4> QED BY <1>0, <2>4, <2>7, <4>1, <4>2 DEF DataInv
    <3> QED BY <3>1, <3>2
  <2>10. \A x, y \in Workers : Busy(x)' /\ Busy(y)' /\ worker'[x].archive = worker'[y].archive =>
             x = y
    BY <1>0, <2>5, <2>6, <2>7 DEF BusyInv
  <2> QED BY <2>8, <2>9, <2>10 DEF BusyInv
<1>5. CASE SendAnswered(w)
  <2>1. IsAnswered(w)
    BY <1>0, <1>5, AnsweredEffect
  <2>2. Becomes(w, At(w, "erase", worker[w].list))
    BY <2>1 DEF IsAnswered
  <2>3. /\ Busy(w) /\ At(w, "erase", worker[w].list).pc \in {"send", "erase", "unlink"}
        /\ At(w, "erase", worker[w].list).archive = worker[w].archive /\ UNCHANGED <<ac, dirs, archiveSet, sm>>
    BY <2>1 DEF IsAnswered, steady, At, NoTask, NotBusy, Busy
  <2> QED BY <1>0, <2>2, <2>3, BusyGoesOn
<1>6. CASE SendLater(w)
  <2>1. Leaves(w, "push") /\ Grows
    BY <1>0, <1>6, LaterEffect
  <2>2. Becomes(w, At(w, "push", <<>>))
    BY <2>1 DEF Leaves
  <2>3. /\ Busy(w) /\ At(w, "push", <<>>).pc \in NotBusy /\ UNCHANGED <<dirs, archiveSet, sm>>
        /\ ac' = [ac EXCEPT ![worker[w].archive] = 0]
    BY <2>1 DEF Leaves, steady, At, NoTask, NotBusy, Busy
  <2> QED BY <1>0, <2>2, <2>3, BusyEnds
<1>7. CASE SendRefused(w)
  <2>1. Leaves(w, "error") /\ UNCHANGED latest
    BY <1>0, <1>7, RefusedEffect
  <2>2. Becomes(w, At(w, "error", <<>>))
    BY <2>1 DEF Leaves
  <2>3. /\ Busy(w) /\ At(w, "error", <<>>).pc \in NotBusy /\ UNCHANGED <<dirs, archiveSet, sm>>
        /\ ac' = [ac EXCEPT ![worker[w].archive] = 0]
    BY <2>1 DEF Leaves, steady, At, NoTask, NotBusy, Busy
  <2> QED BY <1>0, <2>2, <2>3, BusyEnds
<1>8. CASE SendCutOff(w)
  <2>1. IsCutOff(w)
    BY <1>0, <1>8, CutOffEffect
  <2>2. Becomes(w, NoTask)
    BY <2>1 DEF IsCutOff
  <2>3. /\ Busy(w) /\ NoTask.pc \in NotBusy /\ UNCHANGED <<dirs, archiveSet, sm>>
        /\ ac' = [ac EXCEPT ![worker[w].archive] = 0]
    BY <2>1 DEF IsCutOff, steady, At, NoTask, NotBusy, Busy
  <2> QED BY <1>0, <2>2, <2>3, BusyEnds
<1>9. CASE SendErase(w)
  <2>1. Erases(w)
    BY <1>0, <1>9, EraseEffect
  <2>2. Becomes(w, At(w, "unlink", worker[w].list))
    BY <2>1 DEF Erases
  <2>3. /\ Busy(w) /\ At(w, "unlink", worker[w].list).pc \in {"send", "erase", "unlink"}
        /\ At(w, "unlink", worker[w].list).archive = worker[w].archive /\ UNCHANGED <<ac, dirs, archiveSet, sm>>
    BY <2>1 DEF Erases, steady, At, NoTask, NotBusy, Busy
  <2> QED BY <1>0, <2>2, <2>3, BusyGoesOn
<1>10. CASE SendUnlink(w)
  <2>1. Unlinks(w)
    BY <1>0, <1>10, UnlinkEffect
  <2>2. Becomes(w, At(w, "unlink", Tail(worker[w].list)))
    BY <2>1 DEF Unlinks
  <2>3. /\ Busy(w) /\ At(w, "unlink", Tail(worker[w].list)).pc \in {"send", "erase", "unlink"}
        /\ At(w, "unlink", Tail(worker[w].list)).archive = worker[w].archive /\ UNCHANGED <<ac, dirs, archiveSet, sm>>
    BY <2>1 DEF Unlinks, steady, At, NoTask, NotBusy, Busy
  <2> QED BY <1>0, <2>2, <2>3, BusyGoesOn
<1>11. CASE SendEnd(w)
  <2>1. Leaves(w, "push") /\ UNCHANGED latest /\ worker[w].pc = "unlink" /\ worker[w].list = <<>>
    BY <1>0, <1>11, EndEffect
  <2>2. Becomes(w, At(w, "push", <<>>))
    BY <2>1 DEF Leaves
  <2>3. /\ Busy(w) /\ At(w, "push", <<>>).pc \in NotBusy /\ UNCHANGED <<dirs, archiveSet, sm>>
        /\ ac' = [ac EXCEPT ![worker[w].archive] = 0]
    BY <2>1 DEF Leaves, steady, At, NoTask, NotBusy, Busy
  <2> QED BY <1>0, <2>2, <2>3, BusyEnds
<1>12. CASE PushAgain(w)
  <2>1. PutsAgain(w)
    BY <1>0, <1>12, PushEffect
  <2>2. Becomes(w, NoTask)
    BY <2>1 DEF PutsAgain
  <2>3. worker[w].pc \in NotBusy /\ NoTask.pc \in NotBusy /\ UNCHANGED <<ac, dirs, archiveSet, sm>>
    BY <2>1 DEF PutsAgain, steady, At, NoTask, NotBusy, Busy
  <2> QED BY <1>0, <2>2, <2>3, BusyAside
<1>13. CASE SetError(w)
  <2>1. Complains(w)
    BY <1>0, <1>13, ErrorEffect
  <2>2. Becomes(w, NoTask)
    BY <2>1 DEF Complains
  <2>3. worker[w].pc \in NotBusy /\ NoTask.pc \in NotBusy /\ UNCHANGED <<ac, dirs, archiveSet, sm>>
    BY <2>1 DEF Complains, steady, At, NoTask, NotBusy, Busy
  <2> QED BY <1>0, <2>2, <2>3, BusyAside
<1> QED
  BY <1>1, <1>2, <1>3, <1>4, <1>5, <1>6, <1>7, <1>8, <1>9, <1>10, <1>11, <1>12, <1>13 DEF Transfer

\* The first diff of a list begins where the archive is, or before.
LEMMA FirstIsApplicable ==
    ASSUME DataInv, ArchiveInv, NoGapInv, MatchInv, ListInv,
           NEW a \in Archives, NEW c \in mgr[a], a \notin gutted,
           \A d \in mgr[a] : c.snapB.gidB <= d.snapB.gidB
    PROVE  c.snapB.gidB <= latest[a]
<1>1. SUFFICES ASSUME ~(c.snapB.gidB <= latest[a]) PROVE FALSE
  OBVIOUS
<1>2. c \in Files /\ latest[a] \in Nat /\ a \in archiveSet \cap dirs /\ sendto[a] \subseteq Files
  BY DEF DataInv, ArchiveInv
<1>3. c.snapB.gidB \in Nat
  BY <1>2, FileFacts
<1>4. latest[a] \in latest[a] .. c.snapB.gidB - 1
  BY <1>1, <1>2, <1>3
<1>5. c \in sendto[a]
  BY <1>2 DEF MatchInv
<1>6. PICK d \in sendto[a] : Covers(d, latest[a])
  BY <1>2, <1>4, <1>5 DEF NoGapInv
<1>7. /\ d.snapB.gidB \in Nat /\ d.snapB.gidB <= latest[a]
      /\ d.snapE.gidB \in Nat /\ ~(d.snapE.gidB <= latest[a])
  BY <1>2, <1>6, FileFacts DEF Covers
<1>8. ~Unlinking(d, a)
  BY <1>7 DEF Unlinking, ListInv, ListOf
<1>9. ~(admin.pc = "files" /\ admin.archive = a)
  BY DEF ArchiveInv
<1>10. d \in mgr[a]
  BY <1>2, <1>8, <1>9 DEF MatchInv
<1>11. c.snapB.gidB <= d.snapB.gidB
  BY <1>10
<1> QED BY <1>1, <1>2, <1>3, <1>7, <1>11

\* What the workers know.
LEMMA ListTransfer == ASSUME IInv, NEW w \in Workers, Transfer(w) PROVE ListInv'
<1>0. /\ DataInv /\ ProcInv /\ StateInv /\ ArchiveInv /\ BusyInv /\ ListInv /\ NoGapInv
      /\ ScheduleInv /\ MatchInv
  BY DEF IInv
<1>1. CASE Pop(w)
  <2>1. Pops(w)
    BY <1>0, <1>1, PopEffect
  <2>2. PICK a \in queue : Becomes(w, [pc |-> "popped", archive |-> a, list |-> <<>>])
    BY <2>1 DEF Pops
  <2>3. /\ Grows /\ UNCHANGED <<mgr, sendto, gutted>>
        /\ [pc |-> "popped", archive |-> a, list |-> <<>>].pc \in NotBusy
    BY <1>0, <2>1, NothingLost DEF Pops, steady, NotBusy
  <2> QED BY <1>0, <2>2, <2>3, ListAside
<1>2. CASE SendNotNow(w)
  <2>1. Puts(w)
    BY <1>0, <1>2, NotNowEffect
  <2>2. Becomes(w, At(w, "push", worker[w].list))
    BY <2>1 DEF Puts
  <2>3. Grows /\ UNCHANGED <<mgr, sendto, gutted>>
    BY <1>0, <2>1, NothingLost DEF Puts, steady
  <2>4. At(w, "push", worker[w].list).pc \in NotBusy
    BY DEF At, NoTask, NotBusy
  <2> QED BY <1>0, <2>2, <2>3, <2>4, ListAside
<1>3. CASE DontSend(w)
  <2>1. Drops(w)
    BY <1>0, <1>3, DontSendEffect
  <2>2. Becomes(w, NoTask)
    BY <2>1 DEF Drops
  <2>3. Grows /\ UNCHANGED <<mgr, sendto, gutted>>
    BY <1>0, <2>1, NothingLost DEF Drops, steady
  <2>4. NoTask.pc \in NotBusy
    BY DEF At, NoTask, NotBusy
  <2> QED BY <1>0, <2>2, <2>3, <2>4, ListAside
<1>4. CASE SendBegin(w)
  <2>1. Sends(w)
    BY <1>0, <1>4, SendEffect
  <2>2. PICK v \in Seq(Files) : /\ Becomes(w, At(w, "send", v))
                                /\ v # <<>> /\ Increasing(v)
                                /\ \A i \in 1 .. Len(v) : v[i] \in mgr[worker[w].archive]
                                /\ \A d \in mgr[worker[w].archive] : v[1].snapB.gidB <= d.snapB.gidB
    BY <2>1 DEF Sends
  <2>3. PICK a \in Archives : a = worker[w].archive
    BY <1>0, <2>1 DEF Sends, ProcInv
  <2>4. UNCHANGED <<mgr, sendto, latest, gutted>> /\ Grows
    BY <1>0, <2>1, NothingLost DEF Sends, steady
  <2>5. a \notin gutted => v[1].snapB.gidB <= latest[a]
    <3>1. 1 \in 1 .. Len(v) /\ v[1] \in mgr[a]
      BY <2>2, <2>3
    <3> QED BY <1>0, <2>2, <2>3, <3>1, FirstIsApplicable
  <2>6. worker'[w] = [pc |-> "send", archive |-> a, list |-> v]
    BY <2>2, <2>3 DEF Becomes, At
  <2>7. ListOf(w)'
    BY <2>2, <2>3, <2>4, <2>5, <2>6 DEF ListOf, Busy
  <2>8. ASSUME NEW x \in Workers, x # w
        PROVE  ListOf(x)'
    <3>1. worker'[x] = worker[x]
      BY <2>2, <2>8 DEF Becomes
    <3> QED BY <1>0, <2>4, <3>1, OthersList
  <2> QED BY <2>7, <2>8 DEF ListInv
<1>5. CASE SendAnswered(w)
  <2>1. IsAnswered(w)
    BY <1>0, <1>5, AnsweredEffect
  <2>2. Becomes(w, At(w, "erase", worker[w].list))
    BY <2>1 DEF IsAnswered
  <2>3. PICK a \in Archives : a = worker[w].archive
    BY <1>0, <2>1 DEF IsAnswered, ProcInv
  <2>4. PICK v \in Seq(Files) : v = worker[w].list
    BY <1>0 DEF ProcInv
  <2>5. UNCHANGED <<mgr, sendto, gutted>> /\ Grows
    BY <2>1 DEF IsAnswered, steady
  <2>6. worker'[w] = [pc |-> "erase", archive |-> a, list |-> v]
    BY <2>2, <2>3, <2>4 DEF Becomes, At
  <2>7. \A i \in 1 .. Len(v) : v[i].snapE.gidB <= latest'[a]
    BY <2>1, <2>3, <2>4 DEF IsAnswered
  <2>8. Increasing(v) /\ v # <<>> /\ \A i \in 1 .. Len(v) : v[i] \in mgr[a]
    BY <1>0, <2>1, <2>3, <2>4 DEF IsAnswered, ListInv, ListOf, Busy
  <2>9. ListOf(w)'
    BY <2>5, <2>6, <2>7, <2>8 DEF ListOf, Busy
  <2>10. ASSUME NEW x \in Workers, x # w
        PROVE  ListOf(x)'
    <3>1. worker'[x] = worker[x]
      BY <2>2, <2>10 DEF Becomes
    <3>2. Busy(x) => worker[x].archive # a /\ worker[x].archive \in Archives
      BY <1>0, <2>1, <2>3, <2>10 DEF BusyInv, Busy, ProcInv, IsAnswered
    <3>3. Busy(x) => /\ mgr'[worker[x].archive] = mgr[worker[x].archive]
                     /\ sendto'[worker[x].archive] = sendto[worker[x].archive]
      BY <1>0, <2>5, <3>2 DEF DataInv
    <3> QED BY <1>0, <2>5, <3>1, <3>3, OthersList
  <2> QED BY <2>9, <2>10 DEF ListInv
<1>6. CASE SendLater(w)
  <2>1. Leaves(w, "push") /\ Grows
    BY <1>0, <1>6, LaterEffect
  <2>2. Becomes(w, At(w, "push", <<>>))
    BY <2>1 DEF Leaves
  <2>3. Grows /\ UNCHANGED <<mgr, sendto, gutted>>
    BY <2>1 DEF Leaves, steady
  <2>4. At(w, "push", <<>>).pc \in NotBusy
    BY DEF At, NoTask, NotBusy
  <2> QED BY <1>0, <2>2, <2>3, <2>4, ListAside
<1>7. CASE SendRefused(w)
  <2>1. Leaves(w, "error") /\ UNCHANGED latest
    BY <1>0, <1>7, RefusedEffect
  <2>2. Becomes(w, At(w, "error", <<>>))
    BY <2>1 DEF Leaves
  <2>3. Grows /\ UNCHANGED <<mgr, sendto, gutted>>
    BY <1>0, <2>1, NothingLost DEF Leaves, steady
  <2>4. At(w, "error", <<>>).pc \in NotBusy
    BY DEF At, NoTask, NotBusy
  <2> QED BY <1>0, <2>2, <2>3, <2>4, ListAside
<1>8. CASE SendCutOff(w)
  <2>1. IsCutOff(w)
    BY <1>0, <1>8, CutOffEffect
  <2>2. Becomes(w, NoTask)
    BY <2>1 DEF IsCutOff
  <2>3. Grows /\ UNCHANGED <<mgr, sendto, gutted>>
    BY <1>0, <2>1, NothingLost DEF IsCutOff, steady
  <2>4. NoTask.pc \in NotBusy
    BY DEF At, NoTask, NotBusy
  <2> QED BY <1>0, <2>2, <2>3, <2>4, ListAside
<1>9. CASE SendErase(w)
  <2>1. Erases(w)
    BY <1>0, <1>9, EraseEffect
  <2>2. Becomes(w, At(w, "unlink", worker[w].list))
    BY <2>1 DEF Erases
  <2>3. PICK a \in Archives : a = worker[w].archive
    BY <1>0, <2>1 DEF Erases, ProcInv
  <2>4. PICK v \in Seq(Files) : v = worker[w].list
    BY <1>0 DEF ProcInv
  <2>5. mgr' = [mgr EXCEPT ![a] = @ \ Listed(w)] /\ UNCHANGED <<sendto, latest, gutted>> /\ Grows
    BY <1>0, <2>1, <2>3, NothingLost DEF Erases, steady
  <2>6. worker'[w] = [pc |-> "unlink", archive |-> a, list |-> v]
    BY <2>2, <2>3, <2>4 DEF Becomes, At
  <2>7. \A i \in 1 .. Len(v) : v[i] \in Listed(w)
    BY <2>4 DEF Listed
  <2>8. /\ Increasing(v) /\ \A i \in 1 .. Len(v) : v[i] \in mgr[a]
        /\ \A i \in 1 .. Len(v) : v[i].snapE.gidB <= latest[a]
    BY <1>0, <2>1, <2>3, <2>4 DEF Erases, ListInv, ListOf, Busy
  <2>9. a \in dirs /\ a \in archiveSet
    BY <1>0, <2>1, <2>3 DEF Erases, BusyInv, Busy
  <2>10. \A i \in 1 .. Len(v) : v[i] \in sendto[a]
    BY <1>0, <2>8, <2>9 DEF MatchInv
  <2>11. \A i \in 1 .. Len(v) : v[i] \notin mgr'[a]
    BY <1>0, <2>5, <2>7 DEF DataInv
  <2>12. ListOf(w)'
    BY <2>5, <2>6, <2>8, <2>10, <2>11 DEF ListOf, Busy
  <2>13. ASSUME NEW x \in Workers, x # w
        PROVE  ListOf(x)'
    <3>1. worker'[x] = worker[x]
      BY <2>2, <2>13 DEF Becomes
    <3>2. Busy(x) => worker[x].archive # a /\ worker[x].archive \in Archives
      BY <1>0, <2>1, <2>3, <2>13 DEF BusyInv, Busy, ProcInv, Erases
    <3>3. Busy(x) => /\ mgr'[worker[x].archive] = mgr[worker[x].archive]
                     /\ sendto'[worker[x].archive] = sendto[worker[x].archive]
      BY <1>0, <2>5, <3>2 DEF DataInv
    <3> QED BY <1>0, <2>5, <3>1, <3>3, OthersList
  <2> QED BY <2>12, <2>13 DEF ListInv
<1>10. CASE SendUnlink(w)
  <2>1. Unlinks(w)
    BY <1>0, <1>10, UnlinkEffect
  <2>2. Becomes(w, At(w, "unlink", Tail(worker[w].list)))
    BY <2>1 DEF Unlinks
  <2>3. PICK a \in Archives : a = worker[w].archive
    BY <1>0, <2>1 DEF Unlinks, ProcInv
  <2>4. PICK v \in Seq(Files) : v = worker[w].list
    BY <1>0 DEF ProcInv
  <2>5. sendto' = [sendto EXCEPT ![a] = @ \ {v[1]}] /\ UNCHANGED <<mgr, latest, gutted>> /\ Grows
    BY <1>0, <2>1, <2>3, <2>4, NothingLost DEF Unlinks, steady
  <2>6. worker'[w] = [pc |-> "unlink", archive |-> a, list |-> Tail(v)]
    BY <2>2, <2>3, <2>4 DEF Becomes, At
  <2>7. /\ Increasing(v) /\ v # <<>>
        /\ \A i \in 1 .. Len(v) : v[i].snapE.gidB <= latest[a] /\ v[i] \in sendto[a] /\ v[i] \notin mgr[a]
    BY <1>0, <2>1, <2>3, <2>4 DEF Unlinks, ListInv, ListOf, Busy
  <2>8. Tail(v) \in Seq(Files) /\ Len(Tail(v)) = Len(v) - 1 /\ Len(v) \in Nat /\ 1 \in 1 .. Len(v)
    BY <2>7
  <2>9. \A i \in 1 .. Len(Tail(v)) : i + 1 \in 1 .. Len(v) /\ Tail(v)[i] = v[i + 1] /\ 1 < i + 1
    BY <2>7, <2>8
  <2>10. Increasing(Tail(v))
    BY <2>7, <2>8, <2>9 DEF Increasing
  <2>11. \A i \in 1 .. Len(Tail(v)) : Tail(v)[i] # v[1]
    <3>1. \A i \in 1 .. Len(Tail(v)) : v[1].snapE.gidB < v[i + 1].snapE.gidB
      BY <2>7, <2>8, <2>9 DEF Increasing
    <3>2. v[1].snapE.gidB \in Nat
      BY <2>8, FileFacts
    <3> QED BY <2>9, <3>1, <3>2
  <2>12. \A i \in 1 .. Len(Tail(v)) : /\ Tail(v)[i].snapE.gidB <= latest'[a]
                                      /\ Tail(v)[i] \in sendto'[a] /\ Tail(v)[i] \notin mgr'[a]
    BY <1>0, <2>5, <2>7, <2>9, <2>11 DEF DataInv
  <2>13. ListOf(w)'
    BY <2>6, <2>10, <2>12 DEF ListOf, Busy
  <2>14. ASSUME NEW x \in Workers, x # w
        PROVE  ListOf(x)'
    <3>1. worker'[x] = worker[x]
      BY <2>2, <2>14 DEF Becomes
    <3>2. Busy(x) => worker[x].archive # a /\ worker[x].archive \in Archives
      BY <1>0, <2>1, <2>3, <2>14 DEF BusyInv, Busy, ProcInv, Unlinks
    <3>3. Busy(x) => /\ mgr'[worker[x].archive] = mgr[worker[x].archive]
                     /\ sendto'[worker[x].archive] = sendto[worker[x].archive]
      BY <1>0, <2>5, <3>2 DEF DataInv
    <3> QED BY <1>0, <2>5, <3>1, <3>3, OthersList
  <2> QED BY <2>13, <2>14 DEF ListInv
<1>11. CASE SendEnd(w)
  <2>1. Leaves(w, "push") /\ UNCHANGED latest /\ worker[w].pc = "unlink" /\ worker[w].list = <<>>
    BY <1>0, <1>11, EndEffect
  <2>2. Becomes(w, At(w, "push", <<>>))
    BY <2>1 DEF Leaves
  <2>3. Grows /\ UNCHANGED <<mgr, sendto, gutted>>
    BY <1>0, <2>1, NothingLost DEF Leaves, steady
  <2>4. At(w, "push", <<>>).pc \in NotBusy
    BY DEF At, NoTask, NotBusy
  <2> QED BY <1>0, <2>2, <2>3, <2>4, ListAside
<1>12. CASE PushAgain(w)
  <2>1. PutsAgain(w)
    BY <1>0, <1>12, PushEffect
  <2>2. Becomes(w, NoTask)
    BY <2>1 DEF PutsAgain
  <2>3. Grows /\ UNCHANGED <<mgr, sendto, gutted>>
    BY <1>0, <2>1, NothingLost DEF PutsAgain, steady
  <2>4. NoTask.pc \in NotBusy
    BY DEF At, NoTask, NotBusy
  <2> QED BY <1>0, <2>2, <2>3, <2>4, ListAside
<1>13. CASE SetError(w)
  <2>1. Complains(w)
    BY <1>0, <1>13, ErrorEffect
  <2>2. Becomes(w, NoTask)
    BY <2>1 DEF Complains
  <2>3. Grows /\ UNCHANGED <<mgr, sendto, gutted>>
    BY <1>0, <2>1, NothingLost DEF Complains, steady
  <2>4. NoTask.pc \in NotBusy
    BY DEF At, NoTask, NotBusy
  <2> QED BY <1>0, <2>2, <2>3, <2>4, ListAside
<1> QED
  BY <1>1, <1>2, <1>3, <1>4, <1>5, <1>6, <1>7, <1>8, <1>9, <1>10, <1>11, <1>12, <1>13 DEF Transfer

\* A worker drops a task only when nothing is to be sent or another worker sends it.
LEMMA ScheduleTransfer == ASSUME IInv, NEW w \in Workers, Transfer(w) PROVE ScheduleInv'
<1>0. /\ DataInv /\ ProcInv /\ StateInv /\ ArchiveInv /\ BusyInv /\ ListInv /\ NoGapInv
      /\ ScheduleInv /\ MatchInv
  BY DEF IInv
<1>1. CASE Pop(w)
  <2>1. Pops(w)
    BY <1>0, <1>1, PopEffect
  <2>2. PICK a \in queue : /\ Becomes(w, [pc |-> "popped", archive |-> a, list |-> <<>>])
                           /\ queue' = queue \ {a}
    BY <2>1 DEF Pops
  <2>3. /\ UNCHANGED <<sm, recvMgr, server, archiveSet, mgr, err, cut>> /\ worker[w].pc = "idle"
    BY <2>1 DEF Pops, steady
  <2>4. PICK task : task = [pc |-> "popped", archive |-> a, list |-> <<>>]
    OBVIOUS
  <2>5. task.pc # "idle" /\ task.archive = a /\ Becomes(w, task)
    BY <2>2, <2>4
  <2>6. \A b \in queue \cup err \cup cut :
            b \in queue' \cup err' \cup cut' \/ (b = task.archive /\ task.pc # "idle")
    BY <2>2, <2>3, <2>5
  <2>7. \A b \in Archives : mgr'[b] \subseteq mgr[b]
    BY <2>3
  <2> QED BY <1>0, <2>3, <2>5, <2>6, <2>7, ScheduleFrame
<1>2. CASE SendNotNow(w)
  <2>1. Puts(w)
    BY <1>0, <1>2, NotNowEffect
  <2>2. Becomes(w, At(w, "push", worker[w].list))
    BY <2>1 DEF Puts
  <2>3. UNCHANGED <<sm, recvMgr, server, archiveSet>>
    BY <2>1 DEF Puts, steady
  <2>4. \A b \in Archives : mgr'[b] \subseteq mgr[b]
    BY <1>0, <2>1 DEF Puts
  <2>5. \A b \in queue \cup err \cup cut : b \in queue' \cup err' \cup cut'
    BY <2>1 DEF Puts
  <2>6. /\ At(w, "push", worker[w].list).pc # "idle"
        /\ At(w, "push", worker[w].list).archive = worker[w].archive
    BY DEF At
  <2> QED BY <1>0, <2>2, <2>3, <2>4, <2>5, <2>6, ScheduleFrame
<1>3. CASE DontSend(w)
  <2>1. Drops(w)
    BY <1>0, <1>3, DontSendEffect
  <2>2. Becomes(w, NoTask) /\ worker[w].pc = "popped"
    BY <2>1 DEF Drops
  <2>3. UNCHANGED <<sm, recvMgr, server, archiveSet, mgr, queue, err, cut, ac>>
    BY <2>1 DEF Drops, steady
  <2>4. CASE mgr[worker[w].archive] = {}
    <3>1. \A b \in Archives : mgr'[b] \subseteq mgr[b]
      BY <2>3
    <3>2. \A b \in queue \cup err \cup cut : b \in queue' \cup err' \cup cut'
      BY <2>3
    <3>3. mgr'[worker[w].archive] = {}
      BY <2>3, <2>4
    <3> QED BY <1>0, <2>2, <2>3, <3>1, <3>2, <3>3, ScheduleFrame
  <2>5. CASE ac[worker[w].archive] = 1
    <3>1. worker[w].archive \in Archives
      BY <1>0, <2>2 DEF ProcInv
    <3>2. PICK x \in Workers : Busy(x) /\ worker[x].archive = worker[w].archive
      BY <1>0, <2>5, <3>1 DEF BusyInv
    <3>3. x # w /\ worker'[x] = worker[x]
      BY <2>2, <3>2 DEF Busy, Becomes
    <3>4. ASSUME NEW a, Scheduled(a) PROVE Scheduled(a)'
      <4>1. CASE a = worker[w].archive
        BY <3>2, <3>3, <4>1 DEF Scheduled, Busy
      <4>2. CASE a # worker[w].archive
        BY <2>2, <2>3, <3>4, <4>2, StillScheduled
      <4> QED BY <4>1, <4>2
    <3> QED BY <1>0, <2>3, <3>4 DEF ScheduleInv, ToSchedule
  <2> QED BY <2>1, <2>4, <2>5 DEF Drops
<1>4. CASE SendBegin(w)
  <2>1. Sends(w)
    BY <1>0, <1>4, SendEffect
  <2>2. PICK v \in Seq(Files) : Becomes(w, At(w, "send", v))
    BY <2>1 DEF Sends
  <2>3. /\ UNCHANGED <<sm, recvMgr, server, archiveSet, mgr, queue, err, cut>>
        /\ At(w, "send", v).pc # "idle" /\ At(w, "send", v).archive = worker[w].archive
    BY <2>1 DEF Sends, steady, At
  <2>4. \A b \in Archives : mgr'[b] \subseteq mgr[b]
    BY <2>3
  <2>5. \A b \in queue \cup err \cup cut : b \in queue' \cup err' \cup cut'
    BY <2>3
  <2> QED BY <1>0, <2>2, <2>3, <2>4, <2>5, ScheduleFrame
<1>5. CASE SendAnswered(w)
  <2>1. IsAnswered(w)
    BY <1>0, <1>5, AnsweredEffect
  <2>2. Becomes(w, At(w, "erase", worker[w].list))
    BY <2>1 DEF IsAnswered
  <2>3. UNCHANGED <<sm, recvMgr, server, archiveSet>>
    BY <2>1 DEF IsAnswered, steady
  <2>4. \A b \in Archives : mgr'[b] \subseteq mgr[b]
    BY <1>0, <2>1 DEF IsAnswered
  <2>5. \A b \in queue \cup err \cup cut : b \in queue' \cup err' \cup cut'
    BY <2>1 DEF IsAnswered
  <2>6. /\ At(w, "erase", worker[w].list).pc # "idle"
        /\ At(w, "erase", worker[w].list).archive = worker[w].archive
    BY DEF At
  <2> QED BY <1>0, <2>2, <2>3, <2>4, <2>5, <2>6, ScheduleFrame
<1>6. CASE SendLater(w)
  <2>1. Leaves(w, "push") /\ Grows
    BY <1>0, <1>6, LaterEffect
  <2>2. Becomes(w, At(w, "push", <<>>))
    BY <2>1 DEF Leaves
  <2>3. UNCHANGED <<sm, recvMgr, server, archiveSet>>
    BY <2>1 DEF Leaves, steady
  <2>4. \A b \in Archives : mgr'[b] \subseteq mgr[b]
    BY <1>0, <2>1 DEF Leaves
  <2>5. \A b \in queue \cup err \cup cut : b \in queue' \cup err' \cup cut'
    BY <2>1 DEF Leaves
  <2>6. At(w, "push", <<>>).pc # "idle" /\ At(w, "push", <<>>).archive = worker[w].archive
    BY DEF At
  <2> QED BY <1>0, <2>2, <2>3, <2>4, <2>5, <2>6, ScheduleFrame
<1>7. CASE SendRefused(w)
  <2>1. Leaves(w, "error") /\ UNCHANGED latest
    BY <1>0, <1>7, RefusedEffect
  <2>2. Becomes(w, At(w, "error", <<>>))
    BY <2>1 DEF Leaves
  <2>3. UNCHANGED <<sm, recvMgr, server, archiveSet>>
    BY <2>1 DEF Leaves, steady
  <2>4. \A b \in Archives : mgr'[b] \subseteq mgr[b]
    BY <1>0, <2>1 DEF Leaves
  <2>5. \A b \in queue \cup err \cup cut : b \in queue' \cup err' \cup cut'
    BY <2>1 DEF Leaves
  <2>6. At(w, "error", <<>>).pc # "idle" /\ At(w, "error", <<>>).archive = worker[w].archive
    BY DEF At
  <2> QED BY <1>0, <2>2, <2>3, <2>4, <2>5, <2>6, ScheduleFrame
<1>8. CASE SendCutOff(w)
  <2>1. IsCutOff(w)
    BY <1>0, <1>8, CutOffEffect
  <2>2. Becomes(w, NoTask)
    BY <2>1 DEF IsCutOff
  <2>3. UNCHANGED <<sm, recvMgr, server, archiveSet>>
    BY <2>1 DEF IsCutOff, steady
  <2>4. \A b \in Archives : mgr'[b] \subseteq mgr[b]
    BY <1>0, <2>1 DEF IsCutOff
  <2>5. \A b \in queue \cup err \cup cut : b \in queue' \cup err' \cup cut'
    BY <2>1 DEF IsCutOff
  <2>6. worker[w].archive \in queue' \cup err' \cup cut'
    BY <2>1 DEF IsCutOff
  <2> QED BY <1>0, <2>2, <2>3, <2>4, <2>5, <2>6, ScheduleFrame
<1>9. CASE SendErase(w)
  <2>1. Erases(w)
    BY <1>0, <1>9, EraseEffect
  <2>2. Becomes(w, At(w, "unlink", worker[w].list))
    BY <2>1 DEF Erases
  <2>3. UNCHANGED <<sm, recvMgr, server, archiveSet>>
    BY <2>1 DEF Erases, steady
  <2>4. \A b \in Archives : mgr'[b] \subseteq mgr[b]
    BY <1>0, <2>1 DEF Erases, DataInv
  <2>5. \A b \in queue \cup err \cup cut : b \in queue' \cup err' \cup cut'
    BY <2>1 DEF Erases
  <2>6. /\ At(w, "unlink", worker[w].list).pc # "idle"
        /\ At(w, "unlink", worker[w].list).archive = worker[w].archive
    BY DEF At
  <2> QED BY <1>0, <2>2, <2>3, <2>4, <2>5, <2>6, ScheduleFrame
<1>10. CASE SendUnlink(w)
  <2>1. Unlinks(w)
    BY <1>0, <1>10, UnlinkEffect
  <2>2. Becomes(w, At(w, "unlink", Tail(worker[w].list)))
    BY <2>1 DEF Unlinks
  <2>3. UNCHANGED <<sm, recvMgr, server, archiveSet>>
    BY <2>1 DEF Unlinks, steady
  <2>4. \A b \in Archives : mgr'[b] \subseteq mgr[b]
    BY <1>0, <2>1 DEF Unlinks
  <2>5. \A b \in queue \cup err \cup cut : b \in queue' \cup err' \cup cut'
    BY <2>1 DEF Unlinks
  <2>6. /\ At(w, "unlink", Tail(worker[w].list)).pc # "idle"
        /\ At(w, "unlink", Tail(worker[w].list)).archive = worker[w].archive
    BY DEF At
  <2> QED BY <1>0, <2>2, <2>3, <2>4, <2>5, <2>6, ScheduleFrame
<1>11. CASE SendEnd(w)
  <2>1. Leaves(w, "push") /\ UNCHANGED latest /\ worker[w].pc = "unlink" /\ worker[w].list = <<>>
    BY <1>0, <1>11, EndEffect
  <2>2. Becomes(w, At(w, "push", <<>>))
    BY <2>1 DEF Leaves
  <2>3. UNCHANGED <<sm, recvMgr, server, archiveSet>>
    BY <2>1 DEF Leaves, steady
  <2>4. \A b \in Archives : mgr'[b] \subseteq mgr[b]
    BY <1>0, <2>1 DEF Leaves
  <2>5. \A b \in queue \cup err \cup cut : b \in queue' \cup err' \cup cut'
    BY <2>1 DEF Leaves
  <2>6. At(w, "push", <<>>).pc # "idle" /\ At(w, "push", <<>>).archive = worker[w].archive
    BY DEF At
  <2> QED BY <1>0, <2>2, <2>3, <2>4, <2>5, <2>6, ScheduleFrame
<1>12. CASE PushAgain(w)
  <2>1. PutsAgain(w)
    BY <1>0, <1>12, PushEffect
  <2>2. Becomes(w, NoTask)
    BY <2>1 DEF PutsAgain
  <2>3. UNCHANGED <<sm, recvMgr, server, archiveSet>>
    BY <2>1 DEF PutsAgain, steady
  <2>4. \A b \in Archives : mgr'[b] \subseteq mgr[b]
    BY <1>0, <2>1 DEF PutsAgain
  <2>5. \A b \in queue \cup err \cup cut : b \in queue' \cup err' \cup cut'
    BY <2>1 DEF PutsAgain
  <2>6. worker[w].archive \in queue' \cup err' \cup cut'
    BY <2>1 DEF PutsAgain
  <2> QED BY <1>0, <2>2, <2>3, <2>4, <2>5, <2>6, ScheduleFrame
<1>13. CASE SetError(w)
  <2>1. Complains(w)
    BY <1>0, <1>13, ErrorEffect
  <2>2. Becomes(w, NoTask)
    BY <2>1 DEF Complains
  <2>3. UNCHANGED <<sm, recvMgr, server, archiveSet>>
    BY <2>1 DEF Complains, steady
  <2>4. \A b \in Archives : mgr'[b] \subseteq mgr[b]
    BY <1>0, <2>1 DEF Complains
  <2>5. \A b \in queue \cup err \cup cut : b \in queue' \cup err' \cup cut'
    BY <2>1 DEF Complains
  <2>6. worker[w].archive \in queue' \cup err' \cup cut'
    BY <2>1 DEF Complains
  <2> QED BY <1>0, <2>2, <2>3, <2>4, <2>5, <2>6, ScheduleFrame
<1> QED
  BY <1>1, <1>2, <1>3, <1>4, <1>5, <1>6, <1>7, <1>8, <1>9, <1>10, <1>11, <1>12, <1>13 DEF Transfer

\* The managers and the directories, when a worker goes on.
LEMMA MatchTransfer == ASSUME IInv, NEW w \in Workers, Transfer(w) PROVE MatchInv'
<1>0. /\ DataInv /\ ProcInv /\ StateInv /\ ArchiveInv /\ BusyInv /\ ListInv /\ NoGapInv
      /\ ScheduleInv /\ MatchInv
  BY DEF IInv
<1>1. CASE Pop(w)
  <2>1. Pops(w)
    BY <1>0, <1>1, PopEffect
  <2>2. PICK a \in queue : Becomes(w, [pc |-> "popped", archive |-> a, list |-> <<>>])
    BY <2>1 DEF Pops
  <2>3. /\ UNCHANGED <<archiveSet, dirs, gutted, admin, mgr, sendto>>
        /\ worker[w].pc # "unlink"
    BY <2>1 DEF Pops, steady
  <2> QED BY <1>0, <2>2, <2>3, MatchFrame
<1>2. CASE SendNotNow(w)
  <2>1. Puts(w)
    BY <1>0, <1>2, NotNowEffect
  <2>2. Becomes(w, At(w, "push", worker[w].list))
    BY <2>1 DEF Puts
  <2>3. /\ UNCHANGED <<archiveSet, dirs, gutted, admin, mgr, sendto>>
        /\ (worker[w].pc # "unlink" \/ worker[w].list = <<>>)
    BY <2>1 DEF Puts, steady
  <2> QED BY <1>0, <2>2, <2>3, MatchFrame
<1>3. CASE DontSend(w)
  <2>1. Drops(w)
    BY <1>0, <1>3, DontSendEffect
  <2>2. Becomes(w, NoTask)
    BY <2>1 DEF Drops
  <2>3. /\ UNCHANGED <<archiveSet, dirs, gutted, admin, mgr, sendto>>
        /\ (worker[w].pc # "unlink" \/ worker[w].list = <<>>)
    BY <2>1 DEF Drops, steady
  <2> QED BY <1>0, <2>2, <2>3, MatchFrame
<1>4. CASE SendBegin(w)
  <2>1. Sends(w)
    BY <1>0, <1>4, SendEffect
  <2>2. PICK v \in Seq(Files) : Becomes(w, At(w, "send", v))
    BY <2>1 DEF Sends
  <2>3. /\ UNCHANGED <<archiveSet, dirs, gutted, admin, mgr, sendto>>
        /\ worker[w].pc # "unlink"
    BY <2>1 DEF Sends, steady
  <2> QED BY <1>0, <2>2, <2>3, MatchFrame
<1>5. CASE SendAnswered(w)
  <2>1. IsAnswered(w)
    BY <1>0, <1>5, AnsweredEffect
  <2>2. Becomes(w, At(w, "erase", worker[w].list))
    BY <2>1 DEF IsAnswered
  <2>3. /\ UNCHANGED <<archiveSet, dirs, gutted, admin, mgr, sendto>>
        /\ (worker[w].pc # "unlink" \/ worker[w].list = <<>>)
    BY <2>1 DEF IsAnswered, steady
  <2> QED BY <1>0, <2>2, <2>3, MatchFrame
<1>6. CASE SendLater(w)
  <2>1. Leaves(w, "push") /\ Grows
    BY <1>0, <1>6, LaterEffect
  <2>2. Becomes(w, At(w, "push", <<>>))
    BY <2>1 DEF Leaves
  <2>3. /\ UNCHANGED <<archiveSet, dirs, gutted, admin, mgr, sendto>>
        /\ (worker[w].pc # "unlink" \/ worker[w].list = <<>>)
    BY <1>6, <2>1 DEF Leaves, steady, SendLater
  <2> QED BY <1>0, <2>2, <2>3, MatchFrame
<1>7. CASE SendRefused(w)
  <2>1. Leaves(w, "error") /\ UNCHANGED latest
    BY <1>0, <1>7, RefusedEffect
  <2>2. Becomes(w, At(w, "error", <<>>))
    BY <2>1 DEF Leaves
  <2>3. /\ UNCHANGED <<archiveSet, dirs, gutted, admin, mgr, sendto>>
        /\ (worker[w].pc # "unlink" \/ worker[w].list = <<>>)
    BY <1>7, <2>1 DEF Leaves, steady, SendRefused
  <2> QED BY <1>0, <2>2, <2>3, MatchFrame
<1>8. CASE SendCutOff(w)
  <2>1. IsCutOff(w)
    BY <1>0, <1>8, CutOffEffect
  <2>2. Becomes(w, NoTask)
    BY <2>1 DEF IsCutOff
  <2>3. /\ UNCHANGED <<archiveSet, dirs, gutted, admin, mgr, sendto>>
        /\ (worker[w].pc # "unlink" \/ worker[w].list = <<>>)
    BY <2>1 DEF IsCutOff, steady
  <2> QED BY <1>0, <2>2, <2>3, MatchFrame
<1>9. CASE SendErase(w)
  <2>1. Erases(w)
    BY <1>0, <1>9, EraseEffect
  <2>2. Becomes(w, At(w, "unlink", worker[w].list)) /\ worker[w].pc = "erase"
    BY <2>1 DEF Erases
  <2>3. PICK a \in Archives : a = worker[w].archive
    BY <1>0, <2>2 DEF ProcInv
  <2>4. mgr' = [mgr EXCEPT ![a] = @ \ Listed(w)] /\ UNCHANGED <<archiveSet, dirs, gutted, admin, sendto>>
    BY <2>1, <2>3 DEF Erases, steady
  <2>5. worker'[w].pc = "unlink" /\ worker'[w].archive = a /\ worker'[w].list = worker[w].list
    BY <2>2, <2>3 DEF Becomes, At
  <2>6. PICK v \in Seq(Files) : v = worker[w].list
    BY <1>0 DEF ProcInv
  <2>7. ASSUME NEW b \in archiveSet \cap dirs
        PROVE  mgr'[b] \subseteq sendto'[b]
    BY <1>0, <2>4 DEF MatchInv, DataInv
  <2>8. ASSUME NEW b \in archiveSet \cap dirs, NEW d \in sendto[b], d \notin mgr'[b],
               d \in mgr[b] \/ Unlinking(d, b)
        PROVE  Unlinking(d, b)'
    <3>1. CASE d \in mgr[b]
      <4>1. b = a /\ d \in Listed(w)
        BY <1>0, <2>4, <2>8, <3>1 DEF DataInv
      <4>2. \E i \in 1 .. Len(v) : v[i] = d
        BY <2>6, <4>1 DEF Listed
      <4> QED BY <2>5, <2>6, <4>1, <4>2 DEF Unlinking
    <3>2. CASE d \notin mgr[b]
      <4>1. Unlinking(d, b)
        BY <2>8, <3>2
      <4> QED BY <2>2, <4>1, StillUnlinking
    <3> QED BY <3>1, <3>2
  <2> QED BY <1>0, <2>4, <2>7, <2>8 DEF MatchInv
<1>10. CASE SendUnlink(w)
  <2>1. Unlinks(w)
    BY <1>0, <1>10, UnlinkEffect
  <2>2. Becomes(w, At(w, "unlink", Tail(worker[w].list))) /\ worker[w].pc = "unlink"
    BY <2>1 DEF Unlinks
  <2>3. PICK a \in Archives : a = worker[w].archive
    BY <1>0, <2>2 DEF ProcInv
  <2>4. PICK v \in Seq(Files) : v = worker[w].list /\ v # <<>>
    BY <1>0, <2>1 DEF ProcInv, Unlinks
  <2>5. sendto' = [sendto EXCEPT ![a] = @ \ {v[1]}] /\ UNCHANGED <<archiveSet, dirs, gutted, admin, mgr>>
    BY <2>1, <2>3, <2>4 DEF Unlinks, steady
  <2>6. worker'[w].pc = "unlink" /\ worker'[w].archive = a /\ worker'[w].list = Tail(v)
    BY <2>2, <2>3, <2>4 DEF Becomes, At
  <2>7. 1 \in 1 .. Len(v) /\ v[1] \notin mgr[a]
    BY <1>0, <2>2, <2>3, <2>4 DEF ListInv, ListOf
  <2>8. ASSUME NEW b \in archiveSet \cap dirs
        PROVE  mgr'[b] \subseteq sendto'[b]
    BY <1>0, <2>5, <2>7 DEF MatchInv, DataInv
  <2>9. ASSUME NEW b \in archiveSet \cap dirs, NEW d \in sendto'[b], d \notin mgr[b],
               d \in sendto[b] => Unlinking(d, b)
        PROVE  Unlinking(d, b)'
    <3>1. b \in Archives /\ d \in sendto[b] /\ (b = a => d # v[1])
      BY <1>0, <2>5 DEF DataInv
    <3>2. PICK x \in Workers : /\ worker[x].archive = b /\ worker[x].pc = "unlink"
                               /\ \E i \in 1 .. Len(worker[x].list) : worker[x].list[i] = d
      BY <2>9, <3>1 DEF Unlinking
    <3>3. CASE x # w
      <4>1. worker'[x] = worker[x]
        BY <2>2, <3>3 DEF Becomes
      <4> QED BY <3>2, <4>1 DEF Unlinking
    <3>4. CASE x = w
      <4>1. PICK i \in 1 .. Len(v) : v[i] = d
        BY <2>4, <3>2, <3>4
      <4>2. i # 1
        BY <2>3, <3>1, <3>2, <3>4, <4>1
      <4>3. i - 1 \in 1 .. Len(Tail(v)) /\ Tail(v)[i - 1] = d
        BY <2>4, <4>1, <4>2
      <4> QED BY <2>3, <2>6, <3>2, <3>4, <4>3 DEF Unlinking
    <3> QED BY <3>3, <3>4
  <2>10. \A b \in archiveSet \cap dirs : sendto'[b] \subseteq sendto[b]
    BY <1>0, <2>5 DEF DataInv
  <2> QED BY <1>0, <2>5, <2>8, <2>9, <2>10 DEF MatchInv
<1>11. CASE SendEnd(w)
  <2>1. Leaves(w, "push") /\ UNCHANGED latest /\ worker[w].pc = "unlink" /\ worker[w].list = <<>>
    BY <1>0, <1>11, EndEffect
  <2>2. Becomes(w, At(w, "push", <<>>))
    BY <2>1 DEF Leaves
  <2>3. /\ UNCHANGED <<archiveSet, dirs, gutted, admin, mgr, sendto>>
        /\ (worker[w].pc # "unlink" \/ worker[w].list = <<>>)
    BY <2>1 DEF Leaves, steady
  <2> QED BY <1>0, <2>2, <2>3, MatchFrame
<1>12. CASE PushAgain(w)
  <2>1. PutsAgain(w)
    BY <1>0, <1>12, PushEffect
  <2>2. Becomes(w, NoTask)
    BY <2>1 DEF PutsAgain
  <2>3. /\ UNCHANGED <<archiveSet, dirs, gutted, admin, mgr, sendto>>
        /\ (worker[w].pc # "unlink" \/ worker[w].list = <<>>)
    BY <2>1 DEF PutsAgain, steady
  <2> QED BY <1>0, <2>2, <2>3, MatchFrame
<1>13. CASE SetError(w)
  <2>1. Complains(w)
    BY <1>0, <1>13, ErrorEffect
  <2>2. Becomes(w, NoTask)
    BY <2>1 DEF Complains
  <2>3. /\ UNCHANGED <<archiveSet, dirs, gutted, admin, mgr, sendto>>
        /\ (worker[w].pc # "unlink" \/ worker[w].list = <<>>)
    BY <2>1 DEF Complains, steady
  <2> QED BY <1>0, <2>2, <2>3, MatchFrame
<1> QED
  BY <1>1, <1>2, <1>3, <1>4, <1>5, <1>6, <1>7, <1>8, <1>9, <1>10, <1>11, <1>12, <1>13 DEF Transfer

-----------------------------------------------------------------------------
(* Linking. *)

\* What linking a diff means for its archive: the diffs before it are there.
LEMMA LinkFacts ==
    ASSUME IInv, Link
    PROVE  \E d \in recvMgr, a \in archiveSet :
              /\ a \in dirs /\ a \in Archives /\ d \in Files /\ d \in received
              /\ \A c \in received : c.snapB.gidB < d.snapB.gidB => c \in sendto[a] \/ c.snapE.gidB <= latest[a]
              /\ sendto' = [sendto EXCEPT ![a] = @ \cup {d}]
              /\ \/ d \in sendto[a] /\ mgr' = mgr
                 \/ d \notin sendto[a] /\ mgr' = [mgr EXCEPT ![a] = @ \cup {d}]
              /\ server' = [pc |-> "link", diff |-> server.diff, todo |-> server.todo \ {<<d, a>>}]
<1>0. DataInv /\ ProcInv /\ StateInv /\ ArchiveInv /\ ReceivedInv /\ LinkInv
  BY DEF IInv
<1>1. Links
  BY <1>0, LinkEffect
<1>2. PICK d \in Files, a \in Archives :
          /\ <<d, a>> \in server.todo
          /\ \A c \in Files, b \in Archives : <<c, b>> \in server.todo => d.snapB.gidB <= c.snapB.gidB
          /\ \/ d \in sendto[a] /\ UNCHANGED <<sendto, mgr>>
             \/ /\ d \notin sendto[a]
                /\ sendto' = [sendto EXCEPT ![a] = @ \cup {d}]
                /\ mgr' = [mgr EXCEPT ![a] = @ \cup {d}]
          /\ server' = [pc |-> "link", diff |-> server.diff, todo |-> server.todo \ {<<d, a>>}]
  BY <1>1 DEF Links
<1>3. server.pc = "link"
  BY <1>1 DEF Links
<1>4. d \in recvMgr /\ a \in archiveSet /\ received = recvMgr /\ received \subseteq Files
  BY <1>0, <1>2, <1>3 DEF LinkInv, ReceivedInv, DataInv
<1>5. a \in dirs
  BY <1>0, <1>3, <1>4 DEF StateInv, ArchiveInv, Administering
<1>6. ASSUME NEW c \in received, c.snapB.gidB < d.snapB.gidB
      PROVE  c \in sendto[a] \/ c.snapE.gidB <= latest[a]
  <2>1. c \in Files /\ c.snapB.gidB \in Nat /\ d.snapB.gidB \in Nat
    BY <1>4, FileFacts
  <2>2. ~(d.snapB.gidB <= c.snapB.gidB)
    BY <1>6, <2>1
  <2>3. <<c, a>> \notin server.todo
    BY <1>2, <2>1, <2>2
  <2> QED BY <1>0, <1>3, <1>4, <2>3 DEF LinkInv
<1>7. sendto' = [sendto EXCEPT ![a] = @ \cup {d}]
  <2>1. CASE d \in sendto[a] /\ UNCHANGED <<sendto, mgr>>
    <3>1. sendto[a] = sendto[a] \cup {d}
      BY <2>1
    <3> QED BY <1>0, <2>1, <3>1 DEF DataInv
  <2> QED BY <1>2, <2>1
<1> QED BY <1>2, <1>4, <1>5, <1>6, <1>7

LEMMA DataLink == ASSUME IInv, Link PROVE DataInv'
<1>0. DataInv /\ ProcInv
  BY DEF IInv
<1>1. PICK d \in recvMgr, a \in archiveSet :
          /\ a \in Archives /\ d \in Files
          /\ sendto' = [sendto EXCEPT ![a] = @ \cup {d}]
          /\ mgr' = mgr \/ mgr' = [mgr EXCEPT ![a] = @ \cup {d}]
  BY LinkFacts
<1>2. sendto' \in [Archives -> SUBSET Files] /\ mgr' \in [Archives -> SUBSET Files]
  BY <1>0, <1>1 DEF DataInv
<1>3. UNCHANGED <<archiveSet, recvMgr, received, ac, latest, done, nrCrashes, infos, dirs, gutted>>
  BY DEF Link, places
<1> QED BY <1>0, <1>2, <1>3 DEF DataInv

LEMMA ArchiveLink == ASSUME IInv, Link PROVE ArchiveInv'
<1>0. DataInv /\ ProcInv /\ ArchiveInv
  BY DEF IInv
<1>1. PICK d \in recvMgr, a \in archiveSet :
          /\ a \in dirs
          /\ sendto' = [sendto EXCEPT ![a] = @ \cup {d}]
          /\ mgr' = mgr \/ mgr' = [mgr EXCEPT ![a] = @ \cup {d}]
  BY LinkFacts
<1>2. UNCHANGED <<archiveSet, places, admin, sm, received>> /\ sm = "WlogRecv"
  BY DEF Link, IInv, StateInv
<1>3. \A b \in Archives : /\ b \notin dirs => sendto'[b] = {}
                          /\ b \notin archiveSet \cap dirs => mgr'[b] = {}
  BY <1>0, <1>1 DEF ArchiveInv, DataInv
<1>4. admin.pc = "idle"
  BY <1>2 DEF IInv, StateInv, Administering
<1> QED BY <1>0, <1>2, <1>3, <1>4 DEF ArchiveInv, places

LEMMA ListLink == ASSUME IInv, Link PROVE ListInv'
<1>0. DataInv /\ ProcInv /\ ListInv
  BY DEF IInv
<1>1. PICK d \in recvMgr, a \in archiveSet :
          /\ a \in Archives
          /\ sendto' = [sendto EXCEPT ![a] = @ \cup {d}]
          /\ \/ d \in sendto[a] /\ mgr' = mgr
             \/ d \notin sendto[a] /\ mgr' = [mgr EXCEPT ![a] = @ \cup {d}]
  BY LinkFacts
<1>2. UNCHANGED <<worker, latest, gutted>>
  BY DEF Link, places
<1>3. ASSUME NEW w \in Workers
      PROVE  ListOf(w)'
  <2>1. CASE ~Busy(w)
    BY <1>2, <2>1 DEF ListOf, Busy
  <2>2. CASE Busy(w)
    <3>1. PICK b \in Archives : b = worker[w].archive
      BY <1>0, <2>2 DEF ProcInv, Busy
    <3>2. mgr[b] \subseteq mgr'[b] /\ sendto[b] \subseteq sendto'[b]
      BY <1>0, <1>1 DEF DataInv
    <3>3. \A c \in sendto[b] : c \notin mgr[b] => c \notin mgr'[b]
      BY <1>0, <1>1 DEF DataInv
    <3>4. ListOf(w)
      BY <1>0 DEF ListInv
    <3> QED BY <1>2, <3>1, <3>2, <3>3, <3>4 DEF ListOf, Busy
  <2> QED BY <2>1, <2>2
<1> QED BY <1>3 DEF ListInv

LEMMA ReceivedLink == ASSUME IInv, Link PROVE ReceivedInv'
<1>0. DataInv /\ ProcInv /\ ReceivedInv
  BY DEF IInv
<1>1. PICK d \in recvMgr, a \in archiveSet :
          /\ a \in Archives /\ d \in received
          /\ sendto' = [sendto EXCEPT ![a] = @ \cup {d}]
          /\ server' = [pc |-> "link", diff |-> server.diff, todo |-> server.todo \ {<<d, a>>}]
  BY LinkFacts
<1>2. UNCHANGED <<recvMgr, received, done, admin>> /\ server.pc = "link"
  BY DEF Link
<1>3. \A b \in Archives : \A c \in sendto'[b] : c.snapB.gidB <= done
  BY <1>0, <1>1 DEF ReceivedInv, DataInv
<1> QED BY <1>0, <1>1, <1>2, <1>3 DEF ReceivedInv

\* Whatever an archive still needs below a diff that is linked next is linked.
LEMMA KeptBelow ==
    ASSUME DataInv, ReceivedInv, KeptInv,
           NEW a \in dirs \ gutted, NEW d \in Files, d \in received,
           \A c \in received : c.snapB.gidB < d.snapB.gidB =>
               c \in sendto[a] \/ c.snapE.gidB <= latest[a],
           NEW g \in latest[a] .. d.snapB.gidB - 1
    PROVE  \E c \in sendto[a] : Covers(c, g)
<1>1. /\ a \in Archives /\ latest[a] \in Nat /\ d.snapB.gidB \in Nat /\ done \in Nat
      /\ d.snapB.gidB <= done
  BY FileFacts DEF DataInv, ReceivedInv
<1>2. g \in Nat /\ latest[a] <= g /\ g < d.snapB.gidB
  BY <1>1
<1>3. g \in latest[a] .. done - 1
  BY <1>1, <1>2
<1>4. PICK c \in sendto[a] \cup received : Covers(c, g)
  BY <1>3 DEF KeptInv
<1>5. c \in Files
  BY <1>1, <1>4 DEF DataInv
<1>6. c.snapB.gidB \in Nat /\ c.snapE.gidB \in Nat
  BY <1>5, FileFacts
<1>7. ~(c.snapE.gidB <= latest[a]) /\ c.snapB.gidB < d.snapB.gidB
  BY <1>1, <1>2, <1>4, <1>6 DEF Covers
<1> QED BY <1>4, <1>7

\* The diff that is linked follows on what the directory has, or what the archive has.
LEMMA NoGapLink == ASSUME IInv, Link PROVE NoGapInv'
<1>0. DataInv /\ ReceivedInv /\ NoGapInv /\ KeptInv
  BY DEF IInv
<1>1. PICK d \in recvMgr, a \in archiveSet :
          /\ a \in dirs /\ a \in Archives /\ d \in Files /\ d \in received
          /\ \A c \in received : c.snapB.gidB < d.snapB.gidB => c \in sendto[a] \/ c.snapE.gidB <= latest[a]
          /\ sendto' = [sendto EXCEPT ![a] = @ \cup {d}]
  BY LinkFacts
<1>2. UNCHANGED <<latest, dirs, gutted>>
  BY DEF Link, places
<1>3. \A b \in Archives : sendto[b] \subseteq sendto'[b]
  BY <1>0, <1>1 DEF DataInv
<1>4. dirs \subseteq Archives
  BY <1>0 DEF DataInv
<1>5. ASSUME NEW b \in dirs \ gutted, NEW e \in sendto[b], NEW g \in latest[b] .. e.snapB.gidB - 1
      PROVE  \E c \in sendto'[b] : Covers(c, g)
  <2>1. PICK c \in sendto[b] : Covers(c, g)
    BY <1>0 DEF NoGapInv
  <2> QED BY <1>3, <1>4, <2>1
<1>6. ASSUME a \notin gutted, NEW g \in latest[a] .. d.snapB.gidB - 1
      PROVE  \E c \in sendto'[a] : Covers(c, g)
  <2>1. PICK c \in sendto[a] : Covers(c, g)
    BY <1>0, <1>1, <1>6, KeptBelow
  <2> QED BY <1>1, <1>3, <2>1
<1>7. \A b \in dirs : \A e \in sendto'[b] : e \in sendto[b] \/ (b = a /\ e = d)
  BY <1>0, <1>1, <1>4 DEF DataInv
<1> QED BY <1>2, <1>5, <1>6, <1>7 DEF NoGapInv

LEMMA KeptLink == ASSUME IInv, Link PROVE KeptInv'
<1>0. DataInv /\ KeptInv
  BY DEF IInv
<1>1. PICK d \in recvMgr, a \in archiveSet :
          a \in Archives /\ sendto' = [sendto EXCEPT ![a] = @ \cup {d}]
  BY LinkFacts
<1>2. UNCHANGED <<received, latest, dirs, gutted, done>>
  BY DEF Link, places
<1>3. \A b \in Archives : sendto[b] \subseteq sendto'[b]
  BY <1>0, <1>1 DEF DataInv
<1>4. ASSUME NEW b \in dirs \ gutted, NEW g \in latest[b] .. done - 1
      PROVE  \E c \in sendto'[b] \cup received : Covers(c, g)
  <2>1. PICK c \in sendto[b] \cup received : Covers(c, g)
    BY <1>0 DEF KeptInv
  <2>2. b \in Archives
    BY <1>0 DEF DataInv
  <2> QED BY <1>3, <2>1, <2>2
<1> QED BY <1>2, <1>4 DEF KeptInv

LEMMA MatchLink == ASSUME IInv, Link PROVE MatchInv'
<1>0. DataInv /\ MatchInv
  BY DEF IInv
<1>1. PICK d \in recvMgr, a \in archiveSet :
          /\ a \in Archives
          /\ sendto' = [sendto EXCEPT ![a] = @ \cup {d}]
          /\ \/ d \in sendto[a] /\ mgr' = mgr
             \/ mgr' = [mgr EXCEPT ![a] = @ \cup {d}]
  BY LinkFacts
<1>2. UNCHANGED <<archiveSet, dirs, gutted, worker>> /\ admin.pc = "idle"
  BY DEF Link, places, IInv, StateInv, Administering
<1>3. \A c, b : Unlinking(c, b)' <=> Unlinking(c, b)
  BY <1>2 DEF Unlinking
<1>4. ASSUME NEW b \in archiveSet \cap dirs
      PROVE  /\ mgr'[b] \subseteq sendto'[b]
             /\ b \notin gutted => \A c \in sendto'[b] : c \in mgr'[b] \/ Unlinking(c, b)
  <2>1. /\ b \in Archives /\ mgr[b] \subseteq sendto[b]
        /\ b \notin gutted => \A c \in sendto[b] : c \in mgr[b] \/ Unlinking(c, b)
    BY <1>0, <1>2 DEF DataInv, MatchInv
  <2>2. CASE d \in sendto[a] /\ mgr' = mgr
    BY <1>0, <1>1, <2>1, <2>2 DEF DataInv
  <2>3. CASE mgr' = [mgr EXCEPT ![a] = @ \cup {d}]
    BY <1>0, <1>1, <2>1, <2>3 DEF DataInv
  <2> QED BY <1>1, <2>2, <2>3
<1> QED BY <1>2, <1>3, <1>4 DEF MatchInv

-----------------------------------------------------------------------------
(* What an archive has got, it need not be sent again. *)

\* An archive gets further, and of its files only what it has goes.
Delivers ==
    /\ Grows
    /\ \A a \in Archives : /\ sendto'[a] \subseteq sendto[a]
                           /\ \A d \in sendto[a] : d \in sendto'[a] \/ d.snapE.gidB <= latest[a]
    /\ UNCHANGED steady

\* What is unlinked, the archive has.
LEMMA UnlinkedIsThere ==
    ASSUME DataInv, ProcInv, ListInv, NEW w \in Workers, Unlinks(w)
    PROVE  \A a \in Archives : \A d \in sendto[a] : d \in sendto'[a] \/ d.snapE.gidB <= latest[a]
<1>1. PICK b \in Archives : b = worker[w].archive
  BY DEF ProcInv, Unlinks
<1>2. PICK v \in Seq(Files) : v = worker[w].list /\ v # <<>>
  BY DEF ProcInv, Unlinks
<1>3. 1 \in 1 .. Len(v)
  BY <1>2
<1>4. v[1].snapE.gidB <= latest[b]
  BY <1>1, <1>2, <1>3 DEF Unlinks, ListInv, ListOf
<1>5. sendto' = [sendto EXCEPT ![b] = @ \ {v[1]}]
  BY <1>1, <1>2 DEF Unlinks
<1> QED BY <1>4, <1>5 DEF DataInv

\* That is all that a worker does to the files.
LEMMA DeliversTransfer == ASSUME IInv, NEW w \in Workers, Transfer(w) PROVE Delivers
<1>0. DataInv /\ ProcInv /\ BusyInv /\ ListInv
  BY DEF IInv
<1>1. CASE Pop(w)
  <2>1. Pops(w)
    BY <1>0, <1>1, PopEffect
  <2> QED BY <1>0, <2>1, NothingLost DEF Delivers, Pops
<1>2. CASE SendNotNow(w)
  <2>1. Puts(w)
    BY <1>0, <1>2, NotNowEffect
  <2> QED BY <1>0, <2>1, NothingLost DEF Delivers, Puts
<1>3. CASE DontSend(w)
  <2>1. Drops(w)
    BY <1>0, <1>3, DontSendEffect
  <2> QED BY <1>0, <2>1, NothingLost DEF Delivers, Drops
<1>4. CASE SendBegin(w)
  <2>1. Sends(w)
    BY <1>0, <1>4, SendEffect
  <2> QED BY <1>0, <2>1, NothingLost DEF Delivers, Sends
<1>5. CASE SendAnswered(w)
  <2>1. IsAnswered(w)
    BY <1>0, <1>5, AnsweredEffect
  <2> QED BY <1>0, <2>1 DEF Delivers, IsAnswered
<1>6. CASE SendLater(w)
  <2>1. Leaves(w, "push") /\ Grows
    BY <1>0, <1>6, LaterEffect
  <2> QED BY <1>0, <2>1 DEF Delivers, Leaves
<1>7. CASE SendRefused(w)
  <2>1. Leaves(w, "error") /\ UNCHANGED latest
    BY <1>0, <1>7, RefusedEffect
  <2> QED BY <1>0, <2>1, NothingLost DEF Delivers, Leaves
<1>8. CASE SendCutOff(w)
  <2>1. IsCutOff(w)
    BY <1>0, <1>8, CutOffEffect
  <2> QED BY <1>0, <2>1, NothingLost DEF Delivers, IsCutOff
<1>9. CASE SendErase(w)
  <2>1. Erases(w)
    BY <1>0, <1>9, EraseEffect
  <2> QED BY <1>0, <2>1, NothingLost DEF Delivers, Erases
<1>10. CASE SendUnlink(w)
  <2>1. Unlinks(w)
    BY <1>0, <1>10, UnlinkEffect
  <2>2. Grows /\ UNCHANGED steady
    BY <1>0, <2>1, NothingLost DEF Unlinks
  <2>3. \A a \in Archives : sendto'[a] \subseteq sendto[a]
    BY <1>0, <2>1 DEF Unlinks, DataInv
  <2> QED BY <1>0, <2>1, <2>2, <2>3, UnlinkedIsThere DEF Delivers
<1>11. CASE SendEnd(w)
  <2>1. Leaves(w, "push") /\ UNCHANGED latest
    BY <1>0, <1>11, EndEffect
  <2> QED BY <1>0, <2>1, NothingLost DEF Delivers, Leaves
<1>12. CASE PushAgain(w)
  <2>1. PutsAgain(w)
    BY <1>0, <1>12, PushEffect
  <2> QED BY <1>0, <2>1, NothingLost DEF Delivers, PutsAgain
<1>13. CASE SetError(w)
  <2>1. Complains(w)
    BY <1>0, <1>13, ErrorEffect
  <2> QED BY <1>0, <2>1, NothingLost DEF Delivers, Complains
<1> QED
  BY <1>1, <1>2, <1>3, <1>4, <1>5, <1>6, <1>7, <1>8, <1>9, <1>10, <1>11, <1>12, <1>13 DEF Transfer

LEMMA NoGapTransfer == ASSUME IInv, NEW w \in Workers, Transfer(w) PROVE NoGapInv'
<1>0. DataInv /\ NoGapInv /\ Delivers /\ UNCHANGED <<dirs, gutted>>
  BY DeliversTransfer DEF IInv, Delivers, steady
<1> SUFFICES ASSUME NEW a \in dirs \ gutted, NEW d \in sendto'[a],
                    NEW g \in latest'[a] .. d.snapB.gidB - 1
             PROVE  \E c \in sendto'[a] : Covers(c, g)
  BY <1>0 DEF NoGapInv
<1>1. a \in Archives
  BY <1>0 DEF DataInv
<1>2. d \in sendto[a] /\ d \in Files /\ sendto[a] \subseteq Files
  BY <1>0, <1>1 DEF DataInv, Delivers
<1>3. d.snapB.gidB \in Nat /\ latest[a] \in Nat /\ latest'[a] \in Nat /\ latest[a] <= latest'[a]
  BY <1>0, <1>1, <1>2, FileFacts DEF DataInv, Delivers, Grows
<1>4. g \in latest[a] .. d.snapB.gidB - 1 /\ g \in Nat /\ latest[a] <= g
  BY <1>3
<1>5. PICK c \in sendto[a] : Covers(c, g)
  BY <1>0, <1>2, <1>4 DEF NoGapInv
<1>6. c.snapE.gidB \in Nat /\ g < c.snapE.gidB
  BY <1>2, <1>5, FileFacts DEF Covers
<1>7. ~(c.snapE.gidB <= latest[a])
  BY <1>3, <1>4, <1>6
<1> QED BY <1>0, <1>1, <1>5, <1>7 DEF Delivers

LEMMA KeptTransfer == ASSUME IInv, NEW w \in Workers, Transfer(w) PROVE KeptInv'
<1>0. DataInv /\ KeptInv /\ Delivers /\ UNCHANGED <<dirs, gutted, received, done>>
  BY DeliversTransfer DEF IInv, Delivers, steady
<1> SUFFICES ASSUME NEW a \in dirs \ gutted, NEW g \in latest'[a] .. done - 1
             PROVE  \E c \in sendto'[a] \cup received : Covers(c, g)
  BY <1>0 DEF KeptInv
<1>1. a \in Archives
  BY <1>0 DEF DataInv
<1>2. latest[a] \in Nat /\ latest'[a] \in Nat /\ latest[a] <= latest'[a] /\ done \in Nat
  BY <1>0, <1>1 DEF DataInv, Delivers, Grows
<1>3. g \in latest[a] .. done - 1 /\ g \in Nat /\ latest[a] <= g
  BY <1>2
<1>4. PICK c \in sendto[a] \cup received : Covers(c, g)
  BY <1>0, <1>3 DEF KeptInv
<1>5. c.snapE.gidB \in Nat
  BY <1>0, <1>1, <1>4, FileFacts DEF DataInv
<1>6. ~(c.snapE.gidB <= latest[a])
  BY <1>2, <1>3, <1>4, <1>5 DEF Covers
<1> QED BY <1>0, <1>1, <1>4, <1>6 DEF Delivers

LEMMA LinkTransfer == ASSUME IInv, NEW w \in Workers, Transfer(w) PROVE LinkInv'
<1>0. DataInv /\ LinkInv /\ Delivers /\ UNCHANGED <<server, recvMgr, received, archiveSet>>
  BY DeliversTransfer DEF IInv, Delivers, steady
<1>1. \A a \in archiveSet : a \in Archives /\ latest[a] \in Nat /\ latest'[a] \in Nat /\ latest[a] <= latest'[a]
  BY <1>0 DEF DataInv, Delivers, Grows
<1>2. \A d \in recvMgr \cup received : d.snapE.gidB \in Nat
  BY <1>0, FileFacts DEF DataInv
<1>3. ASSUME NEW d \in recvMgr \cup received, NEW a \in archiveSet,
             d \in sendto[a] \/ d.snapE.gidB <= latest[a]
      PROVE  d \in sendto'[a] \/ d.snapE.gidB <= latest'[a]
  <2>1. d \in sendto'[a] \/ d.snapE.gidB <= latest[a]
    BY <1>0, <1>1, <1>3 DEF Delivers
  <2> QED BY <1>1, <1>2, <2>1
<1> QED BY <1>0, <1>3 DEF LinkInv

-----------------------------------------------------------------------------
(* Starting the volume. *)

\* The received diffs are linked at once: no directory gets a gap.
LEMMA NoGapStart == ASSUME IInv, Start PROVE NoGapInv'
<1>0. DataInv /\ ProcInv /\ StateInv /\ ArchiveInv /\ ReceivedInv /\ KeptInv
  BY DEF IInv
<1>1. /\ UNCHANGED <<latest, dirs, gutted>> /\ sm = "Stopped"
      /\ sendto' = [a \in Archives |-> IF a \in archiveSet THEN sendto[a] \cup (recvMgr \ sendto[a])
                                       ELSE sendto[a]]
  BY DEF Start, places
<1>2. server.pc = "idle" /\ admin.pc = "idle"
  BY <1>0, <1>1 DEF StateInv, Administering
<1>3. received = recvMgr /\ dirs \ gutted \subseteq archiveSet /\ archiveSet \subseteq Archives
  BY <1>0, <1>2 DEF ReceivedInv, ArchiveInv, DataInv
<1> SUFFICES ASSUME NEW a \in dirs \ gutted, NEW d \in sendto'[a],
                    NEW g \in latest[a] .. d.snapB.gidB - 1
             PROVE  \E c \in sendto'[a] : Covers(c, g)
  BY <1>1 DEF NoGapInv
<1>4. a \in Archives /\ sendto'[a] = sendto[a] \cup received
  BY <1>1, <1>3
<1>5. d \in Files /\ d.snapB.gidB <= done
  BY <1>0, <1>4 DEF ReceivedInv, DataInv
<1>6. d.snapB.gidB \in Nat /\ done \in Nat /\ latest[a] \in Nat
  BY <1>0, <1>4, <1>5, FileFacts DEF DataInv
<1>7. g \in latest[a] .. done - 1
  BY <1>5, <1>6
<1> QED BY <1>0, <1>4, <1>7 DEF KeptInv

-----------------------------------------------------------------------------
(* The ack. *)

\* What is acknowledged is in the directory of the received diffs.
LEMMA KeptAck == ASSUME IInv, RecvAck PROVE KeptInv'
<1>0. DataInv /\ ProcInv /\ StateInv /\ ReceivedInv /\ KeptInv
  BY DEF IInv
<1>1. server.pc = "ack" /\ UNCHANGED <<dirs, gutted, latest, sendto, received>>
  BY DEF RecvAck, disk, places
<1>2. CASE done' = done
  BY <1>0, <1>1, <1>2, KeptKept
<1>3. CASE done' = server.diff.snapE.gidB
  <2>1. admin.pc = "idle"
    BY <1>0, <1>1 DEF StateInv, Administering
  <2>2. server.diff \in received /\ server.diff \in Files /\ server.diff.snapB.gidB <= done
    BY <1>0, <1>1, <2>1 DEF ReceivedInv, ProcInv
  <2>3. ASSUME NEW a \in dirs \ gutted, NEW g \in latest[a] .. server.diff.snapE.gidB - 1
        PROVE  \E c \in sendto[a] \cup received : Covers(c, g)
    <3>1. /\ latest[a] \in Nat /\ done \in Nat
          /\ server.diff.snapB.gidB \in Nat /\ server.diff.snapE.gidB \in Nat
      BY <1>0, <2>2, FileFacts DEF DataInv
    <3>2. CASE g < done
      <4>1. g \in latest[a] .. done - 1
        BY <3>1, <3>2
      <4> QED BY <1>0, <4>1 DEF KeptInv
    <3>3. CASE ~(g < done)
      <4>1. server.diff.snapB.gidB <= g /\ g < server.diff.snapE.gidB
        BY <2>2, <3>1, <3>3
      <4> QED BY <2>2, <4>1 DEF Covers
    <3> QED BY <3>2, <3>3
  <2> QED BY <1>1, <1>3, <2>3 DEF KeptInv
<1> QED BY <1>2, <1>3 DEF RecvAck

-----------------------------------------------------------------------------
(* The commands on the archives of a volume. *)

AdminStates == {"Clear", "Stopped"} \cup Administering

\* Nothing else goes on.
LEMMA AdminAlone ==
    ASSUME IInv, Administer
    PROVE  /\ UNCHANGED aside /\ sm \in AdminStates /\ sm' \in AdminStates
           /\ server.pc = "idle" /\ \A w \in Workers : ~Busy(w)
           /\ \A s \in Stoppers : stopper[s] \notin {"empty", "remove", "commit"}
<1>a. StateInv /\ BusyInv /\ (admin.pc # "idle" => sm \in Administering)
  BY DEF IInv, StateInv
<1> DEFINE Alone == /\ UNCHANGED aside /\ sm' \in AdminStates
                    /\ sm \in Administering \/ (sm \in {"Clear", "Stopped"} /\ ActionNotRunning)
<1>1. ASSUME NEW a \in Archives, NEW ensure \in BOOLEAN, AddBegin(a, ensure) PROVE Alone
  BY <1>a, <1>1 DEF AddBegin, SaveInfo, AdminStates, Administering, memory
<1>2. ASSUME NEW a \in Archives, NEW ensure \in BOOLEAN, AddFirst(a, ensure) PROVE Alone
  BY <1>a, <1>2 DEF AddFirst, AdminStates, Administering, memory
<1>3. ASSUME MakeReceived PROVE Alone
  BY <1>a, <1>3 DEF MakeReceived, AdminStates, Administering, memory
<1>4. ASSUME MakeSendto PROVE Alone
  BY <1>a, <1>4 DEF MakeSendto, AdminStates, Administering, memory
<1>5. ASSUME AddSave PROVE Alone
  BY <1>a, <1>5 DEF AddSave, SaveInfo, AdminStates, Administering, memory
<1>6. ASSUME AddDir PROVE Alone
  BY <1>a, <1>6 DEF AddDir, NoDir, NoChange, AdminStates, Administering, memory
<1>7. ASSUME AddFails PROVE Alone
  BY <1>a, <1>7 DEF AddFails, NoChange, AdminStates, Administering, memory
<1>8. ASSUME NEW a \in Archives, DeleteBegin(a) PROVE Alone
  BY <1>a, <1>8 DEF DeleteBegin, AdminStates, Administering, memory
<1>9. ASSUME DeleteFile PROVE Alone
  BY <1>a, <1>9 DEF DeleteFile, AdminStates, Administering, memory
<1>10. ASSUME DeleteDir PROVE Alone
  BY <1>a, <1>10 DEF DeleteDir, AdminStates, Administering, memory
<1>11. ASSUME DeleteInfo PROVE Alone
  BY <1>a, <1>11 DEF DeleteInfo, Clearing, NoChange, AdminStates, Administering, memory
<1>12. ASSUME ClearVol PROVE Alone
  BY <1>a, <1>12 DEF ClearVol, Clearing, NoChange, AdminStates, Administering, memory
<1>13. ASSUME ClearReceived PROVE Alone
  BY <1>a, <1>13 DEF ClearReceived, AdminStates, Administering, memory
<1>14. ASSUME ClearSendto PROVE Alone
  BY <1>a, <1>14 DEF ClearSendto, AdminStates, Administering, memory
<1>15. ASSUME ClearInfo PROVE Alone
  BY <1>a, <1>15 DEF ClearInfo, AdminStates, Administering, memory
<1>16. ASSUME ClearEnd PROVE Alone
  BY <1>a, <1>16 DEF ClearEnd, NoChange, AdminStates, Administering, memory
<1>b. Alone
  <2> HIDE DEF Alone
  <2> QED
    BY <1>1, <1>2, <1>3, <1>4, <1>5, <1>6, <1>7, <1>8, <1>9, <1>10, <1>11, <1>12, <1>13, <1>14,
       <1>15, <1>16 DEF Administer
<1>c. ASSUME NEW w \in Workers
      PROVE  ~Busy(w)
  BY <1>a, <1>b DEF BusyInv, ActionNotRunning
<1>d. sm \in AdminStates
  BY <1>b DEF AdminStates
<1>e. server.pc = "idle" /\ \A s \in Stoppers : stopper[s] \notin {"empty", "remove", "commit"}
  BY <1>a, <1>d DEF StateInv, AdminStates, Administering
<1> QED BY <1>b, <1>c, <1>d, <1>e

\* How far the command is, and the state of the volume.
AdminFits ==
    /\ admin \in [pc : AdminPcs, archive : Archives \cup {"none"}, ensure : BOOLEAN]
    /\ admin.pc \notin {"idle", "clear"} => admin.archive \in Archives
    /\ admin.pc \in {"init", "save", "dir"} <=> sm = "AddArchiveInfo"
    /\ admin.pc \in {"files", "info"} => sm = "DeleteArchiveInfo"
    /\ admin.pc # "idle" <=> sm \in Administering

LEMMA ProcAdmin == ASSUME IInv, Administer PROVE ProcInv' /\ StateInv'
<1>a. ProcInv /\ StateInv /\ AdminFits
  BY DEF IInv, ProcInv, StateInv, AdminFits
<1>1. ASSUME NEW a \in Archives, NEW ensure \in BOOLEAN, AddBegin(a, ensure) PROVE AdminFits'
  BY <1>a, <1>1 DEF AddBegin, SaveInfo, AdminFits, AdminPcs, Administering, memory
<1>2. ASSUME NEW a \in Archives, NEW ensure \in BOOLEAN, AddFirst(a, ensure) PROVE AdminFits'
  BY <1>a, <1>2 DEF AddFirst, AdminFits, AdminPcs, Administering, memory
<1>3. ASSUME MakeReceived PROVE AdminFits'
  BY <1>a, <1>3 DEF MakeReceived, AdminFits, AdminPcs, Administering, memory
<1>4. ASSUME MakeSendto PROVE AdminFits'
  BY <1>a, <1>4 DEF MakeSendto, AdminFits, AdminPcs, Administering, memory
<1>5. ASSUME AddSave PROVE AdminFits'
  BY <1>a, <1>5 DEF AddSave, SaveInfo, AdminFits, AdminPcs, Administering, memory
<1>6. ASSUME AddDir PROVE AdminFits'
  BY <1>a, <1>6 DEF AddDir, NoDir, NoChange, AdminFits, AdminPcs, Administering, memory
<1>7. ASSUME AddFails PROVE AdminFits'
  BY <1>a, <1>7 DEF AddFails, NoChange, AdminFits, AdminPcs, Administering, memory
<1>8. ASSUME NEW a \in Archives, DeleteBegin(a) PROVE AdminFits'
  BY <1>a, <1>8 DEF DeleteBegin, AdminFits, AdminPcs, Administering, memory
<1>9. ASSUME DeleteFile PROVE AdminFits'
  BY <1>a, <1>9 DEF DeleteFile, AdminFits, AdminPcs, Administering, memory
<1>10. ASSUME DeleteDir PROVE AdminFits'
  BY <1>a, <1>10 DEF DeleteDir, AdminFits, AdminPcs, Administering, memory
<1>11. ASSUME DeleteInfo PROVE AdminFits'
  <2>1. sm = "DeleteArchiveInfo"
    BY <1>a, <1>11 DEF DeleteInfo, AdminFits
  <2>2. /\ Clearing \in [pc : AdminPcs, archive : Archives \cup {"none"}, ensure : BOOLEAN]
        /\ Clearing.pc = "clear"
    BY DEF Clearing, NoChange, AdminPcs
  <2>3. CASE admin' = Clearing /\ sm' = sm
    BY <2>1, <2>2, <2>3 DEF AdminFits, AdminPcs, Administering
  <2>4. CASE admin' = NoChange /\ sm' = "Stopped"
    BY <2>4 DEF NoChange, AdminFits, AdminPcs, Administering
  <2> QED BY <1>11, <2>3, <2>4 DEF DeleteInfo
<1>12. ASSUME ClearVol PROVE AdminFits'
  BY <1>a, <1>12 DEF ClearVol, Clearing, NoChange, AdminFits, AdminPcs, Administering, memory
<1>13. ASSUME ClearReceived PROVE AdminFits'
  BY <1>a, <1>13 DEF ClearReceived, AdminFits, AdminPcs, Administering, memory
<1>14. ASSUME ClearSendto PROVE AdminFits'
  BY <1>a, <1>14 DEF ClearSendto, AdminFits, AdminPcs, Administering, memory
<1>15. ASSUME ClearInfo PROVE AdminFits'
  BY <1>a, <1>15 DEF ClearInfo, AdminFits, AdminPcs, Administering, memory
<1>16. ASSUME ClearEnd PROVE AdminFits'
  BY <1>a, <1>16 DEF ClearEnd, NoChange, AdminFits, AdminPcs, Administering, memory
<1>b. AdminFits'
  BY <1>1, <1>2, <1>3, <1>4, <1>5, <1>6, <1>7, <1>8, <1>9, <1>10, <1>11, <1>12, <1>13, <1>14,
     <1>15, <1>16 DEF Administer
<1>c. UNCHANGED <<worker, server, stopper, queue>>
  BY AdminAlone DEF aside
<1>d. ProcInv'
  BY <1>a, <1>b, <1>c DEF ProcInv, AdminFits
<1>e. StateInv'
  BY <1>a, <1>b, <1>c, AdminAlone DEF StateInv, AdminFits, AdminStates, Administering
<1> QED BY <1>d, <1>e

\* An archive keeps all its files, or its directory is empty and it has reached
\* what the storage server has acks for, or it has been gutted.
Reduces ==
    /\ archiveSet' \subseteq Archives /\ infos' \subseteq Archives
    /\ dirs' \subseteq Archives /\ gutted' \subseteq dirs'
    /\ received' \subseteq received /\ recvMgr' \in {recvMgr, {}}
    /\ mgr' \in [Archives -> SUBSET Files] /\ sendto' \in [Archives -> SUBSET Files]
    /\ \A a \in Archives : sendto'[a] \subseteq sendto[a]
    /\ latest' \in [Archives -> Nat]
    /\ \A a \in dirs' \ gutted' :
          \/ /\ a \in dirs \ gutted /\ sendto'[a] = sendto[a] /\ received' = received
             /\ latest'[a] = latest[a]
          \/ sendto'[a] = {} /\ latest'[a] = done

LEMMA ReducesAdmin == ASSUME IInv, Administer PROVE Reduces
<1>a. /\ DataInv /\ (admin.pc \notin {"idle", "clear"} => admin.archive \in Archives)
      /\ (\A a \in Archives : a \notin dirs => sendto[a] = {}) /\ done \in Nat
  BY GidsAreBounded DEF IInv, DataInv, ProcInv, ArchiveInv
<1>1. ASSUME NEW a \in Archives, NEW ensure \in BOOLEAN, AddBegin(a, ensure) PROVE Reduces
  BY <1>a, <1>1 DEF AddBegin, SaveInfo, Reduces, DataInv, disk, places, memory
<1>2. ASSUME NEW a \in Archives, NEW ensure \in BOOLEAN, AddFirst(a, ensure) PROVE Reduces
  BY <1>a, <1>2 DEF AddFirst, Reduces, DataInv, disk, places, memory
<1>3. CASE MakeReceived
  BY <1>a, <1>3 DEF MakeReceived, Reduces, DataInv, disk, places, memory
<1>4. CASE MakeSendto
  BY <1>a, <1>4 DEF MakeSendto, Reduces, DataInv, disk, places, memory
<1>5. CASE AddSave
  BY <1>a, <1>5 DEF AddSave, SaveInfo, Reduces, DataInv, disk, places, memory
<1>6. CASE AddDir
  BY <1>a, <1>6 DEF AddDir, NoDir, NoChange, Reduces, DataInv, disk, places, memory
<1>7. CASE AddFails
  BY <1>a, <1>7 DEF AddFails, NoChange, Reduces, DataInv, disk, places, memory
<1>8. ASSUME NEW a \in Archives, DeleteBegin(a) PROVE Reduces
  BY <1>a, <1>8 DEF DeleteBegin, Reduces, DataInv, disk, places, memory
<1>9. CASE DeleteFile
  BY <1>a, <1>9 DEF DeleteFile, Reduces, DataInv, disk, places, memory
<1>10. CASE DeleteDir
  BY <1>a, <1>10 DEF DeleteDir, Reduces, DataInv, disk, places, memory
<1>11. CASE DeleteInfo
  BY <1>a, <1>11 DEF DeleteInfo, Clearing, NoChange, Reduces, DataInv, disk, places, memory
<1>12. CASE ClearVol
  BY <1>a, <1>12 DEF ClearVol, Clearing, NoChange, Reduces, DataInv, disk, places, memory
<1>13. CASE ClearReceived
  BY <1>a, <1>13 DEF ClearReceived, Reduces, DataInv, disk, places, memory
<1>14. CASE ClearSendto
  BY <1>a, <1>14 DEF ClearSendto, Reduces, DataInv, disk, places, memory
<1>15. CASE ClearInfo
  BY <1>a, <1>15 DEF ClearInfo, Reduces, DataInv, disk, places, memory
<1>16. CASE ClearEnd
  BY <1>a, <1>16 DEF ClearEnd, NoChange, Reduces, DataInv, disk, places, memory
<1> QED
  BY <1>1, <1>2, <1>3, <1>4, <1>5, <1>6, <1>7, <1>8, <1>9, <1>10, <1>11, <1>12, <1>13, <1>14,
     <1>15, <1>16 DEF Administer

LEMMA DataAdmin == ASSUME IInv, Administer PROVE DataInv'
<1>1. UNCHANGED <<ac, done, nrCrashes>>
  BY AdminAlone DEF aside
<1>2. DataInv /\ Reduces
  BY ReducesAdmin DEF IInv
<1> QED BY <1>1, <1>2 DEF DataInv, Reduces

LEMMA ArchiveAdmin == ASSUME IInv, Administer PROVE ArchiveInv'
<1>a. /\ DataInv /\ ProcInv /\ StateInv /\ ArchiveInv
      /\ (admin.pc \notin {"idle", "clear"} => admin.archive \in Archives)
  BY DEF IInv, ProcInv
<1>1. ASSUME NEW a \in Archives, NEW ensure \in BOOLEAN, AddBegin(a, ensure) PROVE ArchiveInv'
  BY <1>a, <1>1 DEF AddBegin, SaveInfo, DataInv, StateInv, ArchiveInv, Administering, disk,
                    places, memory
<1>2. ASSUME NEW a \in Archives, NEW ensure \in BOOLEAN, AddFirst(a, ensure) PROVE ArchiveInv'
  BY <1>a, <1>2 DEF AddFirst, DataInv, StateInv, ArchiveInv, Administering, disk, places, memory
<1>3. CASE MakeReceived
  BY <1>a, <1>3 DEF MakeReceived, DataInv, StateInv, ArchiveInv, Administering, disk, places,
                    memory
<1>4. CASE MakeSendto
  BY <1>a, <1>4 DEF MakeSendto, DataInv, StateInv, ArchiveInv, Administering, disk, places, memory
<1>5. CASE AddSave
  BY <1>a, <1>5 DEF AddSave, SaveInfo, DataInv, StateInv, ArchiveInv, Administering, disk,
                    places, memory
<1>6. CASE AddDir
  BY <1>a, <1>6 DEF AddDir, NoDir, NoChange, DataInv, StateInv, ArchiveInv, Administering, disk,
                    places, memory
<1>7. CASE AddFails
  BY <1>a, <1>7 DEF AddFails, NoChange, DataInv, StateInv, ArchiveInv, Administering, disk,
                    places, memory
<1>8. ASSUME NEW a \in Archives, DeleteBegin(a) PROVE ArchiveInv'
  BY <1>a, <1>8 DEF DeleteBegin, DataInv, StateInv, ArchiveInv, Administering, disk, places,
                    memory
<1>9. CASE DeleteFile
  BY <1>a, <1>9 DEF DeleteFile, DataInv, StateInv, ArchiveInv, Administering, disk, places, memory
<1>10. CASE DeleteDir
  BY <1>a, <1>10 DEF DeleteDir, DataInv, StateInv, ArchiveInv, Administering, disk, places, memory
<1>11. CASE DeleteInfo
  BY <1>a, <1>11 DEF DeleteInfo, Clearing, NoChange, DataInv, StateInv, ArchiveInv,
                     Administering, disk, places, memory
<1>12. CASE ClearVol
  BY <1>a, <1>12 DEF ClearVol, Clearing, NoChange, DataInv, StateInv, ArchiveInv, Administering,
                     disk, places, memory
<1>13. CASE ClearReceived
  BY <1>a, <1>13 DEF ClearReceived, DataInv, StateInv, ArchiveInv, Administering, disk, places,
                     memory
<1>14. CASE ClearSendto
  BY <1>a, <1>14 DEF ClearSendto, DataInv, StateInv, ArchiveInv, Administering, disk, places,
                     memory
<1>15. CASE ClearInfo
  BY <1>a, <1>15 DEF ClearInfo, DataInv, StateInv, ArchiveInv, Administering, disk, places, memory
<1>16. CASE ClearEnd
  BY <1>a, <1>16 DEF ClearEnd, NoChange, DataInv, StateInv, ArchiveInv, Administering, disk,
                     places, memory
<1> QED
  BY <1>1, <1>2, <1>3, <1>4, <1>5, <1>6, <1>7, <1>8, <1>9, <1>10, <1>11, <1>12, <1>13, <1>14,
     <1>15, <1>16 DEF Administer

LEMMA ReceivedAdmin == ASSUME IInv, Administer PROVE ReceivedInv'
<1>a. /\ server.pc = "idle" /\ UNCHANGED <<server, done>>
      /\ \A a \in Archives : sendto'[a] \subseteq sendto[a]
      /\ received' \subseteq received /\ dirs \subseteq Archives
  BY AdminAlone, ReducesAdmin DEF aside, Reduces, IInv, DataInv
<1>b. /\ admin.pc # "clear" => received = recvMgr
      /\ admin.pc = "clear" => recvMgr = {}
      /\ "received" \notin tree => received = {}
      /\ admin.pc # "idle" <=> sm \in Administering
  BY <1>a DEF IInv, ReceivedInv, ArchiveInv, StateInv
<1> DEFINE Same == /\ admin'.pc # "clear" => received' = recvMgr'
                   /\ admin'.pc = "clear" => recvMgr' = {}
<1>1. ASSUME NEW a \in Archives, NEW ensure \in BOOLEAN, AddBegin(a, ensure) PROVE Same
  BY <1>a, <1>b, <1>1 DEF AddBegin, SaveInfo, Administering, disk, places, memory
<1>2. ASSUME NEW a \in Archives, NEW ensure \in BOOLEAN, AddFirst(a, ensure) PROVE Same
  BY <1>a, <1>b, <1>2 DEF AddFirst, Administering, disk, places, memory
<1>3. ASSUME MakeReceived PROVE Same
  BY <1>a, <1>b, <1>3 DEF MakeReceived, disk, places, memory
<1>4. ASSUME MakeSendto PROVE Same
  BY <1>a, <1>b, <1>4 DEF MakeSendto, disk, places, memory
<1>5. ASSUME AddSave PROVE Same
  BY <1>a, <1>b, <1>5 DEF AddSave, SaveInfo, disk, places, memory
<1>6. ASSUME AddDir PROVE Same
  BY <1>a, <1>b, <1>6 DEF AddDir, NoDir, NoChange, disk, places, memory
<1>7. ASSUME AddFails PROVE Same
  BY <1>a, <1>b, <1>7 DEF AddFails, NoChange, disk, places, memory
<1>8. ASSUME NEW a \in Archives, DeleteBegin(a) PROVE Same
  BY <1>a, <1>b, <1>8 DEF DeleteBegin, Administering, disk, places, memory
<1>9. ASSUME DeleteFile PROVE Same
  BY <1>a, <1>b, <1>9 DEF DeleteFile, disk, places, memory
<1>10. ASSUME DeleteDir PROVE Same
  BY <1>a, <1>b, <1>10 DEF DeleteDir, disk, places, memory
<1>11. ASSUME DeleteInfo PROVE Same
  BY <1>a, <1>b, <1>11 DEF DeleteInfo, Clearing, NoChange, disk, places, memory
<1>12. ASSUME ClearVol PROVE Same
  BY <1>a, <1>b, <1>12 DEF ClearVol, Clearing, NoChange, disk, places, memory
<1>13. ASSUME ClearReceived PROVE Same
  BY <1>a, <1>b, <1>13 DEF ClearReceived, disk, places, memory
<1>14. ASSUME ClearSendto PROVE Same
  BY <1>a, <1>b, <1>14 DEF ClearSendto, disk, places, memory
<1>15. ASSUME ClearInfo PROVE Same
  BY <1>a, <1>b, <1>15 DEF ClearInfo, disk, places, memory
<1>16. ASSUME ClearEnd PROVE Same
  BY <1>a, <1>b, <1>16 DEF ClearEnd, NoChange, disk, places, memory
<1>c. Same
  <2> HIDE DEF Same
  <2> QED
    BY <1>1, <1>2, <1>3, <1>4, <1>5, <1>6, <1>7, <1>8, <1>9, <1>10, <1>11, <1>12, <1>13, <1>14,
       <1>15, <1>16 DEF Administer
<1> QED BY <1>a, <1>c DEF IInv, ReceivedInv

LEMMA MatchAdmin == ASSUME IInv, Administer PROVE MatchInv'
<1>a. DataInv /\ ArchiveInv /\ \A w \in Workers : worker[w].pc # "unlink"
  BY AdminAlone DEF IInv, Busy
<1> DEFINE Match(a) == /\ mgr[a] \subseteq sendto[a]
                       /\ \/ a \in gutted
                          \/ admin.pc = "files" /\ admin.archive = a
                          \/ sendto[a] \subseteq mgr[a]
<1>b. \A a \in archiveSet \cap dirs : Match(a)
  BY <1>a DEF IInv, MatchInv, Unlinking
<1>m. (admin.pc \notin {"idle", "clear"} => admin.archive \in Archives)
      /\ (admin.pc = "clear" => archiveSet = {}) /\ (admin.pc = "idle" <=> sm \notin Administering)
  BY DEF IInv, ProcInv, ArchiveInv, StateInv
<1> DEFINE Matched == \A a \in archiveSet' \cap dirs' : Match(a)'
<1>1. ASSUME NEW a \in Archives, NEW ensure \in BOOLEAN, AddBegin(a, ensure) PROVE Matched
  BY <1>a, <1>b, <1>m, <1>1 DEF AddBegin, SaveInfo, DataInv, ArchiveInv, Administering, disk,
                                places, memory
<1>2. ASSUME NEW a \in Archives, NEW ensure \in BOOLEAN, AddFirst(a, ensure) PROVE Matched
  BY <1>a, <1>b, <1>m, <1>2 DEF AddFirst, DataInv, ArchiveInv, Administering, disk, places, memory
<1>3. ASSUME MakeReceived PROVE Matched
  BY <1>a, <1>b, <1>m, <1>3 DEF MakeReceived, DataInv, ArchiveInv, Administering, disk, places,
                                memory
<1>4. ASSUME MakeSendto PROVE Matched
  BY <1>a, <1>b, <1>m, <1>4 DEF MakeSendto, DataInv, ArchiveInv, Administering, disk, places,
                                memory
<1>5. ASSUME AddSave PROVE Matched
  BY <1>a, <1>b, <1>m, <1>5 DEF AddSave, SaveInfo, DataInv, ArchiveInv, Administering, disk,
                                places, memory
<1>6. ASSUME AddDir PROVE Matched
  BY <1>a, <1>b, <1>m, <1>6 DEF AddDir, NoDir, NoChange, DataInv, ArchiveInv, Administering,
                                disk, places, memory
<1>7. ASSUME AddFails PROVE Matched
  BY <1>a, <1>b, <1>m, <1>7 DEF AddFails, NoChange, DataInv, ArchiveInv, Administering, disk,
                                places, memory
<1>8. ASSUME NEW a \in Archives, DeleteBegin(a) PROVE Matched
  BY <1>a, <1>b, <1>m, <1>8 DEF DeleteBegin, DataInv, ArchiveInv, Administering, disk, places,
                                memory
<1>9. ASSUME DeleteFile PROVE Matched
  BY <1>a, <1>b, <1>m, <1>9 DEF DeleteFile, DataInv, ArchiveInv, Administering, disk, places,
                                memory
<1>10. ASSUME DeleteDir PROVE Matched
  BY <1>a, <1>b, <1>m, <1>10 DEF DeleteDir, DataInv, ArchiveInv, Administering, disk, places,
                                 memory
<1>11. ASSUME DeleteInfo PROVE Matched
  BY <1>a, <1>b, <1>m, <1>11 DEF DeleteInfo, Clearing, NoChange, DataInv, ArchiveInv,
                                 Administering, disk, places, memory
<1>12. ASSUME ClearVol PROVE Matched
  BY <1>a, <1>b, <1>m, <1>12 DEF ClearVol, Clearing, NoChange, DataInv, ArchiveInv,
                                 Administering, disk, places, memory
<1>13. ASSUME ClearReceived PROVE Matched
  BY <1>a, <1>b, <1>m, <1>13 DEF ClearReceived, DataInv, ArchiveInv, Administering, disk,
                                 places, memory
<1>14. ASSUME ClearSendto PROVE Matched
  BY <1>a, <1>b, <1>m, <1>14 DEF ClearSendto, DataInv, ArchiveInv, Administering, disk, places,
                                 memory
<1>15. ASSUME ClearInfo PROVE Matched
  BY <1>a, <1>b, <1>m, <1>15 DEF ClearInfo, DataInv, ArchiveInv, Administering, disk, places,
                                 memory
<1>16. ASSUME ClearEnd PROVE Matched
  BY <1>a, <1>b, <1>m, <1>16 DEF ClearEnd, NoChange, DataInv, ArchiveInv, Administering, disk,
                                 places, memory
<1>c. Matched
  <2> HIDE DEF Matched
  <2> QED
    BY <1>1, <1>2, <1>3, <1>4, <1>5, <1>6, <1>7, <1>8, <1>9, <1>10, <1>11, <1>12, <1>13, <1>14,
       <1>15, <1>16 DEF Administer
<1> QED BY <1>c DEF MatchInv

LEMMA BusyAdmin == ASSUME IInv, Administer PROVE BusyInv' /\ ListInv'
<1>1. /\ UNCHANGED <<ac, worker>> /\ \A w \in Workers : ~Busy(w)
      /\ BusyInv
  BY AdminAlone DEF aside, IInv
<1>2. \A w \in Workers : ~Busy(w)'
  BY <1>1 DEF Busy
<1> QED BY <1>1, <1>2 DEF BusyInv, ListInv, ListOf, Busy

LEMMA NoGapAdmin == ASSUME IInv, Administer PROVE NoGapInv' /\ KeptInv'
<1>1. NoGapInv /\ KeptInv /\ Reduces /\ done' = done /\ done \in Nat
  BY ReducesAdmin, AdminAlone, GidsAreBounded DEF IInv, DataInv, aside
<1>2. NoGapInv'
  BY <1>1 DEF NoGapInv, Reduces
<1>3. KeptInv'
  BY <1>1 DEF KeptInv, Reduces
<1> QED BY <1>2, <1>3

LEMMA LinkAdmin == ASSUME IInv, Administer PROVE LinkInv' /\ ScheduleInv'
<1>1. server'.pc = "idle" /\ sm' \notin {"Started", "WlogRecv", "WaitForEmpty"}
  BY AdminAlone DEF aside, AdminStates, Administering
<1> QED BY <1>1 DEF LinkInv, ScheduleInv, ToSchedule

-----------------------------------------------------------------------------
(* Every conjunct is kept by every action. *)

\* The managers and the files.
LEMMA DataStep == IInv /\ Next => DataInv'
<1> SUFFICES ASSUME IInv, Next PROVE DataInv'
  OBVIOUS
<1>1. CASE Administer
  BY <1>1, DataAdmin
<1>2. ASSUME NEW e \in 1 .. MaxGid, RecvStart(e) PROVE DataInv'
  BY <1>2, DataKept DEF IInv, RecvStart, disk, places
<1>3. CASE RecvFails
  BY <1>3, DataKept DEF IInv, RecvFails, RecvEnds, disk, places
<1>4. CASE LinkBegin
  BY <1>4, DataKept DEF IInv, LinkBegin, disk, places
<1>5. CASE LinkFails
  BY <1>5, DataKept DEF IInv, LinkFails, RecvEnds, disk, places
<1>6. CASE RecvFinish
  BY <1>6, DataKept DEF IInv, RecvFinish, Push, RecvEnds, disk, places
<1>7. ASSUME NEW w \in Workers, Pop(w) PROVE DataInv'
  BY <1>7, DataKept DEF IInv, Pop, disk, places
<1>8. ASSUME NEW w \in Workers, SendNotNow(w) PROVE DataInv'
  BY <1>8, DataKept DEF IInv, SendNotNow, To, disk, places, memory
<1>9. ASSUME NEW w \in Workers, DontSend(w) PROVE DataInv'
  BY <1>9, DataKept DEF IInv, DontSend, disk, places, memory
<1>10. ASSUME NEW w \in Workers, PushAgain(w) PROVE DataInv'
  BY <1>10, DataKept DEF IInv, PushAgain, Push, disk, places
<1>11. ASSUME NEW w \in Workers, SetError(w) PROVE DataInv'
  BY <1>11, DataKept DEF IInv, SetError, disk, places
<1>12. ASSUME NEW s \in Stoppers, NEW mode \in Modes, StopBegin(s, mode) PROVE DataInv'
  BY <1>12, DataKept DEF IInv, StopBegin, StopEnds, StopGo, disk, places, EmptyEnd, Push
<1>13. ASSUME NEW s \in Stoppers, StopReady(s) PROVE DataInv'
  BY <1>13, DataKept DEF IInv, StopReady, StopGo, disk, places, EmptyEnd, Push, StopEnds
<1>14. ASSUME NEW s \in Stoppers, StopRemoveTasks(s) PROVE DataInv'
  BY <1>14, DataKept DEF IInv, StopRemoveTasks, disk, places
<1>15. ASSUME NEW s \in Stoppers, StopCommit(s) PROVE DataInv'
  BY <1>15, DataKept DEF IInv, StopCommit, StopEnds, disk, places
<1>16. ASSUME NEW s \in Stoppers, EmptyPush(s) PROVE DataInv'
  BY <1>16, DataKept DEF IInv, EmptyPush, Push, disk, places, procs
<1>17. ASSUME NEW s \in Stoppers, EmptyDone(s) PROVE DataInv'
  BY <1>17, DataKept DEF IInv, EmptyDone, EmptyEnd, disk, places, StopEnds
<1>18. ASSUME NEW s \in Stoppers, StopTimeout(s) PROVE DataInv'
  BY <1>18, DataKept DEF IInv, StopTimeout, StopEnds, disk, places
<1>19. ASSUME NEW a \in Archives, Kick(a) PROVE DataInv'
  BY <1>19, DataKept DEF IInv, Kick, Push, disk, places, procs
<1>20. CASE Link
  BY <1>20, DataLink
<1> USE GidsAreBounded DEF IInv, DataInv, ProcInv, BusyInv, ArchiveInv, WorkerPcs, ServerPcs, Busy
<1>21. CASE RecvSave
  BY <1>21 DEF RecvSave, memory, places
<1>22. CASE RecvRegister
  BY <1>22 DEF RecvRegister, disk, places
<1>23. CASE RecvAck
  <2>1. Acks
    BY <1>23, AckEffect DEF IInv
  <2> QED BY FileFacts, <2>1 DEF Acks, disk, places, NoRecv
<1>24. CASE LinkDone
  BY <1>24 DEF LinkDone, disk, places
<1>25. CASE Clean
  BY <1>25 DEF Clean, memory, procs, places
<1>26. ASSUME NEW w \in Workers, SendBegin(w) PROVE DataInv'
  <2>1. Sends(w)
    BY <1>26, SendEffect DEF IInv
  <2> QED BY <2>1 DEF Sends, At, Becomes, steady
<1>27. ASSUME NEW w \in Workers, SendAnswered(w) PROVE DataInv'
  <2>1. IsAnswered(w)
    BY <1>27, AnsweredEffect DEF IInv
  <2> QED BY <2>1 DEF IsAnswered, Grows, At, Becomes, steady
<1>28. ASSUME NEW w \in Workers, SendLater(w) PROVE DataInv'
  <2>1. Leaves(w, "push") /\ Grows
    BY <1>28, LaterEffect DEF IInv
  <2> QED BY <2>1 DEF Leaves, Grows, At, Becomes, steady
<1>29. ASSUME NEW w \in Workers, SendRefused(w) PROVE DataInv'
  <2>1. Leaves(w, "error") /\ UNCHANGED latest
    BY <1>29, RefusedEffect DEF IInv
  <2> QED BY <2>1 DEF Leaves, At, Becomes, steady
<1>30. ASSUME NEW w \in Workers, SendCutOff(w) PROVE DataInv'
  <2>1. IsCutOff(w)
    BY <1>30, CutOffEffect DEF IInv
  <2> QED BY <2>1 DEF IsCutOff, At, Becomes, steady, NoTask
<1>31. ASSUME NEW w \in Workers, SendErase(w) PROVE DataInv'
  <2>1. Erases(w)
    BY <1>31, EraseEffect DEF IInv
  <2> QED BY <2>1 DEF Erases, At, Becomes, steady
<1>32. ASSUME NEW w \in Workers, SendUnlink(w) PROVE DataInv'
  <2>1. Unlinks(w)
    BY <1>32, UnlinkEffect DEF IInv
  <2> QED BY <2>1 DEF Unlinks, At, Becomes, steady
<1>33. ASSUME NEW w \in Workers, SendEnd(w) PROVE DataInv'
  <2>1. Leaves(w, "push") /\ UNCHANGED latest /\ worker[w].pc = "unlink" /\ worker[w].list = <<>>
    BY <1>33, EndEffect DEF IInv
  <2> QED BY <2>1 DEF Leaves, At, Becomes, steady
<1>34. CASE Start
  BY <1>34 DEF Start, Push, procs, places
<1>35. CASE Crash
  BY <1>35 DEF Crash, NoChange, disk, places
<1> HIDE DEF IInv, DataInv, ProcInv, BusyInv, ArchiveInv, WorkerPcs, ServerPcs, Busy
<1> QED
  BY <1>1, <1>2, <1>3, <1>4, <1>5, <1>6, <1>7, <1>8, <1>9, <1>10, <1>11, <1>12, <1>13,
     <1>14, <1>15, <1>16, <1>17, <1>18, <1>19, <1>20, <1>21, <1>22, <1>23, <1>24, <1>25,
     <1>26, <1>27, <1>28, <1>29, <1>30, <1>31, <1>32, <1>33, <1>34, <1>35 DEF Next,
     ReceiveOn, Transfer, Stop, Command, Modes

\* The threads.
LEMMA ProcStep == IInv /\ Next => ProcInv'
<1> SUFFICES ASSUME IInv, Next PROVE ProcInv'
  OBVIOUS
<1>1. CASE Administer
  BY <1>1, ProcAdmin
<1>2. CASE Clean
  BY <1>2, ProcKept DEF IInv, Clean, memory, procs, places
<1>3. ASSUME NEW w \in Workers, Transfer(w) PROVE ProcInv'
  BY <1>3, ProcTransfer
<1> USE GidsAreBounded DEF IInv, DataInv, ProcInv, WorkerPcs, ServerPcs, Modes
<1>4. ASSUME NEW e \in 1 .. MaxGid, RecvStart(e) PROVE ProcInv'
  <2>1. /\ server' = [pc |-> "recv", diff |-> Diff(done, e), todo |-> {}]
        /\ Diff(done, e) \in Files /\ Diff(done, e).snapB.gidB = done
    BY <1>4, StartEffect DEF IInv
  <2> QED BY <1>4, <2>1 DEF RecvStart, disk, places
<1>5. CASE RecvFails
  BY <1>5 DEF RecvFails, RecvEnds, disk, places, NoRecv
<1>6. CASE RecvSave
  BY <1>6 DEF RecvSave, memory, places
<1>7. CASE RecvRegister
  BY <1>7 DEF RecvRegister, disk, places
<1>8. CASE RecvAck
  <2>1. Acks
    BY <1>8, AckEffect DEF IInv
  <2> QED BY <2>1 DEF Acks, disk, places, NoRecv
<1>9. CASE LinkBegin
  BY <1>9 DEF LinkBegin, disk, places
<1>10. CASE Link
  <2>1. Links
    BY <1>10, LinkEffect DEF IInv
  <2> QED BY <2>1 DEF Links
<1>11. CASE LinkFails
  BY <1>11 DEF LinkFails, RecvEnds, disk, places, NoRecv
<1>12. CASE LinkDone
  BY <1>12 DEF LinkDone, disk, places
<1>13. CASE RecvFinish
  BY <1>13 DEF RecvFinish, Push, RecvEnds, disk, places, NoRecv
<1>14. ASSUME NEW s \in Stoppers, NEW mode \in Modes, StopBegin(s, mode) PROVE ProcInv'
  BY ZenonT(40), <1>14 DEF StopBegin, MuFree, Ready, StopEnds, StopGo, disk, places, EmptyEnd,
                           Push, pSteadyStates
<1>15. ASSUME NEW s \in Stoppers, StopReady(s) PROVE ProcInv'
  BY <1>15 DEF StopReady, Ready, StopGo, disk, places, EmptyEnd, Push, StopEnds, pSteadyStates
<1>16. ASSUME NEW s \in Stoppers, StopRemoveTasks(s) PROVE ProcInv'
  BY <1>16 DEF StopRemoveTasks, disk, places
<1>17. ASSUME NEW s \in Stoppers, StopCommit(s) PROVE ProcInv'
  BY <1>17 DEF StopCommit, StopEnds, disk, places
<1>18. ASSUME NEW s \in Stoppers, EmptyPush(s) PROVE ProcInv'
  BY <1>18 DEF EmptyPush, Push, disk, places, procs
<1>19. ASSUME NEW s \in Stoppers, EmptyDone(s) PROVE ProcInv'
  BY <1>19 DEF EmptyDone, EmptyEnd, disk, places, StopEnds
<1>20. ASSUME NEW s \in Stoppers, StopTimeout(s) PROVE ProcInv'
  BY <1>20 DEF StopTimeout, MuFree, StopEnds, disk, places
<1>21. CASE Start
  BY <1>21 DEF Start, Push, procs, places
<1>22. ASSUME NEW a \in Archives, Kick(a) PROVE ProcInv'
  BY <1>22 DEF Kick, Push, disk, places, procs
<1>23. CASE Crash
  BY <1>23 DEF Crash, AdminPcs, NoChange, NoRecv, NoTask, disk, places
<1> HIDE DEF IInv, DataInv, ProcInv, WorkerPcs, ServerPcs, Modes
<1> QED
  BY <1>1, <1>2, <1>3, <1>4, <1>5, <1>6, <1>7, <1>8, <1>9, <1>10, <1>11, <1>12, <1>13,
     <1>14, <1>15, <1>16, <1>17, <1>18, <1>19, <1>20, <1>21, <1>22, <1>23 DEF Next,
     ReceiveOn, Stop, Command, Modes

\* One handler at a time.
LEMMA StateStep == IInv /\ Next => StateInv'
<1> SUFFICES ASSUME IInv, Next PROVE StateInv'
  OBVIOUS
<1>1. CASE Administer
  BY <1>1, ProcAdmin
<1>2. CASE Clean
  BY <1>2, StateKept DEF IInv, Clean, memory, procs, places
<1>3. ASSUME NEW w \in Workers, Pop(w) PROVE StateInv'
  BY <1>3, StateKept DEF IInv, Pop, disk, places
<1>4. ASSUME NEW w \in Workers, SendNotNow(w) PROVE StateInv'
  BY <1>4, StateKept DEF IInv, SendNotNow, To, disk, places, memory
<1>5. ASSUME NEW w \in Workers, DontSend(w) PROVE StateInv'
  BY <1>5, StateKept DEF IInv, DontSend, disk, places, memory
<1>6. ASSUME NEW w \in Workers, SendBegin(w) PROVE StateInv'
  BY <1>6, StateKept DEF IInv, SendBegin, disk, places
<1>7. ASSUME NEW w \in Workers, SendAnswered(w) PROVE StateInv'
  BY <1>7, StateKept DEF IInv, SendAnswered, Received, To, disk, places, memory
<1>8. ASSUME NEW w \in Workers, SendLater(w) PROVE StateInv'
  BY <1>8, StateKept DEF IInv, SendLater, Leave, Received, disk, places, CloseAction
<1>9. ASSUME NEW w \in Workers, SendRefused(w) PROVE StateInv'
  BY <1>9, StateKept DEF IInv, SendRefused, Leave, disk, places, CloseAction
<1>10. ASSUME NEW w \in Workers, SendCutOff(w) PROVE StateInv'
  BY <1>10, StateKept DEF IInv, SendCutOff, CloseAction, disk, places
<1>11. ASSUME NEW w \in Workers, SendErase(w) PROVE StateInv'
  BY <1>11, StateKept DEF IInv, SendErase, To, disk, places
<1>12. ASSUME NEW w \in Workers, SendUnlink(w) PROVE StateInv'
  BY <1>12, StateKept DEF IInv, SendUnlink, memory
<1>13. ASSUME NEW w \in Workers, SendEnd(w) PROVE StateInv'
  BY <1>13, StateKept DEF IInv, SendEnd, Leave, disk, places, CloseAction
<1>14. ASSUME NEW w \in Workers, PushAgain(w) PROVE StateInv'
  BY <1>14, StateKept DEF IInv, PushAgain, Push, disk, places
<1>15. ASSUME NEW w \in Workers, SetError(w) PROVE StateInv'
  BY <1>15, StateKept DEF IInv, SetError, disk, places
<1>16. ASSUME NEW s \in Stoppers, EmptyPush(s) PROVE StateInv'
  BY <1>16, StateKept DEF IInv, EmptyPush, Push, disk, places, procs
<1>17. ASSUME NEW a \in Archives, Kick(a) PROVE StateInv'
  BY <1>17, StateKept DEF IInv, Kick, Push, disk, places, procs
<1> USE DEF IInv, ProcInv, StateInv, Administering, WorkerPcs, ServerPcs, Modes
<1>18. ASSUME NEW e \in 1 .. MaxGid, RecvStart(e) PROVE StateInv'
  <2>1. /\ server' = [pc |-> "recv", diff |-> Diff(done, e), todo |-> {}]
        /\ Diff(done, e) \in Files /\ Diff(done, e).snapB.gidB = done
    BY <1>18, StartEffect DEF IInv
  <2> QED BY <1>18, <2>1 DEF RecvStart, disk, places
<1>19. CASE RecvFails
  BY <1>19 DEF RecvFails, RecvEnds, disk, places, NoRecv
<1>20. CASE RecvSave
  BY <1>20 DEF RecvSave, memory, places
<1>21. CASE RecvRegister
  BY <1>21 DEF RecvRegister, disk, places
<1>22. CASE RecvAck
  <2>1. Acks
    BY <1>22, AckEffect DEF IInv
  <2> QED BY <2>1 DEF Acks, disk, places, NoRecv
<1>23. CASE LinkBegin
  BY <1>23 DEF LinkBegin, disk, places
<1>24. CASE Link
  <2>1. Links
    BY <1>24, LinkEffect DEF IInv
  <2> QED BY <2>1 DEF Links
<1>25. CASE LinkFails
  BY <1>25 DEF LinkFails, RecvEnds, disk, places, NoRecv
<1>26. CASE LinkDone
  BY <1>26 DEF LinkDone, disk, places
<1>27. CASE RecvFinish
  BY <1>27 DEF RecvFinish, Push, RecvEnds, disk, places, NoRecv
<1>28. ASSUME NEW s \in Stoppers, NEW mode \in Modes, StopBegin(s, mode) PROVE StateInv'
  BY <1>28 DEF StopBegin, MuFree, Ready, StopEnds, StopGo, disk, places, EmptyEnd, Push,
               pSteadyStates
<1>29. ASSUME NEW s \in Stoppers, StopReady(s) PROVE StateInv'
  BY <1>29 DEF StopReady, Ready, StopGo, disk, places, EmptyEnd, Push, StopEnds, pSteadyStates
<1>30. ASSUME NEW s \in Stoppers, StopRemoveTasks(s) PROVE StateInv'
  BY <1>30 DEF StopRemoveTasks, disk, places
<1>31. ASSUME NEW s \in Stoppers, StopCommit(s) PROVE StateInv'
  BY <1>31 DEF StopCommit, StopEnds, disk, places
<1>32. ASSUME NEW s \in Stoppers, EmptyDone(s) PROVE StateInv'
  BY <1>32 DEF EmptyDone, EmptyEnd, disk, places, StopEnds
<1>33. ASSUME NEW s \in Stoppers, StopTimeout(s) PROVE StateInv'
  BY <1>33 DEF StopTimeout, MuFree, StopEnds, disk, places
<1>34. CASE Start
  BY <1>34 DEF Start, Push, procs, places
<1>35. CASE Crash
  BY <1>35 DEF Crash, NoChange, NoRecv, NoTask, disk, places
<1> HIDE DEF IInv, ProcInv, StateInv, Administering, WorkerPcs, ServerPcs, Modes
<1> QED
  BY <1>1, <1>2, <1>3, <1>4, <1>5, <1>6, <1>7, <1>8, <1>9, <1>10, <1>11, <1>12, <1>13,
     <1>14, <1>15, <1>16, <1>17, <1>18, <1>19, <1>20, <1>21, <1>22, <1>23, <1>24, <1>25,
     <1>26, <1>27, <1>28, <1>29, <1>30, <1>31, <1>32, <1>33, <1>34, <1>35 DEF Next,
     ReceiveOn, Transfer, Stop, Command, Modes

\* The archives and their directories.
LEMMA ArchiveStep == IInv /\ Next => ArchiveInv'
<1> SUFFICES ASSUME IInv, Next PROVE ArchiveInv'
  OBVIOUS
<1>1. CASE Administer
  BY <1>1, ArchiveAdmin
<1>2. CASE RecvSave
  <2>1. sm = "WlogRecv" /\ admin.pc = "idle"
    BY <1>2 DEF IInv, StateInv, Administering, RecvSave
  <2>2. UNCHANGED <<sm, dirs, archiveSet, infos, tree, gutted, admin, mgr, sendto>>
    BY <1>2 DEF RecvSave, memory, places
  <2> QED BY <2>1, <2>2 DEF IInv, ArchiveInv
<1>3. CASE RecvRegister
  BY <1>3, ArchiveKept DEF IInv, RecvRegister, disk, places
<1>4. CASE LinkBegin
  BY <1>4, ArchiveKept DEF IInv, LinkBegin, disk, places
<1>5. CASE LinkDone
  BY <1>5, ArchiveKept DEF IInv, LinkDone, disk, places
<1>6. CASE Clean
  BY <1>6, ArchiveKept DEF IInv, Clean, memory, procs, places
<1>7. ASSUME NEW w \in Workers, Pop(w) PROVE ArchiveInv'
  BY <1>7, ArchiveKept DEF IInv, Pop, disk, places
<1>8. ASSUME NEW w \in Workers, SendNotNow(w) PROVE ArchiveInv'
  BY <1>8, ArchiveKept DEF IInv, SendNotNow, To, disk, places, memory
<1>9. ASSUME NEW w \in Workers, DontSend(w) PROVE ArchiveInv'
  BY <1>9, ArchiveKept DEF IInv, DontSend, disk, places, memory
<1>10. ASSUME NEW w \in Workers, SendBegin(w) PROVE ArchiveInv'
  BY <1>10, ArchiveKept DEF IInv, SendBegin, disk, places
<1>11. ASSUME NEW w \in Workers, SendAnswered(w) PROVE ArchiveInv'
  BY <1>11, ArchiveKept DEF IInv, SendAnswered, Received, To, disk, places, memory
<1>12. ASSUME NEW w \in Workers, SendLater(w) PROVE ArchiveInv'
  BY <1>12, ArchiveKept DEF IInv, SendLater, Leave, Received, disk, places, CloseAction
<1>13. ASSUME NEW w \in Workers, SendRefused(w) PROVE ArchiveInv'
  BY <1>13, ArchiveKept DEF IInv, SendRefused, Leave, disk, places, CloseAction
<1>14. ASSUME NEW w \in Workers, SendCutOff(w) PROVE ArchiveInv'
  BY <1>14, ArchiveKept DEF IInv, SendCutOff, CloseAction, disk, places
<1>15. ASSUME NEW w \in Workers, SendEnd(w) PROVE ArchiveInv'
  BY <1>15, ArchiveKept DEF IInv, SendEnd, Leave, disk, places, CloseAction
<1>16. ASSUME NEW w \in Workers, PushAgain(w) PROVE ArchiveInv'
  BY <1>16, ArchiveKept DEF IInv, PushAgain, Push, disk, places
<1>17. ASSUME NEW w \in Workers, SetError(w) PROVE ArchiveInv'
  BY <1>17, ArchiveKept DEF IInv, SetError, disk, places
<1>18. ASSUME NEW s \in Stoppers, StopRemoveTasks(s) PROVE ArchiveInv'
  BY <1>18, ArchiveKept DEF IInv, StopRemoveTasks, disk, places
<1>19. ASSUME NEW s \in Stoppers, EmptyPush(s) PROVE ArchiveInv'
  BY <1>19, ArchiveKept DEF IInv, EmptyPush, Push, disk, places, procs
<1>20. ASSUME NEW a \in Archives, Kick(a) PROVE ArchiveInv'
  BY <1>20, ArchiveKept DEF IInv, Kick, Push, disk, places, procs
<1>21. CASE Link
  BY <1>21, ArchiveLink
<1> USE DEF IInv, DataInv, ProcInv, StateInv, Administering, ArchiveInv, ServerPcs, Modes
<1>22. ASSUME NEW e \in 1 .. MaxGid, RecvStart(e) PROVE ArchiveInv'
  <2>1. /\ server' = [pc |-> "recv", diff |-> Diff(done, e), todo |-> {}]
        /\ Diff(done, e) \in Files /\ Diff(done, e).snapB.gidB = done
    BY <1>22, StartEffect DEF IInv
  <2> QED BY <1>22, <2>1 DEF RecvStart, disk, places
<1>23. CASE RecvFails
  BY <1>23 DEF RecvFails, RecvEnds, disk, places, NoRecv
<1>24. CASE RecvAck
  <2>1. Acks
    BY <1>24, AckEffect DEF IInv
  <2> QED BY <2>1 DEF Acks, disk, places, NoRecv
<1>25. CASE LinkFails
  BY <1>25 DEF LinkFails, RecvEnds, disk, places, NoRecv
<1>26. CASE RecvFinish
  BY <1>26 DEF RecvFinish, Push, RecvEnds, disk, places, NoRecv
<1>27. ASSUME NEW w \in Workers, SendErase(w) PROVE ArchiveInv'
  <2>1. Erases(w)
    BY <1>27, EraseEffect DEF IInv
  <2> QED BY <2>1 DEF Erases, At, Becomes, steady
<1>28. ASSUME NEW w \in Workers, SendUnlink(w) PROVE ArchiveInv'
  <2>1. Unlinks(w)
    BY <1>28, UnlinkEffect DEF IInv
  <2> QED BY <2>1 DEF Unlinks, At, Becomes, steady
<1>29. ASSUME NEW s \in Stoppers, NEW mode \in Modes, StopBegin(s, mode) PROVE ArchiveInv'
  BY <1>29 DEF StopBegin, MuFree, Ready, StopEnds, StopGo, disk, places, EmptyEnd, Push,
               pSteadyStates
<1>30. ASSUME NEW s \in Stoppers, StopReady(s) PROVE ArchiveInv'
  BY <1>30 DEF StopReady, Ready, StopGo, disk, places, EmptyEnd, Push, StopEnds, pSteadyStates
<1>31. ASSUME NEW s \in Stoppers, StopCommit(s) PROVE ArchiveInv'
  BY <1>31 DEF StopCommit, StopEnds, disk, places
<1>32. ASSUME NEW s \in Stoppers, EmptyDone(s) PROVE ArchiveInv'
  BY <1>32 DEF EmptyDone, EmptyEnd, disk, places, StopEnds
<1>33. ASSUME NEW s \in Stoppers, StopTimeout(s) PROVE ArchiveInv'
  BY <1>33 DEF StopTimeout, MuFree, StopEnds, disk, places
<1>34. CASE Start
  BY <1>34 DEF Start, Push, procs, places
<1>35. CASE Crash
  BY <1>35 DEF Crash, NoChange, NoRecv, NoTask, disk, places
<1> HIDE DEF IInv, DataInv, ProcInv, StateInv, Administering, ArchiveInv, ServerPcs, Modes
<1> QED
  BY <1>1, <1>2, <1>3, <1>4, <1>5, <1>6, <1>7, <1>8, <1>9, <1>10, <1>11, <1>12, <1>13,
     <1>14, <1>15, <1>16, <1>17, <1>18, <1>19, <1>20, <1>21, <1>22, <1>23, <1>24, <1>25,
     <1>26, <1>27, <1>28, <1>29, <1>30, <1>31, <1>32, <1>33, <1>34, <1>35 DEF Next,
     ReceiveOn, Transfer, Stop, Command, Modes

\* One worker for an archive.
LEMMA BusyStep == IInv /\ Next => BusyInv'
<1> SUFFICES ASSUME IInv, Next PROVE BusyInv'
  OBVIOUS
<1>1. CASE Administer
  BY <1>1, BusyAdmin
<1>2. ASSUME NEW e \in 1 .. MaxGid, RecvStart(e) PROVE BusyInv'
  BY <1>2, BusyKept DEF IInv, Administering, RecvStart, disk, places
<1>3. CASE RecvFails
  BY <1>3, BusyKept DEF IInv, Administering, RecvFails, RecvEnds, disk, places
<1>4. CASE RecvSave
  BY <1>4, BusyKept DEF IInv, Administering, RecvSave, memory, places
<1>5. CASE RecvRegister
  BY <1>5, BusyKept DEF IInv, Administering, RecvRegister, disk, places
<1>6. CASE RecvAck
  BY <1>6, BusyKept DEF IInv, Administering, RecvAck, RecvEnds, disk, places
<1>7. CASE LinkBegin
  BY <1>7, BusyKept DEF IInv, Administering, LinkBegin, disk, places
<1>8. CASE Link
  BY <1>8, BusyKept DEF IInv, Link, places
<1>9. CASE LinkFails
  BY <1>9, BusyKept DEF IInv, Administering, LinkFails, RecvEnds, disk, places
<1>10. CASE LinkDone
  BY <1>10, BusyKept DEF IInv, Administering, LinkDone, disk, places
<1>11. CASE Clean
  BY <1>11, BusyKept DEF IInv, Administering, Clean, memory, procs, places
<1>12. CASE RecvFinish
  BY <1>12, BusyKept DEF IInv, Administering, RecvFinish, Push, RecvEnds, disk, places
<1>13. ASSUME NEW s \in Stoppers, NEW mode \in Modes, StopBegin(s, mode) PROVE BusyInv'
  BY <1>13, BusyKept DEF IInv, Administering, StopBegin, StopEnds, StopGo, disk, places,
                         EmptyEnd, Push
<1>14. ASSUME NEW s \in Stoppers, StopReady(s) PROVE BusyInv'
  BY <1>14, BusyKept DEF IInv, Administering, StopReady, StopGo, disk, places, EmptyEnd, Push,
                         StopEnds
<1>15. ASSUME NEW s \in Stoppers, StopRemoveTasks(s) PROVE BusyInv'
  BY <1>15, BusyKept DEF IInv, Administering, StopRemoveTasks, disk, places
<1>16. ASSUME NEW s \in Stoppers, StopCommit(s) PROVE BusyInv'
  BY <1>16, BusyKept DEF IInv, Administering, StopCommit, StopEnds, disk, places
<1>17. ASSUME NEW s \in Stoppers, EmptyPush(s) PROVE BusyInv'
  BY <1>17, BusyKept DEF IInv, Administering, EmptyPush, Push, disk, places, procs
<1>18. ASSUME NEW s \in Stoppers, EmptyDone(s) PROVE BusyInv'
  BY <1>18, BusyKept DEF IInv, Administering, EmptyDone, EmptyEnd, disk, places, StopEnds
<1>19. ASSUME NEW s \in Stoppers, StopTimeout(s) PROVE BusyInv'
  BY <1>19, BusyKept DEF IInv, Administering, StopTimeout, StopEnds, disk, places
<1>20. CASE Start
  BY <1>20, BusyKept DEF IInv, Administering, Start, Push, procs, places
<1>21. ASSUME NEW a \in Archives, Kick(a) PROVE BusyInv'
  BY <1>21, BusyKept DEF IInv, Administering, Kick, Push, disk, places, procs
<1>22. ASSUME NEW w \in Workers, Transfer(w) PROVE BusyInv'
  BY <1>22, BusyTransfer
<1> USE DEF IInv, DataInv, ProcInv, StateInv, Administering, ArchiveInv, BusyInv, Busy
<1>23. CASE Crash
  BY <1>23 DEF Crash, NoChange, NoRecv, NoTask, disk, places
<1> HIDE DEF IInv, DataInv, ProcInv, StateInv, Administering, ArchiveInv, BusyInv, Busy
<1> QED
  BY <1>1, <1>2, <1>3, <1>4, <1>5, <1>6, <1>7, <1>8, <1>9, <1>10, <1>11, <1>12, <1>13,
     <1>14, <1>15, <1>16, <1>17, <1>18, <1>19, <1>20, <1>21, <1>22, <1>23 DEF Next,
     ReceiveOn, Stop, Command, Modes

\* What the workers know.
LEMMA ListStep == IInv /\ Next => ListInv'
<1> SUFFICES ASSUME IInv, Next PROVE ListInv'
  OBVIOUS
<1>1. CASE Administer
  BY <1>1, BusyAdmin
<1>2. ASSUME NEW e \in 1 .. MaxGid, RecvStart(e) PROVE ListInv'
  BY <1>2, ListKept DEF IInv, RecvStart, disk, places
<1>3. CASE RecvFails
  BY <1>3, ListKept DEF IInv, RecvFails, RecvEnds, disk, places
<1>4. CASE RecvSave
  BY <1>4, ListKept DEF IInv, RecvSave, memory, places
<1>5. CASE RecvRegister
  BY <1>5, ListKept DEF IInv, RecvRegister, disk, places
<1>6. CASE RecvAck
  BY <1>6, ListKept DEF IInv, RecvAck, RecvEnds, disk, places
<1>7. CASE LinkBegin
  BY <1>7, ListKept DEF IInv, LinkBegin, disk, places
<1>8. CASE LinkFails
  BY <1>8, ListKept DEF IInv, LinkFails, RecvEnds, disk, places
<1>9. CASE LinkDone
  BY <1>9, ListKept DEF IInv, LinkDone, disk, places
<1>10. CASE Clean
  BY <1>10, ListKept DEF IInv, Clean, memory, procs, places
<1>11. CASE RecvFinish
  BY <1>11, ListKept DEF IInv, RecvFinish, Push, RecvEnds, disk, places
<1>12. ASSUME NEW s \in Stoppers, NEW mode \in Modes, StopBegin(s, mode) PROVE ListInv'
  BY <1>12, ListKept DEF IInv, StopBegin, StopEnds, StopGo, disk, places, EmptyEnd, Push
<1>13. ASSUME NEW s \in Stoppers, StopReady(s) PROVE ListInv'
  BY <1>13, ListKept DEF IInv, StopReady, StopGo, disk, places, EmptyEnd, Push, StopEnds
<1>14. ASSUME NEW s \in Stoppers, StopRemoveTasks(s) PROVE ListInv'
  BY <1>14, ListKept DEF IInv, StopRemoveTasks, disk, places
<1>15. ASSUME NEW s \in Stoppers, StopCommit(s) PROVE ListInv'
  BY <1>15, ListKept DEF IInv, StopCommit, StopEnds, disk, places
<1>16. ASSUME NEW s \in Stoppers, EmptyPush(s) PROVE ListInv'
  BY <1>16, ListKept DEF IInv, EmptyPush, Push, disk, places, procs
<1>17. ASSUME NEW s \in Stoppers, EmptyDone(s) PROVE ListInv'
  BY <1>17, ListKept DEF IInv, EmptyDone, EmptyEnd, disk, places, StopEnds
<1>18. ASSUME NEW s \in Stoppers, StopTimeout(s) PROVE ListInv'
  BY <1>18, ListKept DEF IInv, StopTimeout, StopEnds, disk, places
<1>19. ASSUME NEW a \in Archives, Kick(a) PROVE ListInv'
  BY <1>19, ListKept DEF IInv, Kick, Push, disk, places, procs
<1>20. CASE Link
  BY <1>20, ListLink
<1>21. ASSUME NEW w \in Workers, Transfer(w) PROVE ListInv'
  BY <1>21, ListTransfer
<1> USE FileFacts DEF IInv, DataInv, ProcInv, StateInv, Administering, ArchiveInv, BusyInv,
                      ListInv, Busy, ListOf
<1>22. CASE Start
  BY <1>22 DEF Start, ActionNotRunning, Push, procs, places
<1>23. CASE Crash
  BY <1>23 DEF Crash, NoChange, NoRecv, NoTask, disk, places
<1> HIDE DEF IInv, DataInv, ProcInv, StateInv, Administering, ArchiveInv, BusyInv, ListInv,
             Busy, ListOf
<1> QED
  BY <1>1, <1>2, <1>3, <1>4, <1>5, <1>6, <1>7, <1>8, <1>9, <1>10, <1>11, <1>12, <1>13,
     <1>14, <1>15, <1>16, <1>17, <1>18, <1>19, <1>20, <1>21, <1>22, <1>23 DEF Next,
     ReceiveOn, Stop, Command, Modes

\* The received diffs.
LEMMA ReceivedStep == IInv /\ Next => ReceivedInv'
<1> SUFFICES ASSUME IInv, Next PROVE ReceivedInv'
  OBVIOUS
<1>1. CASE Administer
  BY <1>1, ReceivedAdmin
<1>2. ASSUME NEW w \in Workers, Pop(w) PROVE ReceivedInv'
  BY <1>2, ReceivedKept DEF IInv, Pop, disk, places
<1>3. ASSUME NEW w \in Workers, SendNotNow(w) PROVE ReceivedInv'
  BY <1>3, ReceivedKept DEF IInv, SendNotNow, To, disk, places, memory
<1>4. ASSUME NEW w \in Workers, DontSend(w) PROVE ReceivedInv'
  BY <1>4, ReceivedKept DEF IInv, DontSend, disk, places, memory
<1>5. ASSUME NEW w \in Workers, SendBegin(w) PROVE ReceivedInv'
  BY <1>5, ReceivedKept DEF IInv, SendBegin, disk, places
<1>6. ASSUME NEW w \in Workers, SendAnswered(w) PROVE ReceivedInv'
  BY <1>6, ReceivedKept DEF IInv, SendAnswered, Received, To, disk, places, memory
<1>7. ASSUME NEW w \in Workers, SendLater(w) PROVE ReceivedInv'
  BY <1>7, ReceivedKept DEF IInv, SendLater, Leave, Received, disk, places, CloseAction
<1>8. ASSUME NEW w \in Workers, SendRefused(w) PROVE ReceivedInv'
  BY <1>8, ReceivedKept DEF IInv, SendRefused, Leave, disk, places, CloseAction
<1>9. ASSUME NEW w \in Workers, SendCutOff(w) PROVE ReceivedInv'
  BY <1>9, ReceivedKept DEF IInv, SendCutOff, CloseAction, disk, places
<1>10. ASSUME NEW w \in Workers, SendErase(w) PROVE ReceivedInv'
  BY <1>10, ReceivedKept DEF IInv, SendErase, To, disk, places
<1>11. ASSUME NEW w \in Workers, SendEnd(w) PROVE ReceivedInv'
  BY <1>11, ReceivedKept DEF IInv, SendEnd, Leave, disk, places, CloseAction
<1>12. ASSUME NEW w \in Workers, PushAgain(w) PROVE ReceivedInv'
  BY <1>12, ReceivedKept DEF IInv, PushAgain, Push, disk, places
<1>13. ASSUME NEW w \in Workers, SetError(w) PROVE ReceivedInv'
  BY <1>13, ReceivedKept DEF IInv, SetError, disk, places
<1>14. ASSUME NEW s \in Stoppers, NEW mode \in Modes, StopBegin(s, mode) PROVE ReceivedInv'
  BY <1>14, ReceivedKept DEF IInv, StopBegin, StopEnds, StopGo, disk, places, EmptyEnd, Push
<1>15. ASSUME NEW s \in Stoppers, StopReady(s) PROVE ReceivedInv'
  BY <1>15, ReceivedKept DEF IInv, StopReady, StopGo, disk, places, EmptyEnd, Push, StopEnds
<1>16. ASSUME NEW s \in Stoppers, StopRemoveTasks(s) PROVE ReceivedInv'
  BY <1>16, ReceivedKept DEF IInv, StopRemoveTasks, disk, places
<1>17. ASSUME NEW s \in Stoppers, StopCommit(s) PROVE ReceivedInv'
  BY <1>17, ReceivedKept DEF IInv, StopCommit, StopEnds, disk, places
<1>18. ASSUME NEW s \in Stoppers, EmptyPush(s) PROVE ReceivedInv'
  BY <1>18, ReceivedKept DEF IInv, EmptyPush, Push, disk, places, procs
<1>19. ASSUME NEW s \in Stoppers, EmptyDone(s) PROVE ReceivedInv'
  BY <1>19, ReceivedKept DEF IInv, EmptyDone, EmptyEnd, disk, places, StopEnds
<1>20. ASSUME NEW s \in Stoppers, StopTimeout(s) PROVE ReceivedInv'
  BY <1>20, ReceivedKept DEF IInv, StopTimeout, StopEnds, disk, places
<1>21. ASSUME NEW a \in Archives, Kick(a) PROVE ReceivedInv'
  BY <1>21, ReceivedKept DEF IInv, Kick, Push, disk, places, procs
<1>22. CASE Link
  BY <1>22, ReceivedLink
<1> USE FileFacts, GidsAreBounded DEF IInv, DataInv, ProcInv, StateInv, Administering,
                                      ReceivedInv, ServerPcs
<1>23. ASSUME NEW e \in 1 .. MaxGid, RecvStart(e) PROVE ReceivedInv'
  <2>1. /\ server' = [pc |-> "recv", diff |-> Diff(done, e), todo |-> {}]
        /\ Diff(done, e) \in Files /\ Diff(done, e).snapB.gidB = done
    BY <1>23, StartEffect DEF IInv
  <2> QED BY <1>23, <2>1 DEF RecvStart, disk, places
<1>24. CASE RecvFails
  BY <1>24 DEF RecvFails, RecvEnds, disk, places, NoRecv
<1>25. CASE RecvSave
  BY <1>25 DEF RecvSave, memory, places
<1>26. CASE RecvRegister
  BY <1>26 DEF RecvRegister, disk, places
<1>27. CASE RecvAck
  <2>1. Acks
    BY <1>27, AckEffect DEF IInv
  <2> QED BY <2>1 DEF Acks, disk, places, NoRecv
<1>28. CASE LinkBegin
  BY <1>28 DEF LinkBegin, disk, places
<1>29. CASE LinkFails
  BY <1>29 DEF LinkFails, RecvEnds, disk, places, NoRecv
<1>30. CASE LinkDone
  BY <1>30 DEF LinkDone, disk, places
<1>31. CASE Clean
  BY <1>31 DEF Clean, memory, procs, places
<1>32. CASE RecvFinish
  BY <1>32 DEF RecvFinish, Push, RecvEnds, disk, places, NoRecv
<1>33. ASSUME NEW w \in Workers, SendUnlink(w) PROVE ReceivedInv'
  <2>1. Unlinks(w)
    BY <1>33, UnlinkEffect DEF IInv
  <2> QED BY <2>1 DEF Unlinks, At, Becomes, steady
<1>34. CASE Start
  BY <1>34 DEF Start, Push, procs, places
<1>35. CASE Crash
  BY <1>35 DEF Crash, NoChange, NoRecv, NoTask, disk, places
<1> HIDE DEF IInv, DataInv, ProcInv, StateInv, Administering, ReceivedInv, ServerPcs
<1> QED
  BY <1>1, <1>2, <1>3, <1>4, <1>5, <1>6, <1>7, <1>8, <1>9, <1>10, <1>11, <1>12, <1>13,
     <1>14, <1>15, <1>16, <1>17, <1>18, <1>19, <1>20, <1>21, <1>22, <1>23, <1>24, <1>25,
     <1>26, <1>27, <1>28, <1>29, <1>30, <1>31, <1>32, <1>33, <1>34, <1>35 DEF Next,
     ReceiveOn, Transfer, Stop, Command, Modes

\* The links.
LEMMA LinkStep == IInv /\ Next => LinkInv'
<1> SUFFICES ASSUME IInv, Next PROVE LinkInv'
  OBVIOUS
<1>1. CASE Administer
  BY <1>1, LinkAdmin
<1>2. ASSUME NEW s \in Stoppers, NEW mode \in Modes, StopBegin(s, mode) PROVE LinkInv'
  BY <1>2, LinksKept DEF IInv, StopBegin, StopEnds, StopGo, disk, places, EmptyEnd, Push
<1>3. ASSUME NEW s \in Stoppers, StopReady(s) PROVE LinkInv'
  BY <1>3, LinksKept DEF IInv, StopReady, StopGo, disk, places, EmptyEnd, Push, StopEnds
<1>4. ASSUME NEW s \in Stoppers, StopRemoveTasks(s) PROVE LinkInv'
  BY <1>4, LinksKept DEF IInv, StopRemoveTasks, disk, places
<1>5. ASSUME NEW s \in Stoppers, StopCommit(s) PROVE LinkInv'
  BY <1>5, LinksKept DEF IInv, StopCommit, StopEnds, disk, places
<1>6. ASSUME NEW s \in Stoppers, EmptyPush(s) PROVE LinkInv'
  BY <1>6, LinksKept DEF IInv, EmptyPush, Push, disk, places, procs
<1>7. ASSUME NEW s \in Stoppers, EmptyDone(s) PROVE LinkInv'
  BY <1>7, LinksKept DEF IInv, EmptyDone, EmptyEnd, disk, places, StopEnds
<1>8. ASSUME NEW s \in Stoppers, StopTimeout(s) PROVE LinkInv'
  BY <1>8, LinksKept DEF IInv, StopTimeout, StopEnds, disk, places
<1>9. ASSUME NEW a \in Archives, Kick(a) PROVE LinkInv'
  BY <1>9, LinksKept DEF IInv, Kick, Push, disk, places, procs
<1>10. ASSUME NEW w \in Workers, Transfer(w) PROVE LinkInv'
  BY <1>10, LinkTransfer
<1> USE FileFacts DEF IInv, DataInv, ProcInv, StateInv, Administering, ListInv, ReceivedInv,
                      LinkInv, ServerPcs
<1>11. ASSUME NEW e \in 1 .. MaxGid, RecvStart(e) PROVE LinkInv'
  <2>1. /\ server' = [pc |-> "recv", diff |-> Diff(done, e), todo |-> {}]
        /\ Diff(done, e) \in Files /\ Diff(done, e).snapB.gidB = done
    BY <1>11, StartEffect DEF IInv
  <2> QED BY <1>11, <2>1 DEF RecvStart, disk, places
<1>12. CASE RecvFails
  BY <1>12 DEF RecvFails, RecvEnds, disk, places, NoRecv
<1>13. CASE RecvSave
  BY <1>13 DEF RecvSave, memory, places
<1>14. CASE RecvRegister
  BY <1>14 DEF RecvRegister, disk, places
<1>15. CASE RecvAck
  <2>1. Acks
    BY <1>15, AckEffect DEF IInv
  <2> QED BY <2>1 DEF Acks, disk, places, NoRecv
<1>16. CASE LinkBegin
  BY <1>16 DEF LinkBegin, disk, places
<1>17. CASE Link
  <2>1. Links
    BY <1>17, LinkEffect DEF IInv
  <2> QED BY <2>1 DEF Links
<1>18. CASE LinkFails
  BY <1>18 DEF LinkFails, RecvEnds, disk, places, NoRecv
<1>19. CASE LinkDone
  BY <1>19 DEF LinkDone, disk, places
<1>20. CASE Clean
  BY <1>20 DEF Clean, memory, procs, places
<1>21. CASE RecvFinish
  BY <1>21 DEF RecvFinish, Push, RecvEnds, disk, places, NoRecv
<1>22. CASE Start
  BY <1>22 DEF Start, Push, procs, places
<1>23. CASE Crash
  BY <1>23 DEF Crash, NoChange, NoRecv, NoTask, disk, places
<1> HIDE DEF IInv, DataInv, ProcInv, StateInv, Administering, ListInv, ReceivedInv, LinkInv,
             ServerPcs
<1> QED
  BY <1>1, <1>2, <1>3, <1>4, <1>5, <1>6, <1>7, <1>8, <1>9, <1>10, <1>11, <1>12, <1>13,
     <1>14, <1>15, <1>16, <1>17, <1>18, <1>19, <1>20, <1>21, <1>22, <1>23 DEF Next,
     ReceiveOn, Stop, Command, Modes

\* No gap in a manager.
LEMMA NoGapStep == IInv /\ Next => NoGapInv'
<1> SUFFICES ASSUME IInv, Next PROVE NoGapInv'
  OBVIOUS
<1>1. CASE Administer
  BY <1>1, NoGapAdmin
<1>2. ASSUME NEW e \in 1 .. MaxGid, RecvStart(e) PROVE NoGapInv'
  BY <1>2, NoGapKept DEF IInv, RecvStart, disk, places
<1>3. CASE RecvFails
  BY <1>3, NoGapKept DEF IInv, RecvFails, RecvEnds, disk, places
<1>4. CASE RecvSave
  BY <1>4, NoGapKept DEF IInv, RecvSave, memory, places
<1>5. CASE RecvRegister
  BY <1>5, NoGapKept DEF IInv, RecvRegister, disk, places
<1>6. CASE RecvAck
  BY <1>6, NoGapKept DEF IInv, RecvAck, RecvEnds, disk, places
<1>7. CASE LinkBegin
  BY <1>7, NoGapKept DEF IInv, LinkBegin, disk, places
<1>8. CASE LinkFails
  BY <1>8, NoGapKept DEF IInv, LinkFails, RecvEnds, disk, places
<1>9. CASE LinkDone
  BY <1>9, NoGapKept DEF IInv, LinkDone, disk, places
<1>10. CASE Clean
  BY <1>10, NoGapKept DEF IInv, Clean, memory, procs, places
<1>11. CASE RecvFinish
  BY <1>11, NoGapKept DEF IInv, RecvFinish, Push, RecvEnds, disk, places
<1>12. ASSUME NEW s \in Stoppers, NEW mode \in Modes, StopBegin(s, mode) PROVE NoGapInv'
  BY <1>12, NoGapKept DEF IInv, StopBegin, StopEnds, StopGo, disk, places, EmptyEnd, Push
<1>13. ASSUME NEW s \in Stoppers, StopReady(s) PROVE NoGapInv'
  BY <1>13, NoGapKept DEF IInv, StopReady, StopGo, disk, places, EmptyEnd, Push, StopEnds
<1>14. ASSUME NEW s \in Stoppers, StopRemoveTasks(s) PROVE NoGapInv'
  BY <1>14, NoGapKept DEF IInv, StopRemoveTasks, disk, places
<1>15. ASSUME NEW s \in Stoppers, StopCommit(s) PROVE NoGapInv'
  BY <1>15, NoGapKept DEF IInv, StopCommit, StopEnds, disk, places
<1>16. ASSUME NEW s \in Stoppers, EmptyPush(s) PROVE NoGapInv'
  BY <1>16, NoGapKept DEF IInv, EmptyPush, Push, disk, places, procs
<1>17. ASSUME NEW s \in Stoppers, EmptyDone(s) PROVE NoGapInv'
  BY <1>17, NoGapKept DEF IInv, EmptyDone, EmptyEnd, disk, places, StopEnds
<1>18. ASSUME NEW s \in Stoppers, StopTimeout(s) PROVE NoGapInv'
  BY <1>18, NoGapKept DEF IInv, StopTimeout, StopEnds, disk, places
<1>19. ASSUME NEW a \in Archives, Kick(a) PROVE NoGapInv'
  BY <1>19, NoGapKept DEF IInv, Kick, Push, disk, places, procs
<1>20. CASE Link
  BY <1>20, NoGapLink
<1>21. ASSUME NEW w \in Workers, Transfer(w) PROVE NoGapInv'
  BY <1>21, NoGapTransfer
<1>22. CASE Start
  BY <1>22, NoGapStart
<1>23. CASE Crash
  BY <1>23, NoGapKept DEF IInv, Crash, disk, places
<1> QED
  BY <1>1, <1>2, <1>3, <1>4, <1>5, <1>6, <1>7, <1>8, <1>9, <1>10, <1>11, <1>12, <1>13,
     <1>14, <1>15, <1>16, <1>17, <1>18, <1>19, <1>20, <1>21, <1>22, <1>23 DEF Next,
     ReceiveOn, Stop, Command, Modes

\* Tasks.
LEMMA ScheduleStep == IInv /\ Next => ScheduleInv'
<1> SUFFICES ASSUME IInv, Next PROVE ScheduleInv'
  OBVIOUS
<1>1. CASE Administer
  BY <1>1, LinkAdmin
<1>2. CASE Clean
  BY <1>2, TasksKept DEF IInv, Clean, memory, procs, places
<1>3. ASSUME NEW w \in Workers, Transfer(w) PROVE ScheduleInv'
  BY <1>3, ScheduleTransfer
<1> USE DEF IInv, DataInv, ProcInv, StateInv, Administering, ArchiveInv, BusyInv, ScheduleInv,
            ReceivedInv,
            Busy, Scheduled, ToSchedule
<1>4. ASSUME NEW e \in 1 .. MaxGid, RecvStart(e) PROVE ScheduleInv'
  <2>1. /\ UNCHANGED <<worker, archiveSet, mgr>>
        /\ queue \cup err \cup cut \subseteq queue' \cup err' \cup cut'
    BY <1>4 DEF RecvStart, disk, places
  <2>2. ToSchedule' => ToSchedule
    BY <1>4 DEF IInv, StateInv, ToSchedule, RecvStart, disk, places
  <2> HIDE DEF IInv, DataInv, ProcInv, StateInv, Administering, ArchiveInv, BusyInv,
               ScheduleInv, ReceivedInv,
               Busy, Scheduled, ToSchedule
  <2> QED BY <2>1, <2>2, ScheduleKept DEF IInv
<1>5. CASE RecvFails
  <2>1. /\ UNCHANGED <<worker, archiveSet, mgr>>
        /\ queue \cup err \cup cut \subseteq queue' \cup err' \cup cut'
    BY <1>5 DEF RecvFails, disk, places
  <2>2. ToSchedule' => ToSchedule
    BY <1>5 DEF IInv, StateInv, ToSchedule, RecvFails, RecvEnds, disk, places
  <2> HIDE DEF IInv, DataInv, ProcInv, StateInv, Administering, ArchiveInv, BusyInv, ScheduleInv,
               ReceivedInv, Busy, Scheduled, ToSchedule
  <2> QED BY <2>1, <2>2, ScheduleKept DEF IInv
<1>6. CASE RecvSave
  <2>1. /\ UNCHANGED <<worker, archiveSet, mgr>>
        /\ queue \cup err \cup cut \subseteq queue' \cup err' \cup cut'
    BY <1>6 DEF RecvSave, memory
  <2>2. ToSchedule' => ToSchedule
    BY <1>6 DEF ToSchedule, RecvSave, memory
  <2> HIDE DEF IInv, DataInv, ProcInv, StateInv, Administering, ArchiveInv, BusyInv, ScheduleInv,
               ReceivedInv, Busy, Scheduled, ToSchedule
  <2> QED BY <2>1, <2>2, ScheduleKept DEF IInv
<1>7. CASE RecvRegister
  BY <1>7 DEF RecvRegister, disk, places
<1>8. CASE RecvAck
  <2>1. Acks
    BY <1>8, AckEffect DEF IInv
  <2> QED BY <2>1 DEF Acks, disk, places, NoRecv
<1>9. CASE LinkBegin
  BY <1>9 DEF LinkBegin, disk, places
<1>10. CASE Link
  <2>1. Links
    BY <1>10, LinkEffect DEF IInv
  <2> QED BY <2>1 DEF Links
<1>11. CASE LinkFails
  BY <1>11 DEF LinkFails, RecvEnds, disk, places, NoRecv
<1>12. CASE LinkDone
  BY <1>12 DEF LinkDone, disk, places
<1>13. CASE RecvFinish
  BY <1>13 DEF RecvFinish, Push, RecvEnds, disk, places, NoRecv
<1>14. ASSUME NEW s \in Stoppers, NEW mode \in Modes, StopBegin(s, mode) PROVE ScheduleInv'
  <2>1. UNCHANGED <<worker, archiveSet, mgr, recvMgr, server, err>>
    BY <1>14 DEF StopBegin, disk, places
  <2>2. CASE UNCHANGED <<sm, queue, cut>>
    BY <2>1, <2>2, ScheduleKept
  <2>3. CASE StopGo(s, mode, mode)
    <3>1. CASE sm # "Started" \/ mode # "WaitingForEmpty"
      BY <2>1, <2>3, <3>1, ScheduleKept DEF StopGo
    <3>2. CASE sm = "Started" /\ mode = "WaitingForEmpty" /\ Emptied
      BY <2>1, <2>3, <3>2 DEF StopGo, EmptyEnd, ScheduleInv
    <3>3. CASE sm = "Started" /\ mode = "WaitingForEmpty" /\ ~Emptied
      BY <2>1, <2>3, <3>3, ScheduleKept DEF StopGo, Push
    <3> QED BY <3>1, <3>2, <3>3
  <2> QED BY <1>14, <2>2, <2>3 DEF StopBegin
<1>15. ASSUME NEW s \in Stoppers, StopReady(s) PROVE ScheduleInv'
  BY <1>15 DEF StopReady, Ready, StopGo, disk, places, Emptied, EmptyEnd, Push, StopEnds,
               hasDiffs,
               ActionNotRunning, pSteadyStates
<1>16. ASSUME NEW s \in Stoppers, StopRemoveTasks(s) PROVE ScheduleInv'
  BY <1>16 DEF StopRemoveTasks, disk, places
<1>17. ASSUME NEW s \in Stoppers, StopCommit(s) PROVE ScheduleInv'
  BY <1>17 DEF StopCommit, StopEnds, disk, places
<1>18. ASSUME NEW s \in Stoppers, EmptyPush(s) PROVE ScheduleInv'
  BY <1>18 DEF EmptyPush, Push, disk, places, hasDiffs, procs
<1>19. ASSUME NEW s \in Stoppers, EmptyDone(s) PROVE ScheduleInv'
  BY <1>19 DEF EmptyDone, Emptied, EmptyEnd, disk, places, StopEnds, ActionNotRunning, hasDiffs
<1>20. ASSUME NEW s \in Stoppers, StopTimeout(s) PROVE ScheduleInv'
  <2>1. /\ UNCHANGED <<worker, archiveSet, mgr>>
        /\ queue \cup err \cup cut \subseteq queue' \cup err' \cup cut'
    BY <1>20 DEF StopTimeout, StopEnds, disk, places
  <2>2. ToSchedule' => ToSchedule
    BY <1>20 DEF IInv, StateInv, ToSchedule, StopTimeout, StopEnds, disk, places
  <2> HIDE DEF IInv, DataInv, ProcInv, StateInv, Administering, ArchiveInv, BusyInv,
               ScheduleInv, ReceivedInv,
               Busy, Scheduled, ToSchedule
  <2> QED BY <2>1, <2>2, ScheduleKept DEF IInv
<1>21. CASE Start
  BY <1>21 DEF Start, ActionNotRunning, Push, procs, places
<1>22. ASSUME NEW a \in Archives, Kick(a) PROVE ScheduleInv'
  <2>1. /\ UNCHANGED <<worker, archiveSet, mgr>>
        /\ queue \cup err \cup cut \subseteq queue' \cup err' \cup cut'
    BY <1>22 DEF Kick, Push, procs, disk, places
  <2>2. ToSchedule' => ToSchedule
    BY <1>22 DEF IInv, StateInv, ToSchedule, Kick, Push, procs, disk, places
  <2> HIDE DEF IInv, DataInv, ProcInv, StateInv, Administering, ArchiveInv, BusyInv,
               ScheduleInv, ReceivedInv,
               Busy, Scheduled, ToSchedule
  <2> QED BY <2>1, <2>2, ScheduleKept DEF IInv
<1>23. CASE Crash
  BY <1>23 DEF Crash, NoChange, NoRecv, NoTask, disk, places
<1> HIDE DEF IInv, DataInv, ProcInv, StateInv, Administering, ArchiveInv, BusyInv, ScheduleInv,
             ReceivedInv,
             Busy, Scheduled, ToSchedule
<1> QED
  BY <1>1, <1>2, <1>3, <1>4, <1>5, <1>6, <1>7, <1>8, <1>9, <1>10, <1>11, <1>12, <1>13,
     <1>14, <1>15, <1>16, <1>17, <1>18, <1>19, <1>20, <1>21, <1>22, <1>23 DEF Next,
     ReceiveOn, Stop, Command, Modes

\* What is acknowledged.
LEMMA KeptStep == IInv /\ Next => KeptInv'
<1> SUFFICES ASSUME IInv, Next PROVE KeptInv'
  OBVIOUS
<1>1. CASE Administer
  BY <1>1, NoGapAdmin
<1>2. ASSUME NEW e \in 1 .. MaxGid, RecvStart(e) PROVE KeptInv'
  BY <1>2, KeptKept DEF IInv, RecvStart, disk, places
<1>3. CASE RecvFails
  BY <1>3, KeptKept DEF IInv, RecvFails, RecvEnds, disk, places
<1>4. CASE RecvRegister
  BY <1>4, KeptKept DEF IInv, RecvRegister, disk, places
<1>5. CASE LinkBegin
  BY <1>5, KeptKept DEF IInv, LinkBegin, disk, places
<1>6. CASE LinkFails
  BY <1>6, KeptKept DEF IInv, LinkFails, RecvEnds, disk, places
<1>7. CASE LinkDone
  BY <1>7, KeptKept DEF IInv, LinkDone, disk, places
<1>8. CASE RecvFinish
  BY <1>8, KeptKept DEF IInv, RecvFinish, Push, RecvEnds, disk, places
<1>9. ASSUME NEW s \in Stoppers, NEW mode \in Modes, StopBegin(s, mode) PROVE KeptInv'
  BY <1>9, KeptKept DEF IInv, StopBegin, StopEnds, StopGo, disk, places, EmptyEnd, Push
<1>10. ASSUME NEW s \in Stoppers, StopReady(s) PROVE KeptInv'
  BY <1>10, KeptKept DEF IInv, StopReady, StopGo, disk, places, EmptyEnd, Push, StopEnds
<1>11. ASSUME NEW s \in Stoppers, StopRemoveTasks(s) PROVE KeptInv'
  BY <1>11, KeptKept DEF IInv, StopRemoveTasks, disk, places
<1>12. ASSUME NEW s \in Stoppers, StopCommit(s) PROVE KeptInv'
  BY <1>12, KeptKept DEF IInv, StopCommit, StopEnds, disk, places
<1>13. ASSUME NEW s \in Stoppers, EmptyPush(s) PROVE KeptInv'
  BY <1>13, KeptKept DEF IInv, EmptyPush, Push, disk, places, procs
<1>14. ASSUME NEW s \in Stoppers, EmptyDone(s) PROVE KeptInv'
  BY <1>14, KeptKept DEF IInv, EmptyDone, EmptyEnd, disk, places, StopEnds
<1>15. ASSUME NEW s \in Stoppers, StopTimeout(s) PROVE KeptInv'
  BY <1>15, KeptKept DEF IInv, StopTimeout, StopEnds, disk, places
<1>16. ASSUME NEW a \in Archives, Kick(a) PROVE KeptInv'
  BY <1>16, KeptKept DEF IInv, Kick, Push, disk, places, procs
<1>17. CASE RecvAck
  BY <1>17, KeptAck
<1>18. CASE Link
  BY <1>18, KeptLink
<1>19. ASSUME NEW w \in Workers, Transfer(w) PROVE KeptInv'
  BY <1>19, KeptTransfer
<1> USE FileFacts DEF IInv, DataInv, ProcInv, StateInv, Administering, ArchiveInv, ListInv,
                      ReceivedInv,
                      LinkInv, KeptInv, Covers
<1>20. CASE RecvSave
  BY <1>20 DEF RecvSave, memory, places
<1>21. CASE Clean
  <2>1. /\ server.pc = "clean" /\ UNCHANGED <<dirs, gutted, sendto, latest, done>>
        /\ dirs \ gutted \subseteq archiveSet
    BY <1>21 DEF Clean, memory, procs, places
  <2>2. ASSUME NEW a \in dirs \ gutted, NEW g \in latest[a] .. done - 1
        PROVE  \E c \in sendto[a] : Covers(c, g)
    <3>1. PICK c \in sendto[a] \cup received : Covers(c, g)
      OBVIOUS
    <3>2. a \in archiveSet /\ a \in Archives
      BY <2>1
    <3>3. latest[a] \in Nat /\ c.snapE.gidB \in Nat /\ g \in Nat
      BY <3>1, <3>2
    <3>4. ~(c.snapE.gidB <= latest[a])
      BY <3>1, <3>3
    <3> QED BY <2>1, <3>1, <3>2, <3>4
  <2> QED BY <2>1, <2>2
<1>22. CASE Start
  BY <1>22 DEF Start, Push, procs, places
<1>23. CASE Crash
  BY <1>23 DEF Crash, NoChange, NoRecv, NoTask, disk, places
<1> HIDE DEF IInv, DataInv, ProcInv, StateInv, Administering, ArchiveInv, ListInv, ReceivedInv,
             LinkInv,
             KeptInv, Covers
<1> QED
  BY <1>1, <1>2, <1>3, <1>4, <1>5, <1>6, <1>7, <1>8, <1>9, <1>10, <1>11, <1>12, <1>13,
     <1>14, <1>15, <1>16, <1>17, <1>18, <1>19, <1>20, <1>21, <1>22, <1>23 DEF Next,
     ReceiveOn, Stop, Command, Modes

\* Managers and directories.
LEMMA MatchStep == IInv /\ Next => MatchInv'
<1> SUFFICES ASSUME IInv, Next PROVE MatchInv'
  OBVIOUS
<1>1. CASE Administer
  BY <1>1, MatchAdmin
<1>2. ASSUME NEW e \in 1 .. MaxGid, RecvStart(e) PROVE MatchInv'
  BY <1>2, MatchKept DEF IInv, RecvStart, disk, places
<1>3. CASE RecvFails
  BY <1>3, MatchKept DEF IInv, RecvFails, RecvEnds, disk, places
<1>4. CASE RecvSave
  BY <1>4, MatchKept DEF IInv, RecvSave, memory, places
<1>5. CASE RecvRegister
  BY <1>5, MatchKept DEF IInv, RecvRegister, disk, places
<1>6. CASE RecvAck
  BY <1>6, MatchKept DEF IInv, RecvAck, RecvEnds, disk, places
<1>7. CASE LinkBegin
  BY <1>7, MatchKept DEF IInv, LinkBegin, disk, places
<1>8. CASE LinkFails
  BY <1>8, MatchKept DEF IInv, LinkFails, RecvEnds, disk, places
<1>9. CASE LinkDone
  BY <1>9, MatchKept DEF IInv, LinkDone, disk, places
<1>10. CASE Clean
  BY <1>10, MatchKept DEF IInv, Clean, memory, procs, places
<1>11. CASE RecvFinish
  BY <1>11, MatchKept DEF IInv, RecvFinish, Push, RecvEnds, disk, places
<1>12. ASSUME NEW s \in Stoppers, NEW mode \in Modes, StopBegin(s, mode) PROVE MatchInv'
  BY <1>12, MatchKept DEF IInv, StopBegin, StopEnds, StopGo, disk, places, EmptyEnd, Push
<1>13. ASSUME NEW s \in Stoppers, StopReady(s) PROVE MatchInv'
  BY <1>13, MatchKept DEF IInv, StopReady, StopGo, disk, places, EmptyEnd, Push, StopEnds
<1>14. ASSUME NEW s \in Stoppers, StopRemoveTasks(s) PROVE MatchInv'
  BY <1>14, MatchKept DEF IInv, StopRemoveTasks, disk, places
<1>15. ASSUME NEW s \in Stoppers, StopCommit(s) PROVE MatchInv'
  BY <1>15, MatchKept DEF IInv, StopCommit, StopEnds, disk, places
<1>16. ASSUME NEW s \in Stoppers, EmptyPush(s) PROVE MatchInv'
  BY <1>16, MatchKept DEF IInv, EmptyPush, Push, disk, places, procs
<1>17. ASSUME NEW s \in Stoppers, EmptyDone(s) PROVE MatchInv'
  BY <1>17, MatchKept DEF IInv, EmptyDone, EmptyEnd, disk, places, StopEnds
<1>18. ASSUME NEW s \in Stoppers, StopTimeout(s) PROVE MatchInv'
  BY <1>18, MatchKept DEF IInv, StopTimeout, StopEnds, disk, places
<1>19. ASSUME NEW a \in Archives, Kick(a) PROVE MatchInv'
  BY <1>19, MatchKept DEF IInv, Kick, Push, disk, places, procs
<1>20. CASE Link
  BY <1>20, MatchLink
<1>21. ASSUME NEW w \in Workers, Transfer(w) PROVE MatchInv'
  BY <1>21, MatchTransfer
<1> USE DEF IInv, DataInv, ProcInv, StateInv, Administering, ArchiveInv, BusyInv, ListInv,
            MatchInv, Busy,
            Unlinking
<1>22. CASE Start
  BY <1>22 DEF Start, ActionNotRunning, Push, procs, places
<1>23. CASE Crash
  BY <1>23 DEF Crash, NoChange, NoRecv, NoTask, disk, places
<1> HIDE DEF IInv, DataInv, ProcInv, StateInv, Administering, ArchiveInv, BusyInv, ListInv,
             MatchInv, Busy,
             Unlinking
<1> QED
  BY <1>1, <1>2, <1>3, <1>4, <1>5, <1>6, <1>7, <1>8, <1>9, <1>10, <1>11, <1>12, <1>13,
     <1>14, <1>15, <1>16, <1>17, <1>18, <1>19, <1>20, <1>21, <1>22, <1>23 DEF Next,
     ReceiveOn, Stop, Command, Modes

-----------------------------------------------------------------------------
(* The invariant. *)

LEMMA InitIInv == Init => IInv
<1> SUFFICES ASSUME Init PROVE IInv
  OBVIOUS
<1>1. DataInv
  BY GidsAreBounded DEF Init, DataInv
<1>2. ProcInv
  <2>1. NoTask \in [pc : WorkerPcs, archive : Archives \cup {"none"}, list : Seq(Files)]
    BY DEF NoTask, WorkerPcs
  <2> QED BY <2>1 DEF Init, ProcInv, NoTask, NoRecv, NoChange, ServerPcs, AdminPcs
<1>3. StateInv /\ ArchiveInv
  BY DEF Init, StateInv, ArchiveInv, Administering, NoRecv, NoChange
<1>4. BusyInv /\ ListInv
  BY DEF Init, BusyInv, ListInv, ListOf, Busy, NoTask
<1>5. ReceivedInv /\ LinkInv /\ NoGapInv
  BY DEF Init, ReceivedInv, LinkInv, NoGapInv, NoRecv, NoChange
<1>6. ScheduleInv /\ KeptInv /\ MatchInv
  BY DEF Init, ScheduleInv, ToSchedule, KeptInv, MatchInv
<1> QED BY <1>1, <1>2, <1>3, <1>4, <1>5, <1>6 DEF IInv

LEMMA StutterIInv == IInv /\ UNCHANGED vars => IInv'
<1> SUFFICES ASSUME IInv, UNCHANGED vars PROVE IInv'
  OBVIOUS
<1> QED
  BY DataKept, ProcKept, StateKept, ArchiveKept, BusyKept, ListKept, ReceivedKept, LinksKept,
     NoGapKept, TasksKept, KeptKept, MatchKept DEF IInv, vars, memory, procs, disk, places

\* The invariant holds of every behaviour of the proxy, with its crashes.
THEOREM Invariance == Spec => []IInv
<1>1. IInv /\ Next => IInv'
  BY DataStep, ProcStep, StateStep, ArchiveStep, BusyStep, ListStep, ReceivedStep, LinkStep,
     NoGapStep, ScheduleStep, KeptStep, MatchStep, Zenon DEF IInv
<1>2. IInv /\ [Next]_vars => IInv'
  BY <1>1, StutterIInv
<1> QED BY <1>2, InitIInv, PTL DEF Spec

-----------------------------------------------------------------------------
(* The properties. *)

\* AckedIsKept: what the storage server has an ack for, and may therefore
\* forget, every archive has or can get from the files of the proxy, whatever
\* the workers, the commands and the crashes did (s2pWlogTransferServer), unless
\* a removal of its directory was cut off (deleteArchiveInfo, ProxyVolInfo::clear).
THEOREM AckedLogIsKept == Spec => []AckedIsKept
<1>1. IInv => AckedIsKept
  BY DEF IInv, KeptInv, AckedIsKept, Covers
<1> QED BY <1>1, Invariance, PTL

\* UnsentIsScheduled: no diff is forgotten by the task queue (ProxyWorker).
THEOREM NothingIsForgotten == Spec => []UnsentIsScheduled
<1>1. IInv => UnsentIsScheduled
  <2> SUFFICES ASSUME IInv, sm = "Started", stopState = "NotStopping", recvMgr = {},
                      NEW a \in archiveSet, mgr[a] # {}
               PROVE  \/ a \in queue \cup err \cup cut
                      \/ \E w \in Workers : worker[w].pc # "idle" /\ worker[w].archive = a
    BY DEF UnsentIsScheduled
  <2>1. ~(server.pc # "idle")
    BY DEF IInv, StateInv
  <2> QED BY <2>1 DEF IInv, ScheduleInv, ToSchedule, Scheduled
<1> QED BY <1>1, Invariance, PTL

\* ManagersMatchFiles: the managers in memory and the directories agree, up to
\* the files a worker is unlinking (deleteDiffs), and what a removal of the
\* directory has still to remove or, cut off, has left (rmdirRecursive).
THEOREM ManagersCorrect == Spec => []ManagersMatchFiles
<1>1. IInv => ManagersMatchFiles
  <2> SUFFICES ASSUME IInv, NEW a \in archiveSet \cap dirs, NEW d \in sendto[a], d \notin mgr[a],
                      a \notin gutted, ~(admin.pc = "files" /\ admin.archive = a)
               PROVE  d \in UNION {Listed(w) : w \in {v \in Workers : worker[v].archive = a
                                                                   /\ worker[v].pc = "unlink"}}
    BY DEF ManagersMatchFiles, IInv, MatchInv
  <2>1. PICK w \in Workers : /\ worker[w].archive = a /\ worker[w].pc = "unlink"
                             /\ \E i \in 1 .. Len(worker[w].list) : worker[w].list[i] = d
    BY DEF IInv, MatchInv, Unlinking
  <2>2. PICK v \in Seq(Files) : v = worker[w].list
    BY DEF IInv, ProcInv
  <2>3. d \in Listed(w)
    BY <2>1, <2>2 DEF Listed
  <2> QED BY <2>1, <2>3
<1> QED BY <1>1, Invariance, PTL

\* NoGapIsSent: what a worker merges and sends begins at or before the gid of
\* the archive, so that the archive never has to answer msgTooNewDiff, unless a
\* removal of its directory was cut off.
THEOREM NeverTooNew == Spec => []NoGapIsSent
<1>1. IInv => NoGapIsSent
  <2> SUFFICES ASSUME IInv, NEW w \in Workers, worker[w].pc = "send",
                      worker[w].archive \notin gutted
               PROVE  Merged(w).snapB.gidB <= latest[worker[w].archive]
    BY DEF NoGapIsSent
  <2>1. ProcInv /\ ListInv
    BY DEF IInv
  <2>2. Merged(w).snapB.gidB = worker[w].list[1].snapB.gidB
    BY <2>1, MergedEnds
  <2> QED BY <2>1, <2>2 DEF ListInv, ListOf
<1> QED BY <1>1, Invariance, PTL

\* Only the end of stop empty leads from WaitForEmpty to Stopped.
LEMMA EmptyStep ==
    ASSUME IInv, Next, sm = "WaitForEmpty", sm' = "Stopped", nrCrashes' = nrCrashes
    PROVE  Emptied
<1>0. DataInv /\ ProcInv /\ StateInv
  BY DEF IInv
<1>1. server.pc = "idle" /\ admin.pc = "idle"
  BY <1>0 DEF StateInv, ProcInv, Administering
<1>2. ~ \E e \in 1 .. MaxGid : RecvStart(e)
  BY DEF RecvStart
<1>3. ~ReceiveOn
  BY <1>1 DEF ReceiveOn, RecvFails, RecvSave, RecvRegister, RecvAck, LinkBegin, Link, LinkFails,
              LinkDone, Clean, RecvFinish
<1>4. ASSUME NEW w \in Workers, Transfer(w) PROVE FALSE
  <2>1. sm' = sm
    BY <1>4 DEF Transfer, Pop, SendNotNow, DontSend, SendBegin, SendAnswered, SendLater,
                SendRefused,
                SendCutOff, SendErase, SendUnlink, SendEnd, PushAgain, SetError, memory
  <2> QED BY <2>1
<1>5. ~Command
  <2>1. ~Administer
    BY <1>1, AdminAlone DEF AdminStates, Administering
  <2> QED BY <2>1 DEF Command, Start, Kick
<1>6. ~Crash
  BY <1>0 DEF Crash, DataInv
<1>7. PICK s \in Stoppers : Stop(s)
  BY <1>2, <1>3, <1>4, <1>5, <1>6 DEF Next
<1>8. CASE \E mode \in Modes : StopBegin(s, mode)
  BY <1>8 DEF StopBegin, StopGo, Ready, pSteadyStates
<1>9. CASE StopReady(s)
  BY <1>9 DEF StopReady, Ready, pSteadyStates
<1>10. CASE StopRemoveTasks(s) \/ StopCommit(s) \/ EmptyPush(s) \/ StopTimeout(s)
  BY <1>0, <1>10 DEF StopRemoveTasks, StopCommit, EmptyPush, StopTimeout, StateInv
<1>11. CASE EmptyDone(s)
  BY <1>11 DEF EmptyDone
<1> QED BY <1>7, <1>8, <1>9, <1>10, <1>11 DEF Stop, Modes

\* EmptyMeansEmpty: when stop empty ends, no diff file is left
\* (stopAndEmptyProxyVol), but for what a removal that was cut off has left.
THEOREM StopEmptyCorrect == Spec => EmptyMeansEmpty
<1>1. ASSUME IInv, [Next]_vars, sm = "WaitForEmpty", sm' = "Stopped", nrCrashes' = nrCrashes
      PROVE  received = {} /\ \A a \in archiveSet \ gutted : sendto[a] = {}
  <2>1. Next
    BY <1>1 DEF vars, memory
  <2>2. Emptied
    BY <1>1, <2>1, EmptyStep
  <2>3. /\ recvMgr = {} /\ \A a \in archiveSet : mgr[a] = {} /\ ac[a] = 0
    BY <2>2 DEF Emptied, hasDiffs, ActionNotRunning
  <2>0. server.pc = "idle" /\ admin.pc = "idle"
    BY <1>1 DEF IInv, StateInv, ProcInv, Administering
  <2>4. received = {}
    <3>1. ReceivedInv
      BY <1>1 DEF IInv
    <3> QED BY <2>0, <2>3, <3>1 DEF ReceivedInv
  <2>5. ASSUME NEW a \in archiveSet \ gutted
        PROVE  sendto[a] = {}
    <3>1. a \in dirs
      BY <1>1, <2>0 DEF IInv, ArchiveInv
    <3>2. \A d : ~Unlinking(d, a)
      BY <1>1, <2>3 DEF IInv, Unlinking, BusyInv, Busy
    <3> QED BY <1>1, <2>0, <2>3, <3>1, <3>2 DEF IInv, MatchInv
  <2> QED BY <2>4, <2>5
<1>2. IInv /\ [Next]_vars =>
        [sm = "WaitForEmpty" /\ sm' = "Stopped" /\ nrCrashes' = nrCrashes =>
              received = {} /\ \A a \in archiveSet \ gutted : sendto[a] = {}]_vars
  BY <1>1
<1> QED BY <1>2, Invariance, PTL DEF Spec, EmptyMeansEmpty
=============================================================================
