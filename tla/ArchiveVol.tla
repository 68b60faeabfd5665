------------------------------ MODULE ArchiveVol ------------------------------
(***************************************************************************)
(* One volume of an archive daemon at work: apply, restore, merge, the     *)
(* reception of diffs, garbage collection and changes of snapshots, as     *)
(* concurrent procedures over one base image and one directory of diff     *)
(* files, with crashes and restarts of the daemon (archive.cpp).           *)
(*                                                                         *)
(* The procedures hold the volume's lock only while a command is accepted  *)
(* and while a received diff is registered; between those moments they     *)
(* rely on the action counters, on the label of the base image             *)
(* (volInfo.setMetaState) and on the order in which files are saved,       *)
(* registered, unregistered and unlinked.                                  *)
(*                                                                         *)
(* Abstractions:                                                           *)
(*  - the base image is a thick logical volume: no cold snapshots          *)
(*    (ColdSnapshot);                                                      *)
(*  - the log of the storage is fixed beforehand by Written and Explicit;  *)
(*    the content of a block is the gid at which it was written last;      *)
(*  - files are saved, renamed and unlinked atomically, and the label of   *)
(*    the base image with them; the blocks of an apply reach the disk in   *)
(*    any order;                                                           *)
(*  - a procedure lists and opens its diffs in one step: tryOpenDiffs      *)
(*    starts over when a listed file is gone.                              *)
(***************************************************************************)
EXTENDS DiffManager

CONSTANTS
    Blocks,             \* blocks of the volume
    MaxGid,             \* bound: the log of the storage ends here
    Written,            \* the blocks written between gid - 1 and gid
    Explicit,           \* gids of the snapshots taken on the storage
    MaxOpenDiffs,       \* ga.maxOpenDiffs, 0 for no limit
    MaxCrashes,         \* bound: crashes of the daemon
    MaxRestored,        \* bound: restored volumes that are kept at a time
    Commands            \* the commands and protocols that are used

ASSUME AVAssumption ==
    /\ MaxGid \in Nat /\ MaxOpenDiffs \in Nat /\ MaxCrashes \in Nat /\ MaxRestored \in Nat
    /\ Written \in [1 .. MaxGid -> SUBSET Blocks]
    /\ Explicit \subseteq 1 .. MaxGid
    /\ Commands \subseteq {"apply", "merge", "restore", "recv", "gc", "snapshot"}

VARIABLES
    metaSt,        \* file: label of the base image
    base,          \* content of the base image
    files,         \* the diff files in the volume's directory
    mgr,           \* volSt.diffMgr
    latest,        \* snapB of volSt.latestMetaSt
    acked,         \* history: the last gid acknowledged to a proxy
    kept,          \* history: the gids to be kept as explicit snapshots, see Keeps
    ap,            \* the apply procedure
    mg,            \* the merge procedure
    rs,            \* the restore procedure
    rv,            \* p2aWdiffTransferServer
    restored,      \* the restored volumes, by gid
    overtaken,     \* history: an interrupted apply was not finished by the next one
    crashes

disk  == <<metaSt, base, files>>
procs == <<ap, mg, rs, rv>>
vars  == <<disk, mgr, latest, acked, kept, procs, restored, overtaken, crashes>>

-----------------------------------------------------------------------------
(* The storage. *)

Image == [Blocks -> 0 .. MaxGid]

WrittenIn(gidB, gidE) == UNION {Written[g] : g \in gidB + 1 .. gidE}

\* The volume as it was at gid.
Truth(gid) ==
    [b \in Blocks |->
        LET at == {g \in 1 .. gid : b \in Written[g]}
        IN  IF at = {} THEN 0 ELSE CHOOSE g \in at : \A h \in at : h <= g]

\* The diff of the log between two gids.
WlogDiff(gidB, gidE) ==
    [snapB |-> Snap(gidB, gidB), snapE |-> Snap(gidE, gidE),
     isMergeable |-> gidB \notin Explicit, isCompDiff |-> FALSE,
     data |-> [b \in WrittenIn(gidB, gidE) |-> Truth(gidE)[b]]]

-----------------------------------------------------------------------------
(* Apply: c2aApplyServer. *)

NoApply == [pc |-> "idle", gid |-> 0, list |-> <<>>, todo |-> {}]

Idle(actions) ==
    /\ "apply" \in actions => ap.pc = "idle"
    /\ "merge" \in actions => mg.pc = "idle"
    /\ "restore" \in actions => rs.pc = "idle"

StartApply ==
    /\ "apply" \in Commands
    /\ Idle({"apply", "merge", "restore"})
    /\ \E gid \in 1 .. MaxGid :
        /\ getDiffListToApply(mgr, metaSt, gid, 0) # <<>>
        /\ ap' = [NoApply EXCEPT !.pc = "list", !.gid = gid]
    /\ UNCHANGED <<disk, mgr, latest, acked, kept, mg, rs, rv, restored, overtaken, crashes>>

\* Mutant of ApplyBegin: the label is not changed before the blocks are.
ApplyBeginUnlabelled ==
    /\ ap.pc = "list"
    /\ LET v == getDiffListToApply(mgr, metaSt, ap.gid, MaxOpenDiffs)
       IN  /\ v # <<>>
           /\ ap' = [ap EXCEPT !.pc = "write", !.list = v, !.todo = DOMAIN MergedData(v)]
    /\ UNCHANGED <<disk, mgr, latest, acked, kept, mg, rs, rv, restored, overtaken, crashes>>

\* One turn of applyDiffsToVolumeOnce: the diffs are chosen, the base image is
\* labelled.
ApplyBegin ==
    /\ ap.pc = "list"
    /\ LET v == getDiffListToApply(mgr, metaSt, ap.gid, MaxOpenDiffs)
       IN  /\ v # <<>>
           /\ metaSt' = beginApplying(metaSt, v)
           /\ overtaken' = (overtaken \/ ~CanApplyState(metaSt, v))
           /\ ap' = [ap EXCEPT !.pc = "write", !.list = v, !.todo = DOMAIN MergedData(v)]
    /\ UNCHANGED <<base, files, mgr, latest, acked, kept, mg, rs, rv, restored, crashes>>

ApplyDone ==
    /\ ap.pc = "list"
    /\ getDiffListToApply(mgr, metaSt, ap.gid, MaxOpenDiffs) = <<>>
    /\ ap' = NoApply
    /\ UNCHANGED <<disk, mgr, latest, acked, kept, mg, rs, rv, restored, overtaken, crashes>>

ApplyWrite ==
    /\ ap.pc = "write"
    /\ \E b \in ap.todo :
        /\ base' = [base EXCEPT ![b] = MergedData(ap.list)[b]]
        /\ ap' = [ap EXCEPT !.todo = @ \ {b}]
    /\ UNCHANGED <<metaSt, files, mgr, latest, acked, kept, mg, rs, rv, restored, overtaken, crashes>>

\* A forced stop, or an error of the device.
ApplyStopped ==
    /\ ap.pc = "write"
    /\ ap' = NoApply
    /\ UNCHANGED <<disk, mgr, latest, acked, kept, mg, rs, rv, restored, overtaken, crashes>>

\* Mutant of ApplyEnd: the label goes back to where the apply began.
ApplyEndKeepsLabel ==
    /\ ap.pc = "write" /\ ap.todo = {}
    /\ metaSt' = Settled(metaSt.snapB)
    /\ ap' = [ap EXCEPT !.pc = "remove", !.list = <<>>]
    /\ UNCHANGED <<base, files, mgr, latest, acked, kept, mg, rs, rv, restored, overtaken, crashes>>

ApplyEnd ==
    /\ ap.pc = "write" /\ ap.todo = {}
    /\ metaSt' = endApplying(metaSt, ap.list)
    /\ ap' = [ap EXCEPT !.pc = "remove", !.list = <<>>]
    /\ UNCHANGED <<base, files, mgr, latest, acked, kept, mg, rs, rv, restored, overtaken, crashes>>

\* removeBeforeGid: the diffs are unregistered, then their files are unlinked.
ApplyRemove ==
    /\ ap.pc = "remove"
    /\ mgr' = eraseBeforeGid(mgr, metaSt.snapB.gidB)
    /\ ap' = [ap EXCEPT !.pc = "unlink", !.todo = mgr \ mgr']
    /\ UNCHANGED <<disk, latest, acked, kept, mg, rs, rv, restored, overtaken, crashes>>

ApplyUnlink ==
    /\ ap.pc = "unlink"
    /\ \/ \E d \in ap.todo :
            /\ files' = files \ {d}
            /\ ap' = [ap EXCEPT !.todo = @ \ {d}]
       \/ /\ ap.todo = {}
          /\ files' = files
          /\ ap' = [ap EXCEPT !.pc = "list"]
    /\ UNCHANGED <<metaSt, base, mgr, latest, acked, kept, mg, rs, rv, restored, overtaken, crashes>>

-----------------------------------------------------------------------------
(* Merge: c2aMergeServer. *)

NoMerge == [pc |-> "idle", list |-> <<>>, todo |-> {}]

\* The list of mergeable diffs is cut at a gid or at a size.
StartMerge ==
    /\ "merge" \in Commands
    /\ Idle({"apply", "merge", "restore"})
    /\ ~metaSt.isApplying
    /\ \E gid \in 0 .. MaxGid :
        LET v == getMergeableDiffList(mgr, gid)
        IN  \E n \in 2 .. Len(v) : mg' = [NoMerge EXCEPT !.pc = "save", !.list = SubSeq(v, 1, n)]
    /\ UNCHANGED <<disk, mgr, latest, acked, kept, ap, rs, rv, restored, overtaken, crashes>>

\* Mutant of MergeSave: the merged diff is registered without having been saved.
MergeNotSaved ==
    /\ mg.pc = "save"
    /\ mg' = [mg EXCEPT !.pc = "add"]
    /\ UNCHANGED <<disk, mgr, latest, acked, kept, ap, rs, rv, restored, overtaken, crashes>>

MergeSave ==
    /\ mg.pc = "save"
    /\ files' = files \cup {MergeAll(mg.list)}
    /\ mg' = [mg EXCEPT !.pc = "add"]
    /\ UNCHANGED <<metaSt, base, mgr, latest, acked, kept, ap, rs, rv, restored, overtaken, crashes>>

\* A forced stop.
MergeStopped ==
    /\ mg.pc = "save"
    /\ mg' = NoMerge
    /\ UNCHANGED <<disk, mgr, latest, acked, kept, ap, rs, rv, restored, overtaken, crashes>>

\* MetaDiffManager::add throws when it has a diff with the same snapshots.
CanAdd(d) == \A e \in mgr : ~SameRange(d, e)

MergeAdd ==
    /\ mg.pc = "add"
    /\ \/ /\ CanAdd(MergeAll(mg.list))
          /\ mgr' = mgr \cup {MergeAll(mg.list)}
          /\ mg' = [mg EXCEPT !.pc = "erase"]
       \/ /\ ~CanAdd(MergeAll(mg.list))
          /\ mgr' = mgr /\ mg' = NoMerge
    /\ UNCHANGED <<disk, latest, acked, kept, ap, rs, rv, restored, overtaken, crashes>>

\* removeDiffs.  A diff is the same one by its range, also when its snapshot
\* has been changed meanwhile; its file is not, it has another name then.
MergeErase ==
    /\ mg.pc = "erase"
    /\ mgr' = {d \in mgr : \A i \in DOMAIN mg.list : ~SameRange(d, mg.list[i])}
    /\ mg' = [mg EXCEPT !.pc = "unlink", !.todo = {mg.list[i] : i \in DOMAIN mg.list}]
    /\ UNCHANGED <<disk, latest, acked, kept, ap, rs, rv, restored, overtaken, crashes>>

MergeUnlink ==
    /\ mg.pc = "unlink"
    /\ \/ \E d \in mg.todo :
            /\ files' = files \ {d}
            /\ mg' = [mg EXCEPT !.todo = @ \ {d}]
       \/ /\ mg.todo = {}
          /\ files' = files
          /\ mg' = NoMerge
    /\ UNCHANGED <<metaSt, base, mgr, latest, acked, kept, ap, rs, rv, restored, overtaken, crashes>>

-----------------------------------------------------------------------------
(* Restore: c2aRestoreServer. *)

NoRestore == [pc |-> "idle", gid |-> 0, st |-> Settled(Snap(0, 0)), image |-> [b \in Blocks |-> 0],
              spoilt |-> FALSE]

StartRestore ==
    /\ "restore" \in Commands
    /\ Idle({"restore"})
    /\ Cardinality(DOMAIN restored) < MaxRestored
    /\ \E gid \in 1 .. MaxGid :
        /\ gid \notin DOMAIN restored
        /\ rs' = [NoRestore EXCEPT !.pc = "label", !.gid = gid]
    /\ UNCHANGED <<disk, mgr, latest, acked, kept, ap, mg, rv, restored, overtaken, crashes>>

\* getMetaStateForRestore.
RestoreReadLabel ==
    /\ rs.pc = "label"
    /\ rs' = [rs EXCEPT !.pc = "snapshot", !.st = metaSt]
    /\ UNCHANGED <<disk, mgr, latest, acked, kept, ap, mg, rv, restored, overtaken, crashes>>

\* baseLv.createLvSnap.  History: whether the label has changed since it was read.
RestoreSnapshot ==
    /\ rs.pc = "snapshot"
    /\ rs' = [rs EXCEPT !.pc = "apply", !.image = base, !.spoilt = metaSt # rs.st]
    /\ UNCHANGED <<disk, mgr, latest, acked, kept, ap, mg, rv, restored, overtaken, crashes>>

\* Mutant of NoNeedToApply: an image an apply was writing into is taken as it is.
NoNeedWhenLabelled(st, gid) == IsClean(st.snapB) /\ st.snapB.gidB = gid

NoNeedToApply(st, gid) == ~st.isApplying /\ IsClean(st.snapB) /\ st.snapB.gidB = gid

\* applyDiffsToRestore.
RestoreApply ==
    /\ rs.pc = "apply" /\ ~NoNeedToApply(rs.st, rs.gid)
    /\ LET v == getDiffListToRestore(mgr, rs.st, rs.gid, MaxOpenDiffs)
           all == getDiffListToSync(mgr, rs.st, Snap(rs.gid, rs.gid))
       IN  rs' = IF v = <<>> THEN NoRestore
                 ELSE [rs EXCEPT !.st = endApplying(rs.st, v), !.image = Patch(@, MergedData(v)),
                                 !.spoilt = @ \/ ~CanApplyState(rs.st, all)]
    /\ UNCHANGED <<disk, mgr, latest, acked, kept, ap, mg, rv, restored, overtaken, crashes>>

RestoreStopped ==
    /\ rs.pc = "apply" /\ ~NoNeedToApply(rs.st, rs.gid)
    /\ rs' = NoRestore
    /\ UNCHANGED <<disk, mgr, latest, acked, kept, ap, mg, rv, restored, overtaken, crashes>>

\* renameLv.
RestoreFinish ==
    /\ rs.pc = "apply" /\ NoNeedToApply(rs.st, rs.gid)
    /\ restored' = [g \in DOMAIN restored \cup {rs.gid} |->
                      IF g # rs.gid THEN restored[g]
                      ELSE [image |-> rs.image, spoilt |-> rs.spoilt \/ overtaken]]
    /\ rs' = NoRestore
    /\ UNCHANGED <<disk, mgr, latest, acked, kept, ap, mg, rv, overtaken, crashes>>

\* c2aDelRestoredServer.
DeleteRestored ==
    /\ Idle({"restore"})
    /\ \E gid \in DOMAIN restored :
        restored' = [g \in DOMAIN restored \ {gid} |-> restored[g]]
    /\ UNCHANGED <<disk, mgr, latest, acked, kept, procs, overtaken, crashes>>

-----------------------------------------------------------------------------
(* Reception: p2aWdiffTransferServer. *)

NoRecv == [pc |-> "idle", diff |-> {}, latest |-> Snap(0, 0)]

\* A proxy sends what it has not seen acknowledged, merged into one diff.  It
\* merges nothing over an explicit snapshot of the storage.
StartRecv ==
    /\ "recv" \in Commands
    /\ rv.pc = "idle"
    /\ \E gidB, gidE \in 0 .. MaxGid :
        /\ gidB < gidE
        /\ \A g \in Explicit : ~(gidB < g /\ g < gidE)
        /\ canApply(latest, WlogDiff(gidB, gidE))
        /\ rv' = [pc |-> "save", diff |-> {WlogDiff(gidB, gidE)}, latest |-> latest]
    /\ UNCHANGED <<disk, mgr, latest, acked, kept, ap, mg, rs, restored, overtaken, crashes>>

\* A forced stop, or the connection is lost.
RecvStopped ==
    /\ rv.pc = "save"
    /\ rv' = NoRecv
    /\ UNCHANGED <<disk, mgr, latest, acked, kept, ap, mg, rs, restored, overtaken, crashes>>

\* No diff of ds leads over gid, nor may one be merged over it.
Keeps(ds, gid) ==
    \A d \in ds : /\ ~(d.snapB.gidB < gid /\ gid < d.snapE.gidB)
                  /\ d.snapB.gidB = gid => ~d.isMergeable

\* History: a diff over a snapshot that was to be kept, or from it and mergeable,
\* has come.  It can be sent again and longer by a proxy that knows nothing of
\* the snapshots asked for here.
RecvSave ==
    /\ rv.pc = "save"
    /\ files' = files \cup rv.diff
    /\ kept' = {gid \in kept : Keeps(rv.diff, gid)}
    /\ rv' = [rv EXCEPT !.pc = "add"]
    /\ UNCHANGED <<metaSt, base, mgr, latest, acked, ap, mg, rs, restored, overtaken, crashes>>

RecvAdd ==
    /\ rv.pc = "add"
    /\ \E d \in rv.diff :
        \/ /\ CanAdd(d)
           /\ mgr' = mgr \cup {d}
           /\ latest' = apply(rv.latest, d)
           /\ acked' = d.snapE.gidB
        \/ /\ ~CanAdd(d)
           /\ UNCHANGED <<mgr, latest, acked>>
    /\ rv' = NoRecv
    /\ UNCHANGED <<disk, kept, ap, mg, rs, restored, overtaken, crashes>>

-----------------------------------------------------------------------------
(* Commands that hold the lock. *)

\* c2aGarbageCollectDiffServer.
GarbageCollect ==
    /\ "gc" \in Commands
    /\ Idle({"apply", "merge", "restore"})
    /\ mgr' = gc(mgr, metaSt)
    /\ files' = files \ (mgr \ mgr')
    /\ UNCHANGED <<metaSt, base, latest, acked, kept, procs, restored, overtaken, crashes>>

\* enable-snapshot and disable-snapshot: the diffs that start at gid change and
\* their files are renamed.
ChangeSnapshot ==
    /\ "snapshot" \in Commands
    /\ Idle({"apply", "merge"})
    /\ \E gid \in 1 .. MaxGid, enable \in BOOLEAN :
        LET found == {d \in mgr : d.snapB.gidB = gid}
            Changed(ds) == {IF d \in found THEN [d EXCEPT !.isMergeable = ~enable] ELSE d : d \in ds}
        IN  /\ found # {}
            /\ mgr' = Changed(mgr)
            /\ files' = Changed(files)
            /\ kept' = IF ~enable THEN kept \ {gid}
                       ELSE IF Keeps(files', gid) THEN kept \cup {gid} ELSE kept
    /\ UNCHANGED <<metaSt, base, latest, acked, procs, restored, overtaken, crashes>>

-----------------------------------------------------------------------------
\* The daemon dies and starts again: the diffs are read from the directory,
\* the latest snapshot is computed and garbage is collected.
Restart ==
    /\ crashes < MaxCrashes
    /\ crashes' = crashes + 1
    /\ latest' = getLatestState(files, metaSt).snapB
    /\ mgr' = gc(files, metaSt)
    /\ files' = mgr'
    /\ ap' = NoApply /\ mg' = NoMerge /\ rs' = NoRestore /\ rv' = NoRecv
    /\ UNCHANGED <<metaSt, base, acked, kept, restored, overtaken>>

\* A full backup has just finished; the volume was written to meanwhile.
Init ==
    /\ \E gidE \in 0 .. MaxGid :
        /\ \A g \in Explicit : gidE <= g
        /\ metaSt = Settled(Snap(0, gidE))
        /\ base \in {[b \in Blocks |-> Truth(at[b])[b]] : at \in [Blocks -> 0 .. gidE]}
    /\ kept = Explicit
    /\ files = {} /\ mgr = {}
    /\ latest = metaSt.snapB /\ acked = 0
    /\ ap = NoApply /\ mg = NoMerge /\ rs = NoRestore /\ rv = NoRecv
    /\ restored = <<>>
    /\ overtaken = FALSE /\ crashes = 0

ApplyStep   == ApplyBegin \/ ApplyDone \/ ApplyWrite \/ ApplyEnd \/ ApplyRemove \/ ApplyUnlink
MergeStep   == MergeSave \/ MergeAdd \/ MergeErase \/ MergeUnlink
RestoreStep == RestoreReadLabel \/ RestoreSnapshot \/ RestoreApply \/ RestoreFinish

Next ==
    \/ StartApply \/ ApplyStep \/ ApplyStopped
    \/ StartMerge \/ MergeStep \/ MergeStopped
    \/ StartRestore \/ RestoreStep \/ RestoreStopped \/ DeleteRestored
    \/ StartRecv \/ RecvStopped \/ RecvSave \/ RecvAdd
    \/ GarbageCollect \/ ChangeSnapshot \/ Restart

Spec == Init /\ [][Next]_vars

\* Each procedure has a thread of its own, which can take a step whenever it is
\* not idle.  This is WF_vars of the three actions with ENABLED written out.
Fairness ==
    /\ <>[](ap.pc # "idle") => []<><<ApplyStep>>_vars
    /\ <>[](mg.pc # "idle") => []<><<MergeStep>>_vars
    /\ <>[](rs.pc # "idle") => []<><<RestoreStep>>_vars

FairSpec == Spec /\ Fairness

-----------------------------------------------------------------------------
(* Properties. *)

TypeOK ==
    /\ metaSt \in MetaState /\ base \in Image
    /\ latest \in MetaSnap /\ acked \in 0 .. MaxGid /\ kept \subseteq 1 .. MaxGid
    /\ ap.pc \in {"idle", "list", "write", "remove", "unlink"}
    /\ mg.pc \in {"idle", "save", "add", "erase", "unlink"}
    /\ rs.pc \in {"idle", "label", "snapshot", "apply"} /\ rs.st \in MetaState /\ rs.image \in Image
    /\ rv.pc \in {"idle", "save", "add"} /\ rv.latest \in MetaSnap
    /\ restored \in [DOMAIN restored -> [image : Image, spoilt : BOOLEAN]]
    /\ DOMAIN restored \subseteq 1 .. MaxGid
    /\ \A d \in files \cup mgr : Progresses(d.snapB, d.snapE) /\ DOMAIN d.data \subseteq Blocks

\* A base image labelled with a clean snapshot and with no apply under way is
\* the volume as it was at that gid, however many applies were interrupted,
\* by a stop or a crash, before.
BaseExact ==
    ~metaSt.isApplying /\ IsClean(metaSt.snapB) /\ ~overtaken => base = Truth(metaSt.snapB.gidB)

\* What restore has made is the volume as it was at the gid asked for, whatever
\* apply, merge and garbage collection did to the base image and the diffs while
\* it ran.  There are two ways to go wrong and no third: apply changes the label
\* between restore's reading of it and its LVM snapshot, or the diffs chosen for
\* a base image with an interrupted apply do not reach that apply's end.
RestoredExact ==
    \A gid \in DOMAIN restored : restored[gid].spoilt \/ restored[gid].image = Truth(gid)

\* The diffs, over the base image, make the latest snapshot at every moment,
\* in the middle of an apply or after an interrupted one as well: this is what
\* hash backup and replication read.
LatestReadable ==
    LET v == getApplicableDiffList(mgr, metaSt.snapB)
    IN  IsClean(latest) /\ ~overtaken => Patch(base, MergedData(v)) = Truth(latest.gidB)

\* A crash at any moment loses no diff that was acknowledged to a proxy, which
\* has deleted it then.
AckedIsDurable == acked <= getLatestState(files, metaSt).snapB.gidB

\* Can a command restore this gid now?
Restorable(gid) ==
    NoNeedToApply(metaSt, gid) \/ getDiffListToRestore(mgr, metaSt, gid, 0) # <<>>

\* A snapshot of the storage, or one asked for here that no diff leads over, can be
\* restored from when it is received until the base image is to pass it: merges
\* with its neighbours, garbage collection and crashes between their steps leave
\* a way to it that the greedy walk takes.
KeptIsRestorable ==
    \A gid \in kept :
        LET reached == IF metaSt.isApplying THEN metaSt.snapE ELSE metaSt.snapB
        IN  Larger(reached.gidB, metaSt.snapB.gidE) <= gid /\ gid <= latest.gidB => Restorable(gid)

\* No two diffs of a volume have the same snapshots, so that the exception of
\* MetaDiffManager::add ("already exists") is never met: a merged diff would
\* remain a file only, a received one would be refused for ever.
AddNeverRefused ==
    /\ mg.pc = "add" => CanAdd(MergeAll(mg.list))
    /\ rv.pc = "add" => \A d \in rv.diff : CanAdd(d)

\* assert(canApply(st, v)) in beginApplying: the diffs that are to be applied reach
\* at least as far as an interrupted apply had, unless a diff over that apply's
\* end has come since, a longer one than the diffs it had.
ApplyProgresses ==
    ap.pc = "list" =>
        LET v == getDiffListToApply(mgr, metaSt, ap.gid, MaxOpenDiffs)
            end == metaSt.snapE.gidB
        IN  \/ v = <<>> \/ CanApplyState(metaSt, v)
            \/ \E d \in mgr : d.snapB.gidB < end /\ end < d.snapE.gidB

\* The loops of apply and restore come to an end: every turn leads further, also
\* with few diffs opened at a time, after an interrupted apply and with an apply
\* that moves the base image while a restore runs.
ProceduresEnd ==
    /\ ap.pc # "idle" ~> ap.pc = "idle"
    /\ mg.pc # "idle" ~> mg.pc = "idle"
    /\ rs.pc # "idle" ~> rs.pc = "idle"

=============================================================================
