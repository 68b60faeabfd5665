---------------------------- MODULE ColdSnapshot ----------------------------
(***************************************************************************)
(* Cold snapshots of a volume in a thin pool (archive.cpp,                 *)
(* archive_vol_info.cpp).                                                  *)
(*                                                                         *)
(* restore leaves, next to the restored volume, a read-only snapshot of    *)
(* the same image, the cold snapshot, and a file with its timestamp.  Later*)
(* restores start from it instead of the base image, and apply makes it    *)
(* the base image itself: the snapshot is renamed aside, the base volume   *)
(* removed, the meta state set, the snapshot renamed to the base.  A crash *)
(* between two of these steps is repaired at the next start, or, after an  *)
(* exception, by the next apply.                                           *)
(*                                                                         *)
(* Volume, timestamp file and entry of the cache are made and removed one  *)
(* after the other, without a lock of their own (makeColdToBase holds      *)
(* volSt.mu, which a restore or del-cold under way does not take): each is *)
(* a step.  One del-cold runs at a time.                                   *)
(*                                                                         *)
(* An image is [lo, hi]: blocks of the snapshots from lo to hi.  A diff g  *)
(* leads from snapshot g to g + 1.  Logical volumes, diff files, timestamps*)
(* and metaSt survive a crash; the cache of logical volumes and the        *)
(* threads do not.                                                         *)
(***************************************************************************)
EXTENDS Integers, FiniteSets, FiniteSetsExt

CONSTANTS
    MaxGid,         \* bound on the gids
    MaxRestored,    \* bound on the restored volumes kept at a time
    MaxFaults       \* bound on the crashes, failing commands and del-colds

ASSUME BoundsAreSane ==
    MaxGid \in Nat \ {0} /\ MaxRestored \in Nat \ {0} /\ MaxFaults \in Nat

Gid == 0 .. MaxGid

VARIABLES
    latest,         \* the last snapshot received
    diffs,          \* files, by the gid they start from
    metaSt,         \* [lo, hi]: snapB and snapE; equal if nothing is being applied
    lvs,            \* logical volumes by name, with their images
    stamps,         \* timestamp files of cold snapshots
    cache,          \* lvCache: gids of cold snapshots
    up,             \* "up", "down", or "recovered": starting
    rst, apl, del,  \* the threads of restore, apply and del-cold
    nrFaults,       \* crashes, failing commands and del-colds so far
    accidents       \* history: the known races that have happened

durable == <<latest, diffs, metaSt, lvs, stamps>>
threads == <<rst, apl, del>>
history == <<nrFaults, accidents>>
vars    == <<durable, cache, up, threads, history>>

Exact(g) == [lo |-> g, hi |-> g]
Broken   == [lo |-> -1, hi |-> MaxGid + 1]

\* Names of logical volumes.
Base        == [kind |-> "base",     gid |-> 0]
Cold(g)     == [kind |-> "cold",     gid |-> g]
ToBase(g)   == [kind |-> "toBase",   gid |-> g]     \* coldToBaseLvName
Restored(g) == [kind |-> "restored", gid |-> g]
TmpRestored == [kind |-> "tmp",      gid |-> 0]

Exists(name)     == name \in DOMAIN lvs
With(name, img)  == [n \in DOMAIN lvs \cup {name} |-> IF n = name THEN img ELSE lvs[n]]
Without(names)   == [n \in DOMAIN lvs \ names |-> lvs[n]]
Rename(old, new) == [n \in (DOMAIN lvs \ {old}) \cup {new} |->
                        IF n = new THEN lvs[old] ELSE lvs[n]]

\* "overtaken": apply changed the meta state between a restore's reading it and
\* its snapshot of the base; "twice": a cold snapshot was made again while the
\* first one was set aside; "stampLost": del-cold, or a restore that keeps one
\* snapshot, removed the timestamp of the one set aside; "stampGone": del-cold
\* removed that of one a restore has made again meanwhile; "addedLate": restore entered one in the cache that was set aside or
\* deleted since it was made.
Noted(what, happens) == IF happens THEN accidents \cup {what} ELSE accidents

Fault == nrFaults < MaxFaults /\ nrFaults' = nrFaults + 1

NoThread == [pc |-> "idle", gid |-> 0, st |-> Exact(0), cold |-> FALSE, old |-> {}]

\* volSt.mu is held while a cold snapshot becomes the base image.
MuFree == apl.pc \notin {"aside", "uncache", "drop", "meta", "rename", "stamp", "clean"}

\* The image after the diffs from snapshot g to e are written into img: the
\* blocks these diffs do not hold must not be older than g, nor newer than e.
Written(img, g, e) == IF img.lo >= g /\ img.hi <= e THEN Exact(e) ELSE Broken

\* getDiffListToRestore, getDiffListToApply: there is a chain of diffs.
Chain(st, e) == /\ st.lo < e /\ st.hi <= e
                /\ \A g \in st.lo .. e - 1 : g \in diffs

\* The snapshots up to gid that diffs lead to.
Reach(st, gid) == {e \in 1 .. gid : Chain(st, e)}

\* getMetaStateForDetail, without the timestamp.
ColdGids(gid) == {g \in cache : g <= gid /\ g > metaSt.lo}
UseCold(gid, isApply) ==
    ColdGids(gid) # {} /\ ~(isApply /\ metaSt.lo # metaSt.hi)
getMetaStateForDetail(gid, isApply) ==
    IF UseCold(gid, isApply) THEN Exact(Max(ColdGids(gid))) ELSE metaSt

\* Mutant of removeBeforeGid: one diff too many.
RemoveUpToGid(g) ==
    /\ diffs' = {d \in diffs : d > g}
    /\ stamps' = {t \in stamps : t >= g}
    /\ lvs' = Without({Cold(c) : c \in {c \in cache : c < g}})
    /\ cache' = {c \in cache : c >= g}

removeBeforeGid(g) ==
    /\ diffs' = {d \in diffs : d >= g}
    /\ stamps' = {t \in stamps : t >= g}
    /\ lvs' = Without({Cold(c) : c \in {c \in cache : c < g}})
    /\ cache' = {c \in cache : c >= g}

(***************************************************************************)
(* restore.                                                                *)
(***************************************************************************)
RestoreBegin(gid) ==
    /\ up = "up" /\ MuFree
    /\ rst.pc = "idle"
    /\ ~Exists(Restored(gid))
    /\ Cardinality({n \in DOMAIN lvs : n.kind = "restored"}) < MaxRestored
    /\ rst' = [NoThread EXCEPT !.pc = "state", !.gid = gid]
    /\ lvs' = Without({TmpRestored})
    /\ UNCHANGED <<latest, diffs, metaSt, stamps, cache, up, apl, del, history>>

RestoreReadState ==
    /\ rst.pc = "state"
    /\ rst' = [rst EXCEPT !.pc = "snap", !.st = getMetaStateForDetail(rst.gid, FALSE),
                          !.cold = UseCold(rst.gid, FALSE)]
    /\ rst'.cold => rst'.st.lo \in stamps
    /\ UNCHANGED <<durable, cache, up, apl, del, history>>

Origin == IF rst.cold THEN Cold(rst.st.lo) ELSE Base

RestoreSnap ==
    /\ rst.pc = "snap" /\ Exists(Origin)
    /\ lvs' = With(TmpRestored, lvs[Origin])
    /\ rst' = [rst EXCEPT !.pc = "apply"]
    /\ accidents' = Noted("overtaken", ~rst.cold /\ metaSt # rst.st)
    /\ UNCHANGED <<latest, diffs, metaSt, stamps, cache, up, apl, del, nrFaults>>

\* Mutant of RestoreApply: the last diff is left out.
RestoreApplyShort ==
    /\ rst.pc = "apply" /\ Chain(rst.st, rst.gid)
    /\ lvs' = With(TmpRestored, Written(lvs[TmpRestored], rst.st.lo, rst.gid - 1))
    /\ rst' = [NoThread EXCEPT !.pc = "cold", !.gid = rst.gid]
    /\ UNCHANGED <<latest, diffs, metaSt, stamps, cache, up, apl, del, history>>

RestoreApply ==
    /\ rst.pc = "apply" /\ Chain(rst.st, rst.gid)
    /\ lvs' = With(TmpRestored, Written(lvs[TmpRestored], rst.st.lo, rst.gid))
    /\ rst' = [NoThread EXCEPT !.pc = "cold", !.gid = rst.gid]
    /\ UNCHANGED <<latest, diffs, metaSt, stamps, cache, up, apl, del, history>>

RestoreNoNeedToApply ==
    /\ rst.pc = "apply" /\ rst.st = Exact(rst.gid)
    /\ rst' = [NoThread EXCEPT !.pc = "cold", !.gid = rst.gid]
    /\ UNCHANGED <<durable, cache, up, apl, del, history>>

RestoreMakeCold ==
    /\ rst.pc = "cold"
    /\ IF Exists(Cold(rst.gid))
       THEN rst' = [rst EXCEPT !.pc = "name"] /\ UNCHANGED lvs
       ELSE /\ lvs' = With(Cold(rst.gid), lvs[TmpRestored])
            /\ rst' = [rst EXCEPT !.pc = "addCold"]
    /\ accidents' = Noted("twice", Exists(ToBase(rst.gid)))
    /\ UNCHANGED <<latest, diffs, metaSt, stamps, cache, up, apl, del, nrFaults>>

RestoreAddCold ==
    /\ rst.pc = "addCold"
    /\ cache' = cache \cup {rst.gid}
    /\ rst' = [rst EXCEPT !.pc = "stamp"]
    /\ accidents' = Noted("addedLate", ~Exists(Cold(rst.gid)))
    /\ UNCHANGED <<durable, up, apl, del, nrFaults>>

RestoreSetColdTimestamp ==
    /\ rst.pc = "stamp"
    /\ stamps' = stamps \cup {rst.gid}
    /\ rst' = [rst EXCEPT !.pc = "name"]
    /\ UNCHANGED <<latest, diffs, metaSt, lvs, cache, up, apl, del, history>>

RestoreRename ==
    /\ rst.pc = "name"
    /\ lvs' = Rename(TmpRestored, Restored(rst.gid))
    /\ rst' \in {[NoThread EXCEPT !.pc = "list"], NoThread}   \* keepOneColdSnapshot
    /\ UNCHANGED <<latest, diffs, metaSt, stamps, cache, up, apl, del, history>>

\* removeColdSnapshotsExceptTheLatestOne: these are listed, ...
KeepOneNext(old) ==
    IF old = {} THEN NoThread ELSE [NoThread EXCEPT !.pc = "keepOne", !.old = old]

RestoreListCold ==
    /\ rst.pc = "list"
    /\ rst' = KeepOneNext({g \in cache : \E h \in cache : g < h})
    /\ UNCHANGED <<durable, cache, up, apl, del, history>>

\* ... and each is removed, then its timestamp, then its entry in the cache.
RestoreRemoveCold ==
    /\ rst.pc = "keepOne"
    /\ LET g == Min(rst.old)
       IN  /\ lvs' = Without({Cold(g)})
           /\ rst' = [rst EXCEPT !.pc = "keepOneStamp", !.gid = g, !.old = @ \ {g}]
    /\ UNCHANGED <<latest, diffs, metaSt, stamps, cache, up, apl, del, history>>

RestoreRemoveStamp ==
    /\ rst.pc = "keepOneStamp"
    /\ stamps' = stamps \ {rst.gid}
    /\ rst' = [rst EXCEPT !.pc = "keepOneCache"]
    /\ accidents' = Noted("stampLost", Exists(ToBase(rst.gid)))
    /\ UNCHANGED <<latest, diffs, metaSt, lvs, cache, up, apl, del, nrFaults>>

RestoreUncache ==
    /\ rst.pc = "keepOneCache"
    /\ cache' = cache \ {rst.gid}
    /\ rst' = KeepOneNext(rst.old)
    /\ UNCHANGED <<durable, up, apl, del, history>>

\* An exception: the snapshot, its timestamp or the diffs are not there.
\* The temporary snapshot is deleted (TmpSnapshotDeleter).
RestoreFails ==
    /\ \/ /\ rst.pc = "state" /\ UseCold(rst.gid, FALSE)
          /\ getMetaStateForDetail(rst.gid, FALSE).lo \notin stamps
       \/ rst.pc = "snap" /\ ~Exists(Origin)
       \/ rst.pc = "apply" /\ rst.st # Exact(rst.gid) /\ ~Chain(rst.st, rst.gid)
    /\ lvs' = Without({TmpRestored})
    /\ rst' = NoThread
    /\ UNCHANGED <<latest, diffs, metaSt, stamps, cache, up, apl, del, history>>

(***************************************************************************)
(* A cold snapshot becomes the base image, and what a failure left of it   *)
(* is repaired.                                                            *)
(***************************************************************************)
\* recoverColdToBaseIfNecessary, without the cases that end in an exception.
\* What it leaves when it is interrupted itself, the steps below leave too.
Left == {n \in DOMAIN lvs : n.kind = "toBase"}
LeftGid == (CHOOSE n \in Left : TRUE).gid

recoverColdToBaseIfNecessary ==
    \/ /\ Left = {} /\ Exists(Base)
       /\ UNCHANGED <<diffs, metaSt, lvs, stamps>>
    \/ /\ Left # {} /\ Exists(Base) /\ LeftGid <= metaSt.lo
       /\ lvs' = Without(Left) /\ stamps' = stamps \ {LeftGid}
       /\ UNCHANGED <<diffs, metaSt>>
    \/ /\ Left # {} /\ Exists(Base) /\ LeftGid > metaSt.lo /\ ~Exists(Cold(LeftGid))
       /\ lvs' = Rename(ToBase(LeftGid), Cold(LeftGid))
       /\ UNCHANGED <<diffs, metaSt, stamps>>
    \/ /\ Left # {} /\ ~Exists(Base) /\ LeftGid \in stamps
       /\ metaSt' = Exact(LeftGid)
       /\ lvs' = [n \in (DOMAIN lvs \ (Left \cup {Cold(c) : c \in {c \in cache : c < LeftGid}}))
                            \cup {Base} |-> IF n = Base THEN lvs[ToBase(LeftGid)] ELSE lvs[n]]
       /\ stamps' = {t \in stamps : t > LeftGid}
       /\ diffs' = {d \in diffs : d >= LeftGid}

CanRecover ==
    \/ Left = {} /\ Exists(Base)
    \/ Left # {} /\ Exists(Base) /\ (LeftGid > metaSt.lo => ~Exists(Cold(LeftGid)))
    \/ Left # {} /\ ~Exists(Base) /\ LeftGid \in stamps

\* removeBeforeGid drops the cold snapshots it has removed from the cache.
RecoveredCache ==
    IF Left # {} /\ ~Exists(Base) THEN {c \in cache : c >= LeftGid} ELSE cache

ApplyBegin(gid) ==
    /\ up = "up" /\ MuFree
    /\ apl.pc = "idle" /\ rst.pc = "idle"
    /\ Reach(metaSt, gid) # {}               \* verifyApplicable
    /\ apl' = [NoThread EXCEPT !.pc = "recover", !.gid = gid]
    /\ UNCHANGED <<durable, cache, up, rst, del, history>>

ApplyRecover ==
    /\ apl.pc = "recover"
    /\ recoverColdToBaseIfNecessary
    /\ cache' = RecoveredCache
    /\ apl' = [apl EXCEPT !.pc = "state"]
    /\ UNCHANGED <<latest, up, rst, del, history>>

ApplyReadState ==
    /\ apl.pc = "state"
    /\ LET cold == UseCold(apl.gid, TRUE)
       IN  apl' = [apl EXCEPT !.pc = IF cold THEN "aside" ELSE "diffs",
                              !.st = getMetaStateForDetail(apl.gid, TRUE)]
    /\ apl'.pc = "aside" => apl'.st.lo \in stamps
    /\ UNCHANGED <<durable, cache, up, rst, del, history>>

\* Mutant of makeColdToBase: the timestamp goes with the cold snapshot.
MakeColdToBaseEarly ==
    LET g == apl.st.lo
    IN  /\ apl.pc = "aside"
        /\ g \in cache /\ g \in stamps /\ Exists(Cold(g))
        /\ lvs' = Rename(Cold(g), ToBase(g))
        /\ stamps' = stamps \ {g}
        /\ apl' = [apl EXCEPT !.pc = "uncache"]
        /\ UNCHANGED <<latest, diffs, metaSt, cache, up, rst, del, history>>

makeColdToBase ==
    LET g == apl.st.lo
    IN  /\ apl.pc = "aside"
        /\ g \in cache /\ g \in stamps /\ Exists(Cold(g))
        /\ lvs' = Rename(Cold(g), ToBase(g))
        /\ apl' = [apl EXCEPT !.pc = "uncache"]
        /\ UNCHANGED <<latest, diffs, metaSt, stamps, cache, up, rst, del, history>>

UncacheCold ==
    /\ apl.pc = "uncache"
    /\ cache' = cache \ {apl.st.lo}
    /\ apl' = [apl EXCEPT !.pc = "drop"]
    /\ UNCHANGED <<durable, up, rst, del, history>>

DropBase ==
    /\ apl.pc = "drop"
    /\ lvs' = Without({Base})
    /\ apl' = [apl EXCEPT !.pc = "meta"]
    /\ UNCHANGED <<latest, diffs, metaSt, stamps, cache, up, rst, del, history>>

\* Mutant of SetColdMetaState: it is set too late, after the renaming.
SetColdMetaStateLate ==
    /\ apl.pc = "meta"
    /\ apl' = [apl EXCEPT !.pc = "rename"]
    /\ UNCHANGED <<durable, cache, up, rst, del, history>>

SetColdMetaState ==
    /\ apl.pc = "meta"
    /\ metaSt' = apl.st
    /\ apl' = [apl EXCEPT !.pc = "rename"]
    /\ UNCHANGED <<latest, diffs, lvs, stamps, cache, up, rst, del, history>>

RenameToBase ==
    /\ apl.pc = "rename"
    /\ lvs' = Rename(ToBase(apl.st.lo), Base)
    /\ apl' = [apl EXCEPT !.pc = "stamp"]
    /\ UNCHANGED <<latest, diffs, metaSt, stamps, cache, up, rst, del, history>>

RemoveColdTimestamp ==
    /\ apl.pc = "stamp"
    /\ stamps' = stamps \ {apl.st.lo}
    /\ apl' = [apl EXCEPT !.pc = "clean"]
    /\ UNCHANGED <<latest, diffs, metaSt, lvs, cache, up, rst, del, history>>

CleanBeforeCold ==
    /\ apl.pc = "clean"
    /\ removeBeforeGid(apl.st.lo)
    /\ apl' = IF apl.st.lo = apl.gid THEN NoThread ELSE [apl EXCEPT !.pc = "diffs"]
    /\ UNCHANGED <<latest, metaSt, up, rst, del, history>>

\* applyDiffsToVolumeOnce: the meta state, the blocks, the meta state again.
ApplyDiffs ==
    /\ apl.pc = "diffs"
    /\ \E e \in Reach(apl.st, apl.gid) :      \* maxOpenDiffs
        metaSt' = [lo |-> apl.st.lo, hi |-> e]
    /\ apl' = [apl EXCEPT !.pc = "write"]
    /\ UNCHANGED <<latest, diffs, lvs, stamps, cache, up, rst, del, history>>

ApplyWrite ==
    /\ apl.pc = "write"
    /\ \/ /\ lvs' = With(Base, [lvs[Base] EXCEPT !.hi = Max({@, metaSt.hi})])
          /\ UNCHANGED apl                       \* some of the blocks
       \/ /\ lvs' = With(Base, Written(lvs[Base], metaSt.lo, metaSt.hi))
          /\ apl' = [apl EXCEPT !.pc = "done"]
    /\ UNCHANGED <<latest, diffs, metaSt, stamps, cache, up, rst, del, history>>

ApplyDone ==
    /\ apl.pc = "done"
    /\ metaSt' = Exact(metaSt.hi)
    /\ removeBeforeGid(metaSt.hi)
    /\ apl' = [apl EXCEPT !.pc = "diffs", !.st = Exact(metaSt.hi)]
    /\ UNCHANGED <<latest, up, rst, del, history>>

\* No diff is left, the volume is stopped by force, or something is missing.
ApplyEnd ==
    /\ \/ apl.pc = "diffs" /\ Reach(apl.st, apl.gid) = {}
       \/ apl.pc = "write"
       \/ /\ apl.pc = "state" /\ UseCold(apl.gid, TRUE)
          /\ getMetaStateForDetail(apl.gid, TRUE).lo \notin stamps
       \/ /\ apl.pc = "aside"
          /\ ~(apl.st.lo \in cache /\ apl.st.lo \in stamps /\ Exists(Cold(apl.st.lo)))
       \/ apl.pc = "recover" /\ ~CanRecover
    /\ apl' = NoThread
    /\ UNCHANGED <<durable, cache, up, rst, del, history>>

\* A command of lvm, or writing a file, fails.  The next apply repairs it.
MakeColdToBaseFails ==
    /\ Fault /\ apl.pc \in {"drop", "meta", "rename"}
    /\ apl' = NoThread
    /\ UNCHANGED <<durable, cache, up, rst, del, accidents>>

(***************************************************************************)
(* del-cold, del-restored.                                                 *)
(***************************************************************************)
DelBegin(gid) ==
    /\ up = "up" /\ MuFree
    /\ del.pc = "idle" /\ rst.pc = "idle"
    /\ Fault /\ gid \in cache
    /\ del' = [NoThread EXCEPT !.pc = "remove", !.gid = gid]
    /\ UNCHANGED <<durable, cache, up, rst, apl, accidents>>

DelRemove ==
    /\ del.pc = "remove"
    /\ lvs' = Without({Cold(del.gid)})
    /\ del' = [del EXCEPT !.pc = "uncache"]
    /\ UNCHANGED <<latest, diffs, metaSt, stamps, cache, up, rst, apl, history>>

DelUncache ==
    /\ del.pc = "uncache"
    /\ cache' = cache \ {del.gid}
    /\ del' = [del EXCEPT !.pc = "stamp"]
    /\ UNCHANGED <<durable, up, rst, apl, history>>

\* A restore is about to write the timestamp.
Stamping(g) == rst.pc = "stamp" /\ rst.gid = g

\* Nothing keeps a restore from making the snapshot again before this step.
DelStamp ==
    /\ del.pc = "stamp"
    /\ stamps' = stamps \ {del.gid}
    /\ accidents' = Noted("stampLost", Exists(ToBase(del.gid)))
                        \cup Noted("stampGone", del.gid \in cache /\ ~Stamping(del.gid))
    /\ del' = NoThread
    /\ UNCHANGED <<latest, diffs, metaSt, lvs, cache, up, rst, apl, nrFaults>>

DelRestored(gid) ==
    /\ up = "up" /\ MuFree /\ rst.pc = "idle" /\ Exists(Restored(gid))
    /\ lvs' = Without({Restored(gid)})
    /\ UNCHANGED <<latest, diffs, metaSt, stamps, cache, up, threads, history>>

(***************************************************************************)
(* Diffs arrive; the daemon crashes and starts again.                      *)
(***************************************************************************)
Receive ==
    /\ up = "up" /\ latest < MaxGid
    /\ latest' = latest + 1
    /\ diffs' = diffs \cup {latest}
    /\ UNCHANGED <<metaSt, lvs, stamps, cache, up, threads, history>>

Crash ==
    /\ Fault /\ up # "down"
    /\ up' = "down"
    /\ rst' = NoThread /\ apl' = NoThread /\ del' = NoThread
    /\ cache' = {n.gid : n \in {n \in DOMAIN lvs : n.kind = "cold"}}
    /\ lvs' = Without({TmpRestored})        \* removeTemporaryRestoredSnapshots
    /\ UNCHANGED <<latest, diffs, metaSt, stamps, accidents>>

\* verifyAndRecoverArchiveVol: what makeColdToBase has left, ...
Recover ==
    /\ up = "down"
    /\ recoverColdToBaseIfNecessary
    /\ cache' = RecoveredCache
    /\ up' = "recovered"
    /\ UNCHANGED <<latest, threads, history>>

\* Mutant of VerifyCold: a cold snapshot without a timestamp is kept.
VerifyNothing ==
    /\ up = "recovered"
    /\ up' = "up"
    /\ UNCHANGED <<durable, cache, threads, history>>

\* ... and cold snapshots without a timestamp.  The cache is that of the volumes.
VerifyCold ==
    /\ up = "recovered"
    /\ lvs' = Without({Cold(g) : g \in cache \ stamps})
    /\ cache' = cache \cap stamps
    /\ accidents' = accidents \ {"stampGone", "addedLate"}
    /\ up' = "up"
    /\ UNCHANGED <<latest, diffs, metaSt, stamps, threads, nrFaults>>

Init ==
    /\ latest = 0 /\ diffs = {} /\ metaSt = Exact(0)
    /\ lvs = [n \in {Base} |-> Exact(0)]
    /\ stamps = {} /\ cache = {} /\ up = "up"
    /\ rst = NoThread /\ apl = NoThread /\ del = NoThread
    /\ nrFaults = 0 /\ accidents = {}

Next ==
    \/ \E g \in Gid \ {0} :
          RestoreBegin(g) \/ ApplyBegin(g) \/ DelBegin(g) \/ DelRestored(g)
    \/ RestoreReadState \/ RestoreSnap \/ RestoreApply \/ RestoreNoNeedToApply
    \/ RestoreMakeCold \/ RestoreAddCold \/ RestoreSetColdTimestamp \/ RestoreRename
    \/ RestoreListCold \/ RestoreRemoveCold \/ RestoreRemoveStamp \/ RestoreUncache
    \/ RestoreFails
    \/ ApplyRecover \/ ApplyReadState
    \/ makeColdToBase \/ UncacheCold \/ DropBase \/ SetColdMetaState
    \/ MakeColdToBaseFails \/ RenameToBase \/ RemoveColdTimestamp \/ CleanBeforeCold
    \/ ApplyDiffs \/ ApplyWrite \/ ApplyDone \/ ApplyEnd
    \/ DelRemove \/ DelUncache \/ DelStamp
    \/ Receive \/ Crash \/ Recover \/ VerifyCold

Spec == Init /\ [][Next]_vars

(***************************************************************************)
(* Properties.                                                             *)
(***************************************************************************)
\* The base image, whenever there is one, is what the meta state says: at no
\* step of makeColdToBase can a crash leave one with the other's (unless a
\* restore that apply overtook has made a wrong cold snapshot).
BaseMatchesMetaState ==
    ("overtaken" \notin accidents /\ Exists(Base)) =>
        metaSt.lo <= lvs[Base].lo /\ lvs[Base].hi <= metaSt.hi

\* Cold snapshots and restored volumes hold the snapshot they are named for,
\* whatever was deleted, applied or interrupted while they were made: a wrong
\* cold snapshot would spoil every later restore, and the base image.
ImagesExact ==
    "overtaken" \notin accidents =>
        \A n \in DOMAIN lvs :
            n.kind \in {"cold", "toBase", "restored"} => lvs[n] = Exact(n.gid)

\* The latest snapshot can be built from the base image, or, while that is
\* being replaced, from the cold snapshot that replaces it.
LatestReachable ==
    \A g \in (IF Exists(Base) THEN metaSt.lo ELSE LeftGid) .. latest - 1 : g \in diffs

\* The daemon can always be started: what a crash leaves can be recovered.
\* (An exception in verifyAndRecoverArchiveVol ends the process.)  Not so once
\* the image set aside has lost its timestamp or its name.
Recoverable ==
    (up = "down" /\ accidents \cap {"twice", "stampLost"} = {}) => CanRecover

\* When nothing runs, every cold snapshot that lvCache knows and apply and
\* restore may use has its logical volume and its timestamp, however its
\* making, removing and setting aside came between each other.  Two accidents
\* defeat it until the next start of the daemon: del-cold removes the timestamp
\* of a snapshot made again, and restore enters one that is gone.
ColdUsable ==
    (/\ up = "up" /\ rst.pc = "idle" /\ apl.pc = "idle" /\ del.pc = "idle"
     /\ "stampGone" \notin accidents /\ "addedLate" \notin accidents) =>
        \A g \in cache : g > metaSt.lo => Exists(Cold(g)) /\ g \in stamps
=============================================================================
