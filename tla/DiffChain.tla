------------------------------ MODULE DiffChain ------------------------------
(***************************************************************************)
(* Why the diffs of an archived volume may be applied, merged and dropped  *)
(* by looking at their gids only.                                          *)
(*                                                                         *)
(* The archive keeps a base image and diffs.  Diffs come from proxies      *)
(* (clean ones, made of the storage's log), from a hash backup or a hash   *)
(* replication (made by comparing images) and from merges.  Retries make   *)
(* them overlap.  A reader (restore, virtual full scan, replication) takes *)
(* the base image and applies one applicable diff after the other.         *)
(*                                                                         *)
(* The content of the volume on the storage at every gid is kept as        *)
(* history, so that "the image of snapshot |g|" has a meaning the code     *)
(* itself cannot check.                                                    *)
(*                                                                         *)
(* Abstractions:                                                           *)
(*  - the operations are single steps;                                     *)
(*  - every number between two gids of the log is a gid at which nothing   *)
(*    is written;                                                          *)
(*  - a list of diffs is applied or merged one diff at a time;             *)
(*  - which applicable diff is taken is a free choice; the code takes the  *)
(*    one that ends last.                                                  *)
(***************************************************************************)
EXTENDS Meta

CONSTANTS
    Blocks,        \* blocks of the volume
    Values,        \* contents of a block
    MaxGid         \* bound: gids do not grow past it

ASSUME DCBoundsAssumption == MaxGid \in Nat

Image == [Blocks -> Values]

VARIABLES
    top,           \* storage: the latest gid
    lo,            \* storage: gid of the last resetWlog
    truth,         \* storage: content of the volume at every gid
    written,       \* storage: the blocks written between a gid and the one before it
    explicit,      \* the gids of explicit snapshots
    base,          \* archive: snapB of the base image
    baseImage,     \* archive: content of the base image
    latest,        \* archive: snapB of volSt.latestMetaState
    diffs,         \* archive: volSt.diffMgr with the diff files
    line,          \* history: the snapshots the archive has passed, by their gidB
    cur,           \* reader: the snapshot it has reached
    curImage       \* reader: its image

storage == <<top, lo, truth, written, explicit>>
reader  == <<cur, curImage>>
vars    == <<storage, base, baseImage, latest, diffs, line, reader>>

WrittenIn(gidB, gidE) == UNION {written[g] : g \in gidB + 1 .. gidE}

Diff == [snapB : MetaSnap, snapE : MetaSnap, isMergeable : BOOLEAN, isCompDiff : BOOLEAN,
         data : UNION {[W -> Values] : W \in SUBSET Blocks}]

TypeOK ==
    /\ top \in Nat /\ lo \in 0 .. top
    /\ truth \in [0 .. top -> Image]
    /\ written \in [0 .. top -> SUBSET Blocks]
    /\ explicit \subseteq Nat
    /\ {base, latest, cur} \subseteq MetaSnap
    /\ {baseImage, curImage} \subseteq Image
    /\ diffs \subseteq Diff
    /\ DOMAIN line \subseteq 0 .. top
    /\ line \in [DOMAIN line -> [gidE : 0 .. top, image : Image]]

-----------------------------------------------------------------------------
(* The storage. *)

\* A block that is not written keeps its content.
Consistent(t, w, gidB, gidE) ==
    \A g, h \in gidB .. gidE, b \in Blocks :
        g < h /\ (\A x \in g + 1 .. h : b \notin w[x]) => t[g][b] = t[h][b]

\* The image a full or hash sync reads while the volume goes from gidB to
\* gidE: every block as it is at some moment in between.
SyncedImages(t, gidB, gidE) ==
    {[b \in Blocks |-> t[at[b]][b]] : at \in [Blocks -> gidB .. gidE]}

\* The volume is written to and the storage takes a snapshot.
StorageWrites ==
    /\ top < MaxGid
    /\ \E W \in SUBSET Blocks : \E content \in [W -> Values] :
        /\ truth' = [g \in 0 .. top + 1 |-> IF g = top + 1 THEN Patch(truth[top], content) ELSE truth[g]]
        /\ written' = [g \in 0 .. top + 1 |-> IF g = top + 1 THEN W ELSE written[g]]
    /\ top' = top + 1
    /\ explicit' \in {explicit, explicit \cup {top + 1}}
    /\ UNCHANGED <<lo, base, baseImage, latest, diffs, line, reader>>

-----------------------------------------------------------------------------
(* The archive. *)

\* The diff becomes the last one and the latest snapshot is set to snap.
AddDiff(d, snap) ==
    /\ latest' = snap
    /\ line' = [g \in DOMAIN line \cup {latest'.gidB} |->
                    IF g = latest'.gidB
                    THEN [gidE |-> latest'.gidE, image |-> Patch(line[latest.gidB].image, d.data)]
                    ELSE line[g]]

\* A diff made of the log between two gids.  Explicit snapshots are never in
\* the middle of it (WlogTransfer, SnapshotsExact).
WlogDiff(gidB, gidE) ==
    [snapB |-> Snap(gidB, gidB), snapE |-> Snap(gidE, gidE),
     isMergeable |-> gidB \notin explicit, isCompDiff |-> FALSE,
     data |-> [b \in WrittenIn(gidB, gidE) |-> truth[gidE][b]]]

\* p2aWdiffTransferServer and, with its garbage collection, runDiffReplServer
\* for a diff of the log.  A proxy merges what it has, so the diff may reach
\* over several transfers and start anywhere below the latest snapshot.
\* Diffs of a log that has been reset since are refused by their uuid.
ReceiveDiff ==
    \E gidB, gidE \in lo .. top :
        LET d == WlogDiff(gidB, gidE)
        IN  /\ gidB < gidE
            /\ \A g \in explicit : ~(gidB < g /\ g < gidE)
            /\ canApply(latest, d)
            /\ AddDiff(d, apply(latest, d))
            /\ diffs' \in {diffs \cup {d}, gcRange(diffs \cup {d}, d)}
            /\ UNCHANGED <<storage, base, baseImage, reader>>

\* backupServer with isFull = false.  The storage's log starts anew at the gid
\* after the latest snapshot, whatever happened to the volume in between, and
\* while it is synchronised no explicit snapshot can be taken.
HashBackup ==
    LET gidB == latest.gidE + 1
    IN  /\ \E gidE \in gidB .. MaxGid :
           \E t \in [gidB .. gidE -> Image], w \in [gidB .. gidE -> SUBSET Blocks] :
            /\ Consistent(t, w, gidB, gidE)
            /\ \E image \in SyncedImages(t, gidB, gidE) :
                LET d == [snapB |-> latest, snapE |-> Snap(gidB, gidE),
                          isMergeable |-> ~IsClean(latest), isCompDiff |-> FALSE,
                          data |-> [b \in {c \in Blocks : image[c] # line[latest.gidB].image[c]} |-> image[b]]]
                IN  AddDiff(d, d.snapE) /\ diffs' = diffs \cup {d}
            /\ top' = gidE /\ lo' = gidB
            /\ truth' = [g \in 0 .. gidE |-> IF g < gidB THEN truth[g] ELSE t[g]]
            /\ written' = [g \in 0 .. gidE |-> IF g < gidB THEN written[g] ELSE w[g]]
            /\ explicit' = {g \in explicit : g < gidB}
                           \cup (IF IsClean(latest) THEN {latest.gidB} ELSE {})
        /\ UNCHANGED <<base, baseImage, reader>>

\* runHashReplServer: another archive has the clean snapshot gid and no diffs
\* that lead to it from this one's latest snapshot.
HashReplication ==
    \E gid \in lo .. top :
        LET d == [snapB |-> latest, snapE |-> Snap(gid, gid),
                  isMergeable |-> TRUE, isCompDiff |-> TRUE,
                  data |-> [b \in {c \in Blocks : truth[gid][c] # line[latest.gidB].image[c]} |-> truth[gid][b]]]
        IN  /\ Progresses(d.snapB, d.snapE)
            /\ AddDiff(d, apply(latest, d))
            /\ diffs' = diffs \cup {d}
            /\ UNCHANGED <<storage, base, baseImage, reader>>

\* mergeDiffs.  The merged diff is stored first, then the diffs it is made of
\* are removed; a crash leaves some of them behind.
MergeDiffs ==
    \E d0, d1 \in diffs :
        /\ canMerge(d0, d1)
        /\ \A d \in diffs : ~SameRange(d, merge(d0, d1))
        /\ \E removed \in SUBSET {d0, d1} : diffs' = (diffs \ removed) \cup {merge(d0, d1)}
        /\ UNCHANGED <<storage, base, baseImage, latest, line, reader>>

\* applyDiffsToVolumeOnce: the base image moves and what has become too old is
\* removed.
ApplyDiff ==
    \E d \in diffs :
        /\ canApply(base, d)
        /\ base' = apply(base, d)
        /\ baseImage' = Patch(baseImage, d.data)
        /\ diffs' = eraseBeforeGid(diffs, base'.gidB)
        /\ UNCHANGED <<storage, latest, line, reader>>

-----------------------------------------------------------------------------
(* The reader. *)

ReadBase ==
    /\ cur' = base /\ curImage' = baseImage
    /\ UNCHANGED <<storage, base, baseImage, latest, diffs, line>>

ReadDiff ==
    \E d \in diffs :
        /\ canApply(cur, d)
        /\ cur' = apply(cur, d)
        /\ curImage' = Patch(curImage, d.data)
        /\ UNCHANGED <<storage, base, baseImage, latest, diffs, line>>

-----------------------------------------------------------------------------
\* backupServer with isFull = true has just finished.
Init ==
    /\ top \in 0 .. MaxGid /\ lo = 0
    /\ truth \in [0 .. top -> Image]
    /\ written \in [0 .. top -> SUBSET Blocks]
    /\ Consistent(truth, written, 0, top)
    /\ explicit = {}
    /\ base = Snap(0, top) /\ baseImage \in SyncedImages(truth, 0, top)
    /\ latest = base
    /\ diffs = {}
    /\ line = [g \in {0} |-> [gidE |-> top, image |-> baseImage]]
    /\ cur = base /\ curImage = baseImage

Next ==
    \/ StorageWrites
    \/ ReceiveDiff \/ HashBackup \/ HashReplication \/ MergeDiffs \/ ApplyDiff
    \/ ReadBase \/ ReadDiff

Spec == Init /\ [][Next]_vars

-----------------------------------------------------------------------------
(* Properties. *)

\* What is restored or synchronised as a clean snapshot is the volume as it was
\* at that gid, along whatever applicable diffs the reader has come.
RestoredExact == IsClean(cur) => curImage = truth[cur.gidB]

\* The same of the base image after apply.
BaseExact == IsClean(base) => baseImage = truth[base.gidB]

\* The diffs lead from the base image to the latest snapshot without a hole,
\* whatever merges and garbage collections have removed.
NoHole ==
    \A g \in base.gidB .. latest.gidB - 1 :
        \E d \in diffs : d.snapB.gidB <= g /\ g < d.snapE.gidB

\* No diff leads past an explicit snapshot the archive has, so that every
\* reader comes through it.
ExplicitSnapshotsKept ==
    \A d \in diffs, g \in explicit \cap DOMAIN line : ~(d.snapB.gidB < g /\ g < d.snapE.gidB)

\* What dbgVerifyLatestMetaState compares: the cached latest snapshot is the one
\* all the diffs lead to.
LatestAgrees ==
    /\ cur.gidB <= latest.gidB
    /\ cur.gidB = latest.gidB => cur = latest

=============================================================================
