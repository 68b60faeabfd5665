------------------------------ MODULE FullRepl ------------------------------
(***************************************************************************)
(* Copying a base image from one archive to another (archive.cpp:          *)
(* runFullReplServer, runResyncReplServer; dirty_full_sync.cpp).           *)
(*                                                                         *)
(* The module follows the base image of the archive that receives.  Full   *)
(* replication writes it bulk by bulk; after each FsyncInterval blocks the *)
(* device is flushed and the progress is saved, and an attempt that finds  *)
(* saved progress of the same source and the same MetaState goes on from   *)
(* there.  Resync compares hashes over the whole device instead.  The      *)
(* connection may be lost, and either machine may lose its power, at any   *)
(* step.  The commands that make and remove a volume are here as well:     *)
(* stop, start, reset-vol, clear-vol and init-vol, of which the clearing   *)
(* ones remove the logical volume first and then the files one by one.     *)
(*                                                                         *)
(* A source is an archive with its archiveUuid; its base image is the one  *)
(* of the snapshot base[src], and moves on only by apply, which a running  *)
(* replication excludes (aDenyForApply).  The difference replication that  *)
(* follows, and the applies of the receiver, are the module ArchiveVol:    *)
(* here they are the single step Follow.                                   *)
(***************************************************************************)
EXTENDS Integers, Sequences, FiniteSets, FiniteSetsExt

CONSTANTS
    Sources,        \* archives to replicate from, named by their archiveUuid
    Gids,           \* the snapshots that the base image of a source can be at
    Content(_, _, _),   \* block of the base image of a source, 0 for zeroes
    Size, Bulk,     \* sizeLb, bulkLb
    FsyncInterval   \* fsyncIntervalSize

Blocks == 0 .. Size - 1

ASSUME SizesAreSane ==
    /\ Size \in Nat \ {0} /\ Bulk \in Nat \ {0} /\ FsyncInterval \in Nat \ {0}
    /\ Gids \in [Sources -> (SUBSET Nat) \ {{}}]

VARIABLES
    thin,           \* whether the volumes are thin provisioned
    base,           \* external: the base image of each source
    sm,             \* the state machine of the receiver's volume
    s,              \* the replication under way, as the receiver sees it
    cmd,            \* the command under way: its place, and the states it leads from and to
    lv, image,      \* lvExists(), and the blocks as they are read
    stable,         \* the blocks as they are after a power failure
    stFile, archiveUuid, metaSt, fullReplSt,    \* files of the volume
    owner,          \* history: the source whose blocks the saved progress still stands for
    tainted         \* history: the replica comes of an attempt that resumed in vain,
                    \*     or its image was removed by a command that failed then

lvm   == <<lv, image, stable>>
files == <<stFile, archiveUuid, metaSt, fullReplSt>>
hist  == <<owner, tainted>>
vars  == <<thin, base, sm, s, cmd, lvm, files, hist>>

NoUuid  == "none"
NoFile  == "no file"    \* archive_uuid or state is not there, though the directory may be
ASSUME SourcesAreNamed == {NoUuid, NoFile} \cap Sources = {}

NoState == [gid |-> 0, progress |-> -1]     \* there is no full_repl_state
NoMeta  == -1                               \* there is no base
NoDir   == "no directory"                   \* of stFile: the directory is not there either

Based == {"Archived", "Stopped"}            \* the states with a base image

NoCmd == [pc |-> "idle", from |-> "Clear", to |-> "Clear"]

Junk  == -1
Blank == [b \in Blocks |-> 0]
Stale == [b \in Blocks |-> Junk]    \* what a new logical volume happens to hold

Idle == [pc |-> "idle", src |-> NoUuid, gid |-> 0, next |-> 0, written |-> 0,
         buf |-> [i \in 1 .. Bulk |-> Junk], inVain |-> FALSE]

\* What the receiver makes of base image g of src, if it is faithful.
Image(src, g) == [b \in Blocks |-> Content(src, g, b)]

\* The kinds of replication runReplSyncServer chooses from; the client says
\* whether it may be resync (canResync).
DO_FULL_SYNC   == s.pc = "idle" /\ sm = "SyncReady"
DO_RESYNC(src) == /\ s.pc = "idle" /\ lv
                  /\ sm = "SyncReady" \/ (sm = "Archived" /\ archiveUuid # src)

(***************************************************************************)
(* Full replication.                                                       *)
(***************************************************************************)
Resumes(src) ==
    /\ fullReplSt # NoState
    /\ archiveUuid = src
    /\ fullReplSt.gid = base[src]
    /\ fullReplSt.progress <= Size

initFullReplResume(src) == IF Resumes(src) THEN fullReplSt.progress ELSE 0

\* History: an attempt that writes changes what the progress of another one stands for.
Overwrites(src) ==
    /\ owner' = IF owner = src /\ lv THEN owner ELSE NoUuid
    /\ tainted' = FALSE

\* History: the part before the progress is not there, or is of another source.
InVain(src) == initFullReplResume(src) > 0 /\ (thin \/ ~lv \/ owner # src)

\* getArchiveUuid throws where a failed clear has left full_repl_state without it.
FullStart(src) ==
    /\ DO_FULL_SYNC
    /\ stFile # NoDir
    /\ fullReplSt # NoState => archiveUuid # NoFile
    /\ s' = [Idle EXCEPT !.pc = "uuid", !.src = src, !.gid = base[src],
                         !.next = initFullReplResume(src), !.inVain = InVain(src)]
    /\ sm' = "FullSync"
    /\ Overwrites(src)
    /\ UNCHANGED <<thin, base, cmd, lvm, files>>

FullSetArchiveUuid ==
    /\ s.pc = "uuid"
    /\ archiveUuid' = s.src
    /\ s' = [s EXCEPT !.pc = "lv"]
    /\ UNCHANGED <<thin, base, cmd, sm, lvm, stFile, metaSt, fullReplSt, hist>>

\* A thin volume that is there already is discarded as a whole.
createLv ==
    /\ s.pc = "lv"
    /\ lv' = TRUE
    /\ image' = CASE thin -> Blank [] lv /\ ~thin -> image [] OTHER -> Stale
    /\ stable' = IF lv /\ ~thin THEN stable ELSE image'
    /\ s' = [s EXCEPT !.pc = "recv"]
    /\ UNCHANGED <<thin, base, cmd, sm, files, hist>>

\* The bulk at hand: its length, and the client's buffer, which keeps its
\* length, and beyond the end of a short bulk what was there before.
BulkLb == Min({Bulk, Size - s.next})
NextBuf ==
    [i \in 1 .. Bulk |-> IF i <= BulkLb THEN Image(s.src, s.gid)[s.next + i - 1]
                                        ELSE s.buf[i]]
AllZero == \A i \in 1 .. Bulk : NextBuf[i] = 0

Covered(b) == b >= s.next /\ b < s.next + BulkLb

Advance(pc) ==
    s' = [s EXCEPT !.pc = pc, !.next = @ + BulkLb, !.written = @ + BulkLb, !.buf = NextBuf]

\* Mutant of FullRecv: a skipped bulk is not counted as progress.
FullRecvLosesZero ==
    /\ s.pc = "recv" /\ s.next < Size
    /\ AllZero \/ BulkLb = Bulk
    /\ image' = [b \in Blocks |->
            IF Covered(b) /\ ~(AllZero /\ thin) THEN NextBuf[b - s.next + 1] ELSE image[b]]
    /\ s' = [s EXCEPT !.pc = IF s.written + BulkLb >= FsyncInterval THEN "sync" ELSE "recv",
                      !.next = IF AllZero THEN @ ELSE @ + BulkLb,
                      !.written = @ + BulkLb, !.buf = NextBuf]
    /\ UNCHANGED <<thin, base, cmd, sm, lv, stable, files, hist>>

FullRecv ==
    /\ s.pc = "recv" /\ s.next < Size
    /\ AllZero \/ BulkLb = Bulk
    /\ image' = [b \in Blocks |->
            IF Covered(b) /\ ~(AllZero /\ thin) THEN NextBuf[b - s.next + 1] ELSE image[b]]
    /\ Advance(IF s.written + BulkLb >= FsyncInterval THEN "sync" ELSE "recv")
    /\ UNCHANGED <<thin, base, cmd, sm, lv, stable, files, hist>>

\* An exception: the transaction on the state machine is rolled back.
Abort ==
    /\ s' = Idle /\ sm' = "SyncReady"
    /\ UNCHANGED <<thin, base, cmd, lvm, files, hist>>

\* A compressed buffer that is longer than the bulk cannot be uncompressed.
FullRecvTooLong ==
    /\ s.pc = "recv" /\ s.next < Size
    /\ ~AllZero /\ BulkLb # Bulk
    /\ Abort

\* Mutant of FullSync: the progress is saved without a flush.
FullSyncNothing ==
    /\ s.pc = "sync"
    /\ s' = [s EXCEPT !.pc = "save", !.written = 0]
    /\ UNCHANGED <<thin, base, cmd, sm, lvm, files, hist>>

FullSync ==
    /\ s.pc = "sync"
    /\ stable' = image
    /\ s' = [s EXCEPT !.pc = "save", !.written = 0]
    /\ UNCHANGED <<thin, base, cmd, sm, lv, image, files, hist>>

FullSave ==
    /\ s.pc = "save"
    /\ fullReplSt' = [gid |-> s.gid, progress |-> s.next]
    /\ owner' = IF s.inVain THEN NoUuid ELSE s.src
    /\ s' = [s EXCEPT !.pc = "recv"]
    /\ UNCHANGED <<thin, base, cmd, sm, lvm, stFile, archiveUuid, metaSt, tainted>>

FullFlush ==
    /\ s.pc = "recv" /\ s.next = Size
    /\ stable' = image
    /\ s' = [s EXCEPT !.pc = "meta"]
    /\ UNCHANGED <<thin, base, cmd, sm, lv, image, files, hist>>

FullSetMetaState ==
    /\ s.pc = "meta"
    /\ metaSt' = s.gid
    /\ s' = [s EXCEPT !.pc = "remove"]
    /\ UNCHANGED <<thin, base, cmd, sm, lvm, stFile, archiveUuid, fullReplSt, hist>>

removeFullReplState ==
    /\ s.pc = "remove"
    /\ fullReplSt' = NoState /\ owner' = NoUuid
    /\ s' = [s EXCEPT !.pc = "commit"]
    /\ UNCHANGED <<thin, base, cmd, sm, lvm, stFile, archiveUuid, metaSt, tainted>>

\* setState(aArchived) and the commit of the transaction.
Commit ==
    /\ s.pc = "commit"
    /\ stFile' = "Archived" /\ sm' = "Archived"
    /\ tainted' = s.inVain
    /\ s' = Idle
    /\ UNCHANGED <<thin, base, cmd, lvm, archiveUuid, metaSt, fullReplSt, owner>>

(***************************************************************************)
(* Resync.                                                                 *)
(***************************************************************************)
ResyncStart(src) ==
    /\ DO_RESYNC(src)
    /\ Overwrites(src)
    /\ stFile' = IF sm = "Archived" THEN "SyncReady" ELSE stFile
    /\ sm' = "Resync"
    /\ s' = [Idle EXCEPT !.pc = "hash", !.src = src, !.gid = base[src]]
    /\ UNCHANGED <<thin, base, cmd, lvm, archiveUuid, metaSt, fullReplSt>>

\* The bulks whose hashes differ are written; a flush follows now and then,
\* as the packs come in.
ResyncRecv ==
    /\ s.pc = "hash" /\ s.next < Size
    /\ image' = [b \in Blocks |-> IF Covered(b) THEN Image(s.src, s.gid)[b] ELSE image[b]]
    /\ stable' \in {stable, image'}
    /\ s' = [s EXCEPT !.next = @ + BulkLb]
    /\ UNCHANGED <<thin, base, cmd, sm, lv, files, hist>>

ResyncFlush ==
    /\ s.pc = "hash" /\ s.next = Size
    /\ stable' = image
    /\ s' = [s EXCEPT !.pc = "hashMeta"]
    /\ UNCHANGED <<thin, base, cmd, sm, lv, image, files, hist>>

ResyncSetMetaState ==
    /\ s.pc = "hashMeta"
    /\ metaSt' = s.gid
    /\ s' = [s EXCEPT !.pc = "hashUuid"]
    /\ UNCHANGED <<thin, base, cmd, sm, lvm, stFile, archiveUuid, fullReplSt, hist>>

ResyncSetArchiveUuid ==
    /\ s.pc = "hashUuid"
    /\ archiveUuid' = s.src
    /\ s' = [s EXCEPT !.pc = "commit"]
    /\ UNCHANGED <<thin, base, cmd, sm, lvm, stFile, metaSt, fullReplSt, hist>>

(***************************************************************************)
(* Everything else.                                                        *)
(***************************************************************************)
\* The connection is lost, or the volume is stopped by force.
Disconnect ==
    /\ s.pc \in {"recv", "hash"}
    /\ Abort

\* initArchiveData and verifyAndRecoverArchiveVol, when the daemon starts: it
\* does not without a file it wants, nor without the volume of a state that has
\* one.  (The file "uuid" is as "state" here.)
Restarted ==
    CASE stFile = NoDir -> "Clear"
      [] stFile \notin {NoDir, NoFile} /\ metaSt # NoMeta /\ (stFile = "SyncReady" \/ lv)
            -> stFile
      [] OTHER -> "Down"

\* The power of the receiver fails: of the blocks that were not flushed any
\* may be lost.  (After a crash of the daemon alone none is.)
Crash ==
    /\ image' \in {[b \in Blocks |-> IF b \in lost THEN stable[b] ELSE image[b]] :
                       lost \in SUBSET {b \in Blocks : image[b] # stable[b]}}
    /\ stable' = image'
    /\ sm' = Restarted
    /\ s' = Idle /\ cmd' = NoCmd
    /\ UNCHANGED <<thin, base, lv, files, hist>>

(***************************************************************************)
(* The commands.                                                           *)
(***************************************************************************)
Begin(from, via, to, pc) ==
    /\ sm = from /\ sm' = via
    /\ cmd' = [pc |-> pc, from |-> from, to |-> to]
    /\ UNCHANGED <<thin, base, s, lvm, files, hist>>

StopBegin  == stFile = "Archived" /\ Begin("Archived", "Stop", "Stopped", "state")
StartBegin == stFile = "Stopped" /\ Begin("Stopped", "Start", "Archived", "state")
InitBegin  == Begin("Clear", "InitVol", "SyncReady", "makeDir")
ResetBegin == \E from \in {"SyncReady", "Stopped"} :
                  Begin(from, "ResetVol", "SyncReady", "clear")
ClearBegin == \E from \in {"SyncReady", "Stopped"} :
                  Begin(from, "ClearVol", "Clear", "clear")

\* clear(): the logical volume goes before the files.
ClearRemoveLv ==
    /\ cmd.pc = "clear"
    /\ lv' = FALSE /\ image' = Stale /\ stable' = Stale
    /\ cmd' = [cmd EXCEPT !.pc = "files"]
    /\ UNCHANGED <<thin, base, sm, s, files, hist>>

\* rmdirRecursive removes the files one by one, in the order of the directory.
ClearUnlink ==
    /\ cmd.pc = "files" /\ stFile # NoDir
    /\ \/ stFile' = NoFile /\ UNCHANGED <<archiveUuid, metaSt, fullReplSt, owner>>
       \/ archiveUuid' = NoFile /\ UNCHANGED <<stFile, metaSt, fullReplSt, owner>>
       \/ metaSt' = NoMeta /\ UNCHANGED <<stFile, archiveUuid, fullReplSt, owner>>
       \/ fullReplSt' = NoState /\ owner' = NoUuid
          /\ UNCHANGED <<stFile, archiveUuid, metaSt>>
    /\ UNCHANGED <<thin, base, sm, s, cmd, lvm, tainted>>

\* The directory is empty and goes; reset-vol makes it again.
ClearRmdir ==
    /\ cmd.pc = "files"
    /\ stFile = NoFile /\ archiveUuid = NoFile /\ metaSt = NoMeta /\ fullReplSt = NoState
    /\ stFile' = NoDir
    /\ owner' = NoUuid /\ tainted' = FALSE
    /\ cmd' = [cmd EXCEPT !.pc = IF sm = "ResetVol" THEN "makeDir" ELSE "commit"]
    /\ UNCHANGED <<thin, base, sm, s, lvm, archiveUuid, metaSt, fullReplSt>>

\* init(): the directory, then the files, the state the last of them.
MakeDir ==
    /\ cmd.pc = "makeDir" /\ stFile = NoDir
    /\ stFile' = NoFile /\ archiveUuid' = NoUuid /\ metaSt' = 0
    /\ cmd' = [cmd EXCEPT !.pc = "state"]
    /\ UNCHANGED <<thin, base, sm, s, lvm, fullReplSt, hist>>

setState ==
    /\ cmd.pc = "state"
    /\ stFile' = cmd.to
    /\ cmd' = [cmd EXCEPT !.pc = "commit"]
    /\ UNCHANGED <<thin, base, sm, s, lvm, archiveUuid, metaSt, fullReplSt, hist>>

CommandCommit ==
    /\ cmd.pc = "commit"
    /\ sm' = cmd.to /\ cmd' = NoCmd
    /\ UNCHANGED <<thin, base, s, lvm, files, hist>>

\* An exception on the way: an lvm command, an unlink or a write fails.  The
\* state machine goes back, even if there is nothing left to go back to.
CommandFails ==
    /\ cmd.pc \notin {"idle", "commit"}
    /\ sm' = cmd.from /\ cmd' = NoCmd
    /\ tainted' = (tainted \/ (stFile \in Based /\ ~lv))
    /\ UNCHANGED <<thin, base, s, lvm, files, owner>>

\* A source applies diffs to its base image.
Apply(src) ==
    /\ s.src # src
    /\ \E g \in Gids[src] : g > base[src] /\ base' = [base EXCEPT ![src] = g]
    /\ UNCHANGED <<thin, sm, s, cmd, lvm, files, hist>>

\* The receiver gets the diffs of its source and applies them: the blocks that
\* differ between the two snapshots are written.
Follow ==
    /\ s.pc = "idle" /\ sm = "Archived" /\ lv
    /\ metaSt < base[archiveUuid]
    /\ metaSt' = base[archiveUuid]
    /\ LET old == Image(archiveUuid, metaSt)
           new == Image(archiveUuid, base[archiveUuid])
       IN  image' = [b \in Blocks |-> IF new[b] # old[b] THEN new[b] ELSE image[b]]
    /\ stable' = image'
    /\ UNCHANGED <<thin, base, sm, s, cmd, lv, stFile, archiveUuid, fullReplSt, hist>>

Init ==
    /\ thin \in BOOLEAN
    /\ base = [src \in Sources |-> Min(Gids[src])]
    /\ sm = "SyncReady" /\ s = Idle /\ cmd = NoCmd
    /\ lv = FALSE /\ image = Stale /\ stable = Stale
    /\ stFile = "SyncReady" /\ archiveUuid = NoUuid /\ metaSt = 0
    /\ fullReplSt = NoState
    /\ owner = NoUuid /\ tainted = FALSE

Work ==
    \/ FullSetArchiveUuid \/ createLv \/ FullRecv \/ FullRecvTooLong
    \/ FullSync \/ FullSave \/ FullFlush
    \/ FullSetMetaState \/ removeFullReplState \/ Commit
    \/ ResyncRecv \/ ResyncFlush \/ ResyncSetMetaState \/ ResyncSetArchiveUuid

Next ==
    \/ Work
    \/ \E src \in Sources : FullStart(src) \/ ResyncStart(src) \/ Apply(src)
    \/ StopBegin \/ StartBegin \/ InitBegin \/ ResetBegin \/ ClearBegin
    \/ ClearRemoveLv \/ ClearUnlink \/ ClearRmdir \/ MakeDir \/ setState
    \/ CommandCommit \/ CommandFails
    \/ Disconnect \/ Crash \/ Follow

Spec == Init /\ [][Next]_vars

\* Both daemons go on with a replication they have begun.  This is WF_vars(Work)
\* with ENABLED written out.
FairSpec == Spec /\ (<>[](s.pc # "idle") => []<><<Work>>_vars)

(***************************************************************************)
(* Properties.                                                             *)
(***************************************************************************)
TypeOK ==
    /\ \A src \in Sources : base[src] \in Gids[src]
    /\ sm \in {"SyncReady", "FullSync", "Resync", "Archived", "Stopped", "Clear", "Down",
              "Stop", "Start", "InitVol", "ResetVol", "ClearVol"}
    /\ stFile \in {"SyncReady", "Archived", "Stopped", NoFile, NoDir}
    /\ s.pc \in {"idle", "uuid", "lv", "recv", "sync", "save", "meta", "remove", "commit",
                 "hash", "hashMeta", "hashUuid"}
    /\ s.next \in 0 .. Size
    /\ cmd.pc \in {"idle", "clear", "files", "makeDir", "state", "commit"}
    /\ lv \in BOOLEAN
    /\ archiveUuid \in Sources \cup {NoUuid, NoFile}

\* A volume whose file calls it Archived or Stopped holds, block for block and
\* whatever connections were lost and machines failed on the way, the base image
\* of the archive it names, at the snapshot it names; also after the next power
\* failure.  Only reset-vol and clear-vol on their way take the image from it, and
\* cut off there they leave a volume with which the daemon does not start.
\* Excepted are a replica made by a resumption in vain (InVain): createLv has
\* discarded a thin volume after initFullReplResume decided to go on, the saved
\* progress was that of another source, or a reset-vol or clear-vol cut off
\* between the volume and the files has left the progress without its blocks;
\* and a volume whose reset-vol or clear-vol failed after it removed the image.
ReplicaExact ==
    stFile \in Based /\ ~tainted =>
        \/ lv /\ image = Image(archiveUuid, metaSt) /\ stable = image
        \/ ~lv /\ sm \in {"ResetVol", "ClearVol", "Down"}

\* A replication that has begun leads to an Archived volume, unless it is broken
\* off: every turn of its loops makes progress.  (Commit, a lost connection, a
\* bulk that is too long and a crash are all that ends it.)
ReplCompletes == (s.pc # "idle") ~> (s.pc = "idle")

=============================================================================
