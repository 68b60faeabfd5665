--------------------------- MODULE FullReplProofs ---------------------------
(***************************************************************************)
(* Proofs about FullRepl, for every set of sources, every content of their *)
(* base images and every size of device, bulk and flush interval.          *)
(*                                                                         *)
(* A replica is exact because every attempt extends a prefix of the device *)
(* that is already that of the source: one it wrote itself, or one that an *)
(* earlier attempt flushed before it saved its progress.  The invariant    *)
(* follows both prefixes, the one of the running attempt and the one the   *)
(* saved progress stands for, and what the commands leave of the volume.   *)
(***************************************************************************)
EXTENDS FullRepl, WellFoundedInduction, TLAPS

Data == {Junk, 0} \cup {Content(src, g, b) : src \in Sources, g \in Nat, b \in Blocks}

Pcs == {"idle", "uuid", "lv", "recv", "sync", "save", "meta", "remove", "commit",
        "hash", "hashMeta", "hashUuid"}

Attempts == [pc : Pcs, src : Sources \cup {NoUuid}, gid : Nat, next : 0 .. Size,
             written : Nat, buf : [1 .. Bulk -> Data], inVain : BOOLEAN]

Files == {"SyncReady", "Archived", "Stopped", NoFile, NoDir}
Moving == {"Stop", "Start", "InitVol", "ResetVol", "ClearVol"}
States == {"SyncReady", "FullSync", "Resync", "Archived", "Stopped", "Clear", "Down"} \cup Moving
Ends   == {"SyncReady", "Archived", "Stopped", "Clear"}

Commands == [pc : {"idle", "clear", "files", "makeDir", "state", "commit"},
             from : Ends, to : Ends]

TypeInv ==
    /\ thin \in BOOLEAN
    /\ base \in [Sources -> Nat] /\ \A src \in Sources : base[src] \in Gids[src]
    /\ sm \in States /\ stFile \in Files
    /\ s \in Attempts /\ cmd \in Commands
    /\ lv \in BOOLEAN
    /\ image \in [Blocks -> Data] /\ stable \in [Blocks -> Data]
    /\ archiveUuid \in Sources \cup {NoUuid, NoFile} /\ owner \in Sources \cup {NoUuid}
    /\ metaSt \in Nat \cup {NoMeta}
    /\ fullReplSt \in [gid : Nat, progress : 0 .. Size] \cup {NoState}
    /\ tainted \in BOOLEAN

\* The state of the volume and the attempt, and what the attempt has set up.
AttemptInv ==
    /\ s.pc # "idle" <=> sm \in {"FullSync", "Resync"}
    /\ s.pc # "idle" => s.src \in Sources /\ s.gid = base[s.src] /\ owner \in {NoUuid, s.src}
    /\ s.pc # "idle" /\ ~lv => owner = NoUuid
    /\ s.pc \in {"lv", "recv", "sync", "save", "meta", "remove", "commit"} => archiveUuid = s.src
    /\ s.pc \in {"remove", "hashUuid", "commit"} => metaSt = s.gid
    /\ s.pc \in Pcs \ {"idle", "uuid", "lv"} => lv
    /\ s.pc \in {"hash", "hashMeta", "hashUuid"} => ~s.inVain

\* The state of the volume and the command, and what is there at its place.
CommandInv ==
    /\ cmd.pc # "idle" <=> sm \in Moving
    /\ cmd.pc = "idle" => cmd = NoCmd
    /\ cmd.pc # "idle" => (cmd.from = "Clear" <=> sm = "InitVol")
    /\ cmd.pc # "idle" => (cmd.to = "Clear" <=> sm = "ClearVol")
    /\ cmd.pc # "idle" => (cmd.to \in Based <=> sm \in {"Stop", "Start"})
    /\ cmd.pc \in {"clear", "files"} => sm \in {"ResetVol", "ClearVol"}
    /\ cmd.pc = "makeDir" => sm \in {"ResetVol", "InitVol"}
    /\ cmd.pc = "state" => sm # "ClearVol"
    /\ cmd.pc = "commit" => stFile = IF cmd.to = "Clear" THEN NoDir ELSE cmd.to
    /\ sm \in {"Stop", "Start"} => cmd.from \in Based /\ stFile \in Based
    /\ sm \in {"InitVol", "ResetVol", "ClearVol"} /\ cmd.pc # "clear" => ~lv

\* The state of the volume and its files.
VolumeInv ==
    /\ sm = "Clear" \/ stFile = NoDir => ~lv
    /\ s.pc # "idle" => stFile # NoDir
    /\ stFile \in Based =>
            sm \notin {"SyncReady", "FullSync", "Resync", "Clear", "InitVol"}
            /\ cmd.from # "SyncReady"
    /\ lv /\ (stFile \in Based \/ sm \in Based \/ cmd.from \in Based) =>
            archiveUuid \in Sources /\ owner \in {NoUuid, archiveUuid}

\* The blocks of img before block n are those of base image g of src.
Prefix(img, src, g, n) == \A b \in Blocks : b < n => img[b] = Content(src, g, b)

\* Unless an attempt resumes in vain it has what it skipped and what it wrote.
\* On a thin volume it leaves zeroes where it skips.
CopyInv ==
    ~s.inVain =>
        /\ s.pc \in {"uuid", "lv", "recv", "sync", "save", "hash"} =>
                Prefix(image, s.src, s.gid, s.next)
        /\ s.pc \in {"uuid", "lv"} /\ s.next > 0 => lv /\ ~thin
        /\ thin /\ s.pc \in {"recv", "sync", "save"} =>
                \A b \in Blocks : b >= s.next => image[b] = 0
        /\ s.pc = "save" => Prefix(stable, s.src, s.gid, s.next)
        /\ s.pc \in {"meta", "remove", "hashMeta", "hashUuid", "commit"} =>
                image = Image(s.src, s.gid) /\ stable = Image(s.src, s.gid)

\* The saved progress, as long as its source has not applied diffs since.
ProgressInv ==
    owner # NoUuid =>
        /\ fullReplSt.gid <= base[owner]
        /\ lv /\ ~thin /\ fullReplSt.gid = base[owner] =>
                /\ Prefix(image, owner, fullReplSt.gid, fullReplSt.progress)
                /\ Prefix(stable, owner, fullReplSt.gid, fullReplSt.progress)

\* The inductive invariant.
IInv == TypeInv /\ AttemptInv /\ CommandInv /\ VolumeInv /\ CopyInv /\ ProgressInv /\ ReplicaExact

-----------------------------------------------------------------------------
(* Bulks and values. *)

\* The lesser of two numbers.
LEMMA MinOfTwo ==
    ASSUME NEW m \in Int, NEW n \in Int
    PROVE  Min({m, n}) = IF m <= n THEN m ELSE n
<1>1. \A x \in {m, n} : (\A y \in {m, n} : x <= y) <=> x = IF m <= n THEN m ELSE n
  OBVIOUS
<1>2. (IF m <= n THEN m ELSE n) \in {m, n}
  OBVIOUS
<1> QED BY <1>1, <1>2 DEF Min

\* The least element of a set of naturals.
LEMMA MinOfSet ==
    ASSUME NEW S \in SUBSET Nat, S # {}
    PROVE  Min(S) \in S
<1>1. \A x, y \in Nat : <<x, y>> \in OpToRel(<, Nat) <=> x < y
  BY DEF OpToRel
<1>2. PICK R : IsWellFoundedOn(R, Nat) /\ \A x, y \in Nat : <<x, y>> \in R <=> x < y
  BY <1>1, NatLessThanWellFounded, Zenon
<1>3. IsWellFoundedOn(R, Nat) /\ S \subseteq Nat
  BY <1>2
<1>4. PICK m \in S : \A x \in S : ~(<<x, m>> \in R)
  BY <1>3, WFMin
<1>5. \A x \in S : ~(x < m)
  BY <1>2, <1>4
<1>6. \A x \in S : m <= x
  BY <1>5
<1> QED BY <1>6 DEF Min

\* The values a step may store.
LEMMA Values ==
    /\ Idle \in Attempts
    /\ Idle.pc = "idle"
    /\ Blank \in [Blocks -> Data] /\ Stale \in [Blocks -> Data]
    /\ \A src \in Sources, g \in Nat : Image(src, g) \in [Blocks -> Data]
<1>1. 0 \in 0 .. Size /\ 0 \in Nat
  BY SizesAreSane
<1>2. [i \in 1 .. Bulk |-> Junk] \in [1 .. Bulk -> Data]
  BY DEF Data
<1>3. Idle \in Attempts /\ Idle.pc = "idle"
  BY <1>1, <1>2 DEF Idle, Attempts, Pcs
<1>4. Blank \in [Blocks -> Data] /\ Stale \in [Blocks -> Data]
  BY DEF Blank, Stale, Data
<1>5. \A src \in Sources, g \in Nat : Image(src, g) \in [Blocks -> Data]
  BY DEF Image, Data
<1> QED BY <1>3, <1>4, <1>5

\* The bulk at hand is not empty and does not go past the end of the device.
LEMMA BulkBounds ==
    ASSUME TypeInv, s.next < Size
    PROVE  /\ BulkLb \in Nat /\ 1 <= BulkLb /\ BulkLb <= Bulk
           /\ s.next \in Nat /\ s.next + BulkLb \in 0 .. Size
<1>1. s.next \in Nat /\ Size - s.next \in Int /\ Bulk \in Nat /\ Bulk # 0 /\ Size \in Nat
  BY SizesAreSane DEF TypeInv, Attempts
<1>2. BulkLb = IF Bulk <= Size - s.next THEN Bulk ELSE Size - s.next
  BY <1>1, MinOfTwo DEF BulkLb
<1> QED BY <1>1, <1>2

\* The client's buffer has the blocks of the bulk in front.
LEMMA BufferHasBulk ==
    ASSUME TypeInv, s.next < Size, s.src \in Sources
    PROVE  /\ NextBuf \in [1 .. Bulk -> Data]
           /\ \A b \in Blocks : Covered(b) =>
                /\ b - s.next + 1 \in 1 .. Bulk
                /\ NextBuf[b - s.next + 1] = Content(s.src, s.gid, b)
<1>1. /\ BulkLb \in Nat /\ 1 <= BulkLb /\ BulkLb <= Bulk
      /\ s.next \in Nat /\ s.next + BulkLb \in 0 .. Size
  BY BulkBounds
<1>2. /\ Image(s.src, s.gid) \in [Blocks -> Data] /\ s.buf \in [1 .. Bulk -> Data]
      /\ Size \in Nat /\ Bulk \in Nat
  BY Values, SizesAreSane DEF TypeInv, Attempts
<1>3. ASSUME NEW i \in 1 .. Bulk, i <= BulkLb PROVE s.next + i - 1 \in Blocks
  BY <1>1, <1>2, <1>3 DEF Blocks
<1>4. NextBuf \in [1 .. Bulk -> Data]
  <2>1. ASSUME NEW i \in 1 .. Bulk
        PROVE (IF i <= BulkLb THEN Image(s.src, s.gid)[s.next + i - 1] ELSE s.buf[i]) \in Data
    BY <1>2, <1>3
  <2> QED BY <2>1 DEF NextBuf
<1>5. ASSUME NEW b \in Blocks, Covered(b)
      PROVE  /\ b - s.next + 1 \in 1 .. Bulk
             /\ NextBuf[b - s.next + 1] = Content(s.src, s.gid, b)
  <2>1. b \in Nat /\ b >= s.next /\ b < s.next + BulkLb
    BY <1>2, <1>5 DEF Blocks, Covered
  <2>2. /\ b - s.next + 1 \in 1 .. Bulk /\ b - s.next + 1 <= BulkLb
        /\ s.next + (b - s.next + 1) - 1 = b
    BY <1>1, <1>2, <2>1
  <2>3. NextBuf[b - s.next + 1] = Image(s.src, s.gid)[s.next + (b - s.next + 1) - 1]
    BY <2>2 DEF NextBuf
  <2> QED BY <2>2, <2>3 DEF Image
<1> QED BY <1>4, <1>5

-----------------------------------------------------------------------------
(* Every conjunct of the invariant is kept by every action. *)

\* What FullRecv makes of the device.
LEMMA FullRecvEffect ==
    ASSUME IInv, FullRecv
    PROVE  /\ s' \in Attempts /\ s'.pc \in {"sync", "recv"} /\ s'.next = s.next + BulkLb
           /\ s'.src = s.src /\ s'.gid = s.gid /\ s'.inVain = s.inVain
           /\ image' \in [Blocks -> Data]
           /\ \A b \in Blocks : ~Covered(b) => image'[b] = image[b]
           /\ \A b \in Blocks : Covered(b) /\ (~thin \/ image[b] = 0) =>
                    image'[b] = Content(s.src, s.gid, b)
<1>1. /\ s \in Attempts /\ s.src \in Sources /\ s.next < Size /\ TypeInv /\ s.pc = "recv"
      /\ image \in [Blocks -> Data]
  BY DEF IInv, TypeInv, AttemptInv, FullRecv
<1>2. /\ BulkLb \in Nat /\ s.next + BulkLb \in 0 .. Size
  BY <1>1, BulkBounds
<1>3. /\ NextBuf \in [1 .. Bulk -> Data]
      /\ \A b \in Blocks : Covered(b) => /\ b - s.next + 1 \in 1 .. Bulk
                                         /\ NextBuf[b - s.next + 1] = Content(s.src, s.gid, b)
  BY <1>1, BufferHasBulk
<1>4. PICK pc \in {"sync", "recv"} :
        s' = [s EXCEPT !.pc = pc, !.next = @ + BulkLb, !.written = @ + BulkLb, !.buf = NextBuf]
  BY DEF FullRecv, Advance
<1>5. s.written + BulkLb \in Nat
  BY <1>1, <1>2 DEF Attempts
<1>6. /\ s' \in Attempts /\ s'.pc \in {"sync", "recv"} /\ s'.next = s.next + BulkLb
      /\ s'.src = s.src /\ s'.gid = s.gid /\ s'.inVain = s.inVain
  BY <1>1, <1>2, <1>3, <1>4, <1>5 DEF Attempts, Pcs
<1>7. image' = [b \in Blocks |->
            IF Covered(b) /\ ~(AllZero /\ thin) THEN NextBuf[b - s.next + 1] ELSE image[b]]
  BY DEF FullRecv
<1>8. image' \in [Blocks -> Data]
  BY <1>1, <1>3, <1>7
<1>9. ASSUME NEW b \in Blocks, Covered(b), ~thin \/ image[b] = 0
      PROVE  image'[b] = Content(s.src, s.gid, b)
  <2>1. CASE AllZero /\ thin
    <3>1. Content(s.src, s.gid, b) = 0
      BY <1>3, <1>9, <2>1 DEF AllZero
    <3> QED BY <1>7, <1>9, <2>1, <3>1
  <2>2. CASE ~(AllZero /\ thin)
    BY <1>3, <1>7, <1>9, <2>2
  <2> QED BY <2>1, <2>2
<1>10. \A b \in Blocks : ~Covered(b) => image'[b] = image[b]
  BY <1>7
<1> QED BY <1>6, <1>8, <1>9, <1>10

\* What ResyncRecv makes of it.
LEMMA ResyncRecvEffect ==
    ASSUME IInv, ResyncRecv
    PROVE  /\ s' \in Attempts /\ s'.pc = "hash" /\ s'.next = s.next + BulkLb
           /\ s'.src = s.src /\ s'.gid = s.gid /\ s'.inVain = s.inVain
           /\ image' \in [Blocks -> Data] /\ stable' \in {stable, image'}
           /\ \A b \in Blocks : ~Covered(b) => image'[b] = image[b]
           /\ \A b \in Blocks : Covered(b) => image'[b] = Content(s.src, s.gid, b)
<1>1. /\ s \in Attempts /\ s.src \in Sources /\ s.next < Size /\ TypeInv /\ s.pc = "hash"
      /\ image \in [Blocks -> Data]
  BY DEF IInv, TypeInv, AttemptInv, ResyncRecv
<1>2. /\ BulkLb \in Nat /\ s.next + BulkLb \in 0 .. Size
  BY <1>1, BulkBounds
<1>3. s' = [s EXCEPT !.next = @ + BulkLb]
  BY DEF ResyncRecv
<1>4. /\ s' \in Attempts /\ s'.pc = "hash" /\ s'.next = s.next + BulkLb
      /\ s'.src = s.src /\ s'.gid = s.gid /\ s'.inVain = s.inVain
  BY <1>1, <1>2, <1>3 DEF Attempts
<1>5. image' = [b \in Blocks |-> IF Covered(b) THEN Image(s.src, s.gid)[b] ELSE image[b]]
  BY DEF ResyncRecv
<1>6. Image(s.src, s.gid) \in [Blocks -> Data]
  BY <1>1, Values DEF Attempts
<1>7. image' \in [Blocks -> Data]
  BY <1>1, <1>5, <1>6
<1> QED BY <1>4, <1>5, <1>7 DEF ResyncRecv, Image

\* After a power failure every block is one of the two it may be.
LEMMA CrashEffect ==
    ASSUME TypeInv, Crash
    PROVE  /\ image' \in [Blocks -> Data] /\ stable' = image'
           /\ \A b \in Blocks : image'[b] \in {image[b], stable[b]}
<1>1. PICK lost \in SUBSET Blocks :
        image' = [b \in Blocks |-> IF b \in lost THEN stable[b] ELSE image[b]]
  BY DEF Crash
<1> QED BY <1>1 DEF TypeInv, Crash

\* The state the daemon finds when it starts again.
LEMMA RestartEffect ==
    ASSUME IInv, Crash
    PROVE  /\ sm' \in {"Clear", "SyncReady", "Archived", "Stopped", "Down"}
           /\ sm' \notin {"Clear", "Down"} => sm' = stFile
           /\ sm' = "Clear" => stFile = NoDir
           /\ stFile \in Based => sm' \in {stFile, "Down"} /\ (~lv => sm' = "Down")
           /\ s' = Idle /\ cmd' = NoCmd
<1>1. stFile \in Files
  BY DEF IInv, TypeInv
<1>2. sm' = Restarted /\ s' = Idle /\ cmd' = NoCmd
  BY DEF Crash
<1> QED BY <1>1, <1>2 DEF Restarted, Files, Based, NoFile, NoDir

\* The places of a command, and where it leads.
LEMMA Places ==
    ASSUME IInv, cmd.pc # "idle"
    PROVE  /\ s.pc = "idle" /\ sm \in Moving /\ sm \notin {"FullSync", "Resync"}
           /\ cmd.from \in Ends /\ cmd.to \in Ends
           /\ cmd = [pc |-> cmd.pc, from |-> cmd.from, to |-> cmd.to]
BY DEF IInv, TypeInv, AttemptInv, CommandInv, Moving, Commands, Attempts, Pcs

Begins == StopBegin \/ StartBegin \/ InitBegin \/ ResetBegin \/ ClearBegin

\* A command begins in a state that no replication and no command holds.
LEMMA BeginEffect ==
    ASSUME IInv, Begins
    PROVE  /\ UNCHANGED <<thin, base, s, lv, image, stable, stFile, archiveUuid, metaSt,
                          fullReplSt, owner, tainted>>
           /\ cmd.pc = "idle" /\ s.pc = "idle"
           /\ sm' \in Moving /\ cmd'.from = sm /\ (sm' = "InitVol" => sm = "Clear")
           /\ \/ /\ sm = "Archived" /\ sm' = "Stop" /\ stFile = "Archived"
                 /\ cmd' = [pc |-> "state", from |-> "Archived", to |-> "Stopped"]
              \/ /\ sm = "Stopped" /\ sm' = "Start" /\ stFile = "Stopped"
                 /\ cmd' = [pc |-> "state", from |-> "Stopped", to |-> "Archived"]
              \/ /\ sm = "Clear" /\ sm' = "InitVol"
                 /\ cmd' = [pc |-> "makeDir", from |-> "Clear", to |-> "SyncReady"]
              \/ /\ sm \in {"SyncReady", "Stopped"} /\ sm' = "ResetVol"
                 /\ cmd' = [pc |-> "clear", from |-> sm, to |-> "SyncReady"]
              \/ /\ sm \in {"SyncReady", "Stopped"} /\ sm' = "ClearVol"
                 /\ cmd' = [pc |-> "clear", from |-> sm, to |-> "Clear"]
BY DEF Begins, StopBegin, StartBegin, InitBegin, ResetBegin, ClearBegin, Begin, IInv, TypeInv,
       AttemptInv, CommandInv, States, Moving, Attempts, Commands, Pcs, lvm, files, hist

\* Every variable keeps its type.
LEMMA TypeStep == IInv /\ Next => TypeInv'
<1> SUFFICES ASSUME IInv, Next PROVE TypeInv'
  OBVIOUS
<1> USE Values DEF IInv, TypeInv, AttemptInv, Attempts, Pcs
<1>1. CASE FullSetArchiveUuid
  BY <1>1 DEF FullSetArchiveUuid, hist, lvm
<1>2. CASE createLv
  BY <1>2 DEF createLv, files, hist
<1>3. CASE FullRecv
  BY <1>3, FullRecvEffect DEF FullRecv, files, hist
<1>4. CASE FullRecvTooLong
  BY <1>4 DEF FullRecvTooLong, Abort, files, lvm, hist, States
<1>5. CASE FullSync
  BY <1>5 DEF FullSync, files, hist
<1>6. CASE FullSave
  <2>1. fullReplSt' \in [gid : Nat, progress : 0 .. Size]
    BY <1>6 DEF FullSave
  <2> QED BY <1>6, <2>1 DEF FullSave, lvm
<1>7. CASE FullFlush
  BY <1>7 DEF FullFlush, files, hist
<1>8. CASE FullSetMetaState
  BY <1>8 DEF FullSetMetaState, hist, lvm
<1>9. CASE removeFullReplState
  BY <1>9 DEF removeFullReplState, lvm
<1>10. CASE Commit
  BY <1>10 DEF Commit, lvm, States, Files
<1>11. CASE ResyncRecv
  <2>1. stable' \in [Blocks -> Data]
    BY <1>11, ResyncRecvEffect
  <2> QED BY ZenonT(40), <1>11, <2>1, ResyncRecvEffect DEF ResyncRecv, files, hist
<1>12. CASE ResyncFlush
  BY <1>12 DEF ResyncFlush, files, hist
<1>13. CASE ResyncSetMetaState
  BY <1>13 DEF ResyncSetMetaState, hist, lvm
<1>14. CASE ResyncSetArchiveUuid
  BY <1>14 DEF ResyncSetArchiveUuid, hist, lvm
<1>15. ASSUME NEW src \in Sources, FullStart(src) PROVE TypeInv'
  <2>1. initFullReplResume(src) \in 0 .. Size
    BY SizesAreSane DEF initFullReplResume, Resumes
  <2>2. InVain(src) \in BOOLEAN
    BY DEF InVain
  <2>3. s' \in Attempts
    BY <1>15, <2>1, <2>2 DEF FullStart
  <2> QED BY <1>15, <2>3 DEF FullStart, Overwrites, files, lvm, States
<1>16. ASSUME NEW src \in Sources, ResyncStart(src) PROVE TypeInv'
  BY <1>16 DEF ResyncStart, DO_RESYNC, Overwrites, lvm, States, Files
<1>17. ASSUME NEW src \in Sources, Apply(src) PROVE TypeInv'
  <2>1. PICK g \in Gids[src] : g > base[src] /\ base' = [base EXCEPT ![src] = g]
    BY <1>17 DEF Apply
  <2>2. g \in Nat
    BY SizesAreSane
  <2>3. base' \in [Sources -> Nat] /\ \A r \in Sources : base'[r] \in Gids[r]
    BY <2>1, <2>2
  <2>4. UNCHANGED <<thin, sm, stFile, s, lv, image, stable, archiveUuid, owner, metaSt, fullReplSt,
                    tainted, cmd>>
    BY <1>17 DEF Apply, files, hist, lvm
  <2> QED BY SMTT(30), <2>3, <2>4
<1>18. CASE Disconnect
  BY <1>18 DEF Disconnect, Abort, files, lvm, hist, States
<1>19. CASE Crash
  <2>1. sm' \in States /\ s' \in Attempts /\ cmd' \in Commands
    BY <1>19, RestartEffect DEF States, Commands, NoCmd, Ends
  <2>2. image' \in [Blocks -> Data] /\ stable' \in [Blocks -> Data]
    BY <1>19, CrashEffect
  <2> QED BY <1>19, <2>1, <2>2 DEF Crash, files, hist
<1>20. CASE Begins
  <2>1. sm' \in States /\ cmd' \in Commands
    BY <1>20, BeginEffect DEF Commands, States, Ends
  <2> QED BY <1>20, <2>1, BeginEffect
<1>21. CASE Follow
  <2>1. archiveUuid \in Sources
    BY <1>21 DEF Follow, VolumeInv, Based
  <2> QED BY <1>21, <2>1 DEF Follow, hist
<1>22. CASE ClearRemoveLv
  BY <1>22, Places DEF ClearRemoveLv, files, hist, Commands
<1>23. CASE ClearUnlink
  <2>1. /\ stFile' \in {stFile, NoFile} /\ archiveUuid' \in {archiveUuid, NoFile}
        /\ metaSt' \in {metaSt, NoMeta} /\ fullReplSt' \in {fullReplSt, NoState}
        /\ owner' \in {owner, NoUuid}
    BY <1>23 DEF ClearUnlink
  <2>2. UNCHANGED <<thin, base, sm, s, cmd, lv, image, stable, tainted>>
    BY <1>23 DEF ClearUnlink, lvm
  <2>3. stFile' \in Files
    BY <2>1 DEF Files
  <2> QED BY SMTT(30), <2>1, <2>2, <2>3
<1>24. CASE ClearRmdir
  BY <1>24, Places DEF ClearRmdir, lvm, Files, Commands
<1>25. CASE MakeDir
  BY <1>25, Places DEF MakeDir, lvm, hist, Files, Commands
<1>26. CASE setState
  <2>1. cmd.to \in Files /\ cmd' \in Commands
    BY <1>26, Places DEF setState, CommandInv, Files, Commands, Ends
  <2> QED BY <1>26, <2>1 DEF setState, lvm, hist
<1>27. CASE CommandCommit
  BY <1>27, Places DEF CommandCommit, lvm, files, hist, Commands, NoCmd, Ends, States
<1>28. CASE CommandFails
  BY <1>28, Places DEF CommandFails, lvm, files, Commands, NoCmd, Ends, States
<1> QED
  BY <1>1, <1>2, <1>3, <1>4, <1>5, <1>6, <1>7, <1>8, <1>9, <1>10, <1>11, <1>12, <1>13, <1>14,
        <1>15, <1>16, <1>17, <1>18, <1>19, <1>20, <1>21, <1>22, <1>23, <1>24, <1>25, <1>26,
        <1>27, <1>28 DEF Next, Work, Begins

\* The state of the volume, the attempt and the files move together.
LEMMA AttemptStep == IInv /\ Next => AttemptInv'
<1> SUFFICES ASSUME IInv, Next PROVE AttemptInv'
  OBVIOUS
<1> USE DEF IInv, TypeInv, AttemptInv, VolumeInv, Attempts, Pcs, Idle, Moving, Ends
<1>1. CASE FullSetArchiveUuid
  BY <1>1 DEF FullSetArchiveUuid, hist, lvm
<1>2. CASE createLv
  BY <1>2 DEF createLv, files, hist
<1>3. CASE FullRecv
  BY <1>3 DEF FullRecv, Advance, files, hist
<1>4. CASE FullRecvTooLong
  BY <1>4 DEF FullRecvTooLong, Abort, files, lvm, hist
<1>5. CASE FullSync
  BY <1>5 DEF FullSync, files, hist
<1>6. CASE FullSave
  BY <1>6 DEF FullSave, lvm
<1>7. CASE FullFlush
  BY <1>7 DEF FullFlush, files, hist
<1>8. CASE FullSetMetaState
  BY <1>8 DEF FullSetMetaState, hist, lvm
<1>9. CASE removeFullReplState
  BY <1>9 DEF removeFullReplState, lvm
<1>10. CASE Commit
  BY <1>10 DEF Commit, lvm
<1>11. CASE ResyncRecv
  BY <1>11 DEF ResyncRecv, files, hist
<1>12. CASE ResyncFlush
  BY <1>12 DEF ResyncFlush, files, hist
<1>13. CASE ResyncSetMetaState
  BY <1>13 DEF ResyncSetMetaState, hist, lvm
<1>14. CASE ResyncSetArchiveUuid
  BY <1>14 DEF ResyncSetArchiveUuid, hist, lvm
<1>15. ASSUME NEW src \in Sources, FullStart(src) PROVE AttemptInv'
  BY <1>15 DEF FullStart, DO_FULL_SYNC, InVain, Overwrites, files, initFullReplResume, lvm,
               Resumes
<1>16. ASSUME NEW src \in Sources, ResyncStart(src) PROVE AttemptInv'
  BY <1>16 DEF ResyncStart, DO_RESYNC, Overwrites, lvm
<1>17. ASSUME NEW src \in Sources, Apply(src) PROVE AttemptInv'
  BY <1>17 DEF Apply, files, hist, lvm
<1>18. CASE Disconnect
  BY <1>18 DEF Disconnect, Abort, files, lvm, hist
<1>19. CASE Crash
  BY <1>19, RestartEffect, CrashEffect DEF Crash, files, hist
<1>20. CASE Begins
  BY <1>20, BeginEffect
<1>21. CASE Follow
  BY <1>21 DEF Follow, hist
<1>22. CASE ClearRemoveLv
  BY <1>22, Places DEF ClearRemoveLv, files, hist
<1>23. CASE ClearUnlink
  BY <1>23, Places DEF ClearUnlink, lvm
<1>24. CASE ClearRmdir
  BY <1>24, Places DEF ClearRmdir, lvm
<1>25. CASE MakeDir
  BY <1>25, Places DEF MakeDir, lvm, hist
<1>26. CASE setState
  BY <1>26, Places DEF setState, lvm, hist
<1>27. CASE CommandCommit
  BY <1>27, Places DEF CommandCommit, lvm, files, hist
<1>28. CASE CommandFails
  BY <1>28, Places DEF CommandFails, lvm, files
<1> QED
  BY <1>1, <1>2, <1>3, <1>4, <1>5, <1>6, <1>7, <1>8, <1>9, <1>10, <1>11, <1>12, <1>13, <1>14,
        <1>15, <1>16, <1>17, <1>18, <1>19, <1>20, <1>21, <1>22, <1>23, <1>24, <1>25, <1>26,
        <1>27, <1>28 DEF Next, Work, Begins

\* A command goes from place to place, and nothing else moves it.
LEMMA CommandStep == IInv /\ Next => CommandInv'
<1> SUFFICES ASSUME IInv, Next PROVE CommandInv'
  OBVIOUS
<1> USE DEF IInv, TypeInv, AttemptInv, CommandInv, Idle, NoCmd, Moving, Ends, Based
<1>1. CASE FullSetArchiveUuid
  BY <1>1 DEF FullSetArchiveUuid, hist, lvm
<1>2. CASE createLv
  BY <1>2 DEF createLv, files, hist
<1>3. CASE FullRecv
  BY <1>3 DEF FullRecv, Advance, files, hist
<1>4. CASE FullRecvTooLong
  BY <1>4 DEF FullRecvTooLong, Abort, files, lvm, hist
<1>5. CASE FullSync
  BY <1>5 DEF FullSync, files, hist
<1>6. CASE FullSave
  BY <1>6 DEF FullSave, lvm
<1>7. CASE FullFlush
  BY <1>7 DEF FullFlush, files, hist
<1>8. CASE FullSetMetaState
  BY <1>8 DEF FullSetMetaState, hist, lvm
<1>9. CASE removeFullReplState
  BY <1>9 DEF removeFullReplState, lvm
<1>10. CASE Commit
  BY <1>10 DEF Commit, lvm
<1>11. CASE ResyncRecv
  BY <1>11 DEF ResyncRecv, files, hist
<1>12. CASE ResyncFlush
  BY <1>12 DEF ResyncFlush, files, hist
<1>13. CASE ResyncSetMetaState
  BY <1>13 DEF ResyncSetMetaState, hist, lvm
<1>14. CASE ResyncSetArchiveUuid
  BY <1>14 DEF ResyncSetArchiveUuid, hist, lvm
<1>15. ASSUME NEW src \in Sources, FullStart(src) PROVE CommandInv'
  BY <1>15 DEF FullStart, DO_FULL_SYNC, InVain, Overwrites, files, initFullReplResume, lvm,
               Resumes
<1>16. ASSUME NEW src \in Sources, ResyncStart(src) PROVE CommandInv'
  BY <1>16 DEF ResyncStart, DO_RESYNC, Overwrites, lvm
<1>17. ASSUME NEW src \in Sources, Apply(src) PROVE CommandInv'
  BY <1>17 DEF Apply, files, hist, lvm
<1>18. CASE Disconnect
  BY <1>18 DEF Disconnect, Abort, files, lvm, hist
<1>19. CASE Crash
  BY <1>19, RestartEffect, CrashEffect DEF Crash, files, hist
<1>20. CASE Begins
  BY <1>20, BeginEffect DEF VolumeInv
<1>21. CASE Follow
  BY <1>21 DEF Follow, hist
<1>22. CASE ClearRemoveLv
  BY <1>22, Places DEF ClearRemoveLv, files, hist
<1>23. CASE ClearUnlink
  BY <1>23, Places DEF ClearUnlink, lvm
<1>24. CASE ClearRmdir
  BY <1>24, Places DEF ClearRmdir, lvm
<1>25. CASE MakeDir
  BY <1>25, Places DEF MakeDir, lvm, hist
<1>26. CASE setState
  BY <1>26, Places DEF setState, lvm, hist
<1>27. CASE CommandCommit
  BY <1>27, Places DEF CommandCommit, lvm, files, hist
<1>28. CASE CommandFails
  BY <1>28, Places DEF CommandFails, lvm, files
<1> QED
  BY <1>1, <1>2, <1>3, <1>4, <1>5, <1>6, <1>7, <1>8, <1>9, <1>10, <1>11, <1>12, <1>13, <1>14,
        <1>15, <1>16, <1>17, <1>18, <1>19, <1>20, <1>21, <1>22, <1>23, <1>24, <1>25, <1>26,
        <1>27, <1>28 DEF Next, Work, Begins

\* The state file follows the state machine, and a base image has its files.
LEMMA VolumeStep == IInv /\ Next => VolumeInv'
<1> SUFFICES ASSUME IInv, Next PROVE VolumeInv'
  OBVIOUS
<1> USE SourcesAreNamed DEF IInv, TypeInv, AttemptInv, CommandInv, VolumeInv, Idle, NoCmd, Moving,
                          Ends, Based, NoFile, NoDir, NoUuid
<1>1. CASE FullSetArchiveUuid
  BY <1>1 DEF FullSetArchiveUuid, hist, lvm
<1>2. CASE createLv
  BY <1>2 DEF createLv, files, hist
<1>3. CASE FullRecv
  BY <1>3 DEF FullRecv, Advance, files, hist
<1>4. CASE FullRecvTooLong
  BY <1>4 DEF FullRecvTooLong, Abort, files, lvm, hist
<1>5. CASE FullSync
  BY <1>5 DEF FullSync, files, hist
<1>6. CASE FullSave
  BY <1>6 DEF FullSave, lvm
<1>7. CASE FullFlush
  BY <1>7 DEF FullFlush, files, hist
<1>8. CASE FullSetMetaState
  BY <1>8 DEF FullSetMetaState, hist, lvm
<1>9. CASE removeFullReplState
  BY <1>9 DEF removeFullReplState, lvm
<1>10. CASE Commit
  <2>1. /\ lv /\ archiveUuid = s.src /\ s.src \in Sources /\ owner \in {NoUuid, s.src}
        /\ cmd.pc = "idle" /\ cmd.from = "Clear"
    <3>1. s.pc = "commit"
      BY <1>10 DEF Commit
    <3>2. lv /\ archiveUuid = s.src /\ s.src \in Sources /\ owner \in {NoUuid, s.src}
      BY <3>1 DEF Pcs
    <3>3. sm \notin Moving
      BY <3>1
    <3>4. cmd = NoCmd
      BY <3>3
    <3> QED BY <3>2, <3>4
  <2>2. /\ sm' = "Archived" /\ stFile' = "Archived" /\ s'.pc = "idle"
        /\ UNCHANGED <<lv, archiveUuid, owner, cmd>>
    BY <1>10 DEF Commit, lvm
  <2> QED BY <2>1, <2>2
<1>11. CASE ResyncRecv
  BY <1>11 DEF ResyncRecv, files, hist
<1>12. CASE ResyncFlush
  BY <1>12 DEF ResyncFlush, files, hist
<1>13. CASE ResyncSetMetaState
  BY <1>13 DEF ResyncSetMetaState, hist, lvm
<1>14. CASE ResyncSetArchiveUuid
  BY <1>14 DEF ResyncSetArchiveUuid, hist, lvm
<1>15. ASSUME NEW src \in Sources, FullStart(src) PROVE VolumeInv'
  BY <1>15 DEF FullStart, DO_FULL_SYNC, InVain, Overwrites, files, initFullReplResume, lvm,
               Resumes
<1>16. ASSUME NEW src \in Sources, ResyncStart(src) PROVE VolumeInv'
  BY <1>16 DEF ResyncStart, DO_RESYNC, Overwrites, lvm
<1>17. ASSUME NEW src \in Sources, Apply(src) PROVE VolumeInv'
  BY <1>17 DEF Apply, files, hist, lvm
<1>18. CASE Disconnect
  BY <1>18 DEF Disconnect, Abort, files, lvm, hist
<1>19. CASE Crash
  BY <1>19, RestartEffect, CrashEffect DEF Crash, files, hist
<1>20. CASE Begins
  <2>1. /\ UNCHANGED <<s, lv, stFile, archiveUuid, owner>>
        /\ sm' \in Moving /\ cmd'.from = sm /\ s.pc = "idle"
        /\ sm' = "InitVol" => sm = "Clear"
    BY <1>20, BeginEffect
  <2>2. sm' \notin Based \cup {"SyncReady", "FullSync", "Resync", "Clear"}
    BY <2>1
  <2> QED BY <2>1, <2>2
<1>21. CASE Follow
  BY <1>21 DEF Follow, hist
<1>22. CASE ClearRemoveLv
  BY <1>22, Places DEF ClearRemoveLv, files, hist
<1>23. CASE ClearUnlink
  BY <1>23, Places DEF ClearUnlink, lvm
<1>24. CASE ClearRmdir
  BY <1>24, Places DEF ClearRmdir, lvm
<1>25. CASE MakeDir
  BY <1>25, Places DEF MakeDir, lvm, hist
<1>26. CASE setState
  BY <1>26, Places DEF setState, lvm, hist
<1>27. CASE CommandCommit
  BY <1>27, Places DEF CommandCommit, lvm, files, hist
<1>28. CASE CommandFails
  BY <1>28, Places DEF CommandFails, lvm, files
<1> QED
  BY <1>1, <1>2, <1>3, <1>4, <1>5, <1>6, <1>7, <1>8, <1>9, <1>10, <1>11, <1>12, <1>13, <1>14,
        <1>15, <1>16, <1>17, <1>18, <1>19, <1>20, <1>21, <1>22, <1>23, <1>24, <1>25, <1>26,
        <1>27, <1>28 DEF Next, Work, Begins

\* Each bulk extends the prefix, and a resumption starts from one.
LEMMA CopyStep == IInv /\ Next => CopyInv'
<1> SUFFICES ASSUME IInv, Next PROVE CopyInv'
  OBVIOUS
<1> USE DEF IInv, TypeInv, AttemptInv, CopyInv, ProgressInv, Attempts, Idle, Prefix, NoState
<1>1. CASE FullSetArchiveUuid
  BY <1>1 DEF FullSetArchiveUuid, hist, lvm
<1>2. CASE createLv
  <2> SUFFICES ASSUME ~s.inVain PROVE CopyInv'
    BY <1>2 DEF createLv
  <2>1. Prefix(image', s.src, s.gid, s.next)
    <3>1. CASE s.next > 0
      BY <1>2, <3>1 DEF createLv
    <3>2. CASE ~(s.next > 0)
      BY <3>2, SizesAreSane DEF Blocks
    <3> QED BY <3>1, <3>2
  <2>2. thin => \A b \in Blocks : image'[b] = 0
    BY <1>2 DEF createLv, Blank
  <2> QED BY <1>2, <2>1, <2>2 DEF createLv, files, hist
<1>3. CASE FullRecv
  <2> SUFFICES ASSUME ~s.inVain PROVE CopyInv'
    BY <1>3, FullRecvEffect
  <2>1. /\ s'.pc \in {"sync", "recv"} /\ s'.next = s.next + BulkLb
        /\ s'.src = s.src /\ s'.gid = s.gid
        /\ \A b \in Blocks : ~Covered(b) => image'[b] = image[b]
        /\ \A b \in Blocks : Covered(b) /\ (~thin \/ image[b] = 0) =>
                image'[b] = Content(s.src, s.gid, b)
    BY <1>3, FullRecvEffect
  <2>2. BulkLb \in Nat /\ s.next \in Nat /\ \A b \in Blocks : b \in Nat
    BY <1>3, BulkBounds, SizesAreSane DEF FullRecv, Blocks
  <2>3. Prefix(image', s.src, s.gid, s.next + BulkLb)
    <3>1. ASSUME NEW b \in Blocks, b < s.next + BulkLb PROVE image'[b] = Content(s.src, s.gid, b)
      <4>1. CASE b < s.next
        BY <1>3, <2>1, <2>2, <4>1 DEF Covered, FullRecv
      <4>2. CASE b >= s.next
        <5>1. Covered(b)
          BY <3>1, <4>2 DEF Covered
        <5>2. thin => image[b] = 0
          BY <1>3, <4>2 DEF FullRecv
        <5> QED BY <2>1, <5>1, <5>2
      <4> QED BY <2>2, <4>1, <4>2
    <3> QED BY <3>1
  <2>4. thin => \A b \in Blocks : b >= s.next + BulkLb => image'[b] = 0
    BY <1>3, <2>1, <2>2 DEF Covered, FullRecv
  <2> QED BY <1>3, <2>1, <2>3, <2>4 DEF FullRecv
<1>4. CASE FullRecvTooLong
  BY <1>4 DEF FullRecvTooLong, Abort, files, lvm, hist
<1>5. CASE FullSync
  BY <1>5 DEF FullSync, files, hist
<1>6. CASE FullSave
  BY <1>6 DEF FullSave, lvm
<1>7. CASE FullFlush
  <2> SUFFICES ASSUME ~s.inVain PROVE CopyInv'
    BY <1>7 DEF FullFlush
  <2>1. Prefix(image, s.src, s.gid, Size)
    BY <1>7 DEF FullFlush
  <2>2. image = Image(s.src, s.gid)
    BY <2>1, SizesAreSane DEF Image, Blocks
  <2> QED BY <1>7, <2>2 DEF FullFlush, Image
<1>8. CASE FullSetMetaState
  BY <1>8 DEF FullSetMetaState, hist, lvm
<1>9. CASE removeFullReplState
  BY <1>9 DEF removeFullReplState, lvm
<1>10. CASE Commit
  BY <1>10 DEF Commit, lvm
<1>11. CASE ResyncRecv
  <2>1. /\ s'.pc = "hash" /\ s'.next = s.next + BulkLb /\ s'.src = s.src /\ s'.gid = s.gid
        /\ \A b \in Blocks : ~Covered(b) => image'[b] = image[b]
        /\ \A b \in Blocks : Covered(b) => image'[b] = Content(s.src, s.gid, b)
    BY <1>11, ResyncRecvEffect
  <2>2. BulkLb \in Nat /\ s.next \in Nat /\ \A b \in Blocks : b \in Nat
    BY <1>11, BulkBounds, SizesAreSane DEF ResyncRecv, Blocks
  <2>3. Prefix(image', s.src, s.gid, s.next + BulkLb)
    BY <1>11, <2>1, <2>2 DEF Covered, ResyncRecv
  <2> QED BY <2>1, <2>3
<1>12. CASE ResyncFlush
  <2> SUFFICES ASSUME ~s.inVain PROVE CopyInv'
    BY <1>12 DEF ResyncFlush
  <2>1. Prefix(image, s.src, s.gid, Size)
    BY <1>12 DEF ResyncFlush
  <2>2. image = Image(s.src, s.gid)
    BY <2>1, SizesAreSane DEF Image, Blocks
  <2> QED BY <1>12, <2>2 DEF ResyncFlush, Image
<1>13. CASE ResyncSetMetaState
  BY <1>13 DEF ResyncSetMetaState, hist, lvm
<1>14. CASE ResyncSetArchiveUuid
  BY <1>14 DEF ResyncSetArchiveUuid, hist, lvm
<1>15. ASSUME NEW src \in Sources, FullStart(src) PROVE CopyInv'
  <2>1. /\ s'.pc = "uuid" /\ s'.src = src /\ s'.gid = base[src] /\ s'.inVain = InVain(src)
        /\ s'.next = initFullReplResume(src) /\ image' = image /\ lv' = lv /\ thin' = thin
    BY <1>15 DEF FullStart, lvm
  <2>2. CASE initFullReplResume(src) > 0 /\ ~InVain(src)
    <3>1. /\ owner = src /\ ~thin /\ lv /\ fullReplSt.gid = base[src]
          /\ initFullReplResume(src) = fullReplSt.progress
      BY <2>2 DEF InVain, initFullReplResume, Resumes
    <3>2. lv /\ Prefix(image, src, base[src], initFullReplResume(src))
      BY <3>1, SourcesAreNamed
    <3> QED BY <2>1, <3>1, <3>2
  <2>3. CASE InVain(src)
    BY <2>1, <2>3
  <2>4. CASE ~(initFullReplResume(src) > 0)
    <3>1. initFullReplResume(src) \in Int /\ \A b \in Blocks : ~(b < initFullReplResume(src))
      BY <2>4, SizesAreSane DEF Blocks, initFullReplResume, Resumes
    <3> QED BY <2>1, <2>4, <3>1
  <2> QED BY <2>2, <2>3, <2>4
<1>16. ASSUME NEW src \in Sources, ResyncStart(src) PROVE CopyInv'
  <2>1. s'.pc = "hash" /\ s'.next = 0
    BY <1>16 DEF ResyncStart
  <2>2. \A b \in Blocks : ~(b < 0)
    BY SizesAreSane DEF Blocks
  <2> QED BY <2>1, <2>2
<1>17. ASSUME NEW src \in Sources, Apply(src) PROVE CopyInv'
  BY <1>17 DEF Apply, files, hist, lvm
<1>18. CASE Disconnect
  BY <1>18 DEF Disconnect, Abort, files, lvm, hist
<1>19. CASE Crash
  BY <1>19, RestartEffect, CrashEffect DEF Crash, files, hist
<1>20. CASE Begins
  BY <1>20, BeginEffect
<1>21. CASE Follow
  BY <1>21 DEF Follow, hist
<1>22. CASE ClearRemoveLv
  BY <1>22, Places DEF ClearRemoveLv, files, hist
<1>23. CASE ClearUnlink
  BY <1>23, Places DEF ClearUnlink, lvm
<1>24. CASE ClearRmdir
  BY <1>24, Places DEF ClearRmdir, lvm
<1>25. CASE MakeDir
  BY <1>25, Places DEF MakeDir, lvm, hist
<1>26. CASE setState
  BY <1>26, Places DEF setState, lvm, hist
<1>27. CASE CommandCommit
  BY <1>27, Places DEF CommandCommit, lvm, files, hist
<1>28. CASE CommandFails
  BY <1>28, Places DEF CommandFails, lvm, files
<1> QED
  BY <1>1, <1>2, <1>3, <1>4, <1>5, <1>6, <1>7, <1>8, <1>9, <1>10, <1>11, <1>12, <1>13, <1>14,
        <1>15, <1>16, <1>17, <1>18, <1>19, <1>20, <1>21, <1>22, <1>23, <1>24, <1>25, <1>26,
        <1>27, <1>28 DEF Next, Work, Begins

\* Only its own source writes over the blocks the saved progress stands for,
\* and at that snapshot it writes the same.
LEMMA ProgressStep == IInv /\ Next => ProgressInv'
<1> SUFFICES ASSUME IInv, Next PROVE ProgressInv'
  OBVIOUS
<1> USE DEF IInv, TypeInv, AttemptInv, CopyInv, ProgressInv, Attempts, Idle, Prefix
<1>1. CASE FullSetArchiveUuid
  BY <1>1 DEF FullSetArchiveUuid, hist, lvm
<1>2. CASE createLv
  BY <1>2 DEF createLv, files, hist
<1>3. CASE FullRecv
  <2> SUFFICES ASSUME owner # NoUuid PROVE ProgressInv'
    BY <1>3 DEF FullRecv, hist
  <2>1. owner = s.src /\ s.gid = base[owner]
    BY <1>3 DEF FullRecv
  <2>2. ~thin => \A b \in Blocks : image'[b] \in {image[b], Content(s.src, s.gid, b)}
    BY <1>3, FullRecvEffect
  <2> QED BY <1>3, <2>1, <2>2 DEF FullRecv, files, hist
<1>4. CASE FullRecvTooLong
  BY <1>4 DEF FullRecvTooLong, Abort, files, lvm, hist
<1>5. CASE FullSync
  BY <1>5 DEF FullSync, files, hist
<1>6. CASE FullSave
  BY <1>6 DEF FullSave, lvm
<1>7. CASE FullFlush
  BY <1>7 DEF FullFlush, files, hist
<1>8. CASE FullSetMetaState
  BY <1>8 DEF FullSetMetaState, hist, lvm
<1>9. CASE removeFullReplState
  BY <1>9 DEF removeFullReplState, lvm
<1>10. CASE Commit
  BY <1>10 DEF Commit, lvm
<1>11. CASE ResyncRecv
  <2> SUFFICES ASSUME owner # NoUuid PROVE ProgressInv'
    BY <1>11 DEF ResyncRecv, hist
  <2>1. owner = s.src /\ s.gid = base[owner]
    BY <1>11 DEF ResyncRecv
  <2>2. /\ \A b \in Blocks : image'[b] \in {image[b], Content(s.src, s.gid, b)}
        /\ stable' \in {stable, image'}
    BY <1>11, ResyncRecvEffect
  <2> QED BY SMTT(30), <1>11, <2>1, <2>2 DEF ResyncRecv, files, hist
<1>12. CASE ResyncFlush
  BY <1>12 DEF ResyncFlush, files, hist
<1>13. CASE ResyncSetMetaState
  BY <1>13 DEF ResyncSetMetaState, hist, lvm
<1>14. CASE ResyncSetArchiveUuid
  BY <1>14 DEF ResyncSetArchiveUuid, hist, lvm
<1>15. ASSUME NEW src \in Sources, FullStart(src) PROVE ProgressInv'
  BY <1>15 DEF FullStart, DO_FULL_SYNC, InVain, Overwrites, files, initFullReplResume, lvm,
               Resumes
<1>16. ASSUME NEW src \in Sources, ResyncStart(src) PROVE ProgressInv'
  BY <1>16 DEF ResyncStart, DO_RESYNC, Overwrites, lvm
<1>17. ASSUME NEW src \in Sources, Apply(src) PROVE ProgressInv'
  <2> SUFFICES ASSUME owner # NoUuid PROVE ProgressInv'
    BY <1>17 DEF Apply, hist
  <2>1. PICK g \in Gids[src] : g > base[src] /\ base' = [base EXCEPT ![src] = g]
    BY <1>17 DEF Apply
  <2>2. g \in Nat /\ owner \in Sources /\ base[owner] \in Nat /\ fullReplSt.gid \in Nat
    BY SizesAreSane DEF NoState
  <2>3. CASE owner = src
    BY <1>17, <2>1, <2>2, <2>3 DEF Apply, files, hist, lvm
  <2>4. CASE owner # src
    BY <1>17, <2>1, <2>2, <2>4 DEF Apply, files, hist, lvm
  <2> QED BY <2>3, <2>4
<1>18. CASE Disconnect
  BY <1>18 DEF Disconnect, Abort, files, lvm, hist
<1>19. CASE Crash
  BY <1>19, RestartEffect, CrashEffect DEF Crash, files, hist
<1>20. CASE Begins
  BY <1>20, BeginEffect
<1>21. CASE Follow
  <2> SUFFICES ASSUME owner # NoUuid PROVE ProgressInv'
    BY <1>21 DEF Follow, hist
  <2>1. owner = archiveUuid
    BY <1>21 DEF Follow, VolumeInv, Based
  <2>2. \A b \in Blocks : image'[b] \in {image[b], Content(owner, base[owner], b)}
    BY <1>21, <2>1 DEF Follow, Image
  <2> QED BY <1>21, <2>2 DEF Follow, hist
<1>22. CASE ClearRemoveLv
  BY <1>22, Places DEF ClearRemoveLv, files, hist
<1>23. CASE ClearUnlink
  BY <1>23, Places DEF ClearUnlink, lvm
<1>24. CASE ClearRmdir
  BY <1>24, Places DEF ClearRmdir, lvm
<1>25. CASE MakeDir
  BY <1>25, Places DEF MakeDir, lvm, hist
<1>26. CASE setState
  BY <1>26, Places DEF setState, lvm, hist
<1>27. CASE CommandCommit
  BY <1>27, Places DEF CommandCommit, lvm, files, hist
<1>28. CASE CommandFails
  BY <1>28, Places DEF CommandFails, lvm, files
<1> QED
  BY <1>1, <1>2, <1>3, <1>4, <1>5, <1>6, <1>7, <1>8, <1>9, <1>10, <1>11, <1>12, <1>13, <1>14,
        <1>15, <1>16, <1>17, <1>18, <1>19, <1>20, <1>21, <1>22, <1>23, <1>24, <1>25, <1>26,
        <1>27, <1>28 DEF Next, Work, Begins

\* The volume becomes Archived when the prefix is the whole device.
LEMMA ReplicaStep == IInv /\ Next => ReplicaExact'
<1> SUFFICES ASSUME IInv, Next PROVE ReplicaExact'
  OBVIOUS
<1> USE DEF IInv, TypeInv, AttemptInv, CommandInv, VolumeInv, CopyInv, ReplicaExact, Idle,
            Based, Moving, Ends,
           NoFile, NoDir
<1>1. CASE FullSetArchiveUuid
  BY <1>1 DEF FullSetArchiveUuid, hist, lvm
<1>2. CASE createLv
  BY <1>2 DEF createLv, files, hist
<1>3. CASE FullRecv
  BY <1>3 DEF FullRecv, Advance, files, hist
<1>4. CASE FullRecvTooLong
  BY <1>4 DEF FullRecvTooLong, Abort, files, lvm, hist
<1>5. CASE FullSync
  BY <1>5 DEF FullSync, files, hist
<1>6. CASE FullSave
  BY <1>6 DEF FullSave, lvm
<1>7. CASE FullFlush
  BY <1>7 DEF FullFlush, files, hist
<1>8. CASE FullSetMetaState
  BY <1>8 DEF FullSetMetaState, hist, lvm
<1>9. CASE removeFullReplState
  BY <1>9 DEF removeFullReplState, lvm
<1>10. CASE Commit
  BY <1>10 DEF Commit, lvm, Pcs
<1>11. CASE ResyncRecv
  BY <1>11 DEF ResyncRecv, files, hist
<1>12. CASE ResyncFlush
  BY <1>12 DEF ResyncFlush, files, hist
<1>13. CASE ResyncSetMetaState
  BY <1>13 DEF ResyncSetMetaState, hist, lvm
<1>14. CASE ResyncSetArchiveUuid
  BY <1>14 DEF ResyncSetArchiveUuid, hist, lvm
<1>15. ASSUME NEW src \in Sources, FullStart(src) PROVE ReplicaExact'
  BY <1>15 DEF FullStart, DO_FULL_SYNC, InVain, Overwrites, files, initFullReplResume, lvm,
               Resumes
<1>16. ASSUME NEW src \in Sources, ResyncStart(src) PROVE ReplicaExact'
  BY <1>16 DEF ResyncStart, DO_RESYNC, Overwrites, lvm
<1>17. ASSUME NEW src \in Sources, Apply(src) PROVE ReplicaExact'
  BY <1>17 DEF Apply, files, hist, lvm
<1>18. CASE Disconnect
  BY <1>18 DEF Disconnect, Abort, files, lvm, hist
<1>19. CASE Crash
  BY <1>19, RestartEffect, CrashEffect DEF Crash, files, hist
<1>20. CASE Begins
  BY <1>20, BeginEffect
<1>21. CASE Follow
  <2> SUFFICES ASSUME ~tainted, stFile \in Based PROVE ReplicaExact'
    BY <1>21 DEF Follow, hist
  <2>1. lv /\ image = Image(archiveUuid, metaSt)
    BY <1>21 DEF Follow
  <2>2. image' = Image(archiveUuid, base[archiveUuid])
    BY <1>21, <2>1 DEF Follow, Image
  <2> QED BY <1>21, <2>1, <2>2 DEF Follow, Image
<1>22. CASE ClearRemoveLv
  BY <1>22, Places DEF ClearRemoveLv, files, hist
<1>23. CASE ClearUnlink
  BY <1>23, Places DEF ClearUnlink, lvm
<1>24. CASE ClearRmdir
  BY <1>24, Places DEF ClearRmdir, lvm
<1>25. CASE MakeDir
  BY <1>25, Places DEF MakeDir, lvm, hist
<1>26. CASE setState
  BY <1>26, Places DEF setState, lvm, hist
<1>27. CASE CommandCommit
  BY <1>27, Places DEF CommandCommit, lvm, files, hist
<1>28. CASE CommandFails
  BY <1>28, Places DEF CommandFails, lvm, files
<1> QED
  BY <1>1, <1>2, <1>3, <1>4, <1>5, <1>6, <1>7, <1>8, <1>9, <1>10, <1>11, <1>12, <1>13, <1>14,
        <1>15, <1>16, <1>17, <1>18, <1>19, <1>20, <1>21, <1>22, <1>23, <1>24, <1>25, <1>26,
        <1>27, <1>28 DEF Next, Work, Begins

-----------------------------------------------------------------------------
(* The theorems. *)

\* The volume right after init-vol.
LEMMA InitInv == Init => IInv
<1> SUFFICES ASSUME Init PROVE IInv
  OBVIOUS
<1>1. \A src \in Sources : base[src] \in Gids[src] /\ base[src] \in Nat
  BY SizesAreSane, MinOfSet DEF Init
<1>2. base \in [Sources -> Nat]
  BY <1>1 DEF Init
<1>3. TypeInv
  BY <1>1, <1>2, Values DEF Init, TypeInv, NoCmd, Commands, Ends, States, Files
<1>4. AttemptInv /\ CommandInv /\ VolumeInv /\ CopyInv /\ ProgressInv /\ ReplicaExact
  BY SourcesAreNamed DEF Init, Idle, NoCmd, Moving, Based, NoDir, AttemptInv, CommandInv,
                         VolumeInv,
                         CopyInv, ProgressInv, ReplicaExact
<1> QED BY <1>3, <1>4 DEF IInv

\* The invariant is inductive.
LEMMA StepInv == IInv /\ [Next]_vars => IInv'
<1>1. IInv /\ Next => IInv'
  BY TypeStep, AttemptStep, CommandStep, VolumeStep, CopyStep, ProgressStep, ReplicaStep DEF IInv
<1>2. IInv /\ UNCHANGED vars => IInv'
  BY DEF IInv, vars, lvm, files, hist, TypeInv, AttemptInv, CommandInv, VolumeInv, CopyInv,
         ProgressInv, ReplicaExact, Prefix, Image
<1> QED BY <1>1, <1>2

\* IInv holds in every reachable state.
LEMMA Invariance == Spec => []IInv
BY InitInv, StepInv, PTL DEF Spec

\* The variables keep their types; the cursor of an attempt stays on the device.
THEOREM TypeCorrect == Spec => []TypeOK
<1>1. IInv => TypeOK
  BY DEF IInv, TypeInv, TypeOK, Attempts, Commands, Pcs, States, Moving, Files
<1> QED BY <1>1, Invariance, PTL

\* Whatever connections were lost and machines failed on the way, the replica
\* that runFullReplServer or runResyncReplServer declares Archived is the base
\* image of its source, on the medium as well, until reset-vol or clear-vol
\* removes it; a resumption in vain and a clearing that failed excepted.
THEOREM ReplicaCorrect == Spec => []ReplicaExact
<1>1. IInv => ReplicaExact
  BY DEF IInv
<1> QED BY <1>1, Invariance, PTL

=============================================================================
