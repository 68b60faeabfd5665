---------------------------- MODULE WlogTransfer ----------------------------
(***************************************************************************)
(* Wlog transfer of one volume of the storage daemon.                      *)
(*                                                                         *)
(* The walb device (external: a kernel driver) appends logpacks to a log   *)
(* addressed by lsids.  StorageVolInfo keeps two files beside it: "done",  *)
(* the lsid/gid pair up to which the log has been handed to a proxy, and   *)
(* "queue", the snapshots taken since then.  A StorageWorker runs          *)
(* extractAndSendAndDeleteWlog, which sends the part of the log between    *)
(* the done record and a snapshot record as one diff, waits for the        *)
(* proxy's ack, moves the done record and erases the log behind it.        *)
(* Snapshots are taken concurrently; the daemon may crash anywhere.        *)
(*                                                                         *)
(* Abstractions:                                                           *)
(*  - of the log, only its length and the boundaries of its logpacks;      *)
(*  - timestamps are dropped, "the implicit snapshot interval has passed"  *)
(*    is a free choice;                                                    *)
(*  - the queue is a sequence whose first element is the queue file's back *)
(*    (oldest record) and whose last one is its front (newest);            *)
(*  - a queue file is flocked as long as it is open, so prepare and        *)
(*    takeSnapshot are single steps; finishWlogTransfer is two, because a  *)
(*    crash may separate its two writes;                                   *)
(*  - at most one transfer runs at a time and the log is not reset under   *)
(*    it: module StorageServer examines what enforces that.                *)
(***************************************************************************)
EXTENDS Integers, Sequences, FiniteSets

CONSTANTS
    PackSizes,        \* sizes of a logpack [physical block], its header included
    MaxWlogSendPbs,   \* values of maxWlogSendMb, in physical blocks, a daemon is started with
    LogCapacityPb,    \* size of the log device's ring buffer
    Gid0,             \* gid given to resetWlog
    MaxLsid,          \* bound: the log does not grow past it
    MaxNrSnaps,       \* bound: number of explicit snapshots
    MaxNrCrashes      \* bound: number of crashes of the daemon

ASSUME PackSizesAssumption      == PackSizes \subseteq Nat \ {0}
ASSUME MaxWlogSendPbsAssumption == MaxWlogSendPbs # {} /\ MaxWlogSendPbs \subseteq Nat \ {0}
ASSUME LogCapacityAssumption    == LogCapacityPb \in Nat
ASSUME Gid0Assumption           == Gid0 \in Nat
ASSUME BoundsAssumption         == {MaxLsid, MaxNrSnaps, MaxNrCrashes} \subseteq Nat

VARIABLES
    latest,       \* device: lsid of the next logpack
    permanent,    \* device: the log below it is durable
    prevWritten,  \* device: the log below it is not needed for redo
    oldest,       \* device: the log below it is erased
    packs,        \* device: the lsids at which logpacks start, and latest
    overflow,     \* device: the ring buffer has been overwritten
    done,         \* file "done"
    queue,        \* file "queue", oldest record first
    maxPb,        \* maxWlogSendMb of the running daemon, in physical blocks
    pc,           \* where extractAndSendAndDeleteWlog is
    rec0, rec1,   \* its local records: begin and end of the transfer
    lsidLimit,    \* its local: do not send logpacks that end after it
    lsidE,        \* its local: where the sent logpacks end
    delivered,    \* history: the diffs a proxy has stored
    snaps,        \* history: the explicit snapshots
    nrCrashes     \* history: number of crashes

dev   == <<latest, permanent, prevWritten, oldest, packs, overflow>>
files == <<done, queue>>
local == <<rec0, rec1, lsidLimit, lsidE>>
hist  == <<delivered, snaps, nrCrashes>>
vars  == <<dev, files, maxPb, pc, local, hist>>

MetaLsidGid == [lsid : Nat, gid : Nat, isMergeable : BOOLEAN]

Diff == [lsidB : Nat, gidB : Nat, lsidE : Nat, gidE : Nat, isMergeable : BOOLEAN]

Pcs == {"idle", "required", "prepare", "send", "ack", "trim", "gc"}

TypeOK ==
    /\ latest \in Nat /\ permanent \in Nat /\ prevWritten \in Nat /\ oldest \in Nat
    /\ packs \subseteq Nat
    /\ overflow \in BOOLEAN
    /\ done \in MetaLsidGid
    /\ queue \in Seq(MetaLsidGid)
    /\ maxPb \in MaxWlogSendPbs
    /\ pc \in Pcs
    /\ rec0 \in MetaLsidGid /\ rec1 \in MetaLsidGid
    /\ lsidLimit \in Nat /\ lsidE \in Nat
    /\ delivered \subseteq Diff
    /\ snaps \subseteq MetaLsidGid
    /\ nrCrashes \in Nat

-----------------------------------------------------------------------------
(* The walb device. *)

\* A logpack is appended.  Past the capacity of the ring buffer it overwrites
\* the oldest logpacks, which the device reports as overflow.
WriteLogpack ==
    /\ \E size \in PackSizes :
        /\ latest + size <= MaxLsid
        /\ latest' = latest + size
        /\ packs' = packs \cup {latest + size}
        /\ overflow' = (overflow \/ latest + size - oldest > LogCapacityPb)
    /\ UNCHANGED <<permanent, prevWritten, oldest, files, maxPb, pc, local, hist>>

\* Logpacks become durable.
MakePermanent ==
    /\ \E b \in packs : b > permanent /\ permanent' = b
    /\ UNCHANGED <<latest, prevWritten, oldest, packs, overflow, files, maxPb, pc, local, hist>>

\* Data blocks of durable logpacks have been written and the checkpoint moves.
Checkpoint ==
    /\ \E b \in packs : b > prevWritten /\ b <= permanent /\ prevWritten' = b
    /\ UNCHANGED <<latest, permanent, oldest, packs, overflow, files, maxPb, pc, local, hist>>

-----------------------------------------------------------------------------
(* Operations on the done record and the queue. *)

IsOld(rec, recB) ==
    \/ rec.lsid < recB.lsid
    \/ rec.lsid = recB.lsid /\ rec.gid <= recB.gid

\* Index of the oldest record that is kept; Len(q) + 1 when none is.
FirstKept(q, recB) ==
    CHOOSE k \in 1 .. Len(q) + 1 :
        /\ \A i \in 1 .. k - 1 : IsOld(q[i], recB)
        /\ k <= Len(q) => ~IsOld(q[k], recB)

removeOldRecords(q, recB) == SubSeq(q, FirstKept(q, recB), Len(q))

\* The record a new snapshot follows.
LatestSnap(q, recB) == IF q = <<>> THEN recB ELSE q[Len(q)]

\* The record takeSnapshotDetail pushes: one gid per maxWlogSendPb of log, so
\* that a transfer may be cut into pieces that each get a gid of their own.
SnapshotRecord(pre, max, isMergeable, lsid) ==
    [lsid |-> lsid, gid |-> pre.gid + 1 + (lsid - pre.lsid) \div max,
     isMergeable |-> isMergeable]

canTakeSnapshot(q, recB, lsid) == ~overflow /\ LatestSnap(q, recB).lsid <= lsid

takeSnapshotDetail(q, recB, max, isMergeable, lsid) ==
    Append(q, SnapshotRecord(LatestSnap(q, recB), max, isMergeable, lsid))

\* Mutant of CanExtendTo: the isMergeable flag is not consulted.
CanExtendOverAny(q, recB, k, max, perm) ==
    \A j \in 2 .. k : q[j].lsid <= recB.lsid + max /\ q[j].lsid <= perm

\* The transfer may be extended over record k of the queue: every record
\* before it is mergeable and it ends within the limits.
CanExtendTo(q, recB, k, max, perm) ==
    \A j \in 2 .. k : /\ q[j-1].isMergeable
                      /\ q[j].lsid <= recB.lsid + max
                      /\ q[j].lsid <= perm

\* Index in the queue of the record at which the transfer ends (nr of the code).
EndIndex(q, recB, max, perm) ==
    CHOOSE k \in 1 .. Len(q) :
        /\ CanExtendTo(q, recB, k, max, perm)
        /\ k < Len(q) => ~CanExtendTo(q, recB, k + 1, max, perm)

\* Mutant of EndLsid: the limit also cuts a transfer that has one gid left.
EndLsidAlwaysLimited(recB, recE, nr, max) ==
    IF recB.lsid + max < recE.lsid THEN recB.lsid + max ELSE recE.lsid

EndLsid(recB, recE, nr, max) ==
    IF nr = 1 /\ recE.gid = recB.gid + 1
    THEN recE.lsid
    ELSE IF recB.lsid + max < recE.lsid THEN recB.lsid + max ELSE recE.lsid

-----------------------------------------------------------------------------
(* c2sSnapshotServer, and the snapshot that ends a full or hash sync.  The    *)
(* queue file is locked while finishWlogTransfer holds it ("trim").           *)
takeSnapshot ==
    /\ pc # "trim"
    /\ Cardinality(snaps) < MaxNrSnaps
    /\ canTakeSnapshot(queue, done, latest)
    /\ LET rec == SnapshotRecord(LatestSnap(queue, done), maxPb, FALSE, latest)
       IN  /\ queue' = Append(queue, rec)
           /\ snaps' = snaps \cup {rec}
    /\ UNCHANGED <<dev, done, maxPb, pc, local, delivered, nrCrashes>>

-----------------------------------------------------------------------------
(* extractAndSendAndDeleteWlog, step by step. *)

ResetRecord == [lsid |-> 0, gid |-> Gid0, isMergeable |-> FALSE]

\* The locals are dead when no transfer is under way.
ForgetLocals ==
    rec0' = ResetRecord /\ rec1' = ResetRecord /\ lsidLimit' = 0 /\ lsidE' = 0

\* Mutant of EraseTarget: as in deleteAllWlogs, the done record is ignored.
EraseTargetIgnoringDone == prevWritten

EraseTarget == IF done.lsid < prevWritten THEN done.lsid ELSE prevWritten

deleteGarbageWlogs ==
    /\ oldest' = IF oldest < EraseTarget THEN EraseTarget ELSE oldest
    /\ UNCHANGED <<latest, permanent, prevWritten, packs, overflow>>

\* A StorageWorker starts; it does not when the log has overflowed.
BeginTransfer ==
    /\ pc = "idle"
    /\ ~overflow
    /\ deleteGarbageWlogs
    /\ pc' = "required"
    /\ UNCHANGED <<files, maxPb, local, hist>>

\* Mutant of mayWlogTransferBeRequiredNow: only the lsids are compared.
RequiredByLsidOnly ==
    /\ pc = "required"
    /\ pc' = IF done.lsid < permanent THEN "prepare" ELSE "idle"
    /\ UNCHANGED <<dev, files, maxPb, local, hist>>

mayWlogTransferBeRequiredNow ==
    /\ pc = "required"
    /\ pc' = IF done.lsid < permanent \/ queue # <<>> THEN "prepare" ELSE "idle"
    /\ UNCHANGED <<dev, files, maxPb, local, hist>>

\* An implicit snapshot is taken when the queue is empty, or when the log has
\* grown since the latest snapshot and the interval (a free choice) has passed.
prepareWlogTransfer ==
    /\ pc = "prepare"
    /\ LET q0 == removeOldRecords(queue, done)
           mayTakeImplicit == q0 = <<>> \/ q0[Len(q0)].lsid < latest
       IN  \E takesImplicit \in {mayTakeImplicit, q0 = <<>>} :
           IF takesImplicit /\ ~canTakeSnapshot(q0, done, latest)
           THEN /\ queue' = q0          \* takeSnapshotDetail throws
                /\ pc' = "idle"
                /\ UNCHANGED local
           ELSE LET q1 == IF takesImplicit
                          THEN takeSnapshotDetail(q0, done, maxPb, TRUE, latest)
                          ELSE q0
                    nr == EndIndex(q1, done, maxPb, permanent)
                    lim == EndLsid(done, q1[nr], nr, maxPb)
                IN  /\ queue' = q1
                    /\ IF permanent < lim \/ q1[nr].lsid < done.lsid
                       THEN /\ pc' = "idle"      \* doLater, or getEndSnapshot throws
                            /\ UNCHANGED local
                       ELSE /\ pc' = "send"
                            /\ rec0' = done
                            /\ rec1' = q1[nr]
                            /\ lsidLimit' = lim
                            /\ UNCHANGED lsidE
    /\ UNCHANGED <<dev, done, maxPb, hist>>

\* The loop over logpacks stops at the last logpack that ends within the limit.
SentEnd(lsidB, limit) ==
    CHOOSE b \in packs : /\ lsidB <= b /\ b <= limit
                         /\ \A c \in packs : c <= limit => c <= b

\* verifyMaxWlogSendPbIsNotTooSmall for every logpack whose header is read.
NoPackTooLarge(lsidB, limit) ==
    \A b \in packs : lsidB <= b /\ b < limit => \E c \in packs : b < c /\ c <= b + maxPb

\* Mutant of getTransferDiff: a partial transfer is labelled with the gid of the
\* snapshot it was heading for.
TransferDiffToEndRecord(recB, recE, lsid) ==
    [lsidB |-> recB.lsid, gidB |-> recB.gid, lsidE |-> lsid, gidE |-> recE.gid,
     isMergeable |-> recB.isMergeable]

getTransferDiff(recB, recE, lsid) ==
    [lsidB |-> recB.lsid, gidB |-> recB.gid, lsidE |-> lsid,
     gidE |-> IF lsid = recE.lsid THEN recE.gid ELSE recB.gid + 1,
     isMergeable |-> recB.isMergeable]

\* All the logpacks and then the diff are sent and the proxy stores them.
SendWlog ==
    /\ pc = "send"
    /\ NoPackTooLarge(rec0.lsid, lsidLimit)
    /\ lsidE' = SentEnd(rec0.lsid, lsidLimit)
    /\ delivered' = delivered \cup {getTransferDiff(rec0, rec1, lsidE')}
    /\ pc' = "ack"
    /\ UNCHANGED <<dev, files, maxPb, rec0, rec1, lsidLimit, snaps, nrCrashes>>

\* No proxy is available, an I/O or a network error, a force stop, a lost ack:
\* the exception makes StorageWorker push the task again.
TransferFails ==
    /\ pc \in {"send", "ack"}
    /\ pc' = "idle" /\ ForgetLocals
    /\ UNCHANGED <<dev, files, maxPb, hist>>

\* Mutant of DoneRecord: a partial transfer is recorded as a complete one.
DoneRecordAlwaysEnd(recB, recE, lsid) == recE

\* The new done record.
DoneRecord(recB, recE, lsid) ==
    IF lsid = recE.lsid
    THEN recE
    ELSE [lsid |-> lsid, gid |-> recB.gid + 1, isMergeable |-> TRUE]

\* The ack arrives, and finishWlogTransfer up to its setDoneRecord.  The two equality checks before
\* it only construct an exception, they never throw it.
finishWlogTransfer ==
    /\ pc = "ack"
    /\ IF queue = <<>>
       THEN pc' = "idle" /\ ForgetLocals /\ UNCHANGED done
       ELSE pc' = "trim" /\ done' = DoneRecord(rec0, rec1, lsidE) /\ UNCHANGED local
    /\ UNCHANGED <<dev, queue, maxPb, hist>>

\* finishWlogTransfer from there on.
trimQueue ==
    /\ pc = "trim"
    /\ queue' = removeOldRecords(queue, DoneRecord(rec0, rec1, lsidE))
    /\ pc' = "gc" /\ ForgetLocals
    /\ UNCHANGED <<dev, done, maxPb, hist>>

EndTransfer ==
    /\ pc = "gc"
    /\ deleteGarbageWlogs
    /\ pc' = "idle"
    /\ UNCHANGED <<files, maxPb, local, hist>>

\* The daemon dies and is started again, maybe with another maxWlogSendMb.
CrashAndRestart ==
    /\ nrCrashes < MaxNrCrashes
    /\ nrCrashes' = nrCrashes + 1
    /\ pc' = "idle" /\ ForgetLocals
    /\ maxPb' \in MaxWlogSendPbs
    /\ UNCHANGED <<dev, files, delivered, snaps>>

-----------------------------------------------------------------------------
\* The state resetWlog leaves behind.
Init ==
    /\ latest = 0 /\ permanent = 0 /\ prevWritten = 0 /\ oldest = 0
    /\ packs = {0} /\ overflow = FALSE
    /\ done = ResetRecord /\ queue = <<>>
    /\ maxPb \in MaxWlogSendPbs
    /\ pc = "idle"
    /\ rec0 = ResetRecord /\ rec1 = ResetRecord /\ lsidLimit = 0 /\ lsidE = 0
    /\ delivered = {} /\ snaps = {} /\ nrCrashes = 0

Worker ==
    \/ BeginTransfer \/ mayWlogTransferBeRequiredNow \/ prepareWlogTransfer
    \/ SendWlog \/ TransferFails
    \/ finishWlogTransfer \/ trimQueue \/ EndTransfer

Device == WriteLogpack \/ MakePermanent \/ Checkpoint

Next == Worker \/ Device \/ takeSnapshot \/ CrashAndRestart

\* The worker's task is pushed again as long as it is not done (StorageWorker),
\* the device makes every logpack durable and writes its data, and a proxy that
\* is tried again and again answers some time.
Fairness ==
    /\ WF_vars(BeginTransfer) /\ WF_vars(mayWlogTransferBeRequiredNow)
    /\ WF_vars(prepareWlogTransfer) /\ SF_vars(SendWlog) /\ SF_vars(finishWlogTransfer)
    /\ WF_vars(trimQueue) /\ WF_vars(EndTransfer)
    /\ WF_vars(MakePermanent) /\ WF_vars(Checkpoint)

Spec == Init /\ [][Next]_vars

FairSpec == Spec /\ Fairness

-----------------------------------------------------------------------------
(* Properties. *)

\* The snapshots in the queue are ordered by gid and by lsid, and the done
\* record lies between those a transfer has passed (left there by a crash
\* between the two writes of finishWlogTransfer) and those still to come.
SnapshotOrder ==
    /\ \A i, j \in 1 .. Len(queue) : i < j =>
            queue[i].gid < queue[j].gid /\ queue[i].lsid <= queue[j].lsid
    /\ \A i \in 1 .. Len(queue) :
            IF queue[i].gid <= done.gid THEN queue[i].lsid <= done.lsid
                                        ELSE queue[i].lsid >= done.lsid

\* What getEndSnapshot, getTransferDiff and finishWlogTransfer assert: the end
\* record lies after the begin record, a transfer that stops before the end
\* record has a gid left for the place where it stops, and finishWlogTransfer
\* never meets an empty queue ("Maybe BUG").
AssertsHold ==
    /\ pc = "send" => rec0.gid < rec1.gid /\ rec0.lsid <= rec1.lsid
    /\ pc = "ack" =>
            /\ rec0.lsid <= lsidE /\ lsidE <= rec1.lsid
            /\ lsidE # rec1.lsid => rec0.gid + 1 < rec1.gid
            /\ queue # <<>>

\* deleteGarbageWlogs never erases a logpack before a proxy has acknowledged
\* it, nor under the reader of a running transfer.
WlogKept ==
    /\ oldest <= done.lsid
    /\ pc = "send" => oldest <= rec0.lsid

\* An explicit snapshot is never lost inside a diff: whatever is delivered,
\* retried or cut by maxWlogSendPb ends at or before it or begins at or after
\* it, by gid and by lsid alike.
SnapshotsExact ==
    \A d \in delivered, s \in snaps :
        \/ d.gidE <= s.gid /\ d.lsidE <= s.lsid
        \/ d.gidB >= s.gid /\ d.lsidB >= s.lsid

Points == {[gid |-> d.gidB, lsid |-> d.lsidB] : d \in delivered}
     \cup {[gid |-> d.gidE, lsid |-> d.lsidE] : d \in delivered}
     \cup {[gid |-> s.gid, lsid |-> s.lsid] : s \in snaps}

\* A gid names one place of the log: two diffs delivered at different times,
\* by a first attempt and by its retry, never disagree on where a gid is.
\* It takes a daemon that keeps its maxWlogSendMb over restarts.
GidsIdentifyLsids ==
    nrCrashes = 0 \/ (\A m, n \in MaxWlogSendPbs : m = n) => \A p, r \in Points :
        /\ p.gid = r.gid => p.lsid = r.lsid
        /\ p.gid < r.gid => p.lsid <= r.lsid

\* The done record moves only forwards, and only along a diff that a proxy has
\* stored and that begins where the done record was.
DoneFollowsDelivery ==
    [][done' # done =>
          /\ done.gid < done'.gid /\ done.lsid <= done'.lsid
          /\ \E d \in delivered : /\ d.gidB = done.gid  /\ d.lsidB = done.lsid
                                  /\ d.gidE = done'.gid /\ d.lsidE = done'.lsid]_vars

\* In the end every snapshot is transferred and, once the device stops growing,
\* all of its log is transferred and erased, unless the log overflows first.
EverythingTransferred ==
    []<>(overflow \/ (/\ \A s \in snaps : s.gid <= done.gid
                      /\ oldest = latest))

-----------------------------------------------------------------------------
(* The transfer as a relay of the log to the proxies. *)

RelayOfWlog == INSTANCE Relay WITH
    end    <- latest,
    pieces <- {[b |-> d.lsidB, e |-> d.lsidE] : d \in delivered},
    low    <- oldest,
    broken <- overflow

\* Records, retries, limits, snapshots and crashes are details: seen from outside
\* the daemon stores the log at the proxies without a gap, and forgets only what
\* it has stored.
ImplementsRelay == RelayOfWlog!Spec

\* What deleteGarbageWlogs has erased of the log is in the diffs the proxies have
\* stored, block by block.
ErasedIsDelivered ==
    \A lsid \in 0 .. oldest - 1 : \E d \in delivered : d.lsidB <= lsid /\ lsid < d.lsidE

=============================================================================
