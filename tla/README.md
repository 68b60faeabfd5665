# walb-tools: a TLA+ verification project

walb-tools backs up block devices that run under the walb kernel driver.  The
driver writes every update of a volume to a log.  Three kinds of daemons move
that log into archives:

    walb device --log--> storage daemon --wlog--> proxy daemon --wdiff--> archive daemon(s)
                              ^                        ^                        ^
                              +------ walb-tools / walbc commands (controller) -+

* the **storage daemon** (`src/src/storage.*`) reads the log of a volume and
  sends pieces of it ("wlogs"), labelled with global ids (gids), to a proxy;
* the **proxy daemon** (`src/src/proxy.*`) converts wlogs to diffs ("wdiffs"),
  keeps them until every registered archive has them, merges adjacent ones and
  sends them;
* the **archive daemon** (`src/src/archive.*`) stores diffs beside a base image
  (an LVM volume), applies them to the base, merges them, restores snapshots
  from them and replicates to other archives.

This directory holds TLA+ modules of that system, TLC configurations that
check them on small instances, and TLAPS proofs for every value of the
constants.

## Inventory

| component | state | operations | interaction |
|---|---|---|---|
| wlog transfer (`storage_vol_info.*`, `storage.cpp` 812-923) | the files `done` (lsid/gid transferred so far) and `queue` (snapshots since then), the lsids of the device | takeSnapshot, prepareWlogTransfer, sending, finishWlogTransfer, deleteGarbageWlogs, resetWlog | reads and erases the device's log; sends a diff to a proxy and waits for its ack |
| storage daemon (`storage.*`, `state_machine.hpp`, `action_counter.hpp`, `server_util.hpp`, `task_queue.hpp`) | per volume: state machine, stop state, action counters, state file; global: task queue, log device monitor, proxy list | init-vol, clear-vol, start, stop, reset-vol, full-bkp, hash-bkp, snapshot, kick, resize; worker threads | handler threads, dispatcher, workers and monitor share the volume state under a mutex |
| proxy daemon (`proxy.*`, `proxy_vol_info.*`, `wdiff_data.*`) | received and per-archive send directories of diffs, conversion memory, archive list, state machine, action counters | wlog reception, conversion, merge and send per archive, start, stop, archive-info, clear-vol | acks a wlog once the diff is stored; one sending task per archive |
| archive daemon (`archive.*`, `archive_vol_info.*`, `wdiff_data.*`) | base image with its meta state (a snapshot, or the two ends of an interrupted apply), the diffs, cold and restored snapshots, uuid, state machine, action counters | reception of full and hash syncs and of diffs; apply, merge, restore, replicate, resize, change-snapshot, gc, start, stop, reset-vol, clear-vol | actions of one volume exclude each other by deny lists |
| meta data algebra (`meta.*`) | the set of diffs of a volume, indexed by gid ranges | canApply, apply, canMerge, merge, applicable and mergeable lists, gc | used by proxy and archive |
| wdiff files (`walb_diff_*`, `wdiff_transfer.*`) | sorted block records | merge of several diffs, conversion of wlogs | used by proxy and archive |
| full and hash sync (`dirty_*_sync.*`) | none | block-wise copy between two images | storage to archive, archive to archive |
| controller, protocol, packets, host information, LVM and block device utilities, compression | none of their own | | |

What is hard here:

* **concurrency**: handler threads, workers, the monitor and timers act on one
  volume; locks are dropped before long operations, which are protected by
  state machines and action counters instead;
* **crashes**: several small files and a device have to be changed together and
  cannot be; every order has to leave something a restart can go on from;
* **lost acks**: the sender does not know what the receiver has stored and
  sends again, possibly something else that overlaps it;
* **labels**: a diff carries no data about the image it belongs to other than
  gids; that gids name the right images rests on how they are given out, split
  and merged;
* **asserts**: the release build defines `NDEBUG` (`src/Makefile`), so what the
  code asserts is not checked when it runs.

`PROJECT.json` lists the hazards line by line with the properties aimed at them.

## Modules

| module | models |
|---|---|
| `WlogTransfer` | `StorageVolInfo` and `extractAndSendAndDeleteWlog` of one volume |
| `WlogTransferProofs` | the theorems about it, and about the relay it implements |
| `Relay` | what the transfer of a log promises, abstractly; `WlogTransfer` implements it |
| `StorageServer`, `StorageServerProofs` | the life cycle of a volume in the storage daemon, and the theorems about it |
| `Meta` | the snapshots and diffs of `meta.hpp`: canApply, apply, canMerge, merge, contains, and the blocks a diff carries |
| `DiffChain` | what reception, hash backup, hash replication, merge, apply and restore do to the diffs and images of one archived volume |
| `DiffChainProofs` | the theorems about it |
| `DiffManager` | the queries of `MetaDiffManager` (`meta.cpp`): which diffs lead where |
| `GidRangeManager`, `GidRangeManagerProofs` | the index of gid ranges behind these queries, and that it is exact |
| `ArchiveVol`, `ArchiveVolProofs` | apply, merge, restore, reception, garbage collection and change-snapshot of one archived volume, step by step and concurrently; the theorems about it |
| `ColdSnapshot`, `ColdSnapshotProofs` | cold snapshots in a thin pool: restore makes them, apply turns one into the base image; the theorems about it |
| `FullRepl`, `FullReplProofs` | full replication and resync of a base image between archives, and the theorems about it |
| `ProxyVol`, `ProxyVolProofs` | one volume of the proxy daemon, and the theorems about it |
| `MC...` | the instances TLC checks, one per specification |

`Meta` is the common ground: `DiffChain`, `DiffManager` and `GidRangeManager` extend
it, `ArchiveVol` and `ProxyVol` extend `DiffManager`.  `DiffChain` is the archive
with every operation as one step; `ArchiveVol`, `ColdSnapshot` and `FullRepl` are
parts of it with the steps in between.

### WlogTransfer

The device is external; it is what the code in `src/` sees of it: four lsids
(`latest`, `permanent`, `prevWritten`, `oldest`), the boundaries of the
logpacks and the overflow flag.  `done` and `queue` are the two files of
`StorageVolInfo`.  The sequence `queue` has the oldest record first; the code
pushes at the front of its queue file and takes from its back.  `maxPb` is the
running daemon's `maxWlogSendMb`.

`extractAndSendAndDeleteWlog` is cut where another thread or a crash can get in
between: `BeginTransfer` (the first erasure of the log),
`mayWlogTransferBeRequiredNow`, `prepareWlogTransfer` (removes old records,
maybe takes an implicit snapshot, chooses the end), `SendWlog`,
`finishWlogTransfer` (writes the done record), `trimQueue` (the rest of
finishWlogTransfer) and `EndTransfer` (the second erasure).  `TransferFails` is
every exception in the middle, the loss of an ack included: the proxy has then
stored a diff the storage daemon does not know of.  `takeSnapshot` may come at
any time the queue file is not locked.  `CrashAndRestart` forgets the locals and
may change `maxPb`.

`getEndSnapshot` and `removeOldRecords` are loops over the queue in the code;
here they choose the index at which the loop stops.

`Relay` is the same from outside: a log grows, pieces of it are stored
elsewhere without a gap, and the log is forgotten only up to the end of a
stored piece.  `ImplementsRelay` maps the end of the log to `latest`, the pieces
to the diffs delivered and what is forgotten to `oldest`.

Bounds: `MaxLsid` ends the growth of the log, `MaxNrSnaps` and `MaxNrCrashes`
count explicit snapshots and crashes.  With logpacks of 2 blocks, limits of 2
and 5 and 6 blocks of log, transfers are cut, extended over several records and
delayed, the ring buffer overflows, snapshots fall on one lsid and a restart
changes the limit.  The instance is small because liveness is checked in it;
its safety properties are proved for every instance.

### StorageServer

One volume of the daemon.  A section under the volume's mutex is one action; what happens
outside it (the backup, the transfer, the monitor's callback, the end of a stop) is cut at
every point where the shared state is read or written: a stop ends the monitoring, writes
the state file, moves the state machine and resets the stop state in four actions, in a
stop command (`c2sStopMonitoring` to `c2sStopLeave`) and in a worker that finds the log
overflowed (`WorkerOverflow` to `WorkerOverflowCommit`, which has no stop state to reset).
The wlog transfer is reduced to the incarnation of the log it works on: every `resetWlog`
starts a new epoch, and `wal`, `done`, `queue` say which epoch the device, the done record
and the queue file belong to.  A full and a hash backup differ only in the states they
pass through: `Sync` stands for both.

Handler threads: one backup, several stop commands (`Stoppers`), the short
commands as single actions.  Background: the monitor (`wdevMonitorWorker`), the
dispatcher (`DispatchPop`, `DispatchRun`) and `Workers`.  `pushers` are threads
that have looked the volume up and will push its task later, when it may no
longer be wanted.  `orphaned` is history: a task was dropped for a stop command
that then timed out (a hazard of its own: nobody pushes it again).

### Meta and DiffChain

A snapshot is a pair of gids: `|g|` when clean, `|gidB,gidE|` when the image was
copied while the volume went from gidB to gidE.  A diff goes from one snapshot
to another, and whether it may be applied or merged is decided by comparing gids
only (`meta.hpp`).  `DiffChain` asks whether that is enough.  It keeps, as history,
what the code cannot know: `truth` is the content of the volume at every gid and
`written` the blocks written between a gid and the one before it.  `line` records
every snapshot the archive has passed with the image it stood for.  The data of a
diff is a function from the blocks it holds to their content; applying it is an
overlay and merging two is an overlay of the later on the earlier.

The actions are the operations of the archive: `ReceiveDiff`
(`p2aWdiffTransferServer`; the diff may start anywhere below the latest snapshot, as
retries and merges on the proxy make it do, and may be followed by the garbage
collection of `runDiffReplServer`), `HashBackup` (`backupServer`; the log of the
storage starts anew), `HashReplication`, `MergeDiffs`
(some of the merged diffs may stay behind after a crash) and `ApplyDiff`.
`ReadBase` and `ReadDiff` are any reader of images: restore, virtual full scan,
replication to another archive.  A reader takes any applicable diff where the
code takes the one that ends last, so what holds here holds for that choice too.

Operations are single steps here; what a crash or another action does in the
middle of one is the subject of `ArchiveVol`.  Dirty diffs received by diff
replication and cold snapshots are left out.  Explicit snapshots are not taken
while a backup synchronises (`sAcceptForSnapshot`).

Bounds: one block is enough to check labels against data, since overlays work
block by block and no label depends on a block; two values tell a right content
from a wrong one; with gids up to 3 a retry can overlap what was received, a
merge can overlap both, and a hash backup or replication can follow.
The storage stops at `MaxGid`, so deadlock is not checked.  The proofs
need none of these bounds.

### DiffManager and GidRangeManager

The list queries of `MetaDiffManager` walk greedily: of the diffs applicable next
they take the one that ends last.  They are recursive functions over the set of
diffs; the minimum list for an interrupted apply, the mergeable list and gc are
built on them as in `meta.cpp`.  `GidRangeManager` has the index itself: the gids
are cut into ranges, each with the diffs that cover it; add, erase and clear are
its actions and a search must find exactly what a scan of the diffs would.  All
sets of diffs over the gids 0 to 4, a dirty one included, are reached.

### ArchiveVol

Apply, merge, restore and reception are procedures of several steps, cut where
the code touches the label of the base image, the blocks, the manager of diffs or
a file; blocks reach the disk in any order.  They run concurrently as the deny
lists of `archive_constant.hpp` allow.  A stop cuts a procedure off between two
steps; `Restart` forgets the memory and reads the files again.  The content of a
block is the gid at which it was written last, so `Truth(gid)` is known and every
image can be compared with it.  The same part of the log may arrive again, alone
or as part of a longer diff.

Two history variables mark what the code gets wrong, so that the invariants can
say that nothing else goes wrong: `overtaken` (an interrupted apply that the next
one does not finish) and `spoilt` of a restored volume (apply changed the label
between the restore's reading it and its LVM snapshot, or the former).  A third, `kept`, names
the snapshots that must stay restorable: those of the storage, and those asked for at the
archive as long as no diff leads over them.  A proxy knows nothing of the latter: it may send
a longer diff over such a gid, or a mergeable one from it, and `RecvSave` takes the gid out.

Bounds: two blocks, gids up to 3, one crash, one restored volume at a time, at
most two diffs opened at a time.  An interrupted apply, its repetition over other
diffs, a merge across both and a restore beside them fit into that.

### ColdSnapshot

In a thin pool restore leaves a cold snapshot of what it has built, with a timestamp file;
later restores begin from it, and apply makes it the base image: the volume is renamed
aside, the base removed, the meta state set, the volume renamed.  Logical volumes are a
function from names to images `[lo, hi]` (blocks of the snapshots from lo to hi), which is
enough to tell an exact image from a mixed one.  Every lvm command, every file and every
change of `VolLvCache` is a step: neither restore nor del-cold holds a lock while it makes
or deletes a volume, its timestamp and its entry in the cache.  Crashes, failing commands
and a del-cold may come between any two of them (one del-cold runs at a time).
`recoverColdToBaseIfNecessary`, called at a start and by the next apply, is one step: what
it leaves when it is itself interrupted, the steps it repairs leave too.  `accidents`
records the known races after which an image, a start or a cold snapshot is lost (see
below); the invariants except exactly these.  Bounds: gids up to 2, of which 1 and 2 are
restored to, one restored volume at a time, two faults (crashes, failing commands and
del-colds together).  A daemon that cannot start stops for good, so deadlock is not
checked.

### FullRepl

The receiver of a full replication writes bulk by bulk; after `FsyncInterval`
blocks it flushes the device and saves its progress, and a later attempt may go on
from there.  A power failure takes the image back to any state between the last
flush and now.  Two sources, thin and thick volumes, a resync by hashes, and
attempts broken off at every step.  The saved progress names neither its source
nor whether the volume was discarded or removed since (`InVain`): `tainted` marks a
replica made that way.

The commands stop, start, reset-vol, clear-vol and init-vol are cut where a crash or an
exception tells the steps apart (`cmd`): `clear()` removes the logical volume
(`ClearRemoveLv`), then the files one by one in any order (`ClearUnlink`), then the
directory; `init()` makes the directory and writes the state file last; the state
machine follows the state file in a step of its own.  After an exception it goes back
(`CommandFails`).  `Restarted` is what the daemon finds when it starts: it exits (`Down`)
if a file is missing, or the logical volume of a state that has one.  The files are
`state` (for `uuid` as well), `archive_uuid`, `base` and `full_repl_state`; the image
is one device, the snapshots and diffs that `clear()` removes too are in `ColdSnapshot`
and `ArchiveVol`.

Bounds: five blocks in bulks of three, so that the last one is short; two sources of
which one moves on to a second snapshot; progress is saved after each bulk.  Crashes,
lost connections and commands are not bounded.

### ProxyVol

The memory (state machine, stop state, managers, task queue, action counters) and
the files (received directory, one directory per archive, archive files) of one
volume.  Reception, linking, sending and the stop commands are cut at every
change of either; a crash forgets the memory and `loadAllArchiveInfo` rebuilds it.
The answers of an archive are external: it accepts what is applicable to its latest
snapshot, refuses what is too old, asks to try again, or fails.  The storage server
sends again from the last gid it has an ack for, possibly up to another gid.

The commands on the archives are cut at every file.  `ProxyVolInfo::init` makes one
directory after the other (`MakeReceived`, `MakeSendto`); `addArchiveInfo` saves the
.archive file (`AddBegin` of a stopped volume, `AddSave` of a clear one), then makes the
directory (`AddDir`), which fails if it is there already and was to be new (`AddFails`).
`deleteArchiveInfo` empties the manager (`DeleteBegin`), removes the directory file by
file (`DeleteFile`, `DeleteDir`), then the .archive file (`DeleteInfo`), and with the last
archive goes on like clear-vol: the memory is forgotten first (`ClearVol`), then
`rmdirRecursive` removes the files in the order in which it finds them.  `ClearReceived`,
`ClearSendto` and `ClearInfo` take them in any order, also one that goes back and forth
between the directories, of which the real orders are some; `ClearEnd` is the last
directory.  `tree` holds the directories that are there.  A restart registers what it
finds, so an archive of which a removal has taken some diffs and not all may come back
with a gap: `gutted` marks an archive from the first file taken until its directory is
gone.

An archive that gets a new directory is taken to have what has been acked so far: how it is
brought there (a full or hash backup, or a replication) is outside the proxy.

All is about one log: its uuid does not change, and the case in which an archive answers
`msgDifferentUuid` and the diffs are deleted is left out.  The file `size` is too.

Bounds: one archive, two workers, a stop command and a crash, gids up to 2 for
safety and 1 for liveness.  `cut` marks archives whose sender a forced stop has cut
off.

## Runs

| run | question | result |
|---|---|---|
| `wlog_safety` | Over retries, lost acks, concurrent snapshots, a crash and a change of `maxWlogSendMb`: is a snapshot lost inside a diff, log erased unacknowledged, a gid given to two places, an assertion false?  Does it implement `Relay`?  Is everything transferred in the end? | none is; yes; yes.  After a restart with another limit a first attempt and its retry may give one gid to two lsids, so `GidsIdentifyLsids` is stated without such a restart |
| `storage_safety` | Do the actions of a volume exclude each other, do the state, its file and the monitoring agree, and does a queued snapshot always have a task or worker, over concurrent stops, timeouts, failing backups and a crash? | yes, but for a task dropped for a stop that times out |
| `storage_records` | "recB and recE must not be changed between prepare and finish" | violated: see below |
| `storage_reset` | Does a Stopped volume have its log? | violated: see below |
| `diff_chain` | Is every clean image obtained by applying applicable diffs, merged or not, the volume as it was; do the diffs always reach from the base image to the latest snapshot; does no diff lead past an explicit snapshot? | yes |
| `archive_vol` | The same with apply, merge, restore, reception and gc interleaved and interrupted at every step; is anything acknowledged lost, or a kept snapshot no longer restorable? | no, but for the two marked cases |
| `archive_live` | Do apply, merge and restore come to an end? | yes |
| `cold_snapshot` | Are cold, restored and base images exact, and can the daemon start again, whatever fails while a cold snapshot becomes the base image? | yes, but for the marked accidents |
| `full_repl` | Is an Archived replica the image of the source it names, also after a power failure; does an undisturbed replication complete? | yes, but for a resumption in vain and for a reset-vol or clear-vol that fails half-way |
| `proxy_vol` | Is every acknowledged log kept for every archive, without a gap; is somebody in charge of every unsent diff; does stop empty leave nothing? | yes |
| `proxy_live` | Is every diff sent, or the operator told; does stop empty end? | yes |
| `range_index` | Does the index find exactly the diffs that cover a gid? | yes |

Every property has a mutant: a change of one definition, of the kind a slip in
the code would be, under which the same run finds the property violated.  The
mutated forms stand before the definitions they replace.

### What the violation runs show

* `storage_records`: a full or hash backup fails after its monitoring has
  started; the volume goes back to SyncReady while a `WlogSend` is still
  running (only stop commands wait for actions).  The next backup resets the
  log under that transfer, and its `finishWlogTransfer` writes a done record of
  the old log.  The checks that would notice it construct an exception without
  throwing it.
* `storage_reset`: reset-vol fails between the two halves of `resetWlog`.  The
  state machine rolls back to Stopped, whose description says the wlogs are
  preserved, but the log is a new one while the queue describes the old one.

### Known disagreements the models step around

Each of these was a counterexample of TLC.  The models mark the case with a
history variable or leave the state it leads to, and the properties above hold
for everything else.

* **Restore beside apply** (`archive.cpp:385`).  Restore reads the label of the base image
  and takes the LVM snapshot of it later; an apply that already runs may label and write
  it in between, since `aDenyForRestore` has only Restore and Resize.  The restored volume
  then mixes two snapshots, and in a thin pool it is kept as a cold snapshot
  (`archive.cpp:419`), from which later restores, and the base image, are made.
  (`RestoredExact` with `spoilt`; `accidents` "overtaken".)
* **Interrupted apply and a longer diff** (`meta.hpp:614`).  `getDiffListToApply` takes as
  many diffs as `getMinimumApplicableDiffList` does, which is the walk cut before the
  first diff that leads past the interrupted apply's end, not a list that reaches it.  If
  a longer diff has arrived meanwhile the walk ends short; `assert(canApply(st, v))` is
  compiled out, and a base image with newer blocks is labelled clean.  (`overtaken`.)
* **Resumed full replication** (`archive_vol_info.cpp:341`, `:376`).  The saved progress
  does not name its source, and `createLv` discards a thin volume after the decision to go
  on. Either way the part before the saved position is not that of the image.
  (`tainted`.)
* **reset-vol and clear-vol cut off** (`archive_vol_info.cpp:270`).  `clear()` removes the
  logical volume before the files.  Killed in between, a volume in SyncReady keeps the
  saved progress of a replication without its blocks, and the next one goes on from there
  on a new volume; it comes to its end and is Archived (`tainted`).  A volume that was
  Stopped has no base image then, or a directory without its state file is left, and the
  daemon exits at every start (the state Down of `FullRepl`).  If the command fails there
  instead, the state machine goes back to Stopped, and start makes an Archived volume
  without an image (`tainted` as well).
* **A stopped archive volume at a start** (`archive.cpp:1876`).
  `verifyAndRecoverArchiveVol` asserts that the state is one of `aActive`, to which
  Stopped does not belong; the release build goes on (`Restarted`).
* **Short last bulk** (`dirty_full_sync.cpp:29`).  When `bulkLb` does not divide the
  volume size the client compresses its whole buffer for the shorter last bulk, and the
  receiver cannot uncompress it into the shorter one.  (`FullRepl`: the attempt fails.)
* **del-cold during makeColdToBase** (`archive.cpp:454`, `:326`).  It finds no volume and
  removes the timestamp recovery needs; after a crash the daemon exits at every start
  ("stampLost").  A restore that keeps one cold snapshot does the same: it works along a
  copy of the cache, which can still name the snapshot just set aside.
* **del-cold beside a restore to the same gid** (`archive.cpp:453`).  The restore can make
  the snapshot and its timestamp again after del-cold has taken the old one from the cache
  and before it removes the timestamp: the cache offers a snapshot without one, and every
  apply and restore that choose it throw until the next start ("stampGone").  Likewise a
  restore enters a snapshot in the cache that was deleted or set aside since it was made
  (`archive.cpp:420`, "addedLate").
* **Cold snapshot made twice** (`archive_vol_info.cpp:572`).  After an exception in
  `makeColdToBase` a restore to the same gid makes the snapshot again; from then on
  lvrename fails, in every apply and at every start ("twice").  Also, a snapshot that
  recovery has renamed back is not entered in `VolLvCache`.
* **Tasks after stop** (`proxy.cpp:544`).  A worker that has popped its task pushes it
  again on the exception that the volume is stopping, after stop has removed all tasks.
* **Two stops** (`server_util.hpp:103`).  A refused stop command resets the stop state of
  the first one; stop empty then ends with its "BUG : not here".  (The proxy run has one
  stop command at a time; `StorageServer` has two.)
* **Half-made archive entry** (`proxy_vol_info.hpp:73`).  The file of an archive is saved
  before its directory is made and removed after it; killed in between, the daemon exits
  at every start (the state Down of `ProxyVol`).  So it does if `init` or `clear` is
  killed while the directory of the received diffs is missing and that of the volume is
  there.
* **Half-removed archive** (`proxy_vol_info.hpp:91`).  The directory of an archive is
  removed diff by diff before its .archive file is, and clear removes the files of the
  volume in any order.  Killed in between, the next start registers the archive with the
  diffs that are left, which need not begin where the archive is: what it has an ack for
  is lost to it (`AckedIsKept`), and it answers msgTooNewDiff for ever (`NoGapIsSent`,
  `NeverStuck`, `EmptyEnds`).  (`gutted`.)
* **Stale directory** (`proxy_vol_info.hpp:74`).  If the .archive file is gone and the
  directory is not, "update" registers the archive without looking at the files in it:
  they are never sent, and stop empty leaves them.  (`ManagersMatchFiles`,
  `EmptyMeansEmpty`; `gutted`.)
* **Stop that times out** (`storage.cpp:238`).  A task popped meanwhile is dropped and not
  pushed again (`orphaned`).

## Fairness

* `wlog_safety`: weak fairness of the steps of the worker and of the device: a
  worker that has not finished pushes its task again (`StorageWorker`), and the
  driver makes every logpack durable and moves its checkpoint by itself.  Strong
  fairness of `SendWlog` and `finishWlogTransfer`: a proxy that is tried again and
  again answers some time and one of its acks arrives.
* `archive_live`, `full_repl`: a procedure that is not over goes on; it is a thread
  that nothing but its own loop delays.  The fairness is written out (if it is not idle
  from some time on, its steps occur again and again) because the enabledness of these
  steps is costly to evaluate.
* `proxy_live`: handler threads and workers go on and waitUntil polls (weak
  fairness); strong fairness of `SendAnswered`, an archive that is asked again and again
  answers some time.

Nothing is assumed of commands, writes, crashes, timeouts and lost connections.

## Proofs

Every invariant and action property the passing runs check is a theorem for every value
of the constants; only liveness is not.  The inductive invariants
were checked by TLC, on the runs' instances or larger ones, before they were proved.

| module | theorems (the property each states) |
|---|---|
| `WlogTransferProofs` | `AssertionsHold` (`AssertsHold`), `WlogIsKept` (`WlogKept`), `SnapshotsAreExact` (`SnapshotsExact`), `GidsAreUnique` (`GidsIdentifyLsids`), `DoneIsDelivered` (`DoneFollowsDelivery`), `RelayIsImplemented` (`ImplementsRelay`), `ErasedLogIsDelivered` |
| `DiffChainProofs` | `RestoredExactHolds`, `BaseExactHolds`, `NoHoleHolds`, `ExplicitSnapshotsKeptHolds`, `LatestAgreesHolds` |
| `ArchiveVolProofs` | `AppliedCorrectly` (`BaseExact`), `RestoredCorrectly` (`RestoredExact`), `LatestIsReadable` (`LatestReadable`), `AckedIsNeverLost` (`AckedIsDurable`), `KeptStaysRestorable` (`KeptIsRestorable`), `AddIsNeverRefused` (`AddNeverRefused`), `ApplyAlwaysProgresses` (`ApplyProgresses`), `NothingMovesBack` |
| `GidRangeManagerProofs` | `IndexExact` (`SearchExact`) |
| `StorageServerProofs` | `ActionsExclusive` (`OneActionAtATime`), `StoppedIsQuiet` (`QuietWhenStopped`), `MonitoringFollowsState` (`MonitoredWhenActive`), `StateFileCorrect` (`StateFileAgrees`), `SnapshotsScheduled` (`SnapshotIsScheduled`) |
| `FullReplProofs` | `ReplicaCorrect` (`ReplicaExact`) |
| `ColdSnapshotProofs` | `BaseImageCorrect` (`BaseMatchesMetaState`), `ColdImagesCorrect` (`ImagesExact`), `LatestAlwaysReachable` (`LatestReachable`), `AlwaysRecoverable` (`Recoverable`), `CacheCorrect` (`ColdUsable`) |
| `ProxyVolProofs` | `AckedLogIsKept` (`AckedIsKept`), `NothingIsForgotten` (`UnsentIsScheduled`), `ManagersCorrect` (`ManagersMatchFiles`), `NeverTooNew` (`NoGapIsSent`), `StopEmptyCorrect` (`EmptyMeansEmpty`) |

### The wlog transfer and the relay

`WlogTransferProofs` proves, for all logpack sizes, limits, capacities and
bounds (the named assumptions of `WlogTransfer` say only that they are naturals
and that sizes and limits are positive), that `TypeOK`, `SnapshotOrder`,
`AssertsHold`, `WlogKept` and `SnapshotsExact` are invariants and that
`DoneFollowsDelivery` holds.

None of them is inductive.  `IInv` adds:

* `DeviceInv`, `FilesInv`: the latest and permanent lsids, the done record and
  all records of the queue are at logpack boundaries; the queue is ordered and
  the done record has its place in that order, which is what a crash between
  `finishWlogTransfer` and `trimQueue` leaves intact;
* `TransferInv`: the locals of a running transfer agree with the files: it
  starts at the done record, heads for a record of the queue, passes over
  mergeable records only, and when it is cut there is a gid free for the cut.
  This last part is the arithmetic behind `takeSnapshotDetail`: it reserves one
  gid per `maxWlogSendPb` of log, and one more;
* `HistoryInv`: an explicit snapshot has been passed or is still in the queue
  as unmergeable, and nothing delivered goes beyond the newest snapshot.  This
  is what makes `SnapshotsExact` survive retries with another end.

The proof that `IInv` is inductive has one lemma per action; the loops enter
through lemmas on what `FirstKept` and `EndIndex` return, proved by the
well-foundedness of the naturals.

`GidsIdentifyLsids` needs one thing more, `GidInv`: the places known so far (ends of
delivered diffs, snapshots), the records of the queue and the done record agree
pairwise, and a known place ahead of the done record is a record of the queue or the
cut, the last logpack boundary within `maxWlogSendPb` of the done record.  The cut is
the same in every attempt because later logpacks lie beyond it and the next record of
the queue stays where it is; after a restart with another limit it is not, which is why
the property excludes that.

The refinement: `RelayIsImplemented` shows that every step of `WlogTransfer` is a
step of `Relay` or invisible, from `IInv` and one more fact, `DoneInv`: the done
record is where the log begins or where a delivered diff ends, so what is sent next
leaves no gap and what is erased is covered.  A relay loses
nothing (`RelayInv`: the stored pieces are `PiecesClosed`, below the end of a stored piece
everything is stored).  Together (`ErasedLogIsDelivered`): every block of log that was erased
is in a diff a proxy has stored.

### The diff chain and its index

`DiffChainProofs` proves `TypeOK`, `RestoredExact`, `BaseExact`, `NoHole`,
`ExplicitSnapshotsKept` and `LatestAgrees` for all sets of blocks and values; the
only assumption is that `MaxGid` is a natural.  The inductive invariant `IInv` says:

* `LineInv`: the snapshots passed form a line that ends at the latest one, whose
  gidE never decrease; since the log was reset a dirty range ends where the first
  one does, or has been passed.  This is what makes `apply` compute the right label;
* `OnLine` of the base image and of the reader: each is a snapshot of the line with
  the image recorded there;
* `DiffInv`: every diff `Lands` on a snapshot of the line with the content of its
  image, and is `Sound`, that is, applied to any snapshot of the line that `canApply`
  admits (not only the one it was made for) it yields the snapshot and the image
  of its end.  This is the claim that gids are enough.  `MergeSound` shows that
  `canMerge` and `merge` preserve it;
* `TruthInv`: a clean snapshot of the line is the truth; since the last reset of
  the log, images of the line are made of contents within their range and
  differ only in blocks written in between, which is why a diff made of the log may
  start earlier than needed;
* `FlagsInv`, `ExplicitInv`: a diff that starts at an explicit snapshot is not
  mergeable and no dirty range covers one, so no merge and no diff swallows it.

There is one lemma per action.  `AddDiffLine` and `AddDiffFrame` hold what the
three actions that add a diff at the end have in common, and `SoundFromLatest` is the
case of a diff made by comparing images.

In `GidRangeManagerProofs` the invariant is that the ranges are apart, that each lists
exactly the diffs that cover it, that no diff ends inside of a range, and that every gid
of a diff is in some range.  The third part is what `Split` is for: without it a diff
added or erased later would cover a part of a range.

### The archived volume, step by step

`ArchiveVolProofs` is for any set of blocks, any log, any limit of opened diffs, any bounds
and any set of commands: its only assumption is `AVAssumption`, which gives the constants
their types.  The diffs there can be are those of the log (`LogDiffs`: what was written
between two gids, as of the second), and reception, merge, change-snapshot and the crashes
in between never leave that set.  `IInv` then says:

* `LabelInv`: the label of the base image is behind the latest snapshot, and so are the end
  of an interrupted apply and what was acknowledged;
* `DiffsInv`: every registered diff has its file, and between the base image and the latest
  snapshot every gid is `Covered` by a registered diff.  This is why a greedy walk cannot get
  stuck before the latest snapshot;
* `KeptInv`: no file leads over a kept gid, nor may one be merged over it (`Keeps`).  Since it
  speaks of the files, it also holds after a crash;
* `ApplyInv`: the blocks already written are those of the end of the apply; `MergeInv`: the
  merged diff is one of the log and contains its parts;
  `RecvInv`: the diff under reception begins at or before the latest snapshot and ends after it;
* `BaseInv`, `RestoreInv`: every block of the image is as it was at some gid `Between` the
  start of its label and what an apply may have reached.  `BaseExact` is the case in which the
  two are the same; a diff that covers the whole range brings every block to its end, which is
  why an interrupted apply can be done again with other diffs;
* `RestoredInv`: the property itself.

None of the seven properties is inductive: `KeptIsRestorable`, for one, follows from `Covered`
and `Keeps`, since a walk over diffs none of which leads over a gid has to stop at that gid.

The lemmas on the queries carry the proof: `WalkFacts` (the greedy walk is a chain of
registered diffs and stops only for want of a diff or at the limit), `WalkPrefix` (a walk with a
lower limit is a prefix), `WalkArrives` (with `Covered` and `Keeps` it arrives),
`GcFacts` (garbage collection keeps what covers), `MergedFacts` (a merge of a chain is the diff
of the log between its ends) and lemmas on what a chain of diffs does to an image.  Then there
is one lemma per action.  `NothingMovesBack` is an action property that follows: no step, a
crash included, takes the base image, the latest snapshot or the acknowledged gid back.

### The storage daemon

`StorageServerProofs` is for any number of workers and of stop commands.  The five
properties depend on each other: `CounterInv` says that the counters count the workers in
a section and that there is one at most; `OwnerInv` that who has taken the volume out of
a steady state is the only one to move it on and that the sections are empty from
`StopTarget` on; `FileInv` and `MonitorInv` extend the state file and the monitoring to
the states in between, and say which end of a stop the file names (`StopSaved`);
`ScheduleInv` adds that a stop state is set only as long as a stop command is at work, or
its volume stopped and its destructor due, and that a volume about to become Target
already has its task.

### Full replication

`FullReplProofs`: an attempt always has a prefix of the source's image (`CopyInv`), and so
does the saved progress, on the medium too, as long as its source has not applied diffs
since (`ProgressInv`).  On a thin volume the invariant also says that what has not been
written reads as zero, since zero blocks are skipped.  `CommandInv` and `VolumeInv` say what
is there at each place of a command: no image from `ClearRemoveLv` on, a state file that
the state machine follows, and a state that promises an image never beside an attempt.  The
assumptions: the sources have names other than the missing uuid, every source has a gid, and
the sizes and intervals are positive.

### Cold snapshots

The invariant of `ColdSnapshotProofs` says what each of the three threads may rely on at
each of its steps: `AsideInv` (at most one image is set aside, and there is one whenever
there is no base image), `ApplyInv` (the state apply has read and the one on the disk),
`ImageInv` (what restore has in its temporary volume), `StampInv` and `CacheInv` (which
entry of the cache, which volume and which timestamp are being made or removed by whom,
also before the start that mends the cache)
and `ReachInv` (the diffs from the base image, or from the image set aside, to the latest
snapshot).  A crash forgets the threads, so every part that speaks of a thread has a
counterpart that speaks of the disk alone.

### The proxy

`ProxyVolProofs` is for any number of archives, workers, stop commands and crashes and any
bound on the gids (`GidsAreBounded` says that it is a natural).  `BusyInv`: one worker at
most serves an archive, and the counter tells so; `ListInv`: what it sends begins at or
before the archive's gid and what it forgets and unlinks the archive has; `ArchiveInv`: in
which order directories, .archive files and the set of archives come and go; `ReceivedInv`
and `LinkInv`: the received files and their manager differ only in the steps between the
save and the registration, and a file the receiver deletes is linked for every archive or
not needed by it; `NoGapInv`: below a diff in the directory of an archive there is no gap,
unless the archive is gutted; `ScheduleInv`, `MatchInv` and `KeptInv` are the properties,
extended to the steps in between and to the time in which clear has forgotten the
archives.  What the commands on the archives do to the files is summed up once
(`Reduces`): an archive that is not gutted keeps all its files, or its directory is new,
and what it has reached is what has been acked. `NoGapInv` is not implied by
`AckedIsKept`: it also speaks of diffs beyond the last ack, and it is what makes the
greedy walk of `getMergeableDiffList` begin in the right place.

There is one lemma per conjunct and action that touches it, and a `...Kept` lemma for
all actions that do not.

### How loops are proved about

The loops of the code are recursive functions in a `LET` (`f[n \in S] == ... f[n - 1]
...`).  Nothing is known of such a function unless one shows that a function satisfying
the equation exists.  The proofs do this by a least counterexample: a function up to `n`
gives one up to `n + 1`, so there is no least `n` up to which there is none; then the
`CHOOSE` behind the definition is unfolded once, and what the loop computes follows by
another least counterexample.  This replaces the induction theorems, which take an
operator as a parameter.

### Only model-checked

* Liveness (`EverythingTransferred`, `NeverStuck`, `EmptyEnds`, `ProceduresEnd` and the
  completion of an undisturbed replication): fairness and enabledness are out of the
  prover's reach.

## Plan

1. The state machine and the actions of the archive daemon around the procedures of
   `ArchiveVol`.
2. Storage, proxy and archive composed: `Relay` is the first half of such a composition.

## Not modelled

The kernel driver (it appears as the environment), on-disk and network formats,
checksums, compression, asynchronous I/O, LVM commands, command-line parsing
and logging: they keep no state of their own between operations, or are data
transformations whose wording no property depends on.  `walb_worker.py` issues
commands periodically; the models let any command come at any time.

Of the daemons' own code: the message exchange of diff and hash replication, how stop
of the archive waits for the actions under way, resize, virtual full
scan, the memory limit of the proxy's conversion, the record-level merge of wdiff
files (the models take it as an overlay), status and debug commands.

Most of the lines of the repository are vendored libraries (zstd, lz4, snappy,
cybozulib), unit tests and test tools; the models cover the daemons' own state
changes, which are a small part of it.
