---------------------------- MODULE StorageServer ----------------------------
(***************************************************************************)
(* Life cycle of one volume in the storage daemon: the state machine, the  *)
(* stop state, the action counters, the task queue with its dispatcher and *)
(* worker threads, the monitoring of the log device, and the commands      *)
(* (init-vol, clear-vol, start, stop, reset-vol, full-bkp/hash-bkp,        *)
(* snapshot, kick) whose handler threads run concurrently.                 *)
(*                                                                         *)
(* What the wlog transfer does inside (module WlogTransfer) is reduced to  *)
(* the question which incarnation of the log it works on: every resetWlog  *)
(* starts a new one, numbered by an epoch.                                 *)
(*                                                                         *)
(* Abstractions:                                                           *)
(*  - a section under the volume's mutex is one step, except that the      *)
(*    writes of reset-vol are apart; what runs without it, the end of a    *)
(*    stop above all, is one step per effect;                              *)
(*  - delays of tasks are dropped, a task in the queue may be popped;      *)
(*  - an I/O error on the small files (state, done record, queue) is left *)
(*    out, except in the middle of the resetWlog of reset-vol;             *)
(*  - full-bkp and hash-bkp differ in the name of their state only and     *)
(*    share one, "Sync";                                                   *)
(*  - init-vol, clear-vol are single steps (nobody acts on their states).  *)
(***************************************************************************)
EXTENDS Integers, FiniteSets

CONSTANTS
    Workers,      \* threads of the dispatcher's pool (maxBackgroundTasks)
    Stoppers,     \* handler threads of concurrent stop commands
    MaxEpoch,     \* bound: number of resetWlog calls
    MaxNrCrashes  \* bound: number of crashes of the daemon

ASSUME SSBoundsAssumption == MaxEpoch \in Nat /\ MaxNrCrashes \in Nat

VARIABLES
    sm,          \* volSt.sm: current state of the volume
    fileState,   \* file "state"; "Clear" when the volume directory is missing
    stopState,   \* volSt.stopState
    ac,          \* volSt.ac: number of running actions
    monitored,   \* the log device is in logDevMonitor
    task,        \* the volume is in the task queue
    held,        \* the dispatcher has popped the volume's task
    pushers,     \* threads that have looked the volume up and are about to push it
    overflow,    \* device: the log has overflowed
    wal,         \* epoch of the log on the device
    done,        \* epoch the done record belongs to
    queue,       \* epoch the queue file belongs to
    queueEmpty,  \* the queue file has no record
    worker,      \* per worker thread: where it is, and the epoch of its rec0, rec1
    stopper,     \* per stop handler: where it is
    orphaned,    \* history: a stop command has timed out and left a snapshot without a task
    backup,      \* where the full-bkp/hash-bkp handler is
    nrCrashes    \* number of crashes

volSt   == <<sm, fileState, stopState, ac>>
tasks   == <<monitored, task, held, pushers>>
volInfo == <<wal, done, queue, queueEmpty>>
stops   == <<stopper, orphaned>>
vars    == <<volSt, tasks, overflow, volInfo, worker, stops, backup, nrCrashes>>

SteadyStates == {"Clear", "SyncReady", "Stopped", "Target", "Standby"}
SyncStates   == {"Sync"}
States       == SteadyStates \cup SyncStates \cup {"StopTarget", "StopStandby", "Reset"}

Actions == {"WlogSend", "WlogRemove"}
Epochs  == 0 .. MaxEpoch

\* The done record init() writes (lsid -1) belongs to no log.
NoLog == -1

\* "begin" to "more": ActionCounterTransaction for WlogSend; "remove": WlogRemove.
SendingPcs == {"begin", "prepared", "sent", "close", "more"}
\* "overflow" to "overflowCommit": a worker carries out the stop of an overflowed volume.
OverflowPcs == {"overflow", "overflowSave", "overflowCommit"}
WorkerPcs   == SendingPcs \cup OverflowPcs \cup {"free", "start", "push", "remove"}

\* "stopping" to "commit": a stop command carries the stop out; "leave": ~Stopper is due.
StopperPcs == {"idle", "wait", "stopping", "save", "commit", "leave"}

TypeOK ==
    /\ sm \in States /\ fileState \in SteadyStates
    /\ stopState \in {"NotStopping", "Stopping", "ForceStopping"}
    /\ ac \in [Actions -> Nat]
    /\ {monitored, task, held, overflow, queueEmpty} \subseteq BOOLEAN
    /\ {wal, queue} \subseteq Epochs /\ done \in Epochs \cup {NoLog}
    /\ pushers \subseteq {"kick", "monitor"}
    /\ worker \in [Workers -> [pc : WorkerPcs, epoch : Epochs]]
    /\ stopper \in [Stoppers -> StopperPcs] /\ orphaned \in BOOLEAN
    /\ backup \in {"idle", "accepted", "clearing", "reset", "syncing", "snapped", "failing"}
    /\ nrCrashes \in Nat

-----------------------------------------------------------------------------
(* Parts shared by several handlers. *)

\* resetWlog has two halves an error or a crash may separate: the log device
\* and the done record, then the queue and the state file.
resetWal ==
    /\ wal < MaxEpoch
    /\ wal' = wal + 1 /\ done' = wal + 1
    /\ overflow' = FALSE
    /\ UNCHANGED <<queue, queueEmpty>>

clearQueue == queue' = wal /\ queueEmpty' = TRUE /\ UNCHANGED <<wal, done>>

startMonitoring == ~monitored /\ monitored' = TRUE /\ task' = TRUE

stopMonitoring == monitored' = FALSE /\ task' = FALSE

\* Mutant of AllZero: WlogSend is missing in the vector of names.
AllZeroExceptSend == ac["WlogRemove"] = 0

AllZero == \A a \in Actions : ac[a] = 0

Incr(a) == ac' = [ac EXCEPT ![a] = @ + 1]

Decr(a) == ac' = [ac EXCEPT ![a] = @ - 1]

Sending(w) == worker[w].pc \in SendingPcs

\* Somebody will look at the queue: a task, the dispatcher, a pusher or a worker.
PendingTask ==
    \/ task \/ held \/ pushers # {}
    \/ \E w \in Workers : worker[w].pc \in {"start", "begin", "prepared", "sent", "more", "push"}

\* The epoch matters from prepareWlogTransfer to finishWlogTransfer only.
WorkerTo(w, pc) ==
    worker' = [worker EXCEPT ![w] = [pc |-> pc, epoch |-> IF pc = "sent" THEN @.epoch ELSE 0]]

-----------------------------------------------------------------------------
(* Commands. *)

c2sInitVol ==
    /\ sm = "Clear"
    /\ sm' = "SyncReady" /\ fileState' = "SyncReady"
    /\ queue' = wal /\ done' = NoLog /\ queueEmpty' = TRUE
    /\ UNCHANGED <<wal, stopState, ac, tasks, overflow, worker, stops, backup, nrCrashes>>

c2sClearVol ==
    /\ sm = "SyncReady"
    /\ sm' = "Clear" /\ fileState' = "Clear"
    /\ UNCHANGED <<stopState, ac, tasks, overflow, volInfo, worker, stops, backup, nrCrashes>>

c2sStartTarget ==
    /\ stopState = "NotStopping"
    /\ ~overflow
    /\ sm = "Stopped" /\ fileState = "Stopped"
    /\ startMonitoring
    /\ sm' = "Target" /\ fileState' = "Target"
    /\ UNCHANGED <<stopState, ac, held, pushers, overflow, volInfo, worker, stops, backup,
                   nrCrashes>>

\* An overflowed log is of no use to a standby volume and is reset.
c2sStartStandby ==
    /\ stopState = "NotStopping"
    /\ sm = "SyncReady" /\ fileState = "SyncReady"
    /\ IF overflow
       THEN /\ wal < MaxEpoch
            /\ wal' = wal + 1 /\ done' = wal + 1 /\ queue' = wal + 1 /\ queueEmpty' = TRUE
            /\ overflow' = FALSE
       ELSE UNCHANGED <<volInfo, overflow>>
    /\ startMonitoring
    /\ sm' = "Standby" /\ fileState' = "Standby"
    /\ UNCHANGED <<stopState, ac, held, pushers, worker, stops, backup, nrCrashes>>

\* Stopped -> Reset, and the first half of resetWlog.  The mutex is held up to
\* the end, so only an error or a crash follows other than c2sResetVolEnd.
c2sResetVolBegin ==
    /\ stopState = "NotStopping"
    /\ sm = "Stopped"
    /\ resetWal
    /\ sm' = "Reset"
    /\ UNCHANGED <<fileState, stopState, ac, tasks, worker, stops, backup, nrCrashes>>

c2sResetVolEnd ==
    /\ sm = "Reset" /\ fileState = "Stopped"
    /\ clearQueue
    /\ fileState' = "SyncReady"
    /\ UNCHANGED <<sm, stopState, ac, tasks, overflow, worker, stops, backup, nrCrashes>>

c2sResetVolCommit ==
    /\ sm = "Reset" /\ fileState = "SyncReady"
    /\ sm' = "SyncReady"
    /\ UNCHANGED <<fileState, stopState, ac, tasks, overflow, volInfo, worker, stops, backup,
                   nrCrashes>>

\* The transaction rolls the state back; what is reset stays reset.
c2sResetVolFails ==
    /\ sm = "Reset" /\ fileState = "Stopped"
    /\ sm' = "Stopped"
    /\ UNCHANGED <<fileState, stopState, ac, tasks, overflow, volInfo, worker, stops,
                   backup, nrCrashes>>

c2sSnapshot ==
    /\ sm \in {"Target", "Stopped"}
    /\ stopState = "NotStopping"
    /\ ~overflow
    /\ queueEmpty' = FALSE
    /\ task' = TRUE
    /\ UNCHANGED <<volSt, monitored, held, pushers, overflow, wal, done, queue, worker, stops,
                   backup, nrCrashes>>

\* A kick handler reads the task queue, and pushes what it has read.
c2sKick ==
    /\ task
    /\ pushers' = pushers \cup {"kick"}
    /\ UNCHANGED <<volSt, monitored, task, held, overflow, volInfo, worker, stops, backup,
                   nrCrashes>>

-----------------------------------------------------------------------------
(* stop: Target -> Stopped, Standby -> SyncReady. *)

\* The command is waiting for, or carrying out, its stop.
StopUnderWay(s) == stopper[s] \notin {"idle", "leave"}

StopperTo(s, pc) == stopper' = [stopper EXCEPT ![s] = pc]

StopperEnds(s) ==
    /\ StopperTo(s, "idle")
    /\ stopState' = "NotStopping"     \* ~Stopper

\* A stop command while another one is under way is refused; its Stopper's
\* destructor resets the stop state all the same.
c2sStopBegin(s) ==
    /\ stopper[s] = "idle"
    /\ IF stopState = "NotStopping"
       THEN /\ stopState' \in {"Stopping", "ForceStopping"}
            /\ StopperTo(s, "wait")
       ELSE StopperEnds(s)
    /\ UNCHANGED <<sm, fileState, ac, tasks, overflow, volInfo, worker, orphaned, backup,
                   nrCrashes>>

\* waitUntil sees a steady state and no action.
c2sStopWaited(s) ==
    /\ stopper[s] = "wait"
    /\ sm \in SteadyStates /\ AllZero
    /\ IF sm \in {"Target", "Standby"} /\ fileState = sm
       THEN /\ sm' = IF sm = "Target" THEN "StopTarget" ELSE "StopStandby"
            /\ StopperTo(s, "stopping")
            /\ UNCHANGED stopState
       ELSE StopperEnds(s) /\ UNCHANGED sm
    /\ UNCHANGED <<fileState, ac, tasks, overflow, volInfo, worker, orphaned, backup, nrCrashes>>

c2sStopTimeout(s) ==
    /\ stopper[s] = "wait"
    /\ StopperEnds(s)
    /\ orphaned' = \/ orphaned
                   \/ ~(queueEmpty \/ PendingTask \/ \E r \in Stoppers \ {s} : StopUnderWay(r))
    /\ UNCHANGED <<sm, fileState, ac, tasks, overflow, volInfo, worker, backup, nrCrashes>>

\* After ul.unlock() the monitoring, the state file and the state machine are
\* changed one after the other, and the stop state last.
c2sStopMonitoring(s) ==
    /\ stopper[s] = "stopping"
    /\ stopMonitoring
    /\ StopperTo(s, "save")
    /\ UNCHANGED <<volSt, held, pushers, overflow, volInfo, worker, orphaned, backup, nrCrashes>>

StoppedTo == IF sm = "StopTarget" THEN "Stopped" ELSE "SyncReady"

c2sStopSave(s) ==
    /\ stopper[s] = "save"
    /\ fileState' = StoppedTo
    /\ StopperTo(s, "commit")
    /\ UNCHANGED <<sm, stopState, ac, tasks, overflow, volInfo, worker, orphaned, backup,
                   nrCrashes>>

c2sStopCommit(s) ==
    /\ stopper[s] = "commit"
    /\ sm' = StoppedTo
    /\ StopperTo(s, "leave")
    /\ UNCHANGED <<fileState, stopState, ac, tasks, overflow, volInfo, worker, orphaned, backup,
                   nrCrashes>>

c2sStopLeave(s) ==
    /\ stopper[s] = "leave"
    /\ StopperEnds(s)
    /\ UNCHANGED <<sm, fileState, ac, tasks, overflow, volInfo, worker, orphaned, backup,
                   nrCrashes>>

-----------------------------------------------------------------------------
(* full-bkp and hash-bkp. *)

backupBegin ==
    /\ backup = "idle"
    /\ stopState = "NotStopping"
    /\ sm = "SyncReady"
    /\ sm' = "Sync"
    /\ backup' = "accepted"
    /\ UNCHANGED <<fileState, stopState, ac, tasks, overflow, volInfo, worker, stops, nrCrashes>>

\* resetWlog, in two halves: nothing here keeps others out.
backupResetWal ==
    /\ backup = "accepted"
    /\ resetWal
    /\ backup' = "clearing"
    /\ UNCHANGED <<volSt, tasks, worker, stops, nrCrashes>>

backupClearQueue ==
    /\ backup = "clearing"
    /\ clearQueue
    /\ fileState' = "SyncReady"
    /\ backup' = "reset"
    /\ UNCHANGED <<sm, stopState, ac, tasks, overflow, worker, stops, nrCrashes>>

backupStartMonitoring ==
    /\ backup = "reset"
    /\ startMonitoring
    /\ backup' = "syncing"
    /\ UNCHANGED <<volSt, held, pushers, overflow, volInfo, worker, stops, nrCrashes>>

\* All the data has been sent; the snapshot that ends the sync is taken.
backupSnapshot ==
    /\ backup = "syncing"
    /\ ~overflow
    /\ queueEmpty' = FALSE /\ task' = TRUE
    /\ backup' = "snapped"
    /\ UNCHANGED <<volSt, monitored, held, pushers, overflow, wal, done, queue, worker, stops,
                   nrCrashes>>

\* The archive has acknowledged: -> Stopped -> StartTarget -> Target under the mutex.
backupCommit ==
    /\ backup = "snapped"
    /\ sm' = "Target" /\ fileState' = "Target"
    /\ backup' = "idle"
    /\ UNCHANGED <<stopState, ac, tasks, overflow, volInfo, worker, stops, nrCrashes>>

\* Mutant of backupFails: nobody ends the monitoring.
backupFailsMonitored ==
    /\ backup \notin {"idle", "failing"}
    /\ backup' = "failing"
    /\ UNCHANGED <<volSt, tasks, overflow, volInfo, worker, stops, nrCrashes>>

\* The archive refuses, a connection breaks, the sync is force-stopped, the log
\* overflows: first ~MonitorManager ends what monitorMgr.start() began ...
backupFails ==
    /\ backup \notin {"idle", "failing"}
    /\ IF backup \in {"syncing", "snapped"} THEN stopMonitoring ELSE UNCHANGED <<monitored, task>>
    /\ backup' = "failing"
    /\ UNCHANGED <<volSt, held, pushers, overflow, volInfo, worker, stops, nrCrashes>>

\* ... then ~StateMachineTransaction rolls the state back, whatever runs meanwhile.
backupRollsBack ==
    /\ backup = "failing"
    /\ sm' = "SyncReady"
    /\ backup' = "idle"
    /\ UNCHANGED <<fileState, stopState, ac, tasks, overflow, volInfo, worker, stops, nrCrashes>>

-----------------------------------------------------------------------------
(* Monitor, dispatcher and workers. *)

\* The monitor thread gets an event of the device and looks its volume up.
wdevMonitorWorker ==
    /\ monitored
    /\ pushers' = pushers \cup {"monitor"}
    /\ UNCHANGED <<volSt, monitored, task, held, overflow, volInfo, worker, stops, backup,
                   nrCrashes>>

pushTask ==
    /\ pushers # {}
    /\ \E p \in pushers : pushers' = pushers \ {p}
    /\ task' = TRUE
    /\ UNCHANGED <<volSt, monitored, held, overflow, volInfo, worker, stops, backup, nrCrashes>>

LogOverflows ==
    /\ ~overflow
    /\ overflow' = TRUE
    /\ UNCHANGED <<volSt, tasks, volInfo, worker, stops, backup, nrCrashes>>

DispatchPop ==
    /\ task /\ ~held
    /\ task' = FALSE /\ held' = TRUE
    /\ UNCHANGED <<volSt, monitored, pushers, overflow, volInfo, worker, stops, backup, nrCrashes>>

DispatchRun(w) ==
    /\ held
    /\ worker[w].pc = "free"
    /\ held' = FALSE
    /\ WorkerTo(w, "start")
    /\ UNCHANGED <<volSt, monitored, task, pushers, overflow, volInfo, stops, backup, nrCrashes>>

\* StorageWorker up to the unlock has four ways to go.
WorkerAccepted(w) ==
    /\ worker[w].pc = "start"
    /\ stopState = "NotStopping"
    /\ sm \in {"Target", "Standby"} \cup SyncStates

\* verifyNotStopping or verifyStateIn throws, and the task is gone.
WorkerRefused(w) ==
    /\ worker[w].pc = "start"
    /\ ~WorkerAccepted(w)
    /\ WorkerTo(w, "free")
    /\ UNCHANGED <<volSt, tasks, overflow, volInfo, stops, backup, nrCrashes>>

\* Mutant of WorkerBusy: the running action is trusted to do the work.
WorkerBusyDropsTask(w) ==
    /\ WorkerAccepted(w)
    /\ ~AllZero
    /\ WorkerTo(w, "free")
    /\ UNCHANGED <<volSt, tasks, overflow, volInfo, stops, backup, nrCrashes>>

\* Another action is running: "This is rare case, but possible."
WorkerBusy(w) ==
    /\ WorkerAccepted(w)
    /\ ~AllZero
    /\ task' = TRUE
    /\ WorkerTo(w, "free")
    /\ UNCHANGED <<volSt, monitored, held, pushers, overflow, volInfo, stops, backup, nrCrashes>>

\* The log has overflowed: a Target volume is stopped, others are left alone.
WorkerSeesOverflow(w) ==
    /\ WorkerAccepted(w)
    /\ AllZero /\ overflow
    /\ IF sm = "Target"
       THEN sm' = "StopTarget" /\ WorkerTo(w, "overflow")
       ELSE UNCHANGED sm /\ WorkerTo(w, "free")
    /\ UNCHANGED <<fileState, stopState, ac, tasks, overflow, volInfo, stops, backup, nrCrashes>>

WorkerBegins(w) ==
    /\ WorkerAccepted(w)
    /\ AllZero /\ ~overflow
    /\ IF sm = "Standby"
       THEN Incr("WlogRemove") /\ WorkerTo(w, "remove")
       ELSE Incr("WlogSend") /\ WorkerTo(w, "begin")
    /\ UNCHANGED <<sm, fileState, stopState, tasks, overflow, volInfo, stops, backup, nrCrashes>>

\* The overflow branch after the unlock, in the order of a stop command.
WorkerOverflow(w) ==
    /\ worker[w].pc = "overflow"
    /\ stopMonitoring
    /\ WorkerTo(w, "overflowSave")
    /\ UNCHANGED <<volSt, held, pushers, overflow, volInfo, stops, backup, nrCrashes>>

\* Mutant of WorkerOverflowSave: the stop is not recorded in the state file.
WorkerOverflowNotSaved(w) ==
    /\ worker[w].pc = "overflowSave"
    /\ WorkerTo(w, "overflowCommit")
    /\ UNCHANGED <<volSt, tasks, overflow, volInfo, stops, backup, nrCrashes>>

WorkerOverflowSave(w) ==
    /\ worker[w].pc = "overflowSave"
    /\ fileState' = "Stopped"
    /\ WorkerTo(w, "overflowCommit")
    /\ UNCHANGED <<sm, stopState, ac, tasks, overflow, volInfo, stops, backup, nrCrashes>>

WorkerOverflowCommit(w) ==
    /\ worker[w].pc = "overflowCommit"
    /\ sm' = "Stopped"
    /\ WorkerTo(w, "free")
    /\ UNCHANGED <<fileState, stopState, ac, tasks, overflow, volInfo, stops, backup, nrCrashes>>

WorkerRemoves(w) ==
    /\ worker[w].pc = "remove"
    /\ Decr("WlogRemove")
    /\ WorkerTo(w, "free")
    /\ UNCHANGED <<sm, fileState, stopState, tasks, overflow, volInfo, stops, backup, nrCrashes>>

\* extractAndSendAndDeleteWlog up to prepareWlogTransfer: nothing to send now,
\* nothing to send yet ("doLater"), or rec0 and rec1 are read for a transfer.
\* prepareWlogTransfer leaves at least one record in the queue.  With the done
\* record of init() nothing lies after it.
WorkerPrepares(w) ==
    /\ worker[w].pc = "begin"
    /\ fileState # "Clear"
    /\ \/ queueEmpty /\ UNCHANGED queueEmpty
          /\ \E pc \in {"close", "more"} : WorkerTo(w, pc)
       \/ done # NoLog /\ queueEmpty' = FALSE
          /\ WorkerTo(w, "more")
       \/ done # NoLog /\ queueEmpty' = FALSE
          /\ worker' = [worker EXCEPT ![w] = [pc |-> "prepared", epoch |-> done]]
    /\ UNCHANGED <<volSt, tasks, overflow, wal, done, queue, stops, backup, nrCrashes>>

WorkerSends(w) ==
    /\ worker[w].pc = "prepared"
    /\ stopState # "ForceStopping"
    /\ WorkerTo(w, "sent")
    /\ UNCHANGED <<volSt, tasks, overflow, volInfo, stops, backup, nrCrashes>>

\* finishWlogTransfer writes the done record from the worker's own records and
\* trims the queue.  What is left in the queue, garbage, or wlogs written since
\* make isRemaining true.
WorkerFinishes(w) ==
    /\ worker[w].pc = "sent"
    /\ ~queueEmpty /\ fileState # "Clear"
    /\ done' = worker[w].epoch
    /\ \/ queueEmpty' = TRUE /\ WorkerTo(w, "close")
       \/ queueEmpty' \in BOOLEAN /\ WorkerTo(w, "more")
    /\ UNCHANGED <<volSt, tasks, overflow, wal, queue, stops, backup, nrCrashes>>

\* An exception: the task is pushed again before the counter is decremented.
WorkerFails(w) ==
    /\ worker[w].pc \in {"begin", "prepared", "sent"}
    /\ task' = TRUE
    /\ Decr("WlogSend")
    /\ WorkerTo(w, "free")
    /\ UNCHANGED <<sm, fileState, stopState, monitored, held, pushers, overflow, volInfo, stops,
                   backup, nrCrashes>>

\* tran.close(), and only then pushTask if something remains.
WorkerCloses(w) ==
    /\ worker[w].pc \in {"close", "more"}
    /\ Decr("WlogSend")
    /\ WorkerTo(w, IF worker[w].pc = "more" THEN "push" ELSE "free")
    /\ UNCHANGED <<sm, fileState, stopState, tasks, overflow, volInfo, stops, backup, nrCrashes>>

WorkerPushes(w) ==
    /\ worker[w].pc = "push"
    /\ task' = TRUE
    /\ WorkerTo(w, "free")
    /\ UNCHANGED <<volSt, monitored, held, pushers, overflow, volInfo, stops, backup, nrCrashes>>

-----------------------------------------------------------------------------
(* The daemon dies; a new one reads the state file and resumes monitoring. *)
CrashAndRestart ==
    /\ nrCrashes < MaxNrCrashes
    /\ nrCrashes' = nrCrashes + 1
    /\ sm' = fileState
    /\ stopState' = "NotStopping"
    /\ ac' = [a \in Actions |-> 0]
    /\ monitored' = (fileState \in {"Target", "Standby"})
    /\ task' = (fileState \in {"Target", "Standby"})
    /\ held' = FALSE /\ pushers' = {}
    /\ worker' = [w \in Workers |-> [pc |-> "free", epoch |-> 0]]
    /\ stopper' = [s \in Stoppers |-> "idle"] /\ orphaned' = FALSE
    /\ backup' = "idle"
    /\ UNCHANGED <<fileState, overflow, volInfo>>

Init ==
    /\ sm = "Clear" /\ fileState = "Clear" /\ stopState = "NotStopping"
    /\ ac = [a \in Actions |-> 0]
    /\ monitored = FALSE /\ task = FALSE /\ held = FALSE /\ pushers = {}
    /\ overflow = FALSE
    /\ wal = 0 /\ done = NoLog /\ queue = 0 /\ queueEmpty = TRUE
    /\ worker = [w \in Workers |-> [pc |-> "free", epoch |-> 0]]
    /\ stopper = [s \in Stoppers |-> "idle"] /\ orphaned = FALSE
    /\ backup = "idle" /\ nrCrashes = 0

Commands ==
    \/ c2sInitVol \/ c2sClearVol \/ c2sStartTarget \/ c2sStartStandby
    \/ c2sResetVolBegin \/ c2sResetVolEnd \/ c2sResetVolCommit \/ c2sResetVolFails
    \/ c2sSnapshot \/ c2sKick
    \/ \E s \in Stoppers :
          \/ c2sStopBegin(s) \/ c2sStopWaited(s) \/ c2sStopTimeout(s)
          \/ c2sStopMonitoring(s) \/ c2sStopSave(s) \/ c2sStopCommit(s) \/ c2sStopLeave(s)

Backup ==
    \/ backupBegin \/ backupResetWal \/ backupClearQueue \/ backupStartMonitoring
    \/ backupSnapshot \/ backupCommit \/ backupFails \/ backupRollsBack

Background ==
    \/ wdevMonitorWorker \/ pushTask \/ LogOverflows \/ DispatchPop
    \/ \E w \in Workers :
          \/ DispatchRun(w) \/ WorkerRefused(w) \/ WorkerBusy(w) \/ WorkerSeesOverflow(w)
          \/ WorkerOverflow(w) \/ WorkerOverflowSave(w) \/ WorkerOverflowCommit(w)
          \/ WorkerBegins(w) \/ WorkerRemoves(w)
          \/ WorkerPrepares(w) \/ WorkerSends(w) \/ WorkerFinishes(w) \/ WorkerFails(w)
          \/ WorkerCloses(w) \/ WorkerPushes(w)

Next == Commands \/ Backup \/ Background \/ CrashAndRestart

Spec == Init /\ [][Next]_vars

-----------------------------------------------------------------------------
(* Properties. *)

\* The action counters count the workers inside their sections and never more
\* than one, although the dispatcher, the monitor, pushers, snapshot and a worker's
\* own retry may each have pushed the volume: finishWlogTransfer relies on it.
OneActionAtATime ==
    /\ ac["WlogSend"]   = Cardinality({w \in Workers : Sending(w)})
    /\ ac["WlogRemove"] = Cardinality({w \in Workers : worker[w].pc = "remove"})
    /\ ac["WlogSend"] + ac["WlogRemove"] <= 1

\* Once a stop has been carried out, no transfer touches the volume any more,
\* so that reset-vol may reset the log and the records.
QuietWhenStopped ==
    sm \in {"StopTarget", "Stopped", "Reset"} => \A w \in Workers : ~Sending(w)

\* The log device is watched exactly as long as the volume is in Target or
\* Standby, over failed backups, stops by overflow and restarts.
MonitoredWhenActive ==
    /\ sm \in {"Target", "Standby"} => monitored
    /\ sm \in {"Clear", "SyncReady", "Stopped"} => ~monitored

\* A restart at any moment finds the state the volume was in, or one of the two
\* ends of the change that was under way: the file of a running backup is that
\* of SyncReady, and a stop, whoever carries it out, has written its end or not.
StateFileAgrees ==
    /\ sm \in SteadyStates => fileState = sm
    /\ sm \in SyncStates => fileState = "SyncReady"
    /\ sm = "StopTarget" => fileState \in {"Target", "Stopped"}
    /\ sm = "StopStandby" => fileState \in {"Standby", "SyncReady"}
    /\ sm = "Reset" => fileState \in {"Stopped", "SyncReady"}

\* A snapshot waiting in the queue of a Target volume always has somebody who
\* will transfer it: a task in the queue or with the dispatcher, a worker that
\* will look at the queue again, or a stop command that is being carried out.
\* Only a stop command that times out after it has made a worker drop the last
\* task breaks this: the task is not pushed again.
SnapshotIsScheduled ==
    sm = "Target" /\ ~queueEmpty /\ ~overflow /\ ~orphaned =>
        PendingTask \/ \E s \in Stoppers : StopUnderWay(s)

\* "recB and recE must not be changed between calling prepareWlogTransfer()
\* and finishWlogTransfer()": both still belong to the log they were read from.
TransferRecordsStable ==
    \A w \in Workers :
        worker[w].pc \in {"prepared", "sent"} => worker[w].epoch = done

\* "Wlogs will be preserved in the log device" of a Stopped volume: the log is
\* still the one the records of the queue point into.
StoppedPreservesWlogs == sm = "Stopped" => wal = queue

=============================================================================
