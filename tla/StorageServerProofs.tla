------------------------ MODULE StorageServerProofs ------------------------
(***************************************************************************)
(* Proofs about StorageServer, for every number of worker threads and of   *)
(* stop handlers and every bound.                                          *)
(*                                                                         *)
(* The properties lean on each other: that the counters are right          *)
(* needs the state a worker is accepted in, that a stop leaves no action   *)
(* needs the counters, that a stop handler or a worker carries out a stop  *)
(* it has begun needs that nobody else moves the state meanwhile.  IInv    *)
(* holds them together.                                                    *)
(***************************************************************************)
EXTENDS StorageServer, FiniteSetTheorems, TLAPS

Removing(w)  == worker[w].pc = "remove"
InSection(w) == Sending(w) \/ Removing(w)

\* At most one worker is inside a section, and the counters tell so.
CounterInv ==
    /\ \A v, w \in Workers : InSection(v) /\ InSection(w) => v = w
    /\ ac["WlogSend"]   = IF \E w \in Workers : Sending(w) THEN 1 ELSE 0
    /\ ac["WlogRemove"] = IF \E w \in Workers : Removing(w) THEN 1 ELSE 0

StopStates  == {"StopTarget", "StopStandby"}
Carrying(s) == stopper[s] \in {"stopping", "save", "commit"}
Stopping(w) == worker[w].pc \in OverflowPcs

\* Who has taken the volume out of a steady state is the only one to move it
\* on, and the sections are empty while the volume is stopped.
OwnerInv ==
    /\ backup # "idle" <=> sm \in SyncStates
    /\ \A s \in Stoppers : Carrying(s) => sm \in StopStates
    /\ \A w \in Workers : Stopping(w) => sm = "StopTarget"
    /\ \A r, s \in Stoppers : Carrying(r) /\ Carrying(s) => r = s
    /\ \A v, w \in Workers : Stopping(v) /\ Stopping(w) => v = w
    /\ \A s \in Stoppers, w \in Workers : ~(Carrying(s) /\ Stopping(w))
    /\ sm \in StopStates \cup {"Stopped", "Reset"} => AllZero

\* Whoever carries out a stop has written the state file and not yet moved the
\* state on.
StopSaved ==
    \/ \E s \in Stoppers : stopper[s] = "commit"
    \/ \E w \in Workers : worker[w].pc = "overflowCommit"

\* The state file, for the states in between as well.
FileInv ==
    /\ sm \in SteadyStates => fileState = sm
    /\ sm \in SyncStates => fileState = "SyncReady"
    /\ sm = "StopTarget" => fileState = IF StopSaved THEN "Stopped" ELSE "Target"
    /\ sm = "StopStandby" => fileState = IF StopSaved THEN "SyncReady" ELSE "Standby"
    /\ sm = "Reset" => fileState \in {"Stopped", "SyncReady"}

\* The monitoring, for the steps of a backup and of a stop as well.
MonitorInv ==
    /\ sm \in {"Target", "Standby"} => monitored
    /\ sm \in {"Clear", "SyncReady", "Stopped", "Reset"} => ~monitored
    /\ backup \in {"syncing", "snapped"} => monitored
    /\ backup \in {"accepted", "clearing", "reset", "failing"} => ~monitored
    /\ \A s \in Stoppers : stopper[s] \in {"save", "commit"} => ~monitored
    /\ \A w \in Workers : worker[w].pc \in {"overflowSave", "overflowCommit"} => ~monitored

StopperBusy == \E s \in Stoppers : StopUnderWay(s)

\* A volume about to become Target at the end of a backup counts as well, and
\* a worker drops a task of such a volume for the sake of a stop command only:
\* one that has done its work and only has to reset the stop state has left
\* the volume in a state nobody leaves meanwhile but to Clear and back.
ScheduleInv ==
    /\ stopState # "NotStopping" =>
            \/ StopperBusy
            \/ sm \in {"Stopped", "SyncReady", "Clear"}
    /\ (sm = "Target" \/ backup = "snapped") /\ ~queueEmpty /\ ~overflow /\ ~orphaned =>
            PendingTask \/ StopperBusy

\* The inductive invariant.
IInv == TypeOK /\ CounterInv /\ OwnerInv /\ FileInv /\ MonitorInv /\ ScheduleInv

-----------------------------------------------------------------------------
(* Every conjunct of the invariant is kept by every action. *)

\* Where a worker thread goes by WorkerTo is one of its places.
LEMMA WorkerToType ==
    ASSUME TypeOK, NEW w \in Workers, NEW pc \in WorkerPcs, WorkerTo(w, pc)
    PROVE  worker' \in [Workers -> [pc : WorkerPcs, epoch : Epochs]]
<1>1. worker[w].epoch \in Epochs /\ 0 \in Epochs
  BY SSBoundsAssumption DEF TypeOK, Epochs
<1>2. PICK e \in Epochs : worker' = [worker EXCEPT ![w] = [pc |-> pc, epoch |-> e]]
  BY <1>1 DEF WorkerTo
<1> QED BY <1>2 DEF TypeOK

\* A counter is decremented by a worker inside its section only, so it stays a
\* natural number.
LEMMA TypeStep == IInv /\ Next => TypeOK'
<1> SUFFICES ASSUME IInv, Next PROVE TypeOK'
  OBVIOUS
<1> USE SSBoundsAssumption DEF IInv, TypeOK, CounterInv, Actions, Epochs, InSection, NoLog,
                               Removing, Sending, SendingPcs, States, SteadyStates, SyncStates,
                               WorkerPcs, OverflowPcs, StopperPcs
<1>1. CASE c2sInitVol
  BY <1>1 DEF c2sInitVol, stops, tasks
<1>2. CASE c2sClearVol
  BY <1>2 DEF c2sClearVol, stops, tasks, volInfo
<1>3. CASE c2sStartTarget
  BY <1>3 DEF c2sStartTarget, startMonitoring, stops, volInfo
<1>4. CASE c2sStartStandby
  <2>1. wal' \in Epochs /\ queue' \in Epochs /\ done' \in Epochs \cup {NoLog}
    BY <1>4 DEF c2sStartStandby, volInfo
  <2>2. overflow' \in BOOLEAN /\ queueEmpty' \in BOOLEAN
    BY <1>4 DEF c2sStartStandby, volInfo
  <2> QED BY <1>4, <2>1, <2>2 DEF c2sStartStandby, startMonitoring, stops, volInfo
<1>5. CASE c2sResetVolBegin
  <2>1. wal' \in Epochs /\ queue' \in Epochs /\ done' \in Epochs \cup {NoLog}
    BY <1>5 DEF c2sResetVolBegin, resetWal
  <2>2. overflow' \in BOOLEAN /\ queueEmpty' \in BOOLEAN
    BY <1>5 DEF c2sResetVolBegin, resetWal
  <2> QED BY <1>5, <2>1, <2>2 DEF c2sResetVolBegin, resetWal, stops, tasks
<1>6. CASE c2sResetVolEnd
  BY <1>6 DEF c2sResetVolEnd, clearQueue, stops, tasks
<1>7. CASE c2sResetVolFails
  BY <1>7 DEF c2sResetVolFails, stops, tasks, volInfo
<1>8. CASE c2sSnapshot
  BY <1>8 DEF c2sSnapshot, stops, volSt
<1>9. CASE c2sKick
  BY <1>9 DEF c2sKick, stops, volInfo, volSt
<1>10. ASSUME NEW s \in Stoppers, c2sStopBegin(s) PROVE TypeOK'
  BY <1>10 DEF c2sStopBegin, StopperEnds, StopperTo, tasks, volInfo
<1>11. ASSUME NEW s \in Stoppers, c2sStopWaited(s) PROVE TypeOK'
  BY <1>11 DEF c2sStopWaited, AllZero, StopperEnds, StopperTo, tasks, volInfo
<1>12. ASSUME NEW s \in Stoppers, c2sStopTimeout(s) PROVE TypeOK'
  BY <1>12 DEF c2sStopTimeout, PendingTask, StopperEnds, StopperTo, tasks, volInfo
<1>13. ASSUME NEW s \in Stoppers, c2sStopMonitoring(s) PROVE TypeOK'
  <2>1. monitored' \in BOOLEAN /\ task' \in BOOLEAN
    BY <1>13 DEF c2sStopMonitoring, stopMonitoring
  <2>2. stopper' \in [Stoppers -> StopperPcs]
    BY <1>13 DEF c2sStopMonitoring, StopperTo
  <2> QED BY <1>13, <2>1, <2>2 DEF c2sStopMonitoring, volInfo, volSt
<1>14. ASSUME NEW s \in Stoppers, c2sStopCommit(s) PROVE TypeOK'
  BY <1>14 DEF c2sStopCommit, StoppedTo, StopperTo, tasks, volInfo
<1>15. CASE backupBegin
  BY <1>15 DEF backupBegin, stops, tasks, volInfo
<1>16. CASE backupResetWal
  <2>1. wal' \in Epochs /\ queue' \in Epochs /\ done' \in Epochs \cup {NoLog}
    BY <1>16 DEF backupResetWal, resetWal
  <2>2. overflow' \in BOOLEAN /\ queueEmpty' \in BOOLEAN
    BY <1>16 DEF backupResetWal, resetWal
  <2> QED BY <1>16, <2>1, <2>2 DEF backupResetWal, resetWal, stops, tasks, volSt
<1>17. CASE backupClearQueue
  BY <1>17 DEF backupClearQueue, clearQueue, stops, tasks
<1>18. CASE backupStartMonitoring
  BY <1>18 DEF backupStartMonitoring, startMonitoring, stops, volInfo, volSt
<1>19. CASE backupSnapshot
  BY <1>19 DEF backupSnapshot, stops, volSt
<1>20. CASE backupCommit
  BY <1>20 DEF backupCommit, stops, tasks, volInfo
<1>21. CASE backupFails
  <2>1. monitored' \in BOOLEAN /\ task' \in BOOLEAN
    BY <1>21 DEF backupFails, stopMonitoring
  <2> QED BY <1>21, <2>1 DEF backupFails, stops, volInfo, volSt
<1>22. CASE backupRollsBack
  BY <1>22 DEF backupRollsBack, stops, tasks, volInfo
<1>23. CASE wdevMonitorWorker
  BY <1>23 DEF wdevMonitorWorker, stops, volInfo, volSt
<1>24. CASE pushTask
  BY <1>24 DEF pushTask, stops, volInfo, volSt
<1>25. CASE LogOverflows
  BY <1>25 DEF LogOverflows, stops, tasks, volInfo, volSt
<1>26. CASE DispatchPop
  <2>1. task' \in BOOLEAN /\ held' \in BOOLEAN
    BY <1>26 DEF DispatchPop
  <2> QED BY <1>26, <2>1 DEF DispatchPop, stops, volInfo, volSt
<1>27. ASSUME NEW w \in Workers, DispatchRun(w) PROVE TypeOK'
  <2>1. worker' \in [Workers -> [pc : WorkerPcs, epoch : Epochs]]
    BY <1>27, WorkerToType DEF DispatchRun
  <2>2. held' \in BOOLEAN
    BY <1>27 DEF DispatchRun
  <2> QED BY <1>27, <2>1, <2>2 DEF DispatchRun, stops, volInfo, volSt
<1>28. ASSUME NEW w \in Workers, WorkerRefused(w) PROVE TypeOK'
  <2>1. worker' \in [Workers -> [pc : WorkerPcs, epoch : Epochs]]
    BY <1>28, WorkerToType DEF WorkerRefused
  <2> QED BY <1>28, <2>1 DEF WorkerRefused, WorkerAccepted, stops, tasks, volInfo, volSt
<1>29. ASSUME NEW w \in Workers, WorkerBusy(w) PROVE TypeOK'
  <2>1. worker' \in [Workers -> [pc : WorkerPcs, epoch : Epochs]]
    BY <1>29, WorkerToType DEF WorkerBusy
  <2> QED BY <1>29, <2>1 DEF WorkerBusy, AllZero, WorkerAccepted, stops, volInfo, volSt
<1>30. ASSUME NEW w \in Workers, WorkerSeesOverflow(w) PROVE TypeOK'
  <2>1. worker' \in [Workers -> [pc : WorkerPcs, epoch : Epochs]]
    BY <1>30, WorkerToType DEF WorkerSeesOverflow
  <2> QED BY <1>30, <2>1 DEF WorkerSeesOverflow, AllZero, WorkerAccepted, stops, tasks, volInfo
<1>31. ASSUME NEW w \in Workers, WorkerBegins(w) PROVE TypeOK'
  <2>1. worker' \in [Workers -> [pc : WorkerPcs, epoch : Epochs]]
    BY <1>31, WorkerToType DEF WorkerBegins
  <2> QED BY <1>31, <2>1 DEF WorkerBegins, AllZero, Incr, WorkerAccepted, stops, tasks, volInfo
<1>32. ASSUME NEW w \in Workers, WorkerOverflow(w) PROVE TypeOK'
  <2>1. worker' \in [Workers -> [pc : WorkerPcs, epoch : Epochs]]
    BY <1>32, WorkerToType DEF WorkerOverflow
  <2>2. monitored' \in BOOLEAN /\ task' \in BOOLEAN
    BY <1>32 DEF WorkerOverflow, stopMonitoring
  <2> QED BY <1>32, <2>1, <2>2 DEF WorkerOverflow, stops, volInfo, volSt
<1>33. ASSUME NEW w \in Workers, WorkerRemoves(w) PROVE TypeOK'
  <2>1. worker' \in [Workers -> [pc : WorkerPcs, epoch : Epochs]]
    BY <1>33, WorkerToType DEF WorkerRemoves
  <2> QED BY <1>33, <2>1 DEF WorkerRemoves, Decr, stops, tasks, volInfo
<1>34. ASSUME NEW w \in Workers, WorkerPrepares(w) PROVE TypeOK'
  <2>1. worker' \in [Workers -> [pc : WorkerPcs, epoch : Epochs]]
    BY <1>34, WorkerToType DEF WorkerPrepares
  <2>2. queueEmpty' \in BOOLEAN
    BY <1>34 DEF WorkerPrepares
  <2> QED BY <1>34, <2>1, <2>2 DEF WorkerPrepares, stops, tasks, volSt
<1>35. ASSUME NEW w \in Workers, WorkerSends(w) PROVE TypeOK'
  <2>1. worker' \in [Workers -> [pc : WorkerPcs, epoch : Epochs]]
    BY <1>35, WorkerToType DEF WorkerSends
  <2> QED BY <1>35, <2>1 DEF WorkerSends, stops, tasks, volInfo, volSt
<1>36. ASSUME NEW w \in Workers, WorkerFinishes(w) PROVE TypeOK'
  <2>1. worker' \in [Workers -> [pc : WorkerPcs, epoch : Epochs]]
    BY <1>36, WorkerToType DEF WorkerFinishes
  <2>2. queueEmpty' \in BOOLEAN /\ done' \in Epochs
    BY <1>36 DEF WorkerFinishes
  <2> QED BY <1>36, <2>1, <2>2 DEF WorkerFinishes, stops, tasks, volSt
<1>37. ASSUME NEW w \in Workers, WorkerFails(w) PROVE TypeOK'
  <2>1. worker' \in [Workers -> [pc : WorkerPcs, epoch : Epochs]]
    BY <1>37, WorkerToType DEF WorkerFails
  <2> QED BY <1>37, <2>1 DEF WorkerFails, Decr, stops, volInfo
<1>38. ASSUME NEW w \in Workers, WorkerCloses(w) PROVE TypeOK'
  <2>1. worker' \in [Workers -> [pc : WorkerPcs, epoch : Epochs]]
    BY <1>38, WorkerToType DEF WorkerCloses
  <2> QED BY <1>38, <2>1 DEF WorkerCloses, Decr, stops, tasks, volInfo
<1>39. ASSUME NEW w \in Workers, WorkerPushes(w) PROVE TypeOK'
  <2>1. worker' \in [Workers -> [pc : WorkerPcs, epoch : Epochs]]
    BY <1>39, WorkerToType DEF WorkerPushes
  <2> QED BY <1>39, <2>1 DEF WorkerPushes, stops, volInfo, volSt
<1>40. CASE CrashAndRestart
  <2>0. (fileState \in {"Target", "Standby"}) \in BOOLEAN
    OBVIOUS
  <2>1. monitored' \in BOOLEAN /\ task' \in BOOLEAN
    BY <1>40, <2>0, Zenon DEF CrashAndRestart
  <2>3. held' \in BOOLEAN /\ orphaned' \in BOOLEAN
    BY <1>40 DEF CrashAndRestart
  <2>2. worker' \in [Workers -> [pc : WorkerPcs, epoch : Epochs]]
    BY <1>40 DEF CrashAndRestart
  <2> QED BY <1>40, <2>1, <2>2, <2>3 DEF CrashAndRestart, volInfo
<1>41. CASE c2sResetVolCommit
  BY <1>41 DEF c2sResetVolCommit, stops, tasks, volInfo
<1>42. ASSUME NEW s \in Stoppers, c2sStopSave(s) PROVE TypeOK'
  BY <1>42 DEF c2sStopSave, StoppedTo, StopperTo, tasks, volInfo
<1>43. ASSUME NEW s \in Stoppers, c2sStopLeave(s) PROVE TypeOK'
  BY <1>43 DEF c2sStopLeave, StopperEnds, StopperTo, tasks, volInfo
<1>44. ASSUME NEW w \in Workers, WorkerOverflowSave(w) PROVE TypeOK'
  <2>1. worker' \in [Workers -> [pc : WorkerPcs, epoch : Epochs]]
    BY <1>44, WorkerToType DEF WorkerOverflowSave
  <2> QED BY <1>44, <2>1 DEF WorkerOverflowSave, stops, tasks, volInfo
<1>45. ASSUME NEW w \in Workers, WorkerOverflowCommit(w) PROVE TypeOK'
  <2>1. worker' \in [Workers -> [pc : WorkerPcs, epoch : Epochs]]
    BY <1>45, WorkerToType DEF WorkerOverflowCommit
  <2> QED BY <1>45, <2>1 DEF WorkerOverflowCommit, stops, tasks, volInfo
<1> QED
  BY <1>1, <1>2, <1>3, <1>4, <1>5, <1>6, <1>7, <1>8, <1>9, <1>10, <1>11, <1>12, <1>13, <1>14,
        <1>15, <1>16, <1>17, <1>18, <1>19, <1>20, <1>21, <1>22, <1>23, <1>24, <1>25, <1>26,
              <1>27, <1>28, <1>29, <1>30, <1>31, <1>32, <1>33, <1>34, <1>35, <1>36, <1>37,
                    <1>38, <1>39, <1>40, <1>41, <1>42, <1>43, <1>44, <1>45 DEF Next, Commands,
                          Backup, Background

\* WorkerBegins enters a section under the mutex and with all counters zero only.
LEMMA CounterStep == IInv /\ Next => CounterInv'
<1> SUFFICES ASSUME IInv, Next PROVE CounterInv'
  OBVIOUS
<1> USE DEF IInv, TypeOK, CounterInv, Actions, Epochs, InSection, NoLog, Removing, Sending,
            SendingPcs, States, SteadyStates, SyncStates, WorkerPcs,
            OverflowPcs, StopperPcs
<1>1. CASE c2sInitVol
  BY <1>1 DEF c2sInitVol, stops, tasks
<1>2. CASE c2sClearVol
  BY <1>2 DEF c2sClearVol, stops, tasks, volInfo
<1>3. CASE c2sStartTarget
  BY <1>3 DEF c2sStartTarget, startMonitoring, stops, volInfo
<1>4. CASE c2sStartStandby
  BY <1>4 DEF c2sStartStandby, startMonitoring, stops, volInfo
<1>5. CASE c2sResetVolBegin
  BY <1>5 DEF c2sResetVolBegin, resetWal, stops, tasks
<1>6. CASE c2sResetVolEnd
  BY <1>6 DEF c2sResetVolEnd, clearQueue, stops, tasks
<1>7. CASE c2sResetVolFails
  BY <1>7 DEF c2sResetVolFails, stops, tasks, volInfo
<1>8. CASE c2sSnapshot
  BY <1>8 DEF c2sSnapshot, stops, volSt
<1>9. CASE c2sKick
  BY <1>9 DEF c2sKick, stops, volInfo, volSt
<1>10. ASSUME NEW s \in Stoppers, c2sStopBegin(s) PROVE CounterInv'
  BY <1>10 DEF c2sStopBegin, StopperEnds, StopperTo, tasks, volInfo
<1>11. ASSUME NEW s \in Stoppers, c2sStopWaited(s) PROVE CounterInv'
  BY <1>11 DEF c2sStopWaited, AllZero, StopperEnds, StopperTo, tasks, volInfo
<1>12. ASSUME NEW s \in Stoppers, c2sStopTimeout(s) PROVE CounterInv'
  BY <1>12 DEF c2sStopTimeout, PendingTask, StopperEnds, StopperTo, tasks, volInfo
<1>13. ASSUME NEW s \in Stoppers, c2sStopMonitoring(s) PROVE CounterInv'
  BY <1>13 DEF c2sStopMonitoring, stopMonitoring, StopperTo, volInfo, volSt
<1>14. ASSUME NEW s \in Stoppers, c2sStopCommit(s) PROVE CounterInv'
  BY <1>14 DEF c2sStopCommit, StoppedTo, StopperTo, tasks, volInfo
<1>15. CASE backupBegin
  BY <1>15 DEF backupBegin, stops, tasks, volInfo
<1>16. CASE backupResetWal
  BY <1>16 DEF backupResetWal, resetWal, stops, tasks, volSt
<1>17. CASE backupClearQueue
  BY <1>17 DEF backupClearQueue, clearQueue, stops, tasks
<1>18. CASE backupStartMonitoring
  BY <1>18 DEF backupStartMonitoring, startMonitoring, stops, volInfo, volSt
<1>19. CASE backupSnapshot
  BY <1>19 DEF backupSnapshot, stops, volSt
<1>20. CASE backupCommit
  BY <1>20 DEF backupCommit, stops, tasks, volInfo
<1>21. CASE backupFails
  BY <1>21 DEF backupFails, stopMonitoring, stops, volInfo, volSt
<1>22. CASE backupRollsBack
  BY <1>22 DEF backupRollsBack, stops, tasks, volInfo
<1>23. CASE wdevMonitorWorker
  BY <1>23 DEF wdevMonitorWorker, stops, volInfo, volSt
<1>24. CASE pushTask
  BY <1>24 DEF pushTask, stops, volInfo, volSt
<1>25. CASE LogOverflows
  BY <1>25 DEF LogOverflows, stops, tasks, volInfo, volSt
<1>26. CASE DispatchPop
  BY <1>26 DEF DispatchPop, stops, volInfo, volSt
<1>27. ASSUME NEW w \in Workers, DispatchRun(w) PROVE CounterInv'
  BY <1>27 DEF DispatchRun, WorkerTo, stops, volInfo, volSt
<1>28. ASSUME NEW w \in Workers, WorkerRefused(w) PROVE CounterInv'
  BY <1>28 DEF WorkerRefused, WorkerAccepted, WorkerTo, stops, tasks, volInfo, volSt
<1>29. ASSUME NEW w \in Workers, WorkerBusy(w) PROVE CounterInv'
  BY <1>29 DEF WorkerBusy, AllZero, WorkerAccepted, WorkerTo, stops, volInfo, volSt
<1>30. ASSUME NEW w \in Workers, WorkerSeesOverflow(w) PROVE CounterInv'
  BY <1>30 DEF WorkerSeesOverflow, AllZero, WorkerAccepted, WorkerTo, stops, tasks, volInfo
<1>31. ASSUME NEW w \in Workers, WorkerBegins(w) PROVE CounterInv'
  <2>1. AllZero /\ \A v \in Workers : ~Sending(v) /\ ~Removing(v)
    BY <1>31 DEF WorkerBegins, AllZero
  <2>2. \A v \in Workers : v # w => worker'[v] = worker[v]
    BY <1>31 DEF WorkerBegins, WorkerTo
  <2>3. CASE sm = "Standby"
    <3>1. worker'[w].pc = "remove" /\ ac'["WlogRemove"] = 1 /\ ac'["WlogSend"] = 0
      BY <1>31, <2>1, <2>3 DEF WorkerBegins, AllZero, Incr, WorkerTo
    <3> QED BY <2>1, <2>2, <3>1
  <2>4. CASE sm # "Standby"
    <3>1. worker'[w].pc = "begin" /\ ac'["WlogRemove"] = 0 /\ ac'["WlogSend"] = 1
      BY <1>31, <2>1, <2>4 DEF WorkerBegins, AllZero, Incr, WorkerTo
    <3> QED BY <2>1, <2>2, <3>1
  <2> QED BY <2>3, <2>4
<1>32. ASSUME NEW w \in Workers, WorkerOverflow(w) PROVE CounterInv'
  BY <1>32 DEF WorkerOverflow, WorkerTo, stopMonitoring, stops, volInfo, volSt
<1>33. ASSUME NEW w \in Workers, WorkerRemoves(w) PROVE CounterInv'
  BY <1>33 DEF WorkerRemoves, Decr, WorkerTo, stops, tasks, volInfo
<1>34. ASSUME NEW w \in Workers, WorkerPrepares(w) PROVE CounterInv'
  BY <1>34 DEF WorkerPrepares, WorkerTo, stops, tasks, volSt
<1>35. ASSUME NEW w \in Workers, WorkerSends(w) PROVE CounterInv'
  BY <1>35 DEF WorkerSends, WorkerTo, stops, tasks, volInfo, volSt
<1>36. ASSUME NEW w \in Workers, WorkerFinishes(w) PROVE CounterInv'
  BY <1>36 DEF WorkerFinishes, WorkerTo, stops, tasks, volSt
<1>37. ASSUME NEW w \in Workers, WorkerFails(w) PROVE CounterInv'
  BY <1>37 DEF WorkerFails, Decr, WorkerTo, stops, volInfo
<1>38. ASSUME NEW w \in Workers, WorkerCloses(w) PROVE CounterInv'
  BY <1>38 DEF WorkerCloses, Decr, WorkerTo, stops, tasks, volInfo
<1>39. ASSUME NEW w \in Workers, WorkerPushes(w) PROVE CounterInv'
  BY <1>39 DEF WorkerPushes, WorkerTo, stops, volInfo, volSt
<1>40. CASE CrashAndRestart
  BY <1>40 DEF CrashAndRestart, volInfo
<1>41. CASE c2sResetVolCommit
  BY <1>41 DEF c2sResetVolCommit, stops, tasks, volInfo
<1>42. ASSUME NEW s \in Stoppers, c2sStopSave(s) PROVE CounterInv'
  BY <1>42 DEF c2sStopSave, StoppedTo, StopperTo, tasks, volInfo
<1>43. ASSUME NEW s \in Stoppers, c2sStopLeave(s) PROVE CounterInv'
  BY <1>43 DEF c2sStopLeave, StopperEnds, StopperTo, tasks, volInfo
<1>44. ASSUME NEW w \in Workers, WorkerOverflowSave(w) PROVE CounterInv'
  BY <1>44 DEF WorkerOverflowSave, WorkerTo, stops, tasks, volInfo
<1>45. ASSUME NEW w \in Workers, WorkerOverflowCommit(w) PROVE CounterInv'
  BY <1>45 DEF WorkerOverflowCommit, WorkerTo, stops, tasks, volInfo
<1> QED
  BY <1>1, <1>2, <1>3, <1>4, <1>5, <1>6, <1>7, <1>8, <1>9, <1>10, <1>11, <1>12, <1>13, <1>14,
        <1>15, <1>16, <1>17, <1>18, <1>19, <1>20, <1>21, <1>22, <1>23, <1>24, <1>25, <1>26,
              <1>27, <1>28, <1>29, <1>30, <1>31, <1>32, <1>33, <1>34, <1>35, <1>36, <1>37,
                    <1>38, <1>39, <1>40, <1>41, <1>42, <1>43, <1>44, <1>45 DEF Next, Commands,
                          Backup, Background

\* A step that moves the state is taken by its owner, or in a steady state.
LEMMA OwnerStep == IInv /\ Next => OwnerInv'
<1> SUFFICES ASSUME IInv, Next PROVE OwnerInv'
  OBVIOUS
<1> USE DEF IInv, TypeOK, CounterInv, OwnerInv, Actions, AllZero, Carrying, Epochs, InSection,
            NoLog, Removing, Sending, SendingPcs, States, SteadyStates, StopStates, Stopping,
            SyncStates, WorkerPcs,
            OverflowPcs, StopperPcs
<1>1. CASE c2sInitVol
  BY <1>1 DEF c2sInitVol, stops, tasks
<1>2. CASE c2sClearVol
  BY <1>2 DEF c2sClearVol, stops, tasks, volInfo
<1>3. CASE c2sStartTarget
  BY <1>3 DEF c2sStartTarget, startMonitoring, stops, volInfo
<1>4. CASE c2sStartStandby
  BY <1>4 DEF c2sStartStandby, startMonitoring, stops, volInfo
<1>5. CASE c2sResetVolBegin
  BY <1>5 DEF c2sResetVolBegin, resetWal, stops, tasks
<1>6. CASE c2sResetVolEnd
  BY <1>6 DEF c2sResetVolEnd, clearQueue, stops, tasks
<1>7. CASE c2sResetVolFails
  BY <1>7 DEF c2sResetVolFails, stops, tasks, volInfo
<1>8. CASE c2sSnapshot
  BY <1>8 DEF c2sSnapshot, stops, volSt
<1>9. CASE c2sKick
  BY <1>9 DEF c2sKick, stops, volInfo, volSt
<1>10. ASSUME NEW s \in Stoppers, c2sStopBegin(s) PROVE OwnerInv'
  BY <1>10 DEF c2sStopBegin, StopperEnds, StopperTo, tasks, volInfo
<1>11. ASSUME NEW s \in Stoppers, c2sStopWaited(s) PROVE OwnerInv'
  BY <1>11 DEF c2sStopWaited, StopperEnds, StopperTo, tasks, volInfo
<1>12. ASSUME NEW s \in Stoppers, c2sStopTimeout(s) PROVE OwnerInv'
  BY <1>12 DEF c2sStopTimeout, PendingTask, StopperEnds, StopperTo, tasks, volInfo
<1>13. ASSUME NEW s \in Stoppers, c2sStopMonitoring(s) PROVE OwnerInv'
  BY <1>13 DEF c2sStopMonitoring, stopMonitoring, StopperTo, volInfo, volSt
<1>14. ASSUME NEW s \in Stoppers, c2sStopCommit(s) PROVE OwnerInv'
  BY <1>14 DEF c2sStopCommit, StoppedTo, StopperTo, tasks, volInfo
<1>15. CASE backupBegin
  BY <1>15 DEF backupBegin, stops, tasks, volInfo
<1>16. CASE backupResetWal
  BY <1>16 DEF backupResetWal, resetWal, stops, tasks, volSt
<1>17. CASE backupClearQueue
  BY <1>17 DEF backupClearQueue, clearQueue, stops, tasks
<1>18. CASE backupStartMonitoring
  BY <1>18 DEF backupStartMonitoring, startMonitoring, stops, volInfo, volSt
<1>19. CASE backupSnapshot
  BY <1>19 DEF backupSnapshot, stops, volSt
<1>20. CASE backupCommit
  BY <1>20 DEF backupCommit, stops, tasks, volInfo
<1>21. CASE backupFails
  BY <1>21 DEF backupFails, stopMonitoring, stops, volInfo, volSt
<1>22. CASE backupRollsBack
  BY <1>22 DEF backupRollsBack, stops, tasks, volInfo
<1>23. CASE wdevMonitorWorker
  BY <1>23 DEF wdevMonitorWorker, stops, volInfo, volSt
<1>24. CASE pushTask
  BY <1>24 DEF pushTask, stops, volInfo, volSt
<1>25. CASE LogOverflows
  BY <1>25 DEF LogOverflows, stops, tasks, volInfo, volSt
<1>26. CASE DispatchPop
  BY <1>26 DEF DispatchPop, stops, volInfo, volSt
<1>27. ASSUME NEW w \in Workers, DispatchRun(w) PROVE OwnerInv'
  BY <1>27 DEF DispatchRun, WorkerTo, stops, volInfo, volSt
<1>28. ASSUME NEW w \in Workers, WorkerRefused(w) PROVE OwnerInv'
  BY <1>28 DEF WorkerRefused, WorkerAccepted, WorkerTo, stops, tasks, volInfo, volSt
<1>29. ASSUME NEW w \in Workers, WorkerBusy(w) PROVE OwnerInv'
  BY <1>29 DEF WorkerBusy, WorkerAccepted, WorkerTo, stops, volInfo, volSt
<1>30. ASSUME NEW w \in Workers, WorkerSeesOverflow(w) PROVE OwnerInv'
  BY <1>30 DEF WorkerSeesOverflow, WorkerAccepted, WorkerTo, stops, tasks, volInfo
<1>31. ASSUME NEW w \in Workers, WorkerBegins(w) PROVE OwnerInv'
  BY <1>31 DEF WorkerBegins, Incr, WorkerAccepted, WorkerTo, stops, tasks, volInfo
<1>32. ASSUME NEW w \in Workers, WorkerOverflow(w) PROVE OwnerInv'
  BY <1>32 DEF WorkerOverflow, WorkerTo, stopMonitoring, stops, volInfo, volSt
<1>33. ASSUME NEW w \in Workers, WorkerRemoves(w) PROVE OwnerInv'
  BY <1>33 DEF WorkerRemoves, Decr, WorkerTo, stops, tasks, volInfo
<1>34. ASSUME NEW w \in Workers, WorkerPrepares(w) PROVE OwnerInv'
  BY <1>34 DEF WorkerPrepares, WorkerTo, stops, tasks, volSt
<1>35. ASSUME NEW w \in Workers, WorkerSends(w) PROVE OwnerInv'
  BY <1>35 DEF WorkerSends, WorkerTo, stops, tasks, volInfo, volSt
<1>36. ASSUME NEW w \in Workers, WorkerFinishes(w) PROVE OwnerInv'
  BY <1>36 DEF WorkerFinishes, WorkerTo, stops, tasks, volSt
<1>37. ASSUME NEW w \in Workers, WorkerFails(w) PROVE OwnerInv'
  BY <1>37 DEF WorkerFails, Decr, WorkerTo, stops, volInfo
<1>38. ASSUME NEW w \in Workers, WorkerCloses(w) PROVE OwnerInv'
  BY <1>38 DEF WorkerCloses, Decr, WorkerTo, stops, tasks, volInfo
<1>39. ASSUME NEW w \in Workers, WorkerPushes(w) PROVE OwnerInv'
  BY <1>39 DEF WorkerPushes, WorkerTo, stops, volInfo, volSt
<1>40. CASE CrashAndRestart
  BY <1>40 DEF CrashAndRestart, volInfo
<1>41. CASE c2sResetVolCommit
  BY <1>41 DEF c2sResetVolCommit, stops, tasks, volInfo
<1>42. ASSUME NEW s \in Stoppers, c2sStopSave(s) PROVE OwnerInv'
  BY <1>42 DEF c2sStopSave, StoppedTo, StopperTo, tasks, volInfo
<1>43. ASSUME NEW s \in Stoppers, c2sStopLeave(s) PROVE OwnerInv'
  BY <1>43 DEF c2sStopLeave, StopperEnds, StopperTo, tasks, volInfo
<1>44. ASSUME NEW w \in Workers, WorkerOverflowSave(w) PROVE OwnerInv'
  BY <1>44 DEF WorkerOverflowSave, WorkerTo, stops, tasks, volInfo
<1>45. ASSUME NEW w \in Workers, WorkerOverflowCommit(w) PROVE OwnerInv'
  BY <1>45 DEF WorkerOverflowCommit, WorkerTo, stops, tasks, volInfo
<1> QED
  BY <1>1, <1>2, <1>3, <1>4, <1>5, <1>6, <1>7, <1>8, <1>9, <1>10, <1>11, <1>12, <1>13, <1>14,
        <1>15, <1>16, <1>17, <1>18, <1>19, <1>20, <1>21, <1>22, <1>23, <1>24, <1>25, <1>26,
              <1>27, <1>28, <1>29, <1>30, <1>31, <1>32, <1>33, <1>34, <1>35, <1>36, <1>37,
                    <1>38, <1>39, <1>40, <1>41, <1>42, <1>43, <1>44, <1>45 DEF Next, Commands,
                          Backup, Background

\* Each step that changes the state file changes the state with it, or leaves
\* the file at the state its owner came from.
LEMMA FileStep == IInv /\ Next => FileInv'
<1> SUFFICES ASSUME IInv, Next PROVE FileInv'
  OBVIOUS
<1> USE DEF IInv, TypeOK, OwnerInv, FileInv, StopSaved, Actions, AllZero, Carrying, Epochs, NoLog,
            SendingPcs, States, SteadyStates, StopStates, Stopping, SyncStates, WorkerPcs,
            OverflowPcs, StopperPcs
<1>1. CASE c2sInitVol
  BY <1>1 DEF c2sInitVol, stops, tasks
<1>2. CASE c2sClearVol
  BY <1>2 DEF c2sClearVol, stops, tasks, volInfo
<1>3. CASE c2sStartTarget
  BY <1>3 DEF c2sStartTarget, startMonitoring, stops, volInfo
<1>4. CASE c2sStartStandby
  BY <1>4 DEF c2sStartStandby, startMonitoring, stops, volInfo
<1>5. CASE c2sResetVolBegin
  BY <1>5 DEF c2sResetVolBegin, resetWal, stops, tasks
<1>6. CASE c2sResetVolEnd
  BY <1>6 DEF c2sResetVolEnd, clearQueue, stops, tasks
<1>7. CASE c2sResetVolFails
  BY <1>7 DEF c2sResetVolFails, stops, tasks, volInfo
<1>8. CASE c2sSnapshot
  BY <1>8 DEF c2sSnapshot, stops, volSt
<1>9. CASE c2sKick
  BY <1>9 DEF c2sKick, stops, volInfo, volSt
<1>10. ASSUME NEW s \in Stoppers, c2sStopBegin(s) PROVE FileInv'
  BY <1>10 DEF c2sStopBegin, StopperEnds, StopperTo, tasks, volInfo
<1>11. ASSUME NEW s \in Stoppers, c2sStopWaited(s) PROVE FileInv'
  BY <1>11 DEF c2sStopWaited, StopperEnds, StopperTo, tasks, volInfo
<1>12. ASSUME NEW s \in Stoppers, c2sStopTimeout(s) PROVE FileInv'
  BY <1>12 DEF c2sStopTimeout, PendingTask, StopperEnds, StopperTo, tasks, volInfo
<1>13. ASSUME NEW s \in Stoppers, c2sStopMonitoring(s) PROVE FileInv'
  BY <1>13 DEF c2sStopMonitoring, stopMonitoring, StopperTo, volInfo, volSt
<1>14. ASSUME NEW s \in Stoppers, c2sStopCommit(s) PROVE FileInv'
  BY <1>14 DEF c2sStopCommit, StoppedTo, StopperTo, tasks, volInfo
<1>15. CASE backupBegin
  BY <1>15 DEF backupBegin, stops, tasks, volInfo
<1>16. CASE backupResetWal
  BY <1>16 DEF backupResetWal, resetWal, stops, tasks, volSt
<1>17. CASE backupClearQueue
  BY <1>17 DEF backupClearQueue, clearQueue, stops, tasks
<1>18. CASE backupStartMonitoring
  BY <1>18 DEF backupStartMonitoring, startMonitoring, stops, volInfo, volSt
<1>19. CASE backupSnapshot
  BY <1>19 DEF backupSnapshot, stops, volSt
<1>20. CASE backupCommit
  BY <1>20 DEF backupCommit, stops, tasks, volInfo
<1>21. CASE backupFails
  BY <1>21 DEF backupFails, stopMonitoring, stops, volInfo, volSt
<1>22. CASE backupRollsBack
  BY <1>22 DEF backupRollsBack, stops, tasks, volInfo
<1>23. CASE wdevMonitorWorker
  BY <1>23 DEF wdevMonitorWorker, stops, volInfo, volSt
<1>24. CASE pushTask
  BY <1>24 DEF pushTask, stops, volInfo, volSt
<1>25. CASE LogOverflows
  BY <1>25 DEF LogOverflows, stops, tasks, volInfo, volSt
<1>26. CASE DispatchPop
  BY <1>26 DEF DispatchPop, stops, volInfo, volSt
<1>27. ASSUME NEW w \in Workers, DispatchRun(w) PROVE FileInv'
  BY <1>27 DEF DispatchRun, WorkerTo, stops, volInfo, volSt
<1>28. ASSUME NEW w \in Workers, WorkerRefused(w) PROVE FileInv'
  BY <1>28 DEF WorkerRefused, WorkerAccepted, WorkerTo, stops, tasks, volInfo, volSt
<1>29. ASSUME NEW w \in Workers, WorkerBusy(w) PROVE FileInv'
  BY <1>29 DEF WorkerBusy, WorkerAccepted, WorkerTo, stops, volInfo, volSt
<1>30. ASSUME NEW w \in Workers, WorkerSeesOverflow(w) PROVE FileInv'
  BY <1>30 DEF WorkerSeesOverflow, WorkerAccepted, WorkerTo, stops, tasks, volInfo
<1>31. ASSUME NEW w \in Workers, WorkerBegins(w) PROVE FileInv'
  BY <1>31 DEF WorkerBegins, Incr, WorkerAccepted, WorkerTo, stops, tasks, volInfo
<1>32. ASSUME NEW w \in Workers, WorkerOverflow(w) PROVE FileInv'
  BY <1>32 DEF WorkerOverflow, WorkerTo, stopMonitoring, stops, volInfo, volSt
<1>33. ASSUME NEW w \in Workers, WorkerRemoves(w) PROVE FileInv'
  BY <1>33 DEF WorkerRemoves, Decr, WorkerTo, stops, tasks, volInfo
<1>34. ASSUME NEW w \in Workers, WorkerPrepares(w) PROVE FileInv'
  BY <1>34 DEF WorkerPrepares, WorkerTo, stops, tasks, volSt
<1>35. ASSUME NEW w \in Workers, WorkerSends(w) PROVE FileInv'
  BY <1>35 DEF WorkerSends, WorkerTo, stops, tasks, volInfo, volSt
<1>36. ASSUME NEW w \in Workers, WorkerFinishes(w) PROVE FileInv'
  BY <1>36 DEF WorkerFinishes, WorkerTo, stops, tasks, volSt
<1>37. ASSUME NEW w \in Workers, WorkerFails(w) PROVE FileInv'
  BY <1>37 DEF WorkerFails, Decr, WorkerTo, stops, volInfo
<1>38. ASSUME NEW w \in Workers, WorkerCloses(w) PROVE FileInv'
  BY <1>38 DEF WorkerCloses, Decr, WorkerTo, stops, tasks, volInfo
<1>39. ASSUME NEW w \in Workers, WorkerPushes(w) PROVE FileInv'
  BY <1>39 DEF WorkerPushes, WorkerTo, stops, volInfo, volSt
<1>40. CASE CrashAndRestart
  BY <1>40 DEF CrashAndRestart, volInfo
<1>41. CASE c2sResetVolCommit
  BY <1>41 DEF c2sResetVolCommit, stops, tasks, volInfo
<1>42. ASSUME NEW s \in Stoppers, c2sStopSave(s) PROVE FileInv'
  BY <1>42 DEF c2sStopSave, StoppedTo, StopperTo, tasks, volInfo
<1>43. ASSUME NEW s \in Stoppers, c2sStopLeave(s) PROVE FileInv'
  BY <1>43 DEF c2sStopLeave, StopperEnds, StopperTo, tasks, volInfo
<1>44. ASSUME NEW w \in Workers, WorkerOverflowSave(w) PROVE FileInv'
  BY <1>44 DEF WorkerOverflowSave, WorkerTo, stops, tasks, volInfo
<1>45. ASSUME NEW w \in Workers, WorkerOverflowCommit(w) PROVE FileInv'
  BY <1>45 DEF WorkerOverflowCommit, WorkerTo, stops, tasks, volInfo
<1> QED
  BY <1>1, <1>2, <1>3, <1>4, <1>5, <1>6, <1>7, <1>8, <1>9, <1>10, <1>11, <1>12, <1>13, <1>14,
        <1>15, <1>16, <1>17, <1>18, <1>19, <1>20, <1>21, <1>22, <1>23, <1>24, <1>25, <1>26,
              <1>27, <1>28, <1>29, <1>30, <1>31, <1>32, <1>33, <1>34, <1>35, <1>36, <1>37,
                    <1>38, <1>39, <1>40, <1>41, <1>42, <1>43, <1>44, <1>45 DEF Next, Commands,
                          Backup, Background

\* The monitoring begins and ends with the owner of the state.
LEMMA MonitorStep == IInv /\ Next => MonitorInv'
<1> SUFFICES ASSUME IInv, Next PROVE MonitorInv'
  OBVIOUS
<1> USE DEF IInv, TypeOK, OwnerInv, MonitorInv, Actions, AllZero, Carrying, Epochs, NoLog,
            SendingPcs, States, SteadyStates, StopStates, Stopping, SyncStates, WorkerPcs,
            OverflowPcs, StopperPcs
<1>1. CASE c2sInitVol
  BY <1>1 DEF c2sInitVol, stops, tasks
<1>2. CASE c2sClearVol
  BY <1>2 DEF c2sClearVol, stops, tasks, volInfo
<1>3. CASE c2sStartTarget
  BY <1>3 DEF c2sStartTarget, startMonitoring, stops, volInfo
<1>4. CASE c2sStartStandby
  BY <1>4 DEF c2sStartStandby, startMonitoring, stops, volInfo
<1>5. CASE c2sResetVolBegin
  BY <1>5 DEF c2sResetVolBegin, resetWal, stops, tasks
<1>6. CASE c2sResetVolEnd
  BY <1>6 DEF c2sResetVolEnd, clearQueue, stops, tasks
<1>7. CASE c2sResetVolFails
  BY <1>7 DEF c2sResetVolFails, stops, tasks, volInfo
<1>8. CASE c2sSnapshot
  BY <1>8 DEF c2sSnapshot, stops, volSt
<1>9. CASE c2sKick
  BY <1>9 DEF c2sKick, stops, volInfo, volSt
<1>10. ASSUME NEW s \in Stoppers, c2sStopBegin(s) PROVE MonitorInv'
  BY <1>10 DEF c2sStopBegin, StopperEnds, StopperTo, tasks, volInfo
<1>11. ASSUME NEW s \in Stoppers, c2sStopWaited(s) PROVE MonitorInv'
  BY <1>11 DEF c2sStopWaited, StopperEnds, StopperTo, tasks, volInfo
<1>12. ASSUME NEW s \in Stoppers, c2sStopTimeout(s) PROVE MonitorInv'
  BY <1>12 DEF c2sStopTimeout, PendingTask, StopperEnds, StopperTo, tasks, volInfo
<1>13. ASSUME NEW s \in Stoppers, c2sStopMonitoring(s) PROVE MonitorInv'
  BY <1>13 DEF c2sStopMonitoring, stopMonitoring, StopperTo, volInfo, volSt
<1>14. ASSUME NEW s \in Stoppers, c2sStopCommit(s) PROVE MonitorInv'
  BY <1>14 DEF c2sStopCommit, StoppedTo, StopperTo, tasks, volInfo
<1>15. CASE backupBegin
  BY <1>15 DEF backupBegin, stops, tasks, volInfo
<1>16. CASE backupResetWal
  BY <1>16 DEF backupResetWal, resetWal, stops, tasks, volSt
<1>17. CASE backupClearQueue
  BY <1>17 DEF backupClearQueue, clearQueue, stops, tasks
<1>18. CASE backupStartMonitoring
  BY <1>18 DEF backupStartMonitoring, startMonitoring, stops, volInfo, volSt
<1>19. CASE backupSnapshot
  BY <1>19 DEF backupSnapshot, stops, volSt
<1>20. CASE backupCommit
  BY <1>20 DEF backupCommit, stops, tasks, volInfo
<1>21. CASE backupFails
  BY <1>21 DEF backupFails, stopMonitoring, stops, volInfo, volSt
<1>22. CASE backupRollsBack
  BY <1>22 DEF backupRollsBack, stops, tasks, volInfo
<1>23. CASE wdevMonitorWorker
  BY <1>23 DEF wdevMonitorWorker, stops, volInfo, volSt
<1>24. CASE pushTask
  BY <1>24 DEF pushTask, stops, volInfo, volSt
<1>25. CASE LogOverflows
  BY <1>25 DEF LogOverflows, stops, tasks, volInfo, volSt
<1>26. CASE DispatchPop
  BY <1>26 DEF DispatchPop, stops, volInfo, volSt
<1>27. ASSUME NEW w \in Workers, DispatchRun(w) PROVE MonitorInv'
  BY <1>27 DEF DispatchRun, WorkerTo, stops, volInfo, volSt
<1>28. ASSUME NEW w \in Workers, WorkerRefused(w) PROVE MonitorInv'
  BY <1>28 DEF WorkerRefused, WorkerAccepted, WorkerTo, stops, tasks, volInfo, volSt
<1>29. ASSUME NEW w \in Workers, WorkerBusy(w) PROVE MonitorInv'
  BY <1>29 DEF WorkerBusy, WorkerAccepted, WorkerTo, stops, volInfo, volSt
<1>30. ASSUME NEW w \in Workers, WorkerSeesOverflow(w) PROVE MonitorInv'
  BY <1>30 DEF WorkerSeesOverflow, WorkerAccepted, WorkerTo, stops, tasks, volInfo
<1>31. ASSUME NEW w \in Workers, WorkerBegins(w) PROVE MonitorInv'
  BY <1>31 DEF WorkerBegins, Incr, WorkerAccepted, WorkerTo, stops, tasks, volInfo
<1>32. ASSUME NEW w \in Workers, WorkerOverflow(w) PROVE MonitorInv'
  BY <1>32 DEF WorkerOverflow, WorkerTo, stopMonitoring, stops, volInfo, volSt
<1>33. ASSUME NEW w \in Workers, WorkerRemoves(w) PROVE MonitorInv'
  BY <1>33 DEF WorkerRemoves, Decr, WorkerTo, stops, tasks, volInfo
<1>34. ASSUME NEW w \in Workers, WorkerPrepares(w) PROVE MonitorInv'
  BY <1>34 DEF WorkerPrepares, WorkerTo, stops, tasks, volSt
<1>35. ASSUME NEW w \in Workers, WorkerSends(w) PROVE MonitorInv'
  BY <1>35 DEF WorkerSends, WorkerTo, stops, tasks, volInfo, volSt
<1>36. ASSUME NEW w \in Workers, WorkerFinishes(w) PROVE MonitorInv'
  BY <1>36 DEF WorkerFinishes, WorkerTo, stops, tasks, volSt
<1>37. ASSUME NEW w \in Workers, WorkerFails(w) PROVE MonitorInv'
  BY <1>37 DEF WorkerFails, Decr, WorkerTo, stops, volInfo
<1>38. ASSUME NEW w \in Workers, WorkerCloses(w) PROVE MonitorInv'
  BY <1>38 DEF WorkerCloses, Decr, WorkerTo, stops, tasks, volInfo
<1>39. ASSUME NEW w \in Workers, WorkerPushes(w) PROVE MonitorInv'
  BY <1>39 DEF WorkerPushes, WorkerTo, stops, volInfo, volSt
<1>40. CASE CrashAndRestart
  BY <1>40 DEF CrashAndRestart, volInfo
<1>41. CASE c2sResetVolCommit
  BY <1>41 DEF c2sResetVolCommit, stops, tasks, volInfo
<1>42. ASSUME NEW s \in Stoppers, c2sStopSave(s) PROVE MonitorInv'
  BY <1>42 DEF c2sStopSave, StoppedTo, StopperTo, tasks, volInfo
<1>43. ASSUME NEW s \in Stoppers, c2sStopLeave(s) PROVE MonitorInv'
  BY <1>43 DEF c2sStopLeave, StopperEnds, StopperTo, tasks, volInfo
<1>44. ASSUME NEW w \in Workers, WorkerOverflowSave(w) PROVE MonitorInv'
  BY <1>44 DEF WorkerOverflowSave, WorkerTo, stops, tasks, volInfo
<1>45. ASSUME NEW w \in Workers, WorkerOverflowCommit(w) PROVE MonitorInv'
  BY <1>45 DEF WorkerOverflowCommit, WorkerTo, stops, tasks, volInfo
<1> QED
  BY <1>1, <1>2, <1>3, <1>4, <1>5, <1>6, <1>7, <1>8, <1>9, <1>10, <1>11, <1>12, <1>13, <1>14,
        <1>15, <1>16, <1>17, <1>18, <1>19, <1>20, <1>21, <1>22, <1>23, <1>24, <1>25, <1>26,
              <1>27, <1>28, <1>29, <1>30, <1>31, <1>32, <1>33, <1>34, <1>35, <1>36, <1>37,
                    <1>38, <1>39, <1>40, <1>41, <1>42, <1>43, <1>44, <1>45 DEF Next, Commands,
                          Backup, Background

\* Who drops the task has seen a stop command, or leaves the queue empty.
LEMMA ScheduleStep == IInv /\ Next => ScheduleInv'
<1> SUFFICES ASSUME IInv, Next PROVE ScheduleInv'
  OBVIOUS
<1> USE DEF IInv, TypeOK, OwnerInv, FileInv, ScheduleInv, Actions, AllZero, Carrying, Epochs,
            NoLog, PendingTask, SendingPcs, States, SteadyStates, StopStates, StopperBusy,
            StopUnderWay,
            Stopping, SyncStates, WorkerPcs,
            OverflowPcs, StopperPcs
<1>1. CASE c2sInitVol
  BY <1>1 DEF c2sInitVol, stops, tasks
<1>2. CASE c2sClearVol
  BY <1>2 DEF c2sClearVol, stops, tasks, volInfo
<1>3. CASE c2sStartTarget
  BY <1>3 DEF c2sStartTarget, startMonitoring, stops, volInfo
<1>4. CASE c2sStartStandby
  BY <1>4 DEF c2sStartStandby, startMonitoring, stops, volInfo
<1>5. CASE c2sResetVolBegin
  BY <1>5 DEF c2sResetVolBegin, resetWal, stops, tasks
<1>6. CASE c2sResetVolEnd
  BY <1>6 DEF c2sResetVolEnd, clearQueue, stops, tasks
<1>7. CASE c2sResetVolFails
  BY <1>7 DEF c2sResetVolFails, stops, tasks, volInfo
<1>8. CASE c2sSnapshot
  BY <1>8 DEF c2sSnapshot, stops, volSt
<1>9. CASE c2sKick
  BY <1>9 DEF c2sKick, stops, volInfo, volSt
<1>10. ASSUME NEW s \in Stoppers, c2sStopBegin(s) PROVE ScheduleInv'
  BY <1>10 DEF c2sStopBegin, StopperEnds, StopperTo, tasks, volInfo
<1>11. ASSUME NEW s \in Stoppers, c2sStopWaited(s) PROVE ScheduleInv'
  BY <1>11 DEF c2sStopWaited, StopperEnds, StopperTo, tasks, volInfo
<1>12. ASSUME NEW s \in Stoppers, c2sStopTimeout(s) PROVE ScheduleInv'
  BY <1>12 DEF c2sStopTimeout, StopperEnds, StopperTo, tasks, volInfo
<1>13. ASSUME NEW s \in Stoppers, c2sStopMonitoring(s) PROVE ScheduleInv'
  BY <1>13 DEF c2sStopMonitoring, stopMonitoring, StopperTo, volInfo, volSt
<1>14. ASSUME NEW s \in Stoppers, c2sStopCommit(s) PROVE ScheduleInv'
  BY <1>14 DEF c2sStopCommit, StoppedTo, StopperTo, tasks, volInfo
<1>15. CASE backupBegin
  BY <1>15 DEF backupBegin, stops, tasks, volInfo
<1>16. CASE backupResetWal
  BY <1>16 DEF backupResetWal, resetWal, stops, tasks, volSt
<1>17. CASE backupClearQueue
  BY <1>17 DEF backupClearQueue, clearQueue, stops, tasks
<1>18. CASE backupStartMonitoring
  BY <1>18 DEF backupStartMonitoring, startMonitoring, stops, volInfo, volSt
<1>19. CASE backupSnapshot
  BY <1>19 DEF backupSnapshot, stops, volSt
<1>20. CASE backupCommit
  BY <1>20 DEF backupCommit, stops, tasks, volInfo
<1>21. CASE backupFails
  BY <1>21 DEF backupFails, stopMonitoring, stops, volInfo, volSt
<1>22. CASE backupRollsBack
  BY <1>22 DEF backupRollsBack, stops, tasks, volInfo
<1>23. CASE wdevMonitorWorker
  BY <1>23 DEF wdevMonitorWorker, stops, volInfo, volSt
<1>24. CASE pushTask
  BY <1>24 DEF pushTask, stops, volInfo, volSt
<1>25. CASE LogOverflows
  BY <1>25 DEF LogOverflows, stops, tasks, volInfo, volSt
<1>26. CASE DispatchPop
  BY <1>26 DEF DispatchPop, stops, volInfo, volSt
<1>27. ASSUME NEW w \in Workers, DispatchRun(w) PROVE ScheduleInv'
  BY <1>27 DEF DispatchRun, WorkerTo, stops, volInfo, volSt
<1>28. ASSUME NEW w \in Workers, WorkerRefused(w) PROVE ScheduleInv'
  BY <1>28 DEF WorkerRefused, WorkerAccepted, WorkerTo, stops, tasks, volInfo, volSt
<1>29. ASSUME NEW w \in Workers, WorkerBusy(w) PROVE ScheduleInv'
  BY <1>29 DEF WorkerBusy, WorkerAccepted, WorkerTo, stops, volInfo, volSt
<1>30. ASSUME NEW w \in Workers, WorkerSeesOverflow(w) PROVE ScheduleInv'
  BY <1>30 DEF WorkerSeesOverflow, WorkerAccepted, WorkerTo, stops, tasks, volInfo
<1>31. ASSUME NEW w \in Workers, WorkerBegins(w) PROVE ScheduleInv'
  BY <1>31 DEF WorkerBegins, Incr, WorkerAccepted, WorkerTo, stops, tasks, volInfo
<1>32. ASSUME NEW w \in Workers, WorkerOverflow(w) PROVE ScheduleInv'
  BY <1>32 DEF WorkerOverflow, WorkerTo, stopMonitoring, stops, volInfo, volSt
<1>33. ASSUME NEW w \in Workers, WorkerRemoves(w) PROVE ScheduleInv'
  BY <1>33 DEF WorkerRemoves, Decr, WorkerTo, stops, tasks, volInfo
<1>34. ASSUME NEW w \in Workers, WorkerPrepares(w) PROVE ScheduleInv'
  BY <1>34 DEF WorkerPrepares, WorkerTo, stops, tasks, volSt
<1>35. ASSUME NEW w \in Workers, WorkerSends(w) PROVE ScheduleInv'
  BY <1>35 DEF WorkerSends, WorkerTo, stops, tasks, volInfo, volSt
<1>36. ASSUME NEW w \in Workers, WorkerFinishes(w) PROVE ScheduleInv'
  BY <1>36 DEF WorkerFinishes, WorkerTo, stops, tasks, volSt
<1>37. ASSUME NEW w \in Workers, WorkerFails(w) PROVE ScheduleInv'
  BY <1>37 DEF WorkerFails, Decr, WorkerTo, stops, volInfo
<1>38. ASSUME NEW w \in Workers, WorkerCloses(w) PROVE ScheduleInv'
  BY <1>38 DEF WorkerCloses, Decr, WorkerTo, stops, tasks, volInfo
<1>39. ASSUME NEW w \in Workers, WorkerPushes(w) PROVE ScheduleInv'
  BY <1>39 DEF WorkerPushes, WorkerTo, stops, volInfo, volSt
<1>40. CASE CrashAndRestart
  BY <1>40 DEF CrashAndRestart, volInfo
<1>41. CASE c2sResetVolCommit
  BY <1>41 DEF c2sResetVolCommit, stops, tasks, volInfo
<1>42. ASSUME NEW s \in Stoppers, c2sStopSave(s) PROVE ScheduleInv'
  BY <1>42 DEF c2sStopSave, StoppedTo, StopperTo, tasks, volInfo
<1>43. ASSUME NEW s \in Stoppers, c2sStopLeave(s) PROVE ScheduleInv'
  BY <1>43 DEF c2sStopLeave, StopperEnds, StopperTo, tasks, volInfo
<1>44. ASSUME NEW w \in Workers, WorkerOverflowSave(w) PROVE ScheduleInv'
  BY <1>44 DEF WorkerOverflowSave, WorkerTo, stops, tasks, volInfo
<1>45. ASSUME NEW w \in Workers, WorkerOverflowCommit(w) PROVE ScheduleInv'
  BY <1>45 DEF WorkerOverflowCommit, WorkerTo, stops, tasks, volInfo
<1> QED
  BY <1>1, <1>2, <1>3, <1>4, <1>5, <1>6, <1>7, <1>8, <1>9, <1>10, <1>11, <1>12, <1>13, <1>14,
        <1>15, <1>16, <1>17, <1>18, <1>19, <1>20, <1>21, <1>22, <1>23, <1>24, <1>25, <1>26,
              <1>27, <1>28, <1>29, <1>30, <1>31, <1>32, <1>33, <1>34, <1>35, <1>36, <1>37,
                    <1>38, <1>39, <1>40, <1>41, <1>42, <1>43, <1>44, <1>45 DEF Next, Commands,
                          Backup, Background

-----------------------------------------------------------------------------
(* The theorems. *)

\* The state after the very first start of the daemon.
LEMMA InitInv == Init => IInv
<1> SUFFICES ASSUME Init PROVE IInv
  OBVIOUS
<1>1. 0 \in Epochs
  BY SSBoundsAssumption DEF Epochs
<1>2. TypeOK
  BY <1>1 DEF Init, TypeOK, States, SteadyStates, SyncStates, WorkerPcs, SendingPcs, OverflowPcs,
         StopperPcs, NoLog
<1>3. CounterInv
  BY DEF Init, CounterInv, InSection, Sending, Removing, SendingPcs, Actions
<1>4. OwnerInv
  BY DEF Init, OwnerInv, SyncStates, StopStates, Carrying, Stopping, OverflowPcs
<1>5. FileInv /\ MonitorInv /\ ScheduleInv
  BY DEF Init, FileInv, MonitorInv, ScheduleInv, SteadyStates, SyncStates, StopperBusy, StopSaved
<1> QED BY <1>2, <1>3, <1>4, <1>5 DEF IInv

\* The invariant is inductive.
LEMMA StepInv == IInv /\ [Next]_vars => IInv'
<1>1. IInv /\ Next => IInv'
  BY TypeStep, CounterStep, OwnerStep, FileStep, MonitorStep, ScheduleStep DEF IInv
<1>2. IInv /\ UNCHANGED vars => IInv'
  BY DEF IInv, vars, volSt, tasks, volInfo, stops, TypeOK, CounterInv, OwnerInv, FileInv,
         MonitorInv, ScheduleInv, InSection, Sending, Removing, Carrying, Stopping, AllZero,
         StopperBusy, StopUnderWay, StopSaved, PendingTask
<1> QED BY <1>1, <1>2

\* IInv holds in every reachable state.
LEMMA Invariance == Spec => []IInv
BY InitInv, StepInv, PTL DEF Spec

\* Every variable keeps its type.  The counters stay natural numbers although
\* every section's end decrements one: it needs that the section was counted.
THEOREM TypeCorrect == Spec => []TypeOK
<1>1. IInv => TypeOK
  BY DEF IInv
<1> QED BY <1>1, Invariance, PTL

\* However often the volume is pushed and however many threads the dispatcher
\* has, at most one of them is inside a section, and volSt.ac counts it.
THEOREM ActionsExclusive == Spec => []OneActionAtATime
<1>1. IInv => OneActionAtATime
  <2> SUFFICES ASSUME CounterInv PROVE OneActionAtATime
    BY DEF IInv
  <2> DEFINE senders == {w \in Workers : Sending(w)}
             removers == {w \in Workers : worker[w].pc = "remove"}
  <2>1. ac["WlogSend"] = Cardinality(senders)
    <3>1. CASE senders = {}
      BY <3>1, FS_EmptySet DEF CounterInv
    <3>2. CASE senders # {}
      <4>1. PICK w \in Workers : senders = {w}
        BY <3>2 DEF CounterInv, InSection
      <4> QED BY <4>1, FS_Singleton DEF CounterInv
    <3> QED BY <3>1, <3>2
  <2>2. ac["WlogRemove"] = Cardinality(removers)
    <3>1. CASE removers = {}
      BY <3>1, FS_EmptySet DEF CounterInv, Removing
    <3>2. CASE removers # {}
      <4>1. PICK w \in Workers : removers = {w}
        BY <3>2 DEF CounterInv, InSection, Removing
      <4> QED BY <4>1, FS_Singleton DEF CounterInv, Removing
    <3> QED BY <3>1, <3>2
  <2>3. ac["WlogSend"] + ac["WlogRemove"] <= 1
    BY DEF CounterInv, InSection, Removing, Sending, SendingPcs
  <2> QED BY <2>1, <2>2, <2>3 DEF OneActionAtATime
<1> QED BY <1>1, Invariance, PTL

\* No worker sends while a Target volume is being stopped, is stopped or is
\* being reset, so that reset-vol never pulls the log away from a transfer.
THEOREM StoppedIsQuiet == Spec => []QuietWhenStopped
<1>1. IInv => QuietWhenStopped
  BY DEF IInv, CounterInv, OwnerInv, StopStates, AllZero, Actions, QuietWhenStopped
<1> QED BY <1>1, Invariance, PTL

\* startMonitoring and stopMonitoring are paired over every way a start, a
\* stop, an overflow, a failed backup or a restart can go.
THEOREM MonitoringFollowsState == Spec => []MonitoredWhenActive
<1>1. IInv => MonitoredWhenActive
  BY DEF IInv, MonitorInv, MonitoredWhenActive
<1> QED BY <1>1, Invariance, PTL

\* Whenever the daemon dies, the state file names the state the volume was in
\* or the one it was leaving.
THEOREM StateFileCorrect == Spec => []StateFileAgrees
<1>1. IInv => StateFileAgrees
  BY DEF IInv, FileInv, StateFileAgrees
<1> QED BY <1>1, Invariance, PTL

\* No interleaving of workers, dispatcher, pushers and stop commands loses the
\* task of a Target volume with a snapshot to send, a timed out stop excepted.
THEOREM SnapshotsScheduled == Spec => []SnapshotIsScheduled
<1>1. IInv => SnapshotIsScheduled
  BY DEF IInv, ScheduleInv, SnapshotIsScheduled, StopperBusy
<1> QED BY <1>1, Invariance, PTL

=============================================================================
