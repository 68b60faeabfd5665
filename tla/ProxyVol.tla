------------------------------ MODULE ProxyVol ------------------------------
(***************************************************************************)
(* A volume of the proxy daemon (proxy.cpp, proxy_vol_info.cpp).           *)
(*                                                                         *)
(* A storage server sends the log of the volume; the proxy makes a diff of *)
(* it, puts the file into the directory "received", registers and          *)
(* acknowledges it, and then links it into a directory per archive.  Tasks *)
(* of a queue, at most one per archive, send what is there and delete what *)
(* an archive has confirmed or does not want.  Commands start, stop and    *)
(* empty the volume and change the set of archives.                        *)
(*                                                                         *)
(* received, sendto, infos, dirs and tree are files and survive a crash;   *)
(* everything else is memory.  A directory is removed one entry after the  *)
(* other, and the daemon may be killed in between.  An archive is external:*)
(* it accepts a diff that is applicable to its latest snapshot.  The       *)
(* storage server is too: it sends again from the last gid it has an ack   *)
(* for.  All is about one log: the uuid of the volume does not change.     *)
(***************************************************************************)
EXTENDS DiffManager

CONSTANTS
    Archives,       \* names of archives
    Workers,        \* threads of the pool (maxBackgroundTasks)
    Stoppers,       \* handler threads of concurrent stop commands
    MaxGid,         \* bound on the gids
    MaxCrashes      \* bound on the crashes of the daemon

ASSUME GidsAreBounded == MaxGid \in Nat

VARIABLES
    sm, stopState, archiveSet,
    recvMgr, mgr,   \* diffMgr, diffMgrMap
    ac,             \* running senders per archive
    err,            \* actionState: archives whose sender has given up
    queue,          \* taskQueue
    worker, server, stopper, admin,
    received, sendto,   \* diff files in the two kinds of directories
    infos, dirs,        \* .archive files and sendto directories
    tree,               \* the directory of the volume, and those for the diffs
    latest,         \* external: the gid each archive has reached
    done,           \* external: the gid up to which the storage server has acks
    cut,            \* history: senders that a forced stop has cut off
    gutted,         \* history: archives of which a removal has left some
    nrCrashes

memory == <<sm, stopState, archiveSet, recvMgr, mgr, ac, err, queue>>
procs  == <<worker, server, stopper, admin>>
places == <<infos, dirs, tree, gutted>>
disk   == <<received, sendto, places>>
vars   == <<memory, procs, disk, latest, done, cut, nrCrashes>>

Diff(b, e) == [snapB |-> Snap(b, b), snapE |-> Snap(e, e),
               isMergeable |-> TRUE, isCompDiff |-> FALSE, data |-> <<>>]

Diffs == {Diff(b, e) : b, e \in 0 .. MaxGid}

pSteadyStates == {"Clear", "Stopped", "Started"}

pAcceptForWdiffSend == {"Started", "WlogRecv", "WaitForEmpty"}

NoTask   == [pc |-> "idle", archive |-> "none", list |-> <<>>]
NoRecv   == [pc |-> "idle", diff |-> Diff(0, 1), todo |-> {}]
NoChange == [pc |-> "idle", archive |-> "none", ensure |-> FALSE]

\* volSt.mu is held from the first hard link to the end of the handler, and
\* while deleteArchiveInfo clears the volume.
MuFree ==
    /\ server.pc \notin {"link", "clean"}
    /\ ~(sm = "DeleteArchiveInfo" /\ admin.pc = "clear")

ActionNotRunning == \A a \in archiveSet : ac[a] = 0

-----------------------------------------------------------------------------
(* s2pWlogTransferServer. *)

RecvStart(e) ==
    /\ server.pc = "idle"
    /\ sm = "Started" /\ stopState = "NotStopping"
    /\ e > done
    /\ sm' = "WlogRecv"
    /\ server' = [pc |-> "recv", diff |-> Diff(done, e), todo |-> {}]
    /\ UNCHANGED <<stopState, archiveSet, recvMgr, mgr, ac, err, queue, worker, stopper, admin,
                   disk, latest, done, cut, nrCrashes>>

\* An exception or a forced stop: ~StateMachineTransaction.
RecvEnds == server' = NoRecv /\ sm' = "Started"

RecvFails ==
    /\ server.pc = "recv"
    /\ RecvEnds
    /\ UNCHANGED <<stopState, archiveSet, recvMgr, mgr, ac, err, queue, worker, stopper, admin,
                   disk, latest, done, cut, nrCrashes>>

RecvSave ==
    /\ server.pc = "recv"
    /\ received' = received \cup {server.diff}
    /\ server' = [server EXCEPT !.pc = "saved"]
    /\ UNCHANGED <<memory, worker, stopper, admin, sendto, places, latest, done, cut,
                   nrCrashes>>

\* Mutant of RecvRegister: the ack is sent before the diff is registered.
RegisterForgotten ==
    /\ server.pc = "saved"
    /\ server' = [server EXCEPT !.pc = "ack"]
    /\ UNCHANGED <<memory, worker, stopper, admin, disk, latest, done, cut, nrCrashes>>

RecvRegister ==
    /\ server.pc = "saved"
    /\ recvMgr' = recvMgr \cup {server.diff}
    /\ server' = [server EXCEPT !.pc = "ack"]
    /\ UNCHANGED <<sm, stopState, archiveSet, mgr, ac, err, queue, worker, stopper, admin, disk,
                   latest, done, cut, nrCrashes>>

\* The ack arrives, is lost without a trace, or cannot be sent.
RecvAck ==
    /\ server.pc = "ack"
    /\ \/ /\ done' = server.diff.snapE.gidB
          /\ server' = [server EXCEPT !.pc = "acked"] /\ UNCHANGED sm
       \/ server' = [server EXCEPT !.pc = "acked"] /\ UNCHANGED <<sm, done>>
       \/ RecvEnds /\ UNCHANGED done
    /\ UNCHANGED <<stopState, archiveSet, recvMgr, mgr, ac, err, queue, worker, stopper, admin,
                   disk, latest, cut, nrCrashes>>

LinkBegin ==
    /\ server.pc = "acked"
    /\ err' = {}
    /\ server' = [server EXCEPT !.pc = "link", !.todo = recvMgr \X archiveSet]
    /\ UNCHANGED <<sm, stopState, archiveSet, recvMgr, mgr, ac, queue, worker, stopper, admin, disk,
                   latest, done, cut, nrCrashes>>

\* Nothing is done when the link is there.
tryToMakeHardlinkForArchive(d, a) ==
    IF d \in sendto[a] THEN UNCHANGED <<sendto, mgr>>
    ELSE /\ sendto' = [sendto EXCEPT ![a] = @ \cup {d}]
         /\ mgr' = [mgr EXCEPT ![a] = @ \cup {d}]

\* The diffs are linked in the order of their gids.
Link ==
    /\ server.pc = "link"
    /\ \E p \in server.todo :
          /\ \A q \in server.todo : p[1].snapB.gidB <= q[1].snapB.gidB
          /\ tryToMakeHardlinkForArchive(p[1], p[2])
          /\ server' = [server EXCEPT !.todo = @ \ {p}]
    /\ UNCHANGED <<sm, stopState, archiveSet, recvMgr, ac, err, queue, worker, stopper, admin,
                   received, places, latest, done, cut, nrCrashes>>

LinkFails ==
    /\ server.pc = "link" /\ server.todo # {}
    /\ RecvEnds
    /\ UNCHANGED <<stopState, archiveSet, recvMgr, mgr, ac, err, queue, worker, stopper, admin,
                   disk, latest, done, cut, nrCrashes>>

\* Mutant of LinkDone: one link is taken for all of them.
LinkDoneEarly ==
    /\ server.pc = "link"
    /\ recvMgr' = {}
    /\ server' = [server EXCEPT !.pc = "clean"]
    /\ UNCHANGED <<sm, stopState, archiveSet, mgr, ac, err, queue, worker, stopper, admin, disk,
                   latest, done, cut, nrCrashes>>

\* deleteDiffs of the received diffs: first the manager, then the files.
LinkDone ==
    /\ server.pc = "link" /\ server.todo = {}
    /\ recvMgr' = {}
    /\ server' = [server EXCEPT !.pc = "clean"]
    /\ UNCHANGED <<sm, stopState, archiveSet, mgr, ac, err, queue, worker, stopper, admin, disk,
                   latest, done, cut, nrCrashes>>

Clean ==
    /\ server.pc = "clean"
    /\ \E d \in received : received' = received \ {d}
    /\ UNCHANGED <<memory, procs, sendto, places, latest, done, cut, nrCrashes>>

Push(as) == queue' = queue \cup as /\ cut' = cut \ as

RecvFinish ==
    /\ server.pc = "clean" /\ received = {}
    /\ Push(archiveSet)
    /\ RecvEnds
    /\ UNCHANGED <<stopState, archiveSet, recvMgr, mgr, ac, err, worker, stopper, admin, disk,
                   latest, done, nrCrashes>>

-----------------------------------------------------------------------------
(* ProxyWorker: transferWdiffIfNecessary and operator(). *)

Pop(w) ==
    /\ worker[w].pc = "idle"
    /\ \E a \in queue :
          /\ queue' = queue \ {a}
          /\ worker' = [worker EXCEPT ![w] = [pc |-> "popped", archive |-> a, list |-> <<>>]]
    /\ UNCHANGED <<sm, stopState, archiveSet, recvMgr, mgr, ac, err, server, stopper, admin, disk,
                   latest, done, cut, nrCrashes>>

MaySend == stopState \in {"NotStopping", "WaitingForEmpty"} /\ sm \in pAcceptForWdiffSend

To(w, pc) == worker' = [worker EXCEPT ![w].pc = pc]

\* verifyStopState or verifyStateIn throws; the task is pushed again.
SendNotNow(w) ==
    /\ worker[w].pc = "popped" /\ MuFree
    /\ ~MaySend
    /\ To(w, "push")
    /\ UNCHANGED <<memory, server, stopper, admin, disk, latest, done, cut, nrCrashes>>

\* DONT_SEND: there are no diffs, or another task sends them.
DontSend(w) ==
    /\ worker[w].pc = "popped" /\ MuFree
    /\ MaySend
    /\ mgr[worker[w].archive] = {} \/ ac[worker[w].archive] > 0
    /\ worker' = [worker EXCEPT ![w] = NoTask]
    /\ UNCHANGED <<memory, server, stopper, admin, disk, latest, done, cut, nrCrashes>>

\* Mutant of SendBegin: another task for the archive is not looked for.
SendBeginTwice(w) ==
    LET a == worker[w].archive
        v == getMergeableDiffList(mgr[a], 0)
    IN  /\ worker[w].pc = "popped" /\ MuFree
        /\ MaySend
        /\ mgr[a] # {}
        /\ ac' = [ac EXCEPT ![a] = @ + 1]
        /\ \E n \in 1 .. Len(v) :
              worker' = [worker EXCEPT ![w].pc = "send", ![w].list = SubSeq(v, 1, n)]
        /\ UNCHANGED <<sm, stopState, archiveSet, recvMgr, mgr, err, queue, server, stopper, admin,
                       disk, latest, done, cut, nrCrashes>>

\* setupMerger; the sizes of the files and a new uuid cut the list.
SendBegin(w) ==
    LET a == worker[w].archive
        v == getMergeableDiffList(mgr[a], 0)
    IN  /\ worker[w].pc = "popped" /\ MuFree
        /\ MaySend
        /\ mgr[a] # {} /\ ac[a] = 0
        /\ ac' = [ac EXCEPT ![a] = @ + 1]
        /\ \E n \in 1 .. Len(v) :
              worker' = [worker EXCEPT ![w].pc = "send", ![w].list = SubSeq(v, 1, n)]
        /\ UNCHANGED <<sm, stopState, archiveSet, recvMgr, mgr, err, queue, server, stopper, admin,
                       disk, latest, done, cut, nrCrashes>>

Merged(w) == MergeAll(worker[w].list)

Wanted(w) == LET g == latest[worker[w].archive] IN canApply(Snap(g, g), Merged(w))

TooOld(w) == Merged(w).snapE.gidB <= latest[worker[w].archive]

Received(w) == latest' = [latest EXCEPT ![worker[w].archive] = Merged(w).snapE.gidB]

\* ~ActionCounterTransaction, which takes volSt.mu.
CloseAction(w) == MuFree /\ ac' = [ac EXCEPT ![worker[w].archive] = @ - 1]

Leave(w, pc) ==
    /\ CloseAction(w)
    /\ worker' = [worker EXCEPT ![w] = [@ EXCEPT !.pc = pc, !.list = <<>>]]

\* msgAccept and the ack, or msgTooOldDiff.  msgDifferentUuid, which deletes the
\* diffs as well, is for the diffs of another log.
SendAnswered(w) ==
    /\ worker[w].pc = "send"
    /\ \/ Wanted(w) /\ Received(w)
       \/ TooOld(w) /\ UNCHANGED latest
    /\ To(w, "erase")
    /\ UNCHANGED <<memory, server, stopper, admin, disk, done, cut, nrCrashes>>

\* msgStopped, msgWdiffRecv, msgTooNewDiff, msgSyncing, or an exception, perhaps
\* after the archive has the diff.
SendLater(w) ==
    /\ worker[w].pc = "send"
    /\ \/ UNCHANGED latest
       \/ Wanted(w) /\ Received(w)
    /\ Leave(w, "push")
    /\ UNCHANGED <<sm, stopState, archiveSet, recvMgr, mgr, err, queue, server, stopper, admin, disk,
                   done, cut, nrCrashes>>

\* SEND_ERROR: msgSmallerLvSize, msgArchiveNotFound, or retryTimeout.
SendRefused(w) ==
    /\ worker[w].pc = "send"
    /\ Leave(w, "error")
    /\ UNCHANGED <<sm, stopState, archiveSet, recvMgr, mgr, err, queue, server, stopper, admin, disk,
                   latest, done, cut, nrCrashes>>

SendCutOff(w) ==
    /\ worker[w].pc = "send"
    /\ stopState = "ForceStopping"
    /\ CloseAction(w)
    /\ worker' = [worker EXCEPT ![w] = NoTask]
    /\ cut' = cut \cup {worker[w].archive}
    /\ UNCHANGED <<sm, stopState, archiveSet, recvMgr, mgr, err, queue, server, stopper, admin, disk,
                   latest, done, nrCrashes>>

Listed(w) == {worker[w].list[i] : i \in DOMAIN worker[w].list}

\* deleteDiffs: first the manager, then the files; volSt.mu is not held.
SendErase(w) ==
    /\ worker[w].pc = "erase"
    /\ mgr' = [mgr EXCEPT ![worker[w].archive] = @ \ Listed(w)]
    /\ To(w, "unlink")
    /\ UNCHANGED <<sm, stopState, archiveSet, recvMgr, ac, err, queue, server, stopper, admin, disk,
                   latest, done, cut, nrCrashes>>

SendUnlink(w) ==
    /\ worker[w].pc = "unlink" /\ worker[w].list # <<>>
    /\ sendto' = [sendto EXCEPT ![worker[w].archive] = @ \ {Head(worker[w].list)}]
    /\ worker' = [worker EXCEPT ![w].list = Tail(@)]
    /\ UNCHANGED <<memory, server, stopper, admin, received, places, latest, done, cut,
                   nrCrashes>>

\* Mutant of SendEnd: the task is not pushed again.
SendEndForGood(w) ==
    /\ worker[w].pc = "unlink" /\ worker[w].list = <<>>
    /\ CloseAction(w)
    /\ worker' = [worker EXCEPT ![w] = NoTask]
    /\ UNCHANGED <<sm, stopState, archiveSet, recvMgr, mgr, err, queue, server, stopper, admin, disk,
                   latest, done, cut, nrCrashes>>

\* CONTINUE_TO_SEND: the task goes on with the diffs that have come meanwhile.
SendEnd(w) ==
    /\ worker[w].pc = "unlink" /\ worker[w].list = <<>>
    /\ Leave(w, "push")
    /\ UNCHANGED <<sm, stopState, archiveSet, recvMgr, mgr, err, queue, server, stopper, admin, disk,
                   latest, done, cut, nrCrashes>>

PushAgain(w) ==
    /\ worker[w].pc = "push"
    /\ Push({worker[w].archive})
    /\ worker' = [worker EXCEPT ![w] = NoTask]
    /\ UNCHANGED <<sm, stopState, archiveSet, recvMgr, mgr, ac, err, server, stopper, admin, disk,
                   latest, done, nrCrashes>>

SetError(w) ==
    /\ worker[w].pc = "error" /\ MuFree
    /\ err' = err \cup {worker[w].archive}
    /\ worker' = [worker EXCEPT ![w] = NoTask]
    /\ UNCHANGED <<sm, stopState, archiveSet, recvMgr, mgr, ac, queue, server, stopper, admin, disk,
                   latest, done, cut, nrCrashes>>

-----------------------------------------------------------------------------
(* Commands. *)

\* startProxyVol, with gcProxyVol and pushAllTasksForVol, under one lock.
Start ==
    /\ sm = "Stopped" /\ stopState = "NotStopping" /\ ActionNotRunning
    /\ sm' = "Started"
    /\ LET new(a) == recvMgr \ sendto[a]
       IN  /\ sendto' = [a \in Archives |-> IF a \in archiveSet THEN sendto[a] \cup new(a) ELSE sendto[a]]
           /\ mgr' = [a \in Archives |-> IF a \in archiveSet THEN mgr[a] \cup new(a) ELSE mgr[a]]
    /\ received' = received \ recvMgr
    /\ recvMgr' = {}
    /\ err' = {}
    /\ Push(archiveSet)
    /\ UNCHANGED <<stopState, archiveSet, ac, procs, places, latest, done, nrCrashes>>

Kick(a) ==
    /\ sm = "Started" /\ a \in archiveSet
    /\ err' = err \ {a}
    /\ Push({a})
    /\ UNCHANGED <<sm, stopState, archiveSet, recvMgr, mgr, ac, procs, disk, latest, done, nrCrashes>>

\* ~Stopper, also that of a command that was refused.
StopEnds(s) ==
    /\ stopper' = [stopper EXCEPT ![s] = "idle"]
    /\ stopState' = "NotStopping"

hasDiffs == recvMgr # {} \/ \E a \in archiveSet : mgr[a] # {}

Emptied == ~hasDiffs /\ ActionNotRunning

\* What waitUntil waits for before the state is changed.
Ready(mode) == sm \in pSteadyStates /\ (mode = "WaitingForEmpty" \/ ActionNotRunning)

\* changeFromWaitingForEmpty fails, and the transaction is rolled back, when
\* the stop state is no longer WaitingForEmpty.
EmptyEnd(s, state) ==
    /\ IF state = "WaitingForEmpty" THEN sm' = "Stopped" /\ queue' = {}
       ELSE sm' = "Started" /\ UNCHANGED queue
    /\ StopEnds(s)
    /\ UNCHANGED cut

\* The rest of stopProxyVol or stopAndEmptyProxyVol up to the next unlock.
StopGo(s, mode, state) ==
    \/ /\ sm # "Started"
       /\ StopEnds(s)
       /\ UNCHANGED <<sm, queue, cut>>
    \/ /\ sm = "Started" /\ mode # "WaitingForEmpty"
       /\ sm' = "Stop" /\ stopper' = [stopper EXCEPT ![s] = "remove"] /\ stopState' = state
       /\ UNCHANGED <<queue, cut>>
    \/ /\ sm = "Started" /\ mode = "WaitingForEmpty" /\ Emptied
       /\ EmptyEnd(s, state)
    \/ /\ sm = "Started" /\ mode = "WaitingForEmpty" /\ ~Emptied
       /\ sm' = "WaitForEmpty" /\ stopper' = [stopper EXCEPT ![s] = "empty"] /\ stopState' = state
       /\ Push(IF hasDiffs THEN archiveSet ELSE {})

StopBegin(s, mode) ==
    /\ stopper[s] = "idle" /\ MuFree
    /\ \/ /\ stopState # "NotStopping"
          /\ StopEnds(s)
          /\ UNCHANGED <<sm, queue, cut>>
       \/ /\ stopState = "NotStopping" /\ Ready(mode)
          /\ StopGo(s, mode, mode)
       \/ /\ stopState = "NotStopping" /\ ~Ready(mode)
          /\ stopper' = [stopper EXCEPT ![s] = mode] /\ stopState' = mode
          /\ UNCHANGED <<sm, queue, cut>>
    /\ UNCHANGED <<archiveSet, recvMgr, mgr, ac, err, worker, server, admin, disk, latest, done,
                   nrCrashes>>

StopReady(s) ==
    /\ stopper[s] \in {"Stopping", "ForceStopping", "WaitingForEmpty"}
    /\ Ready(stopper[s])
    /\ StopGo(s, stopper[s], stopState)
    /\ UNCHANGED <<archiveSet, recvMgr, mgr, ac, err, worker, server, admin, disk, latest, done,
                   nrCrashes>>

StopRemoveTasks(s) ==
    /\ stopper[s] = "remove"
    /\ queue' = {} /\ cut' = {}
    /\ stopper' = [stopper EXCEPT ![s] = "commit"]
    /\ UNCHANGED <<sm, stopState, archiveSet, recvMgr, mgr, ac, err, worker, server, admin, disk,
                   latest, done, nrCrashes>>

StopCommit(s) ==
    /\ stopper[s] = "commit"
    /\ sm' = "Stopped"
    /\ StopEnds(s)
    /\ UNCHANGED <<archiveSet, recvMgr, mgr, ac, err, queue, worker, server, admin, disk, latest, done,
                   cut, nrCrashes>>

\* Mutant of EmptyPush: the senders are expected to go on by themselves.
EmptyWaitsOnly(s) == stopper[s] = "empty" /\ hasDiffs /\ UNCHANGED vars

\* The second wait of stopAndEmptyProxyVol.
EmptyPush(s) ==
    /\ stopper[s] = "empty"
    /\ hasDiffs
    /\ Push(archiveSet)
    /\ UNCHANGED <<sm, stopState, archiveSet, recvMgr, mgr, ac, err, procs, disk, latest, done, nrCrashes>>

\* Mutant of EmptyDone: the managers are not asked again.
EmptyDoneUnseen(s) ==
    /\ stopper[s] = "empty"
    /\ ActionNotRunning
    /\ EmptyEnd(s, stopState)
    /\ UNCHANGED <<archiveSet, recvMgr, mgr, ac, err, worker, server, admin, disk, latest, done,
                   nrCrashes>>

EmptyDone(s) ==
    /\ stopper[s] = "empty"
    /\ Emptied
    /\ EmptyEnd(s, stopState)
    /\ UNCHANGED <<archiveSet, recvMgr, mgr, ac, err, worker, server, admin, disk, latest, done,
                   nrCrashes>>

StopTimeout(s) ==
    /\ stopper[s] \in {"Stopping", "ForceStopping", "WaitingForEmpty", "empty"} /\ MuFree
    /\ IF stopper[s] = "empty" THEN sm' = "Started" ELSE UNCHANGED sm
    /\ StopEnds(s)
    /\ UNCHANGED <<archiveSet, recvMgr, mgr, ac, err, queue, worker, server, admin, disk, latest, done,
                   cut, nrCrashes>>

\* What the commands on the archives of a volume leave alone.
aside == <<stopState, ac, err, queue, worker, server, stopper, done, cut, nrCrashes>>

\* util::saveFile of the .archive file.
SaveInfo(a) == infos' = infos \cup {a}

\* addArchiveInfo, as "add" (ensureNotExistance) or as "update".
AddBegin(a, ensure) ==
    /\ sm = "Stopped" /\ ActionNotRunning
    /\ sm' = "AddArchiveInfo"
    /\ SaveInfo(a)
    /\ admin' = [pc |-> "dir", archive |-> a, ensure |-> ensure]
    /\ UNCHANGED <<aside, archiveSet, recvMgr, mgr, received, sendto, dirs, tree, gutted, latest>>

\* Of a clear volume, for which ProxyVolInfo::init makes one directory after the other.
AddFirst(a, ensure) ==
    /\ sm = "Clear" /\ ActionNotRunning
    /\ sm' = "AddArchiveInfo"
    /\ tree' = {"vol"}
    /\ admin' = [pc |-> "init", archive |-> a, ensure |-> ensure]
    /\ UNCHANGED <<aside, archiveSet, recvMgr, mgr, received, sendto, infos, dirs, gutted, latest>>

MakeReceived ==
    /\ admin.pc = "init" /\ tree = {"vol"}
    /\ tree' = {"vol", "received"}
    /\ UNCHANGED <<aside, memory, admin, received, sendto, infos, dirs, gutted, latest>>

MakeSendto ==
    /\ admin.pc = "init" /\ tree = {"vol", "received"}
    /\ tree' = {"vol", "received", "sendto"}
    /\ admin' = [admin EXCEPT !.pc = "save"]
    /\ UNCHANGED <<aside, memory, received, sendto, infos, dirs, gutted, latest>>

AddSave ==
    /\ admin.pc = "save"
    /\ SaveInfo(admin.archive)
    /\ admin' = [admin EXCEPT !.pc = "dir"]
    /\ UNCHANGED <<aside, memory, received, sendto, dirs, tree, gutted, latest>>

\* makeDir throws: the directory is there, or it has no place.
NoDir == IF admin.archive \in dirs THEN admin.ensure ELSE "sendto" \notin tree

\* An archive that gets a directory is taken to be in step with the storage server.
AddDir ==
    /\ admin.pc = "dir" /\ ~NoDir
    /\ LET a == admin.archive
       IN  /\ dirs' = dirs \cup {a}
           /\ archiveSet' = archiveSet \cup {a}
           /\ mgr' = IF admin.ensure THEN [mgr EXCEPT ![a] = {}] ELSE mgr
           /\ latest' = IF a \in dirs THEN latest ELSE [latest EXCEPT ![a] = done]
    /\ sm' = "Stopped"
    /\ admin' = NoChange
    /\ UNCHANGED <<aside, recvMgr, received, sendto, infos, tree, gutted>>

\* Back to the state before, which was not Clear: init leaves nothing to fail for.
AddFails ==
    /\ admin.pc = "dir" /\ NoDir
    /\ sm' = "Stopped"
    /\ admin' = NoChange
    /\ UNCHANGED <<aside, archiveSet, recvMgr, mgr, disk, latest>>

\* deleteArchiveInfo, also of an archive that is not there: the manager, the
\* directory, and the .archive file.
DeleteBegin(a) ==
    /\ sm = "Stopped" /\ ActionNotRunning
    /\ sm' = "DeleteArchiveInfo"
    /\ admin' = [pc |-> "files", archive |-> a, ensure |-> FALSE]
    /\ mgr' = [mgr EXCEPT ![a] = {}]
    /\ UNCHANGED <<aside, archiveSet, recvMgr, disk, latest>>

DeleteFile ==
    /\ admin.pc = "files"
    /\ \E d \in sendto[admin.archive] :
          sendto' = [sendto EXCEPT ![admin.archive] = @ \ {d}]
    /\ gutted' = gutted \cup {admin.archive}
    /\ UNCHANGED <<aside, memory, admin, received, infos, dirs, tree, latest>>

DeleteDir ==
    /\ admin.pc = "files" /\ sendto[admin.archive] = {}
    /\ dirs' = dirs \ {admin.archive} /\ gutted' = gutted \ {admin.archive}
    /\ admin' = [admin EXCEPT !.pc = "info"]
    /\ UNCHANGED <<aside, memory, received, sendto, infos, tree, latest>>

Clearing == [NoChange EXCEPT !.pc = "clear"]

\* With the last archive the volume is cleared.
DeleteInfo ==
    /\ admin.pc = "info"
    /\ infos' = infos \ {admin.archive}
    /\ archiveSet' = archiveSet \ {admin.archive}
    /\ IF archiveSet' = {} THEN recvMgr' = {} /\ admin' = Clearing /\ UNCHANGED sm
       ELSE sm' = "Stopped" /\ admin' = NoChange /\ UNCHANGED recvMgr
    /\ UNCHANGED <<aside, mgr, received, sendto, dirs, tree, gutted, latest>>

\* ProxyVolInfo::clear forgets what it knows ...
ClearVol ==
    /\ sm = "Stopped" /\ stopState = "NotStopping" /\ ActionNotRunning
    /\ sm' = "ClearVol"
    /\ mgr' = [a \in Archives |-> IF a \in archiveSet THEN {} ELSE mgr[a]]
    /\ recvMgr' = {} /\ archiveSet' = {}
    /\ admin' = Clearing
    /\ UNCHANGED <<aside, disk, latest>>

\* ... and removes the files of the volume, in the order in which it finds them.
ClearReceived ==
    /\ admin.pc = "clear"
    /\ \/ \E d \in received : received' = received \ {d} /\ gutted' = dirs /\ UNCHANGED tree
       \/ /\ received = {} /\ tree' = tree \ {"received"}
          /\ UNCHANGED <<received, gutted>>
    /\ UNCHANGED <<aside, memory, admin, sendto, infos, dirs, latest>>

ClearSendto ==
    /\ admin.pc = "clear"
    /\ \/ \E a \in dirs : \E d \in sendto[a] :
             /\ sendto' = [sendto EXCEPT ![a] = @ \ {d}] /\ gutted' = gutted \cup {a}
             /\ UNCHANGED <<dirs, tree>>
       \/ \E a \in dirs :
             /\ sendto[a] = {} /\ dirs' = dirs \ {a} /\ gutted' = gutted \ {a}
             /\ UNCHANGED <<sendto, tree>>
       \/ dirs = {} /\ tree' = tree \ {"sendto"} /\ UNCHANGED <<sendto, dirs, gutted>>
    /\ UNCHANGED <<aside, memory, admin, received, infos, latest>>

ClearInfo ==
    /\ admin.pc = "clear"
    /\ \E a \in infos : infos' = infos \ {a} /\ gutted' = gutted \cup ({a} \cap dirs)
    /\ UNCHANGED <<aside, memory, admin, received, sendto, dirs, tree, latest>>

ClearEnd ==
    /\ admin.pc = "clear"
    /\ tree = {"vol"} /\ infos = {} /\ tree' = {}
    /\ sm' = "Clear"
    /\ admin' = NoChange
    /\ UNCHANGED <<aside, archiveSet, recvMgr, mgr, received, sendto, infos, dirs, gutted, latest>>

-----------------------------------------------------------------------------
\* The daemon is killed and started again; ProxyVolState::initInner.  The list
\* of a missing directory cannot be loaded, and the daemon exits.  Directories
\* without a .archive file are not looked at.
Crash ==
    /\ nrCrashes < MaxCrashes /\ sm # "Down"
    /\ nrCrashes' = nrCrashes + 1
    /\ sm' = IF tree = {} THEN "Clear"
             ELSE IF "received" \in tree /\ infos \subseteq dirs THEN "Stopped" ELSE "Down"
    /\ archiveSet' = infos
    /\ recvMgr' = received
    /\ mgr' = [a \in Archives |-> IF a \in infos THEN sendto[a] ELSE {}]
    /\ stopState' = "NotStopping" /\ ac' = [a \in Archives |-> 0] /\ err' = {} /\ queue' = {} /\ cut' = {}
    /\ worker' = [w \in Workers |-> NoTask] /\ server' = NoRecv /\ admin' = NoChange
    /\ stopper' = [s \in Stoppers |-> "idle"]
    /\ UNCHANGED <<disk, latest, done>>

Init ==
    /\ sm = "Clear" /\ stopState = "NotStopping" /\ archiveSet = {}
    /\ recvMgr = {} /\ mgr = [a \in Archives |-> {}]
    /\ ac = [a \in Archives |-> 0] /\ err = {} /\ queue = {}
    /\ worker = [w \in Workers |-> NoTask] /\ server = NoRecv /\ admin = NoChange
    /\ stopper = [s \in Stoppers |-> "idle"]
    /\ received = {} /\ sendto = [a \in Archives |-> {}]
    /\ infos = {} /\ dirs = {} /\ tree = {}
    /\ latest = [a \in Archives |-> 0] /\ done = 0 /\ cut = {} /\ gutted = {} /\ nrCrashes = 0

ReceiveOn ==
    \/ RecvFails \/ RecvSave \/ RecvRegister \/ RecvAck
    \/ LinkBegin \/ Link \/ LinkFails \/ LinkDone \/ Clean \/ RecvFinish

Transfer(w) ==
    \/ Pop(w) \/ SendNotNow(w) \/ DontSend(w) \/ SendBegin(w)
    \/ SendAnswered(w) \/ SendLater(w) \/ SendRefused(w) \/ SendCutOff(w)
    \/ SendErase(w) \/ SendUnlink(w) \/ SendEnd(w) \/ PushAgain(w) \/ SetError(w)

Stop(s) ==
    \/ \E mode \in {"Stopping", "ForceStopping", "WaitingForEmpty"} : StopBegin(s, mode)
    \/ StopReady(s) \/ StopRemoveTasks(s) \/ StopCommit(s)
    \/ EmptyPush(s) \/ EmptyDone(s) \/ StopTimeout(s)

\* add, update and delete of an archive, and clear-vol.
Administer ==
    \/ \E a \in Archives, ensure \in BOOLEAN : AddBegin(a, ensure) \/ AddFirst(a, ensure)
    \/ MakeReceived \/ MakeSendto \/ AddSave \/ AddDir \/ AddFails
    \/ \E a \in Archives : DeleteBegin(a)
    \/ DeleteFile \/ DeleteDir \/ DeleteInfo
    \/ ClearVol \/ ClearReceived \/ ClearSendto \/ ClearInfo \/ ClearEnd

Command ==
    \/ Start
    \/ \E a \in Archives : Kick(a)
    \/ Administer

Next ==
    \/ \E e \in 1 .. MaxGid : RecvStart(e)
    \/ ReceiveOn
    \/ \E w \in Workers : Transfer(w)
    \/ \E s \in Stoppers : Stop(s)
    \/ Command
    \/ Crash

Spec == Init /\ [][Next]_vars

\* Handlers and workers go on, waitUntil polls, and an archive that is asked
\* again and again answers at last; commands, crashes and timeouts are not fair.
Fairness ==
    /\ WF_vars(ReceiveOn)
    /\ \A w \in Workers : WF_vars(Transfer(w)) /\ SF_vars(SendAnswered(w))
    /\ \A s \in Stoppers : WF_vars(EmptyPush(s) \/ EmptyDone(s))

FairSpec == Spec /\ Fairness

-----------------------------------------------------------------------------
(* Properties. *)

\* Once the storage server has the ack of a log, every archive of the volume
\* has its content or can still get it from files of the proxy, without a gap.
\* The exception is an archive of which a delete or a clear-vol has taken a file
\* before it was cut off: a restart takes what is left for all there is.
AckedIsKept ==
    \A a \in (archiveSet \cap dirs) \ gutted : \A g \in latest[a] .. done - 1 :
        \E d \in sendto[a] \cup received : d.snapB.gidB <= g /\ g < d.snapE.gidB

\* Diffs that are to be sent have somebody who will: a task, a worker, or the
\* operator, who sees the error.  Left out are the time before the received
\* diffs are linked and senders that a forced stop has cut off.
UnsentIsScheduled ==
    sm = "Started" /\ stopState = "NotStopping" /\ recvMgr = {} =>
        \A a \in archiveSet : mgr[a] # {} =>
            \/ a \in queue \cup err \cup cut
            \/ \E w \in Workers : worker[w].pc # "idle" /\ worker[w].archive = a

\* The managers and the directories agree: nothing that was unlinked can be
\* chosen, and no file is left that nobody will send or unlink.  The second does
\* not hold for an archive that is being deleted, nor for what a removal that was
\* cut off has left, which an update registers without looking at it.
ManagersMatchFiles ==
    \A a \in archiveSet \cap dirs :
        /\ mgr[a] \subseteq sendto[a]
        /\ \/ a \in gutted
           \/ admin.pc = "files" /\ admin.archive = a
           \/ sendto[a] \ mgr[a] \subseteq
                 UNION {Listed(w) : w \in {v \in Workers : /\ worker[v].archive = a
                                                           /\ worker[v].pc = "unlink"}}

\* An archive that no removal has taken a file of never has to answer
\* msgTooNewDiff: what a worker sends begins at or before the gid it has reached.
NoGapIsSent ==
    \A w \in Workers : worker[w].pc = "send" /\ worker[w].archive \notin gutted =>
        Merged(w).snapB.gidB <= latest[worker[w].archive]

\* doc/replace.md: after stop empty the proxy "does not have temporary wdiff
\* files", so that the volume can be cleared; without what a removal has left.
EmptyMeansEmpty ==
    [][sm = "WaitForEmpty" /\ sm' = "Stopped" /\ nrCrashes' = nrCrashes =>
          received = {} /\ \A a \in archiveSet \ gutted : sendto[a] = {}]_vars

\* A diff does not stay unsent for ever, unless the operator is told.  Diffs
\* behind a gap that a removal has made do.
NeverStuck ==
    \A a \in Archives :
        []<>~(/\ sm = "Started" /\ stopState = "NotStopping" /\ recvMgr = {}
              /\ a \in archiveSet /\ mgr[a] # {} /\ a \notin err \cup cut \cup gutted)

\* stop empty does not need its timeout, unless a diff was received whose ack
\* could not be sent, which is linked with the next log, or a removal has made a
\* gap.
EmptyEnds ==
    \A s \in Stoppers :
        []<>~(stopper[s] = "empty" /\ recvMgr = {} /\ archiveSet \cap gutted = {})

=============================================================================
