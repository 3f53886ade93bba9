----------------------------- MODULE Persistence ------------------------------
(***************************************************************************)
(* Sessions and the workspace on disk (core/src/management/server.rs,      *)
(* routes.rs and workspace.rs, core/src/store.rs).  HTTP handlers save and *)
(* load one session through the operation manager, which admits one        *)
(* operation at a time and runs it in a detached task; the workspace is    *)
(* saved under a mutex of its own.  Both replace what is on disk by        *)
(* writing a copy aside and renaming twice.  Any file system call may fail *)
(* and the process may be killed between any two of them.                  *)
(*                                                                         *)
(* The content of the store is a version number, 0 when it is empty.  A    *)
(* session directory records the version and how many of its four files    *)
(* have been written.                                                      *)
(***************************************************************************)
EXTENDS Naturals, FiniteSets

CONSTANTS MaxWork,      \* bound on the operations and workspace saves, together
          MaxVersion,   \* bound on what ingestion adds to the store
          MaxFault,     \* bound on failing file system calls
          MaxCrash      \* bound on crashes

ASSUME PersistenceAssumption ==
    {MaxWork, MaxVersion, MaxFault, MaxCrash} \subseteq Nat

Op == 1 .. MaxWork
Save == 1 .. MaxWork

VARIABLES
    mem,        \* version of the in-memory store
    target,     \* the session's directory
    tmp,        \* .{name}.tmp-{operation}, per operation
    bak,        \* .{name}.bak-{operation}, per operation
    pending,    \* requests whose handler has not called begin yet
    op,         \* the task of each operation, numbered in the order of begin
    active,     \* OperationManager.active
    releasing,  \* whether update holds `coordination` to release `active`
    woken,      \* how often idle.notify_waiters was called
    server,     \* ManagementServerRuntime: serving, or a step of stop
    armed,      \* `woken` when wait_idle created its Notified future
    wsTarget, wsTmp, wsBak,   \* workspace.json, .tmp and .bak
    wsRevision, \* WorkspaceStore.revision
    ws,         \* where each workspace save stands
    wsAnswer,   \* what WorkspaceStore::load returned last
    faults,     \* file system calls that have failed
    crashes     \* crashes so far

sessionVars == <<mem, target, tmp, bak, pending, op, active, releasing, woken, server, armed>>
workspaceVars == <<wsTarget, wsTmp, wsBak, wsRevision, ws, wsAnswer>>
vars == <<sessionVars, workspaceVars, faults, crashes>>

PartCount == 4

NoDir == [version |-> 0, parts |-> 0]
Whole(d) == d.parts = PartCount + 1

NoFile == [revision |-> 0, doc |-> 0, whole |-> FALSE]

Unused == [pc |-> "unused", request |-> [kind |-> "save", overwrite |-> FALSE],
           taken |-> NoDir, record |-> "none"]

Init == /\ mem = 0 /\ target = NoDir
        /\ tmp = [o \in Op |-> NoDir] /\ bak = [o \in Op |-> NoDir]
        /\ pending = {} /\ op = [o \in Op |-> Unused]
        /\ active = FALSE /\ releasing = FALSE /\ woken = 0
        /\ server = "serving" /\ armed = 0
        /\ wsTarget = NoFile /\ wsTmp = NoFile /\ wsBak = NoFile
        /\ wsRevision = 0
        /\ ws = [s \in Save |-> "unused"]
        /\ wsAnswer = NoFile
        /\ faults = 0 /\ crashes = 0

(* A file system call that fails, or one that does not.                    *)
Fault == faults < MaxFault /\ faults' = faults + 1
Fine == UNCHANGED faults

Goto(o, pc) == op' = [op EXCEPT ![o].pc = pc]

At(o, pc) == op[o].pc = pc

(* What an action of an operation leaves alone besides the disk.           *)
Quiet == UNCHANGED <<releasing, woken, server, armed, workspaceVars, crashes>>
Still == Quiet /\ UNCHANGED <<pending, active>>

(***************************************************************************)
(* Requests.  The handler looks at the target before it asks the manager   *)
(* for the slot.                                                           *)
(***************************************************************************)
Ingest ==
    /\ mem < MaxVersion
    /\ mem' = mem + 1
    /\ UNCHANGED <<target, tmp, bak, op, faults>> /\ Still

(* run_when_idle: nobody holds `coordination` and no operation is active.  *)
WhenIdle == ~releasing /\ ~active

MemoryClear ==
    /\ server = "serving" /\ WhenIdle
    /\ mem' = 0
    /\ UNCHANGED <<target, tmp, bak, op, faults>> /\ Still

Request == {[kind |-> "save", overwrite |-> TRUE], [kind |-> "save", overwrite |-> FALSE],
            [kind |-> "load", overwrite |-> FALSE]}

Begun == {o \in Op : ~At(o, "unused")}

Work == Cardinality(pending) + Cardinality(Begun)
        + Cardinality({s \in Save : ws[s] # "unused"})

(* A handler that has passed its checks.                                   *)
Accept(r) ==
    /\ server = "serving" /\ r \notin pending
    /\ Work < MaxWork
    /\ pending' = pending \cup {r}
    /\ UNCHANGED <<mem, target, tmp, bak, op, active, faults>> /\ Quiet

SessionSave(r) ==
    /\ r.kind = "save"
    /\ target = NoDir \/ r.overwrite
    /\ Accept(r)

(* checked_existing_session_path.  The directory is the program's own: no  *)
(* link leads out of the data root.                                        *)
Existing == target # NoDir

SessionLoad(r) ==
    /\ r.kind = "load"
    /\ Existing
    /\ Accept(r)

(* session_list: the directories that have a meta.json, without the        *)
(* copies a save keeps under names of its own.                             *)
Listed == {d \in {target} : d.parts >= 2}

(* OperationManager::begin: a refused request leaves no trace.             *)
Begin(r) ==
    /\ r \in pending /\ ~releasing
    /\ pending' = pending \ {r}
    /\ active' = TRUE
    /\ op' = IF active THEN op
             ELSE [op EXCEPT ![Cardinality(Begun) + 1] =
                     [Unused EXCEPT !.pc = "queued", !.request = r, !.record = "queued"]]
    /\ UNCHANGED <<mem, target, tmp, bak, faults>> /\ Quiet

Run(o) ==
    /\ At(o, "queued")
    /\ op' = [op EXCEPT ![o].pc = IF op[o].request.kind = "save" THEN "snapshot" ELSE "read",
                        ![o].record = "running"]
    /\ UNCHANGED <<mem, target, tmp, bak, faults>> /\ Still

(***************************************************************************)
(* The save: a copy of the store taken with ingestion paused, then         *)
(* save_snapshot_atomic.                                                   *)
(***************************************************************************)
Snapshot(o) ==
    /\ At(o, "snapshot")
    /\ op' = [op EXCEPT ![o].pc = "write",
                        ![o].taken = [version |-> mem, parts |-> PartCount + 1]]
    /\ UNCHANGED <<mem, target, tmp, bak, faults>> /\ Still

(* Mutant: an error while writing is taken for the end.                    *)
WriteStepIgnoringErrors(o, n) ==
    /\ At(o, "write") /\ tmp[o].parts = n
    /\ \/ /\ Fine
          /\ tmp' = [tmp EXCEPT ![o] = [version |-> op[o].taken.version, parts |-> n + 1]]
          /\ UNCHANGED op
       \/ /\ Fault
          /\ Goto(o, "place")
          /\ UNCHANGED tmp
    /\ UNCHANGED <<mem, target, bak>> /\ Still

(* One step of save_to_disk; when it fails the copy is removed, unless     *)
(* that fails too.                                                         *)
WriteStep(o, n) ==
    /\ At(o, "write") /\ tmp[o].parts = n
    /\ \/ /\ Fine
          /\ tmp' = [tmp EXCEPT ![o] = [version |-> op[o].taken.version, parts |-> n + 1]]
          /\ UNCHANGED op
       \/ /\ Fault
          /\ \/ tmp' = [tmp EXCEPT ![o] = NoDir]
             \/ UNCHANGED tmp
          /\ Goto(o, "failed")
    /\ UNCHANGED <<mem, target, bak>> /\ Still

CreateDir(o) == WriteStep(o, 0)
WriteMeta(o) == WriteStep(o, 1)
WriteStates(o) == WriteStep(o, 2)
WriteEvents(o) == WriteStep(o, 3)
WriteTelemetry(o) == WriteStep(o, 4)

(* save_to_disk: the directory, then one file after the other.             *)
SaveToDisk(o) ==
    \/ CreateDir(o) \/ WriteMeta(o) \/ WriteStates(o) \/ WriteEvents(o) \/ WriteTelemetry(o)
    \/ /\ At(o, "write") /\ Whole(tmp[o])
       /\ Goto(o, "place")
       /\ UNCHANGED <<mem, target, tmp, bak, faults>> /\ Still

RenameToTarget(o) == target' = tmp[o] /\ tmp' = [tmp EXCEPT ![o] = NoDir]

(* Mutant: the second look at the target is left out.                      *)
PlaceUnchecked(o) ==
    /\ At(o, "place")
    /\ RenameToTarget(o) /\ Goto(o, "ok") /\ Fine
    /\ UNCHANGED <<mem, bak>> /\ Still

Place(o) ==
    /\ At(o, "place")
    /\ \/ /\ target = NoDir /\ Fine
          /\ RenameToTarget(o) /\ Goto(o, "ok")
          /\ UNCHANGED bak
       \/ /\ target # NoDir /\ ~op[o].request.overwrite
          /\ \/ Fine /\ tmp' = [tmp EXCEPT ![o] = NoDir]
             \/ Fault /\ UNCHANGED tmp
          /\ Goto(o, "failed")
          /\ UNCHANGED <<target, bak>>
       \/ /\ target # NoDir /\ op[o].request.overwrite /\ Fine
          /\ bak' = [bak EXCEPT ![o] = target] /\ target' = NoDir
          /\ Goto(o, "swap")
          /\ UNCHANGED tmp
       \/ /\ target = NoDir \/ op[o].request.overwrite
          /\ Fault /\ Goto(o, "failed")
          /\ UNCHANGED <<target, tmp, bak>>
    /\ UNCHANGED mem /\ Still

Swap(o) ==
    /\ At(o, "swap")
    /\ \/ Fine /\ RenameToTarget(o) /\ Goto(o, "cleanup")
       \/ Fault /\ Goto(o, "rollback") /\ UNCHANGED <<target, tmp>>
    /\ UNCHANGED <<mem, bak>> /\ Still

(* Mutant: the rollback throws the backup away instead of moving it back.  *)
RollbackRemoves(o) ==
    /\ At(o, "rollback") /\ Fine
    /\ bak' = [bak EXCEPT ![o] = NoDir]
    /\ tmp' = [tmp EXCEPT ![o] = NoDir]
    /\ Goto(o, "failed")
    /\ UNCHANGED <<mem, target>> /\ Still

(* Both calls of the rollback ignore their errors.                         *)
Rollback(o) ==
    /\ At(o, "rollback")
    /\ \/ Fine /\ target' = bak[o] /\ bak' = [bak EXCEPT ![o] = NoDir]
       \/ Fault /\ UNCHANGED <<target, bak>>
    /\ tmp' \in {tmp, [tmp EXCEPT ![o] = NoDir]}
    /\ Goto(o, "failed")
    /\ UNCHANGED mem /\ Still

(* Removing the backup may fail half-way; the save is then reported as     *)
(* failed although it is in place.                                         *)
Cleanup(o) ==
    /\ At(o, "cleanup")
    /\ \/ Fine /\ bak' = [bak EXCEPT ![o] = NoDir] /\ Goto(o, "ok")
       \/ Fault /\ bak' \in {bak, [bak EXCEPT ![o].parts = 1]} /\ Goto(o, "failed")
    /\ UNCHANGED <<mem, target, tmp>> /\ Still

(***************************************************************************)
(* The load reads the whole directory into a store of its own, then        *)
(* replaces the shared one; a missing file counts as an empty one.         *)
(***************************************************************************)
Read(o) ==
    /\ At(o, "read")
    /\ \/ Fine /\ op' = [op EXCEPT ![o].pc = "apply", ![o].taken = target]
       \/ Fault /\ Goto(o, "failed")
    /\ UNCHANGED <<mem, target, tmp, bak>> /\ Still

Apply(o) ==
    /\ At(o, "apply")
    /\ mem' = op[o].taken.version
    /\ Goto(o, "ok")
    /\ UNCHANGED <<target, tmp, bak, faults>> /\ Still

(***************************************************************************)
(* OperationManager::update at the end: the record, then the slot, then    *)
(* the waiters.                                                            *)
(***************************************************************************)
Report(o) ==
    /\ op[o].pc \in {"ok", "failed"}
    /\ op' = [op EXCEPT ![o].pc = "release",
                        ![o].record = IF op[o].pc = "ok" THEN "succeeded" ELSE "failed"]
    /\ UNCHANGED <<mem, target, tmp, bak, faults>> /\ Still

(* Mutant: the waiters are woken before the slot is free.                  *)
ReleaseLate(o) ==
    \/ /\ At(o, "release") /\ ~releasing
       /\ woken' = woken + 1 /\ releasing' = TRUE
       /\ Goto(o, "notify")
       /\ UNCHANGED <<mem, target, tmp, bak, active, pending, server, armed, workspaceVars, faults, crashes>>
    \/ /\ At(o, "notify")
       /\ active' = FALSE /\ releasing' = FALSE
       /\ Goto(o, "done")
       /\ UNCHANGED <<mem, target, tmp, bak, pending, woken, server, armed, workspaceVars, faults, crashes>>

Release(o) ==
    \/ /\ At(o, "release") /\ ~releasing
       /\ active' = FALSE /\ releasing' = TRUE
       /\ Goto(o, "notify")
       /\ UNCHANGED <<mem, target, tmp, bak, pending, woken, server, armed, workspaceVars, faults, crashes>>
    \/ /\ At(o, "notify")
       /\ woken' = woken + 1 /\ releasing' = FALSE
       /\ Goto(o, "done")
       /\ UNCHANGED <<mem, target, tmp, bak, active, pending, server, armed, workspaceVars, faults, crashes>>

Task(o) == \/ Run(o) \/ Snapshot(o) \/ SaveToDisk(o) \/ Place(o)
           \/ Swap(o) \/ Rollback(o) \/ Cleanup(o) \/ Read(o) \/ Apply(o)
           \/ Report(o) \/ Release(o)

(***************************************************************************)
(* ManagementServerRuntime::stop: no new requests, wait for the handlers,  *)
(* then OperationManager::wait_idle.  A started server has a new manager   *)
(* and a new WorkspaceStore.                                               *)
(***************************************************************************)
ServerStep(from, to) ==
    /\ server = from
    /\ server' = to
    /\ UNCHANGED <<mem, target, tmp, bak, pending, op, releasing, woken,
                   wsTarget, wsTmp, wsBak, ws, wsAnswer, faults, crashes>>

Stop == ServerStep("serving", "draining") /\ UNCHANGED <<active, armed, wsRevision>>

(* Mutant: stop does not wait for the handlers.                            *)
DrainedEarly == ServerStep("draining", "look") /\ UNCHANGED <<active, armed, wsRevision>>

WsEnded == \A s \in Save : ws[s] \in {"unused", "done", "failed", "dead"}

Drained ==
    /\ pending = {} /\ WsEnded
    /\ ServerStep("draining", "look") /\ UNCHANGED <<active, armed, wsRevision>>

Look == /\ ServerStep("look", IF active THEN "arm" ELSE "stopped")
        /\ UNCHANGED <<active, armed, wsRevision>>

Arm == ServerStep("arm", "armed") /\ armed' = woken /\ UNCHANGED <<active, wsRevision>>

LookAgain == /\ ServerStep("armed", IF active THEN "waiting" ELSE "stopped")
             /\ UNCHANGED <<active, armed, wsRevision>>

Wake == /\ woken # armed
        /\ ServerStep("waiting", "look") /\ UNCHANGED <<active, armed, wsRevision>>

WaitIdle == Look \/ Arm \/ LookAgain \/ Wake

Start == /\ ServerStep("stopped", "serving")
         /\ active' = FALSE /\ wsRevision' = wsTarget.revision
         /\ UNCHANGED armed

(***************************************************************************)
(* WorkspaceStore::save, one writer at a time, and load, at any time.      *)
(***************************************************************************)
Rest == UNCHANGED <<sessionVars, crashes>>
WsGoto(s, pc) == ws' = [ws EXCEPT ![s] = pc]

(* The handler of the s-th workspace_put runs.                             *)
WsPut(s) ==
    /\ server \in {"serving", "draining"}
    /\ ws[s] = "unused" /\ \A r \in 1 .. s - 1 : ws[r] # "unused"
    /\ Work < MaxWork

(* validate refuses the document, before anything is taken.                *)
WsRefuse(s) ==
    /\ WsPut(s)
    /\ WsGoto(s, "failed")
    /\ UNCHANGED <<wsTarget, wsTmp, wsBak, wsRevision, wsAnswer, faults>> /\ Rest

(* The revision is taken first: a save that fails later, or is too large,  *)
(* leaves a gap.                                                           *)
WsBegin(s) ==
    /\ WsPut(s) /\ WsEnded
    /\ wsRevision' = wsRevision + 1
    /\ WsGoto(s, "write") \/ WsGoto(s, "failed")
    /\ UNCHANGED <<wsTarget, wsTmp, wsBak, wsAnswer, faults>> /\ Rest

WsWrite(s) ==
    /\ ws[s] = "write"
    /\ \/ /\ wsTmp.doc # s /\ Fine
          /\ wsTmp' = [revision |-> wsRevision, doc |-> s, whole |-> FALSE]
          /\ UNCHANGED ws
       \/ /\ wsTmp.doc = s /\ Fine
          /\ wsTmp' = [wsTmp EXCEPT !.whole = TRUE]
          /\ WsGoto(s, "place")
       \/ Fault /\ WsGoto(s, "failed") /\ UNCHANGED wsTmp
    /\ UNCHANGED <<wsTarget, wsBak, wsRevision, wsAnswer>> /\ Rest

(* Mutant: the old document is removed, not renamed.                       *)
WsPlaceRemoves(s) ==
    /\ ws[s] = "place" /\ Fine
    /\ wsTarget' = NoFile
    /\ WsGoto(s, "swap")
    /\ UNCHANGED <<wsTmp, wsBak, wsRevision, wsAnswer>> /\ Rest

WsPlace(s) ==
    /\ ws[s] = "place"
    /\ \/ /\ wsTarget # NoFile /\ Fine
          /\ wsBak' = wsTarget /\ wsTarget' = NoFile
          /\ WsGoto(s, "swap") /\ UNCHANGED wsTmp
       \/ /\ wsTarget = NoFile /\ Fine
          /\ wsTarget' = wsTmp /\ wsTmp' = NoFile
          /\ WsGoto(s, "done") /\ UNCHANGED wsBak
       \/ /\ Fault /\ WsGoto(s, "failed")
          /\ wsBak' \in (IF wsTarget = NoFile THEN {wsBak} ELSE {wsBak, NoFile})
          /\ UNCHANGED <<wsTarget, wsTmp>>
    /\ UNCHANGED <<wsRevision, wsAnswer>> /\ Rest

WsSwap(s) ==
    /\ ws[s] = "swap"
    /\ \/ /\ Fine /\ wsTarget' = wsTmp /\ wsTmp' = NoFile
          /\ wsBak' \in {wsBak, NoFile}
          /\ WsGoto(s, "done")
       \/ /\ Fault /\ WsGoto(s, "failed")
          /\ \/ wsTarget' = wsBak /\ wsBak' = NoFile
             \/ UNCHANGED <<wsTarget, wsBak>>
          /\ UNCHANGED wsTmp
    /\ UNCHANGED <<wsRevision, wsAnswer>> /\ Rest

WsTask(s) == WsWrite(s) \/ WsPlace(s) \/ WsSwap(s)

WsLoad ==
    /\ wsAnswer' = wsTarget
    /\ UNCHANGED <<wsTarget, wsTmp, wsBak, wsRevision, ws, faults>> /\ Rest

(***************************************************************************)
(* The process is killed and started again: memory is lost, the disk is    *)
(* as it was; WorkspaceStore::new takes the revision from the document.    *)
(***************************************************************************)
Crash ==
    /\ crashes < MaxCrash
    /\ crashes' = crashes + 1
    /\ mem' = 0 /\ pending' = {}
    /\ op' = [o \in Op |-> IF op[o].pc \in {"unused", "done"} THEN op[o]
                           ELSE [op[o] EXCEPT !.pc = "dead"]]
    /\ active' = FALSE /\ releasing' = FALSE /\ server' = "serving"
    /\ wsRevision' = wsTarget.revision
    /\ ws' = [s \in Save |-> IF ws[s] \in {"unused", "done", "failed"} THEN ws[s] ELSE "dead"]
    /\ UNCHANGED <<target, tmp, bak, woken, armed, wsTarget, wsTmp, wsBak, wsAnswer, faults>>

Next ==
    \/ Ingest \/ MemoryClear
    \/ \E r \in Request : SessionSave(r) \/ SessionLoad(r) \/ Begin(r)
    \/ \E o \in Op : Task(o)
    \/ Stop \/ Drained \/ WaitIdle \/ Start
    \/ \E s \in Save : WsRefuse(s) \/ WsBegin(s) \/ WsTask(s)
    \/ WsLoad
    \/ Crash

Spec == Init /\ [][Next]_vars

(* Tasks run, and so does the thread in stop.                              *)
Fairness == /\ \A r \in Request : WF_vars(Begin(r))
            /\ \A o \in Op : WF_vars(Task(o))
            /\ \A s \in Save : WF_vars(WsTask(s))
            /\ WF_vars(Drained) /\ WF_vars(WaitIdle)

FairSpec == Spec /\ Fairness

-------------------------------------------------------------------------------
(* Between begin and the release of the slot.                              *)
Working(o) == ~At(o, "unused") /\ ~At(o, "notify") /\ ~At(o, "done") /\ ~At(o, "dead")

(***************************************************************************)
(* What stands under the session's name, and so can be loaded, is always a *)
(* complete copy, and the list shows it: "the temporary and backup         *)
(* directories let a save be interrupted without leaving half a session"   *)
(* (docs/dev/advanced/storage-playback.md).                                *)
(***************************************************************************)
TargetWhole == Existing => Whole(target) /\ target \in Listed

(***************************************************************************)
(* A save without overwrite=true never replaces a session, also when the   *)
(* session appeared after the handler's own look at the target.            *)
(***************************************************************************)
NoSilentOverwrite ==
    [][target # NoDir /\ target' # target =>
          \E o \in Op : At(o, "place") /\ op[o].request.overwrite]_vars

(***************************************************************************)
(* When stop has returned nothing touches the data root any more, so a new *)
(* server may be started on it: detached operation tasks have ended and no *)
(* handler can begin another.                                              *)
(***************************************************************************)
StoppedIsIdle ==
    server = "stopped" => pending = {} /\ WsEnded /\ \A o \in Op : ~Working(o)

(***************************************************************************)
(* stop returns: a release that falls between any two steps of wait_idle   *)
(* still wakes it.                                                         *)
(***************************************************************************)
StopReturns == server = "draining" ~> server \in {"stopped", "serving"}

(***************************************************************************)
(* A workspace save that was acknowledged is not lost, whatever fails and  *)
(* wherever the process is killed: it, or a later one, is on disk as a     *)
(* whole, as workspace.json or as its backup.                              *)
(***************************************************************************)
WorkspaceDurable ==
    \A s \in Save : ws[s] = "done" =>
        \E f \in {wsTarget, wsBak} : f.whole /\ f.doc >= s

(***************************************************************************)
(* Saving a session implements AtomicFile: seen through the target and,    *)
(* where a crash or a failed rollback left none, through the backup made   *)
(* last, the session is replaced in one step or not at all, it is never    *)
(* lost, and success is reported only for what is in place.                *)
(***************************************************************************)
Backups == {o \in Op : Whole(bak[o])}

Stored == IF target # NoDir THEN {target.version}
          ELSE {bak[o].version : o \in {o \in Backups : \A p \in Backups : p <= o}}

Saving == {o \in Op : /\ op[o].request.kind = "save"
                      /\ op[o].pc \in {"write", "place", "swap", "rollback", "cleanup",
                                       "ok", "failed", "release"}}

Progress == {CASE op[o].pc \in {"cleanup", "ok"} -> "committed"
               [] op[o].pc = "failed" -> "failed"
               [] op[o].pc = "release" -> op[o].record
               [] OTHER -> "open" : o \in Saving}

Atomic == INSTANCE AtomicFile
          WITH Content <- 0 .. MaxVersion,
               content <- Stored,
               offered <- {op[o].taken.version : o \in Saving},
               verdict <- IF Saving = {} THEN "idle" ELSE CHOOSE v \in Progress : TRUE

SavesAtomically == Atomic!Spec
===============================================================================
