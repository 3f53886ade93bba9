-------------------------- MODULE PersistenceProofs ---------------------------
(***************************************************************************)
(* Saving sessions and the workspace is safe for any number of operations, *)
(* failing calls and crashes, and a session save implements AtomicFile.    *)
(***************************************************************************)
EXTENDS Persistence, TLAPS, FiniteSetTheorems

Dir == [version : 0 .. MaxVersion, parts : 0 .. PartCount + 1]

File == [revision : Nat, doc : Nat, whole : BOOLEAN]

Pc == {"unused", "queued", "snapshot", "write", "place", "swap", "rollback", "cleanup",
       "read", "apply", "ok", "failed", "release", "notify", "done", "dead"}

Record == {"none", "queued", "running", "succeeded", "failed"}

Operation == [pc : Pc, request : Request, taken : Dir, record : Record]

WsPc == {"unused", "write", "place", "swap", "done", "failed", "dead"}

SessionTypeOK ==
    /\ mem \in 0 .. MaxVersion
    /\ target \in Dir /\ tmp \in [Op -> Dir] /\ bak \in [Op -> Dir]
    /\ pending \subseteq Request
    /\ op \in [Op -> Operation]
    /\ active \in BOOLEAN /\ releasing \in BOOLEAN
    /\ woken \in Nat /\ armed \in Nat
    /\ server \in {"serving", "draining", "look", "arm", "armed", "waiting", "stopped"}

WorkspaceTypeOK ==
    /\ {wsTarget, wsTmp, wsBak, wsAnswer} \subseteq File
    /\ wsRevision \in Nat
    /\ ws \in [Save -> WsPc]

(***************************************************************************)
(* The slot of OperationManager: an operation that works holds it, and is  *)
(* the one begun last; once stop has waited for the handlers nobody takes  *)
(* the slot, and stop returns only when it is free.                        *)
(***************************************************************************)
Slot ==
    /\ \A o \in Op : Working(o) => active
    /\ \A o, p \in Op : Working(o) /\ o < p => At(p, "unused")
    /\ \E n \in 0 .. MaxWork : Begun = 1 .. n
    /\ server \notin {"serving", "draining"} => pending = {} /\ WsEnded
    /\ server = "stopped" => ~active

(***************************************************************************)
(* The disk at each step of a save: x is the operation, t and b are its    *)
(* copy aside and its backup, d is what stands under the session's name.   *)
(***************************************************************************)
Consistent(x, t, b, d) ==
    /\ x.pc \in {"snapshot", "write", "place", "swap", "rollback", "cleanup"} =>
          x.request.kind = "save"
    /\ x.pc \in {"read", "apply"} => x.request.kind # "save"
    /\ x.pc \in {"unused", "queued", "snapshot"} => t = NoDir /\ b = NoDir
    /\ x.pc = "write" => t.parts = 0 \/ t.version = x.taken.version
    /\ x.pc \in {"place", "swap"} => Whole(t) /\ t.version = x.taken.version
    /\ x.pc \in {"swap", "rollback"} => d = NoDir /\ Whole(b)
    /\ x.pc = "cleanup" => d # NoDir

Disk ==
    /\ target # NoDir => Whole(target)
    /\ \A o \in Op : Consistent(op[o], tmp[o], bak[o], target)

SessionInv == SessionTypeOK /\ Slot /\ Disk

(***************************************************************************)
(* The workspace: one save writes at a time, those done came before it,    *)
(* and the newest of them is on disk throughout.                           *)
(***************************************************************************)
WsWorking(s) == ws[s] \in {"write", "place", "swap"}

(* The file holds the document of every save that was acknowledged, or a   *)
(* later one.                                                              *)
Holds(f) == f.whole /\ \A r \in Save : ws[r] = "done" => r <= f.doc

WsOrder ==
    /\ \A r, s \in Save : r < s /\ ws[s] # "unused" => ws[r] # "unused"
    /\ \A r, s \in Save : WsWorking(s) /\ r # s =>
          ~WsWorking(r) /\ (ws[r] = "done" => r < s)

WsDisk ==
    /\ wsTarget # NoFile => Holds(wsTarget)
    /\ wsTarget = NoFile => Holds(wsBak) \/ \A r \in Save : ws[r] # "done"
    /\ \A s \in Save :
         /\ ws[s] \in {"place", "swap"} => wsTmp.whole /\ wsTmp.doc = s
         /\ ws[s] = "swap" => wsTarget = NoFile /\ Holds(wsBak)

WorkspaceInv == WorkspaceTypeOK /\ WsOrder /\ WsDisk

PersistenceInv == SessionInv /\ WorkspaceInv

-------------------------------------------------------------------------------
(***************************************************************************)
(* Nothing is stored and nothing runs at the start.                        *)
(***************************************************************************)
LEMMA PersistenceInit == Init => PersistenceInv
<1> SUFFICES ASSUME Init PROVE PersistenceInv
  OBVIOUS
<1>1. NoDir \in Dir /\ NoFile \in File
  BY PersistenceAssumption DEF Dir, File, NoDir, NoFile, PartCount
<1>2. Unused \in Operation
  BY <1>1 DEF Unused, Operation, Pc, Request, Record
<1>3. SessionTypeOK /\ WorkspaceTypeOK
  <2>1. mem \in 0 .. MaxVersion /\ woken \in Nat /\ armed \in Nat /\ wsRevision \in Nat
    BY PersistenceAssumption DEF Init
  <2>2. active \in BOOLEAN /\ releasing \in BOOLEAN
    BY Zenon DEF Init
  <2>3. /\ target \in Dir /\ tmp \in [Op -> Dir] /\ bak \in [Op -> Dir]
        /\ pending \subseteq Request /\ op \in [Op -> Operation]
    BY <1>1, <1>2 DEF Init
  <2>4. {wsTarget, wsTmp, wsBak, wsAnswer} \subseteq File /\ ws \in [Save -> WsPc]
    BY <1>1 DEF Init, WsPc
  <2> QED
    BY <2>1, <2>2, <2>3, <2>4 DEF Init, SessionTypeOK, WorkspaceTypeOK
<1>4. Begun = {} /\ 1 .. 0 = {} /\ 0 \in 0 .. MaxWork
  BY PersistenceAssumption DEF Init, Begun, At, Unused
<1>5. Slot
  BY <1>4 DEF Init, Slot, Working, At, Unused
<1>6. Disk
  BY DEF Init, Disk, Consistent, Unused, NoDir
<1>7. WsOrder /\ WsDisk
  BY DEF Init, WsOrder, WsDisk, WsWorking
<1> QED
  BY <1>3, <1>5, <1>6, <1>7 DEF PersistenceInv, SessionInv, WorkspaceInv

-------------------------------------------------------------------------------
(***************************************************************************)
(* A step that leaves the workspace alone, apart from a new revision.      *)
(***************************************************************************)
LEMMA WorkspaceKept ==
    ASSUME WorkspaceInv, wsRevision' \in Nat,
           UNCHANGED <<wsTarget, wsTmp, wsBak, ws>>, wsAnswer' \in {wsAnswer, wsTarget}
    PROVE  WorkspaceInv'
BY DEF WorkspaceInv, WorkspaceTypeOK, WsOrder, WsDisk, WsWorking, Holds

(***************************************************************************)
(* WorkspaceStore::save: the document that stood there is given up only    *)
(* when the new one, written as a whole, has taken its name.               *)
(***************************************************************************)
LEMMA WorkspaceSave ==
    ASSUME WorkspaceInv, NEW s \in Save, WsRefuse(s) \/ WsBegin(s) \/ WsTask(s)
    PROVE  WorkspaceInv'
<1> USE DEF Save
<1>0. WorkspaceTypeOK /\ WsOrder /\ WsDisk /\ s \in Nat
  BY PersistenceAssumption DEF WorkspaceInv
<1>n. NoFile \in File
  BY DEF NoFile, File
<1>1. CASE WsRefuse(s)
  <2>1. ws[s] = "unused" /\ ws' = [ws EXCEPT ![s] = "failed"]
        /\ UNCHANGED <<wsTarget, wsTmp, wsBak, wsRevision, wsAnswer>>
        /\ \A r \in 1 .. s - 1 : ws[r] # "unused"
    BY <1>1 DEF WsRefuse, WsPut, WsGoto
  <2>2. WorkspaceTypeOK'
    BY <1>0, <2>1 DEF WorkspaceTypeOK, WsPc
  <2>3. WsOrder'
    BY <1>0, <2>1, PersistenceAssumption DEF WsOrder, WorkspaceTypeOK, WsWorking
  <2>4. WsDisk'
    BY <1>0, <2>1 DEF WsDisk, WorkspaceTypeOK, Holds
  <2> QED
    BY <2>2, <2>3, <2>4 DEF WorkspaceInv
<1>2. CASE WsBegin(s)
  <2>1. /\ ws[s] = "unused" /\ WsEnded
        /\ ws' = [ws EXCEPT ![s] = "write"] \/ ws' = [ws EXCEPT ![s] = "failed"]
        /\ UNCHANGED <<wsTarget, wsTmp, wsBak, wsAnswer>> /\ wsRevision' = wsRevision + 1
        /\ \A r \in 1 .. s - 1 : ws[r] # "unused"
    BY <1>2 DEF WsBegin, WsPut, WsGoto
  <2>2. WorkspaceTypeOK'
    BY <1>0, <2>1 DEF WorkspaceTypeOK, WsPc
  <2>3. \A r \in Save : r > s => ws[r] = "unused"
    BY <1>0, <2>1 DEF WsOrder
  <2>4. \A r \in Save : ~WsWorking(r)
    BY <2>1 DEF WsEnded, WsWorking
  <2>5. WsOrder'
    <3>1. /\ \A r \in Save : r # s => ws'[r] = ws[r]
          /\ ws'[s] \in {"write", "failed"}
      BY <1>0, <2>1 DEF WorkspaceTypeOK
    <3>2. \A r, t \in Save : r < t /\ ws'[t] # "unused" => ws'[r] # "unused"
      BY <1>0, <2>1, <2>3, <3>1, PersistenceAssumption DEF WsOrder
    <3> QED
      BY <2>3, <2>4, <3>1, <3>2, PersistenceAssumption DEF WsOrder, WsWorking
  <2>6. WsDisk'
    BY <1>0, <2>1 DEF WsDisk, WorkspaceTypeOK, Holds
  <2> QED
    BY <2>2, <2>5, <2>6 DEF WorkspaceInv
<1>3. CASE WsWrite(s)
  <2>1. /\ ws[s] = "write"
        /\ ws' = ws \/ ws' = [ws EXCEPT ![s] = "place"] \/ ws' = [ws EXCEPT ![s] = "failed"]
        /\ UNCHANGED <<wsTarget, wsBak, wsRevision, wsAnswer>>
    BY <1>3 DEF WsWrite, WsGoto
  <2>2. wsTmp' \in File
    <3>1. wsTmp \in File /\ wsRevision \in Nat
      BY <1>0 DEF WorkspaceTypeOK
    <3>2. [revision |-> wsRevision, doc |-> s, whole |-> FALSE] \in File
      BY <1>0, <3>1 DEF File
    <3>3. [wsTmp EXCEPT !.whole = TRUE] \in File
      BY <3>1 DEF File
    <3> QED
      BY <1>3, <3>1, <3>2, <3>3 DEF WsWrite
  <2>3. WorkspaceTypeOK'
    BY <1>0, <2>1, <2>2 DEF WorkspaceTypeOK, WsPc
  <2>4. WsOrder'
    BY <1>0, <2>1 DEF WsOrder, WorkspaceTypeOK, WsWorking
  <2>5. \A r \in Save : ws'[r] = "done" <=> ws[r] = "done"
    BY <1>0, <2>1 DEF WorkspaceTypeOK
  <2>6. \A r \in Save : ws'[r] \in {"place", "swap"} => r = s
    BY <1>0, <2>1 DEF WsOrder, WorkspaceTypeOK, WsWorking
  <2>7. ws'[s] \in {"place", "swap"} => ws'[s] = "place" /\ wsTmp'.whole /\ wsTmp'.doc = s
    BY <1>0, <1>3, <2>1 DEF WsWrite, WorkspaceTypeOK, WsGoto, File
  <2>8. WsDisk'
    BY <1>0, <2>1, <2>5, <2>6, <2>7 DEF WsDisk, Holds
  <2> QED
    BY <2>3, <2>4, <2>8 DEF WorkspaceInv
<1>4. CASE WsPlace(s)
  <2>1. /\ ws[s] = "place" /\ wsTmp.whole /\ wsTmp.doc = s
        /\ UNCHANGED <<wsRevision, wsAnswer>>
    BY <1>0, <1>4 DEF WsPlace, WsDisk
  <2>2. \A r \in Save : r # s => ~WsWorking(r) /\ (ws[r] = "done" => r < s)
    BY <1>0, <2>1 DEF WsOrder, WsWorking
  <2>3. CASE /\ wsTarget # NoFile /\ wsBak' = wsTarget /\ wsTarget' = NoFile
             /\ WsGoto(s, "swap") /\ UNCHANGED wsTmp
    <3>1. WorkspaceTypeOK'
      BY <1>0, <1>n, <2>1, <2>3 DEF WorkspaceTypeOK, WsPc, WsGoto
    <3>2. WsOrder'
      BY <1>0, <2>1, <2>2, <2>3 DEF WsOrder, WorkspaceTypeOK, WsWorking, WsGoto
    <3>3. Holds(wsTarget) /\ Holds(wsBak)'
      BY <1>0, <2>1, <2>3 DEF WsDisk, Holds, WsGoto, WorkspaceTypeOK
    <3>4. \A r \in Save : ws'[r] \in {"place", "swap"} => r = s
      BY <1>0, <2>1, <2>2, <2>3 DEF WorkspaceTypeOK, WsWorking, WsGoto
    <3>5. WsDisk'
      BY <2>1, <2>3, <3>3, <3>4 DEF WsDisk
    <3> QED
      BY <3>1, <3>2, <3>5 DEF WorkspaceInv
  <2>4. CASE /\ wsTarget = NoFile /\ wsTarget' = wsTmp /\ wsTmp' = NoFile
             /\ WsGoto(s, "done") /\ UNCHANGED wsBak
    <3>1. WorkspaceTypeOK'
      BY <1>0, <1>n, <2>1, <2>4 DEF WorkspaceTypeOK, WsPc, WsGoto
    <3>2. WsOrder'
      BY <1>0, <2>1, <2>2, <2>4 DEF WsOrder, WorkspaceTypeOK, WsWorking, WsGoto
    <3>3. Holds(wsTarget)' /\ wsTarget' # NoFile
      BY <1>0, <2>1, <2>2, <2>4 DEF Holds, WsGoto, WorkspaceTypeOK, NoFile
    <3>4. \A r \in Save : ws'[r] \notin {"place", "swap"}
      BY <1>0, <2>1, <2>2, <2>4 DEF WorkspaceTypeOK, WsWorking, WsGoto
    <3>5. WsDisk'
      BY <3>3, <3>4 DEF WsDisk
    <3> QED
      BY <3>1, <3>2, <3>5 DEF WorkspaceInv
  <2>5. CASE /\ WsGoto(s, "failed")
             /\ wsBak' \in (IF wsTarget = NoFile THEN {wsBak} ELSE {wsBak, NoFile})
             /\ UNCHANGED <<wsTarget, wsTmp>>
    <3>1. WorkspaceTypeOK'
      BY <1>0, <1>n, <2>1, <2>5 DEF WorkspaceTypeOK, WsPc, WsGoto
    <3>2. WsOrder'
      BY <1>0, <2>1, <2>2, <2>5 DEF WsOrder, WorkspaceTypeOK, WsWorking, WsGoto
    <3>3. \A r \in Save : ws'[r] = "done" <=> ws[r] = "done"
      BY <1>0, <2>1, <2>5 DEF WorkspaceTypeOK, WsGoto
    <3>4. \A r \in Save : ws'[r] \notin {"place", "swap"}
      BY <1>0, <2>1, <2>2, <2>5 DEF WorkspaceTypeOK, WsWorking, WsGoto
    <3>5. WsDisk'
      BY <1>0, <2>5, <3>3, <3>4 DEF WsDisk, Holds
    <3> QED
      BY <3>1, <3>2, <3>5 DEF WorkspaceInv
  <2> QED
    BY <1>4, <2>3, <2>4, <2>5 DEF WsPlace
<1>5. CASE WsSwap(s)
  <2>1. /\ ws[s] = "swap" /\ wsTmp.whole /\ wsTmp.doc = s
        /\ wsTarget = NoFile /\ Holds(wsBak)
        /\ UNCHANGED <<wsRevision, wsAnswer>>
    BY <1>0, <1>5 DEF WsSwap, WsDisk
  <2>2. \A r \in Save : r # s => ~WsWorking(r) /\ (ws[r] = "done" => r < s)
    BY <1>0, <2>1 DEF WsOrder, WsWorking
  <2>3. CASE /\ wsTarget' = wsTmp /\ wsTmp' = NoFile /\ wsBak' \in {wsBak, NoFile}
             /\ WsGoto(s, "done")
    <3>1. WorkspaceTypeOK'
      BY <1>0, <1>n, <2>1, <2>3 DEF WorkspaceTypeOK, WsPc, WsGoto
    <3>2. WsOrder'
      BY <1>0, <2>1, <2>2, <2>3 DEF WsOrder, WorkspaceTypeOK, WsWorking, WsGoto
    <3>3. Holds(wsTarget)' /\ wsTarget' # NoFile
      BY <1>0, <2>1, <2>2, <2>3 DEF Holds, WsGoto, WorkspaceTypeOK, NoFile
    <3>4. \A r \in Save : ws'[r] \notin {"place", "swap"}
      BY <1>0, <2>1, <2>2, <2>3 DEF WorkspaceTypeOK, WsWorking, WsGoto
    <3>5. WsDisk'
      BY <3>3, <3>4 DEF WsDisk
    <3> QED
      BY <3>1, <3>2, <3>5 DEF WorkspaceInv
  <2>4. CASE /\ WsGoto(s, "failed") /\ UNCHANGED wsTmp
             /\ \/ wsTarget' = wsBak /\ wsBak' = NoFile
                \/ UNCHANGED <<wsTarget, wsBak>>
    <3>1. WorkspaceTypeOK'
      BY <1>0, <1>n, <2>1, <2>4 DEF WorkspaceTypeOK, WsPc, WsGoto
    <3>2. WsOrder'
      BY <1>0, <2>1, <2>2, <2>4 DEF WsOrder, WorkspaceTypeOK, WsWorking, WsGoto
    <3>3. \A r \in Save : ws'[r] = "done" <=> ws[r] = "done"
      BY <1>0, <2>1, <2>4 DEF WorkspaceTypeOK, WsGoto
    <3>4. \A r \in Save : ws'[r] \notin {"place", "swap"}
      BY <1>0, <2>1, <2>2, <2>4 DEF WorkspaceTypeOK, WsWorking, WsGoto
    <3>5. wsBak # NoFile
      BY <2>1 DEF Holds, NoFile
    <3>6. WsDisk'
      BY <2>1, <2>4, <3>3, <3>4, <3>5 DEF WsDisk, Holds
    <3> QED
      BY <3>1, <3>2, <3>6 DEF WorkspaceInv
  <2> QED
    BY <1>5, <2>3, <2>4 DEF WsSwap
<1> QED
  BY <1>1, <1>2, <1>3, <1>4, <1>5 DEF WsTask

-------------------------------------------------------------------------------
(***************************************************************************)
(* Only one operation works; every other one has not begun or has let go   *)
(* of the slot.                                                            *)
(***************************************************************************)
LEMMA WorkingAlone ==
    ASSUME SessionTypeOK, Slot, NEW o \in Op, Working(o)
    PROVE  \A p \in Op : p # o => op[p].pc \in {"unused", "notify", "done", "dead"}
<1>1. \A p \in Op : p # o => p < o \/ o < p
  BY PersistenceAssumption DEF Op
<1>2. \A p \in Op : Working(p) => p = o
  BY <1>1 DEF Slot, Working
<1> QED
  BY <1>2 DEF Working, At, SessionTypeOK, Operation, Pc

(***************************************************************************)
(* The operation that works goes on, and keeps the slot.                   *)
(***************************************************************************)
LEMMA TaskKeeps ==
    ASSUME SessionInv, NEW o \in Op, Working(o),
           SessionTypeOK',
           \A p \in Op : p # o => op'[p] = op[p] /\ tmp'[p] = tmp[p] /\ bak'[p] = bak[p],
           op'[o].pc # "unused",
           target' # NoDir => Whole(target'),
           Consistent(op'[o], tmp'[o], bak'[o], target'),
           UNCHANGED <<active, pending, server, ws>>
    PROVE  SessionInv'
<1>0. SessionTypeOK /\ Slot /\ Disk
  BY DEF SessionInv
<1>1. \A p \in Op : p # o => op[p].pc \in {"unused", "notify", "done", "dead"}
  BY <1>0, WorkingAlone
<1>2. Begun' = Begun
  BY DEF Begun, At, Working
<1>3. \A p, q \in Op : Working(p)' /\ p < q => At(q, "unused")'
  <2> SUFFICES ASSUME NEW p \in Op, NEW q \in Op, Working(p)', p < q PROVE At(q, "unused")'
    OBVIOUS
  <2>1. p = o
    BY <1>1 DEF Working, At
  <2>2. q # o /\ At(q, "unused")
    BY <1>0, <2>1, PersistenceAssumption DEF Slot, Op
  <2> QED
    BY <2>2 DEF At
<1>4. Slot'
  BY <1>0, <1>1, <1>2, <1>3 DEF Slot, Working, At, WsEnded
<1>5. \A p \in Op : p # o => Consistent(op'[p], tmp'[p], bak'[p], target')
  BY <1>0, <1>1 DEF Disk, Consistent
<1>6. Disk'
  BY <1>5 DEF Disk
<1> QED
  BY <1>4, <1>6 DEF SessionInv

(***************************************************************************)
(* What Goto does to the table of operations.                              *)
(***************************************************************************)
LEMMA GotoType ==
    ASSUME SessionTypeOK, NEW o \in Op, NEW pc \in Pc, Goto(o, pc)
    PROVE  /\ op' \in [Op -> Operation]
           /\ \A p \in Op : p # o => op'[p] = op[p]
           /\ op'[o] = [op[o] EXCEPT !.pc = pc]
           /\ op'[o].pc = pc /\ op'[o].request = op[o].request
           /\ op'[o].taken = op[o].taken /\ op'[o].record = op[o].record
<1>1. op[o] \in Operation /\ [op[o] EXCEPT !.pc = pc] \in Operation
  BY DEF SessionTypeOK, Operation
<1>2. op' = [op EXCEPT ![o] = [op[o] EXCEPT !.pc = pc]]
  BY DEF Goto
<1> QED
  BY <1>1, <1>2 DEF SessionTypeOK, Operation

(***************************************************************************)
(* The steps of a task before the disk is touched, and the report.         *)
(***************************************************************************)
LEMMA TaskRuns ==
    ASSUME SessionInv, NEW o \in Op, Run(o) \/ Snapshot(o) \/ Report(o)
    PROVE  SessionInv' /\ Working(o)
<1> USE DEF Quiet, Still
<1>0. SessionTypeOK /\ Slot /\ Disk
  BY DEF SessionInv
<1>1. /\ op[o] \in Operation /\ mem \in 0 .. MaxVersion
      /\ Consistent(op[o], tmp[o], bak[o], target)
      /\ target # NoDir => Whole(target)
  BY <1>0 DEF SessionTypeOK, Disk
<1>2. CASE Run(o)
  <2> DEFINE x == [op[o] EXCEPT !.pc = IF op[o].request.kind = "save" THEN "snapshot" ELSE "read",
                                !.record = "running"]
  <2>1. x \in Operation /\ x.request = op[o].request
        /\ x.pc = IF op[o].request.kind = "save" THEN "snapshot" ELSE "read"
    BY <1>1 DEF Operation, Pc, Record
  <2>2. op' = [op EXCEPT ![o] = x]
    BY <1>2 DEF Run
  <2> HIDE DEF x
  <2>3. op'[o] = x /\ SessionTypeOK'
    <3>1. op'[o] = x /\ op' \in [Op -> Operation]
      BY <1>0, <2>1, <2>2 DEF SessionTypeOK
    <3> QED
      BY <1>0, <1>2, <3>1 DEF SessionTypeOK, Run
  <2>4. Consistent(op'[o], tmp'[o], bak'[o], target')
    BY <1>1, <1>2, <2>1, <2>3 DEF Consistent, Run, At
  <2>5. Working(o)
    BY <1>2 DEF Run, Working, At
  <2> QED
    BY <1>0, <1>1, <1>2, <2>1, <2>2, <2>3, <2>4, <2>5, TaskKeeps DEF Run, SessionTypeOK, workspaceVars
<1>3. CASE Snapshot(o)
  <2> DEFINE x == [op[o] EXCEPT !.pc = "write",
                                !.taken = [version |-> mem, parts |-> PartCount + 1]]
  <2>0. [version |-> mem, parts |-> PartCount + 1] \in Dir
    BY <1>1 DEF Dir, PartCount
  <2>1. x \in Operation /\ x.request = op[o].request /\ x.pc = "write"
    BY <1>1, <2>0 DEF Operation, Pc
  <2>2. op' = [op EXCEPT ![o] = x]
    BY <1>3 DEF Snapshot
  <2> HIDE DEF x
  <2>3. op'[o] = x /\ SessionTypeOK'
    BY <1>0, <1>3, <2>1, <2>2 DEF SessionTypeOK, Snapshot
  <2>4. Consistent(op'[o], tmp'[o], bak'[o], target')
    BY <1>1, <1>3, <2>1, <2>3 DEF Consistent, Snapshot, At, NoDir
  <2>5. Working(o)
    BY <1>3 DEF Snapshot, Working, At
  <2> QED
    BY <1>0, <1>1, <1>3, <2>1, <2>2, <2>3, <2>4, <2>5, TaskKeeps
       DEF Snapshot, SessionTypeOK, workspaceVars
<1>4. CASE Report(o)
  <2> DEFINE x == [op[o] EXCEPT !.pc = "release",
                        !.record = IF op[o].pc = "ok" THEN "succeeded" ELSE "failed"]
  <2>1. x \in Operation /\ x.request = op[o].request /\ x.pc = "release"
    BY <1>1 DEF Operation, Pc, Record
  <2>2. op' = [op EXCEPT ![o] = x]
    BY <1>4 DEF Report
  <2> HIDE DEF x
  <2>3. op'[o] = x /\ SessionTypeOK'
    BY <1>0, <1>4, <2>1, <2>2 DEF SessionTypeOK, Report
  <2>4. Consistent(op'[o], tmp'[o], bak'[o], target')
    BY <2>1, <2>3 DEF Consistent
  <2>5. Working(o)
    BY <1>4 DEF Report, Working, At
  <2> QED
    BY <1>0, <1>1, <1>4, <2>1, <2>2, <2>3, <2>4, <2>5, TaskKeeps
       DEF Report, SessionTypeOK, workspaceVars
<1> QED
  BY <1>2, <1>3, <1>4

(***************************************************************************)
(* save_to_disk: the copy aside grows file by file, all of one version.    *)
(***************************************************************************)
LEMMA TaskWrites ==
    ASSUME SessionInv, NEW o \in Op, SaveToDisk(o)
    PROVE  SessionInv' /\ Working(o)
<1> USE DEF Quiet, Still, workspaceVars
<1>0. SessionTypeOK /\ Slot /\ Disk
  BY DEF SessionInv
<1>1. /\ op[o] \in Operation /\ tmp[o] \in Dir
      /\ Consistent(op[o], tmp[o], bak[o], target)
      /\ target # NoDir => Whole(target)
  BY <1>0 DEF SessionTypeOK, Disk
<1>2. op[o].pc = "write" /\ op[o].request.kind = "save" /\ Working(o)
      /\ (tmp[o].parts = 0 \/ tmp[o].version = op[o].taken.version)
  BY <1>1 DEF SaveToDisk, CreateDir, WriteMeta, WriteStates, WriteEvents, WriteTelemetry,
              WriteStep, At, Consistent, Working
<1>n. NoDir \in Dir
  BY PersistenceAssumption DEF NoDir, Dir, PartCount
<1>3. ASSUME NEW n \in 0 .. PartCount, WriteStep(o, n) PROVE SessionInv'
  <2>1. CASE /\ tmp' = [tmp EXCEPT ![o] = [version |-> op[o].taken.version, parts |-> n + 1]]
             /\ UNCHANGED op
    <3>1. [version |-> op[o].taken.version, parts |-> n + 1] \in Dir
      BY <1>1 DEF Operation, Dir, PartCount
    <3>2. SessionTypeOK'
      BY <1>0, <1>3, <2>1, <3>1 DEF SessionTypeOK, WriteStep
    <3>3. Consistent(op'[o], tmp'[o], bak'[o], target')
      BY <1>0, <1>1, <1>2, <2>1, <3>1 DEF Consistent, SessionTypeOK
    <3> QED
      BY <1>0, <1>1, <1>2, <1>3, <2>1, <3>2, <3>3, TaskKeeps DEF WriteStep, SessionTypeOK
  <2>2. CASE Goto(o, "failed") /\ tmp' \in {[tmp EXCEPT ![o] = NoDir], tmp}
    <3>1. /\ op' \in [Op -> Operation] /\ \A p \in Op : p # o => op'[p] = op[p]
          /\ op'[o].pc = "failed"
      BY <1>0, <2>2, GotoType DEF Pc
    <3>2. SessionTypeOK'
      BY <1>0, <1>n, <1>3, <2>2, <3>1 DEF SessionTypeOK, WriteStep
    <3>3. Consistent(op'[o], tmp'[o], bak'[o], target')
      BY <3>1 DEF Consistent
    <3> QED
      BY <1>0, <1>1, <1>2, <1>3, <2>2, <3>1, <3>2, <3>3, TaskKeeps DEF WriteStep, SessionTypeOK
  <2> QED
    BY <1>3, <2>1, <2>2 DEF WriteStep
<1>4. CASE /\ At(o, "write") /\ Whole(tmp[o])
           /\ Goto(o, "place")
           /\ UNCHANGED <<mem, target, tmp, bak, faults>> /\ Still
  <2>1. /\ op' \in [Op -> Operation] /\ \A p \in Op : p # o => op'[p] = op[p]
        /\ op'[o].pc = "place" /\ op'[o].request = op[o].request
        /\ op'[o].taken = op[o].taken
    BY <1>0, <1>4, GotoType DEF Pc
  <2>2. SessionTypeOK'
    BY <1>0, <1>4, <2>1 DEF SessionTypeOK
  <2>3. Consistent(op'[o], tmp'[o], bak'[o], target')
    BY <1>1, <1>2, <1>4, <2>1 DEF Consistent, Whole, PartCount
  <2> QED
    BY <1>0, <1>1, <1>2, <1>4, <2>1, <2>2, <2>3, TaskKeeps DEF SessionTypeOK
<1> QED
  BY <1>2, <1>3, <1>4
     DEF SaveToDisk, CreateDir, WriteMeta, WriteStates, WriteEvents, WriteTelemetry, PartCount

(***************************************************************************)
(* save_snapshot_atomic after the copy: wherever a rename fails, what      *)
(* stands under the session's name is whole, or its backup is.             *)
(***************************************************************************)
LEMMA TaskPlaces ==
    ASSUME SessionInv, NEW o \in Op, Place(o) \/ Swap(o) \/ Rollback(o) \/ Cleanup(o)
    PROVE  SessionInv' /\ Working(o)
<1> USE DEF Quiet, Still, workspaceVars
<1>0. SessionTypeOK /\ Slot /\ Disk
  BY DEF SessionInv
<1>1. /\ op[o] \in Operation /\ tmp[o] \in Dir /\ bak[o] \in Dir /\ target \in Dir
      /\ Consistent(op[o], tmp[o], bak[o], target)
      /\ target # NoDir => Whole(target)
  BY <1>0 DEF SessionTypeOK, Disk
<1>n. NoDir \in Dir /\ ~Whole(NoDir)
  BY PersistenceAssumption DEF NoDir, Dir, PartCount, Whole
<1>w. Working(o)
  BY DEF Place, Swap, Rollback, Cleanup, At, Working
<1> SUFFICES SessionInv'
  BY <1>w
<1>u. /\ UNCHANGED <<mem, pending, active, releasing, woken, server, armed, ws>>
  BY DEF Place, Swap, Rollback, Cleanup
<1>g. ASSUME NEW pc \in Pc, Goto(o, pc), pc # "unused",
             target' \in Dir, tmp' \in [Op -> Dir], bak' \in [Op -> Dir],
             \A p \in Op : p # o => tmp'[p] = tmp[p] /\ bak'[p] = bak[p],
             target' # NoDir => Whole(target'),
             Consistent(op'[o], tmp'[o], bak'[o], target')
      PROVE  SessionInv'
  <2>1. /\ op' \in [Op -> Operation] /\ \A p \in Op : p # o => op'[p] = op[p]
        /\ op'[o].pc = pc
    BY <1>0, <1>g, GotoType
  <2>2. SessionTypeOK'
    BY <1>0, <1>u, <1>g, <2>1 DEF SessionTypeOK
  <2> QED
    BY <1>0, <1>w, <1>u, <1>g, <2>1, <2>2, TaskKeeps
<1>f. ASSUME NEW pc \in {"ok", "failed"}, Goto(o, pc)
      PROVE  Consistent(op'[o], tmp'[o], bak'[o], target')
  <2>1. op'[o].pc = pc
    BY <1>0, <1>f, GotoType DEF Pc
  <2> QED
    BY <2>1 DEF Consistent
<1>2. CASE Place(o)
  <2>0. Whole(tmp[o]) /\ op[o].pc = "place" /\ op[o].request.kind = "save"
        /\ tmp[o].version = op[o].taken.version
    BY <1>1, <1>2 DEF Place, At, Consistent
  <2>1. CASE target = NoDir /\ RenameToTarget(o) /\ Goto(o, "ok") /\ UNCHANGED bak
    <3>1. /\ target' \in Dir /\ tmp' \in [Op -> Dir] /\ bak' \in [Op -> Dir]
          /\ \A p \in Op : p # o => tmp'[p] = tmp[p] /\ bak'[p] = bak[p]
          /\ Whole(target')
      BY <1>0, <1>1, <1>n, <2>0, <2>1 DEF RenameToTarget, SessionTypeOK
    <3>2. Consistent(op'[o], tmp'[o], bak'[o], target')
      BY <1>f, <2>1
    <3> QED
      BY <1>g, <2>1, <3>1, <3>2 DEF Pc
  <2>2. CASE /\ Goto(o, "failed") /\ tmp' \in {tmp, [tmp EXCEPT ![o] = NoDir]}
             /\ UNCHANGED <<target, bak>>
    <3>1. /\ target' \in Dir /\ tmp' \in [Op -> Dir] /\ bak' \in [Op -> Dir]
          /\ \A p \in Op : p # o => tmp'[p] = tmp[p] /\ bak'[p] = bak[p]
          /\ target' # NoDir => Whole(target')
      BY <1>0, <1>1, <1>n, <2>2 DEF SessionTypeOK
    <3>2. Consistent(op'[o], tmp'[o], bak'[o], target')
      BY <1>f, <2>2
    <3> QED
      BY <1>g, <2>2, <3>1, <3>2 DEF Pc
  <2>3. CASE /\ target # NoDir /\ bak' = [bak EXCEPT ![o] = target] /\ target' = NoDir
             /\ Goto(o, "swap") /\ UNCHANGED tmp
    <3>1. /\ target' \in Dir /\ tmp' \in [Op -> Dir] /\ bak' \in [Op -> Dir]
          /\ \A p \in Op : p # o => tmp'[p] = tmp[p] /\ bak'[p] = bak[p]
          /\ target' # NoDir => Whole(target')
          /\ bak'[o] = target
      BY <1>0, <1>1, <1>n, <2>3 DEF SessionTypeOK
    <3>2. /\ op'[o].pc = "swap" /\ op'[o].request = op[o].request
          /\ op'[o].taken = op[o].taken
      BY <1>0, <2>3, GotoType DEF Pc
    <3>3. Consistent(op'[o], tmp'[o], bak'[o], target')
      BY <1>1, <2>0, <2>3, <3>1, <3>2 DEF Consistent
    <3> QED
      BY <1>g, <2>3, <3>1, <3>3 DEF Pc
  <2> QED
    BY <1>2, <2>1, <2>2, <2>3 DEF Place
<1>3. CASE Swap(o)
  <2>0. /\ Whole(tmp[o]) /\ tmp[o].version = op[o].taken.version
        /\ op[o].pc = "swap" /\ op[o].request.kind = "save"
        /\ target = NoDir /\ Whole(bak[o])
    BY <1>1, <1>3 DEF Swap, At, Consistent
  <2>1. CASE RenameToTarget(o) /\ Goto(o, "cleanup") /\ UNCHANGED bak
    <3>1. /\ target' \in Dir /\ tmp' \in [Op -> Dir] /\ bak' \in [Op -> Dir]
          /\ \A p \in Op : p # o => tmp'[p] = tmp[p] /\ bak'[p] = bak[p]
          /\ Whole(target') /\ target' # NoDir
      BY <1>0, <1>1, <1>n, <2>0, <2>1 DEF RenameToTarget, SessionTypeOK
    <3>2. op'[o].pc = "cleanup" /\ op'[o].request = op[o].request
      BY <1>0, <2>1, GotoType DEF Pc
    <3>3. Consistent(op'[o], tmp'[o], bak'[o], target')
      BY <2>0, <3>1, <3>2 DEF Consistent
    <3> QED
      BY <1>g, <2>1, <3>1, <3>3 DEF Pc
  <2>2. CASE Goto(o, "rollback") /\ UNCHANGED <<target, tmp, bak>>
    <3>1. /\ target' \in Dir /\ tmp' \in [Op -> Dir] /\ bak' \in [Op -> Dir]
          /\ \A p \in Op : p # o => tmp'[p] = tmp[p] /\ bak'[p] = bak[p]
          /\ target' # NoDir => Whole(target')
      BY <1>0, <1>1, <2>2 DEF SessionTypeOK
    <3>2. op'[o].pc = "rollback" /\ op'[o].request = op[o].request
      BY <1>0, <2>2, GotoType DEF Pc
    <3>3. Consistent(op'[o], tmp'[o], bak'[o], target')
      BY <2>0, <2>2, <3>2 DEF Consistent
    <3> QED
      BY <1>g, <2>2, <3>1, <3>3 DEF Pc
  <2> QED
    BY <1>3, <2>1, <2>2 DEF Swap
<1>4. CASE Rollback(o)
  <2>0. target = NoDir /\ Whole(bak[o])
    BY <1>1, <1>4 DEF Rollback, At, Consistent
  <2>1. Goto(o, "failed") /\ Consistent(op'[o], tmp'[o], bak'[o], target')
    BY <1>4, <1>f DEF Rollback
  <2>2. /\ tmp' \in [Op -> Dir]
        /\ \A p \in Op : p # o => tmp'[p] = tmp[p]
    BY <1>0, <1>n, <1>4 DEF SessionTypeOK, Rollback
  <2>3. /\ target' \in Dir /\ bak' \in [Op -> Dir]
        /\ \A p \in Op : p # o => bak'[p] = bak[p]
        /\ target' # NoDir => Whole(target')
    BY <1>0, <1>1, <1>n, <1>4, <2>0 DEF SessionTypeOK, Rollback
  <2> QED
    BY <1>g, <2>1, <2>2, <2>3 DEF Pc
<1>5. CASE Cleanup(o)
  <2>1. UNCHANGED <<target, tmp>> /\ tmp \in [Op -> Dir]
    BY <1>0, <1>5 DEF Cleanup, SessionTypeOK
  <2>2. /\ bak' \in [Op -> Dir]
        /\ \A p \in Op : p # o => bak'[p] = bak[p]
    <3>1. [bak[o] EXCEPT !.parts = 1] \in Dir
      BY <1>1 DEF Dir, PartCount
    <3>2. bak' \in {bak, [bak EXCEPT ![o] = NoDir], [bak EXCEPT ![o] = [bak[o] EXCEPT !.parts = 1]]}
      BY <1>5 DEF Cleanup
    <3> QED
      BY <1>0, <1>n, <3>1, <3>2 DEF SessionTypeOK
  <2>3. CASE Goto(o, "ok")
    <3>1. Consistent(op'[o], tmp'[o], bak'[o], target')
      BY <1>f, <2>3
    <3> QED
      BY <1>1, <1>g, <2>1, <2>2, <2>3, <3>1 DEF Pc
  <2>4. CASE Goto(o, "failed")
    <3>1. Consistent(op'[o], tmp'[o], bak'[o], target')
      BY <1>f, <2>4
    <3> QED
      BY <1>1, <1>g, <2>1, <2>2, <2>4, <3>1 DEF Pc
  <2> QED
    BY <1>5, <2>3, <2>4 DEF Cleanup
<1> QED
  BY <1>2, <1>3, <1>4, <1>5

(***************************************************************************)
(* A load leaves the disk alone.                                           *)
(***************************************************************************)
LEMMA TaskLoads ==
    ASSUME SessionInv, NEW o \in Op, Read(o) \/ Apply(o)
    PROVE  SessionInv' /\ Working(o)
<1> USE DEF Quiet, Still, workspaceVars
<1>0. SessionTypeOK /\ Slot /\ Disk
  BY DEF SessionInv
<1>1. /\ op[o] \in Operation /\ target \in Dir
      /\ target # NoDir => Whole(target)
      /\ op[o].request.kind # "save"
  BY <1>0 DEF SessionTypeOK, Disk, Consistent, Read, Apply, At
<1>w. Working(o)
  BY DEF Read, Apply, At, Working
<1> SUFFICES SessionInv'
  BY <1>w
<1>u. /\ UNCHANGED <<target, tmp, bak, pending, active, releasing, woken, server, armed, ws>>
  BY DEF Read, Apply
<1>g. ASSUME op' \in [Op -> Operation], op'[o].pc \in {"apply", "failed", "ok"},
             op'[o].request = op[o].request,
             \A p \in Op : p # o => op'[p] = op[p], mem' \in 0 .. MaxVersion
      PROVE  SessionInv'
  <2>2. SessionTypeOK'
    BY <1>0, <1>u, <1>g DEF SessionTypeOK
  <2>3. Consistent(op'[o], tmp'[o], bak'[o], target')
    BY <1>1, <1>g DEF Consistent
  <2> QED
    BY <1>0, <1>1, <1>w, <1>u, <1>g, <2>2, <2>3, TaskKeeps
<1>2. CASE Read(o)
  <2>1. mem' \in 0 .. MaxVersion
    BY <1>0, <1>2 DEF Read, SessionTypeOK
  <2>2. CASE op' = [op EXCEPT ![o].pc = "apply", ![o].taken = target]
    <3> DEFINE x == [op[o] EXCEPT !.pc = "apply", !.taken = target]
    <3>1. x \in Operation /\ x.pc = "apply" /\ x.request = op[o].request
      BY <1>1 DEF Operation, Pc
    <3>2. op' = [op EXCEPT ![o] = x]
      BY <2>2
    <3> HIDE DEF x
    <3>3. op' \in [Op -> Operation] /\ op'[o] = x /\ \A p \in Op : p # o => op'[p] = op[p]
      BY <1>0, <3>1, <3>2 DEF SessionTypeOK
    <3> QED
      BY <1>g, <2>1, <3>1, <3>3
  <2>3. CASE Goto(o, "failed")
    <3>1. /\ op' \in [Op -> Operation] /\ op'[o].pc = "failed"
          /\ op'[o].request = op[o].request
          /\ \A p \in Op : p # o => op'[p] = op[p]
      BY <1>0, <2>3, GotoType DEF Pc
    <3> QED
      BY <1>g, <2>1, <3>1
  <2> QED
    BY <1>2, <2>2, <2>3 DEF Read
<1>3. CASE Apply(o)
  <2>1. mem' \in 0 .. MaxVersion
    BY <1>1, <1>3 DEF Apply, Operation, Dir
  <2>2. /\ op' \in [Op -> Operation] /\ op'[o].pc = "ok"
        /\ op'[o].request = op[o].request
        /\ \A p \in Op : p # o => op'[p] = op[p]
    BY <1>0, <1>3, GotoType DEF Pc, Apply
  <2> QED
    BY <1>g, <2>1, <2>2
<1> QED
  BY <1>2, <1>3

(***************************************************************************)
(* The slot is let go of by the one operation that had it.                 *)
(***************************************************************************)
LEMMA TaskReleases ==
    ASSUME SessionInv, NEW o \in Op, Release(o)
    PROVE  SessionInv'
<1>0. SessionTypeOK /\ Slot /\ Disk
  BY DEF SessionInv
<1>1. ASSUME NEW pc \in {"notify", "done"}, Goto(o, pc), ~At(o, "unused"),
             UNCHANGED <<mem, target, tmp, bak, pending, server, armed>>,
             active' \in BOOLEAN, releasing' \in BOOLEAN, woken' \in Nat
      PROVE  /\ SessionTypeOK' /\ Disk' /\ Begun' = Begun
             /\ op'[o].pc = pc /\ \A p \in Op : p # o => op'[p] = op[p]
  <2>1. /\ op' \in [Op -> Operation] /\ op'[o].pc = pc
        /\ \A p \in Op : p # o => op'[p] = op[p]
    BY <1>0, <1>1, GotoType DEF Pc
  <2>2. SessionTypeOK'
    BY <1>0, <1>1, <2>1 DEF SessionTypeOK
  <2>3. Consistent(op'[o], tmp'[o], bak'[o], target')
    BY <2>1 DEF Consistent
  <2>4. Disk'
    BY <1>0, <1>1, <2>1, <2>3 DEF Disk
  <2>5. Begun' = Begun
    BY <1>1, <2>1 DEF Begun, At
  <2> QED
    BY <2>1, <2>2, <2>4, <2>5
<1>2. CASE /\ At(o, "release") /\ active' = FALSE /\ releasing' = TRUE /\ Goto(o, "notify")
           /\ UNCHANGED <<mem, target, tmp, bak, pending, woken, server, armed, ws>>
  <2>1. /\ SessionTypeOK' /\ Disk' /\ Begun' = Begun
        /\ op'[o].pc = "notify" /\ \A p \in Op : p # o => op'[p] = op[p]
    <3>1. woken' \in Nat /\ ~At(o, "unused")
      BY <1>0, <1>2 DEF SessionTypeOK, At
    <3>2. active' \in BOOLEAN /\ releasing' \in BOOLEAN
      BY <1>2
    <3> QED
      BY <1>1, <1>2, <3>1, <3>2
  <2>2. \A p \in Op : p # o => op[p].pc \in {"unused", "notify", "done", "dead"}
    BY <1>0, <1>2, WorkingAlone DEF Working, At
  <2>3. \A p \in Op : ~Working(p)'
    BY <2>1, <2>2 DEF Working, At
  <2>4. Slot'
    BY <1>0, <1>2, <2>1, <2>3 DEF Slot, WsEnded
  <2> QED
    BY <2>1, <2>4 DEF SessionInv
<1>3. CASE /\ At(o, "notify") /\ woken' = woken + 1 /\ releasing' = FALSE /\ Goto(o, "done")
           /\ UNCHANGED <<mem, target, tmp, bak, active, pending, server, armed, ws>>
  <2>1. /\ SessionTypeOK' /\ Disk' /\ Begun' = Begun
        /\ op'[o].pc = "done" /\ \A p \in Op : p # o => op'[p] = op[p]
    <3>1. woken' \in Nat /\ ~At(o, "unused")
      BY <1>0, <1>3 DEF SessionTypeOK, At
    <3>2. active' \in BOOLEAN /\ releasing' \in BOOLEAN
      BY <1>0, <1>3 DEF SessionTypeOK
    <3> QED
      BY <1>1, <1>3, <3>1, <3>2
  <2>2. \A p \in Op : (Working(p)' <=> Working(p)) /\ (At(p, "unused")' <=> At(p, "unused"))
    BY <1>3, <2>1 DEF Working, At
  <2>4. Slot'
    BY <1>0, <1>3, <2>1, <2>2 DEF Slot, WsEnded
  <2> QED
    BY <2>1, <2>4 DEF SessionInv
<1> QED
  BY <1>2, <1>3 DEF Release, workspaceVars

(***************************************************************************)
(* OperationManager::begin gives the slot, when it is free, to an          *)
(* operation that comes after all the others.                              *)
(***************************************************************************)
LEMMA OperationBegins ==
    ASSUME SessionInv, NEW r \in Request, Begin(r)
    PROVE  SessionInv'
<1> USE DEF Quiet, workspaceVars
<1>0. SessionTypeOK /\ Slot /\ Disk
  BY DEF SessionInv
<1>1. PICK n \in 0 .. MaxWork : Begun = 1 .. n
  BY <1>0 DEF Slot
<1>2. /\ UNCHANGED <<mem, target, tmp, bak, releasing, woken, server, armed, ws>>
      /\ active' = TRUE /\ pending' = pending \ {r} /\ r \in pending
  BY DEF Begin
<1>3. server \in {"serving", "draining"}
  BY <1>0, <1>2 DEF Slot, SessionTypeOK
<1>4. CASE active
  <2>0. active = TRUE
    BY <1>0, <1>4, Zenon DEF SessionTypeOK
  <2>1. op' = op /\ active' = active
    BY <1>2, <2>0 DEF Begin
  <2>2. SessionTypeOK'
    BY <1>0, <1>2, <2>1 DEF SessionTypeOK
  <2>3. Slot' /\ Disk'
    BY <1>0, <1>2, <1>3, <2>1 DEF Slot, Disk, Working, At, Begun
  <2> QED
    BY <2>2, <2>3 DEF SessionInv
<1>5. CASE ~active
  <2> DEFINE x == [Unused EXCEPT !.pc = "queued", !.request = r, !.record = "queued"]
             o == n + 1
  <2>1. Cardinality(Begun) = n
    BY <1>1, FS_Interval, PersistenceAssumption
  <2>2. op' = [op EXCEPT ![o] = x] /\ o \in Nat
    <3>1. op' = [op EXCEPT ![Cardinality(Begun) + 1] = x]
      BY <1>5, Zenon DEF Begin
    <3> QED
      BY <1>1, <2>1, <3>1
  <2>3. NoDir \in Dir
    BY PersistenceAssumption DEF NoDir, Dir, PartCount
  <2>4. x \in Operation /\ x.pc = "queued"
    BY <2>3 DEF Unused, Operation, Pc, Record
  <2>5. \A p \in Op : p <= n <=> ~At(p, "unused")
    BY <1>1, PersistenceAssumption DEF Op, Begun
  <2>6. \A p \in Op : ~Working(p)
    BY <1>0, <1>5 DEF Slot
  <2> HIDE DEF x, o
  <2>7. /\ op' \in [Op -> Operation]
        /\ \A p \in Op : op'[p] = IF p = o THEN x ELSE op[p]
    BY <1>0, <2>2, <2>4 DEF SessionTypeOK
  <2>8. SessionTypeOK'
    <3>1. active' \in BOOLEAN
      BY <1>2
    <3> QED
      BY <1>0, <1>2, <2>7, <3>1 DEF SessionTypeOK
  <2>9. \A p \in Op : /\ ~At(p, "unused")' <=> p <= o
                      /\ Working(p)' => p = o
    <3> SUFFICES ASSUME NEW p \in Op PROVE (~At(p, "unused")' <=> p <= o) /\ (Working(p)' => p = o)
      OBVIOUS
    <3>1. CASE p = o
      BY <2>2, <2>4, <2>7, <3>1 DEF At
    <3>2. CASE p # o
      <4>1. op'[p] = op[p]
        BY <2>7, <3>2
      <4>2. p <= o <=> p <= n
        BY <3>2, PersistenceAssumption DEF o, Op
      <4> QED
        BY <2>5, <2>6, <3>2, <4>1, <4>2 DEF At, Working
    <3> QED
      BY <3>1, <3>2
  <2>10. \E m \in 0 .. MaxWork : Begun' = 1 .. m
    <3>1. CASE o \in Op
      <4>1. o \in 1 .. MaxWork /\ o \in 0 .. MaxWork
        BY <3>1, PersistenceAssumption DEF Op
      <4>2. \A p : p \in Begun' <=> p \in 1 .. MaxWork /\ p <= o
        BY <2>9 DEF Begun, Op
      <4>3. \A p : p \in Begun' <=> p \in 1 .. o
        BY <4>1, <4>2, PersistenceAssumption
      <4>4. Begun' = 1 .. o
        BY <4>3
      <4> QED
        BY <4>1, <4>4
    <3>2. CASE o \notin Op
      <4>1. \A p \in Op : op'[p] = op[p]
        BY <2>7, <3>2
      <4>2. Begun' = Begun
        BY <4>1 DEF Begun, At
      <4> QED
        BY <1>1, <4>2
    <3> QED
      BY <3>1, <3>2
  <2>11. \A p, q \in Op : Working(p)' /\ p < q => At(q, "unused")'
    <3> SUFFICES ASSUME NEW p \in Op, NEW q \in Op, Working(p)', p < q PROVE At(q, "unused")'
      OBVIOUS
    <3>1. p = o /\ ~(q <= o)
      BY <2>2, <2>9 DEF Op
    <3> QED
      BY <2>9, <3>1
  <2>12. Slot'
    BY <1>2, <1>3, <2>10, <2>11 DEF Slot
  <2>13. \A p \in Op : Consistent(op'[p], tmp'[p], bak'[p], target')
    <3> SUFFICES ASSUME NEW p \in Op PROVE Consistent(op'[p], tmp[p], bak[p], target)
      BY <1>2
    <3>1. CASE p = o
      <4>1. At(p, "unused")
        BY <2>5, <3>1 DEF o
      <4>2. tmp[p] = NoDir /\ bak[p] = NoDir
        BY <1>0, <4>1 DEF Disk, Consistent, At
      <4>3. op'[p].pc = "queued"
        BY <2>4, <2>7, <3>1
      <4> QED
        BY <4>2, <4>3 DEF Consistent
    <3>2. CASE p # o
      BY <1>0, <2>7, <3>2 DEF Disk
    <3> QED
      BY <3>1, <3>2
  <2>14. Disk'
    BY <1>0, <1>2, <2>13 DEF Disk
  <2> QED
    BY <2>8, <2>12, <2>14 DEF SessionInv
<1> QED
  BY <1>4, <1>5

(***************************************************************************)
(* Requests, ingestion and stop leave the operations and the disk alone.   *)
(***************************************************************************)
LEMMA ServerSteps ==
    ASSUME SessionInv,
           \/ Ingest \/ MemoryClear \/ Stop \/ Drained \/ WaitIdle \/ Start
           \/ \E r \in Request : SessionSave(r) \/ SessionLoad(r)
    PROVE  SessionInv'
<1> USE DEF Quiet, Still, workspaceVars
<1>0. SessionTypeOK /\ Slot /\ Disk
  BY DEF SessionInv
<1>1. ASSUME UNCHANGED <<target, tmp, bak, op>>, mem' \in 0 .. MaxVersion,
             pending' \subseteq Request, active' \in BOOLEAN, UNCHANGED <<releasing, woken>>,
             armed' \in Nat,
             server' \in {"serving", "draining", "look", "arm", "armed", "waiting", "stopped"},
             \A o \in Op : Working(o) => active',
             server' \notin {"serving", "draining"} => pending' = {} /\ WsEnded',
             server' = "stopped" => ~active'
      PROVE  SessionInv'
  <2>1. SessionTypeOK'
    BY <1>0, <1>1 DEF SessionTypeOK
  <2>2. Slot'
    BY <1>0, <1>1 DEF Slot, Working, At, Begun
  <2>3. Disk'
    BY <1>0, <1>1 DEF Disk
  <2> QED
    BY <2>1, <2>2, <2>3 DEF SessionInv
<1>t. /\ mem \in 0 .. MaxVersion /\ pending \subseteq Request /\ active \in BOOLEAN
      /\ armed \in Nat /\ woken \in Nat
      /\ server \in {"serving", "draining", "look", "arm", "armed", "waiting", "stopped"}
      /\ \A o \in Op : Working(o) => active
      /\ server \notin {"serving", "draining"} => pending = {} /\ WsEnded
      /\ server = "stopped" => ~active
  BY <1>0 DEF SessionTypeOK, Slot
<1>2. CASE Ingest \/ MemoryClear
  <2>1. mem' \in 0 .. MaxVersion
    BY <1>t, <1>2, PersistenceAssumption DEF Ingest, MemoryClear
  <2> QED
    BY <1>t, <1>1, <1>2, <2>1 DEF Ingest, MemoryClear, WsEnded
<1>3. CASE \E r \in Request : SessionSave(r) \/ SessionLoad(r)
  <2>1. PICK r \in Request : Accept(r)
    BY <1>3 DEF SessionSave, SessionLoad
  <2> QED
    BY <1>t, <1>1, <2>1 DEF Accept
<1>4. CASE Stop
  BY <1>t, <1>1, <1>4 DEF Stop, ServerStep
<1>5. CASE Drained
  BY <1>t, <1>1, <1>5 DEF Drained, ServerStep, WsEnded
<1>6. CASE Look
  <2>1. server' = "stopped" => ~active
    BY <1>6 DEF Look, ServerStep
  <2>2. server' \in {"arm", "stopped"} /\ server = "look"
    BY <1>6 DEF Look, ServerStep
  <2>3. /\ UNCHANGED <<mem, target, tmp, bak, pending, op, active, armed, ws>>
        /\ UNCHANGED <<releasing, woken>>
    BY <1>6 DEF Look, ServerStep
  <2> QED
    BY <1>t, <1>1, <2>1, <2>2, <2>3 DEF WsEnded
<1>7. CASE Arm
  BY <1>t, <1>1, <1>7 DEF Arm, ServerStep, WsEnded
<1>8. CASE LookAgain
  <2>1. server' = "stopped" => ~active
    BY <1>8 DEF LookAgain, ServerStep
  <2>2. server' \in {"waiting", "stopped"} /\ server = "armed"
    BY <1>8 DEF LookAgain, ServerStep
  <2>3. /\ UNCHANGED <<mem, target, tmp, bak, pending, op, active, armed, ws>>
        /\ UNCHANGED <<releasing, woken>>
    BY <1>8 DEF LookAgain, ServerStep
  <2> QED
    BY <1>t, <1>1, <2>1, <2>2, <2>3 DEF WsEnded
<1>9. CASE Wake
  BY <1>t, <1>1, <1>9 DEF Wake, ServerStep, WsEnded
<1>10. CASE Start
  <2>1. \A o \in Op : ~Working(o)
    BY <1>t, <1>10 DEF Start, ServerStep
  <2>2. active' = FALSE /\ server' = "serving"
    BY <1>10 DEF Start, ServerStep
  <2>3. active' \in BOOLEAN
    BY <2>2
  <2> QED
    BY <1>t, <1>1, <1>10, <2>1, <2>2, <2>3 DEF Start, ServerStep
<1> QED
  BY <1>2, <1>3, <1>4, <1>5, <1>6, <1>7, <1>8, <1>9, <1>10 DEF WaitIdle

(***************************************************************************)
(* The workspace's steps do not disturb sessions: none runs once stop has  *)
(* waited for the handlers.                                                *)
(***************************************************************************)
LEMMA WorkspaceApart ==
    ASSUME SessionInv,
           WsLoad \/ \E s \in Save : WsRefuse(s) \/ WsBegin(s) \/ WsTask(s)
    PROVE  SessionInv'
<1> USE DEF Rest, sessionVars
<1>0. SessionTypeOK /\ Slot /\ Disk
  BY DEF SessionInv
<1>1. UNCHANGED sessionVars
  BY DEF WsLoad, WsRefuse, WsBegin, WsTask, WsWrite, WsPlace, WsSwap
<1>2. SessionTypeOK' /\ Disk'
  BY <1>0, <1>1 DEF SessionTypeOK, Disk
<1>3. server \notin {"serving", "draining"} => WsEnded'
  <2> SUFFICES ASSUME server \notin {"serving", "draining"} PROVE WsEnded'
    OBVIOUS
  <2>1. WsEnded
    BY <1>0 DEF Slot
  <2>2. ASSUME NEW s \in Save, WsRefuse(s) \/ WsBegin(s) PROVE FALSE
    BY <2>2 DEF WsRefuse, WsBegin, WsPut
  <2>3. ASSUME NEW s \in Save, WsTask(s) PROVE FALSE
    BY <2>1, <2>3 DEF WsTask, WsWrite, WsPlace, WsSwap, WsEnded
  <2>4. WsLoad
    BY <2>2, <2>3
  <2> QED
    BY <2>1, <2>4 DEF WsLoad, WsEnded
<1>4. Slot'
  BY <1>0, <1>1, <1>3 DEF Slot, Working, At, Begun
<1> QED
  BY <1>2, <1>4 DEF SessionInv

(***************************************************************************)
(* A crash ends every task and leaves the disk as it was.                  *)
(***************************************************************************)
LEMMA CrashStep ==
    ASSUME PersistenceInv, Crash
    PROVE  PersistenceInv'
<1>0. SessionTypeOK /\ Slot /\ Disk /\ WorkspaceTypeOK /\ WsOrder /\ WsDisk
  BY DEF PersistenceInv, SessionInv, WorkspaceInv
<1>1. \A o \in Op : IF op[o].pc \in {"unused", "done"} THEN op'[o] = op[o]
                    ELSE op'[o] = [op[o] EXCEPT !.pc = "dead"]
  BY DEF Crash
<1>2. \A o \in Op : op[o] \in Operation /\ [op[o] EXCEPT !.pc = "dead"] \in Operation
                    /\ [op[o] EXCEPT !.pc = "dead"].pc = "dead"
  BY <1>0 DEF SessionTypeOK, Operation, Pc
<1>3. op' \in [Op -> Operation]
  BY <1>2 DEF Crash
<1>4. \A o \in Op : (op'[o] = op[o] /\ op[o].pc \in {"unused", "done"}) \/ op'[o].pc = "dead"
  BY <1>1, <1>2
<1>5. active' = FALSE /\ releasing' = FALSE /\ server' = "serving" /\ pending' = {} /\ mem' = 0
  BY DEF Crash
<1>6. active' \in BOOLEAN /\ releasing' \in BOOLEAN
  BY <1>5
<1>7. SessionTypeOK'
  BY <1>0, <1>3, <1>5, <1>6, PersistenceAssumption DEF SessionTypeOK, Crash
<1>8. Begun' = Begun
  BY <1>1, <1>2 DEF Begun, At
<1>9. Slot'
  BY <1>0, <1>4, <1>5, <1>8 DEF Slot, Working, At
<1>10. \A o \in Op : Consistent(op'[o], tmp'[o], bak'[o], target')
  <2> SUFFICES ASSUME NEW o \in Op PROVE Consistent(op'[o], tmp[o], bak[o], target)
    BY DEF Crash
  <2>1. CASE op'[o].pc = "dead"
    BY <2>1 DEF Consistent
  <2>2. CASE op'[o] = op[o]
    BY <1>0, <2>2 DEF Disk
  <2> QED
    BY <1>4, <2>1, <2>2
<1>11. Disk'
  BY <1>0, <1>10 DEF Disk, Crash
<1>12. \A s \in Save : /\ ws'[s] = IF ws[s] \in {"unused", "done", "failed"} THEN ws[s] ELSE "dead"
  BY DEF Crash
<1>13. WorkspaceTypeOK'
  BY <1>0 DEF WorkspaceTypeOK, Crash, WsPc, File
<1>14. WsOrder'
  BY <1>0, <1>12 DEF WsOrder, WsWorking
<1>15. WsDisk'
  BY <1>0, <1>12 DEF WsDisk, Holds, Crash
<1> QED
  BY <1>7, <1>9, <1>11, <1>13, <1>14, <1>15 DEF PersistenceInv, SessionInv, WorkspaceInv

(***************************************************************************)
(* Every step keeps sessions and workspace consistent on disk.             *)
(***************************************************************************)
LEMMA PersistenceStep == PersistenceInv /\ [Next]_vars => PersistenceInv'
<1> SUFFICES ASSUME PersistenceInv, [Next]_vars PROVE PersistenceInv'
  OBVIOUS
<1>0. SessionInv /\ WorkspaceInv
  BY DEF PersistenceInv
<1>r. wsRevision \in Nat /\ wsTarget.revision \in Nat
  BY <1>0 DEF WorkspaceInv, WorkspaceTypeOK, File
<1>1. CASE \/ Ingest \/ MemoryClear \/ Stop \/ Drained \/ WaitIdle \/ Start
           \/ \E r \in Request : SessionSave(r) \/ SessionLoad(r)
  <2>1. UNCHANGED <<wsTarget, wsTmp, wsBak, ws, wsAnswer>>
    BY <1>1 DEF Ingest, MemoryClear, Stop, Drained, WaitIdle, Look, Arm, LookAgain, Wake, Start,
                ServerStep, SessionSave, SessionLoad, Accept, Still, Quiet, workspaceVars
  <2>2. wsRevision' \in {wsRevision, wsTarget.revision}
    BY <1>1 DEF Ingest, MemoryClear, Stop, Drained, WaitIdle, Look, Arm, LookAgain, Wake, Start,
                ServerStep, SessionSave, SessionLoad, Accept, Still, Quiet, workspaceVars
  <2>3. WorkspaceInv'
    BY <1>0, <1>r, <2>1, <2>2, WorkspaceKept
  <2> QED
    BY <1>0, <1>1, <2>3, ServerSteps DEF PersistenceInv
<1>2. CASE \E r \in Request : Begin(r)
  <2>1. UNCHANGED workspaceVars
    BY <1>2 DEF Begin, Quiet
  <2>2. WorkspaceInv'
    BY <1>0, <1>r, <2>1, WorkspaceKept DEF workspaceVars
  <2> QED
    BY <1>0, <1>2, <2>2, OperationBegins DEF PersistenceInv
<1>3. CASE \E o \in Op : Task(o)
  <2>1. PICK o \in Op : Task(o)
    BY <1>3
  <2>2. UNCHANGED workspaceVars
    BY <2>1 DEF Task, Run, Snapshot, SaveToDisk, CreateDir, WriteMeta, WriteStates, WriteEvents,
                WriteTelemetry, WriteStep, Place, Swap, Rollback, Cleanup, Read, Apply, Report,
                Release, Still, Quiet
  <2>3. WorkspaceInv'
    BY <1>0, <1>r, <2>2, WorkspaceKept DEF workspaceVars
  <2>4. SessionInv'
    BY <1>0, <2>1, TaskRuns, TaskWrites, TaskPlaces, TaskLoads, TaskReleases DEF Task
  <2> QED
    BY <2>3, <2>4 DEF PersistenceInv
<1>4. CASE \E s \in Save : WsRefuse(s) \/ WsBegin(s) \/ WsTask(s)
  BY <1>0, <1>4, WorkspaceSave, WorkspaceApart DEF PersistenceInv
<1>5. CASE WsLoad
  <2>1. WorkspaceInv'
    BY <1>0, <1>r, <1>5, WorkspaceKept DEF WsLoad
  <2> QED
    BY <1>0, <1>5, <2>1, WorkspaceApart DEF PersistenceInv
<1>6. CASE Crash
  BY <1>6, CrashStep
<1>7. CASE UNCHANGED vars
  <2> USE <1>7 DEF vars, sessionVars, workspaceVars
  <2>1. SessionInv'
    BY <1>0 DEF SessionInv, SessionTypeOK, Slot, Disk, Working, At, Begun, WsEnded
  <2>2. WorkspaceInv'
    BY <1>0, <1>r, WorkspaceKept
  <2> QED
    BY <2>1, <2>2 DEF PersistenceInv
<1> QED
  BY <1>1, <1>2, <1>3, <1>4, <1>5, <1>6, <1>7 DEF Next

(***************************************************************************)
(* The disk is consistent in every reachable state, whatever fails and     *)
(* wherever the process is killed.                                         *)
(***************************************************************************)
THEOREM PersistenceInvariant == Spec => []PersistenceInv
<1>1. PersistenceInv /\ [Next]_vars => PersistenceInv'
  BY PersistenceStep
<1> QED
  BY PersistenceInit, <1>1, PTL DEF Spec

(***************************************************************************)
(* What stands under a session's name is always complete                   *)
(* (save_snapshot_atomic).                                                 *)
(***************************************************************************)
THEOREM SessionAlwaysWhole == Spec => []TargetWhole
<1>1. PersistenceInv => TargetWhole
  BY DEF PersistenceInv, SessionInv, Disk, TargetWhole, Existing, Whole, Listed, PartCount
<1> QED
  BY PersistenceInvariant, <1>1, PTL

(***************************************************************************)
(* When stop has returned no handler and no task is left                   *)
(* (OperationManager::wait_idle).                                          *)
(***************************************************************************)
THEOREM StopLeavesNothing == Spec => []StoppedIsIdle
<1>1. PersistenceInv => StoppedIsIdle
  BY DEF PersistenceInv, SessionInv, Slot, StoppedIsIdle
<1> QED
  BY PersistenceInvariant, <1>1, PTL

(***************************************************************************)
(* An acknowledged workspace save is never lost (WorkspaceStore::save).    *)
(***************************************************************************)
THEOREM WorkspaceKeepsSaves == Spec => []WorkspaceDurable
<1>1. PersistenceInv => WorkspaceDurable
  <2> SUFFICES ASSUME PersistenceInv, NEW s \in Save, ws[s] = "done"
               PROVE  \E f \in {wsTarget, wsBak} : f.whole /\ f.doc >= s
    BY DEF WorkspaceDurable
  <2>1. WsDisk /\ WorkspaceTypeOK
    BY DEF PersistenceInv, WorkspaceInv
  <2>2. PICK f \in {wsTarget, wsBak} : Holds(f)
    BY <2>1 DEF WsDisk
  <2>3. f.whole /\ s <= f.doc
    BY <2>2 DEF Holds
  <2>4. f.doc \in Nat /\ s \in Nat
    BY <2>1, <2>2, PersistenceAssumption DEF WorkspaceTypeOK, File, Save
  <2>5. f.doc >= s
    BY <2>3, <2>4
  <2> QED
    BY <2>3, <2>5
<1> QED
  BY PersistenceInvariant, <1>1, PTL

-------------------------------------------------------------------------------
(***************************************************************************)
(* Only the renames of a save touch the session's name.                    *)
(***************************************************************************)
LEMMA TargetChanges ==
    ASSUME [Next]_vars, target' # target
    PROVE  \E o \in Op : Place(o) \/ Swap(o) \/ Rollback(o)
<1> SUFFICES ASSUME \A o \in Op : ~(Place(o) \/ Swap(o) \/ Rollback(o)) PROVE target' = target
  OBVIOUS
<1>1. CASE \E o \in Op : Task(o)
  BY <1>1 DEF Task, Run, Snapshot, SaveToDisk, CreateDir, WriteMeta, WriteStates, WriteEvents,
              WriteTelemetry, WriteStep, Cleanup, Read, Apply, Report, Release
<1>2. CASE \/ Ingest \/ MemoryClear \/ Stop \/ Drained \/ WaitIdle \/ Start \/ Crash
           \/ \E r \in Request : SessionSave(r) \/ SessionLoad(r) \/ Begin(r)
  BY <1>2 DEF Ingest, MemoryClear, Stop, Drained, WaitIdle, Look, Arm, LookAgain, Wake, Start,
              Crash, ServerStep, SessionSave, SessionLoad, Accept, Begin
<1>3. CASE WsLoad \/ \E s \in Save : WsRefuse(s) \/ WsBegin(s) \/ WsTask(s)
  BY <1>3 DEF WsLoad, WsRefuse, WsBegin, WsTask, WsWrite, WsPlace, WsSwap, Rest, sessionVars
<1>4. CASE UNCHANGED vars
  BY <1>4 DEF vars, sessionVars
<1> QED
  BY <1>1, <1>2, <1>3, <1>4 DEF Next

(***************************************************************************)
(* A session is replaced only by a save with overwrite=true: every other   *)
(* rename to its name finds the name free (save_snapshot_atomic).          *)
(***************************************************************************)
THEOREM OverwriteAsked == Spec => NoSilentOverwrite
<1> DEFINE Asked == target # NoDir /\ target' # target =>
                       \E o \in Op : At(o, "place") /\ op[o].request.overwrite
<1>1. PersistenceInv /\ [Next]_vars => [Asked]_vars
  <2> SUFFICES ASSUME PersistenceInv, [Next]_vars, target # NoDir, target' # target
               PROVE  \E o \in Op : At(o, "place") /\ op[o].request.overwrite
    OBVIOUS
  <2>1. PICK o \in Op : Place(o) \/ Swap(o) \/ Rollback(o)
    BY TargetChanges
  <2>2. ~At(o, "swap") /\ ~At(o, "rollback")
    BY DEF PersistenceInv, SessionInv, Disk, Consistent, At
  <2>3. Place(o)
    BY <2>1, <2>2 DEF Swap, Rollback
  <2> QED
    BY <2>3 DEF Place
<1> QED
  BY <1>1, PersistenceInvariant, PTL DEF Spec, NoSilentOverwrite

-------------------------------------------------------------------------------
(***************************************************************************)
(* The refinement mapping, for one table of operations f, one name d and   *)
(* one table of backups b: whether an operation is a save under way, what  *)
(* it offers and how far it has got.                                       *)
(***************************************************************************)
Involved(x) ==
    /\ x.request.kind = "save"
    /\ x.pc \in {"write", "place", "swap", "rollback", "cleanup", "ok", "failed", "release"}

Bid(x) == IF Involved(x) THEN {x.taken.version} ELSE {}

Stage(x) ==
    CASE x.pc \in {"cleanup", "ok"} -> "committed"
      [] x.pc = "failed" -> "failed"
      [] x.pc = "release" -> x.record
      [] OTHER -> "open"

SavingIn(f) == {p \in Op : Involved(f[p])}
OfferedIn(f) == {f[p].taken.version : p \in SavingIn(f)}
VerdictIn(f) == IF SavingIn(f) = {} THEN "idle"
                ELSE CHOOSE v \in {Stage(f[p]) : p \in SavingIn(f)} : TRUE

BackupsIn(b) == {p \in Op : Whole(b[p])}
StoredIn(d, b) == IF d # NoDir THEN {d.version}
                  ELSE {b[p].version : p \in {p \in BackupsIn(b) : \A q \in BackupsIn(b) : q <= p}}

(***************************************************************************)
(* At most one save is under way, so its view is the whole view.           *)
(***************************************************************************)
LEMMA OneView ==
    ASSUME NEW f, NEW o \in Op, \A p \in Op : p # o => ~Involved(f[p])
    PROVE  /\ OfferedIn(f) = Bid(f[o])
           /\ VerdictIn(f) = IF Involved(f[o]) THEN Stage(f[o]) ELSE "idle"
<1>1. CASE Involved(f[o])
  <2>1. SavingIn(f) = {o}
    BY <1>1 DEF SavingIn
  <2>2. OfferedIn(f) = {f[o].taken.version}
    BY <2>1 DEF OfferedIn
  <2>3. {Stage(f[p]) : p \in SavingIn(f)} = {Stage(f[o])}
    BY <2>1
  <2>4. VerdictIn(f) = Stage(f[o])
    BY <2>1, <2>3 DEF VerdictIn
  <2> QED
    BY <1>1, <2>2, <2>4 DEF Bid
<1>2. CASE ~Involved(f[o])
  <2>1. SavingIn(f) = {}
    BY <1>2 DEF SavingIn
  <2> QED
    BY <1>2, <2>1 DEF OfferedIn, VerdictIn, Bid
<1> QED
  BY <1>1, <1>2

(***************************************************************************)
(* Without a save under way the view is idle.                              *)
(***************************************************************************)
LEMMA NoView ==
    ASSUME NEW f, \A p \in Op : ~Involved(f[p])
    PROVE  OfferedIn(f) = {} /\ VerdictIn(f) = "idle"
<1>1. SavingIn(f) = {}
  BY DEF SavingIn
<1> QED
  BY <1>1 DEF OfferedIn, VerdictIn

(***************************************************************************)
(* Where the name is free, the backup made last is what is stored.         *)
(***************************************************************************)
LEMMA LastBackup ==
    ASSUME NEW b, NEW o \in Op, Whole(b[o]), \A p \in Op : o < p => ~Whole(b[p])
    PROVE  StoredIn(NoDir, b) = {b[o].version}
<1>1. \A p \in BackupsIn(b) : p <= o
  BY PersistenceAssumption DEF BackupsIn, Op
<1>2. o \in BackupsIn(b)
  BY DEF BackupsIn
<1>3. \A p \in BackupsIn(b) : o <= p => p = o
  BY <1>1, PersistenceAssumption DEF BackupsIn, Op
<1>4. {p \in BackupsIn(b) : \A q \in BackupsIn(b) : q <= p} = {o}
  BY <1>1, <1>2, <1>3
<1> QED
  BY <1>4 DEF StoredIn

(***************************************************************************)
(* A step of AtomicFile or a stutter, from <<c, f, v>> to <<d, g, w>>.     *)
(***************************************************************************)
Matches(c, f, v, d, g, w) ==
    \/ v = "idle" /\ w = "open" /\ d = c /\ \E x \in 0 .. MaxVersion : g = {x}
    \/ v = "open" /\ w = "committed" /\ d = f /\ g = f
    \/ v = "committed" /\ w = "succeeded" /\ d = c /\ g = f
    \/ v \in {"open", "committed"} /\ w = "failed" /\ d = c /\ g = f
    \/ w = "idle" /\ g = {} /\ d = c
    \/ d = c /\ g = f /\ w = v

(***************************************************************************)
(* What a step does to the view.                                           *)
(***************************************************************************)
StepMatches == Matches(StoredIn(target, bak), OfferedIn(op), VerdictIn(op),
                       StoredIn(target', bak'), OfferedIn(op'), VerdictIn(op'))

(***************************************************************************)
(* A step that leaves the name and the backups alone and changes no save.  *)
(***************************************************************************)
LEMMA StutterMatches ==
    ASSUME UNCHANGED <<target, bak, op>>
    PROVE  StepMatches
BY DEF StepMatches, Matches

(***************************************************************************)
(* A step of the task that works is seen through its own operation.        *)
(***************************************************************************)
LEMMA TaskView ==
    ASSUME SessionInv, NEW o \in Op, Working(o),
           \A p \in Op : p # o => op'[p] = op[p]
    PROVE  /\ OfferedIn(op) = Bid(op[o]) /\ OfferedIn(op') = Bid(op'[o])
           /\ VerdictIn(op) = IF Involved(op[o]) THEN Stage(op[o]) ELSE "idle"
           /\ VerdictIn(op') = IF Involved(op'[o]) THEN Stage(op'[o]) ELSE "idle"
<1>1. \A p \in Op : p # o => op[p].pc \in {"unused", "notify", "done", "dead"}
  BY WorkingAlone DEF SessionInv
<1>2. \A p \in Op : p # o => ~Involved(op[p]) /\ ~Involved(op'[p])
  BY <1>1 DEF Involved
<1> QED
  BY <1>2, OneView

(***************************************************************************)
(* The steps that write the copy aside, and those of a load.               *)
(***************************************************************************)
LEMMA QuietTaskMatches ==
    ASSUME SessionInv, NEW o \in Op,
           Run(o) \/ Snapshot(o) \/ SaveToDisk(o) \/ Read(o) \/ Apply(o) \/ Report(o)
    PROVE  StepMatches
<1>0. SessionTypeOK /\ Consistent(op[o], tmp[o], bak[o], target) /\ op[o] \in Operation
  BY DEF SessionInv, Disk, SessionTypeOK
<1>1. StoredIn(target', bak') = StoredIn(target, bak)
  BY DEF Run, Snapshot, SaveToDisk, CreateDir, WriteMeta, WriteStates, WriteEvents,
         WriteTelemetry, WriteStep, Read, Apply, Report
<1>2. Working(o)
  BY TaskRuns, TaskWrites, TaskLoads
<1>3. CASE Run(o)
  <2>1. /\ \A p \in Op : p # o => op'[p] = op[p]
        /\ op[o].pc = "queued" /\ op'[o].pc \in {"snapshot", "read"}
    BY <1>0, <1>3 DEF Run, At, SessionTypeOK, Operation
  <2>2. OfferedIn(op') = OfferedIn(op) /\ VerdictIn(op') = VerdictIn(op)
    BY <1>2, <2>1, TaskView DEF Involved, Bid
  <2> QED
    BY <1>1, <2>2 DEF StepMatches, Matches
<1>4. CASE Snapshot(o)
  <2>1. /\ \A p \in Op : p # o => op'[p] = op[p]
        /\ op[o].pc = "snapshot" /\ op'[o].pc = "write" /\ op'[o].taken.version = mem
        /\ op'[o].request = op[o].request /\ op[o].request.kind = "save"
        /\ mem \in 0 .. MaxVersion
    BY <1>0, <1>4 DEF Snapshot, At, SessionTypeOK, Operation, Consistent
  <2>2. /\ OfferedIn(op') = {mem} /\ VerdictIn(op) = "idle" /\ VerdictIn(op') = "open"
    BY <1>2, <2>1, TaskView DEF Involved, Bid, Stage
  <2> QED
    BY <1>1, <2>1, <2>2 DEF StepMatches, Matches
<1>5. CASE SaveToDisk(o)
  <2>1. op[o].pc = "write" /\ op[o].request.kind = "save"
        /\ (op' = op \/ Goto(o, "failed") \/ Goto(o, "place"))
    BY <1>0, <1>5 DEF SaveToDisk, CreateDir, WriteMeta, WriteStates, WriteEvents, WriteTelemetry,
                      WriteStep, At, Consistent
  <2>2. /\ \A p \in Op : p # o => op'[p] = op[p]
        /\ op'[o].pc \in {"write", "failed", "place"}
        /\ op'[o].request = op[o].request /\ op'[o].taken = op[o].taken
    BY <1>0, <2>1, GotoType DEF Pc
  <2>3. /\ OfferedIn(op') = OfferedIn(op) /\ VerdictIn(op) = "open"
        /\ VerdictIn(op') \in {"open", "failed"}
    BY <1>2, <2>1, <2>2, TaskView DEF Involved, Bid, Stage
  <2> QED
    BY <1>1, <2>3 DEF StepMatches, Matches
<1>6. CASE Read(o) \/ Apply(o)
  <2>1. /\ \A p \in Op : p # o => op'[p] = op[p]
        /\ op[o].request.kind # "save" /\ op'[o].request = op[o].request
    BY <1>0, <1>6 DEF Read, Apply, Goto, At, SessionTypeOK, Operation, Consistent
  <2>2. OfferedIn(op') = OfferedIn(op) /\ VerdictIn(op') = VerdictIn(op)
    BY <1>2, <2>1, TaskView DEF Involved, Bid
  <2> QED
    BY <1>1, <2>2 DEF StepMatches, Matches
<1>7. CASE Report(o)
  <2>1. /\ \A p \in Op : p # o => op'[p] = op[p]
        /\ op'[o].request = op[o].request /\ op'[o].taken = op[o].taken
        /\ op'[o].pc = "release" /\ op[o].pc \in {"ok", "failed"}
        /\ op'[o].record = IF op[o].pc = "ok" THEN "succeeded" ELSE "failed"
    BY <1>0, <1>7 DEF Report, SessionTypeOK, Operation
  <2>2. OfferedIn(op') = OfferedIn(op)
    BY <1>2, <2>1, TaskView DEF Involved, Bid
  <2>3. \/ VerdictIn(op) = "committed" /\ VerdictIn(op') = "succeeded"
        \/ VerdictIn(op') = VerdictIn(op)
    <3>1. CASE Involved(op[o])
      BY <1>2, <2>1, <3>1, TaskView DEF Involved, Stage
    <3>2. CASE ~Involved(op[o])
      BY <1>2, <2>1, <3>2, TaskView DEF Involved
    <3> QED
      BY <3>1, <3>2
  <2> QED
    BY <1>1, <2>2, <2>3 DEF StepMatches, Matches
<1> QED
  BY <1>3, <1>4, <1>5, <1>6, <1>7

(***************************************************************************)
(* The renames: the first one of an overwriting save moves what is stored  *)
(* to the backup, which stands for it until the second one commits.        *)
(***************************************************************************)
LEMMA RenameMatches ==
    ASSUME SessionInv, NEW o \in Op, Place(o) \/ Swap(o) \/ Rollback(o) \/ Cleanup(o)
    PROVE  StepMatches
<1>0. SessionTypeOK /\ Slot /\ Disk /\ Consistent(op[o], tmp[o], bak[o], target)
      /\ op[o] \in Operation
  BY DEF SessionInv, Disk, SessionTypeOK
<1>1. Working(o)
  BY TaskPlaces
<1>2. PICK pc \in {"ok", "failed", "swap", "cleanup", "rollback"} : Goto(o, pc)
  BY DEF Place, Swap, Rollback, Cleanup
<1>3. /\ \A p \in Op : p # o => op'[p] = op[p]
      /\ op'[o].pc = pc /\ op'[o].request = op[o].request /\ op'[o].taken = op[o].taken
  BY <1>0, <1>2, GotoType DEF Pc
<1>4. op[o].request.kind = "save" /\ op[o].pc \in {"place", "swap", "rollback", "cleanup"}
  BY <1>0 DEF Place, Swap, Rollback, Cleanup, At, Consistent
<1>5. Involved(op[o]) /\ Involved(op'[o])
  BY <1>3, <1>4 DEF Involved
<1>6. /\ OfferedIn(op) = {op[o].taken.version} /\ OfferedIn(op') = {op[o].taken.version}
      /\ VerdictIn(op) = Stage(op[o]) /\ VerdictIn(op') = Stage(op'[o])
  BY <1>1, <1>3, <1>5, TaskView DEF Bid
<1>7. \A p \in Op : o < p => p # o /\ ~Whole(bak[p])
  <2> SUFFICES ASSUME NEW p \in Op, o < p PROVE p # o /\ ~Whole(bak[p])
    OBVIOUS
  <2>1. At(p, "unused")
    BY <1>0, <1>1 DEF Slot
  <2>2. bak[p] = NoDir
    BY <1>0, <2>1 DEF Disk, Consistent, At
  <2> QED
    BY <2>2, PersistenceAssumption DEF NoDir, Whole, PartCount, Op
<1>n. ~Whole(NoDir)
  BY DEF NoDir, Whole, PartCount
<1>8. CASE Place(o)
  <2>0. Whole(tmp[o]) /\ op[o].pc = "place" /\ tmp[o].version = op[o].taken.version
    BY <1>0, <1>8 DEF Place, At, Consistent
  <2>s. VerdictIn(op) = "open"
    BY <1>6, <2>0 DEF Stage
  <2>1. CASE target = NoDir /\ RenameToTarget(o) /\ Goto(o, "ok")
    <3>1. StoredIn(target', bak') = {op[o].taken.version}
      BY <1>n, <2>0, <2>1 DEF RenameToTarget, StoredIn
    <3>2. op'[o].pc = "ok"
      BY <1>0, <2>1, GotoType DEF Pc
    <3>3. VerdictIn(op') = "committed"
      BY <1>6, <3>2 DEF Stage
    <3> QED
      BY <1>6, <2>s, <3>1, <3>3 DEF StepMatches, Matches
  <2>2. CASE Goto(o, "failed") /\ UNCHANGED <<target, bak>>
    <3>1. op'[o].pc = "failed"
      BY <1>0, <2>2, GotoType DEF Pc
    <3>2. VerdictIn(op') = "failed"
      BY <1>6, <3>1 DEF Stage
    <3> QED
      BY <1>6, <2>s, <2>2, <3>2 DEF StepMatches, Matches
  <2>3. CASE /\ target # NoDir /\ bak' = [bak EXCEPT ![o] = target] /\ target' = NoDir
             /\ Goto(o, "swap")
    <3>1. op'[o].pc = "swap"
      BY <1>0, <2>3, GotoType DEF Pc
    <3>2. VerdictIn(op') = "open"
      BY <1>6, <3>1 DEF Stage
    <3>3. Whole(target)
      BY <1>0, <2>3 DEF Disk
    <3>4. bak'[o] = target /\ \A p \in Op : p # o => bak'[p] = bak[p]
      BY <1>0, <2>3 DEF SessionTypeOK
    <3>5. Whole(bak'[o]) /\ \A p \in Op : o < p => ~Whole(bak'[p])
      BY <1>7, <3>3, <3>4
    <3>6. StoredIn(NoDir, bak') = {bak'[o].version}
      BY <3>5, LastBackup
    <3>7. StoredIn(target', bak') = StoredIn(target, bak)
      BY <2>3, <3>4, <3>6 DEF StoredIn
    <3> QED
      BY <1>6, <2>s, <3>2, <3>7 DEF StepMatches, Matches
  <2> QED
    BY <1>8, <2>1, <2>2, <2>3 DEF Place
<1>9. CASE Swap(o)
  <2>0. Whole(tmp[o]) /\ op[o].pc = "swap" /\ tmp[o].version = op[o].taken.version
    BY <1>0, <1>9 DEF Swap, At, Consistent
  <2>s. VerdictIn(op) = "open"
    BY <1>6, <2>0 DEF Stage
  <2>1. CASE RenameToTarget(o) /\ Goto(o, "cleanup")
    <3>1. StoredIn(target', bak') = {op[o].taken.version}
      BY <1>n, <2>0, <2>1 DEF RenameToTarget, StoredIn
    <3>2. op'[o].pc = "cleanup"
      BY <1>0, <2>1, GotoType DEF Pc
    <3>3. VerdictIn(op') = "committed"
      BY <1>6, <3>2 DEF Stage
    <3> QED
      BY <1>6, <2>s, <3>1, <3>3 DEF StepMatches, Matches
  <2>2. CASE Goto(o, "rollback") /\ UNCHANGED <<target, bak>>
    <3>1. op'[o].pc = "rollback"
      BY <1>0, <2>2, GotoType DEF Pc
    <3>2. VerdictIn(op') = "open"
      BY <1>6, <3>1 DEF Stage
    <3> QED
      BY <1>6, <2>s, <2>2, <3>2 DEF StepMatches, Matches
  <2> QED
    BY <1>9, <2>1, <2>2 DEF Swap
<1>10. CASE Rollback(o)
  <2>0. op[o].pc = "rollback" /\ target = NoDir /\ Whole(bak[o]) /\ Goto(o, "failed")
    BY <1>0, <1>10 DEF Rollback, At, Consistent
  <2>1. op'[o].pc = "failed"
    BY <1>0, <2>0, GotoType DEF Pc
  <2>2. VerdictIn(op) = "open" /\ VerdictIn(op') = "failed"
    BY <1>6, <2>0, <2>1 DEF Stage
  <2>3. StoredIn(NoDir, bak) = {bak[o].version}
    BY <1>7, <2>0, LastBackup
  <2>4. StoredIn(target', bak') = StoredIn(target, bak)
    <3>1. CASE UNCHANGED <<target, bak>>
      BY <3>1
    <3>2. CASE target' = bak[o]
      BY <1>n, <2>0, <2>3, <3>2 DEF StoredIn
    <3> QED
      BY <1>10, <3>1, <3>2 DEF Rollback
  <2> QED
    BY <1>6, <2>2, <2>4 DEF StepMatches, Matches
<1>11. CASE Cleanup(o)
  <2>0. op[o].pc = "cleanup" /\ target # NoDir /\ target' = target
        /\ (Goto(o, "ok") \/ Goto(o, "failed"))
    BY <1>0, <1>11 DEF Cleanup, At, Consistent
  <2>1. op'[o].pc \in {"ok", "failed"}
    BY <1>0, <2>0, GotoType DEF Pc
  <2>2. VerdictIn(op) = "committed" /\ VerdictIn(op') \in {"committed", "failed"}
    BY <1>6, <2>0, <2>1 DEF Stage
  <2>3. StoredIn(target', bak') = StoredIn(target, bak)
    BY <2>0 DEF StoredIn
  <2> QED
    BY <1>6, <2>2, <2>3 DEF StepMatches, Matches
<1> QED
  BY <1>8, <1>9, <1>10, <1>11

(***************************************************************************)
(* Letting go of the slot, and giving it to the next operation.            *)
(***************************************************************************)
LEMMA SlotMatches ==
    ASSUME SessionInv, (\E o \in Op : Release(o)) \/ \E r \in Request : Begin(r)
    PROVE  StepMatches
<1>0. SessionTypeOK /\ Slot /\ \A p \in Op : op[p].pc \in Pc
  BY DEF SessionInv, SessionTypeOK, Operation
<1>1. UNCHANGED <<target, bak>>
  BY DEF Release, Begin
<1>w. \A p \in Op : ~Working(p) => ~Involved(op[p])
  BY DEF Working, Involved, At
<1>2. ASSUME NEW o \in Op, Release(o) PROVE StepMatches
  <2>1. CASE At(o, "release") /\ Goto(o, "notify")
    <3>1. op'[o].pc = "notify" /\ \A p \in Op : p # o => op'[p] = op[p]
      BY <1>0, <2>1, GotoType DEF Pc
    <3>2. \A p \in Op : p # o => op[p].pc \in {"unused", "notify", "done", "dead"}
      BY <1>0, <2>1, WorkingAlone DEF Working, At
    <3>3. \A p \in Op : ~Involved(op'[p])
      BY <3>1, <3>2 DEF Involved
    <3>4. OfferedIn(op') = {} /\ VerdictIn(op') = "idle"
      BY <3>3, NoView
    <3> QED
      BY <1>1, <3>4 DEF StepMatches, Matches
  <2>2. CASE At(o, "notify") /\ Goto(o, "done")
    <3>1. op'[o].pc = "done" /\ \A p \in Op : p # o => op'[p] = op[p]
      BY <1>0, <2>2, GotoType DEF Pc
    <3>2. ~Involved(op[o]) /\ ~Involved(op'[o])
      BY <2>2, <3>1 DEF Involved, At
    <3>3. SavingIn(op') = SavingIn(op) /\ \A p \in SavingIn(op) : op'[p] = op[p]
      BY <3>1, <3>2 DEF SavingIn
    <3>4. OfferedIn(op') = OfferedIn(op)
      BY <3>3 DEF OfferedIn
    <3>5. {Stage(op'[p]) : p \in SavingIn(op')} = {Stage(op[p]) : p \in SavingIn(op)}
      BY <3>3
    <3>6. VerdictIn(op') = VerdictIn(op)
      BY <3>3, <3>5 DEF VerdictIn
    <3> QED
      BY <1>1, <3>4, <3>6 DEF StepMatches, Matches
  <2> QED
    BY <1>2, <2>1, <2>2 DEF Release
<1>3. ASSUME NEW r \in Request, Begin(r) PROVE StepMatches
  <2>1. CASE active
    <3>1. op' = op
      BY <1>3, <2>1, Zenon DEF Begin
    <3> QED
      BY <1>1, <3>1, StutterMatches
  <2>2. CASE ~active
    <3> DEFINE x == [Unused EXCEPT !.pc = "queued", !.request = r, !.record = "queued"]
    <3>1. op' = [op EXCEPT ![Cardinality(Begun) + 1] = x]
      BY <1>3, <2>2, Zenon DEF Begin
    <3>2. ~Involved(x)
      BY DEF Involved, Unused
    <3> HIDE DEF x
    <3>3. \A p \in Op : op'[p] \in {x, op[p]}
      BY <1>0, <3>1 DEF SessionTypeOK
    <3>4. \A p \in Op : ~Involved(op[p])
      BY <1>0, <1>w, <2>2 DEF Slot
    <3>5. \A p \in Op : ~Involved(op'[p])
      BY <3>2, <3>3, <3>4
    <3>6. OfferedIn(op') = {} /\ VerdictIn(op') = "idle"
      BY <3>5, NoView
    <3> QED
      BY <1>1, <3>6 DEF StepMatches, Matches
  <2> QED
    BY <2>1, <2>2
<1> QED
  BY <1>2, <1>3

(***************************************************************************)
(* Every step is a step of AtomicFile or a stutter.                        *)
(***************************************************************************)
LEMMA EveryStepMatches == PersistenceInv /\ [Next]_vars => StepMatches
<1> SUFFICES ASSUME PersistenceInv, [Next]_vars PROVE StepMatches
  OBVIOUS
<1>0. SessionInv
  BY DEF PersistenceInv
<1>1. CASE \/ Ingest \/ MemoryClear \/ Stop \/ Drained \/ WaitIdle \/ Start
           \/ \E r \in Request : SessionSave(r) \/ SessionLoad(r)
  <2>1. UNCHANGED <<target, bak, op>>
    BY <1>1 DEF Ingest, MemoryClear, Stop, Drained, WaitIdle, Look, Arm, LookAgain, Wake, Start,
                ServerStep, SessionSave, SessionLoad, Accept
  <2> QED
    BY <2>1, StutterMatches
<1>2. CASE \E r \in Request : Begin(r)
  BY <1>0, <1>2, SlotMatches
<1>3. CASE \E o \in Op : Task(o)
  BY <1>0, <1>3, QuietTaskMatches, RenameMatches, SlotMatches DEF Task
<1>4. CASE WsLoad \/ \E s \in Save : WsRefuse(s) \/ WsBegin(s) \/ WsTask(s)
  <2>1. UNCHANGED <<target, bak, op>>
    BY <1>4 DEF WsLoad, WsRefuse, WsBegin, WsTask, WsWrite, WsPlace, WsSwap, Rest, sessionVars
  <2> QED
    BY <2>1, StutterMatches
<1>5. CASE Crash
  <2>1. \A p \in Op : op'[p].pc \in {"unused", "done", "dead"}
    BY <1>0, <1>5 DEF Crash, SessionInv, SessionTypeOK, Operation
  <2>2. \A p \in Op : ~Involved(op'[p])
    BY <2>1 DEF Involved
  <2>3. OfferedIn(op') = {} /\ VerdictIn(op') = "idle"
    BY <2>2, NoView
  <2> QED
    BY <1>5, <2>3 DEF StepMatches, Matches, Crash
<1>6. CASE UNCHANGED vars
  BY <1>6, StutterMatches DEF vars, sessionVars
<1> QED
  BY <1>1, <1>2, <1>3, <1>4, <1>5, <1>6 DEF Next

(***************************************************************************)
(* Saving a session implements AtomicFile, whatever fails and wherever the *)
(* process is killed: it is replaced in one step or not at all, never      *)
(* lost, and success is reported only for what is in place.                *)
(***************************************************************************)
THEOREM SaveIsAtomic == Spec => SavesAtomically
<1>1. Init => Atomic!Init
  <2> SUFFICES ASSUME Init PROVE Atomic!Init
    OBVIOUS
  <2>1. \A p \in Op : op[p] = Unused /\ bak[p] = NoDir
    BY DEF Init
  <2>2. Saving = {}
    BY <2>1 DEF Saving, Unused
  <2>3. Backups = {} /\ target = NoDir
    BY <2>1 DEF Init, Backups, Whole, NoDir, PartCount
  <2>4. Stored = {}
    BY <2>3 DEF Stored
  <2> QED
    BY <2>2, <2>4 DEF Atomic!Init
<1>2. PersistenceInv /\ [Next]_vars
      => [Atomic!Next]_<<Stored, {op[o].taken.version : o \in Saving},
                         IF Saving = {} THEN "idle" ELSE CHOOSE v \in Progress : TRUE>>
  <2> SUFFICES ASSUME PersistenceInv, [Next]_vars
               PROVE  [Atomic!Next]_<<Stored, {op[o].taken.version : o \in Saving},
                         IF Saving = {} THEN "idle" ELSE CHOOSE v \in Progress : TRUE>>
    OBVIOUS
  <2> DEFINE Off == {op[o].taken.version : o \in Saving}
             Ver == IF Saving = {} THEN "idle" ELSE CHOOSE v \in Progress : TRUE
  <2>1. Saving = SavingIn(op) /\ Saving' = SavingIn(op')
    BY DEF Saving, SavingIn, Involved
  <2>2. Off = OfferedIn(op) /\ Off' = OfferedIn(op')
    BY <2>1 DEF OfferedIn
  <2>3. Progress = {Stage(op[p]) : p \in SavingIn(op)}
        /\ Progress' = {Stage(op'[p]) : p \in SavingIn(op')}
    BY <2>1 DEF Progress, Stage
  <2>4. Ver = VerdictIn(op) /\ Ver' = VerdictIn(op')
    BY <2>1, <2>3 DEF VerdictIn
  <2>5. Stored = StoredIn(target, bak) /\ Stored' = StoredIn(target', bak')
    BY DEF Stored, StoredIn, Backups, BackupsIn
  <2>6. Matches(Stored, Off, Ver, Stored', Off', Ver')
    BY <2>2, <2>4, <2>5, EveryStepMatches DEF StepMatches
  <2> HIDE DEF Off, Ver
  <2>7. \/ Ver = "idle" /\ Ver' = "open" /\ Stored' = Stored
           /\ \E x \in 0 .. MaxVersion : Off' = {x}
        \/ Ver = "open" /\ Ver' = "committed" /\ Stored' = Off /\ Off' = Off
        \/ Ver = "committed" /\ Ver' = "succeeded" /\ Stored' = Stored /\ Off' = Off
        \/ Ver \in {"open", "committed"} /\ Ver' = "failed" /\ Stored' = Stored /\ Off' = Off
        \/ Ver' = "idle" /\ Off' = {} /\ Stored' = Stored
        \/ Stored' = Stored /\ Off' = Off /\ Ver' = Ver
    BY <2>6 DEF Matches
  <2> USE DEF Off, Ver
  <2> QED
    BY <2>7 DEF Atomic!Next, Atomic!Offer, Atomic!Commit, Atomic!Succeed, Atomic!Fail, Atomic!Forget
<1> QED
  BY <1>1, <1>2, PersistenceInvariant, PTL DEF Spec, SavesAtomically, Atomic!Spec
===============================================================================
