----------------------------- MODULE IngestionGate -----------------------------
(***************************************************************************)
(* IngestionGate (core/src/management/gate.rs) and what runs behind it:    *)
(* the UDP receive callback appends a message to the store in several      *)
(* steps (core/src/store.rs, append_message_with_config), while saving,    *)
(* loading and clearing a session (core/src/kernel.rs and the routes of    *)
(* core/src/management/routes.rs) work on the whole store.                 *)
(*                                                                         *)
(* One action per atomic access or lock operation.  An entry of the store  *)
(* is reduced to whether the aircraft has a sample and whether its last    *)
(* lifecycle event is a spawn.  The count of dropped messages, which only  *)
(* the status page reads, is left out.                                     *)
(***************************************************************************)
EXTENDS Naturals, Sequences

CONSTANTS
    Ingesters,      \* threads that call with_ingestion
    Maintainers,    \* threads that call with_paused
    Aircraft,
    Recordings      \* what load_from_disk may have read

None == "none"
Entry == [state : BOOLEAN, spawned : BOOLEAN]
Entries == [Aircraft -> Entry]
NoEntries == [a \in Aircraft |-> [state |-> FALSE, spawned |-> FALSE]]

ASSUME GateAssumption ==
    /\ None \notin Maintainers
    /\ Recordings \subseteq Entries

VARIABLES
    enabled,        \* AtomicBool
    maintenance,    \* holder of the Mutex, or None
    readers,        \* holders of the shared side of the RwLock
    writer,         \* holder of its exclusive side, or None
    ingest,         \* where each ingester is: pc, target aircraft, steps left
    maintain,       \* where each maintainer is: pc, operation
    copied,         \* entries each maintainer's snapshot_clone has copied
    snapshot,       \* and what it copied
    entries,        \* store.data
    receipts,       \* store.live_state_receipts
    aligned         \* playback has been reset since the store was replaced

gateVars == <<enabled, maintenance, readers, writer>>
storeVars == <<entries, receipts, aligned>>
copyVars == <<copied, snapshot>>
vars == <<gateVars, ingest, maintain, copyVars, storeVars>>

Step == {"state", "receipt", "spawn", "despawn", "forget"}
Operation == {"save", "load", "clear"}

TypeOK ==
    /\ enabled \in BOOLEAN
    /\ maintenance \in Maintainers \cup {None}
    /\ readers \subseteq Ingesters
    /\ writer \in Maintainers \cup {None}
    /\ ingest \in [Ingesters -> [pc : {"idle", "waiting", "entered", "acting"},
                                 aircraft : Aircraft \cup {None},
                                 left : Seq(Step)]]
    /\ maintain \in [Maintainers ->
                        [pc : {"idle", "locked", "draining", "acting", "done",
                               "resumed", "unlocked"},
                         op : Operation, at : 0..2]]
    /\ copied \in [Maintainers -> SUBSET Aircraft]
    /\ snapshot \in [Maintainers -> Entries]
    /\ entries \in Entries
    /\ receipts \subseteq Aircraft
    /\ aligned \in BOOLEAN

NotIngesting == [pc |-> "idle", aircraft |-> None, left |-> <<>>]
NotMaintaining == [pc |-> "idle", op |-> "save", at |-> 0]

Init ==
    /\ enabled = TRUE
    /\ maintenance = None
    /\ readers = {}
    /\ writer = None
    /\ ingest = [i \in Ingesters |-> NotIngesting]
    /\ maintain = [m \in Maintainers |-> NotMaintaining]
    /\ copied = [m \in Maintainers |-> {}]
    /\ snapshot = [m \in Maintainers |-> NoEntries]
    /\ entries = NoEntries
    /\ receipts = {}
    /\ aligned = TRUE

-----------------------------------------------------------------------------
(* with_ingestion                                                          *)

(* The store accesses of append_message_with_config, in order.             *)
Body(kind) ==
    CASE kind = "StateUpdate" -> <<"state", "receipt">>
      [] kind = "Spawn" -> <<"state", "receipt", "spawn">>
      [] kind = "Despawn" -> <<"despawn", "forget">>

(* Mutant: no look at `enabled` before the lock.                           *)
OfferAlways(i, kind, a) ==
    /\ ingest[i].pc = "idle"
    /\ ingest' = [ingest EXCEPT ![i] = [pc |-> "waiting", aircraft |-> a,
                                        left |-> Body(kind)]]
    /\ UNCHANGED <<enabled, maintenance, readers, writer, maintain, copyVars, storeVars>>

(* The first look at `enabled`, before any lock.                           *)
Offer(i, kind, a) ==
    /\ ingest[i].pc = "idle"
    /\ \/ /\ ~enabled
          /\ UNCHANGED ingest
       \/ /\ enabled
          /\ ingest' = [ingest EXCEPT ![i] = [pc |-> "waiting", aircraft |-> a,
                                              left |-> Body(kind)]]
    /\ UNCHANGED <<enabled, maintenance, readers, writer, maintain, copyVars, storeVars>>

AcquireRead(i) ==
    /\ ingest[i].pc = "waiting"
    /\ writer = None
    /\ readers' = readers \cup {i}
    /\ ingest' = [ingest EXCEPT ![i].pc = "entered"]
    /\ UNCHANGED <<enabled, maintenance, writer, maintain, copyVars, storeVars>>

(* The second look, under the shared lock.                                 *)
Recheck(i) ==
    /\ ingest[i].pc = "entered"
    /\ \/ /\ ~enabled
          /\ readers' = readers \ {i}
          /\ ingest' = [ingest EXCEPT ![i] = NotIngesting]
       \/ /\ enabled
          /\ ingest' = [ingest EXCEPT ![i].pc = "acting"]
          /\ UNCHANGED readers
    /\ UNCHANGED <<enabled, maintenance, writer, maintain, copyVars, storeVars>>

(* One access of the message's body.                                       *)
AppendStep(i) ==
    LET a == ingest[i].aircraft
        step == Head(ingest[i].left)
    IN /\ ingest[i].pc = "acting"
       /\ ingest[i].left # <<>>
       /\ entries' = CASE step = "state" -> [entries EXCEPT ![a].state = TRUE]
                       [] step = "spawn" -> [entries EXCEPT ![a].spawned = TRUE]
                       [] step = "despawn" -> [entries EXCEPT ![a].spawned = FALSE]
                       [] OTHER -> entries
       /\ receipts' = CASE step = "receipt" -> receipts \cup {a}
                        [] step = "forget" -> receipts \ {a}
                        [] OTHER -> receipts
       /\ ingest' = [ingest EXCEPT ![i].left = Tail(@)]
       /\ UNCHANGED <<gateVars, maintain, copyVars, aligned>>

Leave(i) ==
    /\ ingest[i].pc = "acting"
    /\ ingest[i].left = <<>>
    /\ readers' = readers \ {i}
    /\ ingest' = [ingest EXCEPT ![i] = NotIngesting]
    /\ UNCHANGED <<enabled, maintenance, writer, maintain, copyVars, storeVars>>

-----------------------------------------------------------------------------
(* with_paused                                                             *)

Goto(m, pc) == maintain' = [maintain EXCEPT ![m].pc = pc]

LockMaintenance(m, op) ==
    /\ maintain[m].pc = "idle"
    /\ maintenance = None
    /\ maintenance' = m
    /\ maintain' = [maintain EXCEPT ![m] = [pc |-> "locked", op |-> op, at |-> 0]]
    /\ UNCHANGED <<enabled, readers, writer, ingest, copyVars, storeVars>>

Disable(m) ==
    /\ maintain[m].pc = "locked"
    /\ enabled' = FALSE
    /\ Goto(m, "draining")
    /\ UNCHANGED <<maintenance, readers, writer, ingest, copyVars, storeVars>>

(* Mutant: the messages under way are not waited for.                      *)
AcquireWriteEager(m) ==
    /\ maintain[m].pc = "draining"
    /\ writer = None
    /\ writer' = m
    /\ Goto(m, "acting")
    /\ UNCHANGED <<enabled, maintenance, readers, ingest, copyVars, storeVars>>

AcquireWrite(m) ==
    /\ maintain[m].pc = "draining"
    /\ writer = None
    /\ readers = {}
    /\ writer' = m
    /\ Goto(m, "acting")
    /\ UNCHANGED <<enabled, maintenance, readers, ingest, copyVars, storeVars>>

(* snapshot_clone, one entry of the map at a time.                         *)
CopyEntry(m, a) ==
    /\ maintain[m].pc = "acting"
    /\ maintain[m].op = "save"
    /\ a \notin copied[m]
    /\ copied' = [copied EXCEPT ![m] = @ \cup {a}]
    /\ snapshot' = [snapshot EXCEPT ![m][a] = entries[a]]
    /\ UNCHANGED <<gateVars, ingest, maintain, storeVars>>

EndCopy(m) ==
    /\ maintain[m].pc = "acting"
    /\ maintain[m].op = "save"
    /\ copied[m] = Aircraft
    /\ Goto(m, "done")
    /\ UNCHANGED <<gateVars, ingest, copyVars, storeVars>>

(* replace_from and clear: first the map, then the receipts ...            *)
Replace(m, new) ==
    /\ maintain[m].pc = "acting"
    /\ maintain[m].op \in {"load", "clear"}
    /\ maintain[m].at = 0
    /\ maintain[m].op = "clear" => new = NoEntries
    /\ entries' = new
    /\ aligned' = FALSE
    /\ maintain' = [maintain EXCEPT ![m].at = 1]
    /\ UNCHANGED <<gateVars, ingest, copyVars, receipts>>

(* Mutant: the receipts are not cleared.                                   *)
ClearReceiptsNot(m) ==
    /\ maintain[m].pc = "acting"
    /\ maintain[m].at = 1
    /\ maintain' = [maintain EXCEPT ![m].at = 2]
    /\ UNCHANGED <<gateVars, ingest, copyVars, entries, receipts, aligned>>

ClearReceipts(m) ==
    /\ maintain[m].pc = "acting"
    /\ maintain[m].at = 1
    /\ receipts' = {}
    /\ maintain' = [maintain EXCEPT ![m].at = 2]
    /\ UNCHANGED <<gateVars, ingest, copyVars, entries, aligned>>

(* ... and then the playback state, reset_after_load or reset_empty.       *)
ResetPlayback(m) ==
    /\ maintain[m].pc = "acting"
    /\ maintain[m].at = 2
    /\ aligned' = TRUE
    /\ Goto(m, "done")
    /\ UNCHANGED <<gateVars, ingest, copyVars, entries, receipts>>

(* Mutant: the guard is dropped without reopening the gate.                *)
ResumeClosed(m) ==
    /\ maintain[m].pc = "done"
    /\ Goto(m, "resumed")
    /\ UNCHANGED <<enabled, maintenance, readers, writer, ingest, copyVars, storeVars>>

(* ResumeIngestion: its drop body, then its fields in declaration order.   *)
(* The result, the snapshot of a save, goes to the caller at the end.      *)
Resume(m) ==
    /\ maintain[m].pc = "done"
    /\ enabled' = TRUE
    /\ Goto(m, "resumed")
    /\ UNCHANGED <<maintenance, readers, writer, ingest, copyVars, storeVars>>

UnlockMaintenance(m) ==
    /\ maintain[m].pc = "resumed"
    /\ maintenance' = None
    /\ Goto(m, "unlocked")
    /\ UNCHANGED <<enabled, readers, writer, ingest, copyVars, storeVars>>

(* Mutant: the gate is reopened last, after the mutex is released.         *)
ReleaseWriteReopening(m) ==
    /\ maintain[m].pc = "unlocked"
    /\ writer' = None
    /\ enabled' = TRUE
    /\ maintain' = [maintain EXCEPT ![m] = NotMaintaining]
    /\ copied' = [copied EXCEPT ![m] = {}]
    /\ snapshot' = [snapshot EXCEPT ![m] = NoEntries]
    /\ UNCHANGED <<maintenance, readers, ingest, storeVars>>

ReleaseWrite(m) ==
    /\ maintain[m].pc = "unlocked"
    /\ writer' = None
    /\ maintain' = [maintain EXCEPT ![m] = NotMaintaining]
    /\ copied' = [copied EXCEPT ![m] = {}]
    /\ snapshot' = [snapshot EXCEPT ![m] = NoEntries]
    /\ UNCHANGED <<enabled, maintenance, readers, ingest, storeVars>>

-----------------------------------------------------------------------------
Ingestion(i) ==
    \/ \E kind \in {"StateUpdate", "Spawn", "Despawn"}, a \in Aircraft : Offer(i, kind, a)
    \/ AcquireRead(i)
    \/ Recheck(i)
    \/ AppendStep(i)
    \/ Leave(i)

Maintenance(m) ==
    \/ \E op \in Operation : LockMaintenance(m, op)
    \/ Disable(m)
    \/ AcquireWrite(m)
    \/ \E a \in Aircraft : CopyEntry(m, a)
    \/ EndCopy(m)
    \/ \E new \in Recordings \cup {NoEntries} : Replace(m, new)
    \/ ClearReceipts(m)
    \/ ResetPlayback(m)
    \/ Resume(m)
    \/ UnlockMaintenance(m)
    \/ ReleaseWrite(m)

Next == (\E i \in Ingesters : Ingestion(i)) \/ (\E m \in Maintainers : Maintenance(m))

Spec == Init /\ [][Next]_vars

-----------------------------------------------------------------------------
(* Properties.                                                             *)

Working(m) == maintain[m].pc \in {"acting", "done"}

(***************************************************************************)
(* While one maintainer works on the store no other one does, and no       *)
(* message is half appended: with_paused waits for the messages under way, *)
(* and with_ingestion cannot enter before the guard is dropped.            *)
(***************************************************************************)
Exclusive ==
    \A m \in Maintainers : Working(m) =>
        /\ \A n \in Maintainers : Working(n) => n = m
        /\ \A i \in Ingesters : ingest[i].pc \notin {"entered", "acting"}

(***************************************************************************)
(* Ingestion is disabled exactly while some maintainer is between storing  *)
(* FALSE and storing TRUE: two overlapping with_paused calls neither       *)
(* reopen the gate under each other nor leave it closed.                   *)
(***************************************************************************)
GateOwned ==
    enabled <=> ~\E m \in Maintainers : maintain[m].pc \in {"draining", "acting", "done"}

(***************************************************************************)
(* What snapshot_clone has copied is the store as it is: the entries were  *)
(* copied one by one, and all of them are of the same moment.              *)
(***************************************************************************)
SnapshotWhole ==
    \A m \in Maintainers : Working(m) /\ maintain[m].op = "save" =>
        \A a \in copied[m] : snapshot[m][a] = entries[a]

(***************************************************************************)
(* Outside maintenance the parts of the runtime agree: playback has been   *)
(* reset since the store was replaced, and every aircraft with a live      *)
(* receipt has a sample.                                                   *)
(***************************************************************************)
Coherent ==
    (\A m \in Maintainers : maintain[m].pc # "acting") =>
        aligned /\ \A a \in receipts : entries[a].state

(***************************************************************************)
(* Every thread that is inside with_ingestion or with_paused and can go on *)
(* does; calls are never forced.  Taking the maintenance mutex is left     *)
(* out: std's Mutex promises no order.                                     *)
(***************************************************************************)
Progress(i) == AcquireRead(i) \/ Recheck(i) \/ AppendStep(i) \/ Leave(i)

Work(m) ==
    \/ Disable(m) \/ AcquireWrite(m)
    \/ \E a \in Aircraft : CopyEntry(m, a)
    \/ EndCopy(m)
    \/ \E new \in Recordings \cup {NoEntries} : Replace(m, new)
    \/ ClearReceipts(m) \/ ResetPlayback(m)
    \/ Resume(m) \/ UnlockMaintenance(m) \/ ReleaseWrite(m)

Fairness ==
    /\ \A i \in Ingesters : WF_vars(Progress(i))
    /\ \A m \in Maintainers : WF_vars(Work(m))

FairSpec == Spec /\ Fairness

(***************************************************************************)
(* A maintainer that has closed the gate gets the store, however many      *)
(* messages keep arriving: `enabled` turns them away before the lock.      *)
(***************************************************************************)
Drains ==
    \A m \in Maintainers : (maintain[m].pc = "draining") ~> (maintain[m].pc = "acting")

(***************************************************************************)
(* Every pause ends, and with it the gate reopens.                         *)
(***************************************************************************)
Reopens == ~enabled ~> enabled
===============================================================================
