-------------------------- MODULE IngestionGateProofs --------------------------
(***************************************************************************)
(* The safety properties of IngestionGate for any number of ingesting and  *)
(* maintaining threads, any aircraft and any recordings.                   *)
(***************************************************************************)
EXTENDS IngestionGate, TLAPS

(* What is left of a message's body at any point.                          *)
Remaining ==
    {<<>>, <<"receipt">>, <<"spawn">>, <<"forget">>, <<"state", "receipt">>,
     <<"receipt", "spawn">>, <<"state", "receipt", "spawn">>, <<"despawn", "forget">>}

Ingesting == [pc : {"idle", "waiting", "entered", "acting"},
              aircraft : Aircraft \cup {None}, left : Remaining]

Maintaining == [pc : {"idle", "locked", "draining", "acting", "done", "resumed",
                      "unlocked"},
                op : Operation, at : {0, 1, 2}]

Typed ==
    /\ enabled \in BOOLEAN
    /\ maintenance \in Maintainers \cup {None}
    /\ readers \in SUBSET Ingesters
    /\ writer \in Maintainers \cup {None}
    /\ ingest \in [Ingesters -> Ingesting]
    /\ maintain \in [Maintainers -> Maintaining]
    /\ copied \in [Maintainers -> SUBSET Aircraft]
    /\ snapshot \in [Maintainers -> Entries]
    /\ entries \in Entries
    /\ receipts \in SUBSET Aircraft
    /\ aligned \in BOOLEAN

(* Who holds which lock is read off the program counters.                  *)
Locks ==
    /\ \A i \in Ingesters : i \in readers <=> ingest[i].pc \in {"entered", "acting"}
    /\ \A m \in Maintainers :
          /\ maintenance = m <=>
                maintain[m].pc \in {"locked", "draining", "acting", "done", "resumed"}
          /\ writer = m <=>
                maintain[m].pc \in {"acting", "done", "resumed", "unlocked"}
    /\ writer # None => readers = {}

(* A message on its way to its receipt has already appended its sample.    *)
Bodies ==
    \A i \in Ingesters :
        /\ ingest[i].pc # "idle" => ingest[i].aircraft \in Aircraft
        /\ ingest[i].pc \in {"waiting", "entered"} =>
              ingest[i].left \notin {<<"receipt">>, <<"receipt", "spawn">>}
        /\ ingest[i].pc = "acting" /\ ingest[i].left \in {<<"receipt">>, <<"receipt", "spawn">>}
              => entries[ingest[i].aircraft].state

(* The store and playback differ, or receipts lack a sample, only while a  *)
(* load or clear is at the steps that mend it.                             *)
Mending ==
    /\ \A m \in Maintainers : maintain[m].op = "save" => maintain[m].at = 0
    /\ aligned \/ \E m \in Maintainers : maintain[m].pc = "acting" /\ maintain[m].at \in {1, 2}
    /\ \/ \A a \in receipts : entries[a].state
       \/ \E m \in Maintainers : maintain[m].pc = "acting" /\ maintain[m].at = 1

(* A maintainer that does not hold the lock has copied nothing.            *)
Copies ==
    \A m \in Maintainers :
        maintain[m].pc \notin {"acting", "done", "resumed", "unlocked"} => copied[m] = {}

GateInv == Typed /\ Locks /\ GateOwned /\ Bodies /\ Mending /\ Copies /\ SnapshotWhole

(***************************************************************************)
(* The bodies of append_message_with_config: what a step leaves, and that  *)
(* a receipt is only ever preceded by a sample.                            *)
(***************************************************************************)
LEMMA BodySteps ==
    ASSUME NEW l \in Remaining, l # <<>>
    PROVE  /\ Tail(l) \in Remaining
           /\ Head(l) = "receipt" => l \in {<<"receipt">>, <<"receipt", "spawn">>}
           /\ Tail(l) \in {<<"receipt">>, <<"receipt", "spawn">>} => Head(l) = "state"
<1>1. CASE l = <<"receipt">>
  BY <1>1 DEF Remaining
<1>2. CASE l = <<"spawn">>
  BY <1>2 DEF Remaining
<1>3. CASE l = <<"forget">>
  BY <1>3 DEF Remaining
<1>4. CASE l = <<"state", "receipt">>
  BY <1>4 DEF Remaining
<1>5. CASE l = <<"receipt", "spawn">>
  BY <1>5 DEF Remaining
<1>6. CASE l = <<"state", "receipt", "spawn">>
  BY <1>6 DEF Remaining
<1>7. CASE l = <<"despawn", "forget">>
  BY <1>7 DEF Remaining
<1> QED
  BY <1>1, <1>2, <1>3, <1>4, <1>5, <1>6, <1>7 DEF Remaining

(***************************************************************************)
(* Every message of the receive callback starts with one of those bodies,  *)
(* never at a receipt.                                                     *)
(***************************************************************************)
LEMMA BodyType ==
    ASSUME NEW kind \in {"StateUpdate", "Spawn", "Despawn"}
    PROVE  /\ Body(kind) \in Remaining
           /\ Body(kind) \notin {<<"receipt">>, <<"receipt", "spawn">>}
<1>1. CASE kind = "StateUpdate"
  BY <1>1 DEF Body, Remaining
<1>2. CASE kind = "Spawn"
  BY <1>2 DEF Body, Remaining
<1>3. CASE kind = "Despawn"
  BY <1>3 DEF Body, Remaining
<1> QED
  BY <1>1, <1>2, <1>3

(***************************************************************************)
(* The gate as IngestionGate::new leaves it satisfies the invariant.       *)
(***************************************************************************)
LEMMA GateInit == Init => GateInv
<1> SUFFICES ASSUME Init PROVE GateInv
  OBVIOUS
<1>0. NoEntries \in Entries
  BY DEF NoEntries, Entries, Entry
<1>1. NotIngesting \in Ingesting /\ NotMaintaining \in Maintaining
  BY DEF NotIngesting, NotMaintaining, Ingesting, Maintaining, Remaining, Operation
<1>2. Typed
  BY <1>0, <1>1 DEF Init, Typed
<1>3. Locks /\ GateOwned
  BY GateAssumption DEF Init, Locks, GateOwned, NotIngesting, NotMaintaining
<1>4. Bodies /\ Mending /\ Copies /\ SnapshotWhole
  BY DEF Init, Bodies, Mending, Copies, SnapshotWhole, NotIngesting, NotMaintaining, Working
<1> QED
  BY <1>2, <1>3, <1>4 DEF GateInv

(***************************************************************************)
(* A maintainer that works on the store holds the lock exclusively: it is  *)
(* the only one, and no message is under way.                              *)
(***************************************************************************)
LEMMA WriterAlone ==
    ASSUME Typed, Locks, NEW m \in Maintainers,
           maintain[m].pc \in {"acting", "done", "resumed", "unlocked"}
    PROVE  /\ \A n \in Maintainers :
                  maintain[n].pc \in {"acting", "done", "resumed", "unlocked"} => n = m
           /\ \A i \in Ingesters : ingest[i].pc \notin {"entered", "acting"}
<1>1. writer = m /\ writer # None
  BY GateAssumption DEF Locks
<1>2. readers = {}
  BY <1>1 DEF Locks
<1> QED
  BY <1>1, <1>2 DEF Locks

(***************************************************************************)
(* A message that has entered keeps every maintainer off the store.        *)
(***************************************************************************)
LEMMA ReaderShields ==
    ASSUME Typed, Locks, NEW i \in Ingesters, ingest[i].pc \in {"entered", "acting"}
    PROVE  /\ writer = None
           /\ \A m \in Maintainers :
                  maintain[m].pc \notin {"acting", "done", "resumed", "unlocked"}
<1>1. i \in readers
  BY DEF Locks
<1>2. writer = None
  BY <1>1 DEF Locks
<1> QED
  BY <1>2, GateAssumption DEF Locks

(***************************************************************************)
(* Every step of with_ingestion keeps the invariant.                       *)
(***************************************************************************)
LEMMA IngestionStep ==
    ASSUME GateInv, NEW i \in Ingesters, Ingestion(i)
    PROVE  GateInv'
<1> USE DEF gateVars, storeVars, copyVars
<1>0. Typed /\ Locks /\ GateOwned /\ Bodies /\ Mending /\ Copies /\ SnapshotWhole
  BY DEF GateInv
<1>n. NotIngesting \in Ingesting
  BY DEF NotIngesting, Ingesting, Remaining
<1>1. ASSUME NEW kind \in {"StateUpdate", "Spawn", "Despawn"}, NEW a \in Aircraft,
             Offer(i, kind, a)
      PROVE  GateInv'
  <2>1. [pc |-> "waiting", aircraft |-> a, left |-> Body(kind)] \in Ingesting
    BY BodyType DEF Ingesting
  <2>2. Typed'
    BY <1>0, <1>1, <2>1 DEF Offer, Typed
  <2>3. Locks' /\ GateOwned'
    BY <1>0, <1>1 DEF Offer, Typed, Ingesting, Locks, GateOwned
  <2>4. Bodies'
    BY <1>0, <1>1, BodyType DEF Offer, Typed, Ingesting, Bodies
  <2>5. Mending' /\ Copies' /\ SnapshotWhole'
    BY <1>0, <1>1 DEF Offer, Mending, Copies, SnapshotWhole, Working
  <2> QED
    BY <2>2, <2>3, <2>4, <2>5 DEF GateInv
<1>2. CASE AcquireRead(i)
  <2>1. Typed'
    BY <1>0, <1>2 DEF AcquireRead, Typed, Ingesting
  <2>2. Locks' /\ GateOwned'
    BY <1>0, <1>2 DEF AcquireRead, Typed, Ingesting, Locks, GateOwned
  <2>3. Bodies'
    BY <1>0, <1>2 DEF AcquireRead, Typed, Ingesting, Bodies
  <2>4. Mending' /\ Copies' /\ SnapshotWhole'
    BY <1>0, <1>2 DEF AcquireRead, Mending, Copies, SnapshotWhole, Working
  <2> QED
    BY <2>1, <2>2, <2>3, <2>4 DEF GateInv
<1>3. CASE Recheck(i)
  <2>1. Typed'
    BY <1>0, <1>3, <1>n DEF Recheck, Typed, Ingesting
  <2>2. Locks' /\ GateOwned'
    BY <1>0, <1>3 DEF Recheck, Typed, Ingesting, Locks, GateOwned, NotIngesting
  <2>3. Bodies'
    BY <1>0, <1>3 DEF Recheck, Typed, Ingesting, Bodies, NotIngesting
  <2>4. Mending' /\ Copies' /\ SnapshotWhole'
    BY <1>0, <1>3 DEF Recheck, Mending, Copies, SnapshotWhole, Working
  <2> QED
    BY <2>1, <2>2, <2>3, <2>4 DEF GateInv
<1>4. CASE AppendStep(i)
  <2> DEFINE a == ingest[i].aircraft
             l == ingest[i].left
  <2>1. /\ a \in Aircraft /\ l \in Remaining /\ l # <<>>
        /\ ingest[i].pc = "acting"
    BY <1>0, <1>4 DEF AppendStep, Typed, Ingesting, Bodies
  <2>2. /\ Tail(l) \in Remaining
        /\ Head(l) = "receipt" => l \in {<<"receipt">>, <<"receipt", "spawn">>}
        /\ Tail(l) \in {<<"receipt">>, <<"receipt", "spawn">>} => Head(l) = "state"
    BY <2>1, BodySteps
  <2>3. \A m \in Maintainers : maintain[m].pc \notin {"acting", "done", "resumed", "unlocked"}
    BY <1>0, <2>1, ReaderShields
  <2>4. /\ \A b \in Aircraft : entries[b].state => entries'[b].state
        /\ Head(l) = "state" => entries'[a].state
        /\ entries' \in Entries
    BY <1>0, <1>4, <2>1 DEF AppendStep, Typed, Entries, Entry
  <2>5. Typed'
    BY <1>0, <1>4, <2>1, <2>2, <2>4 DEF AppendStep, Typed, Ingesting
  <2>6. Locks' /\ GateOwned'
    BY <1>0, <1>4 DEF AppendStep, Typed, Ingesting, Locks, GateOwned
  <2>7. Bodies'
    <3> SUFFICES ASSUME NEW j \in Ingesters
                 PROVE  /\ ingest'[j].pc # "idle" => ingest'[j].aircraft \in Aircraft
                        /\ ingest'[j].pc \in {"waiting", "entered"} =>
                              ingest'[j].left \notin {<<"receipt">>, <<"receipt", "spawn">>}
                        /\ ingest'[j].pc = "acting"
                              /\ ingest'[j].left \in {<<"receipt">>, <<"receipt", "spawn">>}
                              => entries'[ingest'[j].aircraft].state
      BY DEF Bodies
    <3>1. CASE j = i
      <4>1. ingest'[i] = [ingest[i] EXCEPT !.left = Tail(l)]
        BY <1>0, <1>4 DEF AppendStep, Typed
      <4>2. /\ ingest'[i].pc = "acting" /\ ingest'[i].aircraft = a
            /\ ingest'[i].left = Tail(l)
        BY <1>0, <4>1, <2>1 DEF Typed, Ingesting
      <4> QED
        BY <3>1, <4>2, <2>1, <2>2, <2>4
    <3>2. CASE j # i
      <4>1. ingest'[j] = ingest[j]
        BY <1>0, <1>4, <3>2 DEF AppendStep, Typed
      <4> QED
        BY <1>0, <4>1, <2>4 DEF Bodies
    <3> QED
      BY <3>1, <3>2
  <2>8. Mending'
    <3>1. \A b \in receipts : entries[b].state
      BY <1>0, <2>3 DEF Mending
    <3>2. Head(l) = "receipt" => entries[a].state
      BY <1>0, <2>1, <2>2 DEF Bodies
    <3>3. \A b \in receipts' : b \in Aircraft /\ (b \in receipts \/ (b = a /\ Head(l) = "receipt"))
      BY <1>0, <1>4, <2>1 DEF AppendStep, Typed
    <3>4. \A b \in receipts' : entries'[b].state
      BY <3>1, <3>2, <3>3, <2>4
    <3> QED
      BY <1>0, <1>4, <3>4 DEF AppendStep, Mending
  <2>9. Copies' /\ SnapshotWhole'
    BY <1>0, <1>4, <2>3 DEF AppendStep, Copies, SnapshotWhole, Working
  <2> QED
    BY <2>5, <2>6, <2>7, <2>8, <2>9 DEF GateInv
<1>5. CASE Leave(i)
  <2>1. Typed'
    BY <1>0, <1>5, <1>n DEF Leave, Typed
  <2>2. Locks' /\ GateOwned'
    BY <1>0, <1>5 DEF Leave, Typed, Ingesting, Locks, GateOwned, NotIngesting
  <2>3. Bodies'
    BY <1>0, <1>5 DEF Leave, Typed, Ingesting, Bodies, NotIngesting
  <2>4. Mending' /\ Copies' /\ SnapshotWhole'
    BY <1>0, <1>5 DEF Leave, Mending, Copies, SnapshotWhole, Working
  <2> QED
    BY <2>1, <2>2, <2>3, <2>4 DEF GateInv
<1> QED
  BY <1>1, <1>2, <1>3, <1>4, <1>5 DEF Ingestion

(***************************************************************************)
(* Every step of with_paused, of the work it runs and of the drop of its   *)
(* guard keeps the invariant.                                              *)
(***************************************************************************)
LEMMA MaintenanceStep ==
    ASSUME GateInv, NEW m \in Maintainers, Maintenance(m)
    PROVE  GateInv'
<1> USE DEF gateVars, storeVars, copyVars, Goto
<1>0. Typed /\ Locks /\ GateOwned /\ Bodies /\ Mending /\ Copies /\ SnapshotWhole
  BY DEF GateInv
<1>n. NotMaintaining \in Maintaining /\ NoEntries \in Entries
  BY DEF NotMaintaining, Maintaining, Operation, NoEntries, Entries, Entry
<1>1. ASSUME NEW op \in Operation, LockMaintenance(m, op) PROVE GateInv'
  <2>2. Typed'
    BY <1>0, <1>1 DEF LockMaintenance, Typed, Maintaining
  <2>3. Locks'
    BY <1>0, <1>1, GateAssumption DEF LockMaintenance, Typed, Maintaining, Locks
  <2>4. GateOwned'
    BY <1>0, <1>1 DEF LockMaintenance, Typed, Maintaining, Locks, GateOwned
  <2>5. Bodies'
    BY <1>0, <1>1 DEF LockMaintenance, Bodies
  <2>6. Mending'
    BY <1>0, <1>1 DEF LockMaintenance, Typed, Maintaining, Mending
  <2>7. Copies' /\ SnapshotWhole'
    BY <1>0, <1>1 DEF LockMaintenance, Typed, Maintaining, Copies, SnapshotWhole, Working
  <2> QED
    BY <2>2, <2>3, <2>4, <2>5, <2>6, <2>7 DEF GateInv
<1>2. CASE Disable(m)
  <2>2. Typed'
    BY <1>0, <1>2 DEF Disable, Typed, Maintaining
  <2>3. Locks'
    BY <1>0, <1>2, GateAssumption DEF Disable, Typed, Maintaining, Locks
  <2>4. GateOwned'
    BY <1>0, <1>2 DEF Disable, Typed, Maintaining, Locks, GateOwned
  <2>5. Bodies'
    BY <1>0, <1>2 DEF Disable, Bodies
  <2>6. Mending'
    BY <1>0, <1>2 DEF Disable, Typed, Maintaining, Mending
  <2>7. Copies' /\ SnapshotWhole'
    BY <1>0, <1>2 DEF Disable, Typed, Maintaining, Copies, SnapshotWhole, Working
  <2> QED
    BY <2>2, <2>3, <2>4, <2>5, <2>6, <2>7 DEF GateInv
<1>3. CASE AcquireWrite(m)
  <2>2. Typed'
    BY <1>0, <1>3 DEF AcquireWrite, Typed, Maintaining
  <2>3. Locks'
    BY <1>0, <1>3, GateAssumption DEF AcquireWrite, Typed, Maintaining, Locks
  <2>4. GateOwned'
    BY <1>0, <1>3 DEF AcquireWrite, Typed, Maintaining, Locks, GateOwned
  <2>5. Bodies'
    BY <1>0, <1>3 DEF AcquireWrite, Bodies
  <2>6. Mending'
    BY <1>0, <1>3 DEF AcquireWrite, Typed, Maintaining, Mending
  <2>7. Copies' /\ SnapshotWhole'
    BY <1>0, <1>3 DEF AcquireWrite, Typed, Maintaining, Copies, SnapshotWhole, Working
  <2> QED
    BY <2>2, <2>3, <2>4, <2>5, <2>6, <2>7 DEF GateInv
<1>4. ASSUME NEW a \in Aircraft, CopyEntry(m, a) PROVE GateInv'
  <2>1. /\ \A n \in Maintainers :
              maintain[n].pc \in {"acting", "done", "resumed", "unlocked"} => n = m
        /\ \A i \in Ingesters : ingest[i].pc \notin {"entered", "acting"}
    BY <1>0, <1>4, WriterAlone DEF CopyEntry
  <2>2. Typed'
    BY <1>0, <1>4 DEF CopyEntry, Typed, Entries
  <2>3. Locks'
    BY <1>0, <1>4, <2>1, GateAssumption DEF CopyEntry, Typed, Locks
  <2>4. GateOwned'
    BY <1>0, <1>4, <2>1 DEF CopyEntry, Typed, Locks, GateOwned
  <2>5. Bodies'
    BY <1>0, <1>4, <2>1 DEF CopyEntry, Bodies
  <2>6. Mending'
    BY <1>0, <1>4, <2>1 DEF CopyEntry, Typed, Mending
  <2>7. Copies' /\ SnapshotWhole'
    BY <1>0, <1>4, <2>1 DEF CopyEntry, Typed, Entries, Copies, SnapshotWhole, Working
  <2> QED
    BY <2>2, <2>3, <2>4, <2>5, <2>6, <2>7 DEF GateInv
<1>5. CASE EndCopy(m)
  <2>1. /\ \A n \in Maintainers :
              maintain[n].pc \in {"acting", "done", "resumed", "unlocked"} => n = m
        /\ \A i \in Ingesters : ingest[i].pc \notin {"entered", "acting"}
    BY <1>0, <1>5, WriterAlone DEF EndCopy
  <2>2. Typed'
    BY <1>0, <1>5 DEF EndCopy, Typed, Maintaining
  <2>3. Locks'
    BY <1>0, <1>5, <2>1, GateAssumption DEF EndCopy, Typed, Maintaining, Locks
  <2>4. GateOwned'
    BY <1>0, <1>5, <2>1 DEF EndCopy, Typed, Maintaining, Locks, GateOwned
  <2>5. Bodies'
    BY <1>0, <1>5, <2>1 DEF EndCopy, Bodies
  <2>6. Mending'
    BY <1>0, <1>5, <2>1 DEF EndCopy, Typed, Maintaining, Mending
  <2>7. Copies' /\ SnapshotWhole'
    BY <1>0, <1>5, <2>1 DEF EndCopy, Typed, Maintaining, Copies, SnapshotWhole, Working
  <2> QED
    BY <2>2, <2>3, <2>4, <2>5, <2>6, <2>7 DEF GateInv
<1>6. ASSUME NEW new \in Recordings \cup {NoEntries}, Replace(m, new) PROVE GateInv'
  <2>1. /\ \A n \in Maintainers :
              maintain[n].pc \in {"acting", "done", "resumed", "unlocked"} => n = m
        /\ \A i \in Ingesters : ingest[i].pc \notin {"entered", "acting"}
    BY <1>0, <1>6, WriterAlone DEF Replace
  <2>2. Typed'
    <3>1. maintain' \in [Maintainers -> Maintaining]
      BY <1>0, <1>6 DEF Replace, Typed, Maintaining
    <3>2. entries' \in Entries /\ aligned' \in BOOLEAN
      BY <1>6, <1>n, GateAssumption DEF Replace
    <3> QED
      BY <1>0, <1>6, <3>1, <3>2 DEF Replace, Typed, gateVars, copyVars
  <2>3. Locks'
    BY <1>0, <1>6, <2>1, GateAssumption DEF Replace, Typed, Maintaining, Locks
  <2>4. GateOwned'
    BY <1>0, <1>6, <2>1 DEF Replace, Typed, Maintaining, Locks, GateOwned
  <2>5. Bodies'
    BY <1>0, <1>6, <2>1 DEF Replace, Bodies
  <2>6. Mending'
    BY <1>0, <1>6, <2>1 DEF Replace, Typed, Maintaining, Mending
  <2>7. Copies' /\ SnapshotWhole'
    BY <1>0, <1>6, <2>1 DEF Replace, Typed, Maintaining, Copies, SnapshotWhole, Working
  <2> QED
    BY <2>2, <2>3, <2>4, <2>5, <2>6, <2>7 DEF GateInv
<1>7. CASE ClearReceipts(m)
  <2>1. /\ \A n \in Maintainers :
              maintain[n].pc \in {"acting", "done", "resumed", "unlocked"} => n = m
        /\ \A i \in Ingesters : ingest[i].pc \notin {"entered", "acting"}
    BY <1>0, <1>7, WriterAlone DEF ClearReceipts
  <2>2. Typed'
    BY <1>0, <1>7 DEF ClearReceipts, Typed, Maintaining
  <2>3. Locks'
    BY <1>0, <1>7, <2>1, GateAssumption DEF ClearReceipts, Typed, Maintaining, Locks
  <2>4. GateOwned'
    BY <1>0, <1>7, <2>1 DEF ClearReceipts, Typed, Maintaining, Locks, GateOwned
  <2>5. Bodies'
    BY <1>0, <1>7, <2>1 DEF ClearReceipts, Bodies
  <2>6. Mending'
    BY <1>0, <1>7, <2>1 DEF ClearReceipts, Typed, Maintaining, Mending
  <2>7. Copies' /\ SnapshotWhole'
    BY <1>0, <1>7, <2>1 DEF ClearReceipts, Typed, Maintaining, Copies, SnapshotWhole, Working
  <2> QED
    BY <2>2, <2>3, <2>4, <2>5, <2>6, <2>7 DEF GateInv
<1>8. CASE ResetPlayback(m)
  <2>1. /\ \A n \in Maintainers :
              maintain[n].pc \in {"acting", "done", "resumed", "unlocked"} => n = m
        /\ \A i \in Ingesters : ingest[i].pc \notin {"entered", "acting"}
    BY <1>0, <1>8, WriterAlone DEF ResetPlayback
  <2>2. Typed'
    BY <1>0, <1>8 DEF ResetPlayback, Typed, Maintaining
  <2>3. Locks'
    BY <1>0, <1>8, <2>1, GateAssumption DEF ResetPlayback, Typed, Maintaining, Locks
  <2>4. GateOwned'
    BY <1>0, <1>8, <2>1 DEF ResetPlayback, Typed, Maintaining, Locks, GateOwned
  <2>5. Bodies'
    BY <1>0, <1>8, <2>1 DEF ResetPlayback, Bodies
  <2>6. Mending'
    BY <1>0, <1>8, <2>1 DEF ResetPlayback, Typed, Maintaining, Mending
  <2>7. Copies' /\ SnapshotWhole'
    BY <1>0, <1>8, <2>1 DEF ResetPlayback, Typed, Maintaining, Copies, SnapshotWhole, Working
  <2> QED
    BY <2>2, <2>3, <2>4, <2>5, <2>6, <2>7 DEF GateInv
<1>9. CASE Resume(m)
  <2>1. /\ \A n \in Maintainers :
              maintain[n].pc \in {"acting", "done", "resumed", "unlocked"} => n = m
        /\ \A i \in Ingesters : ingest[i].pc \notin {"entered", "acting"}
    BY <1>0, <1>9, WriterAlone DEF Resume
  <2>2. Typed'
    BY <1>0, <1>9 DEF Resume, Typed, Maintaining
  <2>3. Locks'
    BY <1>0, <1>9, <2>1, GateAssumption DEF Resume, Typed, Maintaining, Locks
  <2>4. GateOwned'
    BY <1>0, <1>9, <2>1 DEF Resume, Typed, Maintaining, Locks, GateOwned
  <2>5. Bodies'
    BY <1>0, <1>9, <2>1 DEF Resume, Bodies
  <2>6. Mending'
    BY <1>0, <1>9, <2>1 DEF Resume, Typed, Maintaining, Mending
  <2>7. Copies' /\ SnapshotWhole'
    BY <1>0, <1>9, <2>1 DEF Resume, Typed, Maintaining, Copies, SnapshotWhole, Working
  <2> QED
    BY <2>2, <2>3, <2>4, <2>5, <2>6, <2>7 DEF GateInv
<1>10. CASE UnlockMaintenance(m)
  <2>1. /\ \A n \in Maintainers :
              maintain[n].pc \in {"acting", "done", "resumed", "unlocked"} => n = m
        /\ \A i \in Ingesters : ingest[i].pc \notin {"entered", "acting"}
    BY <1>0, <1>10, WriterAlone DEF UnlockMaintenance
  <2>2. Typed'
    BY <1>0, <1>10 DEF UnlockMaintenance, Typed, Maintaining
  <2>3. Locks'
    BY <1>0, <1>10, <2>1, GateAssumption DEF UnlockMaintenance, Typed, Maintaining, Locks
  <2>4. GateOwned'
    BY <1>0, <1>10, <2>1 DEF UnlockMaintenance, Typed, Maintaining, Locks, GateOwned
  <2>5. Bodies'
    BY <1>0, <1>10, <2>1 DEF UnlockMaintenance, Bodies
  <2>6. Mending'
    BY <1>0, <1>10, <2>1 DEF UnlockMaintenance, Typed, Maintaining, Mending
  <2>7. Copies' /\ SnapshotWhole'
    BY <1>0, <1>10, <2>1 DEF UnlockMaintenance, Typed, Maintaining, Copies, SnapshotWhole, Working
  <2> QED
    BY <2>2, <2>3, <2>4, <2>5, <2>6, <2>7 DEF GateInv
<1>11. CASE ReleaseWrite(m)
  <2>1. /\ \A n \in Maintainers :
              maintain[n].pc \in {"acting", "done", "resumed", "unlocked"} => n = m
        /\ \A i \in Ingesters : ingest[i].pc \notin {"entered", "acting"}
    BY <1>0, <1>11, WriterAlone DEF ReleaseWrite
  <2>2. Typed'
    BY <1>0, <1>11, <1>n DEF ReleaseWrite, Typed, Maintaining
  <2>3. Locks'
    BY <1>0, <1>11, <2>1, GateAssumption DEF ReleaseWrite, Typed, Maintaining, Locks, NotMaintaining
  <2>4. GateOwned'
    BY <1>0, <1>11, <2>1 DEF ReleaseWrite, Typed, Maintaining, Locks, GateOwned, NotMaintaining
  <2>5. Bodies'
    BY <1>0, <1>11, <2>1 DEF ReleaseWrite, Bodies
  <2>6. Mending'
    BY <1>0, <1>11, <2>1 DEF ReleaseWrite, Typed, Maintaining, Mending, NotMaintaining
  <2>7. Copies' /\ SnapshotWhole'
    BY <1>0, <1>11, <2>1 DEF ReleaseWrite, Typed, Maintaining, Copies, SnapshotWhole, Working, NotMaintaining
  <2> QED
    BY <2>2, <2>3, <2>4, <2>5, <2>6, <2>7 DEF GateInv
<1> QED
  BY <1>1, <1>2, <1>3, <1>4, <1>5, <1>6, <1>7, <1>8, <1>9, <1>10, <1>11 DEF Maintenance

(***************************************************************************)
(* The invariant holds in every reachable state, for any number of         *)
(* threads.                                                                *)
(***************************************************************************)
THEOREM GateInvariant == Spec => []GateInv
<1>1. GateInv /\ [Next]_vars => GateInv'
  <2> SUFFICES ASSUME GateInv, [Next]_vars PROVE GateInv'
    OBVIOUS
  <2>1. CASE Next
    BY <2>1, IngestionStep, MaintenanceStep DEF Next
  <2>2. CASE UNCHANGED vars
    BY <2>2 DEF vars, gateVars, storeVars, copyVars, GateInv, Typed, Locks, GateOwned,
                Bodies, Mending, Copies, SnapshotWhole, Working
  <2> QED
    BY <2>1, <2>2
<1> QED
  BY GateInit, <1>1, PTL DEF Spec

(***************************************************************************)
(* Type correctness of the gate, its threads and the store behind it.      *)
(***************************************************************************)
THEOREM GateTypeCorrect == Spec => []TypeOK
<1>1. Typed => TypeOK
  <2>1. Remaining \subseteq Seq(Step)
    BY DEF Remaining, Step
  <2>2. {0, 1, 2} = 0..2
    OBVIOUS
  <2>3. Ingesting \subseteq [pc : {"idle", "waiting", "entered", "acting"},
                           aircraft : Aircraft \cup {None}, left : Seq(Step)]
    BY <2>1 DEF Ingesting
  <2> QED
    BY <2>2, <2>3 DEF Typed, TypeOK, Maintaining
<1>2. GateInv => Typed
  BY DEF GateInv
<1> QED
  BY <1>1, <1>2, GateInvariant, PTL

(***************************************************************************)
(* Maintenance is exclusive: of other maintenance and of half-appended     *)
(* messages (Exclusive), because working on the store means holding the    *)
(* write lock.                                                             *)
(***************************************************************************)
THEOREM MaintenanceExclusive == Spec => []Exclusive
<1>1. GateInv => Exclusive
  BY WriterAlone DEF GateInv, Exclusive, Working
<1> QED
  BY <1>1, GateInvariant, PTL

(***************************************************************************)
(* The gate is closed exactly while a maintainer owns it (GateOwned),      *)
(* however many with_paused calls overlap.                                 *)
(***************************************************************************)
THEOREM GateFollowsOwner == Spec => []GateOwned
<1>1. GateInv => GateOwned
  BY DEF GateInv
<1> QED
  BY <1>1, GateInvariant, PTL

(***************************************************************************)
(* A snapshot taken by save_session is of one moment (SnapshotWhole).      *)
(***************************************************************************)
THEOREM SnapshotOfOneMoment == Spec => []SnapshotWhole
<1>1. GateInv => SnapshotWhole
  BY DEF GateInv
<1> QED
  BY <1>1, GateInvariant, PTL

(***************************************************************************)
(* Store, receipts and playback agree outside maintenance (Coherent).      *)
(***************************************************************************)
THEOREM RuntimeCoherent == Spec => []Coherent
<1>1. GateInv => Coherent
  BY DEF GateInv, Coherent, Mending
<1> QED
  BY <1>1, GateInvariant, PTL
===============================================================================
