------------------------------ MODULE CursorStream ------------------------------
(***************************************************************************)
(* The cursor stream of one subscriber, end to end: the publisher task     *)
(* (core/src/cursor.rs, CursorStreamRuntime::start), the subscriber's      *)
(* session kept by the UDP server (core/src/transport/server.rs), the      *)
(* datagrams between them, CursorClient (core/src/cursor.rs) and the       *)
(* consumer that folds the event batches it is given into a view           *)
(* (bindings/godot, apply_cursor_event_batch).                             *)
(*                                                                         *)
(* Events are delivered by stop-and-wait: pages of at most PageSize        *)
(* events, numbered consecutively, of which only the first unacknowledged  *)
(* one is on the wire.  Frames are best effort and carry the number of the *)
(* last page that has to be applied before them (`watermark`).             *)
(*                                                                         *)
(* A payload is delivered whole or not at all: its chunks are reassembled  *)
(* by CursorReassembler and a payload that misses one is lost.  The        *)
(* publisher increments frame_sequence on every tick; the client only      *)
(* compares the numbers, so the model numbers the frames that are sent.    *)
(***************************************************************************)
EXTENDS Timeline, Sequences

CONSTANTS
    Recordings,     \* the stores that exist before the subscription or are loaded
    FeedSamples,    \* samples a producer may append while the stream runs
    FeedEvents,     \* events a producer may append while the stream runs
    PageSize,       \* events per batch (32 in the code)
    RetryLimit,     \* config.event_retry_limit
    Reorder,        \* whether the network may overtake
    Expiry,         \* whether the session may be removed by others
    MaxRevision,    \* bound: timeline mutations explored
    MaxFrames,      \* bound: frames sent
    MaxInFlight,    \* bound: datagrams in flight to the client
    MaxPages        \* bound: page numbers the liveness property speaks of

ASSUME StreamAssumption ==
    /\ Recordings \subseteq Store
    /\ FeedSamples \subseteq Sample
    /\ FeedEvents \subseteq Event
    /\ PageSize \in Nat \ {0}
    /\ RetryLimit \in Nat
    /\ Reorder \in BOOLEAN
    /\ Expiry \in BOOLEAN
    /\ MaxRevision \in Nat
    /\ MaxFrames \in Nat
    /\ MaxInFlight \in Nat \ {0}
    /\ MaxPages \in Nat

VARIABLES
    store,      \* the time-series store
    playback,   \* PlaybackInner: mode, cursor, revision
    loading,    \* a load replaced the store and has not reset playback yet
    session,    \* the subscriber's Session in by_addr
    sub,        \* its SubscriberState, the publisher's own record
    tick,       \* what the running tick read: session copy and snapshot
    frames,     \* frame_sequence of the last frame sent
    wire,       \* payloads in flight to the client
    acks,       \* CursorEventAck datagrams in flight to the server
    client,     \* CursorClient
    view,       \* the events the consumer holds since the last baseline
    shown,      \* the last frame handed to the consumer
    given,      \* history: batch numbers handed to the consumer
    twice       \* history: batch numbers handed to it more than once

timelineVars == <<store, playback, loading>>
publisherVars == <<sub, tick, frames>>
clientVars == <<client, view, shown, given, twice>>
vars == <<timelineVars, session, publisherVars, wire, acks, clientVars>>

NoRevision == -1
EmptyStore == [states |-> {}, events |-> {}]
NoFrame == [kind |-> "frame", seq |-> 0, rev |-> NoRevision, mark |-> 0]
Fresh == [lastRev |-> NoRevision, lastCur |-> NoTime, next |-> 0,
          pending |-> <<>>]
Idle == [active |-> FALSE, ack |-> 0,
         snap |-> [mode |-> "live", cursor |-> NoTime, revision |-> 0]]

Page == [seq : Nat, rev : Nat, cursor : Nat, baseline : BOOLEAN,
         final : BOOLEAN, events : SUBSET Event, attempts : Nat]
Frame == [kind : {"frame"}, seq : Nat, rev : Nat, mark : Nat]
Batch == [kind : {"batch"}, seq : Nat, rev : Nat, baseline : BOOLEAN,
          events : SUBSET Event]
Reset == [kind : {"reset"}, rev : Nat]
Payload == Frame \cup Batch \cup Reset

Playback == [mode : Mode, cursor : Nat, revision : Nat]
Session == [live : BOOLEAN, subscribed : BOOLEAN, ack : Nat, epoch : BOOLEAN]
Subscriber == [lastRev : Nat \cup {NoRevision}, lastCur : Nat, next : Nat,
               pending : Seq(Page)]
Ticking == [active : BOOLEAN, ack : Nat, snap : Playback]
ClientState == [connected : BOOLEAN, epoch : BOOLEAN, applied : Nat,
                baseRev : Nat \cup {NoRevision},
                pendingFrame : Frame \cup {NoFrame}, lastFrame : Nat]

TypeOK ==
    /\ store \in Store
    /\ playback \in Playback
    /\ loading \in BOOLEAN
    /\ session \in Session
    /\ sub \in Subscriber
    /\ tick \in Ticking
    /\ frames \in Nat
    /\ wire \in Seq(Payload)
    /\ acks \subseteq Nat
    /\ client \in ClientState
    /\ view \subseteq Event
    /\ shown \in Frame \cup {NoFrame}
    /\ given \subseteq Nat
    /\ twice \subseteq Nat

(***************************************************************************)
(* The subscriber has shaken hands; its subscribe request is about to      *)
(* arrive.  A server with a recording loaded is paused at its start, an    *)
(* empty one is live.                                                      *)
(***************************************************************************)
Init ==
    /\ store \in Recordings
    /\ playback = IF Instants(store) = {}
                  THEN [mode |-> "live", cursor |-> NoTime, revision |-> 0]
                  ELSE [mode |-> "paused", cursor |-> Earliest(store),
                        revision |-> 0]
    /\ loading = FALSE
    /\ session = [live |-> TRUE, subscribed |-> FALSE, ack |-> 0, epoch |-> FALSE]
    /\ sub = Fresh
    /\ tick = Idle
    /\ frames = 0
    /\ wire = <<>>
    /\ acks = {}
    /\ client = [connected |-> FALSE, epoch |-> FALSE, applied |-> 0,
                 baseRev |-> NoRevision, pendingFrame |-> NoFrame,
                 lastFrame |-> 0]
    /\ view = {}
    /\ shown = NoFrame
    /\ given = {}
    /\ twice = {}

-----------------------------------------------------------------------------
(* The timeline: producers, playback control, session loading.             *)

(* append_message, StateUpdate and the initial state of a Spawn.           *)
AppendState(s) ==
    /\ ~loading
    /\ store' = [store EXCEPT !.states = @ \cup {s}]
    /\ UNCHANGED <<playback, loading, session, publisherVars, wire, acks, clientVars>>

(* append_message, Spawn, Despawn and CustomEvent.  A Spawn's initial      *)
(* state is appended before it and seen on its own; every client of the    *)
(* repository sends one, so spawns without it are left out.                *)
AppendEvent(e) ==
    /\ ~loading
    /\ e.kind = "spawn" => <<e.aircraft, e.ts>> \in store.states
    /\ store' = [store EXCEPT !.events = @ \cup {e}]
    /\ UNCHANGED <<playback, loading, session, publisherVars, wire, acks, clientVars>>

(* live()                                                                  *)
GoLive ==
    /\ playback.revision < MaxRevision
    /\ playback' = [mode |-> "live", cursor |-> Latest(store),
                    revision |-> playback.revision + 1]
    /\ UNCHANGED <<store, loading, session, publisherVars, wire, acks, clientVars>>

(* seek(t), and with it pause() and step(), which also end paused at an    *)
(* instant within the bounds under a new revision.                         *)
Seek(t) ==
    /\ Instants(store) # {}
    /\ playback.revision < MaxRevision
    /\ playback' = [mode |-> "paused", cursor |-> Clamp(t, store),
                    revision |-> playback.revision + 1]
    /\ UNCHANGED <<store, loading, session, publisherVars, wire, acks, clientVars>>

(* play(), with both its calls of update_effective_cursor.                 *)
Play ==
    /\ Instants(store) # {}
    /\ playback.revision < MaxRevision
    /\ LET now == UpdateEffectiveCursor(playback, store, 0)
           playing == [mode |-> "playing", cursor |-> Clamp(now.cursor, store),
                       revision |-> now.revision + 1]
       IN playback' = UpdateEffectiveCursor(playing, store, 0)
    /\ UNCHANGED <<store, loading, session, publisherVars, wire, acks, clientVars>>

(* load_session and clear_session, the store half: replace_from a          *)
(* recording, or clear.                                                    *)
LoadStore(r) ==
    /\ ~loading
    /\ playback.revision < MaxRevision
    /\ store' = r
    /\ loading' = TRUE
    /\ UNCHANGED <<playback, session, publisherVars, wire, acks, clientVars>>

(* Their playback half, reset_after_load or reset_empty: paused at the     *)
(* first instant of what is stored now.                                    *)
ResetAfterLoad ==
    /\ loading
    /\ loading' = FALSE
    /\ playback' = [mode |-> "paused", cursor |-> Earliest(store),
                    revision |-> playback.revision + 1]
    /\ UNCHANGED <<store, session, publisherVars, wire, acks, clientVars>>

-----------------------------------------------------------------------------
(* The session.                                                            *)

(* subscribe_cursor, reached from the receive loop.                        *)
HandleSubscribe ==
    /\ session.live
    /\ ~session.subscribed
    /\ session' = [session EXCEPT !.subscribed = TRUE]
    /\ UNCHANGED <<timelineVars, publisherVars, wire, acks, clientVars>>

(* acknowledge_cursor_event: only the next number of a subscribed session  *)
(* whose epoch matches counts; any other acknowledgement is dropped.       *)
AcceptAck(s) ==
    /\ session.live
    /\ session.subscribed
    /\ session.epoch
    /\ s = session.ack + 1

HandleAck(s) ==
    /\ s \in acks
    /\ acks' = acks \ {s}
    /\ session' = IF AcceptAck(s) THEN [session EXCEPT !.ack = s] ELSE session
    /\ UNCHANGED <<timelineVars, publisherVars, wire, clientVars>>

(* The session is gone: cleanup_expired, or the publisher's removal of     *)
(* subscribers beyond max_subscribers.                                     *)
RemoveSession ==
    /\ Expiry
    /\ session.live
    /\ session' = [session EXCEPT !.live = FALSE]
    /\ UNCHANGED <<timelineVars, publisherVars, wire, acks, clientVars>>

-----------------------------------------------------------------------------
(* The publisher.  A tick copies the session and takes the playback        *)
(* snapshot, then works from the copies while acknowledgements, producers  *)
(* and playback control go on.                                             *)

(* states.retain forgets a subscriber that is no longer active.            *)
TickBegin(elapsed) ==
    LET active == session.live /\ session.subscribed
    IN /\ ~tick.active
       /\ playback' = UpdateEffectiveCursor(playback, store, elapsed)
       /\ tick' = IF active
                  THEN [active |-> TRUE, ack |-> session.ack, snap |-> playback']
                  ELSE Idle
       /\ sub' = IF active THEN sub ELSE Fresh
       /\ UNCHANGED <<store, loading, session, frames, wire, acks, clientVars>>

(* Mutant: a page leaves the queue one acknowledgement early.              *)
PoppedEarly(p) ==
    IF p.pending # <<>> /\ tick.ack + 1 >= p.pending[1].seq
    THEN [p EXCEPT
            !.pending = Tail(@),
            !.lastRev = IF p.pending[1].final THEN p.pending[1].rev ELSE @,
            !.lastCur = IF p.pending[1].final THEN p.pending[1].cursor ELSE @]
    ELSE p

(* One acknowledged page leaves the queue per tick; the last page of a     *)
(* batch moves the subscriber to the batch's revision and cursor.          *)
Popped(p) ==
    IF p.pending # <<>> /\ tick.ack >= p.pending[1].seq
    THEN [p EXCEPT
            !.pending = Tail(@),
            !.lastRev = IF p.pending[1].final THEN p.pending[1].rev ELSE @,
            !.lastCur = IF p.pending[1].final THEN p.pending[1].cursor ELSE @]
    ELSE p

IsBaseline(p) ==
    \/ p.lastRev = NoRevision
    \/ p.lastRev # tick.snap.revision
    \/ /\ p.lastCur # NoTime
       /\ tick.snap.cursor # NoTime
       /\ tick.snap.cursor < p.lastCur

NewEvents(p) ==
    IF IsBaseline(p) THEN BaselineEvents(store, tick.snap)
    ELSE DeltaEvents(store, p.lastCur, tick.snap.cursor)

PageCount(events) == (Cardinality(events) + PageSize - 1) \div PageSize

Rank(e, events) == Cardinality({f \in events : Precedes(f, e)})

PageOf(events, i) == {e \in events : Rank(e, events) \div PageSize = i - 1}

(* The pages of a batch, numbered on from `next`; an empty baseline is one *)
(* empty page.                                                             *)
Pages(p) ==
    LET events == NewEvents(p)
        count == IF events = {} THEN 1 ELSE PageCount(events)
    IN [i \in 1..count |->
          [seq |-> p.next + i, rev |-> tick.snap.revision,
           cursor |-> tick.snap.cursor,
           baseline |-> IsBaseline(p) /\ i = 1, final |-> i = count,
           events |-> PageOf(events, i), attempts |-> 0]]

Filled(p) ==
    IF p.pending # <<>> THEN p
    ELSE IF IsBaseline(p) \/ NewEvents(p) # {}
    THEN [p EXCEPT !.pending = Pages(p), !.next = @ + Len(Pages(p))]
    ELSE [p EXCEPT !.lastRev = tick.snap.revision, !.lastCur = tick.snap.cursor]

(* The first pending page is sent when it is new or when the retry         *)
(* interval has elapsed since it was last sent.                            *)
Due(p, elapsed) == p.pending # <<>> /\ (p.pending[1].attempts = 0 \/ elapsed)

(* A datagram may be lost when it is sent.                                 *)
Send(queue, m, kept) ==
    IF kept /\ Len(queue) < MaxInFlight THEN Append(queue, m) ELSE queue

ResetOf(page) == [kind |-> "reset", rev |-> page.rev]

BatchOf(page) == [kind |-> "batch", seq |-> page.seq, rev |-> page.rev,
                  baseline |-> page.baseline, events |-> page.events]

(* The reset and the batch of a page; either may be lost.                  *)
Transmit(queue, page, keptReset, keptBatch) ==
    Send(Send(queue, ResetOf(page), page.baseline /\ keptReset),
         BatchOf(page), keptBatch)

Watermark(p) == IF p.pending = <<>> THEN tick.ack
                ELSE p.pending[Len(p.pending)].seq

FrameOf(p) == [kind |-> "frame", seq |-> frames + 1, rev |-> tick.snap.revision,
               mark |-> Watermark(p)]

(* Mutant: attempts are not counted.                                       *)
SentUncounted(p) == p

(* What a transmission, delivered or not, leaves on the first page.        *)
Sent(p) == [p EXCEPT !.pending[1].attempts = @ + 1]

(* set_cursor_epoch, before anything else the tick does to the session.    *)
WithEpoch(s) == IF s.live THEN [s EXCEPT !.epoch = TRUE] ELSE s

(* The tick of a subscriber whose first page is out of attempts: the       *)
(* session and the publisher's record of it are removed, no frame is sent. *)
TickGiveUp ==
    /\ tick.active
    /\ LET p == Filled(Popped(sub))
       IN Due(p, TRUE) /\ p.pending[1].attempts >= RetryLimit
    /\ session' = [session EXCEPT !.live = FALSE]
    /\ sub' = Fresh
    /\ tick' = Idle
    /\ UNCHANGED <<timelineVars, frames, wire, acks, clientVars>>

(* Any other tick: send the first page if it is due, then a frame unless   *)
(* the subscriber's frame interval has not elapsed.                        *)
TickPublish(elapsed, keptReset, keptBatch, framed) ==
    LET p == Filled(Popped(sub))
        due == Due(p, elapsed)
        queue == IF due THEN Transmit(wire, p.pending[1], keptReset, keptBatch)
                 ELSE wire
    IN /\ tick.active
       /\ due => p.pending[1].attempts < RetryLimit
       /\ framed => frames < MaxFrames
       /\ session' = WithEpoch(session)
       /\ sub' = IF due THEN Sent(p) ELSE p
       /\ frames' = IF framed THEN frames + 1 ELSE frames
       /\ wire' = IF framed THEN Send(queue, FrameOf(p), TRUE) ELSE queue
       /\ tick' = Idle
       /\ UNCHANGED <<timelineVars, acks, clientVars>>

-----------------------------------------------------------------------------
(* The client.                                                             *)

(* connect() returns: the answer to the subscribe request has arrived.     *)
ClientConnect ==
    /\ session.subscribed
    /\ ~client.connected
    /\ client' = [client EXCEPT !.connected = TRUE]
    /\ UNCHANGED <<timelineVars, session, publisherVars, wire, acks, view,
                   shown, given, twice>>

Without(queue, i) ==
    [j \in 1..(Len(queue) - 1) |-> IF j < i THEN queue[j] ELSE queue[j + 1]]

(* The payloads the socket may hand over next.                             *)
Receivable == IF Reorder THEN 1..Len(wire) ELSE {1} \cap (1..Len(wire))

(* expect_ack ignores pushes until the subscription is confirmed.          *)
RecvEarly(i) ==
    /\ ~client.connected
    /\ wire' = Without(wire, i)
    /\ UNCHANGED <<timelineVars, session, publisherVars, acks, clientVars>>

(* Mutant: the watermark of a held-back frame is ignored.                  *)
FrameAlwaysReady == client.pendingFrame # NoFrame

FrameReady == client.pendingFrame # NoFrame /\ client.pendingFrame.mark <= client.applied

(* recv() looks at the held-back frame before it reads the socket.         *)
ShowPending ==
    /\ FrameReady
    /\ LET newer == client.pendingFrame.seq > client.lastFrame
       IN /\ client' = [client EXCEPT !.pendingFrame = NoFrame,
                            !.lastFrame = IF newer THEN client.pendingFrame.seq ELSE @]
          /\ shown' = IF newer THEN client.pendingFrame ELSE shown
    /\ UNCHANGED <<timelineVars, session, publisherVars, wire, acks, view,
                   given, twice>>

RecvFrame(i) ==
    LET f == wire[i]
    IN /\ client.connected
       /\ ~FrameReady
       /\ f.kind = "frame"
       /\ wire' = Without(wire, i)
       /\ \/ /\ f.seq <= client.lastFrame
             /\ UNCHANGED <<client, shown>>
          \/ /\ f.seq > client.lastFrame
             /\ f.mark <= client.applied
             /\ client' = [client EXCEPT !.lastFrame = f.seq]
             /\ shown' = f
          \/ /\ f.seq > client.lastFrame
             /\ f.mark > client.applied
             /\ client' = [client EXCEPT !.pendingFrame =
                              IF f.seq > @.seq THEN f ELSE @]
             /\ UNCHANGED shown
       /\ UNCHANGED <<timelineVars, session, publisherVars, acks, view, given,
                      twice>>

(* Mutants: a new baseline counts as applied before it is compared; every  *)
(* baseline, retransmitted ones too, forgets the applied number.           *)
RebasedApplied(b) ==
    LET c == [client EXCEPT !.epoch = TRUE]
    IN IF b.baseline /\ c.baseRev # b.rev
       THEN [c EXCEPT !.applied = b.seq, !.baseRev = b.rev, !.pendingFrame = NoFrame]
       ELSE c

RebasedAlways(b) ==
    LET c == [client EXCEPT !.epoch = TRUE]
    IN IF b.baseline
       THEN [c EXCEPT !.applied = 0, !.baseRev = b.rev, !.pendingFrame = NoFrame]
       ELSE c

(* The client's state after the epoch and revision checks of a batch: a    *)
(* new epoch forgets everything, a baseline of another revision forgets    *)
(* the applied number and the held-back frame.                             *)
Rebased(b) ==
    LET c == IF client.epoch THEN client
             ELSE [client EXCEPT !.epoch = TRUE, !.applied = 0,
                      !.baseRev = NoRevision, !.pendingFrame = NoFrame,
                      !.lastFrame = 0]
    IN IF b.baseline /\ c.baseRev # b.rev
       THEN [c EXCEPT !.applied = 0, !.baseRev = b.rev, !.pendingFrame = NoFrame]
       ELSE c

(* The consumer: a baseline batch replaces its view, others extend it.     *)
Consume(b) ==
    /\ view' = IF b.baseline THEN b.events ELSE view \cup b.events
    /\ given' = given \cup {b.seq}
    /\ twice' = IF b.seq \in given THEN twice \cup {b.seq} ELSE twice

(* Every batch is acknowledged first, then handed over unless its number   *)
(* has been applied already.                                               *)
RecvBatch(i, keptAck) ==
    LET b == wire[i]
        c == Rebased(b)
    IN /\ client.connected
       /\ ~FrameReady
       /\ b.kind = "batch"
       /\ wire' = Without(wire, i)
       /\ acks' = IF keptAck THEN acks \cup {b.seq} ELSE acks
       /\ \/ /\ b.seq <= c.applied
             /\ client' = c
             /\ UNCHANGED <<view, given, twice>>
          \/ /\ b.seq > c.applied
             /\ client' = [c EXCEPT !.applied = b.seq]
             /\ Consume(b)
       /\ UNCHANGED <<timelineVars, session, publisherVars, shown>>

(* A reset of the revision already in force is ignored.                    *)
RecvReset(i) ==
    LET r == wire[i]
    IN /\ client.connected
       /\ ~FrameReady
       /\ r.kind = "reset"
       /\ wire' = Without(wire, i)
       /\ \/ /\ client.epoch /\ client.baseRev = r.rev
             /\ UNCHANGED <<client, view>>
          \/ /\ ~client.epoch \/ client.baseRev # r.rev
             /\ client' = [client EXCEPT !.epoch = TRUE, !.applied = 0,
                              !.baseRev = r.rev, !.pendingFrame = NoFrame,
                              !.lastFrame = 0]
             /\ view' = {}
       /\ UNCHANGED <<timelineVars, session, publisherVars, acks, shown, given,
                      twice>>

-----------------------------------------------------------------------------
Timelines ==
    \/ \E s \in FeedSamples \ store.states : AppendState(s)
    \/ \E e \in FeedEvents \ store.events : AppendEvent(e)
    \/ GoLive
    \/ \E t \in Instants(store) : Seek(t)
    \/ Play
    \/ \E r \in Recordings \cup {EmptyStore} : LoadStore(r)
    \/ ResetAfterLoad

Sessions ==
    \/ HandleSubscribe
    \/ \E s \in acks : HandleAck(s)
    \/ RemoveSession

Publisher ==
    \/ \E elapsed \in {0, 1} : TickBegin(elapsed)
    \/ TickGiveUp
    \/ \E elapsed, keptReset, keptBatch, framed \in BOOLEAN :
           TickPublish(elapsed, keptReset, keptBatch, framed)

Client ==
    \/ ClientConnect
    \/ ShowPending
    \/ \E i \in Receivable :
           \/ RecvEarly(i)
           \/ RecvFrame(i)
           \/ RecvBatch(i, TRUE)
           \/ RecvBatch(i, FALSE)
           \/ RecvReset(i)

Next == Timelines \/ Sessions \/ Publisher \/ Client

Spec == Init /\ [][Next]_vars

-----------------------------------------------------------------------------
(* Properties.                                                             *)

(***************************************************************************)
(* A batch the session counts as acknowledged has been handed to the       *)
(* consumer: the client acknowledges a batch before it decides whether to  *)
(* apply it (CursorClient::recv), and the publisher forgets the page on    *)
(* the strength of that acknowledgement.                                   *)
(***************************************************************************)
AckedIsGiven == \A s \in 1..session.ack : s \in given

(***************************************************************************)
(* The session accepts the acknowledgement of exactly one number, the next *)
(* (acknowledge_cursor_event).  The page the publisher retransmits is that *)
(* one, or the one just accepted, and nothing is owed when the queue is    *)
(* empty; were they to part, the page could never be acknowledged.         *)
(***************************************************************************)
StopAndWait ==
    session.live =>
        IF sub.pending = <<>> THEN sub.next = session.ack
        ELSE sub.pending[1].seq \in {session.ack, session.ack + 1}

(***************************************************************************)
(* A frame is shown only after every event batch up to its watermark has   *)
(* been handed over, however frames, batches and resets overtake one       *)
(* another (the watermark test and pending_frame of CursorClient::recv).   *)
(***************************************************************************)
FrameAfterEvents == \A s \in 1..shown.mark : s \in given

(***************************************************************************)
(* No batch is handed to the consumer twice, although lost                 *)
(* acknowledgements make the publisher send it again.                      *)
(***************************************************************************)
GivenOnce == twice = {}

(***************************************************************************)
(* A subscriber the publisher considers in step (nothing pending, at the   *)
(* current revision) holds, for every aircraft that has a state at its     *)
(* cursor, the events from the aircraft's last spawn up to that cursor:    *)
(* what baseline_events would give a new subscriber.                       *)
(***************************************************************************)
InStep ==
    /\ session.live
    /\ sub.pending = <<>>
    /\ sub.lastRev = playback.revision
    /\ ~loading
    /\ ~tick.active

Life(events) == IF Spawned(events) THEN FromLastSpawn(events) ELSE {}

ViewComplete ==
    InStep => \A s \in store.states :
        s[2] <= sub.lastCur =>
            Life({e \in view : e.aircraft = s[1]})
                = Life(UpTo(EventsOf(store, s[1]), sub.lastCur))

(***************************************************************************)
(* The publisher's ticks keep coming and time passes: infinitely many of   *)
(* them find the retry interval of the pending page elapsed.  Nothing is   *)
(* assumed of the network or of the client.                                *)
(***************************************************************************)
TickRetry == TickGiveUp \/ \E keptReset, keptBatch, framed \in BOOLEAN :
                               TickPublish(TRUE, keptReset, keptBatch, framed)

Fairness ==
    /\ WF_vars(\E elapsed \in {0, 1} : TickBegin(elapsed))
    /\ SF_vars(TickRetry)

FairSpec == Spec /\ Fairness

(***************************************************************************)
(* A page is not retransmitted for ever: it is acknowledged, or the        *)
(* subscriber is removed after event_retry_limit attempts, even when the   *)
(* network loses everything.                                               *)
(***************************************************************************)
PageResolves ==
    \A s \in 1..MaxPages :
        (sub.pending # <<>> /\ sub.pending[1].seq = s)
            ~> ~(sub.pending # <<>> /\ sub.pending[1].seq = s)

(***************************************************************************)
(* An event stored while the subscription stands reaches the consumer,     *)
(* unless the subscriber is removed: delta_events and baseline_events      *)
(* leave no event out.                                                     *)
(***************************************************************************)
EventsDelivered ==
    \A e \in FeedEvents :
        (session.subscribed /\ e \in store.events)
            ~> (~session.live \/ e \in view \/ e \notin store.events)
===============================================================================
