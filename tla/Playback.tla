------------------------------- MODULE Playback -------------------------------
(***************************************************************************)
(* The playback controller under concurrent callers (core/src/playback.rs, *)
(* core/src/management/routes.rs).  HTTP handlers, WebSocket loops, the    *)
(* cursor publisher and the bindings share one PlaybackController; every   *)
(* operation first reads the store's time bounds and only then locks the   *)
(* playback state, so what it read may be stale when it is used.  Sessions *)
(* are loaded and cleared by one maintenance thread at a time, with        *)
(* ingestion paused (module IngestionGate).                                *)
(*                                                                         *)
(* Wall-clock time is counted in ticks: `age` is the number of ticks since *)
(* `anchor`, NoAge stands for an anchor of None.                           *)
(***************************************************************************)
EXTENDS Timeline

CONSTANTS Callers,      \* threads that call the controller
          Poller,       \* the one that takes snapshots at a fixed rate
          Speeds,       \* the speeds validate_speed accepts
          DefaultSpeed,
          Recordings,   \* the stores that may be loaded from disk
          Targets,      \* the timestamps a caller may seek
          MaxCount,     \* bound on the steps of one frame step
          MaxAge,       \* bound on the ticks between two updates
          MaxRevision   \* bound on the explicit timeline operations

ASSUME PlaybackAssumption ==
    /\ Poller \in Callers
    /\ Speeds \subseteq Nat \ {0} /\ DefaultSpeed \in Speeds
    /\ Recordings \subseteq Store
    /\ Targets \subseteq Nat
    /\ {MaxCount, MaxAge, MaxRevision} \subseteq Nat

VARIABLES
    store,      \* the time-series store
    pb,         \* PlaybackInner: mode, cursor and revision
    speed,      \* PlaybackInner.speed
    age,        \* ticks since PlaybackInner.anchor
    call,       \* what each caller is in the middle of
    maint,      \* what the maintenance thread is in the middle of
    position    \* history: where playing should have brought the cursor

vars == <<store, pb, speed, age, call, maint, position>>

NoAge == -1
EmptyStore == [states |-> {}, events |-> {}]
NoCall == [op |-> "none", arg |-> 0, seen |-> EmptyStore]

Steps == {"next_sample", "previous_sample", "next_event", "previous_event"}

Request ==
    [op : {"snapshot", "live", "pause"}, arg : {0}]
    \cup [op : {"seek"}, arg : Targets]
    \cup [op : {"play"}, arg : {0} \cup Speeds]
    \cup [op : {"speed"}, arg : Speeds]
    \cup [op : Steps, arg : 1 .. MaxCount]

(* pause, seek, play and step fail on an empty store.                      *)
NeedsData == {"pause", "seek", "play"} \cup Steps

Init == /\ store = EmptyStore
        /\ pb = [mode |-> "live", cursor |-> NoTime, revision |-> 0]
        /\ speed = DefaultSpeed
        /\ age = NoAge
        /\ call = [c \in Callers |-> NoCall]
        /\ maint = "idle"
        /\ position = NoTime

(***************************************************************************)
(* Ingestion and maintenance.                                              *)
(***************************************************************************)
AppendState(s) ==
    /\ maint = "idle" /\ s \notin store.states
    /\ store' = [store EXCEPT !.states = @ \cup {s}]
    /\ UNCHANGED <<pb, speed, age, call, maint, position>>

AppendEvent(e) ==
    /\ maint = "idle" /\ e \notin store.events
    /\ store' = [store EXCEPT !.events = @ \cup {e}]
    /\ UNCHANGED <<pb, speed, age, call, maint, position>>

ClearStore ==
    /\ maint = "idle" /\ pb.revision < MaxRevision
    /\ store' = EmptyStore
    /\ maint' = "cleared"
    /\ UNCHANGED <<pb, speed, age, call, position>>

LoadStore(r) ==
    /\ maint = "idle" /\ pb.revision < MaxRevision
    /\ store' = r
    /\ maint' = "loaded"
    /\ UNCHANGED <<pb, speed, age, call, position>>

Reset(from, cursor) ==
    /\ maint = from
    /\ maint' = "idle"
    /\ pb' = [mode |-> "paused", cursor |-> cursor, revision |-> pb.revision + 1]
    /\ age' = NoAge
    /\ position' = cursor
    /\ UNCHANGED <<store, speed, call>>

ResetEmpty == Reset("cleared", NoTime)

ResetAfterLoad == Reset("loaded", Earliest(store))

(***************************************************************************)
(* The controller's operations.  Begin is everything before the lock: the  *)
(* checks of the arguments and the read of the bounds.                     *)
(***************************************************************************)
Begin(c, r) ==
    /\ call[c] = NoCall
    /\ IF c = Poller THEN r.op = "snapshot"
       ELSE r.op # "snapshot" /\ pb.revision < MaxRevision
    /\ r.op \in NeedsData => Instants(store) # {}
    /\ call' = [call EXCEPT ![c] = [op |-> r.op, arg |-> r.arg, seen |-> store]]
    /\ UNCHANGED <<store, pb, speed, age, maint, position>>

(* adjacent_global_timestamp: `count` times to the nearest timestamp       *)
(* strictly after (before) the probe, or as far as there is one.           *)
Adjacent(times, cursor, forward, count) ==
    LET probe[n \in 0 .. count] ==
            IF n = 0 THEN cursor
            ELSE LET p == probe[n - 1]
                     beyond == {t \in times : IF forward THEN t > p ELSE t < p}
                 IN IF beyond = {} THEN p
                    ELSE CHOOSE t \in beyond :
                             \A u \in beyond : IF forward THEN t <= u ELSE u <= t
    IN probe[count]

StepTarget(op, cursor, count) ==
    LET times == IF op \in {"next_sample", "previous_sample"}
                 THEN {s[2] : s \in store.states} ELSE {e.ts : e \in store.events}
    IN Adjacent(times, cursor, op \in {"next_sample", "next_event"}, count)

(* Mutant: the elapsed time is charged at the speed just asked for.        *)
EffectiveAtNewSpeed(k) ==
    UpdateEffectiveCursor(pb, k.seen,
        (IF age = NoAge THEN 0 ELSE age) * (IF k.op = "speed" THEN k.arg ELSE speed))

(* The update every operation except live, seek and the resets begins with. *)
Effective(k) ==
    UpdateEffectiveCursor(pb, k.seen, (IF age = NoAge THEN 0 ELSE age) * speed)

(* Mutant: an explicit move of the cursor keeps the revision.              *)
PausedSilently(e, cursor) ==
    [mode |-> "paused", cursor |-> cursor, revision |-> e.revision]

Paused(e, cursor) == [mode |-> "paused", cursor |-> cursor, revision |-> e.revision + 1]

(* play: at the end of the recording it stops again at once.               *)
Playing(e, seen) ==
    UpdateEffectiveCursor([mode |-> "playing", cursor |-> Clamp(e.cursor, seen),
                           revision |-> e.revision + 1], seen, 0)

(* What each operation leaves in PlaybackInner.                            *)
After(k) ==
    LET e == Effective(k)
    IN CASE k.op = "snapshot" -> e
         [] k.op = "live" -> [mode |-> "live", cursor |-> Latest(k.seen),
                              revision |-> pb.revision + 1]
         [] k.op = "pause" -> Paused(e, e.cursor)
         [] k.op = "seek" -> Paused(pb, Clamp(k.arg, k.seen))
         [] k.op = "play" -> Playing(e, k.seen)
         [] k.op = "speed" -> [e EXCEPT !.revision = @ + 1]
         [] OTHER -> Paused(e, Clamp(StepTarget(k.op, e.cursor, k.arg), k.seen))

(* Mutant: an operation that moves the cursor loses the anchor.            *)
AnchorLost(e) == NoAge

(* Every operation that leaves the mode playing has set the anchor to now, *)
(* every other one has cleared it.                                         *)
Anchor(e) == IF e.mode = "playing" THEN 0 ELSE NoAge

Finish(c) ==
    LET k == call[c] IN
    /\ k # NoCall
    /\ pb' = After(k)
    /\ age' = Anchor(pb')
    /\ speed' = IF k.op \in {"play", "speed"} /\ k.arg # 0 THEN k.arg ELSE speed
    /\ call' = [call EXCEPT ![c] = NoCall]
    /\ position' = IF pb.mode = "playing" /\ pb'.mode = "playing"
                   THEN IF position < Earliest(k.seen) THEN Earliest(k.seen) ELSE position
                   ELSE pb'.cursor
    /\ UNCHANGED <<store, maint>>

(* A tick of the wall clock.                                               *)
Tick ==
    /\ age # NoAge /\ age < MaxAge
    /\ age' = age + 1
    /\ position' = position + speed
    /\ UNCHANGED <<store, pb, speed, call, maint>>

Next ==
    \/ \E s \in Sample : AppendState(s)
    \/ \E e \in Event : AppendEvent(e)
    \/ ClearStore
    \/ \E r \in Recordings : LoadStore(r)
    \/ ResetEmpty
    \/ ResetAfterLoad
    \/ \E c \in Callers, r \in Request : Begin(c, r)
    \/ \E c \in Callers : Finish(c)
    \/ Tick

Spec == Init /\ [][Next]_vars

(***************************************************************************)
(* The clock ticks, and the poller keeps taking snapshots as the WebSocket *)
(* loop and the cursor publisher do at their fixed rates.  Nothing is      *)
(* asked of the other callers or of maintenance.                           *)
(***************************************************************************)
Poll == Begin(Poller, [op |-> "snapshot", arg |-> 0])

Fairness == WF_vars(Tick) /\ WF_vars(Poll) /\ WF_vars(Finish(Poller))

FairSpec == Spec /\ Fairness

-------------------------------------------------------------------------------
Returns(c) == call[c] # NoCall /\ call'[c] = NoCall

(***************************************************************************)
(* Playing advances the cursor by exactly elapsed time times speed, however *)
(* many snapshots, plays and speed changes fall in between ("Set the speed *)
(* while preserving the effective cursor"): no tick is lost or counted     *)
(* twice.                                                                  *)
(***************************************************************************)
OnTime == pb.mode = "playing" => pb.cursor + age * speed = position

(***************************************************************************)
(* The cursor never moves backwards under an unchanged revision, which     *)
(* subscribers take for an unbroken timeline, except through a caller      *)
(* whose bounds went stale before it got the lock, or to take back a       *)
(* cursor that such a caller or a replaced store left beyond the data.     *)
(***************************************************************************)
Stale(c) == Latest(call[c].seen) # Latest(store)

BackwardIsAnnounced ==
    [][/\ pb'.cursor # NoTime /\ pb'.cursor < pb.cursor
       /\ pb'.revision = pb.revision
       => \/ pb.cursor > Latest(store)
          \/ \E c \in Callers : Stale(c) /\ Returns(c)]_vars

(***************************************************************************)
(* A timeline that plays over data that stops growing stops at its end.    *)
(***************************************************************************)
PlaybackEnds == pb.mode = "playing" ~> pb.mode # "playing"
===============================================================================
