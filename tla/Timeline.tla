------------------------------- MODULE Timeline -------------------------------
(***************************************************************************)
(* What the time-series store and the playback controller answer to a      *)
(* reader: time bounds, lifecycle at an instant, the events a cursor       *)
(* subscriber is given (core/src/store.rs, core/src/playback.rs,           *)
(* core/src/cursor.rs).  Pure operators; the state lives in the modules    *)
(* that use them.                                                          *)
(*                                                                         *)
(* A timestamp is a positive integer and NoTime stands for `None`.  A      *)
(* store is a record [states, events]: the samples it holds as             *)
(* <<aircraft, timestamp>> pairs and the events.  The payload of a sample  *)
(* and the text of an event are left out; `id` is the order in which       *)
(* events of one aircraft were inserted.                                   *)
(***************************************************************************)
EXTENDS Integers, FiniteSets

CONSTANTS Sample,     \* the samples a store may hold
          Event       \* the events a store may hold

NoTime == 0

(***************************************************************************)
(* Samples and events are finite in number and carry real timestamps.      *)
(***************************************************************************)
ASSUME SampleAssumption ==
    /\ Sample \subseteq Nat \X (Nat \ {0})
    /\ IsFiniteSet(Sample)

ASSUME EventAssumption ==
    /\ Event \subseteq [ts : Nat \ {0}, aircraft : Nat, id : Nat,
                        kind : {"spawn", "despawn", "custom"}]
    /\ IsFiniteSet(Event)

Store == [states : SUBSET Sample, events : SUBSET Event]

Mode == {"live", "paused", "playing"}

(***************************************************************************)
(* active_time_bounds: the smallest and the largest timestamp of any       *)
(* sample or event, or none when the store is empty.                       *)
(***************************************************************************)
Instants(store) == {s[2] : s \in store.states} \cup {e.ts : e \in store.events}

Earliest(store) == IF Instants(store) = {} THEN NoTime
                   ELSE CHOOSE t \in Instants(store) :
                            \A u \in Instants(store) : t <= u

Latest(store) == IF Instants(store) = {} THEN NoTime
                 ELSE CHOOSE t \in Instants(store) :
                          \A u \in Instants(store) : u <= t

Clamp(t, store) == IF t < Earliest(store) THEN Earliest(store)
                   ELSE IF t > Latest(store) THEN Latest(store) ELSE t

(***************************************************************************)
(* The order in which events are stored and replayed: by timestamp, then   *)
(* by aircraft, then in insertion order.                                   *)
(***************************************************************************)
Precedes(e, f) ==
    \/ e.ts < f.ts
    \/ e.ts = f.ts /\ e.aircraft < f.aircraft
    \/ e.ts = f.ts /\ e.aircraft = f.aircraft /\ e.id < f.id

EventsOf(store, a) == {e \in store.events : e.aircraft = a}

UpTo(events, t) == {e \in events : e.ts <= t}

(* is_spawned_at: the last lifecycle event decides.                        *)
Spawned(events) ==
    \E e \in events :
        /\ e.kind = "spawn"
        /\ \A f \in events : f.kind = "despawn" => Precedes(f, e)

(* The suffix of one aircraft's events that starts at its last spawn, or   *)
(* all of them when there is none.                                         *)
FromLastSpawn(events) ==
    {e \in events : \A f \in events : f.kind = "spawn" => ~Precedes(e, f)}

(***************************************************************************)
(* resolve_aircraft_with: in live mode the newest sample and the lifecycle *)
(* after every stored event, in replay both at the cursor.  Aircraft       *)
(* without a sample resolve to None.                                       *)
(***************************************************************************)
Sampled(store, snap, a) ==
    \E s \in store.states : s[1] = a /\ (snap.mode = "live" \/ s[2] <= snap.cursor)

ResolvesSpawned(store, snap, a) ==
    /\ Sampled(store, snap, a)
    /\ Spawned(IF snap.mode = "live" THEN EventsOf(store, a)
               ELSE UpTo(EventsOf(store, a), snap.cursor))

(* baseline_events: with no cursor nothing, otherwise every spawned        *)
(* aircraft's events up to the cursor, from its last spawn on.             *)
BaselineEvents(store, snap) ==
    {e \in UpTo(store.events, snap.cursor) :
        /\ ResolvesSpawned(store, snap, e.aircraft)
        /\ e \in FromLastSpawn(UpTo(EventsOf(store, e.aircraft), snap.cursor))}

(* Mutant: the upper end of the range is left out.                         *)
DeltaEventsBefore(store, previous, current) ==
    IF previous = NoTime \/ current = NoTime THEN {}
    ELSE {e \in store.events : previous < e.ts /\ e.ts < current}

(* delta_events: strictly after the previous cursor, up to the current     *)
(* one; nothing when either is None.                                       *)
DeltaEvents(store, previous, current) ==
    IF previous = NoTime \/ current = NoTime THEN {}
    ELSE {e \in store.events : previous < e.ts /\ e.ts <= current}

(***************************************************************************)
(* update_effective_cursor: what a snapshot does to the playback state.    *)
(* `elapsed` is the playing time since the previous update.                *)
(***************************************************************************)
UpdateEffectiveCursor(pb, store, elapsed) ==
    IF Instants(store) = {}
    THEN [mode |-> IF pb.mode = "live" THEN "live" ELSE "paused",
          cursor |-> NoTime, revision |-> pb.revision]
    ELSE LET base == IF pb.cursor = NoTime THEN Earliest(store) ELSE pb.cursor
             next == base + elapsed
         IN CASE pb.mode = "live" -> [pb EXCEPT !.cursor = Latest(store)]
              [] pb.mode = "paused" -> [pb EXCEPT !.cursor = Clamp(base, store)]
              [] pb.mode = "playing" /\ next >= Latest(store) ->
                     [mode |-> "paused", cursor |-> Latest(store),
                      revision |-> pb.revision + 1]
              [] OTHER -> [pb EXCEPT !.cursor = Clamp(next, store)]
===============================================================================
