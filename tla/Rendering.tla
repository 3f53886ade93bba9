------------------------------ MODULE Rendering -------------------------------
(***************************************************************************)
(* What the MSFS bridge draws of one aircraft (process in                  *)
(* bindings/msfs/src/aircraft.rs, GearEventTracker in lib.rs,              *)
(* LiveFrameBuffer in smoothing.rs): landing gear commands by the events   *)
(* the cursor crosses, and a pose, smoothed in live mode and taken at the  *)
(* cursor in replay.  Uploads, seeks, loads and clears happen between the  *)
(* passes of the bridge, in any number.                                    *)
(*                                                                         *)
(* Source time counts in units of the bridge's pass.  A sample is known by *)
(* its timestamp and its number of arrival, and carries the two parts that *)
(* frame_from_state insists on, `derived` and `attitude`: each is good,    *)
(* bad (not a number, or no rotation) or absent.                           *)
(***************************************************************************)
EXTENDS Integers, Sequences, SequencesExt

CONSTANTS Contents,     \* what producers send: pairs of derived and attitude
          MaxTime,      \* timestamps are 1 .. MaxTime
          Smooth,       \* whether the smoothing mode is not Latest
          Delay,        \* interpolation_delay
          Reach,        \* max_extrapolation
          MaxSamples,   \* max_samples
          MaxBufferAge, \* max_buffer_age
          MaxArrivals,  \* bound on samples and gear events
          MaxRevision   \* bound on seeks, clears and loads

ASSUME RenderingAssumption ==
    /\ {MaxTime, Delay, Reach, MaxBufferAge, MaxArrivals, MaxRevision} \subseteq Nat
    /\ \A c \in Contents : {c.derived, c.attitude} \subseteq {"good", "bad", "absent"}
    /\ Smooth \in BOOLEAN /\ MaxSamples \in Nat \ {0}

Time == 1 .. MaxTime

VARIABLES
    states,     \* samples in the store, in its order
    gears,      \* gear events in the store, in its order
    arrivals,   \* samples and gear events stored so far
    mode, cursor, revision,     \* the playback snapshot; cursor of replay only
    lastMode,   \* last_playback_mode
    lastKey,    \* last_sample_key and last_state
    buffer,     \* LiveFrameBuffer.samples
    age,        \* time since the newest of them came
    tracker,    \* GearEventTracker
    handle,     \* the simulator's gear handle
    pose,       \* what the simulator's object was last set to
    late,       \* whether a gear event came behind the cursor of a replay
    cleared     \* whether the store was replaced since the buffer was started

storeVars == <<states, gears, arrivals>>
playVars == <<mode, cursor, revision>>
runtimeVars == <<lastMode, lastKey, buffer, age, tracker, handle, pose>>
vars == <<storeVars, playVars, runtimeVars, late, cleared>>

NoKey == [ts |-> 0, id |-> 0, revision |-> 0]
Idle == [cursor |-> 0, revision |-> 0, mode |-> "none", last |-> "none"]
Good == [derived |-> "good", attitude |-> "good"]
NoPose == [ts |-> 0, from |-> <<>>, source |-> "none", has |-> Good]

Init ==
    /\ states = <<>> /\ gears = <<>> /\ arrivals = 0
    /\ mode = "live" /\ cursor = 0 /\ revision = 0
    /\ lastMode = "none" /\ lastKey = NoKey /\ buffer = <<>> /\ age = 0
    /\ tracker = Idle /\ handle = "none" /\ pose = NoPose
    /\ late = FALSE /\ cleared = FALSE

-------------------------------------------------------------------------------
(* The store and playback, as they change between two passes.              *)

(* Sorted by time, behind those of the same time.                          *)
Insert(seq, e) ==
    LET before == SelectSeq(seq, LAMBDA x : x.ts <= e.ts)
    IN  before \o <<e>> \o SelectSeq(seq, LAMBDA x : x.ts > e.ts)

AppendState(t, content) ==
    /\ arrivals < MaxArrivals
    /\ arrivals' = arrivals + 1
    /\ states' = Insert(states, [ts |-> t, id |-> arrivals + 1, has |-> content])
    /\ UNCHANGED <<gears, playVars, runtimeVars, late, cleared>>

(* The cursor of a snapshot: of live mode, the end of the timeline.        *)
Newest == LET Late(seq) == IF seq = <<>> THEN 0 ELSE Last(seq).ts
          IN  IF Late(states) > Late(gears) THEN Late(states) ELSE Late(gears)

Oldest == IF gears # <<>> /\ Head(gears).ts < Head(states).ts THEN Head(gears).ts
          ELSE Head(states).ts

Cursor == IF mode = "live" THEN Newest
          ELSE IF cursor < Oldest THEN Oldest
          ELSE IF cursor > Newest THEN Newest ELSE cursor

AppendGear(t, c) ==
    /\ arrivals < MaxArrivals
    /\ arrivals' = arrivals + 1
    /\ gears' = Insert(gears, [ts |-> t, command |-> c])
    /\ late' = (late \/ (mode # "live" /\ tracker.revision = revision /\ t <= tracker.cursor))
    /\ UNCHANGED <<states, playVars, runtimeVars, cleared>>

(* live, pause, seek, play, a cursor that plays on, and one that stops     *)
(* playing at the end.                                                     *)
SetPlayback(m, c) ==
    /\ states # <<>> /\ Oldest <= c /\ c <= Newest
    /\ m = "playing" => c < Newest
    /\ \/ revision < MaxRevision /\ revision' = revision + 1 /\ <<mode, cursor>> # <<m, c>>
       \/ revision' = revision /\ m = mode /\ m = "playing" /\ c = cursor + 1
    /\ mode' = m /\ cursor' = IF m = "live" THEN 0 ELSE c
    /\ UNCHANGED <<storeVars, runtimeVars, late, cleared>>

(* The store is emptied and playback paused without a cursor; the next     *)
(* snapshot finds one if there are samples again.  A load is this and the  *)
(* samples of the recording.                                               *)
Clear ==
    /\ revision < MaxRevision /\ states # <<>>
    /\ states' = <<>> /\ gears' = <<>>
    /\ mode' = "paused" /\ cursor' = 0 /\ revision' = revision + 1
    /\ cleared' = TRUE
    /\ UNCHANGED <<arrivals, runtimeVars, late>>

-------------------------------------------------------------------------------
(* Landing gear.                                                           *)

(* latest_gear_command.                                                    *)
LatestGear(c) ==
    LET past == SelectSeq(gears, LAMBDA g : g.ts <= c)
    IN  IF past = <<>> THEN "none" ELSE Last(past).command

(* gear_commands_between.                                                  *)
GearBetween(from, to) ==
    LET crossed == SelectSeq(gears, LAMBDA g : g.ts > from /\ g.ts <= to)
    IN  [i \in DOMAIN crossed |-> crossed[i].command]

(* Drop commands that repeat the one before.                               *)
Edges(last, commands) ==
    FoldLeft(LAMBDA done, c : IF c = Last(done) THEN done ELSE Append(done, c),
             <<last>>, commands)

(* Mutant: a live pass only looks at what the cursor crossed.              *)
CommandsCrossed(tr, c) ==
    LET jump == tr.cursor = 0 \/ tr.revision # revision \/ tr.mode # mode \/ c < tr.cursor
    IN  IF jump THEN <<LatestGear(c)>> ELSE Edges(tr.last, GearBetween(tr.cursor, c))

(* commands_to_apply: the commands sent, headed by the one in force before *)
(* them, "none" when there is none.  A jump sends the command in force at  *)
(* the cursor; otherwise the ones crossed, and in live mode the one in     *)
(* force if that is another.                                               *)
Commands(tr, c) ==
    LET jump == tr.cursor = 0 \/ tr.revision # revision \/ tr.mode # mode \/ c < tr.cursor
        crossed == Edges(tr.last, GearBetween(tr.cursor, c))
    IN  IF jump THEN <<LatestGear(c)>>
        ELSE IF mode = "live" /\ LatestGear(c) # "none" THEN Edges(tr.last, Tail(crossed) \o <<LatestGear(c)>>)
        ELSE crossed

-------------------------------------------------------------------------------
(* The live buffer.                                                        *)

(* prune: at most MaxSamples, and no sample older than MaxBufferAge unless *)
(* it is one of the last two.                                              *)
Prune(b) ==
    LET short == IF Len(b) > MaxSamples THEN SubSeq(b, Len(b) - MaxSamples + 1, Len(b)) ELSE b
        Stays(i) == i + 1 >= Len(short) \/ short[i].ts >= Last(short).ts - MaxBufferAge
        first == CHOOSE i \in DOMAIN short : Stays(i) /\ \A j \in 1 .. i - 1 : ~Stays(j)
    IN  SubSeq(short, first, Len(short))

(* Mutant: a sample of the same time is dropped.                           *)
PushNewer(b, s) == IF b = <<>> \/ s.ts > Last(b).ts THEN Prune(Append(b, s)) ELSE b

(* push.                                                                   *)
Push(b, s) ==
    IF b = <<>> \/ s.ts > Last(b).ts THEN Prune(Append(b, s))
    ELSE IF s.ts = Last(b).ts THEN Append(Front(b), s)
    ELSE b

(* interpolate_derived: number by number, a bad one gives way to the good  *)
(* one; without a right side the left is taken as it is.                   *)
InterpolateDerived(l, r) ==
    CASE "absent" \notin {l, r} -> IF "good" \in {l, r} THEN "good" ELSE "bad"
      [] r = "absent" -> l
      [] OTHER -> r

(* interpolate_quaternion: with two sides of which one is no rotation, the *)
(* right is taken.                                                         *)
InterpolateQuaternion(l, r) == IF r = "absent" THEN l ELSE r

Frame(ts, from, source, has) == [ts |-> ts, from |-> from, source |-> source, has |-> has]
Raw(s, source) == Frame(s.ts, <<s, s>>, source, s.has)

(* interpolate_state.                                                      *)
Between(target, l, r, source) ==
    Frame(target, <<l, r>>, source,
          [derived |-> InterpolateDerived(l.has.derived, r.has.derived),
           attitude |-> InterpolateQuaternion(l.has.attitude, r.has.attitude)])

(* Mutant: extrapolation has no limit.                                     *)
SmoothedFrameFar(b, elapsed) ==
    LET target == Last(b).ts + elapsed - Delay
    IN  IF Len(b) = 1 \/ target <= Last(b).ts THEN Raw(Last(b), "held")
        ELSE Between(target, b[Len(b) - 1], Last(b), "extrapolated")

(* smoothed_frame: source time runs on from the newest sample.             *)
SmoothedFrame(b, elapsed) ==
    LET latest == Last(b)
        target == latest.ts + elapsed - Delay
        right == CHOOSE i \in 2 .. Len(b) :
                    target <= b[i].ts /\ \A j \in 2 .. i - 1 : target > b[j].ts
    IN  IF Len(b) = 1 \/ target > latest.ts + Reach THEN Raw(latest, "held")
        ELSE IF target <= b[1].ts THEN Raw(b[1], "held")
        ELSE IF target > latest.ts THEN Between(target, b[Len(b) - 1], latest, "extrapolated")
        ELSE IF target = b[right].ts THEN Raw(b[right], "interpolated")
        ELSE Between(target, b[right - 1], b[right], "interpolated")

(* render.                                                                 *)
Render(b, elapsed) == IF Smooth THEN SmoothedFrame(b, elapsed) ELSE Raw(Last(b), "latest")

-------------------------------------------------------------------------------
(* The sample resolve_sample gives at a pass, by its place in states.      *)
Resolved == IF mode = "live" THEN Len(states)
            ELSE IF states = <<>> THEN 0
            ELSE Len(SelectSeq(states, LAMBDA s : s.ts <= Cursor))

(* A pass starts afresh when the mode has changed, or when the aircraft    *)
(* was found despawned (reset_timeline_state).                             *)
StaleMode == lastMode # mode

(* Whether frame_from_state takes a frame.  Beyond the samples a latitude  *)
(* or longitude may leave its range.                                       *)
Usable(frame) ==
    IF frame.has # Good THEN {FALSE}
    ELSE IF frame.source = "extrapolated" THEN BOOLEAN ELSE {TRUE}

(* One pass of process, one unit of time after the last.                   *)
Process ==
    LET tr == IF StaleMode THEN Idle ELSE tracker
        old == IF StaleMode THEN <<>> ELSE buffer
        key == IF StaleMode THEN NoKey ELSE lastKey
        sent == Commands(tr, Cursor)
        sample == states[Resolved]
        newKey == [ts |-> sample.ts, id |-> sample.id, revision |-> revision]
        changed == key # newKey
        pushed == IF changed THEN Push(old, sample) ELSE old
        since == IF changed /\ Last(pushed) = sample THEN 0 ELSE age + 1
        frame == IF mode = "live" THEN Render(pushed, since) ELSE Raw(sample, "replay")
    IN  /\ states # <<>>
        /\ lastMode' = mode
        /\ tracker' = [cursor |-> Cursor, revision |-> revision, mode |-> mode, last |-> Last(sent)]
        /\ handle' = IF Last(sent) = "none" THEN handle ELSE Last(sent)
        /\ IF Resolved = 0 THEN lastKey' = key /\ buffer' = old /\ UNCHANGED <<age, pose>>
           ELSE /\ lastKey' = newKey
                /\ buffer' = IF mode = "live" THEN pushed ELSE old
                /\ age' = IF mode = "live" /\ since <= Delay + Reach + 1 THEN since ELSE age
                /\ \E use \in Usable(frame) :
                     pose' = IF use /\ (changed \/ (mode = "live" /\ Smooth)) THEN frame ELSE pose
        /\ late' = (late /\ tr.revision = revision /\ tr.mode = mode)
        /\ cleared' = (cleared /\ ~StaleMode)
        /\ cursor' = IF mode = "live" THEN 0 ELSE Cursor
        /\ UNCHANGED <<storeVars, mode, revision>>

(* A pass that finds no aircraft at the cursor.                            *)
Lose ==
    /\ Resolved = 0
    /\ lastKey' = NoKey /\ buffer' = <<>> /\ age' = 0 /\ tracker' = Idle
    /\ cleared' = FALSE /\ late' = FALSE
    /\ UNCHANGED <<storeVars, playVars, lastMode, handle, pose>>

Next ==
    \/ \E t \in Time : (\E content \in Contents : AppendState(t, content))
                       \/ (\E c \in {"up", "down"} : AppendGear(t, c))
    \/ \E t \in Time, m \in {"live", "paused", "playing"} : SetPlayback(m, t)
    \/ Clear
    \/ Process
    \/ Lose

Spec == Init /\ [][Next]_vars

-------------------------------------------------------------------------------
(***************************************************************************)
(* After every pass the gear handle stands as the last gear event at or    *)
(* before the cursor says, however events, seeks and loads were interposed *)
(* since the pass before.  In replay, events that were stored behind the   *)
(* cursor are not looked for.                                              *)
(***************************************************************************)
GearInStep ==
    [][Process /\ (mode = "live" \/ ~late \/ tracker.revision # revision) /\ LatestGear(Cursor) # "none"
         => handle' = LatestGear(Cursor)]_vars

(***************************************************************************)
(* After every pass in replay the object stands as the sample at the       *)
(* cursor says, if that is usable.  In live mode the newest sample of the  *)
(* store has reached the buffer, and is what Latest draws; not so when the *)
(* store was cleared and filled again between two passes.                  *)
(***************************************************************************)
InStep ==
    [][Process /\ Resolved # 0 =>
         LET sample == states[Resolved]
         IN  /\ sample.has = Good /\ (mode # "live" \/ ~(Smooth \/ cleared)) => pose'.from = <<sample, sample>>
             /\ mode = "live" /\ ~cleared => Last(buffer') = sample]_vars

(***************************************************************************)
(* A frame that is drawn in live mode is covered by the buffered samples:  *)
(* not older than the oldest, not further ahead of the newest than         *)
(* max_extrapolation, and one between two samples lies between them.       *)
(***************************************************************************)
FrameCovered ==
    [][Process /\ mode = "live" /\ pose' # pose =>
         /\ Head(buffer').ts <= pose'.ts /\ pose'.ts <= Last(buffer').ts + Reach
         /\ pose'.source = "interpolated" =>
              pose'.from[1].ts <= pose'.ts /\ pose'.ts <= pose'.from[2].ts
         /\ Len(buffer') >= (IF Len(buffer) >= 2 /\ lastMode = mode THEN 2 ELSE 1)]_vars
===============================================================================
