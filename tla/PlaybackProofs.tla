---------------------------- MODULE PlaybackProofs ----------------------------
(***************************************************************************)
(* Proofs about module Playback: playing keeps exact time, and the cursor  *)
(* goes back only where the revision says so or the bounds were stale.     *)
(***************************************************************************)
EXTENDS Playback, TLAPS, FiniteSetTheorems, WellFoundedInduction

-----------------------------------------------------------------------------
(* The operators of Timeline, for every store.                             *)

(***************************************************************************)
(* A nonempty set of naturals has a least element, from the                *)
(* well-foundedness of < on the naturals: active_time_bounds has a lower   *)
(* bound whenever anything is stored.                                      *)
(***************************************************************************)
LEMMA LeastNatural ==
    ASSUME NEW S \in SUBSET Nat, S # {}
    PROVE  \E x \in S : \A y \in S : x <= y
<1> DEFINE R == OpToRel(<, Nat)
<1>1. \A x, y \in Nat : y < x => <<y, x>> \in R
  BY DEF OpToRel
<1>2. IsWellFoundedOn(R, Nat)
  BY NatLessThanWellFounded
<1> HIDE DEF R
<1>3. PICK x \in S : \A y \in S : <<y, x>> \notin R
  BY <1>2, WFMin
<1>4. ASSUME NEW y \in S PROVE x <= y
  <2>1. <<y, x>> \notin R
    BY <1>3
  <2>2. ~(y < x)
    BY <1>1, <2>1
  <2> QED
    BY <2>2
<1> QED
  BY <1>4

(***************************************************************************)
(* A nonempty finite set of naturals has a greatest element: a smallest    *)
(* counterexample under strict inclusion would have one after all.         *)
(* active_time_bounds has an upper bound whenever anything is stored.      *)
(***************************************************************************)
LEMMA GreatestNatural ==
    ASSUME NEW S \in SUBSET Nat, IsFiniteSet(S), S # {}
    PROVE  \E x \in S : \A y \in S : y <= x
<1> DEFINE Greatest(T) == \E x \in T : \A y \in T : y <= x
           Bad == {T \in FiniteSubsetsOf(S) : T # {} /\ ~Greatest(T)}
<1>1. SUFFICES ASSUME Bad # {} PROVE FALSE
  BY DEF FiniteSubsetsOf
<1>2. IsWellFoundedOn(StrictSubsetOrdering(S), FiniteSubsetsOf(S))
  BY FS_StrictSubsetOrderingWellFounded
<1>3. PICK T \in Bad : \A U \in Bad : <<U, T>> \notin StrictSubsetOrdering(S)
  BY <1>1, <1>2, WFMin
<1>4. PICK x \in T : TRUE
  BY <1>3
<1> DEFINE U == T \ {x}
<1>5. U \in FiniteSubsetsOf(S) /\ T \in FiniteSubsetsOf(S)
  BY <1>3, FS_RemoveElement DEF FiniteSubsetsOf
<1>6. <<U, T>> \in StrictSubsetOrdering(S)
  BY <1>4, <1>5 DEF StrictSubsetOrdering, FiniteSubsetsOf
<1>7. U \notin Bad
  BY <1>3, <1>6
<1>8. CASE U = {}
  <2>1. T = {x} /\ x \in Nat
    BY <1>4, <1>5, <1>8 DEF FiniteSubsetsOf
  <2>2. Greatest(T)
    BY <2>1
  <2> QED
    BY <2>2, <1>3
<1>9. CASE U # {}
  <2>1. PICK m \in U : \A y \in U : y <= m
    BY <1>5, <1>7, <1>9
  <2>2. m \in Nat /\ x \in Nat /\ T \subseteq Nat /\ m \in T
    BY <1>4, <1>5, <2>1 DEF FiniteSubsetsOf
  <2>3. \A y \in T : y = x \/ y <= m
    BY <2>1
  <2>4. CASE m <= x
    <3>1. \A y \in T : y <= x
      BY <2>2, <2>3, <2>4
    <3> QED
      BY <3>1, <1>3, <1>4
  <2>5. CASE ~(m <= x)
    <3>1. \A y \in T : y <= m
      BY <2>2, <2>3, <2>5
    <3> QED
      BY <3>1, <2>2, <1>3
  <2> QED
    BY <2>4, <2>5
<1> QED
  BY <1>8, <1>9

(***************************************************************************)
(* The instants of a store are finitely many positive integers.            *)
(***************************************************************************)
LEMMA InstantsFinite ==
    ASSUME NEW st \in Store
    PROVE  /\ Instants(st) \in SUBSET (Nat \ {0})
           /\ IsFiniteSet(Instants(st))
<1> DEFINE A == {s[2] : s \in st.states}
           B == {e.ts : e \in st.events}
           f == [s \in st.states |-> s[2]]
           g == [e \in st.events |-> e.ts]
<1>1. st.states \in SUBSET Sample /\ st.events \in SUBSET Event
  BY DEF Store
<1>2. IsFiniteSet(st.states) /\ IsFiniteSet(st.events)
  BY <1>1, SampleAssumption, EventAssumption, FS_Subset
<1>3. f \in Surjection(st.states, A) /\ g \in Surjection(st.events, B)
  BY DEF Surjection
<1>4. IsFiniteSet(A) /\ IsFiniteSet(B)
  BY <1>2, <1>3, FS_Surjection
<1>5. IsFiniteSet(A \cup B)
  BY <1>4, FS_Union
<1>6. A \in SUBSET (Nat \ {0})
  BY <1>1, SampleAssumption
<1>7. B \in SUBSET (Nat \ {0})
  BY <1>1, EventAssumption
<1> QED
  BY <1>5, <1>6, <1>7 DEF Instants

(***************************************************************************)
(* active_time_bounds: both bounds are stored instants and enclose all of  *)
(* them, and an empty store has neither.                                   *)
(***************************************************************************)
LEMMA Bounds ==
    ASSUME NEW st \in Store
    PROVE  /\ Earliest(st) \in Nat /\ Latest(st) \in Nat
           /\ Instants(st) # {} =>
                /\ Earliest(st) \in Instants(st) /\ Latest(st) \in Instants(st)
                /\ \A t \in Instants(st) : Earliest(st) <= t /\ t <= Latest(st)
<1>1. CASE Instants(st) = {}
  BY <1>1 DEF Earliest, Latest, NoTime
<1>2. CASE Instants(st) # {}
  <2>1. Instants(st) \in SUBSET Nat /\ IsFiniteSet(Instants(st))
    BY InstantsFinite
  <2>2. \E x \in Instants(st) : \A y \in Instants(st) : x <= y
    BY <1>2, <2>1, LeastNatural
  <2>3. \E x \in Instants(st) : \A y \in Instants(st) : y <= x
    BY <1>2, <2>1, GreatestNatural
  <2>4. Earliest(st) \in Instants(st) /\ \A t \in Instants(st) : Earliest(st) <= t
    BY <1>2, <2>2 DEF Earliest
  <2>5. Latest(st) \in Instants(st) /\ \A t \in Instants(st) : t <= Latest(st)
    BY <1>2, <2>3 DEF Latest
  <2> QED
    BY <2>1, <2>4, <2>5
<1> QED
  BY <1>1, <1>2

(***************************************************************************)
(* A cursor is always clamped into the bounds (seek, play, snapshot).      *)
(***************************************************************************)
LEMMA ClampInBounds ==
    ASSUME NEW st \in Store, NEW t \in Nat
    PROVE  /\ Clamp(t, st) \in Nat
           /\ Instants(st) # {} => Earliest(st) <= Clamp(t, st) /\ Clamp(t, st) <= Latest(st)
<1>1. Earliest(st) \in Nat /\ Latest(st) \in Nat
  BY Bounds
<1>2. Instants(st) # {} => Earliest(st) <= Latest(st)
  BY Bounds
<1> QED
  BY <1>1, <1>2 DEF Clamp

(***************************************************************************)
(* update_effective_cursor returns a playback state.                       *)
(***************************************************************************)
LEMMA EffectiveCursorType ==
    ASSUME NEW st \in Store, NEW elapsed \in Nat,
           NEW p \in [mode : Mode, cursor : Nat, revision : Nat]
    PROVE  UpdateEffectiveCursor(p, st, elapsed)
               \in [mode : Mode, cursor : Nat, revision : Nat]
<1> DEFINE base == IF p.cursor = NoTime THEN Earliest(st) ELSE p.cursor
<1>1. Earliest(st) \in Nat /\ Latest(st) \in Nat /\ base \in Nat /\ base + elapsed \in Nat
  BY Bounds
<1>2. Clamp(base, st) \in Nat /\ Clamp(base + elapsed, st) \in Nat
  BY <1>1, ClampInBounds
<1> QED
  BY <1>1, <1>2 DEF UpdateEffectiveCursor, Mode, NoTime
-----------------------------------------------------------------------------
(* The operations.                                                         *)

(***************************************************************************)
(* The inductive invariant.  Beside the types: an anchor is set exactly    *)
(* while playing, and then there is a cursor to advance; a call under way  *)
(* carries arguments that passed its checks.                               *)
(***************************************************************************)
Inner == [mode : Mode, cursor : Nat, revision : Nat]

Asking == [op : {"none", "snapshot", "live", "pause", "seek", "play", "speed"} \cup Steps,
           arg : Nat, seen : Store]

PlaybackTypeOK ==
    /\ store \in Store
    /\ pb \in Inner
    /\ speed \in Speeds
    /\ age \in Nat \cup {NoAge}
    /\ call \in [Callers -> Asking]
    /\ maint \in {"idle", "cleared", "loaded"}
    /\ position \in Nat

Anchored ==
    /\ pb.mode = "playing" <=> age # NoAge
    /\ pb.mode = "playing" => pb.cursor # NoTime

Checked ==
    \A c \in Callers :
        /\ call[c].op \in NeedsData => Instants(call[c].seen) # {}
        /\ call[c].op = "speed" => call[c].arg \in Speeds
        /\ call[c].op = "play" => call[c].arg \in {0} \cup Speeds

PlaybackInv == PlaybackTypeOK /\ Anchored /\ Checked /\ OnTime

(***************************************************************************)
(* adjacent_global_timestamp ends on a timestamp: its loop has a value     *)
(* after every turn.  The first turn without one would follow a turn with  *)
(* one, and the nearest timestamp beyond that is defined.                  *)
(***************************************************************************)
LEMMA AdjacentIsTime ==
    ASSUME NEW times \in SUBSET Nat, IsFiniteSet(times), NEW cursor \in Nat,
           NEW forward \in BOOLEAN, NEW count \in Nat
    PROVE  Adjacent(times, cursor, forward, count) \in Nat
<1> DEFINE Beyond(p) == {t \in times : IF forward THEN t > p ELSE t < p}
           Near(p, t) == \A u \in Beyond(p) : IF forward THEN t <= u ELSE u <= t
           Nearest(p) == IF Beyond(p) = {} THEN p ELSE CHOOSE t \in Beyond(p) : Near(p, t)
           Turns(f, m) == f = [n \in 0 .. m |-> IF n = 0 THEN cursor ELSE Nearest(f[n - 1])]
           Bad == {m \in Nat : ~\E f \in [0 .. m -> Nat] : Turns(f, m)}
<1>1. \A p \in Nat : Nearest(p) \in Nat
  <2> SUFFICES ASSUME NEW p \in Nat, Beyond(p) # {} PROVE Nearest(p) \in Nat
    OBVIOUS
  <2>1. Beyond(p) \in SUBSET Nat /\ IsFiniteSet(Beyond(p))
    BY FS_Subset
  <2>2. \E t \in Beyond(p) : Near(p, t)
    <3>1. \E t \in Beyond(p) : \A u \in Beyond(p) : t <= u
      BY <2>1, LeastNatural
    <3>2. \E t \in Beyond(p) : \A u \in Beyond(p) : u <= t
      BY <2>1, GreatestNatural
    <3> QED
      BY <3>1, <3>2
  <2> HIDE DEF Beyond, Near
  <2>3. (CHOOSE t \in Beyond(p) : Near(p, t)) \in Beyond(p)
    BY <2>2, Zenon
  <2>4. Nearest(p) \in Beyond(p)
    BY <2>3
  <2> QED
    BY <2>1, <2>4
<1> HIDE DEF Nearest
<1>2. Bad = {}
  <2> SUFFICES ASSUME Bad # {} PROVE FALSE
    OBVIOUS
  <2>1. PICK m \in Bad : \A k \in Bad : m <= k
    BY LeastNatural
  <2>2. m # 0
    <3> SUFFICES ASSUME m = 0 PROVE FALSE
      OBVIOUS
    <3>1. Turns([n \in 0 .. 0 |-> cursor], 0)
      OBVIOUS
    <3>2. [n \in 0 .. 0 |-> cursor] \in [0 .. 0 -> Nat]
      OBVIOUS
    <3> QED
      BY <3>1, <3>2
  <2>3. m - 1 \in Nat /\ m - 1 \notin Bad
    <3>1. m \in Nat
      BY <2>1
    <3> HIDE DEF Bad
    <3> QED
      BY <2>1, <2>2, <3>1
  <2>4. PICK f \in [0 .. m - 1 -> Nat] : Turns(f, m - 1)
    BY <2>3
  <2> DEFINE g == [n \in 0 .. m |-> IF n = m THEN Nearest(f[m - 1]) ELSE f[n]]
  <2>5. g \in [0 .. m -> Nat]
    <3>1. Nearest(f[m - 1]) \in Nat
      <4>1. f[m - 1] \in Nat
        BY <2>3, 0 <= m - 1, m - 1 \in 0 .. m - 1
      <4> QED
        BY <1>1, <4>1
    <3>2. \A n \in 0 .. m : n # m => n \in 0 .. m - 1
      BY <2>3
    <3> QED
      BY <3>1, <3>2, <2>4
  <2>6. \A n \in 0 .. m : g[n] = IF n = 0 THEN cursor ELSE Nearest(g[n - 1])
    <3> SUFFICES ASSUME NEW n \in 0 .. m
                 PROVE  g[n] = IF n = 0 THEN cursor ELSE Nearest(g[n - 1])
      OBVIOUS
    <3>1. CASE n = m
      <4>1. g[n - 1] = f[m - 1] /\ g[n] = Nearest(f[m - 1]) /\ n # 0
        BY <2>2, <2>3, <3>1
      <4> QED
        BY <4>1
    <3>2. CASE n # m
      <4>1. n \in 0 .. m - 1 /\ g[n] = f[n]
        BY <2>3, <3>2
      <4>2. f[n] = IF n = 0 THEN cursor ELSE Nearest(f[n - 1])
        BY <2>4, <4>1
      <4>3. n # 0 => g[n - 1] = f[n - 1]
        BY <2>3, <4>1
      <4> QED
        BY <4>1, <4>2, <4>3
    <3> QED
      BY <3>1, <3>2
  <2>7. Turns(g, m)
    BY <2>5, <2>6
  <2> QED
    BY <2>1, <2>5, <2>7
<1> DEFINE probe == CHOOSE f : Turns(f, count)
<1>3. Turns(probe, count)
  <2> HIDE DEF Turns
  <2>1. \E f : Turns(f, count)
    BY <1>2
  <2> QED
    BY <2>1
<1>4. Adjacent(times, cursor, forward, count) = probe[count]
  BY DEF Adjacent, Nearest, Near, Beyond
<1> HIDE DEF probe
<1> DEFINE Odd == {n \in 0 .. count : probe[n] \notin Nat}
<1>5. Odd = {}
  <2> SUFFICES ASSUME Odd # {} PROVE FALSE
    OBVIOUS
  <2>0. Odd \in SUBSET Nat
    OBVIOUS
  <2>1. PICK n \in Odd : \A k \in Odd : n <= k
    <3> HIDE DEF Odd
    <3> QED
      BY <2>0, LeastNatural
  <2>2. n # 0
    BY <1>3, <2>1
  <2>3. n - 1 \in 0 .. count /\ n - 1 \notin Odd
    BY <2>1, <2>2
  <2>4. probe[n] = Nearest(probe[n - 1])
    BY <1>3, <2>1, <2>2
  <2> QED
    BY <1>1, <2>1, <2>3, <2>4
<1> QED
  BY <1>4, <1>5

(***************************************************************************)
(* A step of next_sample, previous_sample, next_event or previous_event    *)
(* leads to a timestamp.                                                   *)
(***************************************************************************)
LEMMA StepTargetIsTime ==
    ASSUME store \in Store, NEW op, NEW cursor \in Nat, NEW count \in Nat
    PROVE  StepTarget(op, cursor, count) \in Nat
<1> DEFINE A == {s[2] : s \in store.states}
           B == {e.ts : e \in store.events}
           forward == op \in {"next_sample", "next_event"}
<1>1. A \in SUBSET Nat /\ IsFiniteSet(A) /\ B \in SUBSET Nat /\ IsFiniteSet(B)
  <2>1. Instants(store) \in SUBSET Nat /\ IsFiniteSet(Instants(store))
    BY InstantsFinite
  <2>2. A \subseteq Instants(store) /\ B \subseteq Instants(store)
    BY DEF Instants
  <2> QED
    BY <2>1, <2>2, FS_Subset
<1>2. forward \in BOOLEAN
  OBVIOUS
<1> HIDE DEF A, B, forward
<1>3. Adjacent(A, cursor, forward, count) \in Nat /\ Adjacent(B, cursor, forward, count) \in Nat
  BY <1>1, <1>2, AdjacentIsTime
<1>4. StepTarget(op, cursor, count) =
        Adjacent(IF op \in {"next_sample", "previous_sample"} THEN A ELSE B, cursor, forward, count)
  BY DEF StepTarget, A, B, forward
<1>5. CASE op \in {"next_sample", "previous_sample"}
  BY <1>3, <1>4, <1>5
<1>6. CASE op \notin {"next_sample", "previous_sample"}
  BY <1>3, <1>4, <1>6
<1> QED
  BY <1>5, <1>6

(***************************************************************************)
(* What update_effective_cursor does to time: it keeps playing only where  *)
(* the elapsed time leads to a point before the end, and then stands       *)
(* there, or at the beginning when that is later; it moves back under the  *)
(* same revision only from beyond the end.                                 *)
(***************************************************************************)
LEMMA EffectiveCursorTime ==
    ASSUME NEW st \in Store, NEW elapsed \in Nat, NEW p \in Inner
    PROVE  LET e == UpdateEffectiveCursor(p, st, elapsed) IN
           /\ e \in Inner /\ e.revision >= p.revision
           /\ e.mode = "playing" =>
                /\ p.mode = "playing" /\ Instants(st) # {}
                /\ e.cursor # NoTime /\ e.revision = p.revision
                /\ p.cursor # NoTime =>
                     /\ p.cursor + elapsed < Latest(st)
                     /\ e.cursor = IF p.cursor + elapsed < Earliest(st) THEN Earliest(st)
                                   ELSE p.cursor + elapsed
           /\ p.mode = "playing" /\ e.mode # "playing" /\ Instants(st) # {}
                => e.cursor = Latest(st)
           /\ e.revision = p.revision /\ e.cursor # NoTime /\ p.cursor <= Latest(st)
                => p.cursor <= e.cursor
<1> DEFINE e == UpdateEffectiveCursor(p, st, elapsed)
           base == IF p.cursor = NoTime THEN Earliest(st) ELSE p.cursor
<1>1. e \in Inner
  BY EffectiveCursorType DEF Inner
<1>2. Earliest(st) \in Nat /\ Latest(st) \in Nat
  BY Bounds
<1>3. /\ p.mode \in Mode /\ p.cursor \in Nat /\ p.revision \in Nat /\ base \in Nat
      /\ NoTime = 0
  BY <1>2 DEF Inner, NoTime
<1>4. CASE Instants(st) = {}
  <2>1. e = [mode |-> IF p.mode = "live" THEN "live" ELSE "paused",
             cursor |-> NoTime, revision |-> p.revision]
    BY <1>4 DEF UpdateEffectiveCursor
  <2>2. e.mode # "playing" /\ e.cursor = NoTime /\ e.revision = p.revision
    BY <2>1
  <2> QED
    BY <1>1, <1>3, <1>4, <2>2
<1>5. CASE Instants(st) # {}
  <2>0. Earliest(st) # 0 /\ Earliest(st) <= Latest(st)
    <3>1. Earliest(st) \in Instants(st) /\ Latest(st) \in Instants(st) /\ Earliest(st) <= Latest(st)
      BY <1>5, Bounds
    <3>2. Instants(st) \in SUBSET (Nat \ {0})
      BY InstantsFinite
    <3> QED
      BY <3>1, <3>2
  <2>1. CASE p.mode = "live"
    <3>1. e = [p EXCEPT !.cursor = Latest(st)]
      BY <1>5, <2>1 DEF UpdateEffectiveCursor
    <3>2. e.mode = "live" /\ e.cursor = Latest(st) /\ e.revision = p.revision
      BY <2>1, <3>1 DEF Inner
    <3> QED
      BY <1>1, <1>3, <2>1, <3>2
  <2>2. CASE p.mode = "paused"
    <3>1. e = [p EXCEPT !.cursor = Clamp(base, st)]
      BY <1>5, <2>2 DEF UpdateEffectiveCursor
    <3>2. e.mode = "paused" /\ e.cursor = Clamp(base, st) /\ e.revision = p.revision
      BY <2>2, <3>1 DEF Inner
    <3>3. p.cursor <= Latest(st) => p.cursor <= Clamp(base, st)
      BY <1>2, <1>3, <2>0 DEF Clamp
    <3> QED
      BY <1>1, <1>3, <2>2, <3>2, <3>3
  <2>3. CASE p.mode = "playing" /\ base + elapsed >= Latest(st)
    <3>1. e = [mode |-> "paused", cursor |-> Latest(st), revision |-> p.revision + 1]
      BY <1>5, <2>3 DEF UpdateEffectiveCursor
    <3>2. e.mode = "paused" /\ e.cursor = Latest(st) /\ e.revision = p.revision + 1
      BY <3>1
    <3> QED
      BY <1>1, <1>3, <3>2
  <2>4. CASE p.mode = "playing" /\ ~(base + elapsed >= Latest(st))
    <3>1. e = [p EXCEPT !.cursor = Clamp(base + elapsed, st)]
      BY <1>5, <2>4 DEF UpdateEffectiveCursor
    <3>2. /\ e.mode = "playing" /\ e.cursor = Clamp(base + elapsed, st)
          /\ e.revision = p.revision
      BY <2>4, <3>1 DEF Inner
    <3>3. Clamp(base + elapsed, st) = IF base + elapsed < Earliest(st) THEN Earliest(st)
                                      ELSE base + elapsed
      BY <1>2, <1>3, <2>4 DEF Clamp
    <3>4. e.cursor # 0 /\ (p.cursor <= Latest(st) => p.cursor <= e.cursor)
      BY <1>2, <1>3, <2>0, <3>2, <3>3
    <3>5. p.cursor # NoTime => base = p.cursor /\ p.cursor + elapsed < Latest(st)
      BY <1>2, <1>3, <2>4
    <3> QED
      BY <1>1, <1>3, <1>5, <2>4, <3>2, <3>3, <3>4, <3>5
  <2> QED
    BY <1>3, <2>1, <2>2, <2>3, <2>4 DEF Mode
<1> QED
  BY <1>4, <1>5

(***************************************************************************)
(* What an operation leaves behind: while it goes on playing, the cursor   *)
(* stands where the elapsed time brought it; only a snapshot keeps the     *)
(* revision.                                                               *)
(***************************************************************************)
LEMMA AfterTime ==
    ASSUME PlaybackInv, NEW c \in Callers
    PROVE  /\ After(call[c]) \in Inner
           /\ After(call[c]).mode = "playing" =>
                /\ After(call[c]).cursor # NoTime
                /\ pb.mode = "playing" =>
                     After(call[c]).cursor =
                        IF position < Earliest(call[c].seen) THEN Earliest(call[c].seen)
                        ELSE position
           /\ After(call[c]).revision = pb.revision =>
                /\ After(call[c]).cursor # NoTime /\ pb.cursor <= Latest(call[c].seen)
                   => pb.cursor <= After(call[c]).cursor
<1> DEFINE k == call[c]
           st == k.seen
           elapsed == (IF age = NoAge THEN 0 ELSE age) * speed
           e == Effective(k)
           n == After(k)
<1>0. PlaybackTypeOK /\ Anchored /\ Checked /\ OnTime
  BY DEF PlaybackInv
<1>1. k \in Asking /\ pb \in Inner /\ position \in Nat /\ store \in Store
  BY <1>0 DEF PlaybackTypeOK
<1>2. st \in Store /\ k.arg \in Nat
  BY <1>1 DEF Asking
<1>3. elapsed \in Nat
  <2>1. age \in Nat \cup {-1} /\ speed \in Nat
    BY <1>0, PlaybackAssumption DEF PlaybackTypeOK, NoAge
  <2>2. (IF age = NoAge THEN 0 ELSE age) \in Nat
    BY <2>1 DEF NoAge
  <2> QED
    BY <2>1, <2>2
<1>4. pb.mode = "playing" => pb.cursor # NoTime /\ pb.cursor + elapsed = position
  BY <1>0 DEF Anchored, OnTime
<1>5. e = UpdateEffectiveCursor(pb, st, elapsed)
  BY DEF Effective
<1>6. /\ pb.mode \in Mode /\ pb.cursor \in Nat /\ pb.revision \in Nat /\ NoTime = 0
      /\ Earliest(st) \in Nat /\ Latest(st) \in Nat
  BY <1>1, <1>2, Bounds DEF Inner, NoTime
<1> HIDE DEF k, elapsed, e
<1>7. /\ e \in Inner /\ e.revision >= pb.revision
      /\ e.mode = "playing" =>
           /\ pb.mode = "playing" /\ Instants(st) # {} /\ e.cursor # NoTime
           /\ position < Latest(st)
           /\ e.cursor = IF position < Earliest(st) THEN Earliest(st) ELSE position
      /\ pb.mode = "playing" /\ e.mode # "playing" /\ Instants(st) # {} => e.cursor = Latest(st)
      /\ e.revision = pb.revision /\ e.cursor # NoTime /\ pb.cursor <= Latest(st)
           => pb.cursor <= e.cursor
  BY <1>1, <1>2, <1>3, <1>4, <1>5, EffectiveCursorTime
<1>8. e.mode \in Mode /\ e.cursor \in Nat /\ e.revision \in Nat
  BY <1>7 DEF Inner
<1>9. CASE k.op = "snapshot"
  <2>1. n = e
    BY <1>9 DEF After, e
  <2> QED
    BY <1>7, <2>1 DEF k
<1>10. ASSUME NEW x \in Nat, NEW y \in Inner, n = Paused(y, x), y.revision >= pb.revision
       PROVE  n \in Inner /\ n.mode = "paused" /\ n.revision > pb.revision
  BY <1>6, <1>10 DEF Paused, Inner, Mode
<1>11. CASE k.op = "live"
  <2>1. n = [mode |-> "live", cursor |-> Latest(st), revision |-> pb.revision + 1]
    BY <1>11 DEF After
  <2>2. n \in Inner /\ n.mode = "live" /\ n.revision = pb.revision + 1
    BY <1>6, <2>1 DEF Inner, Mode
  <2> QED
    BY <1>6, <2>2 DEF k
<1>12. CASE k.op = "pause"
  <2>1. n = Paused(e, e.cursor)
    BY <1>12 DEF After, e
  <2>2. n \in Inner /\ n.mode = "paused" /\ n.revision > pb.revision
    BY <1>7, <1>8, <1>10, <2>1
  <2> QED
    BY <1>6, <2>2 DEF k
<1>13. CASE k.op = "seek"
  <2>1. n = Paused(pb, Clamp(k.arg, st))
    BY <1>13 DEF After
  <2>2. Clamp(k.arg, st) \in Nat
    BY <1>2, ClampInBounds
  <2>3. n \in Inner /\ n.mode = "paused" /\ n.revision > pb.revision
    BY <1>1, <1>6, <1>10, <2>1, <2>2
  <2> QED
    BY <1>6, <2>3 DEF k
<1>14. CASE k.op = "play"
  <2> DEFINE q == [mode |-> "playing", cursor |-> Clamp(e.cursor, st), revision |-> e.revision + 1]
  <2>1. n = UpdateEffectiveCursor(q, st, 0)
    BY <1>14 DEF After, Playing, e
  <2>2. Clamp(e.cursor, st) \in Nat
    BY <1>2, <1>8, ClampInBounds
  <2>3. /\ q \in Inner /\ q.cursor = Clamp(e.cursor, st)
        /\ q.revision > pb.revision
    BY <1>6, <1>7, <1>8, <2>2 DEF Inner, Mode
  <2> HIDE DEF q
  <2>q. q.cursor \in Nat /\ q.revision \in Nat
    BY <2>3 DEF Inner
  <2>4. /\ n \in Inner /\ n.revision >= q.revision
        /\ n.mode = "playing" =>
             /\ Instants(st) # {} /\ n.cursor # NoTime
             /\ q.cursor # NoTime =>
                  /\ q.cursor + 0 < Latest(st)
                  /\ n.cursor = IF q.cursor + 0 < Earliest(st) THEN Earliest(st) ELSE q.cursor + 0
    BY <1>2, <2>1, <2>3, EffectiveCursorTime
  <2>5. n.revision \in Nat /\ n.revision > pb.revision
    BY <1>6, <2>q, <2>3, <2>4 DEF Inner
  <2>6. ASSUME n.mode = "playing", pb.mode = "playing"
        PROVE  n.cursor = IF position < Earliest(st) THEN Earliest(st) ELSE position
    <3>1. Instants(st) # {}
      BY <2>4, <2>6
    <3>2. Earliest(st) # 0 /\ Earliest(st) <= Latest(st)
      <4>1. /\ Earliest(st) \in Instants(st) /\ Latest(st) \in Instants(st)
            /\ Earliest(st) <= Latest(st)
        BY <1>2, <3>1, Bounds
      <4>2. Instants(st) \in SUBSET (Nat \ {0})
        BY <1>2, InstantsFinite
      <4> QED
        BY <4>1, <4>2
    <3>3. q.cursor # NoTime /\ q.cursor >= Earliest(st)
      BY <1>6, <1>8, <2>3, <3>2 DEF Clamp
    <3>4. q.cursor < Latest(st) /\ n.cursor = q.cursor
      BY <1>6, <2>q, <2>4, <2>6, <3>3
    <3>5. e.mode = "playing"
      <4> SUFFICES ASSUME e.mode # "playing" PROVE FALSE
        OBVIOUS
      <4>1. e.cursor = Latest(st)
        BY <1>7, <2>6, <3>1
      <4> QED
        BY <1>6, <1>8, <2>3, <3>2, <3>4, <4>1 DEF Clamp
    <3>6. e.cursor = IF position < Earliest(st) THEN Earliest(st) ELSE position
      BY <1>7, <3>5
    <3>7. q.cursor = e.cursor
      BY <1>1, <1>6, <1>7, <1>8, <2>3, <3>2, <3>4, <3>5, <3>6 DEF Clamp
    <3> QED
      BY <3>4, <3>6, <3>7
  <2> QED
    BY <1>6, <2>4, <2>5, <2>6 DEF k
<1>15. CASE k.op = "speed"
  <2>1. n = [e EXCEPT !.revision = @ + 1]
    BY <1>15 DEF After, e
  <2>2. /\ n \in Inner /\ n.mode = e.mode /\ n.cursor = e.cursor
        /\ n.revision > pb.revision
    BY <1>6, <1>7, <1>8, <2>1 DEF Inner
  <2> QED
    BY <1>6, <1>7, <2>2 DEF k
<1>16. CASE k.op \notin {"snapshot", "live", "pause", "seek", "play", "speed"}
  <2> DEFINE x == Clamp(StepTarget(k.op, e.cursor, k.arg), st)
  <2>1. n = Paused(e, x)
    BY <1>16 DEF After, e
  <2>2. x \in Nat
    BY <1>1, <1>2, <1>8, StepTargetIsTime, ClampInBounds
  <2> HIDE DEF x
  <2>3. n \in Inner /\ n.mode = "paused" /\ n.revision > pb.revision
    BY <1>7, <1>10, <2>1, <2>2
  <2> QED
    BY <1>6, <2>3 DEF k
<1> QED
  BY <1>9, <1>11, <1>12, <1>13, <1>14, <1>15, <1>16

(***************************************************************************)
(* The controller starts in the invariant.                                 *)
(***************************************************************************)
LEMMA PlaybackInit == Init => PlaybackInv
<1> SUFFICES ASSUME Init PROVE PlaybackInv
  OBVIOUS
<1>1. EmptyStore \in Store
  BY DEF EmptyStore, Store
<1>2. NoCall \in Asking /\ NoCall.op = "none"
  BY <1>1 DEF NoCall, Asking
<1>3. pb \in Inner /\ pb.mode = "live"
  BY DEF Init, Inner, Mode, NoTime
<1>4. PlaybackTypeOK
  BY <1>1, <1>2, <1>3, PlaybackAssumption DEF Init, PlaybackTypeOK, NoTime
<1>5. Checked
  BY <1>2 DEF Init, Checked, NeedsData, Steps
<1> QED
  BY <1>3, <1>4, <1>5 DEF Init, PlaybackInv, Anchored, OnTime

(***************************************************************************)
(* The steps that change neither the playback state nor a call.            *)
(***************************************************************************)
LEMMA StoreKeepsTime ==
    ASSUME PlaybackInv, store' \in Store, maint' \in {"idle", "cleared", "loaded"},
           UNCHANGED <<pb, speed, age, call, position>>
    PROVE  PlaybackInv'
BY DEF PlaybackInv, PlaybackTypeOK, Anchored, Checked, OnTime

(***************************************************************************)
(* reset_empty and reset_after_load stop the playback.                     *)
(***************************************************************************)
LEMMA ResetKeepsTime ==
    ASSUME PlaybackInv, NEW from, NEW cursor \in Nat, Reset(from, cursor)
    PROVE  PlaybackInv'
<1>0. PlaybackTypeOK /\ Checked
  BY DEF PlaybackInv
<1>1. pb' \in Inner /\ pb'.mode = "paused"
  BY <1>0 DEF PlaybackTypeOK, Reset, Inner, Mode
<1>2. PlaybackTypeOK'
  BY <1>0, <1>1 DEF PlaybackTypeOK, Reset
<1>3. Checked'
  BY <1>0 DEF Checked, Reset
<1> QED
  BY <1>1, <1>2, <1>3 DEF PlaybackInv, Anchored, OnTime, Reset

(***************************************************************************)
(* A call begins with arguments that pass its checks.                      *)
(***************************************************************************)
LEMMA BeginKeepsTime ==
    ASSUME PlaybackInv, NEW c \in Callers, NEW r \in Request, Begin(c, r)
    PROVE  PlaybackInv'
<1>0. PlaybackTypeOK /\ Anchored /\ Checked /\ OnTime
  BY DEF PlaybackInv
<1> DEFINE k == [op |-> r.op, arg |-> r.arg, seen |-> store]
<1>1. /\ r.op \in {"snapshot", "live", "pause", "seek", "play", "speed"} \cup Steps
      /\ r.arg \in Nat
      /\ r.op = "speed" => r.arg \in Speeds
      /\ r.op = "play" => r.arg \in {0} \cup Speeds
  <2>1. CASE r \in [op : {"snapshot", "live", "pause"}, arg : {0}]
    BY <2>1
  <2>2. CASE r \in [op : {"seek"}, arg : Targets]
    BY <2>2, PlaybackAssumption
  <2>3. CASE r \in [op : {"play"}, arg : {0} \cup Speeds]
    <3>1. r.op = "play" /\ r.arg \in {0} \cup Speeds
      BY <2>3
    <3>2. {0} \cup Speeds \subseteq Nat
      BY PlaybackAssumption
    <3> QED
      BY <3>1, <3>2
  <2>4. CASE r \in [op : {"speed"}, arg : Speeds]
    BY <2>4, PlaybackAssumption
  <2>5. CASE r \in [op : Steps, arg : 1 .. MaxCount]
    BY <2>5, PlaybackAssumption DEF Steps
  <2> QED
    BY <2>1, <2>2, <2>3, <2>4, <2>5 DEF Request
<1>2. k \in Asking
  BY <1>0, <1>1 DEF Asking, PlaybackTypeOK
<1>3. /\ k.op = r.op /\ k.arg = r.arg /\ k.seen = store
      /\ r.op \in NeedsData => Instants(store) # {}
      /\ call' = [call EXCEPT ![c] = k]
      /\ UNCHANGED <<store, pb, speed, age, maint, position>>
  BY DEF Begin
<1> HIDE DEF k
<1>4. PlaybackTypeOK'
  BY <1>0, <1>2, <1>3 DEF PlaybackTypeOK
<1>5. Checked'
  BY <1>0, <1>1, <1>3 DEF Checked, PlaybackTypeOK
<1> QED
  BY <1>0, <1>3, <1>4, <1>5 DEF PlaybackInv, Anchored, OnTime

(***************************************************************************)
(* A call that has the lock leaves the time exact.                         *)
(***************************************************************************)
LEMMA FinishKeepsTime ==
    ASSUME PlaybackInv, NEW c \in Callers, Finish(c)
    PROVE  PlaybackInv'
<1>0. PlaybackTypeOK /\ Anchored /\ Checked /\ OnTime
  BY DEF PlaybackInv
<1> DEFINE k == call[c]
<1>1. /\ pb' = After(k) /\ age' = Anchor(pb')
      /\ speed' = IF k.op \in {"play", "speed"} /\ k.arg # 0 THEN k.arg ELSE speed
      /\ call' = [call EXCEPT ![c] = NoCall]
      /\ position' = IF pb.mode = "playing" /\ pb'.mode = "playing"
                     THEN IF position < Earliest(k.seen) THEN Earliest(k.seen) ELSE position
                     ELSE pb'.cursor
      /\ UNCHANGED <<store, maint>>
  BY DEF Finish
<1>2. /\ pb' \in Inner
      /\ pb'.mode = "playing" =>
           /\ pb'.cursor # NoTime
           /\ pb.mode = "playing" =>
                pb'.cursor = IF position < Earliest(k.seen) THEN Earliest(k.seen) ELSE position
  BY <1>1, AfterTime
<1>3. speed' \in Speeds /\ speed' \in Nat
  BY <1>0, <1>1, PlaybackAssumption DEF Checked, PlaybackTypeOK
<1>4. NoCall \in Asking /\ NoCall.op = "none"
  BY DEF NoCall, Asking, EmptyStore, Store
<1>5. pb'.cursor \in Nat
  BY <1>2 DEF Inner
<1>6. pb'.mode = "playing" => position' = pb'.cursor
  BY <1>1, <1>2
<1>7. position' \in Nat
  BY <1>1, <1>2, <1>5
<1>8. /\ pb'.mode = "playing" => age' = 0
      /\ pb'.mode # "playing" => age' = NoAge
  BY <1>1 DEF Anchor
<1>9. age' \in Nat \cup {NoAge}
  BY <1>8
<1>10. PlaybackTypeOK'
  BY <1>0, <1>1, <1>2, <1>3, <1>4, <1>7, <1>9 DEF PlaybackTypeOK
<1>11. Checked'
  BY <1>0, <1>1, <1>4 DEF Checked, PlaybackTypeOK, NeedsData, Steps
<1>12. Anchored'
  BY <1>2, <1>8 DEF Anchored, NoAge
<1>13. OnTime'
  BY <1>3, <1>5, <1>6, <1>8 DEF OnTime
<1> QED
  BY <1>10, <1>11, <1>12, <1>13 DEF PlaybackInv

(***************************************************************************)
(* A tick ages the anchor and moves the position by one unit of speed.     *)
(***************************************************************************)
LEMMA TickKeepsTime ==
    ASSUME PlaybackInv, Tick
    PROVE  PlaybackInv'
<1>0. PlaybackTypeOK /\ Anchored /\ Checked /\ OnTime
  BY DEF PlaybackInv
<1>1. /\ age \in Nat /\ age' = age + 1 /\ position' = position + speed
      /\ UNCHANGED <<store, pb, speed, call, maint>>
  BY <1>0 DEF Tick, PlaybackTypeOK
<1>2. speed \in Nat /\ pb.cursor \in Nat /\ position \in Nat
  BY <1>0, PlaybackAssumption DEF PlaybackTypeOK, Inner
<1>3. (age + 1) * speed = age * speed + speed /\ age * speed \in Nat
  <2>1. \A m, n \in Nat : (m + 1) * n = m * n + n /\ m * n \in Nat
    OBVIOUS
  <2> QED
    BY <1>1, <1>2, <2>1
<1>4. pb.mode = "playing" => pb.cursor + (age + 1) * speed = position + speed
  BY <1>0, <1>2, <1>3 DEF OnTime
<1>5. OnTime'
  BY <1>1, <1>4 DEF OnTime
<1>6. PlaybackTypeOK'
  BY <1>0, <1>1, <1>2 DEF PlaybackTypeOK
<1>7. Checked' /\ Anchored'
  BY <1>0, <1>1 DEF Checked, Anchored, NoAge, Tick
<1> QED
  BY <1>5, <1>6, <1>7 DEF PlaybackInv

(***************************************************************************)
(* The invariant holds in every reachable state.                           *)
(***************************************************************************)
THEOREM PlaybackInvariant == Spec => []PlaybackInv
<1>1. PlaybackInv /\ [Next]_vars => PlaybackInv'
  <2> SUFFICES ASSUME PlaybackInv, [Next]_vars PROVE PlaybackInv'
    OBVIOUS
  <2>0. PlaybackTypeOK
    BY DEF PlaybackInv
  <2>1. ASSUME NEW s \in Sample, AppendState(s) PROVE PlaybackInv'
    <3>1. store' \in Store
      BY <2>0, <2>1 DEF AppendState, PlaybackTypeOK, Store
    <3> QED
      BY <2>1, <3>1, StoreKeepsTime DEF AppendState
  <2>2. ASSUME NEW e \in Event, AppendEvent(e) PROVE PlaybackInv'
    <3>1. store' \in Store
      BY <2>0, <2>2 DEF AppendEvent, PlaybackTypeOK, Store
    <3> QED
      BY <2>2, <3>1, StoreKeepsTime DEF AppendEvent
  <2>3. CASE ClearStore
    <3>1. store' \in Store
      BY <2>3 DEF ClearStore, EmptyStore, Store
    <3> QED
      BY <2>3, <3>1, StoreKeepsTime DEF ClearStore
  <2>4. ASSUME NEW r \in Recordings, LoadStore(r) PROVE PlaybackInv'
    <3>1. store' \in Store
      BY <2>4, PlaybackAssumption DEF LoadStore
    <3> QED
      BY <2>4, <3>1, StoreKeepsTime DEF LoadStore
  <2>5. CASE ResetEmpty
    BY <2>5, ResetKeepsTime DEF ResetEmpty, NoTime
  <2>6. CASE ResetAfterLoad
    <3>1. Earliest(store) \in Nat
      BY <2>0, Bounds DEF PlaybackTypeOK
    <3> QED
      BY <2>6, <3>1, ResetKeepsTime DEF ResetAfterLoad
  <2>7. CASE UNCHANGED vars
    BY <2>7 DEF vars, PlaybackInv, PlaybackTypeOK, Anchored, Checked, OnTime
  <2> QED
    BY <2>1, <2>2, <2>3, <2>4, <2>5, <2>6, <2>7, BeginKeepsTime, FinishKeepsTime, TickKeepsTime
       DEF Next
<1> QED
  BY PlaybackInit, <1>1, PTL DEF Spec

(***************************************************************************)
(* Whatever snapshots, plays and speed changes fall in between, and        *)
(* however stale their bounds are, no tick is lost or counted twice.       *)
(***************************************************************************)
THEOREM PlaybackKeepsTime == Spec => []OnTime
<1>1. PlaybackInv => OnTime
  BY DEF PlaybackInv
<1> QED
  BY <1>1, PlaybackInvariant, PTL

(***************************************************************************)
(* The cursor goes back under an unchanged revision only through a caller  *)
(* with stale bounds, or from beyond the data.                             *)
(***************************************************************************)
THEOREM CursorGoesBackAnnounced == Spec => BackwardIsAnnounced
<1> DEFINE Announced ==
        pb'.cursor # NoTime /\ pb'.cursor < pb.cursor /\ pb'.revision = pb.revision
        => pb.cursor > Latest(store) \/ \E c \in Callers : Stale(c) /\ Returns(c)
<1>1. PlaybackInv /\ PlaybackInv' /\ [Next]_vars => [Announced]_vars
  <2> SUFFICES ASSUME PlaybackInv, PlaybackInv', Next,
                      pb'.cursor # NoTime, pb'.cursor < pb.cursor, pb'.revision = pb.revision,
                      ~(pb.cursor > Latest(store))
               PROVE  \E c \in Callers : Stale(c) /\ Returns(c)
    OBVIOUS
  <2>0. PlaybackTypeOK
    BY DEF PlaybackInv
  <2>1. pb \in Inner /\ pb' \in Inner /\ store \in Store
    BY DEF PlaybackInv, PlaybackTypeOK
  <2>2. /\ pb.cursor \in Nat /\ pb'.cursor \in Nat /\ pb.revision \in Nat
        /\ Latest(store) \in Nat
    BY <2>1, Bounds DEF Inner
  <2>3. pb' # pb
    BY <2>2
  <2>4. ~ResetEmpty /\ ~ResetAfterLoad
    BY <2>2 DEF ResetEmpty, ResetAfterLoad, Reset
  <2>5. PICK c \in Callers : Finish(c)
    BY <2>3, <2>4 DEF Next, AppendState, AppendEvent, ClearStore, LoadStore, Begin, Tick
  <2>6. pb' = After(call[c])
    BY <2>5 DEF Finish
  <2>7. ~(pb.cursor <= Latest(call[c].seen))
    BY <2>2, <2>6, AfterTime
  <2>8. Stale(c)
    BY <2>2, <2>7 DEF Stale
  <2>9. Returns(c)
    BY <2>0, <2>5 DEF Finish, Returns, PlaybackTypeOK
  <2> QED
    BY <2>8, <2>9
<1> QED
  BY <1>1, PlaybackInvariant, PTL DEF Spec, BackwardIsAnnounced
===============================================================================
