-------------------------- MODULE CursorStreamProofs --------------------------
(***************************************************************************)
(* Theorems of CursorStream, for every recording, feed, page size and      *)
(* retry limit, and whether or not the network overtakes.  From            *)
(* OnceInvariant on they are about a network that does not, and            *)
(* ViewIsComplete about one stream without live feeds besides.             *)
(***************************************************************************)
EXTENDS CursorStream, TLAPS, FiniteSetTheorems, WellFoundedInduction, SequenceTheorems

-----------------------------------------------------------------------------
(* The operators of Timeline, for every store.                             *)

(***************************************************************************)
(* A nonempty set of naturals has a least element, from the                *)
(* well-foundedness of < on the naturals: active_time_bounds has a lower   *)
(* bound whenever anything is stored.                                      *)
(***************************************************************************)
LEMMA LeastNatural ==
    ASSUME NEW S \in SUBSET Nat, S # {}
    PROVE  \E x \in S : \A y \in S : x <= y
<1> DEFINE R == OpToRel(<, Nat)
<1>1. \A x, y \in Nat : y < x => <<y, x>> \in R
  BY DEF OpToRel
<1>2. IsWellFoundedOn(R, Nat)
  BY NatLessThanWellFounded
<1> HIDE DEF R
<1>3. PICK x \in S : \A y \in S : <<y, x>> \notin R
  BY <1>2, WFMin
<1>4. ASSUME NEW y \in S PROVE x <= y
  <2>1. <<y, x>> \notin R
    BY <1>3
  <2>2. ~(y < x)
    BY <1>1, <2>1
  <2> QED
    BY <2>2
<1> QED
  BY <1>4

(***************************************************************************)
(* A nonempty finite set of naturals has a greatest element: a smallest    *)
(* counterexample under strict inclusion would have one after all.         *)
(* active_time_bounds has an upper bound whenever anything is stored.      *)
(***************************************************************************)
LEMMA GreatestNatural ==
    ASSUME NEW S \in SUBSET Nat, IsFiniteSet(S), S # {}
    PROVE  \E x \in S : \A y \in S : y <= x
<1> DEFINE Greatest(T) == \E x \in T : \A y \in T : y <= x
           Bad == {T \in FiniteSubsetsOf(S) : T # {} /\ ~Greatest(T)}
<1>1. SUFFICES ASSUME Bad # {} PROVE FALSE
  BY DEF FiniteSubsetsOf
<1>2. IsWellFoundedOn(StrictSubsetOrdering(S), FiniteSubsetsOf(S))
  BY FS_StrictSubsetOrderingWellFounded
<1>3. PICK T \in Bad : \A U \in Bad : <<U, T>> \notin StrictSubsetOrdering(S)
  BY <1>1, <1>2, WFMin
<1>4. PICK x \in T : TRUE
  BY <1>3
<1> DEFINE U == T \ {x}
<1>5. U \in FiniteSubsetsOf(S) /\ T \in FiniteSubsetsOf(S)
  BY <1>3, FS_RemoveElement DEF FiniteSubsetsOf
<1>6. <<U, T>> \in StrictSubsetOrdering(S)
  BY <1>4, <1>5 DEF StrictSubsetOrdering, FiniteSubsetsOf
<1>7. U \notin Bad
  BY <1>3, <1>6
<1>8. CASE U = {}
  <2>1. T = {x} /\ x \in Nat
    BY <1>4, <1>5, <1>8 DEF FiniteSubsetsOf
  <2>2. Greatest(T)
    BY <2>1
  <2> QED
    BY <2>2, <1>3
<1>9. CASE U # {}
  <2>1. PICK m \in U : \A y \in U : y <= m
    BY <1>5, <1>7, <1>9
  <2>2. m \in Nat /\ x \in Nat /\ T \subseteq Nat /\ m \in T
    BY <1>4, <1>5, <2>1 DEF FiniteSubsetsOf
  <2>3. \A y \in T : y = x \/ y <= m
    BY <2>1
  <2>4. CASE m <= x
    <3>1. \A y \in T : y <= x
      BY <2>2, <2>3, <2>4
    <3> QED
      BY <3>1, <1>3, <1>4
  <2>5. CASE ~(m <= x)
    <3>1. \A y \in T : y <= m
      BY <2>2, <2>3, <2>5
    <3> QED
      BY <3>1, <2>2, <1>3
  <2> QED
    BY <2>4, <2>5
<1> QED
  BY <1>8, <1>9

(***************************************************************************)
(* The instants of a store are finitely many positive integers.            *)
(***************************************************************************)
LEMMA InstantsFinite ==
    ASSUME NEW st \in Store
    PROVE  /\ Instants(st) \in SUBSET (Nat \ {0})
           /\ IsFiniteSet(Instants(st))
<1> DEFINE A == {s[2] : s \in st.states}
           B == {e.ts : e \in st.events}
           f == [s \in st.states |-> s[2]]
           g == [e \in st.events |-> e.ts]
<1>1. st.states \in SUBSET Sample /\ st.events \in SUBSET Event
  BY DEF Store
<1>2. IsFiniteSet(st.states) /\ IsFiniteSet(st.events)
  BY <1>1, SampleAssumption, EventAssumption, FS_Subset
<1>3. f \in Surjection(st.states, A) /\ g \in Surjection(st.events, B)
  BY DEF Surjection
<1>4. IsFiniteSet(A) /\ IsFiniteSet(B)
  BY <1>2, <1>3, FS_Surjection
<1>5. IsFiniteSet(A \cup B)
  BY <1>4, FS_Union
<1>6. A \in SUBSET (Nat \ {0})
  BY <1>1, SampleAssumption
<1>7. B \in SUBSET (Nat \ {0})
  BY <1>1, EventAssumption
<1> QED
  BY <1>5, <1>6, <1>7 DEF Instants

(***************************************************************************)
(* active_time_bounds: both bounds are stored instants and enclose all of  *)
(* them, and an empty store has neither.                                   *)
(***************************************************************************)
LEMMA Bounds ==
    ASSUME NEW st \in Store
    PROVE  /\ Earliest(st) \in Nat /\ Latest(st) \in Nat
           /\ Instants(st) # {} =>
                /\ Earliest(st) \in Instants(st) /\ Latest(st) \in Instants(st)
                /\ \A t \in Instants(st) : Earliest(st) <= t /\ t <= Latest(st)
<1>1. CASE Instants(st) = {}
  BY <1>1 DEF Earliest, Latest, NoTime
<1>2. CASE Instants(st) # {}
  <2>1. Instants(st) \in SUBSET Nat /\ IsFiniteSet(Instants(st))
    BY InstantsFinite
  <2>2. \E x \in Instants(st) : \A y \in Instants(st) : x <= y
    BY <1>2, <2>1, LeastNatural
  <2>3. \E x \in Instants(st) : \A y \in Instants(st) : y <= x
    BY <1>2, <2>1, GreatestNatural
  <2>4. Earliest(st) \in Instants(st) /\ \A t \in Instants(st) : Earliest(st) <= t
    BY <1>2, <2>2 DEF Earliest
  <2>5. Latest(st) \in Instants(st) /\ \A t \in Instants(st) : t <= Latest(st)
    BY <1>2, <2>3 DEF Latest
  <2> QED
    BY <2>1, <2>4, <2>5
<1> QED
  BY <1>1, <1>2

(***************************************************************************)
(* A cursor is always clamped into the bounds (seek, play, snapshot).      *)
(***************************************************************************)
LEMMA ClampInBounds ==
    ASSUME NEW st \in Store, NEW t \in Nat
    PROVE  /\ Clamp(t, st) \in Nat
           /\ Instants(st) # {} => Earliest(st) <= Clamp(t, st) /\ Clamp(t, st) <= Latest(st)
<1>1. Earliest(st) \in Nat /\ Latest(st) \in Nat
  BY Bounds
<1>2. Instants(st) # {} => Earliest(st) <= Latest(st)
  BY Bounds
<1> QED
  BY <1>1, <1>2 DEF Clamp

(***************************************************************************)
(* update_effective_cursor returns a playback state.                       *)
(***************************************************************************)
LEMMA EffectiveCursorType ==
    ASSUME NEW st \in Store, NEW elapsed \in Nat,
           NEW p \in [mode : Mode, cursor : Nat, revision : Nat]
    PROVE  UpdateEffectiveCursor(p, st, elapsed)
               \in [mode : Mode, cursor : Nat, revision : Nat]
<1> DEFINE base == IF p.cursor = NoTime THEN Earliest(st) ELSE p.cursor
<1>1. Earliest(st) \in Nat /\ Latest(st) \in Nat /\ base \in Nat /\ base + elapsed \in Nat
  BY Bounds
<1>2. Clamp(base, st) \in Nat /\ Clamp(base + elapsed, st) \in Nat
  BY <1>1, ClampInBounds
<1> QED
  BY <1>1, <1>2 DEF UpdateEffectiveCursor, Mode, NoTime

-----------------------------------------------------------------------------
(* Sequences.                                                              *)

(***************************************************************************)
(* The front of a nonempty queue and what is left when it is removed       *)
(* (pop_front_if).                                                         *)
(***************************************************************************)
LEMMA FrontOfQueue ==
    ASSUME NEW S, NEW q \in Seq(S), q # <<>>
    PROVE  /\ Len(q) \in Nat \ {0}
           /\ q[1] \in S
           /\ q[Len(q)] \in S
           /\ Tail(q) \in Seq(S)
           /\ Len(Tail(q)) = Len(q) - 1
           /\ \A i \in 1..Len(Tail(q)) : Tail(q)[i] = q[i + 1]
<1>1. Len(q) \in Nat \ {0}
  BY EmptySeq
<1>2. q[1] \in S /\ q[Len(q)] \in S
  BY <1>1, ElementOfSeq
<1> QED
  BY <1>1, <1>2, HeadTailProperties

(***************************************************************************)
(* A received payload leaves the others in flight, in their order.         *)
(***************************************************************************)
LEMMA WithoutKeeps ==
    ASSUME NEW S, NEW q \in Seq(S), NEW i \in 1..Len(q)
    PROVE  /\ Without(q, i) \in Seq(S)
           /\ \A j \in 1..Len(Without(q, i)) :
                  \E k \in 1..Len(q) : Without(q, i)[j] = q[k]
<1> DEFINE W == Without(q, i)
<1>1. Len(q) \in Nat /\ Len(q) - 1 \in Nat
  BY LenProperties
<1>2. \A j \in 1..(Len(q) - 1) :
          /\ W[j] = IF j < i THEN q[j] ELSE q[j + 1]
          /\ j \in 1..Len(q) /\ j + 1 \in 1..Len(q)
  BY <1>1 DEF Without
<1>3. \A j \in 1..(Len(q) - 1) : \E k \in 1..Len(q) : W[j] = q[k]
  BY <1>2
<1>4. \A j \in 1..(Len(q) - 1) : W[j] \in S
  BY <1>3, ElementOfSeq
<1>5. W \in [1..(Len(q) - 1) -> S]
  BY <1>4 DEF Without
<1>6. W \in Seq(S) /\ Len(W) = Len(q) - 1
  BY <1>1, <1>5, IsASeq, LenProperties
<1> QED
  BY <1>3, <1>6

(***************************************************************************)
(* A datagram that is sent is the last one in flight, or lost.             *)
(***************************************************************************)
LEMMA SendKeeps ==
    ASSUME NEW S, NEW q \in Seq(S), NEW m \in S, NEW r, r = q \/ r = Append(q, m)
    PROVE  /\ r \in Seq(S)
           /\ \A j \in 1..Len(r) : r[j] = m \/ \E k \in 1..Len(q) : r[j] = q[k]
<1>1. CASE r = q
  BY <1>1
<1>2. CASE r = Append(q, m)
  <2>1. Len(q) \in Nat
    BY LenProperties
  <2> QED
    BY <1>2, <2>1, AppendProperties
<1> QED
  BY <1>1, <1>2

-----------------------------------------------------------------------------
(* The publisher's record of a subscriber.                                 *)

(* The number of the last page that has left the queue, and the number of  *)
(* the last page that may have been sent.                                  *)
Settled(p) == p.next - Len(p.pending)
Reached(p) == IF p.pending = <<>> THEN p.next ELSE p.pending[1].seq

(* Pending pages are numbered consecutively, up to `next`.                 *)
Contiguous(p) ==
    /\ Settled(p) \in Nat
    /\ \A i \in 1..Len(p.pending) : p.pending[i].seq = Settled(p) + i

(***************************************************************************)
(* Reached is a number.                                                    *)
(***************************************************************************)
LEMMA ReachedType ==
    ASSUME NEW p \in Subscriber
    PROVE  Reached(p) \in Nat
<1>1. CASE p.pending = <<>>
  BY <1>1 DEF Reached, Subscriber
<1>2. CASE p.pending # <<>>
  <2>1. p.pending[1] \in Page
    BY <1>2, FrontOfQueue DEF Subscriber
  <2> QED
    BY <1>2, <2>1 DEF Reached, Page
<1> QED
  BY <1>1, <1>2

(***************************************************************************)
(* Both kinds of batch are made of stored events, so there are finitely    *)
(* many (baseline_events, delta_events).                                   *)
(***************************************************************************)
LEMMA NewEventsType ==
    ASSUME TypeOK, NEW p
    PROVE  NewEvents(p) \in SUBSET Event /\ IsFiniteSet(NewEvents(p))
<1>1. store.events \in SUBSET Event
  BY DEF TypeOK, Store
<1>2. NewEvents(p) \in SUBSET Event
  BY <1>1 DEF NewEvents, BaselineEvents, DeltaEvents, UpTo
<1> QED
  BY <1>2, EventAssumption, FS_Subset

(***************************************************************************)
(* Paging a batch: consecutive numbers from next + 1 on, each page typed.  *)
(***************************************************************************)
LEMMA PagesType ==
    ASSUME TypeOK, NEW p \in Subscriber
    PROVE  /\ Pages(p) \in Seq(Page)
           /\ Len(Pages(p)) \in Nat
           /\ \A i \in 1..Len(Pages(p)) : Pages(p)[i].seq = p.next + i
<1> DEFINE events == NewEvents(p)
           count == IF events = {} THEN 1 ELSE PageCount(events)
<1>1. events \in SUBSET Event /\ Cardinality(events) \in Nat
  BY NewEventsType, FS_CardinalityType
<1>2. PageSize \in Nat \ {0}
  BY StreamAssumption
<1>3. count \in Nat
  BY <1>1, <1>2 DEF PageCount
<1>4. p.next \in Nat /\ tick.snap.revision \in Nat /\ tick.snap.cursor \in Nat
  BY DEF TypeOK, Subscriber, Ticking, Playback
<1>5. IsBaseline(p) \in BOOLEAN
  BY DEF IsBaseline
<1>6. ASSUME NEW i \in 1..count
      PROVE  [seq |-> p.next + i, rev |-> tick.snap.revision,
              cursor |-> tick.snap.cursor,
              baseline |-> IsBaseline(p) /\ i = 1, final |-> i = count,
              events |-> PageOf(events, i), attempts |-> 0] \in Page
  <2>1. PageOf(events, i) \in SUBSET Event
    BY <1>1 DEF PageOf
  <2> QED
    BY <1>3, <1>4, <1>5, <1>6, <2>1 DEF Page
<1>7. Pages(p) = [i \in 1..count |->
          [seq |-> p.next + i, rev |-> tick.snap.revision,
           cursor |-> tick.snap.cursor,
           baseline |-> IsBaseline(p) /\ i = 1, final |-> i = count,
           events |-> PageOf(events, i), attempts |-> 0]]
  BY DEF Pages
<1> HIDE DEF count, events
<1>8. Pages(p) \in [1..count -> Page]
  BY <1>6, <1>7
<1>9. Pages(p) \in Seq(Page) /\ Len(Pages(p)) = count
  BY <1>3, <1>8, IsASeq, LenProperties
<1>10. \A i \in 1..count : Pages(p)[i].seq = p.next + i
  BY <1>7
<1> QED
  BY <1>3, <1>9, <1>10

(***************************************************************************)
(* Removing an acknowledged page keeps the numbering; what is settled      *)
(* stays within the acknowledgement the tick read.                         *)
(***************************************************************************)
LEMMA PoppedKeeps ==
    ASSUME TypeOK, NEW p \in Subscriber, Contiguous(p)
    PROVE  /\ Popped(p) \in Subscriber
           /\ Contiguous(Popped(p))
           /\ Settled(Popped(p)) = Settled(p) \/ Settled(Popped(p)) <= tick.ack
           /\ Reached(p) <= Reached(Popped(p))
<1>1. CASE ~(p.pending # <<>> /\ tick.ack >= p.pending[1].seq)
  <2>1. Popped(p) = p
    BY <1>1 DEF Popped
  <2>2. Reached(p) \in Nat
    BY ReachedType
  <2> QED
    BY <2>1, <2>2
<1>2. CASE p.pending # <<>> /\ tick.ack >= p.pending[1].seq
  <2> DEFINE q == Popped(p)
             lastRev == IF p.pending[1].final THEN p.pending[1].rev ELSE p.lastRev
             lastCur == IF p.pending[1].final THEN p.pending[1].cursor ELSE p.lastCur
  <2>1. p.pending \in Seq(Page) /\ p.next \in Nat
    BY DEF Subscriber
  <2>2. /\ p.pending[1] \in Page /\ Tail(p.pending) \in Seq(Page)
        /\ Len(p.pending) \in Nat \ {0}
        /\ Len(Tail(p.pending)) = Len(p.pending) - 1
        /\ \A i \in 1..Len(Tail(p.pending)) : Tail(p.pending)[i] = p.pending[i + 1]
    BY <1>2, <2>1, FrontOfQueue
  <2>3. lastRev \in Nat \cup {NoRevision} /\ lastCur \in Nat
    BY <2>2 DEF Subscriber, Page
  <2>4. q = [p EXCEPT !.pending = Tail(p.pending), !.lastRev = lastRev, !.lastCur = lastCur]
    BY <1>2 DEF Popped
  <2>5. q \in Subscriber /\ q.pending = Tail(p.pending) /\ q.next = p.next
    BY <2>2, <2>3, <2>4 DEF Subscriber
  <2>6. Settled(q) = Settled(p) + 1
    BY <2>1, <2>2, <2>5 DEF Settled
  <2>7. p.pending[1].seq = Settled(p) + 1
    BY <2>2 DEF Contiguous
  <2>8. Settled(q) \in Nat /\ Settled(q) <= tick.ack
    BY <1>2, <2>6, <2>7 DEF Contiguous
  <2>9. \A i \in 1..Len(q.pending) : q.pending[i].seq = Settled(q) + i
    <3> TAKE i \in 1..Len(q.pending)
    <3>1. q.pending[i] = p.pending[i + 1] /\ i + 1 \in 1..Len(p.pending)
      BY <2>2, <2>5
    <3>2. p.pending[i + 1].seq = Settled(p) + (i + 1)
      BY <3>1 DEF Contiguous
    <3>3. Settled(p) \in Nat /\ i \in Nat
      BY <2>2, <2>5 DEF Contiguous
    <3> QED
      BY <3>1, <3>2, <3>3, <2>6
  <2>10. Reached(p) <= Reached(q)
    <3>1. Reached(p) = Settled(p) + 1 /\ Settled(p) \in Nat
      BY <1>2, <2>7 DEF Reached, Contiguous
    <3>2. CASE q.pending = <<>>
      <4>0. Len(q.pending) = 0
        BY <3>2, EmptySeq
      <4>1. Len(p.pending) = 1
        BY <2>2, <2>5, <4>0
      <4> QED
        BY <3>1, <3>2, <4>1, <2>1, <2>5 DEF Reached, Settled
    <3>3. CASE q.pending # <<>>
      <4>1. Len(q.pending) \in Nat \ {0}
        BY <3>3, <2>5, <2>2, EmptySeq
      <4>2. q.pending[1].seq = Settled(q) + 1
        BY <4>1, <2>9
      <4> QED
        BY <3>1, <3>3, <4>2, <2>6 DEF Reached
    <3> QED
      BY <3>2, <3>3
  <2> HIDE DEF q
  <2> QED
    BY <2>5, <2>8, <2>9, <2>10 DEF Contiguous, q
<1> QED
  BY <1>1, <1>2

(***************************************************************************)
(* So does filling an empty queue.                                         *)
(***************************************************************************)
LEMMA FilledKeeps ==
    ASSUME TypeOK, NEW p \in Subscriber, Contiguous(p)
    PROVE  /\ Filled(p) \in Subscriber
           /\ Contiguous(Filled(p))
           /\ Settled(Filled(p)) = Settled(p)
           /\ Reached(p) <= Reached(Filled(p))
<1> DEFINE q == Filled(p)
<1>1. p.pending \in Seq(Page) /\ p.next \in Nat
  BY DEF Subscriber
<1>2. tick.snap.revision \in Nat /\ tick.snap.cursor \in Nat
  BY DEF TypeOK, Ticking, Playback
<1>3. Reached(p) \in Nat
  BY ReachedType
<1>4. CASE p.pending # <<>>
  <2>1. q = p
    BY <1>4 DEF Filled
  <2> QED
    BY <1>3, <2>1
<1>5. CASE p.pending = <<>> /\ ~(IsBaseline(p) \/ NewEvents(p) # {})
  <2>1. q = [p EXCEPT !.lastRev = tick.snap.revision, !.lastCur = tick.snap.cursor]
    BY <1>5 DEF Filled
  <2>2. q \in Subscriber /\ q.pending = p.pending /\ q.next = p.next
    BY <1>2, <2>1 DEF Subscriber
  <2> HIDE DEF q
  <2>3. Settled(q) = Settled(p) /\ Reached(q) = Reached(p)
    BY <2>2 DEF Settled, Reached
  <2>4. Contiguous(q)
    BY <2>2, <2>3 DEF Contiguous
  <2> QED
    BY <1>3, <2>2, <2>3, <2>4 DEF q
<1>6. CASE p.pending = <<>> /\ (IsBaseline(p) \/ NewEvents(p) # {})
  <2> DEFINE pages == Pages(p)
  <2>1. /\ pages \in Seq(Page) /\ Len(pages) \in Nat
        /\ \A i \in 1..Len(pages) : pages[i].seq = p.next + i
    BY PagesType
  <2>2. q = [p EXCEPT !.pending = pages, !.next = p.next + Len(pages)]
    BY <1>6 DEF Filled
  <2> HIDE DEF pages, q
  <2>3a. p.next + Len(pages) \in Nat
    BY <1>1, <2>1
  <2>3. q \in Subscriber /\ q.pending = pages /\ q.next = p.next + Len(pages)
    BY <2>1, <2>2, <2>3a DEF Subscriber
  <2>4. Len(p.pending) = 0
    BY <1>6, EmptySeq
  <2>5. Settled(p) = p.next /\ Settled(q) = p.next
    BY <1>1, <2>1, <2>3, <2>4 DEF Settled
  <2>6. Contiguous(q)
    BY <1>1, <2>1, <2>3, <2>5 DEF Contiguous
  <2>7. Reached(p) = p.next
    BY <1>6 DEF Reached
  <2>8. Reached(q) >= p.next
    <3>1. CASE q.pending = <<>>
      BY <1>1, <2>1, <2>3, <3>1 DEF Reached
    <3>2. CASE q.pending # <<>>
      <4>1. Len(pages) \in Nat \ {0}
        BY <3>2, <2>1, <2>3, EmptySeq
      <4>2. q.pending[1].seq = p.next + 1
        BY <4>1, <2>1, <2>3
      <4> QED
        BY <1>1, <3>2, <4>2 DEF Reached
    <3> QED
      BY <3>1, <3>2
  <2>9. Reached(q) \in Nat
    BY <2>3, ReachedType
  <2>10. Reached(p) <= Reached(q)
    BY <1>1, <2>7, <2>8, <2>9
  <2> QED
    BY <2>3, <2>5, <2>6, <2>10 DEF q
<1> QED
  BY <1>4, <1>5, <1>6

-----------------------------------------------------------------------------
(* The inductive invariant.                                                *)

HandedOver(n) == \A s \in 1..n : s \in given

(* Pages leave the queue only as far as the session has acknowledged them. *)
QueueInv ==
    /\ Contiguous(sub)
    /\ Settled(sub) <= session.ack
    /\ tick.active => tick.ack <= session.ack

(* Every number the session, the client or the shown frame relies on has   *)
(* been handed over, and so has every number being acknowledged.           *)
GivenInv ==
    /\ HandedOver(session.ack)
    /\ HandedOver(client.applied)
    /\ HandedOver(shown.mark)
    /\ acks \subseteq given

(* Everything before a batch in flight has been handed over.               *)
WireInv ==
    \A i \in 1..Len(wire) :
        wire[i].kind = "batch" => wire[i].seq >= 1 /\ HandedOver(wire[i].seq - 1)

(* Nothing beyond the first pending page has ever been sent.               *)
AheadInv ==
    session.live =>
        /\ session.ack <= Reached(sub)
        /\ \A s \in acks : s <= Reached(sub)
        /\ \A i \in 1..Len(wire) :
               wire[i].kind = "batch" => wire[i].seq <= Reached(sub)

(* Before the subscription the publisher does nothing for this client.     *)
QuietInv ==
    ~session.subscribed =>
        sub = Fresh /\ ~tick.active /\ session.ack = 0 /\ acks = {} /\ wire = <<>>

StreamInv == TypeOK /\ QueueInv /\ GivenInv /\ WireInv /\ AheadInv /\ QuietInv

(***************************************************************************)
(* Producers, playback control and loading leave the stream alone.         *)
(***************************************************************************)
LEMMA TimelinesStep == StreamInv /\ Timelines => StreamInv'
<1> SUFFICES ASSUME StreamInv, Timelines PROVE StreamInv'
  OBVIOUS
<1>1. store \in Store /\ playback \in Playback /\ loading \in BOOLEAN
  BY DEF StreamInv, TypeOK
<1>2. /\ store' \in Store /\ playback' \in Playback /\ loading' \in BOOLEAN
      /\ UNCHANGED <<session, sub, tick, frames, wire, acks, client, view, shown,
                     given, twice>>
  <2> USE DEF publisherVars, clientVars
  <2>1. CASE \E s \in FeedSamples \ store.states : AppendState(s)
    BY <1>1, <2>1, StreamAssumption DEF AppendState, Store
  <2>2. CASE \E e \in FeedEvents \ store.events : AppendEvent(e)
    BY <1>1, <2>2, StreamAssumption DEF AppendEvent, Store
  <2>3. CASE GoLive
    BY <1>1, <2>3, Bounds DEF GoLive, Playback, Mode
  <2>4. CASE \E t \in Instants(store) : Seek(t)
    <3>1. PICK t \in Instants(store) : Seek(t)
      BY <2>4
    <3>2. t \in Nat
      BY <1>1, InstantsFinite
    <3> QED
      BY <1>1, <3>1, <3>2, ClampInBounds DEF Seek, Playback, Mode
  <2>5. CASE Play
    <3> DEFINE now == UpdateEffectiveCursor(playback, store, 0)
               playing == [mode |-> "playing", cursor |-> Clamp(now.cursor, store),
                           revision |-> now.revision + 1]
    <3>1. now \in Playback
      BY <1>1, EffectiveCursorType DEF Playback
    <3>2. playing \in Playback
      BY <1>1, <3>1, ClampInBounds DEF Playback, Mode
    <3>3. playback' = UpdateEffectiveCursor(playing, store, 0)
      BY <2>5 DEF Play
    <3> HIDE DEF playing
    <3>4. playback' \in Playback
      BY <1>1, <3>2, <3>3, EffectiveCursorType DEF Playback
    <3> QED
      BY <1>1, <2>5, <3>4 DEF Play
  <2>6. CASE \E r \in Recordings \cup {EmptyStore} : LoadStore(r)
    BY <1>1, <2>6, StreamAssumption DEF LoadStore, EmptyStore, Store
  <2>7. CASE ResetAfterLoad
    <3>1. Earliest(store) \in Nat /\ playback.revision + 1 \in Nat
      BY <1>1, Bounds DEF Playback
    <3>2. playback' \in Playback
      BY <2>7, <3>1 DEF ResetAfterLoad, Playback, Mode
    <3> QED
      BY <1>1, <2>7, <3>2 DEF ResetAfterLoad
  <2> QED
    BY <2>1, <2>2, <2>3, <2>4, <2>5, <2>6, <2>7 DEF Timelines
<1>3. TypeOK'
  BY <1>2 DEF StreamInv, TypeOK
<1> QED
  BY <1>2, <1>3 DEF StreamInv, QueueInv, GivenInv, WireInv, AheadInv, QuietInv,
                    HandedOver, Contiguous, Settled, Reached

(***************************************************************************)
(* The session: an accepted acknowledgement is of the next number, which   *)
(* has been handed over and is that of a page already sent.                *)
(***************************************************************************)
LEMMA SessionsStep == StreamInv /\ Sessions => StreamInv'
<1> SUFFICES ASSUME StreamInv, Sessions PROVE StreamInv'
  OBVIOUS
<1> USE DEF timelineVars, publisherVars, clientVars
<1>1. TypeOK /\ session \in Session /\ acks \subseteq Nat
  BY DEF StreamInv, TypeOK
<1>2. CASE HandleSubscribe
  <2>1. session' \in Session /\ session'.live = session.live
        /\ session'.ack = session.ack /\ session'.subscribed
    BY <1>1, <1>2 DEF HandleSubscribe, Session
  <2>2. UNCHANGED <<store, playback, loading, sub, tick, frames, wire, acks,
                    client, view, shown, given, twice>>
    BY <1>2 DEF HandleSubscribe
  <2>3. TypeOK'
    BY <1>1, <2>1, <2>2 DEF TypeOK
  <2> QED
    BY <2>1, <2>2, <2>3 DEF StreamInv, QueueInv, GivenInv, WireInv, AheadInv,
                            QuietInv, HandedOver, Contiguous, Settled, Reached
<1>3. CASE RemoveSession
  <2>1. session' \in Session /\ ~session'.live
        /\ session'.ack = session.ack /\ session'.subscribed = session.subscribed
    BY <1>1, <1>3 DEF RemoveSession, Session
  <2>2. UNCHANGED <<store, playback, loading, sub, tick, frames, wire, acks,
                    client, view, shown, given, twice>>
    BY <1>3 DEF RemoveSession
  <2>3. TypeOK'
    BY <1>1, <2>1, <2>2 DEF TypeOK
  <2> QED
    BY <2>1, <2>2, <2>3 DEF StreamInv, QueueInv, GivenInv, WireInv, AheadInv,
                            QuietInv, HandedOver, Contiguous, Settled, Reached
<1>4. CASE \E s \in acks : HandleAck(s)
  <2>1. PICK s \in acks : HandleAck(s)
    BY <1>4
  <2>2. UNCHANGED <<store, playback, loading, sub, tick, frames, wire,
                    client, view, shown, given, twice>>
        /\ acks' \subseteq acks
    BY <2>1 DEF HandleAck
  <2>3. s \in Nat /\ s \in given
    BY <1>1 DEF StreamInv, GivenInv
  <2>4. session.subscribed
    BY DEF StreamInv, QuietInv
  <2>5. /\ session' \in Session
        /\ session'.live = session.live /\ session'.subscribed
        /\ \/ session'.ack = session.ack
           \/ session'.ack = s /\ s = session.ack + 1
    BY <1>1, <2>1, <2>3, <2>4 DEF HandleAck, AcceptAck, Session
  <2>6. TypeOK'
    BY <1>1, <2>2, <2>5 DEF TypeOK
  <2>7. session.ack \in Nat /\ session'.ack \in Nat /\ session.ack <= session'.ack
    BY <1>1, <2>5 DEF Session
  <2>8. HandedOver(session.ack)'
    <3>1. \A n \in 1..session'.ack : n \in 1..session.ack \/ n = s
      BY <2>5, <2>7
    <3> QED
      BY <2>2, <2>3, <3>1 DEF StreamInv, GivenInv, HandedOver
  <2>9. GivenInv'
    BY <2>2, <2>8 DEF StreamInv, GivenInv, HandedOver
  <2>10. QueueInv'
    <3>1. Contiguous(sub)' /\ Settled(sub)' = Settled(sub)
      BY <2>2 DEF StreamInv, QueueInv, Contiguous, Settled
    <3>2. Settled(sub) \in Nat /\ tick.ack \in Nat
      BY <1>1 DEF StreamInv, QueueInv, Contiguous, TypeOK, Ticking
    <3> QED
      BY <2>2, <2>7, <3>1, <3>2 DEF StreamInv, QueueInv
  <2>11. WireInv'
    BY <2>2 DEF StreamInv, WireInv, HandedOver
  <2>12. AheadInv'
    <3>1. Reached(sub)' = Reached(sub)
      BY <2>2 DEF Reached
    <3> QED
      BY <2>2, <2>5, <3>1 DEF StreamInv, AheadInv
  <2> QED
    BY <2>5, <2>6, <2>9, <2>10, <2>11, <2>12 DEF StreamInv, QuietInv
<1> QED
  BY <1>2, <1>3, <1>4 DEF Sessions

(***************************************************************************)
(* Counting a transmission changes no number in the queue.                 *)
(***************************************************************************)
LEMMA SentKeeps ==
    ASSUME NEW p \in Subscriber, Contiguous(p), p.pending # <<>>
    PROVE  /\ Sent(p) \in Subscriber
           /\ Contiguous(Sent(p))
           /\ Settled(Sent(p)) = Settled(p)
           /\ Reached(Sent(p)) = Reached(p)
<1> DEFINE q == p.pending
           front == q[1]
           first == [front EXCEPT !.attempts = front.attempts + 1]
           r == [q EXCEPT ![1] = first]
<1>1. q \in Seq(Page) /\ Len(q) \in Nat \ {0} /\ front \in Page
  BY FrontOfQueue DEF Subscriber
<1>2. first \in Page /\ first.seq = front.seq
  <2> HIDE DEF front
  <2>1. front.attempts + 1 \in Nat
    BY <1>1 DEF Page
  <2> QED
    BY <1>1, <2>1 DEF Page
<1> HIDE DEF first
<1>3. q \in [1..Len(q) -> Page] /\ 1 \in 1..Len(q)
  BY <1>1, LenProperties
<1>4. r \in [1..Len(q) -> Page] /\ \A i \in 1..Len(q) : r[i].seq = q[i].seq
  BY <1>2, <1>3
<1>5. r \in Seq(Page) /\ Len(r) = Len(q) /\ r # <<>>
  <2>1. r \in Seq(Page) /\ Len(r) = Len(q)
    BY <1>1, <1>4, IsASeq, LenProperties
  <2> QED
    BY <1>1, <2>1, EmptySeq
<1>6. Sent(p) = [p EXCEPT !.pending = r]
  BY DEF Sent, first
<1> HIDE DEF r
<1>7. Sent(p) \in Subscriber /\ Sent(p).pending = r /\ Sent(p).next = p.next
  BY <1>5, <1>6 DEF Subscriber
<1>8. Settled(Sent(p)) = Settled(p)
  BY <1>5, <1>7 DEF Settled
<1>9. Reached(Sent(p)) = Reached(p)
  BY <1>3, <1>4, <1>5, <1>7 DEF Reached
<1>10. Contiguous(Sent(p))
  BY <1>4, <1>5, <1>7, <1>8 DEF Contiguous
<1> QED
  BY <1>7, <1>8, <1>9, <1>10

(***************************************************************************)
(* What a tick works with: the subscriber's queue after the acknowledged   *)
(* page is removed and the queue, if empty, filled.                        *)
(***************************************************************************)
LEMMA TickQueue ==
    ASSUME StreamInv, tick.active
    PROVE  LET p == Filled(Popped(sub))
           IN /\ p \in Subscriber
              /\ Contiguous(p)
              /\ Settled(p) <= session.ack
              /\ Reached(sub) <= Reached(p)
              /\ p.pending # <<>> =>
                    /\ p.pending[1] \in Page
                    /\ p.pending[Len(p.pending)] \in Page
                    /\ p.pending[1].seq = Reached(p)
                    /\ Reached(p) = Settled(p) + 1
<1> DEFINE o == Popped(sub)
           p == Filled(o)
<1>1. TypeOK /\ sub \in Subscriber /\ Contiguous(sub) /\ Settled(sub) <= session.ack
      /\ tick.ack <= session.ack /\ tick.ack \in Nat /\ session.ack \in Nat
  BY DEF StreamInv, TypeOK, QueueInv, Ticking, Session
<1>2. /\ o \in Subscriber /\ Contiguous(o)
      /\ Settled(o) = Settled(sub) \/ Settled(o) <= tick.ack
      /\ Reached(sub) <= Reached(o)
  BY <1>1, PoppedKeeps
<1> HIDE DEF o
<1>3. /\ p \in Subscriber /\ Contiguous(p) /\ Settled(p) = Settled(o)
      /\ Reached(o) <= Reached(p)
  BY <1>1, <1>2, FilledKeeps
<1> HIDE DEF p
<1>4. Settled(o) \in Nat /\ Settled(sub) \in Nat
  BY <1>1, <1>2 DEF Contiguous
<1>5. Settled(p) <= session.ack
  BY <1>1, <1>2, <1>3, <1>4
<1>6. ASSUME p.pending # <<>>
      PROVE  /\ p.pending[1] \in Page
             /\ p.pending[Len(p.pending)] \in Page
             /\ p.pending[1].seq = Reached(p)
             /\ Reached(p) = Settled(p) + 1
  <2>1. p.pending[1] \in Page /\ p.pending[Len(p.pending)] \in Page
        /\ Len(p.pending) \in Nat \ {0}
    BY <1>3, <1>6, FrontOfQueue DEF Subscriber
  <2>2. p.pending[1].seq = Settled(p) + 1
    BY <1>3, <2>1 DEF Contiguous
  <2> QED
    BY <1>6, <2>1, <2>2 DEF Reached
<1>7. Reached(sub) \in Nat /\ Reached(o) \in Nat /\ Reached(p) \in Nat
  BY <1>1, <1>2, <1>3, ReachedType
<1>8. Reached(sub) <= Reached(p)
  BY <1>1, <1>2, <1>3, <1>7
<1> QED
  BY <1>3, <1>5, <1>6, <1>8 DEF p, o

(***************************************************************************)
(* The publisher: the only page it sends is the first one not settled, and *)
(* everything settled has been acknowledged, hence handed over.            *)
(***************************************************************************)
LEMMA PublisherStep == StreamInv /\ Publisher => StreamInv'
<1> SUFFICES ASSUME StreamInv, Publisher PROVE StreamInv'
  OBVIOUS
<1> USE DEF timelineVars, publisherVars, clientVars
<1>1. TypeOK /\ session \in Session /\ tick \in Ticking /\ sub \in Subscriber
  BY DEF StreamInv, TypeOK
<1>2. Fresh \in Subscriber /\ Idle \in Ticking /\ Contiguous(Fresh) /\ Settled(Fresh) = 0
  BY EmptySeq DEF Fresh, Idle, Subscriber, Ticking, Playback, Mode, NoTime,
                  Contiguous, Settled
<1>3. CASE \E elapsed \in {0, 1} : TickBegin(elapsed)
  <2>1. PICK elapsed \in {0, 1} : TickBegin(elapsed)
    BY <1>3
  <2>2. UNCHANGED <<store, loading, session, frames, wire, acks, client, view,
                    shown, given, twice>>
    BY <2>1 DEF TickBegin
  <2>3. playback' \in Playback
    BY <1>1, <2>1, EffectiveCursorType DEF TickBegin, TypeOK, Playback
  <2>4. CASE session.live /\ session.subscribed
    <3>1. sub' = sub /\ tick' = [active |-> TRUE, ack |-> session.ack, snap |-> playback']
      BY <2>1, <2>4 DEF TickBegin
    <3>2. tick' \in Ticking /\ tick'.ack = session.ack
      BY <1>1, <2>3, <3>1 DEF Ticking, Session
    <3>3. TypeOK'
      BY <2>2, <2>3, <3>1, <3>2 DEF StreamInv, TypeOK
    <3>4. session.ack \in Nat
      BY <1>1 DEF Session
    <3> QED
      BY <2>2, <2>4, <3>1, <3>2, <3>3, <3>4
         DEF StreamInv, QueueInv, GivenInv, WireInv, AheadInv, QuietInv,
             HandedOver, Contiguous, Settled, Reached
  <2>5. CASE ~(session.live /\ session.subscribed)
    <3>1. sub' = Fresh /\ tick' = Idle
      BY <2>1, <2>5 DEF TickBegin
    <3>2. TypeOK'
      BY <1>2, <2>2, <2>3, <3>1 DEF StreamInv, TypeOK
    <3>3. QueueInv'
      <4>1. session.ack \in Nat /\ session'.ack = session.ack /\ ~tick'.active
        BY <1>1, <2>2, <3>1 DEF Session, Idle
      <4>2. Contiguous(sub)' /\ Settled(sub)' = 0
        BY <1>2, <3>1 DEF Contiguous, Settled
      <4> QED
        BY <4>1, <4>2 DEF QueueInv
    <3>4. AheadInv'
      <4>1. session.live => sub = Fresh
        BY <2>5 DEF StreamInv, QuietInv
      <4>2. session.live => Reached(sub)' = Reached(sub)
        BY <3>1, <4>1 DEF Reached
      <4> QED
        BY <2>2, <4>2 DEF StreamInv, AheadInv
    <3>5. QuietInv'
      BY <2>2, <3>1 DEF StreamInv, QuietInv, Idle
    <3> QED
      BY <2>2, <3>2, <3>3, <3>4, <3>5 DEF StreamInv, GivenInv, WireInv, HandedOver
  <2> QED
    BY <2>4, <2>5
<1>4. CASE TickGiveUp
  <2>1. UNCHANGED <<store, playback, loading, frames, wire, acks, client, view,
                    shown, given, twice>>
        /\ sub' = Fresh /\ tick' = Idle
    BY <1>4 DEF TickGiveUp
  <2>2. session' \in Session /\ session'.ack = session.ack /\ ~session'.live
        /\ session'.subscribed = session.subscribed
    BY <1>1, <1>4 DEF TickGiveUp, Session
  <2>3. TypeOK'
    BY <1>2, <2>1, <2>2 DEF StreamInv, TypeOK
  <2>4. QueueInv'
    <3>1. session.ack \in Nat /\ ~tick'.active
      BY <1>1, <2>1 DEF Session, Idle
    <3>2. Contiguous(sub)' /\ Settled(sub)' = 0
      BY <1>2, <2>1 DEF Contiguous, Settled
    <3> QED
      BY <2>2, <3>1, <3>2 DEF QueueInv
  <2>5. session.subscribed
    BY <1>4 DEF TickGiveUp, StreamInv, QuietInv
  <2> QED
    BY <2>1, <2>2, <2>3, <2>4, <2>5
       DEF StreamInv, GivenInv, WireInv, AheadInv, QuietInv, HandedOver
<1>5. CASE \E elapsed, keptReset, keptBatch, framed \in BOOLEAN :
               TickPublish(elapsed, keptReset, keptBatch, framed)
  <2>1. PICK elapsed \in BOOLEAN, keptReset \in BOOLEAN, keptBatch \in BOOLEAN,
             framed \in BOOLEAN : TickPublish(elapsed, keptReset, keptBatch, framed)
    BY <1>5
  <2> DEFINE p == Filled(Popped(sub))
             due == Due(p, elapsed)
             queue == IF due THEN Transmit(wire, p.pending[1], keptReset, keptBatch)
                      ELSE wire
  <2>2. /\ tick.active
        /\ session' = WithEpoch(session)
        /\ sub' = IF due THEN Sent(p) ELSE p
        /\ frames' = IF framed THEN frames + 1 ELSE frames
        /\ wire' = IF framed THEN Send(queue, FrameOf(p), TRUE) ELSE queue
        /\ tick' = Idle
        /\ UNCHANGED <<store, playback, loading, acks, client, view, shown, given, twice>>
    BY <2>1 DEF TickPublish
  <2>3. /\ p \in Subscriber /\ Contiguous(p) /\ Settled(p) <= session.ack
        /\ Reached(sub) <= Reached(p)
        /\ p.pending # <<>> =>
              /\ p.pending[1] \in Page
              /\ p.pending[Len(p.pending)] \in Page
              /\ p.pending[1].seq = Reached(p)
              /\ Reached(p) = Settled(p) + 1
    BY <2>2, TickQueue
  <2>4. due \in BOOLEAN /\ (due => p.pending # <<>>)
    BY DEF Due
  <2>5. /\ wire' \in Seq(Payload)
        /\ \A j \in 1..Len(wire') :
               \/ \E k \in 1..Len(wire) : wire'[j] = wire[k]
               \/ wire'[j].kind # "batch"
               \/ due /\ wire'[j] = BatchOf(p.pending[1])
    <3> DEFINE page == p.pending[1]
               first == IF due THEN Send(wire, ResetOf(page), page.baseline /\ keptReset)
                        ELSE wire
               Old(q, j) == \E k \in 1..Len(wire) : q[j] = wire[k]
    <3>1. wire \in Seq(Payload) /\ frames \in Nat /\ tick.ack \in Nat
          /\ tick.snap.revision \in Nat
      BY <1>1 DEF TypeOK, Ticking, Playback
    <3>2. (first = wire) \/ (due /\ first = Append(wire, ResetOf(page)))
      BY DEF Send
    <3>3. (queue = first) \/ (due /\ queue = Append(first, BatchOf(page)))
      BY DEF Send, Transmit
    <3>4. (wire' = queue) \/ (wire' = Append(queue, FrameOf(p)))
      BY <2>2 DEF Send
    <3>5. FrameOf(p) \in Payload /\ FrameOf(p).kind = "frame"
      <4> HIDE DEF p
      <4>1. Watermark(p) \in Nat
        BY <2>3, <3>1 DEF Watermark, Page
      <4> QED
        BY <3>1, <4>1 DEF FrameOf, Payload, Frame
    <3>6. due => page \in Page
      BY <2>3, <2>4
    <3> HIDE DEF first, queue, page, due
    <3>7. due => /\ ResetOf(page) \in Payload /\ ResetOf(page).kind = "reset"
                 /\ BatchOf(page) \in Payload
      BY <3>6 DEF ResetOf, BatchOf, Page, Payload, Reset, Batch
    <3>8. /\ first \in Seq(Payload)
          /\ \A j \in 1..Len(first) : Old(first, j) \/ first[j].kind # "batch"
      <4>1. CASE first = wire
        BY <3>1, <4>1
      <4>2. CASE due /\ first = Append(wire, ResetOf(page))
        <5>1. /\ first \in Seq(Payload)
              /\ \A j \in 1..Len(first) : first[j] = ResetOf(page) \/ Old(first, j)
          BY <3>1, <3>7, <4>2, SendKeeps
        <5> QED
          BY <3>7, <4>2, <5>1
      <4> QED
        BY <3>2, <4>1, <4>2
    <3>9. /\ queue \in Seq(Payload)
          /\ \A j \in 1..Len(queue) :
                 \/ Old(queue, j) \/ queue[j].kind # "batch"
                 \/ due /\ queue[j] = BatchOf(page)
      <4>1. CASE queue = first
        BY <3>8, <4>1
      <4>2. CASE due /\ queue = Append(first, BatchOf(page))
        <5>1. /\ queue \in Seq(Payload)
              /\ \A j \in 1..Len(queue) :
                     queue[j] = BatchOf(page) \/ \E k \in 1..Len(first) : queue[j] = first[k]
          BY <3>7, <3>8, <4>2, SendKeeps
        <5> QED
          BY <3>8, <4>2, <5>1
      <4> QED
        BY <3>3, <4>1, <4>2
    <3>10. CASE wire' = queue
      BY <3>9, <3>10 DEF page
    <3>11. CASE wire' = Append(queue, FrameOf(p))
      <4>1. /\ wire' \in Seq(Payload)
            /\ \A j \in 1..Len(wire') :
                   wire'[j] = FrameOf(p) \/ \E k \in 1..Len(queue) : wire'[j] = queue[k]
        <5> HIDE DEF p
        <5> DEFINE out == wire'
        <5>1. out = queue \/ out = Append(queue, FrameOf(p))
          BY <3>11
        <5> HIDE DEF out
        <5>2. /\ out \in Seq(Payload)
              /\ \A j \in 1..Len(out) :
                   out[j] = FrameOf(p) \/ \E k \in 1..Len(queue) : out[j] = queue[k]
          <6>1. queue \in Seq(Payload) /\ FrameOf(p) \in Payload
            BY <3>5, <3>9
          <6> QED
            BY <5>1, <6>1, SendKeeps
        <5> QED
          BY <5>2 DEF out
      <4> QED
        BY <3>5, <3>9, <4>1 DEF page
    <3> QED
      BY <3>4, <3>10, <3>11
  <2> HIDE DEF p, due, queue
  <2>6. /\ sub' \in Subscriber /\ Contiguous(sub') /\ Settled(sub') = Settled(p)
        /\ Reached(sub') = Reached(p)
    BY <2>2, <2>3, <2>4, SentKeeps
  <2>7. /\ session' \in Session /\ session'.live = session.live
        /\ session'.ack = session.ack /\ session'.subscribed = session.subscribed
    BY <1>1, <2>2 DEF WithEpoch, Session
  <2>8. TypeOK'
    <3>1. frames' \in Nat
      BY <1>1, <2>2 DEF TypeOK
    <3> QED
      BY <1>1, <1>2, <2>2, <2>5, <2>6, <2>7, <3>1 DEF TypeOK
  <2>9. QueueInv'
    <3>1. ~tick'.active
      BY <2>2 DEF Idle
    <3>2. Contiguous(sub)' /\ Settled(sub)' <= session'.ack
      BY <2>3, <2>6, <2>7 DEF Contiguous, Settled
    <3> QED
      BY <3>1, <3>2 DEF QueueInv
  <2>10. GivenInv'
    BY <2>2, <2>7 DEF StreamInv, GivenInv, HandedOver
  <2>11. due => /\ BatchOf(p.pending[1]).seq >= 1
                /\ HandedOver(BatchOf(p.pending[1]).seq - 1)
                /\ BatchOf(p.pending[1]).seq = Reached(p)
    <3>1. Settled(p) \in Nat /\ session.ack \in Nat
      BY <1>1, <2>3 DEF Contiguous, Session
    <3>2. HandedOver(Settled(p))
      BY <2>3, <3>1 DEF StreamInv, GivenInv, HandedOver
    <3>3. BatchOf(p.pending[1]).seq = p.pending[1].seq
      BY DEF BatchOf
    <3>4. due => p.pending[1].seq = Settled(p) + 1
      BY <2>3, <2>4
    <3>5. due => BatchOf(p.pending[1]).seq - 1 = Settled(p)
      BY <3>1, <3>3, <3>4
    <3> QED
      BY <2>3, <2>4, <3>1, <3>2, <3>3, <3>4, <3>5
  <2>12. WireInv'
    <3>1. \A n : HandedOver(n)' <=> HandedOver(n)
      BY <2>2 DEF HandedOver
    <3> SUFFICES ASSUME NEW j \in 1..Len(wire'), wire'[j].kind = "batch"
                 PROVE  wire'[j].seq >= 1 /\ HandedOver(wire'[j].seq - 1)
      BY <2>2 DEF WireInv, HandedOver
    <3> QED
      BY <2>5, <2>11 DEF StreamInv, WireInv
  <2>13. AheadInv'
    <3> SUFFICES ASSUME session.live PROVE
           /\ session.ack <= Reached(sub')
           /\ \A s \in acks : s <= Reached(sub')
           /\ \A i \in 1..Len(wire') :
                  wire'[i].kind = "batch" => wire'[i].seq <= Reached(sub')
      BY <2>2, <2>7 DEF AheadInv, Reached
    <3>1. Reached(sub) \in Nat /\ Reached(sub') \in Nat /\ Reached(sub) <= Reached(sub')
      BY <1>1, <2>3, <2>6, ReachedType
    <3>2. session.ack \in Nat /\ acks \subseteq Nat
      BY <1>1 DEF TypeOK, Session
    <3>3. \A k \in 1..Len(wire) : wire[k].kind = "batch" =>
             wire[k].seq \in Nat /\ wire[k].seq <= Reached(sub)
      <4> TAKE k \in 1..Len(wire)
      <4>1. wire[k] \in Payload
        BY <1>1, ElementOfSeq DEF TypeOK
      <4> QED
        BY <4>1 DEF StreamInv, AheadInv, Payload, Frame, Batch, Reset
    <3>4. \A i \in 1..Len(wire') :
             wire'[i].kind = "batch" => wire'[i].seq <= Reached(sub')
      BY <2>5, <2>6, <2>11, <3>1, <3>3
    <3> QED
      BY <3>1, <3>2, <3>4 DEF StreamInv, AheadInv
  <2>14. QuietInv'
    BY <2>2, <2>7 DEF StreamInv, QuietInv
  <2> QED
    BY <2>8, <2>9, <2>10, <2>12, <2>13, <2>14 DEF StreamInv
<1> QED
  BY <1>3, <1>4, <1>5 DEF Publisher

(***************************************************************************)
(* Receiving a payload leaves what is said of the others in flight.        *)
(***************************************************************************)
LEMMA ReceivedWire ==
    ASSUME StreamInv, NEW i \in 1..Len(wire), wire' = Without(wire, i),
           given \subseteq given'
    PROVE  /\ wire' \in Seq(Payload)
           /\ WireInv'
           /\ session.live => \A j \in 1..Len(wire') :
                  wire'[j].kind = "batch" => wire'[j].seq <= Reached(sub)
<1>1. wire \in Seq(Payload)
  BY DEF StreamInv, TypeOK
<1>2. /\ wire' \in Seq(Payload)
      /\ \A j \in 1..Len(wire') : \E k \in 1..Len(wire) : wire'[j] = wire[k]
  BY <1>1, WithoutKeeps
<1>3. \A j \in 1..Len(wire') : wire'[j].kind = "batch" =>
         wire'[j].seq >= 1 /\ HandedOver(wire'[j].seq - 1)
  BY <1>2 DEF StreamInv, WireInv
<1>4. WireInv'
  BY <1>3 DEF WireInv, HandedOver
<1> QED
  BY <1>2, <1>4 DEF StreamInv, AheadInv

(***************************************************************************)
(* The client: a batch is acknowledged only when it is handed over in the  *)
(* same step or has been before.                                           *)
(***************************************************************************)
LEMMA ClientStep == StreamInv /\ Client => StreamInv'
<1> SUFFICES ASSUME StreamInv, Client PROVE StreamInv'
  OBVIOUS
<1> USE DEF timelineVars, publisherVars, clientVars
<1>1. TypeOK /\ client \in ClientState /\ wire \in Seq(Payload)
  BY DEF StreamInv, TypeOK
<1>2. NoFrame.mark = 0 /\ NoFrame.seq = 0
  BY DEF NoFrame
<1>3. CASE ClientConnect
  <2>1. client' \in ClientState /\ client'.applied = client.applied
    BY <1>1, <1>3 DEF ClientConnect, ClientState
  <2>2. UNCHANGED <<store, playback, loading, session, sub, tick, frames, wire, acks,
                    view, shown, given, twice>>
    BY <1>3 DEF ClientConnect
  <2>3. TypeOK'
    BY <1>1, <2>1, <2>2 DEF TypeOK
  <2> QED
    BY <2>1, <2>2, <2>3 DEF StreamInv, QueueInv, GivenInv, WireInv, AheadInv,
                            QuietInv, HandedOver, Contiguous, Settled, Reached
<1>4. CASE ShowPending
  <2> DEFINE f == client.pendingFrame
             newer == f.seq > client.lastFrame
  <2>1. /\ client' = [client EXCEPT !.pendingFrame = NoFrame,
                         !.lastFrame = IF newer THEN f.seq ELSE client.lastFrame]
        /\ shown' = IF newer THEN f ELSE shown
        /\ f # NoFrame /\ f.mark <= client.applied
        /\ UNCHANGED <<store, playback, loading, session, sub, tick, frames, wire,
                       acks, view, given, twice>>
    BY <1>4 DEF ShowPending, FrameReady
  <2>2. f \in Frame /\ f.seq \in Nat /\ f.mark \in Nat /\ client.lastFrame \in Nat
        /\ client.applied \in Nat
    BY <1>1, <2>1 DEF ClientState, Frame
  <2> HIDE DEF f, newer
  <2>3. client' \in ClientState /\ client'.applied = client.applied
    BY <1>1, <2>1, <2>2 DEF ClientState
  <2>4. shown' \in Frame \cup {NoFrame}
    BY <1>1, <2>1, <2>2 DEF TypeOK
  <2>5. TypeOK'
    BY <1>1, <2>1, <2>3, <2>4 DEF TypeOK
  <2>6. HandedOver(shown.mark)'
    <3>1. HandedOver(f.mark)
      BY <2>1, <2>2 DEF StreamInv, GivenInv, HandedOver
    <3>2. HandedOver(shown'.mark)
      BY <2>1, <3>1 DEF StreamInv, GivenInv
    <3> QED
      BY <2>1, <3>2 DEF HandedOver
  <2> QED
    BY <2>1, <2>3, <2>5, <2>6 DEF StreamInv, QueueInv, GivenInv, WireInv, AheadInv,
                            QuietInv, HandedOver, Contiguous, Settled, Reached
<1>5. ASSUME NEW i \in Receivable,
             RecvEarly(i) \/ RecvFrame(i) \/ RecvReset(i)
      PROVE  StreamInv'
  <2>1. i \in 1..Len(wire)
    BY <1>5 DEF Receivable
  <2>2. wire[i] \in Payload
    BY <1>1, <2>1, ElementOfSeq
  <2>3. wire' = Without(wire, i)
        /\ UNCHANGED <<store, playback, loading, session, sub, tick, frames, acks,
                       given, twice>>
    BY <1>5 DEF RecvEarly, RecvFrame, RecvReset
  <2>4. /\ client' \in ClientState
        /\ client'.applied \in {0, client.applied}
        /\ view' \subseteq Event
        /\ shown' \in Frame \cup {NoFrame}
        /\ shown' # shown => shown'.mark \in Nat /\ shown'.mark <= client.applied
    <3>1. CASE RecvEarly(i)
      BY <1>1, <3>1 DEF RecvEarly, TypeOK
    <3>2. CASE RecvFrame(i)
      <4> DEFINE f == wire[i]
      <4>1. f \in Frame
        BY <2>2, <3>2 DEF RecvFrame, Payload, Frame, Batch, Reset
      <4>2. f.seq \in Nat /\ f.mark \in Nat
        BY <4>1 DEF Frame
      <4>3. view' = view
        BY <3>2 DEF RecvFrame
      <4>4. CASE client' = client /\ shown' = shown
        BY <1>1, <4>3, <4>4 DEF TypeOK
      <4>5. CASE /\ f.mark <= client.applied
                 /\ client' = [client EXCEPT !.lastFrame = f.seq] /\ shown' = f
        <5> HIDE DEF f
        <5>1. client' \in ClientState /\ client'.applied = client.applied
          BY <1>1, <4>2, <4>5 DEF ClientState
        <5> QED
          BY <1>1, <4>1, <4>2, <4>3, <4>5, <5>1 DEF TypeOK
      <4>6. CASE /\ client' = [client EXCEPT !.pendingFrame =
                                   IF f.seq > client.pendingFrame.seq THEN f
                                   ELSE client.pendingFrame]
                 /\ shown' = shown
        <5> HIDE DEF f
        <5>1. client' \in ClientState /\ client'.applied = client.applied
          BY <1>1, <4>1, <4>6 DEF ClientState
        <5> QED
          BY <1>1, <4>3, <4>6, <5>1 DEF TypeOK
      <4> QED
        BY <3>2, <4>4, <4>5, <4>6 DEF RecvFrame
    <3>3. CASE RecvReset(i)
      <4> DEFINE r == wire[i]
      <4>1. r.rev \in Nat
        BY <2>2, <3>3 DEF RecvReset, Payload, Frame, Batch, Reset
      <4>2. shown' = shown
        BY <3>3 DEF RecvReset
      <4>3. CASE client' = client /\ view' = view
        BY <1>1, <4>2, <4>3 DEF TypeOK
      <4>4. CASE /\ client' = [client EXCEPT !.epoch = TRUE, !.applied = 0,
                                   !.baseRev = r.rev, !.pendingFrame = NoFrame,
                                   !.lastFrame = 0]
                 /\ view' = {}
        <5> HIDE DEF r
        <5>1. client' \in ClientState /\ client'.applied = 0
          BY <1>1, <4>1, <4>4 DEF ClientState
        <5> QED
          BY <1>1, <4>2, <4>4, <5>1 DEF TypeOK
      <4> QED
        BY <3>3, <4>3, <4>4 DEF RecvReset
    <3> QED
      BY <1>5, <3>1, <3>2, <3>3
  <2>5. /\ wire' \in Seq(Payload) /\ WireInv'
        /\ session.live => \A j \in 1..Len(wire') :
               wire'[j].kind = "batch" => wire'[j].seq <= Reached(sub)
    BY <2>1, <2>3, ReceivedWire
  <2>6. TypeOK'
    BY <1>1, <2>3, <2>4, <2>5 DEF TypeOK
  <2>7. GivenInv'
    <3>1. client.applied \in Nat
      BY <1>1 DEF ClientState
    <3>2. HandedOver(client'.applied)
      BY <2>4, <3>1 DEF StreamInv, GivenInv, HandedOver
    <3>3. HandedOver(shown'.mark)
      BY <2>4, <3>1 DEF StreamInv, GivenInv, HandedOver
    <3> QED
      BY <2>3, <3>2, <3>3 DEF StreamInv, GivenInv, HandedOver
  <2>8. QueueInv'
    BY <2>3 DEF StreamInv, QueueInv, Contiguous, Settled
  <2>9. AheadInv'
    BY <2>3, <2>5 DEF StreamInv, AheadInv, Reached
  <2>10. QuietInv'
    <3>1. session.subscribed
      BY <2>1, EmptySeq DEF StreamInv, QuietInv
    <3> QED
      BY <2>3, <3>1 DEF QuietInv
  <2> QED
    BY <2>5, <2>6, <2>7, <2>8, <2>9, <2>10 DEF StreamInv
<1>6. ASSUME NEW i \in Receivable, NEW keptAck \in BOOLEAN, RecvBatch(i, keptAck)
      PROVE  StreamInv'
  <2> DEFINE b == wire[i]
             c == Rebased(b)
  <2>1. i \in 1..Len(wire)
    BY <1>6 DEF Receivable
  <2>2. b.kind = "batch" /\ wire' = Without(wire, i) /\ shown' = shown
        /\ acks' \subseteq acks \cup {b.seq}
        /\ UNCHANGED <<store, playback, loading, session, sub, tick, frames>>
    BY <1>6 DEF RecvBatch
  <2>3. b \in Batch
    <3>1. b \in Payload
      BY <1>1, <2>1, ElementOfSeq
    <3> QED
      BY <2>2, <3>1 DEF Payload, Frame, Batch, Reset
  <2>4. b.seq \in Nat /\ b.rev \in Nat /\ b.events \subseteq Event
    BY <2>3 DEF Batch
  <2>5. b.seq >= 1 /\ HandedOver(b.seq - 1) /\ (session.live => b.seq <= Reached(sub))
    BY <2>1, <2>2 DEF StreamInv, WireInv, AheadInv
  <2>6. \/ /\ b.seq <= c.applied
           /\ client' = c
           /\ UNCHANGED <<view, given, twice>>
        \/ /\ client' = [c EXCEPT !.applied = b.seq]
           /\ Consume(b)
    BY <1>6 DEF RecvBatch
  <2> HIDE DEF b
  <2>7. c \in ClientState /\ c.applied \in {0, client.applied}
    <3> DEFINE d == IF client.epoch THEN client
                    ELSE [client EXCEPT !.epoch = TRUE, !.applied = 0,
                             !.baseRev = NoRevision, !.pendingFrame = NoFrame,
                             !.lastFrame = 0]
    <3>1. d \in ClientState /\ d.applied \in {0, client.applied}
      BY <1>1 DEF ClientState
    <3>2. c = IF b.baseline /\ d.baseRev # b.rev
              THEN [d EXCEPT !.applied = 0, !.baseRev = b.rev, !.pendingFrame = NoFrame]
              ELSE d
      BY DEF Rebased
    <3> HIDE DEF d, c
    <3> QED
      BY <2>4, <3>1, <3>2 DEF ClientState
  <2> HIDE DEF c
  <2>8. client.applied \in Nat /\ c.applied \in Nat /\ HandedOver(c.applied)
    BY <1>1, <2>7 DEF ClientState, StreamInv, GivenInv, HandedOver
  <2>9. /\ client' \in ClientState /\ view' \subseteq Event
        /\ given \subseteq given' /\ given' \subseteq Nat /\ twice' \subseteq Nat
        /\ b.seq \in given'
        /\ \A s \in 1..client'.applied : s \in given'
    <3>1. given \subseteq Nat /\ twice \subseteq Nat /\ view \subseteq Event
      BY <1>1 DEF TypeOK
    <3>2. CASE b.seq <= c.applied /\ client' = c /\ UNCHANGED <<view, given, twice>>
      <4>1. b.seq \in given
        BY <2>4, <2>5, <2>8, <3>2 DEF HandedOver
      <4> QED
        BY <2>7, <2>8, <3>1, <3>2, <4>1 DEF HandedOver
    <3>3. CASE client' = [c EXCEPT !.applied = b.seq] /\ Consume(b)
      <4>1. client' \in ClientState /\ client'.applied = b.seq
        BY <2>4, <2>7, <3>3 DEF ClientState
      <4>2. given' = given \cup {b.seq} /\ twice' \subseteq twice \cup {b.seq}
            /\ view' \subseteq view \cup b.events
        BY <3>3 DEF Consume
      <4>3. \A s \in 1..b.seq : s \in 1..(b.seq - 1) \/ s = b.seq
        BY <2>4
      <4> QED
        BY <2>4, <2>5, <3>1, <4>1, <4>2, <4>3 DEF HandedOver
    <3> QED
      BY <2>6, <3>2, <3>3
  <2>10. /\ wire' \in Seq(Payload) /\ WireInv'
         /\ session.live => \A j \in 1..Len(wire') :
                wire'[j].kind = "batch" => wire'[j].seq <= Reached(sub)
    BY <2>1, <2>2, <2>9, ReceivedWire
  <2>11. TypeOK'
    BY <1>1, <2>2, <2>4, <2>9, <2>10 DEF TypeOK
  <2>12. GivenInv'
    BY <2>2, <2>9 DEF StreamInv, GivenInv, HandedOver
  <2>13. QueueInv'
    BY <2>2 DEF StreamInv, QueueInv, Contiguous, Settled
  <2>14. AheadInv'
    BY <2>2, <2>5, <2>10 DEF StreamInv, AheadInv, Reached
  <2>15. QuietInv'
    <3>1. session.subscribed
      BY <2>1, EmptySeq DEF StreamInv, QuietInv
    <3> QED
      BY <2>2, <3>1 DEF QuietInv
  <2> QED
    BY <2>10, <2>11, <2>12, <2>13, <2>14, <2>15 DEF StreamInv
<1> QED
  BY <1>3, <1>4, <1>5, <1>6 DEF Client

(***************************************************************************)
(* StreamInv holds in the initial states and is kept by every step.        *)
(***************************************************************************)
THEOREM StreamInvariant == Spec => []StreamInv
<1>1. Init => StreamInv
  <2> SUFFICES ASSUME Init PROVE StreamInv
    OBVIOUS
  <2>1. store \in Store
    BY StreamAssumption DEF Init
  <2>2. Earliest(store) \in Nat
    BY <2>1, Bounds
  <2>3. playback \in Playback
    BY <2>2 DEF Init, Playback, Mode, NoTime
  <2>4. sub \in Subscriber /\ Contiguous(sub) /\ Settled(sub) = 0 /\ Reached(sub) = 0
    BY EmptySeq DEF Init, Fresh, Subscriber, Contiguous, Settled, Reached, NoTime
  <2>5. tick \in Ticking /\ ~tick.active
    BY DEF Init, Idle, Ticking, Playback, Mode, NoTime
  <2>6. wire \in Seq(Payload) /\ Len(wire) = 0 /\ wire = <<>>
    BY EmptySeq DEF Init
  <2>7. client \in ClientState /\ client.applied = 0
    BY DEF Init, ClientState
  <2>8. session \in Session /\ session.ack = 0
    BY DEF Init, Session
  <2>9. shown = NoFrame /\ shown.mark = 0 /\ acks = {} /\ given = {} /\ sub = Fresh
    BY DEF Init, NoFrame
  <2>10. TypeOK
    BY <2>1, <2>3, <2>4, <2>5, <2>6, <2>7, <2>8, <2>9 DEF Init, TypeOK
  <2> QED
    BY <2>4, <2>5, <2>6, <2>7, <2>8, <2>9, <2>10
       DEF StreamInv, QueueInv, GivenInv, WireInv, AheadInv, QuietInv, HandedOver
<1>2. StreamInv /\ [Next]_vars => StreamInv'
  <2>1. StreamInv /\ UNCHANGED vars => StreamInv'
    BY DEF vars, timelineVars, publisherVars, clientVars, StreamInv, TypeOK, QueueInv,
           GivenInv, WireInv, AheadInv, QuietInv, HandedOver, Contiguous, Settled, Reached
  <2> QED
    BY <2>1, TimelinesStep, SessionsStep, PublisherStep, ClientStep DEF Next
<1> QED
  BY <1>1, <1>2, PTL DEF Spec

(***************************************************************************)
(* Type correctness of the whole stream.                                   *)
(***************************************************************************)
THEOREM TypeCorrect == Spec => []TypeOK
<1>1. StreamInv => TypeOK
  BY DEF StreamInv
<1> QED
  BY <1>1, StreamInvariant, PTL

(***************************************************************************)
(* What the session counts as acknowledged has been handed over.           *)
(***************************************************************************)
THEOREM AckedWasGiven == Spec => []AckedIsGiven
<1>1. StreamInv => AckedIsGiven
  BY DEF StreamInv, GivenInv, HandedOver, AckedIsGiven
<1> QED
  BY <1>1, StreamInvariant, PTL

(***************************************************************************)
(* A frame is shown only after the batches up to its watermark.            *)
(***************************************************************************)
THEOREM FramesWait == Spec => []FrameAfterEvents
<1>1. StreamInv => FrameAfterEvents
  BY DEF StreamInv, GivenInv, HandedOver, FrameAfterEvents
<1> QED
  BY <1>1, StreamInvariant, PTL

(***************************************************************************)
(* The publisher and the session never part by more than one page.         *)
(***************************************************************************)
THEOREM NeverParted == Spec => []StopAndWait
<1>1. StreamInv => StopAndWait
  <2> SUFFICES ASSUME StreamInv, session.live PROVE StopAndWait
    BY DEF StopAndWait
  <2>1. /\ sub \in Subscriber /\ session.ack \in Nat
        /\ Settled(sub) \in Nat /\ Settled(sub) <= session.ack
        /\ session.ack <= Reached(sub)
    BY DEF StreamInv, TypeOK, Session, QueueInv, Contiguous, AheadInv
  <2>2. CASE sub.pending = <<>>
    <3>1. Len(sub.pending) = 0
      BY <2>2, EmptySeq
    <3>2. sub.next \in Nat /\ Settled(sub) = sub.next /\ Reached(sub) = sub.next
      BY <2>1, <2>2, <3>1 DEF Settled, Reached, Subscriber
    <3>3. sub.next = session.ack
      BY <2>1, <3>2
    <3> QED
      BY <2>2, <3>3 DEF StopAndWait
  <2>3. CASE sub.pending # <<>>
    <3>1. Len(sub.pending) \in Nat \ {0}
      BY <2>1, <2>3, FrontOfQueue DEF Subscriber
    <3>2. sub.pending[1].seq = Settled(sub) + 1 /\ Reached(sub) = sub.pending[1].seq
      BY <2>3, <3>1 DEF StreamInv, QueueInv, Contiguous, Reached
    <3>3. sub.pending[1].seq \in {session.ack, session.ack + 1}
      BY <2>1, <3>2
    <3> QED
      BY <2>3, <3>3 DEF StopAndWait
  <2> QED
    BY <2>2, <2>3
<1> QED
  BY <1>1, StreamInvariant, PTL
-----------------------------------------------------------------------------
(***************************************************************************)
(* A network that does not overtake: the consumer has been given 1 .. g,   *)
(* and of the pages only g, its copies first, and g + 1 are in flight.     *)
(***************************************************************************)
BatchIn(m, n) == m.kind = "batch" /\ m.seq = n

(* A copy of page g finds the client as the first one left it: neither a   *)
(* reset nor a batch of the next page is ahead of it.  The copies of page  *)
(* g + 1 are alike, and a reset among them is its own.                     *)
InOrder(g, w, c) ==
    /\ \A i \in 1..Len(w) : w[i].kind = "batch" => w[i].seq \in {g, g + 1}
    /\ \A j \in 1..Len(w) : BatchIn(w[j], g) =>
          /\ c.epoch /\ c.applied = g
          /\ w[j].baseline => w[j].rev = c.baseRev
          /\ \A i \in 1..(j - 1) :
                /\ w[i].kind = "batch" => w[i].seq = g
                /\ w[i].kind = "reset" => w[i].rev = c.baseRev
    /\ \A j \in 1..Len(w) : \A i \in 1..(j - 1) : BatchIn(w[i], g + 1) =>
          /\ w[j].kind = "batch" => w[j].baseline = w[i].baseline /\ w[j].rev = w[i].rev
          /\ w[j].kind = "reset" => w[i].baseline /\ w[j].rev = w[i].rev

(* The first pending page is g or g + 1.  As long as it is g, nothing else *)
(* is in flight and the client stands at it.                               *)
Follows(g, p, w, c) ==
    /\ p.pending = <<>> =>
          p.next = g /\ \A i \in 1..Len(w) : w[i].kind = "batch" => w[i].seq = g
    /\ p.pending # <<>> =>
          /\ p.pending[1].seq \in {g, g + 1}
          /\ p.pending[1].seq = g =>
                /\ c.epoch /\ c.applied = g
                /\ p.pending[1].baseline => p.pending[1].rev = c.baseRev
                /\ \A i \in 1..Len(w) :
                      /\ w[i].kind = "batch" => w[i].seq = g
                      /\ w[i].kind = "reset" => w[i].rev = c.baseRev
          /\ p.pending[1].seq = g + 1 =>
                \A i \in 1..Len(w) : BatchIn(w[i], g + 1) =>
                    /\ w[i].baseline = p.pending[1].baseline
                    /\ w[i].rev = p.pending[1].rev

OnceUpTo(g) ==
    /\ given = 1..g /\ twice = {} /\ client.applied <= g
    /\ InOrder(g, wire, client)
    /\ session.live \/ tick.active => Follows(g, sub, wire, client)

OnceInv == \E g \in Nat : OnceUpTo(g)
(* m is sent for the first page of the queue, or is a frame.               *)
SentFor(m, page) ==
    /\ m.kind \in {"batch", "reset"}
    /\ m.rev = page.rev
    /\ m.kind = "batch" => m.seq = page.seq /\ m.baseline = page.baseline
    /\ m.kind = "reset" => page.baseline

(***************************************************************************)
(* What a tick sends goes behind everything in flight and keeps the order. *)
(***************************************************************************)
LEMMA PutKeeps ==
    ASSUME NEW g \in Nat, NEW p, NEW c, NEW w \in Seq(Payload), NEW m \in Payload,
           InOrder(g, w, c), Follows(g, p, w, c),
           m.kind = "frame" \/ (p.pending # <<>> /\ SentFor(m, p.pending[1]))
    PROVE  InOrder(g, Append(w, m), c) /\ Follows(g, p, Append(w, m), c)
<1> DEFINE r == Append(w, m)
           L == Len(w)
           h == p.pending[1]
<1>1. /\ L \in Nat /\ Len(r) = L + 1 /\ r[L + 1] = m
      /\ \A i \in 1..L : r[i] = w[i]
  BY AppendProperties, LenProperties
<1>2. \A i \in 1..Len(r) : i \in 1..L \/ i = L + 1
  BY <1>1
<1>3. m.kind = "frame" \/ m.kind = "batch" \/ m.kind = "reset"
  BY DEF SentFor
<1>4. ASSUME m.kind # "frame"
      PROVE  /\ p.pending # <<>> /\ h.seq \in {g, g + 1} /\ m.rev = h.rev
             /\ m.kind = "batch" => m.seq = h.seq /\ m.baseline = h.baseline
             /\ m.kind = "reset" => h.baseline
             /\ h.seq = g =>
                  /\ c.epoch /\ c.applied = g
                  /\ h.baseline => h.rev = c.baseRev
                  /\ \A i \in 1..L : /\ w[i].kind = "batch" => w[i].seq = g
                                     /\ w[i].kind = "reset" => w[i].rev = c.baseRev
             /\ h.seq = g + 1 =>
                  \A i \in 1..L : BatchIn(w[i], g + 1) =>
                      w[i].baseline = h.baseline /\ w[i].rev = h.rev
  BY <1>4 DEF SentFor, Follows
<1> HIDE DEF r, L, h
<1>5. ASSUME NEW i \in 1..Len(r), r[i].kind = "batch" PROVE r[i].seq \in {g, g + 1}
  <2>1. CASE i \in 1..L
    BY <1>1, <1>5, <2>1 DEF InOrder, L
  <2>2. CASE i = L + 1
    BY <1>1, <1>4, <1>5, <2>2
  <2> QED
    BY <1>2, <2>1, <2>2
<1>6. ASSUME NEW j \in 1..Len(r), BatchIn(r[j], g)
      PROVE  /\ c.epoch /\ c.applied = g
             /\ r[j].baseline => r[j].rev = c.baseRev
             /\ \A i \in 1..(j - 1) :
                   /\ r[i].kind = "batch" => r[i].seq = g
                   /\ r[i].kind = "reset" => r[i].rev = c.baseRev
  <2>1. CASE j \in 1..L
    <3>1. BatchIn(w[j], g) /\ r[j] = w[j] /\ \A i \in 1..(j - 1) : r[i] = w[i]
      BY <1>1, <1>6, <2>1
    <3>2. /\ c.epoch /\ c.applied = g
          /\ w[j].baseline => w[j].rev = c.baseRev
          /\ \A i \in 1..(j - 1) :
                /\ w[i].kind = "batch" => w[i].seq = g
                /\ w[i].kind = "reset" => w[i].rev = c.baseRev
      BY <2>1, <3>1 DEF InOrder, L
    <3> QED
      BY <3>1, <3>2
  <2>2. CASE j = L + 1
    <3>1. m.kind = "batch" /\ m.seq = g /\ r[j] = m
      BY <1>1, <1>6, <2>2 DEF BatchIn
    <3>2. \A i \in 1..(j - 1) : i \in 1..L /\ r[i] = w[i]
      BY <1>1, <2>2
    <3>3. h.seq = g /\ m.baseline = h.baseline /\ m.rev = h.rev
      BY <1>4, <3>1
    <3> QED
      BY <1>4, <3>1, <3>2, <3>3
  <2> QED
    BY <1>2, <2>1, <2>2
<1>7. ASSUME NEW j \in 1..Len(r), NEW i \in 1..(j - 1), BatchIn(r[i], g + 1)
      PROVE  /\ r[j].kind = "batch" => r[j].baseline = r[i].baseline /\ r[j].rev = r[i].rev
             /\ r[j].kind = "reset" => r[i].baseline /\ r[j].rev = r[i].rev
  <2>0. i \in 1..L /\ r[i] = w[i] /\ BatchIn(w[i], g + 1)
    BY <1>1, <1>7
  <2>1. CASE j \in 1..L
    <3>1. r[j] = w[j]
      BY <1>1, <2>1
    <3>2. /\ w[j].kind = "batch" => w[j].baseline = w[i].baseline /\ w[j].rev = w[i].rev
          /\ w[j].kind = "reset" => w[i].baseline /\ w[j].rev = w[i].rev
      BY <2>0, <2>1 DEF InOrder, L
    <3> QED
      BY <2>0, <3>1, <3>2
  <2>2. CASE j = L + 1
    <3>1. r[j] = m
      BY <1>1, <2>2
    <3>2. CASE m.kind = "frame"
      BY <3>1, <3>2
    <3>3. CASE m.kind # "frame"
      <4>1. h.seq = g + 1
        <5>1. w[i].seq = g + 1 /\ w[i].kind = "batch"
          BY <2>0 DEF BatchIn
        <5>2. h.seq # g
          BY <1>4, <2>0, <3>3, <5>1
        <5> QED
          BY <1>4, <3>3, <5>2
      <4>2. w[i].baseline = h.baseline /\ w[i].rev = h.rev
        BY <1>4, <2>0, <3>3, <4>1
      <4> QED
        BY <1>4, <2>0, <3>1, <3>3, <4>2
    <3> QED
      BY <3>2, <3>3
  <2> QED
    BY <1>2, <2>1, <2>2
<1>8. InOrder(g, r, c)
  BY <1>5, <1>6, <1>7 DEF InOrder
<1>9. Follows(g, p, r, c)
  <2>1. CASE m.kind = "frame"
    <3>1. \A i \in 1..Len(r) : r[i].kind # "frame" => i \in 1..L /\ r[i] = w[i]
      BY <1>1, <1>2, <2>1
    <3> QED
      BY <3>1 DEF Follows, BatchIn, L
  <2>2. CASE m.kind # "frame"
    <3>1. \A i \in 1..Len(r) : (i \in 1..L /\ r[i] = w[i]) \/ r[i] = m
      BY <1>1, <1>2
    <3>2. ASSUME h.seq = g
          PROVE  \A i \in 1..Len(r) : /\ r[i].kind = "batch" => r[i].seq = g
                                      /\ r[i].kind = "reset" => r[i].rev = c.baseRev
      BY <1>4, <2>2, <3>1, <3>2
    <3>3. ASSUME h.seq = g + 1
          PROVE  \A i \in 1..Len(r) : BatchIn(r[i], g + 1) =>
                     r[i].baseline = h.baseline /\ r[i].rev = h.rev
      BY <1>4, <2>2, <3>1, <3>3 DEF BatchIn
    <3> QED
      BY <1>4, <2>2, <3>2, <3>3 DEF Follows, h
  <2> QED
    BY <2>1, <2>2
<1> QED
  BY <1>8, <1>9 DEF r

(***************************************************************************)
(* The oldest payload leaves the network: the rest keeps the order.        *)
(***************************************************************************)
LEMMA GetKeeps ==
    ASSUME NEW g \in Nat, NEW c, NEW w \in Seq(Payload), 1 \in 1..Len(w), InOrder(g, w, c)
    PROVE  /\ InOrder(g, Without(w, 1), c)
           /\ Len(Without(w, 1)) = Len(w) - 1
           /\ \A j \in 1..Len(Without(w, 1)) : j + 1 \in 1..Len(w) /\ Without(w, 1)[j] = w[j + 1]
           /\ \A p : Follows(g, p, w, c) => Follows(g, p, Without(w, 1), c)
<1> DEFINE r == Without(w, 1)
<1>1. /\ Len(w) \in Nat \ {0} /\ Len(r) = Len(w) - 1
      /\ \A j \in 1..Len(r) : j + 1 \in 1..Len(w) /\ r[j] = w[j + 1]
  <2>1. Len(w) \in Nat \ {0}
    BY LenProperties
  <2>2. r = [j \in 1..(Len(w) - 1) |-> w[j + 1]]
    BY <2>1 DEF Without
  <2>3. r \in Seq(Payload)
    BY WithoutKeeps
  <2>4. Len(r) = Len(w) - 1
    <3>1. DOMAIN r = 1..(Len(w) - 1) /\ DOMAIN r = 1..Len(r) /\ Len(r) \in Nat
      BY <2>2, <2>3, LenProperties
    <3> QED
      BY <2>1, <3>1
  <2> HIDE DEF r
  <2> QED
    BY <2>1, <2>2, <2>4
<1> HIDE DEF r
<1>2. ASSUME NEW j \in 1..Len(r), BatchIn(r[j], g)
      PROVE  /\ c.epoch /\ c.applied = g
             /\ r[j].baseline => r[j].rev = c.baseRev
             /\ \A i \in 1..(j - 1) :
                   /\ r[i].kind = "batch" => r[i].seq = g
                   /\ r[i].kind = "reset" => r[i].rev = c.baseRev
  <2>1. j + 1 \in 1..Len(w) /\ r[j] = w[j + 1]
    BY <1>1
  <2>2. /\ c.epoch /\ c.applied = g
        /\ w[j + 1].baseline => w[j + 1].rev = c.baseRev
        /\ \A i \in 1..((j + 1) - 1) :
              /\ w[i].kind = "batch" => w[i].seq = g
              /\ w[i].kind = "reset" => w[i].rev = c.baseRev
    BY <1>2, <2>1 DEF InOrder
  <2>3. \A i \in 1..(j - 1) : i + 1 \in 1..((j + 1) - 1) /\ r[i] = w[i + 1]
    BY <1>1
  <2> QED
    BY <2>1, <2>2, <2>3
<1>3. ASSUME NEW j \in 1..Len(r), NEW i \in 1..(j - 1), BatchIn(r[i], g + 1)
      PROVE  /\ r[j].kind = "batch" => r[j].baseline = r[i].baseline /\ r[j].rev = r[i].rev
             /\ r[j].kind = "reset" => r[i].baseline /\ r[j].rev = r[i].rev
  <2>1. /\ j + 1 \in 1..Len(w) /\ i + 1 \in 1..((j + 1) - 1)
        /\ r[j] = w[j + 1] /\ r[i] = w[i + 1]
    <3>1. i \in 1..Len(r) /\ i + 1 \in 1..((j + 1) - 1)
      BY <1>1
    <3> QED
      BY <1>1, <3>1
  <2>2. /\ w[j + 1].kind = "batch" =>
              w[j + 1].baseline = w[i + 1].baseline /\ w[j + 1].rev = w[i + 1].rev
        /\ w[j + 1].kind = "reset" => w[i + 1].baseline /\ w[j + 1].rev = w[i + 1].rev
    BY <1>3, <2>1 DEF InOrder
  <2> QED
    BY <2>1, <2>2
<1>4. InOrder(g, r, c)
  <2>1. \A i \in 1..Len(r) : r[i].kind = "batch" => r[i].seq \in {g, g + 1}
    BY <1>1 DEF InOrder
  <2> QED
    BY <1>2, <1>3, <2>1 DEF InOrder
<1>5. ASSUME NEW p, Follows(g, p, w, c) PROVE Follows(g, p, r, c)
  <2> HIDE DEF r
  <2>1. \A j \in 1..Len(r) : \E i \in 1..Len(w) : r[j] = w[i]
    BY <1>1
  <2>2. CASE p.pending = <<>>
    BY <1>5, <2>1, <2>2 DEF Follows
  <2>3. CASE p.pending # <<>>
    <3>1. CASE p.pending[1].seq = g
      BY <1>5, <2>1, <2>3, <3>1 DEF Follows
    <3>2. CASE p.pending[1].seq = g + 1
      <4>1. p.pending[1].seq # g
        BY <3>2
      <4> QED
        BY <1>5, <2>1, <2>3, <3>2, <4>1 DEF Follows
    <3> QED
      BY <1>5, <2>3, <3>1, <3>2 DEF Follows
  <2> QED
    BY <2>2, <2>3
<1> QED
  BY <1>1, <1>4, <1>5 DEF r

(***************************************************************************)
(* Only the acknowledgement of page g can remove a page, and the queue     *)
(* then continues with page g + 1 (Popped, Filled).                        *)
(***************************************************************************)
LEMMA TickFollows ==
    ASSUME StreamInv, tick.active, NEW g \in Nat, given = 1..g,
           Follows(g, sub, wire, client)
    PROVE  Follows(g, Filled(Popped(sub)), wire, client)
<1> DEFINE o == Popped(sub)
           p == Filled(o)
           q == sub.pending
<1>1. /\ TypeOK /\ sub \in Subscriber /\ Contiguous(sub) /\ q \in Seq(Page) /\ sub.next \in Nat
      /\ tick.ack \in Nat /\ session.ack \in Nat /\ tick.ack <= session.ack
  BY DEF StreamInv, TypeOK, QueueInv, Subscriber, Ticking, Session
<1>2. tick.ack <= g
  <2>1. session.ack = 0 \/ session.ack \in 1..g
    BY <1>1 DEF StreamInv, GivenInv, HandedOver
  <2> QED
    BY <1>1, <2>1
<1>3. o \in Subscriber /\ Contiguous(o)
  BY <1>1, PoppedKeeps
<1>4. Follows(g, o, wire, client)
  <2>1. CASE ~(q # <<>> /\ tick.ack >= q[1].seq)
    <3>1. o = sub
      BY <2>1 DEF Popped
    <3> QED
      BY <3>1
  <2>2. CASE q # <<>> /\ tick.ack >= q[1].seq
    <3>1. q[1] \in Page /\ Len(q) \in Nat \ {0} /\ Tail(q) \in Seq(Page) /\ Len(Tail(q)) = Len(q) - 1
          /\ \A i \in 1..Len(Tail(q)) : Tail(q)[i] = q[i + 1]
      BY <1>1, <2>2, FrontOfQueue
    <3>2. q[1].seq \in Nat /\ q[1].seq = Settled(sub) + 1 /\ Settled(sub) \in Nat
      <4>1. 1 \in 1..Len(q)
        BY <3>1
      <4>2. Settled(sub) \in Nat /\ q[1].seq = Settled(sub) + 1
        BY <1>1, <4>1 DEF Contiguous
      <4> QED
        BY <4>2
    <3>3. q[1].seq = g
      BY <1>1, <1>2, <2>2, <3>2 DEF Follows
    <3>4. \A i \in 1..Len(wire) : wire[i].kind = "batch" => wire[i].seq = g
      BY <2>2, <3>3 DEF Follows
    <3>5. o.pending = Tail(q) /\ o.next = sub.next
      BY <1>1, <2>2 DEF Popped, Subscriber
    <3>6. CASE Tail(q) = <<>>
      <4>0. Len(Tail(q)) = 0
        BY <3>6, EmptySeq
      <4>1. Len(q) = 1
        BY <3>1, <4>0
      <4>2. sub.next = g
        BY <1>1, <3>2, <3>3, <4>1 DEF Settled
      <4> HIDE DEF o
      <4> QED
        BY <3>4, <3>5, <3>6, <4>2 DEF Follows
    <3>7. CASE Tail(q) # <<>>
      <4>1. 1 \in 1..Len(Tail(q)) /\ 2 \in 1..Len(q)
        BY <3>1, <3>7, EmptySeq
      <4>2. Tail(q)[1].seq = g + 1
        BY <1>1, <3>1, <3>2, <3>3, <4>1 DEF Contiguous
      <4>3. \A i \in 1..Len(wire) : ~BatchIn(wire[i], g + 1)
        BY <3>4 DEF BatchIn
      <4> HIDE DEF o
      <4> QED
        BY <3>5, <3>7, <4>2, <4>3 DEF Follows
    <3> QED
      BY <3>6, <3>7
  <2> QED
    BY <2>1, <2>2
<1> HIDE DEF o
<1>5. CASE o.pending # <<>>
  <2>1. p = o
    BY <1>5 DEF Filled
  <2> QED
    BY <1>4, <2>1 DEF o
<1>6. CASE o.pending = <<>>
  <2>1. /\ o.next = g /\ o.next \in Nat
        /\ \A i \in 1..Len(wire) : wire[i].kind = "batch" => wire[i].seq = g
    BY <1>4, <1>6 DEF Follows
  <2>2. \A i \in 1..Len(wire) : ~BatchIn(wire[i], g + 1)
    BY <2>1 DEF BatchIn
  <2>3. CASE IsBaseline(o) \/ NewEvents(o) # {}
    <3> DEFINE pages == Pages(o)
    <3>1. /\ pages \in Seq(Page) /\ Len(pages) \in Nat
          /\ \A i \in 1..Len(pages) : pages[i].seq = o.next + i
      BY <1>1, <1>3, PagesType
    <3>2. p.pending = pages /\ p.next = o.next + Len(pages)
      BY <1>3, <1>6, <2>3 DEF Filled, Subscriber
    <3> HIDE DEF p, pages
    <3>3. CASE pages = <<>>
      <4>1. Len(pages) = 0
        BY <3>3, EmptySeq
      <4>2. p.next = g
        BY <2>1, <3>2, <4>1
      <4> QED
        BY <2>1, <3>2, <3>3, <4>2 DEF Follows, p, o
    <3>4. CASE pages # <<>>
      <4>1. 1 \in 1..Len(pages)
        BY <3>1, <3>4, EmptySeq
      <4>2. pages[1].seq = g + 1
        BY <2>1, <3>1, <4>1
      <4>3. Follows(g, p, wire, client)
        BY <2>2, <3>2, <3>4, <4>2 DEF Follows
      <4> QED
        BY <4>3 DEF p, o
    <3> QED
      BY <3>3, <3>4
  <2>4. CASE ~(IsBaseline(o) \/ NewEvents(o) # {})
    <3>1. p.pending = o.pending /\ p.next = o.next
      BY <1>3, <1>6, <2>4 DEF Filled, Subscriber
    <3> HIDE DEF p
    <3>2. Follows(g, p, wire, client)
      BY <1>6, <2>1, <3>1 DEF Follows
    <3> QED
      BY <3>2 DEF p, o
  <2> QED
    BY <2>3, <2>4
<1> QED
  BY <1>5, <1>6

(***************************************************************************)
(* Counting a transmission leaves the page it is counted on.               *)
(***************************************************************************)
LEMMA SentFollows ==
    ASSUME NEW g \in Nat, NEW p \in Subscriber, p.pending # <<>>, NEW w, NEW c,
           Follows(g, p, w, c)
    PROVE  Follows(g, Sent(p), w, c)
<1> DEFINE front == p.pending[1]
           first == [front EXCEPT !.attempts = front.attempts + 1]
           r == [p.pending EXCEPT ![1] = first]
<1>1. p.pending \in Seq(Page) /\ Len(p.pending) \in Nat \ {0} /\ front \in Page
  BY FrontOfQueue DEF Subscriber
<1>2. first.seq = front.seq /\ first.baseline = front.baseline /\ first.rev = front.rev
  <2> HIDE DEF front
  <2> QED
    BY <1>1 DEF Page
<1> HIDE DEF first
<1>3. 1 \in 1..Len(p.pending) /\ p.pending \in [1..Len(p.pending) -> Page]
  BY <1>1, LenProperties
<1>4. r[1] = first /\ DOMAIN r = 1..Len(p.pending)
  BY <1>3
<1>5. r # <<>>
  <2>1. DOMAIN <<>> = {}
    OBVIOUS
  <2> QED
    BY <1>3, <1>4, <2>1
<1>6. Sent(p).pending = r
  BY DEF Sent, first, Subscriber
<1> HIDE DEF r
<1>7. Sent(p).pending # <<>> /\ Sent(p).pending[1] = first
  BY <1>4, <1>5, <1>6
<1> QED
  BY <1>2, <1>7 DEF Follows

(***************************************************************************)
(* A tick sends page g + 1 only, or page g again behind its copies.        *)
(***************************************************************************)
LEMMA PublisherOnce ==
    ASSUME StreamInv, NEW g \in Nat, OnceUpTo(g), Publisher
    PROVE  OnceUpTo(g)'
<1> USE DEF timelineVars, publisherVars, clientVars
<1>1. /\ given = 1..g /\ twice = {} /\ client.applied <= g /\ InOrder(g, wire, client)
      /\ session.live \/ tick.active => Follows(g, sub, wire, client)
  BY DEF OnceUpTo
<1>2. CASE \E elapsed \in {0, 1} : TickBegin(elapsed)
  <2>1. PICK elapsed \in {0, 1} : TickBegin(elapsed)
    BY <1>2
  <2>2. UNCHANGED <<session, wire, client, given, twice>>
    BY <2>1 DEF TickBegin
  <2>3. CASE session.live /\ session.subscribed
    <3>1. sub' = sub
      BY <2>1, <2>3 DEF TickBegin
    <3> QED
      BY <1>1, <2>2, <2>3, <3>1 DEF OnceUpTo
  <2>4. CASE ~(session.live /\ session.subscribed)
    <3>1. sub' = Fresh /\ ~tick'.active
      BY <2>1, <2>4 DEF TickBegin, Idle
    <3>2. session.live => sub = Fresh
      BY <2>4 DEF StreamInv, QuietInv
    <3>3. session'.live => Follows(g, sub', wire', client')
      BY <1>1, <2>2, <3>1, <3>2
    <3> QED
      BY <1>1, <2>2, <3>1, <3>3 DEF OnceUpTo
  <2> QED
    BY <2>3, <2>4
<1>3. CASE TickGiveUp
  <2>1. UNCHANGED <<wire, client, given, twice>> /\ tick' = Idle
    BY <1>3 DEF TickGiveUp
  <2>2. ~session'.live /\ ~tick'.active
    BY <1>3, <2>1 DEF TickGiveUp, Idle, StreamInv, TypeOK, Session
  <2> QED
    BY <1>1, <2>1, <2>2 DEF OnceUpTo
<1>4. CASE \E elapsed, keptReset, keptBatch, framed \in BOOLEAN :
               TickPublish(elapsed, keptReset, keptBatch, framed)
  <2>1. PICK elapsed \in BOOLEAN, keptReset \in BOOLEAN, keptBatch \in BOOLEAN,
             framed \in BOOLEAN : TickPublish(elapsed, keptReset, keptBatch, framed)
    BY <1>4
  <2> DEFINE p == Filled(Popped(sub))
             due == Due(p, elapsed)
             page == p.pending[1]
             first == IF due THEN Send(wire, ResetOf(page), page.baseline /\ keptReset)
                      ELSE wire
             queue == IF due THEN Transmit(wire, page, keptReset, keptBatch) ELSE wire
             frame == FrameOf(p)
  <2>2. /\ tick.active
        /\ sub' = IF due THEN Sent(p) ELSE p
        /\ wire' = IF framed THEN Send(queue, frame, TRUE) ELSE queue
        /\ UNCHANGED <<client, given, twice>>
    BY <2>1 DEF TickPublish
  <2>3. /\ p \in Subscriber
        /\ p.pending # <<>> => page \in Page /\ p.pending[Len(p.pending)] \in Page
    BY <2>2, TickQueue
  <2>4. Follows(g, p, wire, client)
    BY <1>1, <2>2, TickFollows
  <2>5. due => p.pending # <<>>
    BY DEF Due
  <2>6. (first = wire) \/ (due /\ page.baseline /\ first = Append(wire, ResetOf(page)))
    BY DEF Send
  <2>7. (queue = first) \/ (due /\ queue = Append(first, BatchOf(page)))
    BY DEF Send, Transmit
  <2>8. (wire' = queue) \/ (wire' = Append(queue, frame))
    BY <2>2 DEF Send
  <2>9. /\ wire \in Seq(Payload) /\ frames \in Nat /\ tick.ack \in Nat
        /\ tick.snap.revision \in Nat
    BY DEF StreamInv, TypeOK, Ticking, Playback
  <2>10. frame \in Payload /\ frame.kind = "frame"
    <3> HIDE DEF p
    <3>1. Watermark(p) \in Nat
      BY <2>3, <2>9 DEF Watermark, Page
    <3> QED
      BY <2>9, <3>1 DEF FrameOf, Payload, Frame
  <2> HIDE DEF p, due, first, queue, frame
  <2>11. due => /\ ResetOf(page) \in Payload /\ BatchOf(page) \in Payload
                /\ page.baseline => SentFor(ResetOf(page), page)
                /\ SentFor(BatchOf(page), page)
    <3>1. due => page \in Page
      BY <2>3, <2>5
    <3> HIDE DEF page
    <3> QED
      BY <3>1 DEF ResetOf, BatchOf, Page, Payload, Reset, Batch, SentFor
  <2>12. first \in Seq(Payload) /\ InOrder(g, first, client) /\ Follows(g, p, first, client)
    <3>1. CASE first = wire
      BY <1>1, <2>4, <2>9, <3>1
    <3>2. CASE due /\ page.baseline /\ first = Append(wire, ResetOf(page))
      <4>1. ResetOf(page) \in Payload /\ SentFor(ResetOf(page), p.pending[1]) /\ p.pending # <<>>
        BY <2>5, <2>11, <3>2
      <4> QED
        BY <1>1, <2>4, <2>9, <3>2, <4>1, PutKeeps, AppendProperties
    <3> QED
      BY <2>6, <3>1, <3>2
  <2>13. queue \in Seq(Payload) /\ InOrder(g, queue, client) /\ Follows(g, p, queue, client)
    <3>1. CASE queue = first
      BY <2>12, <3>1
    <3>2. CASE due /\ queue = Append(first, BatchOf(page))
      <4>1. BatchOf(page) \in Payload /\ SentFor(BatchOf(page), p.pending[1]) /\ p.pending # <<>>
        BY <2>5, <2>11, <3>2
      <4> QED
        BY <2>12, <3>2, <4>1, PutKeeps, AppendProperties
    <3> QED
      BY <2>7, <3>1, <3>2
  <2>14. InOrder(g, wire', client) /\ Follows(g, p, wire', client)
    <3>1. CASE wire' = queue
      BY <2>13, <3>1
    <3>2. CASE wire' = Append(queue, frame)
      BY <2>10, <2>13, <3>2, PutKeeps
    <3> QED
      BY <2>8, <3>1, <3>2
  <2>15. Follows(g, sub', wire', client)
    <3>1. CASE due
      BY <2>2, <2>3, <2>5, <2>14, <3>1, SentFollows
    <3>2. CASE ~due
      BY <2>2, <2>14, <3>2
    <3> QED
      BY <3>1, <3>2
  <2> QED
    BY <1>1, <2>2, <2>14, <2>15 DEF OnceUpTo
<1> QED
  BY <1>2, <1>3, <1>4 DEF Publisher

(***************************************************************************)
(* Producers, playback control, acknowledgements and the end of the        *)
(* session put nothing on the wire and change nothing at the client.       *)
(***************************************************************************)
LEMMA OthersOnce ==
    ASSUME StreamInv, NEW g \in Nat, OnceUpTo(g), Timelines \/ Sessions
    PROVE  OnceUpTo(g)'
<1>1. UNCHANGED <<sub, tick, wire, client, given, twice>>
  BY DEF Timelines, Sessions, AppendState, AppendEvent, GoLive, Seek, Play, LoadStore,
         ResetAfterLoad, HandleSubscribe, HandleAck, RemoveSession,
         timelineVars, publisherVars, clientVars
<1>2. session'.live => session.live
  <2>1. session \in Session
    BY DEF StreamInv, TypeOK
  <2>2. CASE Timelines
    BY <2>2 DEF Timelines, AppendState, AppendEvent, GoLive, Seek, Play, LoadStore, ResetAfterLoad
  <2>3. CASE Sessions
    BY <2>1, <2>3 DEF Sessions, HandleSubscribe, HandleAck, RemoveSession, Session
  <2> QED
    BY <2>2, <2>3
<1> QED
  BY <1>1, <1>2 DEF OnceUpTo

(***************************************************************************)
(* The order speaks of the client's epoch, baseline and applied number.    *)
(***************************************************************************)
LEMMA SameStand ==
    ASSUME NEW g, NEW w, NEW c, NEW d, d.epoch = c.epoch, d.applied = c.applied,
           d.baseRev = c.baseRev
    PROVE  /\ InOrder(g, w, c) => InOrder(g, w, d)
           /\ \A p : Follows(g, p, w, c) => Follows(g, p, w, d)
<1>1. InOrder(g, w, c) => InOrder(g, w, d)
  BY DEF InOrder
<1>2. \A p : Follows(g, p, w, c) => Follows(g, p, w, d)
  BY DEF Follows
<1> QED
  BY <1>1, <1>2

(***************************************************************************)
(* A reset of another revision comes with page g + 1, when no copy of page *)
(* g is left in flight or can be sent again.                               *)
(***************************************************************************)
LEMMA ResetOnce ==
    ASSUME StreamInv, NEW g \in Nat, OnceUpTo(g), 1 \in 1..Len(wire), RecvReset(1)
    PROVE  OnceUpTo(g)'
<1> USE DEF timelineVars, publisherVars, clientVars
<1> DEFINE m == wire[1]
           v == Without(wire, 1)
<1>1. /\ given = 1..g /\ twice = {} /\ client.applied <= g /\ InOrder(g, wire, client)
      /\ session.live \/ tick.active => Follows(g, sub, wire, client)
  BY DEF OnceUpTo
<1>2. m.kind = "reset" /\ wire' = v /\ UNCHANGED <<session, sub, tick, given, twice>>
  BY DEF RecvReset
<1>3. wire \in Seq(Payload) /\ client \in ClientState
  BY DEF StreamInv, TypeOK
<1>4. /\ InOrder(g, v, client) /\ Len(v) = Len(wire) - 1
      /\ \A j \in 1..Len(v) : j + 1 \in 1..Len(wire) /\ v[j] = wire[j + 1]
      /\ \A p : Follows(g, p, wire, client) => Follows(g, p, v, client)
  BY <1>1, <1>3, GetKeeps
<1> HIDE DEF v
<1>5. CASE client' = client
  BY <1>1, <1>2, <1>4, <1>5 DEF OnceUpTo
<1>6. CASE client' # client
  <2>1. /\ ~(client.epoch /\ client.baseRev = m.rev)
        /\ client' = [client EXCEPT !.epoch = TRUE, !.applied = 0, !.baseRev = m.rev,
                                    !.pendingFrame = NoFrame, !.lastFrame = 0]
    BY <1>6 DEF RecvReset
  <2>2. client'.epoch = TRUE /\ client'.applied = 0 /\ client'.baseRev = m.rev
    BY <1>3, <2>1 DEF ClientState
  <2>3. ASSUME NEW j \in 1..Len(v) PROVE ~BatchIn(v[j], g)
    <3> SUFFICES ASSUME BatchIn(v[j], g) PROVE FALSE
      OBVIOUS
    <3>1. j + 1 \in 1..Len(wire) /\ BatchIn(wire[j + 1], g) /\ 1 \in 1..((j + 1) - 1)
      BY <1>4
    <3>2. client.epoch /\ wire[1].rev = client.baseRev
      BY <1>1, <1>2, <3>1 DEF InOrder
    <3> QED
      BY <2>1, <3>2
  <2>4. InOrder(g, v, client')
    BY <1>4, <2>3 DEF InOrder
  <2>5. ASSUME session.live \/ tick.active PROVE Follows(g, sub, v, client')
    <3>1. Follows(g, sub, wire, client) /\ Follows(g, sub, v, client)
      BY <1>1, <1>4, <2>5
    <3>2. CASE sub.pending = <<>>
      BY <3>1, <3>2 DEF Follows
    <3>3. CASE sub.pending # <<>>
      <4>1. sub.pending[1].seq # g
        BY <1>2, <2>1, <3>1, <3>3 DEF Follows
      <4> QED
        BY <3>1, <3>3, <4>1 DEF Follows
    <3> QED
      BY <3>2, <3>3
  <2>6. client'.applied <= g
    BY <2>2
  <2> QED
    BY <1>1, <1>2, <2>4, <2>5, <2>6 DEF OnceUpTo
<1> QED
  BY <1>5, <1>6

(***************************************************************************)
(* A copy of page g is recognised: the client stands where its first copy  *)
(* left it.  Page g + 1 is new, and what is then in flight are its copies. *)
(***************************************************************************)
LEMMA BatchOnce ==
    ASSUME StreamInv, NEW g \in Nat, OnceUpTo(g), 1 \in 1..Len(wire), NEW keptAck,
           RecvBatch(1, keptAck)
    PROVE  OnceUpTo(g)' \/ OnceUpTo(g + 1)'
<1> USE DEF timelineVars, publisherVars, clientVars
<1> DEFINE b == wire[1]
           v == Without(wire, 1)
           c == Rebased(b)
<1>1. /\ given = 1..g /\ twice = {} /\ client.applied <= g /\ InOrder(g, wire, client)
      /\ session.live \/ tick.active => Follows(g, sub, wire, client)
  BY DEF OnceUpTo
<1>2. /\ b.kind = "batch" /\ wire' = v /\ UNCHANGED <<session, sub, tick>>
      /\ \/ /\ b.seq <= c.applied
            /\ client' = c
            /\ UNCHANGED <<view, given, twice>>
         \/ /\ b.seq > c.applied
            /\ client' = [c EXCEPT !.applied = b.seq]
            /\ Consume(b)
  BY DEF RecvBatch
<1>3. /\ wire \in Seq(Payload) /\ client \in ClientState /\ client.applied \in Nat
      /\ client.epoch \in BOOLEAN
  BY DEF StreamInv, TypeOK, ClientState
<1>4. /\ InOrder(g, v, client) /\ Len(v) = Len(wire) - 1
      /\ \A j \in 1..Len(v) : j + 1 \in 1..Len(wire) /\ v[j] = wire[j + 1]
      /\ \A p : Follows(g, p, wire, client) => Follows(g, p, v, client)
  BY <1>1, <1>3, GetKeeps
<1> HIDE DEF v
<1>5. b.seq \in {g, g + 1} /\ b.seq >= 1
  BY <1>1, <1>2 DEF InOrder, StreamInv, WireInv
<1>6. CASE b.seq = g
  <2>1. client.epoch /\ client.applied = g /\ (b.baseline => b.rev = client.baseRev)
    BY <1>1, <1>2, <1>6 DEF InOrder, BatchIn
  <2>2. c = client
    BY <2>1 DEF Rebased
  <2> HIDE DEF c
  <2>3. client' = client /\ UNCHANGED <<given, twice>>
    BY <1>2, <1>6, <2>1, <2>2
  <2> QED
    BY <1>1, <1>2, <1>4, <2>3 DEF OnceUpTo
<1>7. CASE b.seq = g + 1
  <2>1. /\ c \in ClientState /\ c.applied \in {0, client.applied} /\ c.epoch = TRUE
        /\ b.baseline => c.baseRev = b.rev
    <3> DEFINE d == IF client.epoch THEN client
                    ELSE [client EXCEPT !.epoch = TRUE, !.applied = 0,
                             !.baseRev = NoRevision, !.pendingFrame = NoFrame,
                             !.lastFrame = 0]
    <3>1. d \in ClientState /\ d.applied \in {0, client.applied} /\ d.epoch = TRUE
      BY <1>3 DEF ClientState
    <3>2. c = IF b.baseline /\ d.baseRev # b.rev
              THEN [d EXCEPT !.applied = 0, !.baseRev = b.rev, !.pendingFrame = NoFrame]
              ELSE d
      BY DEF Rebased
    <3>3. b.rev \in Nat
      <4>1. b \in Payload
        BY <1>3, ElementOfSeq
      <4> QED
        BY <1>2, <4>1 DEF Payload, Frame, Batch, Reset
    <3> HIDE DEF d, c, b
    <3> QED
      BY <3>1, <3>2, <3>3 DEF ClientState
  <2> HIDE DEF c
  <2>2. client' = [c EXCEPT !.applied = b.seq] /\ Consume(b)
    BY <1>1, <1>2, <1>3, <1>7, <2>1
  <2>3. /\ client'.epoch = TRUE /\ client'.applied = g + 1 /\ client'.baseRev = c.baseRev
    BY <1>7, <2>1, <2>2 DEF ClientState
  <2>4. given' = 1..(g + 1) /\ twice' = {}
    <3>1. g + 1 \notin given /\ given' = given \cup {g + 1}
      BY <1>1, <1>7, <2>2 DEF Consume
    <3>2. 1..(g + 1) = (1..g) \cup {g + 1}
      OBVIOUS
    <3> QED
      BY <1>1, <1>7, <2>2, <3>1, <3>2 DEF Consume
  <2>5. ASSUME NEW j \in 1..Len(v)
        PROVE  /\ v[j].kind = "batch" => /\ v[j].seq = g + 1
                                         /\ v[j].baseline = b.baseline /\ v[j].rev = b.rev
               /\ v[j].kind = "reset" => b.baseline /\ v[j].rev = b.rev
    <3>1. j + 1 \in 1..Len(wire) /\ v[j] = wire[j + 1] /\ 1 \in 1..((j + 1) - 1)
      BY <1>4
    <3>2. BatchIn(b, g + 1)
      BY <1>2, <1>7 DEF BatchIn
    <3>3. /\ wire[j + 1].kind = "batch" => wire[j + 1].baseline = b.baseline /\ wire[j + 1].rev = b.rev
          /\ wire[j + 1].kind = "reset" => b.baseline /\ wire[j + 1].rev = b.rev
      BY <1>1, <3>1, <3>2 DEF InOrder
    <3>4. wire[j + 1].kind = "batch" => wire[j + 1].seq = g + 1
      <4> SUFFICES ASSUME wire[j + 1].kind = "batch", wire[j + 1].seq # g + 1 PROVE FALSE
        OBVIOUS
      <4>1. BatchIn(wire[j + 1], g)
        BY <1>1, <3>1 DEF InOrder, BatchIn
      <4>2. b.seq = g
        BY <1>1, <1>2, <3>1, <4>1 DEF InOrder
      <4> QED
        BY <1>7, <4>2
    <3> QED
      BY <3>1, <3>3, <3>4
  <2>6. ASSUME NEW j \in 1..Len(v)
        PROVE  /\ v[j].kind = "batch" => v[j].seq = g + 1
               /\ v[j].kind = "batch" /\ v[j].baseline => v[j].rev = client'.baseRev
               /\ v[j].kind = "reset" => v[j].rev = client'.baseRev
    BY <2>1, <2>3, <2>5
  <2>7. InOrder(g + 1, v, client')
    <3>1. Len(v) \in Nat
      BY <1>3, <1>4, LenProperties
    <3>2. \A j \in 1..Len(v) : ~BatchIn(v[j], (g + 1) + 1)
      BY <2>6 DEF BatchIn
    <3>3. \A j \in 1..Len(v) : \A i \in 1..(j - 1) : i \in 1..Len(v)
      BY <3>1
    <3> QED
      BY <2>3, <2>6, <3>2, <3>3 DEF InOrder, BatchIn
  <2>8. ASSUME session.live \/ tick.active PROVE Follows(g + 1, sub, v, client')
    <3>1. Follows(g, sub, wire, client)
      BY <1>1, <2>8
    <3>2. sub.pending # <<>>
      BY <1>2, <1>7, <3>1 DEF Follows
    <3>3. sub.pending[1].seq = g + 1
      BY <1>2, <1>7, <3>1, <3>2 DEF Follows
    <3>4. b.baseline = sub.pending[1].baseline /\ b.rev = sub.pending[1].rev
      BY <1>2, <1>7, <3>1, <3>2, <3>3 DEF Follows, BatchIn
    <3>5. sub.pending[1].baseline => sub.pending[1].rev = client'.baseRev
      BY <2>1, <2>3, <3>4
    <3>6. sub.pending[1].seq # (g + 1) + 1
      BY <3>3
    <3> QED
      BY <2>3, <2>6, <3>2, <3>3, <3>5, <3>6 DEF Follows
  <2>9. client'.applied <= g + 1
    BY <2>3
  <2> QED
    BY <1>2, <2>4, <2>7, <2>8, <2>9 DEF OnceUpTo
<1> QED
  BY <1>5, <1>6, <1>7

(***************************************************************************)
(* The client, when the network hands over its payloads in their order.    *)
(***************************************************************************)
LEMMA ClientOnce ==
    ASSUME ~Reorder, StreamInv, NEW g \in Nat, OnceUpTo(g), Client
    PROVE  OnceUpTo(g)' \/ OnceUpTo(g + 1)'
<1> USE DEF timelineVars, publisherVars, clientVars
<1>1. /\ given = 1..g /\ twice = {} /\ client.applied <= g /\ InOrder(g, wire, client)
      /\ session.live \/ tick.active => Follows(g, sub, wire, client)
  BY DEF OnceUpTo
<1>2. wire \in Seq(Payload) /\ client \in ClientState
  BY DEF StreamInv, TypeOK
<1>3. ASSUME /\ client'.epoch = client.epoch /\ client'.applied = client.applied
             /\ client'.baseRev = client.baseRev
             /\ UNCHANGED <<session, sub, tick, given, twice>>,
             \/ wire' = wire
             \/ 1 \in 1..Len(wire) /\ wire' = Without(wire, 1)
      PROVE  OnceUpTo(g)'
  <2>1. InOrder(g, wire', client) /\ (session.live \/ tick.active => Follows(g, sub, wire', client))
    <3>1. CASE wire' = wire
      BY <1>1, <3>1
    <3>2. CASE 1 \in 1..Len(wire) /\ wire' = Without(wire, 1)
      BY <1>1, <1>2, <3>2, GetKeeps
    <3> QED
      BY <1>3, <3>1, <3>2
  <2>2. /\ InOrder(g, wire', client')
        /\ session.live \/ tick.active => Follows(g, sub, wire', client')
    BY <1>3, <2>1, SameStand
  <2> QED
    BY <1>1, <1>3, <2>2 DEF OnceUpTo
<1>4. CASE ClientConnect
  <2>1. /\ client'.epoch = client.epoch /\ client'.applied = client.applied
        /\ client'.baseRev = client.baseRev
    BY <1>2, <1>4 DEF ClientConnect, ClientState
  <2> QED
    BY <1>3, <1>4, <2>1 DEF ClientConnect
<1>5. CASE ShowPending
  <2>1. /\ client'.epoch = client.epoch /\ client'.applied = client.applied
        /\ client'.baseRev = client.baseRev
    BY <1>2, <1>5 DEF ShowPending, ClientState
  <2> QED
    BY <1>3, <1>5, <2>1 DEF ShowPending
<1>6. ASSUME NEW i \in Receivable,
             RecvEarly(i) \/ RecvFrame(i) \/ RecvBatch(i, TRUE) \/ RecvBatch(i, FALSE) \/ RecvReset(i)
      PROVE  OnceUpTo(g)' \/ OnceUpTo(g + 1)'
  <2>1. i = 1 /\ 1 \in 1..Len(wire)
    BY <1>6 DEF Receivable
  <2>2. CASE RecvEarly(1)
    BY <1>3, <2>1, <2>2 DEF RecvEarly
  <2>3. CASE RecvFrame(1)
    <3>1. /\ client'.epoch = client.epoch /\ client'.applied = client.applied
          /\ client'.baseRev = client.baseRev
      BY <1>2, <2>3 DEF RecvFrame, ClientState
    <3> QED
      BY <1>3, <2>1, <2>3, <3>1 DEF RecvFrame
  <2>4. CASE RecvBatch(1, TRUE) \/ RecvBatch(1, FALSE)
    BY <2>1, <2>4, BatchOnce
  <2>5. CASE RecvReset(1)
    BY <2>1, <2>5, ResetOnce
  <2> QED
    BY <1>6, <2>1, <2>2, <2>3, <2>4, <2>5
<1> QED
  BY <1>4, <1>5, <1>6 DEF Client

(***************************************************************************)
(* Over a network that does not overtake the consumer has been given an    *)
(* initial segment of the pages, each once.                                *)
(***************************************************************************)
THEOREM OnceInvariant ==
    ASSUME ~Reorder
    PROVE  Spec => []OnceInv
<1>1. Init => OnceInv
  <2> SUFFICES ASSUME Init PROVE OnceUpTo(0)
    BY DEF OnceInv
  <2>1. /\ wire = <<>> /\ sub = Fresh /\ given = {} /\ twice = {} /\ client.applied = 0
    BY DEF Init
  <2>2. Len(wire) = 0
    BY <2>1
  <2>3. sub.pending = <<>> /\ sub.next = 0
    BY <2>1 DEF Fresh
  <2>4. InOrder(0, wire, client) /\ Follows(0, sub, wire, client)
    BY <2>2, <2>3 DEF InOrder, Follows
  <2>5. given = 1..0
    BY <2>1
  <2> QED
    BY <2>1, <2>4, <2>5 DEF OnceUpTo
<1>2. StreamInv /\ OnceInv /\ [Next]_vars => OnceInv'
  <2> SUFFICES ASSUME StreamInv, OnceInv, [Next]_vars PROVE \E h \in Nat : OnceUpTo(h)'
    BY DEF OnceInv
  <2>1. PICK g \in Nat : OnceUpTo(g)
    BY DEF OnceInv
  <2>2. g + 1 \in Nat
    OBVIOUS
  <2>3. CASE Timelines \/ Sessions
    BY <2>1, <2>3, OthersOnce
  <2>4. CASE Publisher
    BY <2>1, <2>4, PublisherOnce
  <2>5. CASE Client
    BY <2>1, <2>2, <2>5, ClientOnce
  <2>6. CASE UNCHANGED vars
    <3>1. OnceUpTo(g)'
      BY <2>1, <2>6 DEF OnceUpTo, vars, timelineVars, publisherVars, clientVars
    <3> QED
      BY <3>1
  <2> QED
    BY <2>3, <2>4, <2>5, <2>6 DEF Next
<1> QED
  BY <1>1, <1>2, StreamInvariant, PTL DEF Spec

(***************************************************************************)
(* Over a network that may lose but does not overtake, no batch is handed  *)
(* to the consumer twice, however often lost acknowledgements, resets and  *)
(* new baselines make the publisher repeat it or the client forget its     *)
(* number (CursorClient::recv).  A network that overtakes can do it: a     *)
(* late reset makes the client forget what it applied.                     *)
(***************************************************************************)
THEOREM NeverGivenTwice ==
    ASSUME ~Reorder
    PROVE  Spec => []GivenOnce
<1>1. OnceInv => GivenOnce
  BY DEF OnceInv, OnceUpTo, GivenOnce
<1> QED
  BY <1>1, OnceInvariant, PTL

-----------------------------------------------------------------------------
(* The contents of the pages.                                              *)

(***************************************************************************)
(* The order of events is a strict weak order: by timestamp, aircraft and  *)
(* number of insertion (insert_sorted_event, global_events).               *)
(***************************************************************************)
LEMMA EventOrder ==
    ASSUME NEW e \in Event, NEW f \in Event, NEW h \in Event
    PROVE  /\ ~Precedes(e, e)
           /\ Precedes(e, f) /\ Precedes(f, h) => Precedes(e, h)
           /\ ~Precedes(e, f) /\ ~Precedes(f, h) => ~Precedes(e, h)
<1>1. /\ e.ts \in Nat /\ f.ts \in Nat /\ h.ts \in Nat
      /\ e.aircraft \in Nat /\ f.aircraft \in Nat /\ h.aircraft \in Nat
      /\ e.id \in Nat /\ f.id \in Nat /\ h.id \in Nat
  BY EventAssumption
<1> QED
  BY <1>1 DEF Precedes

(***************************************************************************)
(* An aircraft that was ever spawned has a last spawn.                     *)
(***************************************************************************)
LEMMA LastSpawn ==
    ASSUME NEW F \in SUBSET Event, NEW a, \A e \in F : e.aircraft = a,
           NEW s \in F, s.kind = "spawn"
    PROVE  \E e \in F : e.kind = "spawn" /\ \A f \in F : f.kind = "spawn" => ~Precedes(e, f)
<1> DEFINE S == {e \in F : e.kind = "spawn"}
           T == {e.ts : e \in S}
<1>1. S \in SUBSET Event /\ IsFiniteSet(S)
  BY EventAssumption, FS_Subset
<1>2. \A e \in S : e.ts \in Nat /\ e.id \in Nat
  BY <1>1, EventAssumption
<1>3. T \in SUBSET Nat /\ T # {} /\ IsFiniteSet(T)
  <2> DEFINE ts == [e \in S |-> e.ts]
  <2>1. ts \in Surjection(S, T)
    BY DEF Surjection
  <2>2. IsFiniteSet(T)
    BY <1>1, <2>1, FS_Surjection
  <2> QED
    BY <1>2, <2>2
<1>4. PICK t \in T : \A u \in T : u <= t
  BY <1>3, GreatestNatural
<1> DEFINE R == {e \in S : e.ts = t}
           I == {e.id : e \in R}
<1>5. I \in SUBSET Nat /\ I # {} /\ IsFiniteSet(I)
  <2> DEFINE id == [e \in R |-> e.id]
  <2>1. id \in Surjection(R, I)
    BY DEF Surjection
  <2>2. IsFiniteSet(R)
    BY <1>1, FS_Subset
  <2>3. IsFiniteSet(I)
    BY <2>1, <2>2, FS_Surjection
  <2>4. I \in SUBSET Nat /\ I # {}
    BY <1>2, <1>4
  <2> QED
    BY <2>3, <2>4
<1>6. PICK n \in I : \A m \in I : m <= n
  BY <1>5, GreatestNatural
<1>7. PICK e \in R : e.id = n
  BY <1>6
<1>8. ASSUME NEW f \in F, f.kind = "spawn" PROVE ~Precedes(e, f)
  <2>1. f \in S /\ f.ts \in T /\ f.ts <= t /\ f.aircraft = e.aircraft /\ e.ts = t
    BY <1>4, <1>7, <1>8
  <2>2. f.ts = t => f.id <= n
    BY <1>6, <2>1
  <2>3. f.ts \in Nat /\ f.id \in Nat /\ t \in Nat /\ n \in Nat /\ e.aircraft \in Nat
    BY <1>1, <1>3, <1>4, <1>5, <1>6, <1>7, <2>1, EventAssumption
  <2> QED
    BY <1>7, <2>1, <2>2, <2>3 DEF Precedes
<1> QED
  BY <1>7, <1>8

(***************************************************************************)
(* What a subscriber that knows the life of an aircraft up to some instant *)
(* and is told the events after it knows of the aircraft: its life up to   *)
(* the last of them (baseline_events, then delta_events).                  *)
(***************************************************************************)
LEMMA LifeGoesOn ==
    ASSUME NEW F \in SUBSET Event, NEW D \in SUBSET Event, NEW a,
           \A e \in F \cup D : e.aircraft = a,
           \A e \in F, d \in D : e.ts < d.ts
    PROVE  Life(Life(F) \cup D) = Life(F \cup D)
<1> DEFINE L == Life(F)
           U == F \cup D
           V == L \cup D
<1>1. L \subseteq F /\ V \subseteq U /\ U \in SUBSET Event
  BY DEF Life, FromLastSpawn
<1>2. \A e \in F, d \in D : Precedes(e, d) /\ ~Precedes(d, e)
  <2> SUFFICES ASSUME NEW e \in F, NEW d \in D PROVE Precedes(e, d) /\ ~Precedes(d, e)
    OBVIOUS
  <2>1. e.ts \in Nat /\ d.ts \in Nat /\ e.ts < d.ts
    BY EventAssumption
  <2> QED
    BY <2>1 DEF Precedes
<1>3. L # {} => Spawned(F) /\ L = FromLastSpawn(F)
  BY DEF Life
<1> HIDE DEF L
<1>4. Spawned(V) => Spawned(U)
  <2> SUFFICES ASSUME Spawned(V) PROVE Spawned(U)
    OBVIOUS
  <2>1. PICK e \in V : e.kind = "spawn" /\ \A f \in V : f.kind = "despawn" => Precedes(f, e)
    BY DEF Spawned
  <2>2. ASSUME NEW f \in U, f.kind = "despawn" PROVE Precedes(f, e)
    <3>1. CASE f \in D
      BY <2>1, <2>2, <3>1
    <3>2. CASE f \in F /\ e \in D
      BY <1>2, <3>2
    <3>3. CASE f \in F /\ e \in L
      <4>1. PICK s \in F : s.kind = "spawn" /\ \A k \in F : k.kind = "despawn" => Precedes(k, s)
        BY <1>3, <3>3 DEF Spawned
      <4>2. ~Precedes(e, s) /\ Precedes(f, s)
        BY <1>3, <2>2, <3>3, <4>1 DEF FromLastSpawn
      <4>3. f \in Event /\ s \in Event /\ e \in Event
        BY <1>1, <3>3, <4>1
      <4> QED
        BY <4>2, <4>3, EventOrder
    <3> QED
      BY <2>1, <2>2, <3>1, <3>2, <3>3
  <2> QED
    BY <1>1, <2>1, <2>2 DEF Spawned
<1>5. ASSUME Spawned(U), NEW e \in U, e.kind = "spawn",
             \A f \in U : f.kind = "despawn" => Precedes(f, e)
      PROVE  Spawned(V) /\ (e \in F => Spawned(F))
  <2>1. CASE e \in D
    <3>1. e \in V /\ e \notin F
      BY <1>2, <2>1
    <3> QED
      BY <1>1, <1>5, <3>1 DEF Spawned
  <2>2. CASE e \in F
    <3>1. Spawned(F)
      BY <1>5, <2>2 DEF Spawned
    <3>2. PICK s \in F : s.kind = "spawn" /\ \A f \in F : f.kind = "spawn" => ~Precedes(s, f)
      BY <1>5, <2>2, LastSpawn
    <3>3. s \in V
      BY <3>1, <3>2 DEF L, Life, FromLastSpawn
    <3>4. ASSUME NEW f \in V, f.kind = "despawn" PROVE Precedes(f, s)
      <4>1. Precedes(f, e) /\ ~Precedes(s, e)
        BY <1>1, <1>5, <2>2, <3>2, <3>4
      <4>2. f \in Event /\ s \in Event /\ e \in Event
        BY <1>1, <2>2, <3>2, <3>4
      <4> QED
        BY <4>1, <4>2, EventOrder
    <3> QED
      BY <3>1, <3>2, <3>3, <3>4 DEF Spawned
  <2> QED
    BY <1>5, <2>1, <2>2
<1>6. CASE ~Spawned(U)
  <2>1. Life(V) = {} /\ Life(U) = {}
    BY <1>4, <1>6 DEF Life
  <2> QED
    BY <2>1 DEF L
<1>7. CASE Spawned(U)
  <2>1. PICK e \in U : e.kind = "spawn" /\ \A f \in U : f.kind = "despawn" => Precedes(f, e)
    BY <1>7 DEF Spawned
  <2>2. Spawned(V) /\ (e \in F => Spawned(F))
    BY <1>5, <1>7, <2>1
  <2>3. ASSUME NEW x \in FromLastSpawn(V) PROVE x \in FromLastSpawn(U)
    <3>1. x \in V /\ \A f \in V : f.kind = "spawn" => ~Precedes(x, f)
      BY <2>3 DEF FromLastSpawn
    <3>2. ASSUME NEW f \in U, f.kind = "spawn" PROVE ~Precedes(x, f)
      <4>1. CASE f \in D
        BY <3>1, <3>2, <4>1
      <4>2. CASE f \in F /\ x \in D
        BY <1>2, <4>2
      <4>3. CASE f \in F /\ x \in L
        BY <1>3, <3>2, <4>3 DEF FromLastSpawn
      <4> QED
        BY <3>1, <3>2, <4>1, <4>2, <4>3
    <3> QED
      BY <1>1, <3>1, <3>2 DEF FromLastSpawn
  <2>4. ASSUME NEW x \in FromLastSpawn(U) PROVE x \in FromLastSpawn(V)
    <3>1. x \in U /\ \A f \in U : f.kind = "spawn" => ~Precedes(x, f)
      BY <2>4 DEF FromLastSpawn
    <3>2. x \in V
      <4>1. CASE x \in D
        BY <4>1
      <4>2. CASE x \in F
        <5>1. e \in F
          BY <1>2, <2>1, <3>1, <4>2
        <5>2. x \in FromLastSpawn(F)
          BY <3>1, <4>2 DEF FromLastSpawn
        <5> QED
          BY <2>2, <5>1, <5>2 DEF L, Life
      <4> QED
        BY <3>1, <4>1, <4>2
    <3> QED
      BY <1>1, <3>1, <3>2 DEF FromLastSpawn
  <2>5. FromLastSpawn(V) = FromLastSpawn(U)
    BY <2>3, <2>4
  <2> QED
    BY <1>7, <2>2, <2>5 DEF Life, L
<1> QED
  BY <1>6, <1>7

-----------------------------------------------------------------------------
(***************************************************************************)
(* What a subscriber is told, as sets of events.                           *)
(***************************************************************************)

(* Every spawn comes with an initial state (AppendEvent).                  *)
WithState(st) == \A e \in st.events : e.kind = "spawn" => <<e.aircraft, e.ts>> \in st.states

(* A baseline at c, and what later batches have to add to reach d.         *)
Base(st, c) == {e \in st.events : e \in Life(UpTo(EventsOf(st, e.aircraft), c))}
Between(st, c, d) == {e \in st.events : c < e.ts /\ e.ts <= d}
Whole(st, v, d) == \E c \in Nat : c <= d /\ v = Base(st, c) \cup Between(st, c, d)

(* A cursor is missing only when nothing is stored, and a live one is at   *)
(* the end.                                                                *)
Fits(st, cursor) == cursor = NoTime => Instants(st) = {}
Placed(st, pb) ==
    /\ Fits(st, pb.cursor)
    /\ pb.mode = "live" => pb.cursor = Latest(st)

(***************************************************************************)
(* A whole view knows the life of every aircraft up to its cursor.         *)
(***************************************************************************)
LEMMA WholeLife ==
    ASSUME NEW st \in Store, NEW v, NEW d \in Nat, NEW a, Whole(st, v, d)
    PROVE  Life({e \in v : e.aircraft = a}) = Life(UpTo(EventsOf(st, a), d))
<1>1. PICK c \in Nat : c <= d /\ v = Base(st, c) \cup Between(st, c, d)
  BY DEF Whole
<1> DEFINE F == UpTo(EventsOf(st, a), c)
           D == {e \in Between(st, c, d) : e.aircraft = a}
<1>2. st.events \in SUBSET Event /\ \A e \in st.events : e.ts \in Nat
  BY EventAssumption DEF Store
<1>3. F \in SUBSET Event /\ D \in SUBSET Event /\ \A e \in F \cup D : e.aircraft = a
  BY <1>2 DEF UpTo, EventsOf, Between
<1>4. \A e \in F, x \in D : e.ts < x.ts
  BY <1>2 DEF UpTo, EventsOf, Between
<1>5. F \cup D = UpTo(EventsOf(st, a), d)
  BY <1>1, <1>2 DEF UpTo, EventsOf, Between
<1>6. {e \in Base(st, c) : e.aircraft = a} = Life(F)
  <2>1. Life(F) \subseteq F
    BY DEF Life, FromLastSpawn
  <2>2. F \subseteq st.events /\ \A e \in F : e.aircraft = a
    BY DEF UpTo, EventsOf
  <2>3. \A e \in st.events : e.aircraft = a => (e \in Base(st, c) <=> e \in Life(F))
    BY DEF Base
  <2>4. Base(st, c) \subseteq st.events
    BY DEF Base
  <2> HIDE DEF F
  <2> QED
    BY <2>1, <2>2, <2>3, <2>4
<1>7. {e \in v : e.aircraft = a} = Life(F) \cup D
  <2>1. {e \in v : e.aircraft = a} = {e \in Base(st, c) : e.aircraft = a} \cup D
    BY <1>1
  <2> QED
    BY <1>6, <2>1
<1> HIDE DEF F, D
<1> QED
  BY <1>3, <1>4, <1>5, <1>7, LifeGoesOn

(***************************************************************************)
(* baseline_events gives exactly the life of every aircraft up to the      *)
(* cursor: an aircraft that is spawned there has a state there, and in     *)
(* live mode nothing is stored after the cursor.                           *)
(***************************************************************************)
LEMMA BaselineWhole ==
    ASSUME NEW st \in Store, WithState(st), NEW snap \in Playback, Placed(st, snap)
    PROVE  Whole(st, BaselineEvents(st, snap), snap.cursor)
<1> DEFINE c == snap.cursor
<1>1. c \in Nat
  BY DEF Playback
<1>2. st.events \in SUBSET Event /\ \A e \in st.events : e.ts \in Nat
  BY EventAssumption DEF Store
<1>3. ASSUME snap.mode = "live", NEW a PROVE EventsOf(st, a) = UpTo(EventsOf(st, a), c)
  <2>1. \A e \in st.events : e.ts \in Instants(st)
    BY DEF Instants
  <2>2. \A e \in st.events : e.ts <= Latest(st)
    BY <2>1, Bounds
  <2> QED
    BY <1>3, <2>2 DEF Placed, UpTo, EventsOf
<1>4. ASSUME NEW a, Spawned(UpTo(EventsOf(st, a), c)) PROVE Sampled(st, snap, a)
  <2>1. PICK e \in UpTo(EventsOf(st, a), c) : e.kind = "spawn"
    BY <1>4 DEF Spawned
  <2>2. e \in st.events /\ e.ts <= c /\ e.aircraft = a
    BY <2>1 DEF UpTo, EventsOf
  <2>3. <<a, e.ts>> \in st.states
    BY <2>1, <2>2 DEF WithState
  <2> QED
    BY <2>2, <2>3 DEF Sampled
<1>5. ASSUME NEW a
      PROVE  ResolvesSpawned(st, snap, a) <=> Spawned(UpTo(EventsOf(st, a), c))
  BY <1>3, <1>4 DEF ResolvesSpawned
<1>6. ASSUME NEW e \in st.events
      PROVE  e \in BaselineEvents(st, snap) <=> e \in Base(st, c)
  <2> DEFINE U == UpTo(EventsOf(st, e.aircraft), c)
  <2>1. e \in BaselineEvents(st, snap)
          <=> e.ts <= c /\ Spawned(U) /\ e \in FromLastSpawn(U)
    BY <1>5 DEF BaselineEvents, UpTo
  <2>2. e \in FromLastSpawn(U) => e.ts <= c
    BY DEF FromLastSpawn, UpTo
  <2>3. e \in Base(st, c) <=> Spawned(U) /\ e \in FromLastSpawn(U)
    BY DEF Base, Life
  <2> QED
    BY <2>1, <2>2, <2>3
<1>7. BaselineEvents(st, snap) = Base(st, c)
  <2>1. BaselineEvents(st, snap) \subseteq st.events /\ Base(st, c) \subseteq st.events
    BY DEF BaselineEvents, Base, UpTo
  <2> QED
    BY <1>6, <2>1
<1>8. Between(st, c, c) = {}
  BY <1>1, <1>2 DEF Between
<1> QED
  BY <1>1, <1>7, <1>8 DEF Whole

(***************************************************************************)
(* delta_events takes a whole view from one cursor to a later one.  With   *)
(* either cursor missing nothing is stored and there is nothing to add.    *)
(***************************************************************************)
LEMMA DeltaWhole ==
    ASSUME NEW st \in Store, NEW v, NEW c \in Nat, NEW d \in Nat, Whole(st, v, c),
           Fits(st, c), Fits(st, d), c = NoTime \/ d = NoTime \/ c <= d
    PROVE  Whole(st, v \cup DeltaEvents(st, c, d), d)
<1>1. PICK b \in Nat : b <= c /\ v = Base(st, b) \cup Between(st, b, c)
  BY DEF Whole
<1>2. \A e \in st.events : e.ts \in Nat
  BY EventAssumption DEF Store
<1>3. CASE Instants(st) = {}
  <2>1. st.events = {}
    BY <1>3 DEF Instants
  <2>2. \A x, y : Base(st, x) = {} /\ Between(st, x, y) = {} /\ DeltaEvents(st, x, y) = {}
    BY <2>1 DEF Base, Between, DeltaEvents
  <2>3. v \cup DeltaEvents(st, c, d) = Base(st, d) \cup Between(st, d, d)
    BY <1>1, <2>2
  <2> QED
    BY <2>3 DEF Whole
<1>4. CASE Instants(st) # {}
  <2>1. c # NoTime /\ d # NoTime /\ c <= d
    BY <1>4 DEF Fits
  <2>2. DeltaEvents(st, c, d) = Between(st, c, d)
    BY <2>1 DEF DeltaEvents, Between
  <2>3. Between(st, b, c) \cup Between(st, c, d) = Between(st, b, d)
    BY <1>1, <1>2, <2>1 DEF Between
  <2>4. v \cup DeltaEvents(st, c, d) = Base(st, b) \cup Between(st, b, d)
    BY <1>1, <2>2, <2>3
  <2>5. b <= d
    BY <1>1, <2>1
  <2> QED
    BY <2>4, <2>5 DEF Whole
<1> QED
  BY <1>3, <1>4

(***************************************************************************)
(* A page count rounds up: every rank below N falls on a page (chunks).    *)
(***************************************************************************)
LEMMA PageInRange ==
    ASSUME NEW N \in Nat, NEW K \in Nat \ {0}, NEW r \in Nat, r < N
    PROVE  /\ (r \div K) + 1 \in 1..((N + K - 1) \div K)
<1> DEFINE q == r \div K
           s == (N + K - 1) \div K
           m == r % K
           n == (N + K - 1) % K
<1>1. q \in Nat /\ s \in Nat /\ m \in 0..(K - 1) /\ n \in 0..(K - 1)
  OBVIOUS
<1>2. r = K * q + m /\ N + K - 1 = K * s + n
  OBVIOUS
<1> HIDE DEF q, s, m, n
<1>3. K * q < K * s
  <2> DEFINE x == K * q
             y == K * s
  <2>1. x \in Nat /\ y \in Nat /\ r = x + m /\ N + K - 1 = y + n
    BY <1>1, <1>2
  <2> HIDE DEF x, y
  <2>2. x < y
    BY <1>1, <2>1
  <2> QED
    BY <2>2 DEF x, y
<1>4. q < s
  BY <1>1, <1>3
<1> QED
  BY <1>1, <1>4 DEF q, s

-----------------------------------------------------------------------------
(***************************************************************************)
(* Where a queue of pages takes the consumer.                              *)
(***************************************************************************)

(* The pages pending are those left of one batch.                          *)
OneBatch(q) ==
    \A i \in 1..Len(q) :
        /\ q[i].rev = q[1].rev /\ q[i].cursor = q[1].cursor
        /\ i # 1 => ~q[i].baseline
        /\ q[i].final <=> i = Len(q)

(* A baseline has yet to be handed over; the events of the pages that      *)
(* have; and what the consumer holds once they are.                        *)
Awaited(q, G) == q # <<>> /\ q[1].baseline /\ q[1].seq \notin G
Rest(q, G) == {e \in Event : \E i \in 1..Len(q) : q[i].seq \notin G /\ e \in q[i].events}
Told(q, G, v) == IF Awaited(q, G) THEN Rest(q, G) ELSE v \cup Rest(q, G)

(* The revision and the cursor it is then at.                              *)
TargetRev(p) == IF p.pending = <<>> THEN p.lastRev ELSE p.pending[1].rev
TargetCur(p) == IF p.pending = <<>> THEN p.lastCur ELSE p.pending[1].cursor

(***************************************************************************)
(* A batch is paged without losing an event: the pages are those of one    *)
(* batch and hold together what baseline_events or delta_events gave.      *)
(***************************************************************************)
LEMMA PagesWhole ==
    ASSUME TypeOK, NEW p \in Subscriber, NEW G, \A s \in G : s <= p.next, G \subseteq Nat
    PROVE  /\ Pages(p) # <<>>
           /\ OneBatch(Pages(p))
           /\ Rest(Pages(p), G) = NewEvents(p)
           /\ Pages(p)[1].baseline = IsBaseline(p)
           /\ Pages(p)[1].seq = p.next + 1
           /\ Pages(p)[1].rev = tick.snap.revision
           /\ Pages(p)[1].cursor = tick.snap.cursor
<1> DEFINE events == NewEvents(p)
           count == IF events = {} THEN 1 ELSE PageCount(events)
           q == Pages(p)
<1>1. events \in SUBSET Event /\ IsFiniteSet(events) /\ Cardinality(events) \in Nat
  BY NewEventsType, FS_CardinalityType
<1>2. PageSize \in Nat \ {0} /\ p.next \in Nat
  BY StreamAssumption DEF Subscriber
<1>3. ASSUME NEW e \in events
      PROVE  (Rank(e, events) \div PageSize) + 1 \in 1..count
  <2> DEFINE T == {f \in events : Precedes(f, e)}
  <2>1. ~Precedes(e, e)
    BY <1>1, EventOrder
  <2>2. T \in SUBSET events /\ T # events
    BY <2>1
  <2>3. Cardinality(T) \in Nat /\ Cardinality(T) < Cardinality(events)
    BY <1>1, <2>2, FS_Subset, FS_CardinalityType
  <2>4. Rank(e, events) = Cardinality(T)
    BY DEF Rank
  <2>5. count = (Cardinality(events) + PageSize - 1) \div PageSize
    BY <1>3 DEF PageCount
  <2> HIDE DEF T, count, events
  <2> QED
    BY <1>1, <1>2, <2>3, <2>4, <2>5, PageInRange
<1>4. count \in Nat \ {0}
  <2>1. CASE events = {}
    BY <2>1
  <2>2. CASE events # {}
    <3>1. PICK e \in events : TRUE
      BY <2>2
    <3>2. count \in Nat
      BY <1>1, <1>2 DEF PageCount
    <3>3. (Rank(e, events) \div PageSize) + 1 \in 1..count
      BY <1>3
    <3> HIDE DEF count
    <3> QED
      BY <3>2, <3>3
  <2> QED
    BY <2>1, <2>2
<1>5. q = [i \in 1..count |->
          [seq |-> p.next + i, rev |-> tick.snap.revision,
           cursor |-> tick.snap.cursor,
           baseline |-> IsBaseline(p) /\ i = 1, final |-> i = count,
           events |-> PageOf(events, i), attempts |-> 0]]
  BY DEF Pages
<1>6. q \in Seq(Page)
  BY PagesType
<1> HIDE DEF count, events, q
<1>7. Len(q) = count
  <2>1. DOMAIN q = 1..count /\ DOMAIN q = 1..Len(q) /\ Len(q) \in Nat
    BY <1>5, <1>6, LenProperties
  <2> QED
    BY <1>4, <2>1
<1>8. \A i \in 1..count :
         /\ q[i].seq = p.next + i /\ q[i].rev = tick.snap.revision
         /\ q[i].cursor = tick.snap.cursor
         /\ q[i].baseline = (IsBaseline(p) /\ i = 1)
         /\ q[i].final = (i = count)
         /\ q[i].events = PageOf(events, i)
  BY <1>5
<1>9. q # <<>> /\ 1 \in 1..count
  BY <1>4, <1>7
<1>10. OneBatch(q)
  <2>1. ASSUME NEW i \in 1..count
        PROVE  /\ q[i].rev = q[1].rev /\ q[i].cursor = q[1].cursor
               /\ i # 1 => ~q[i].baseline
               /\ q[i].final <=> i = count
    BY <1>8, <1>9
  <2> QED
    BY <1>7, <2>1 DEF OneBatch
<1>11. ASSUME NEW e \in Rest(q, G) PROVE e \in events
  <2>1. PICK i \in 1..Len(q) : e \in q[i].events
    BY <1>11 DEF Rest
  <2>2. e \in PageOf(events, i)
    BY <1>7, <1>8, <2>1
  <2> QED
    BY <2>2 DEF PageOf
<1>12. ASSUME NEW e \in events PROVE e \in Rest(q, G)
  <2> DEFINE k == Rank(e, events) \div PageSize
             i == k + 1
  <2>1. i \in 1..count /\ i \in Nat
    BY <1>3, <1>4
  <2>2. Rank(e, events) \in Nat
    <3>1. {f \in events : Precedes(f, e)} \in SUBSET events
      OBVIOUS
    <3>2. Cardinality({f \in events : Precedes(f, e)}) \in Nat
      BY <1>1, <3>1, FS_Subset, FS_CardinalityType
    <3> QED
      BY <3>2 DEF Rank
  <2>3. k \in Int
    BY <1>2, <2>2
  <2> HIDE DEF k
  <2>4. k = i - 1
    BY <2>3
  <2>5. e \in PageOf(events, i)
    BY <2>4 DEF PageOf, k
  <2>6. q[i].seq = p.next + i /\ q[i].events = PageOf(events, i)
    BY <1>8, <2>1
  <2>7. q[i].seq \notin G
    BY <1>2, <2>1, <2>6
  <2>8. e \in Event /\ i \in 1..Len(q)
    BY <1>1, <1>7, <2>1
  <2> HIDE DEF i
  <2> QED
    BY <2>5, <2>6, <2>7, <2>8 DEF Rest
<1>13. Rest(q, G) = events
  BY <1>11, <1>12
<1>14. /\ q[1].baseline = IsBaseline(p) /\ q[1].seq = p.next + 1
       /\ q[1].rev = tick.snap.revision /\ q[1].cursor = tick.snap.cursor
  BY <1>8, <1>9 DEF IsBaseline
<1> QED
  BY <1>9, <1>10, <1>13, <1>14 DEF q, events

(***************************************************************************)
(* An acknowledged page that leaves the queue has been handed over: where  *)
(* the queue takes the consumer does not change.                           *)
(***************************************************************************)
LEMMA PoppedTarget ==
    ASSUME TypeOK, NEW p \in Subscriber, OneBatch(p.pending), NEW G, NEW v \in SUBSET Event,
           \A n \in Nat : n >= 1 /\ n <= tick.ack => n \in G,
           p.pending # <<>> => p.pending[1].seq >= 1
    PROVE  LET o == Popped(p)
           IN /\ OneBatch(o.pending)
              /\ TargetRev(o) = TargetRev(p) /\ TargetCur(o) = TargetCur(p)
              /\ Told(o.pending, G, v) = Told(p.pending, G, v)
              /\ o # p => ~Awaited(p.pending, G) /\ ~Awaited(o.pending, G)
                          /\ p.pending # <<>> /\ p.pending[1].seq \in G
<1> DEFINE o == Popped(p)
           q == p.pending
           t == Tail(p.pending)
<1>1. CASE ~(q # <<>> /\ tick.ack >= q[1].seq)
  <2>1. o = p
    BY <1>1 DEF Popped
  <2> QED
    BY <2>1
<1>2. CASE q # <<>> /\ tick.ack >= q[1].seq
  <2>1. /\ q \in Seq(Page) /\ q[1] \in Page /\ t \in Seq(Page)
        /\ Len(q) \in Nat \ {0} /\ Len(t) = Len(q) - 1
        /\ \A i \in 1..Len(t) : t[i] = q[i + 1]
    BY <1>2, FrontOfQueue DEF Subscriber
  <2>2. /\ o.pending = t
        /\ o.lastRev = IF q[1].final THEN q[1].rev ELSE p.lastRev
        /\ o.lastCur = IF q[1].final THEN q[1].cursor ELSE p.lastCur
    BY <1>2 DEF Popped, Subscriber
  <2>3. q[1].seq \in G
    BY <1>2, <2>1 DEF Page
  <2> HIDE DEF o, q, t
  <2>4. OneBatch(q) /\ v \subseteq Event
    BY DEF q
  <2>5. ~Awaited(q, G)
    BY <2>3 DEF Awaited
  <2>6. \A i \in 1..Len(t) : i + 1 \in 1..Len(q) /\ i + 1 # 1
    BY <2>1
  <2>7. ASSUME NEW i \in 1..Len(t)
        PROVE  /\ t[i].rev = q[1].rev /\ t[i].cursor = q[1].cursor
               /\ ~t[i].baseline
               /\ t[i].final <=> i = Len(t)
    <3>1. t[i] = q[i + 1] /\ i + 1 \in 1..Len(q) /\ i + 1 # 1
      BY <2>1, <2>6
    <3>2. i + 1 = Len(q) <=> i = Len(t)
      BY <2>1
    <3> QED
      BY <2>4, <3>1, <3>2 DEF OneBatch
  <2>8. Rest(t, G) = Rest(q, G)
    <3>1. ASSUME NEW e \in Rest(t, G) PROVE e \in Rest(q, G)
      <4>1. PICK i \in 1..Len(t) : t[i].seq \notin G /\ e \in t[i].events
        BY <3>1 DEF Rest
      <4>2. i + 1 \in 1..Len(q) /\ q[i + 1].seq \notin G /\ e \in q[i + 1].events
        BY <2>1, <2>6, <4>1
      <4> QED
        BY <3>1, <4>2 DEF Rest
    <3>2. ASSUME NEW e \in Rest(q, G) PROVE e \in Rest(t, G)
      <4>1. PICK i \in 1..Len(q) : q[i].seq \notin G /\ e \in q[i].events
        BY <3>2 DEF Rest
      <4>2. i # 1
        BY <2>3, <4>1
      <4>3. i - 1 \in 1..Len(t) /\ t[i - 1] = q[i]
        BY <2>1, <4>2
      <4> QED
        BY <3>2, <4>1, <4>3 DEF Rest
    <3> QED
      BY <3>1, <3>2
  <2>9. CASE t = <<>>
    <3>0. Len(t) = 0
      BY <2>9, EmptySeq
    <3>1. Len(q) = 1 /\ 1 \in 1..Len(q)
      BY <2>1, <3>0
    <3>2. q[1].final
      BY <2>4, <3>1 DEF OneBatch
    <3>3. ~Awaited(t, G)
      BY <2>9 DEF Awaited
    <3>4. OneBatch(t)
      BY <3>0 DEF OneBatch
    <3>5. Told(t, G, v) = Told(q, G, v)
      BY <2>5, <2>8, <3>3 DEF Told
    <3>6. TargetRev(o) = q[1].rev /\ TargetCur(o) = q[1].cursor
      BY <2>2, <2>9, <3>2 DEF TargetRev, TargetCur
    <3>7. TargetRev(p) = q[1].rev /\ TargetCur(p) = q[1].cursor
      BY <1>2 DEF TargetRev, TargetCur, q
    <3> QED
      BY <1>2, <2>2, <2>3, <2>5, <3>3, <3>4, <3>5, <3>6, <3>7 DEF o, q
  <2>10. CASE t # <<>>
    <3>1. 1 \in 1..Len(t)
      BY <2>1, <2>10, EmptySeq
    <3>2. ~t[1].baseline /\ t[1].rev = q[1].rev /\ t[1].cursor = q[1].cursor
      BY <2>7, <3>1
    <3>3. ~Awaited(t, G)
      BY <3>2 DEF Awaited
    <3>4. OneBatch(t)
      BY <2>7, <3>2 DEF OneBatch
    <3>5. Told(t, G, v) = Told(q, G, v)
      BY <2>5, <2>8, <3>3 DEF Told
    <3>6. TargetRev(o) = q[1].rev /\ TargetCur(o) = q[1].cursor
      BY <2>2, <2>10, <3>2 DEF TargetRev, TargetCur
    <3>7. TargetRev(p) = q[1].rev /\ TargetCur(p) = q[1].cursor
      BY <1>2 DEF TargetRev, TargetCur, q
    <3> QED
      BY <1>2, <2>2, <2>3, <2>5, <3>3, <3>4, <3>5, <3>6, <3>7 DEF o, q
  <2> QED
    BY <2>9, <2>10
<1> QED
  BY <1>1, <1>2

(***************************************************************************)
(* Counting a transmission changes nothing of it.                          *)
(***************************************************************************)
LEMMA SentTarget ==
    ASSUME NEW p \in Subscriber, p.pending # <<>>, OneBatch(p.pending), NEW G, NEW v
    PROVE  LET o == Sent(p)
           IN /\ OneBatch(o.pending) /\ o.pending # <<>>
              /\ TargetRev(o) = TargetRev(p) /\ TargetCur(o) = TargetCur(p)
              /\ Told(o.pending, G, v) = Told(p.pending, G, v)
              /\ o.pending[1].seq = p.pending[1].seq
              /\ o.pending[1].baseline = p.pending[1].baseline
              /\ o.pending[1].events = p.pending[1].events
<1> DEFINE q == p.pending
           front == q[1]
           first == [front EXCEPT !.attempts = front.attempts + 1]
           r == [q EXCEPT ![1] = first]
           o == Sent(p)
<1>1. q \in Seq(Page) /\ Len(q) \in Nat \ {0} /\ front \in Page
  BY FrontOfQueue DEF Subscriber
<1>2. /\ first.seq = front.seq /\ first.baseline = front.baseline /\ first.rev = front.rev
      /\ first.cursor = front.cursor /\ first.final = front.final
      /\ first.events = front.events /\ first \in Page
  <2> HIDE DEF front
  <2>1. front.attempts + 1 \in Nat
    BY <1>1 DEF Page
  <2> QED
    BY <1>1, <2>1 DEF Page
<1>3. o.pending = r
  BY DEF Sent, Subscriber
<1> HIDE DEF first, o, q
<1>4. 1 \in 1..Len(q) /\ q \in [1..Len(q) -> Page]
  BY <1>1, LenProperties
<1>5. r \in [1..Len(q) -> Page]
  BY <1>2, <1>4
<1>6. r \in Seq(Page) /\ Len(r) = Len(q)
  BY <1>1, <1>5, IsASeq, LenProperties
<1>7. r[1] = first /\ \A i \in 1..Len(q) : i # 1 => r[i] = q[i]
  BY <1>4
<1> HIDE DEF r
<1>8. r # <<>>
  BY <1>1, <1>6, EmptySeq
<1>9. \A i \in 1..Len(q) :
         /\ r[i].seq = q[i].seq /\ r[i].baseline = q[i].baseline /\ r[i].rev = q[i].rev
         /\ r[i].cursor = q[i].cursor /\ r[i].final = q[i].final /\ r[i].events = q[i].events
  BY <1>2, <1>7
<1>10. OneBatch(r)
  BY <1>4, <1>6, <1>9 DEF OneBatch, q
<1>11. Rest(r, G) = Rest(q, G)
  BY <1>6, <1>9 DEF Rest
<1>12. q # <<>> /\ (Awaited(r, G) <=> Awaited(q, G))
  BY <1>4, <1>8, <1>9 DEF Awaited, q
<1>13. Told(r, G, v) = Told(q, G, v)
  BY <1>11, <1>12 DEF Told
<1>14. TargetRev(o) = TargetRev(p) /\ TargetCur(o) = TargetCur(p)
  BY <1>3, <1>4, <1>8, <1>9, <1>12 DEF TargetRev, TargetCur, q
<1> QED
  BY <1>3, <1>4, <1>8, <1>9, <1>10, <1>13, <1>14 DEF o, q

-----------------------------------------------------------------------------
(***************************************************************************)
(* The inductive invariant of a complete view.                             *)
(***************************************************************************)

(* What was read at this revision still holds of the store.                *)
Current(rev) == ~loading /\ rev = playback.revision

TimeInv ==
    /\ WithState(store)
    /\ ~loading => Placed(store, playback)
    /\ tick.active => /\ tick.snap.revision <= playback.revision
                      /\ Current(tick.snap.revision) => Placed(store, tick.snap)

(* Resets that are not followed by their baseline have no effect.          *)
Calm(q, G, w, c) ==
    ~Awaited(q, G) =>
        \A i \in 1..Len(w) : w[i].kind = "reset" => c.epoch /\ w[i].rev = c.baseRev

(* A batch in flight that is new to the consumer is the first page.        *)
Carried(q, G, w) ==
    \A i \in 1..Len(w) : w[i].kind = "batch" /\ w[i].seq \notin G =>
        /\ q # <<>> /\ w[i].seq = q[1].seq
        /\ w[i].baseline = q[1].baseline /\ w[i].events = q[1].events

Aimed(p) ==
    /\ OneBatch(p.pending)
    /\ TargetRev(p) <= playback.revision
    /\ Current(TargetRev(p)) => Fits(store, TargetCur(p))

Seen(p) == Current(TargetRev(p)) => Whole(store, Told(p.pending, given, view), TargetCur(p))

SeenInv ==
    /\ TimeInv
    /\ Aimed(sub)
    /\ session.live \/ tick.active =>
          /\ Calm(sub.pending, given, wire, client)
          /\ Carried(sub.pending, given, wire)
          /\ Seen(sub)

(***************************************************************************)
(* update_effective_cursor leaves the cursor in its place.                 *)
(***************************************************************************)
LEMMA EffectiveCursorPlaced ==
    ASSUME NEW st \in Store, NEW elapsed \in Nat, NEW pb \in Playback
    PROVE  LET now == UpdateEffectiveCursor(pb, st, elapsed)
           IN /\ now \in Playback
              /\ Placed(st, now)
              /\ now.revision \in {pb.revision, pb.revision + 1}
              /\ now.mode = "live" => pb.mode = "live"
<1> DEFINE now == UpdateEffectiveCursor(pb, st, elapsed)
           base == IF pb.cursor = NoTime THEN Earliest(st) ELSE pb.cursor
<1>1. /\ pb.mode \in Mode /\ pb.cursor \in Nat /\ pb.revision \in Nat
      /\ Earliest(st) \in Nat /\ Latest(st) \in Nat /\ base \in Nat /\ base + elapsed \in Nat
  BY Bounds DEF Playback
<1>2. now \in Playback
  BY EffectiveCursorType DEF Playback
<1>3. CASE Instants(st) = {}
  <2>1. now = [mode |-> IF pb.mode = "live" THEN "live" ELSE "paused",
               cursor |-> NoTime, revision |-> pb.revision]
    BY <1>3 DEF UpdateEffectiveCursor
  <2>2. now.cursor = NoTime /\ now.revision = pb.revision /\ (now.mode = "live" => pb.mode = "live")
    BY <2>1
  <2>3. Latest(st) = NoTime
    BY <1>3 DEF Latest
  <2> HIDE DEF now
  <2> QED
    BY <1>2, <1>3, <2>2, <2>3 DEF Placed, Fits, now
<1>4. CASE Instants(st) # {}
  <2>1. Earliest(st) # NoTime /\ Latest(st) # NoTime /\ Earliest(st) >= 1
    <3>1. Earliest(st) \in Instants(st) /\ Latest(st) \in Instants(st)
      BY <1>4, Bounds
    <3> QED
      BY <3>1, InstantsFinite DEF NoTime
  <2>2. ASSUME NEW t \in Nat PROVE Clamp(t, st) \in Nat /\ Clamp(t, st) # NoTime
    BY <1>1, <1>4, <2>1, <2>2, ClampInBounds DEF NoTime
  <2>3. now = CASE pb.mode = "live" -> [pb EXCEPT !.cursor = Latest(st)]
                [] pb.mode = "paused" -> [pb EXCEPT !.cursor = Clamp(base, st)]
                [] pb.mode = "playing" /\ base + elapsed >= Latest(st) ->
                     [mode |-> "paused", cursor |-> Latest(st), revision |-> pb.revision + 1]
                [] OTHER -> [pb EXCEPT !.cursor = Clamp(base + elapsed, st)]
    BY <1>4 DEF UpdateEffectiveCursor
  <2> HIDE DEF now, base
  <2>4. CASE pb.mode = "live"
    <3>1. now = [pb EXCEPT !.cursor = Latest(st)]
      BY <2>3, <2>4
    <3>2. now.mode = "live" /\ now.cursor = Latest(st) /\ now.revision = pb.revision
      BY <2>4, <3>1 DEF Playback
    <3> QED
      BY <1>2, <2>1, <2>4, <3>2 DEF Placed, Fits, now
  <2>5. CASE pb.mode = "paused"
    <3>1. now = [pb EXCEPT !.cursor = Clamp(base, st)]
      BY <2>3, <2>5
    <3>2. now.mode = "paused" /\ now.cursor # NoTime /\ now.revision = pb.revision
      BY <1>1, <2>2, <2>5, <3>1 DEF Playback
    <3> QED
      BY <1>2, <3>2 DEF Placed, Fits, now
  <2>6. CASE pb.mode = "playing" /\ base + elapsed >= Latest(st)
    <3>1. now = [mode |-> "paused", cursor |-> Latest(st), revision |-> pb.revision + 1]
      BY <2>3, <2>6
    <3>2. now.mode = "paused" /\ now.cursor # NoTime /\ now.revision = pb.revision + 1
      BY <2>1, <3>1
    <3> QED
      BY <1>2, <3>2 DEF Placed, Fits, now
  <2>7. CASE pb.mode = "playing" /\ ~(base + elapsed >= Latest(st))
    <3>1. now = [pb EXCEPT !.cursor = Clamp(base + elapsed, st)]
      BY <2>3, <2>7
    <3>2. now.mode = "playing" /\ now.cursor # NoTime /\ now.revision = pb.revision
      BY <1>1, <2>2, <2>7, <3>1 DEF Playback
    <3> QED
      BY <1>2, <3>2 DEF Placed, Fits, now
  <2> QED
    BY <1>1, <2>4, <2>5, <2>6, <2>7 DEF Mode
<1> QED
  BY <1>3, <1>4

(***************************************************************************)
(* The revision and the cursor a queue leads to are typed.                 *)
(***************************************************************************)
LEMMA TargetType ==
    ASSUME NEW p \in Subscriber
    PROVE  TargetRev(p) \in Nat \cup {NoRevision} /\ TargetCur(p) \in Nat
<1>1. CASE p.pending = <<>>
  BY <1>1 DEF TargetRev, TargetCur, Subscriber
<1>2. CASE p.pending # <<>>
  <2>1. p.pending[1] \in Page
    BY <1>2, FrontOfQueue DEF Subscriber
  <2> QED
    BY <1>2, <2>1 DEF TargetRev, TargetCur, Page
<1> QED
  BY <1>1, <1>2

(***************************************************************************)
(* A subscriber without a record is on its way to no revision.             *)
(***************************************************************************)
LEMMA FreshTarget ==
    /\ Fresh.pending = <<>> /\ Len(Fresh.pending) = 0
    /\ TargetRev(Fresh) = NoRevision
    /\ OneBatch(Fresh.pending)
<1>1. Fresh.pending = <<>> /\ Fresh.lastRev = NoRevision
  BY DEF Fresh
<1>2. Len(Fresh.pending) = 0
  BY <1>1
<1> QED
  BY <1>1, <1>2 DEF TargetRev, OneBatch

(***************************************************************************)
(* A tick that fills an empty queue leads the subscriber from where it is  *)
(* to the tick's snapshot (Filled).                                        *)
(***************************************************************************)
LEMMA FilledTarget ==
    ASSUME TypeOK, TimeInv, tick.active, NEW g \in Nat, given = 1..g,
           NEW o \in Subscriber, o.pending = <<>>, o.next = g, Aimed(o), Seen(o)
    PROVE  LET p == Filled(o)
           IN /\ Aimed(p) /\ Seen(p)
              /\ p.pending # <<>> => p.pending[1].seq = g + 1
<1> DEFINE p == Filled(o)
           snap == tick.snap
<1>1. /\ store \in Store /\ snap \in Playback /\ snap.revision \in Nat /\ snap.cursor \in Nat
      /\ playback.revision \in Nat /\ view \in SUBSET Event
      /\ o.lastRev \in Nat \cup {NoRevision} /\ o.lastCur \in Nat
  BY DEF TypeOK, Ticking, Playback, Subscriber
<1>2. TargetRev(o) = o.lastRev /\ TargetCur(o) = o.lastCur
  BY DEF TargetRev, TargetCur
<1>3. Told(o.pending, given, view) = view
  <2>1. Len(o.pending) = 0
    BY EmptySeq
  <2>2. Rest(o.pending, given) = {} /\ ~Awaited(o.pending, given)
    BY <2>1 DEF Rest, Awaited
  <2> QED
    BY <2>2 DEF Told
<1>4. snap.revision <= playback.revision /\ (Current(snap.revision) => Placed(store, snap))
      /\ WithState(store)
  BY DEF TimeInv
<1>5. ASSUME Current(snap.revision), IsBaseline(o)
      PROVE  Whole(store, NewEvents(o), snap.cursor)
  BY <1>1, <1>4, <1>5, BaselineWhole DEF NewEvents
<1>6. ASSUME Current(snap.revision), ~IsBaseline(o)
      PROVE  Whole(store, view \cup NewEvents(o), snap.cursor)
  <2>1. o.lastRev = snap.revision
        /\ (o.lastCur = NoTime \/ snap.cursor = NoTime \/ o.lastCur <= snap.cursor)
    BY <1>1, <1>6 DEF IsBaseline
  <2>2. Fits(store, o.lastCur) /\ Whole(store, view, o.lastCur)
    BY <1>2, <1>3, <1>6, <2>1 DEF Aimed, Seen
  <2>3. Fits(store, snap.cursor)
    BY <1>4, <1>6 DEF Placed
  <2>4. NewEvents(o) = DeltaEvents(store, o.lastCur, snap.cursor)
    BY <1>6 DEF NewEvents
  <2> QED
    BY <1>1, <2>1, <2>2, <2>3, <2>4, DeltaWhole
<1>7. CASE IsBaseline(o) \/ NewEvents(o) # {}
  <2> DEFINE q == Pages(o)
  <2>1. given \subseteq Nat /\ \A s \in given : s <= o.next
    OBVIOUS
  <2>2. /\ q # <<>> /\ OneBatch(q) /\ Rest(q, given) = NewEvents(o)
        /\ q[1].baseline = IsBaseline(o) /\ q[1].seq = g + 1
        /\ q[1].rev = snap.revision /\ q[1].cursor = snap.cursor
    BY <2>1, PagesWhole
  <2>3. p.pending = q
    BY <1>7 DEF Filled, Subscriber
  <2> HIDE DEF p, q
  <2>4. TargetRev(p) = snap.revision /\ TargetCur(p) = snap.cursor
    BY <2>2, <2>3 DEF TargetRev, TargetCur
  <2>5. Aimed(p)
    BY <1>4, <2>2, <2>3, <2>4 DEF Aimed, Placed
  <2>6. Awaited(q, given) <=> IsBaseline(o)
    BY <2>2 DEF Awaited
  <2>7. Told(q, given, view) = IF IsBaseline(o) THEN NewEvents(o) ELSE view \cup NewEvents(o)
    BY <2>2, <2>6 DEF Told
  <2>8. Seen(p)
    BY <1>5, <1>6, <2>3, <2>4, <2>7 DEF Seen
  <2> QED
    BY <2>2, <2>3, <2>5, <2>8 DEF p
<1>8. CASE ~(IsBaseline(o) \/ NewEvents(o) # {})
  <2>1. p.pending = <<>> /\ p.lastRev = snap.revision /\ p.lastCur = snap.cursor
    BY <1>8 DEF Filled, Subscriber
  <2> HIDE DEF p
  <2>2. TargetRev(p) = snap.revision /\ TargetCur(p) = snap.cursor
    BY <2>1 DEF TargetRev, TargetCur
  <2>3. Aimed(p)
    BY <1>4, <2>1, <2>2 DEF Aimed, Placed
  <2>4. Seen(p)
    BY <1>3, <1>6, <1>8, <2>1, <2>2 DEF Seen
  <2> QED
    BY <2>1, <2>3, <2>4 DEF p
<1> QED
  BY <1>7, <1>8

(***************************************************************************)
(* What a tick works with still leads to a whole view, and what is in      *)
(* flight still fits it.                                                   *)
(***************************************************************************)
LEMMA TickSeen ==
    ASSUME StreamInv, NEW g \in Nat, OnceUpTo(g), SeenInv, tick.active
    PROVE  LET p == Filled(Popped(sub))
           IN /\ Aimed(p) /\ Seen(p)
              /\ Calm(p.pending, given, wire, client)
              /\ Carried(p.pending, given, wire)
<1> DEFINE o == Popped(sub)
           p == Filled(o)
<1>1. /\ TypeOK /\ sub \in Subscriber /\ Contiguous(sub) /\ view \in SUBSET Event
      /\ tick.ack \in Nat /\ session.ack \in Nat /\ tick.ack <= session.ack
  BY DEF StreamInv, TypeOK, QueueInv, Ticking, Session
<1>2. /\ given = 1..g /\ Follows(g, sub, wire, client)
      /\ Follows(g, p, wire, client)
  BY TickFollows DEF OnceUpTo
<1>3. /\ TimeInv /\ Aimed(sub) /\ Seen(sub)
      /\ Calm(sub.pending, given, wire, client) /\ Carried(sub.pending, given, wire)
  BY DEF SeenInv
<1>4. \A n \in Nat : n >= 1 /\ n <= tick.ack => n \in given
  BY <1>1 DEF StreamInv, GivenInv, HandedOver
<1>5. sub.pending # <<>> => sub.pending[1].seq >= 1
  <2> SUFFICES ASSUME sub.pending # <<>> PROVE sub.pending[1].seq >= 1
    OBVIOUS
  <2>1. Len(sub.pending) \in Nat \ {0}
    BY <1>1, FrontOfQueue DEF Subscriber
  <2>2. 1 \in 1..Len(sub.pending)
    BY <2>1
  <2>3. Settled(sub) \in Nat /\ sub.pending[1].seq = Settled(sub) + 1
    BY <1>1, <2>2 DEF Contiguous
  <2> QED
    BY <2>3
<1>6. /\ OneBatch(o.pending)
      /\ TargetRev(o) = TargetRev(sub) /\ TargetCur(o) = TargetCur(sub)
      /\ Told(o.pending, given, view) = Told(sub.pending, given, view)
      /\ o # sub => /\ ~Awaited(sub.pending, given) /\ ~Awaited(o.pending, given)
                    /\ sub.pending # <<>> /\ sub.pending[1].seq \in given
  BY <1>1, <1>3, <1>4, <1>5, PoppedTarget DEF Aimed
<1>7. /\ o \in Subscriber
      /\ Settled(o) = Settled(sub) \/ Settled(o) <= tick.ack
      /\ Reached(sub) <= Reached(o)
  BY <1>1, PoppedKeeps
<1> HIDE DEF o
<1>8. Aimed(o) /\ Seen(o)
  BY <1>3, <1>6 DEF Aimed, Seen
<1>9. Calm(o.pending, given, wire, client) /\ Carried(o.pending, given, wire)
  <2>1. CASE o = sub
    BY <1>3, <2>1
  <2>2. CASE o # sub
    BY <1>3, <1>6, <2>2 DEF Calm, Carried
  <2> QED
    BY <2>1, <2>2
<1>10. CASE o.pending # <<>>
  <2>1. p = o
    BY <1>10 DEF Filled
  <2> QED
    BY <1>8, <1>9, <2>1 DEF o
<1>11. CASE o.pending = <<>>
  <2>1. /\ Len(o.pending) = 0 /\ o.next \in Nat /\ tick.ack <= g
        /\ Settled(o) = o.next /\ Reached(o) = o.next
    <3>1. Len(o.pending) = 0 /\ o.next \in Nat
      BY <1>7, <1>11, EmptySeq DEF Subscriber
    <3>2. tick.ack = 0 \/ tick.ack \in 1..g
      BY <1>1, <1>2, <1>4
    <3> QED
      BY <1>11, <3>1, <3>2 DEF Settled, Reached
  <2>2. o.next = g
    <3>1. CASE o = sub
      BY <1>2, <1>11, <3>1 DEF Follows
    <3>2. CASE o # sub
      <4>1. sub.pending # <<>> /\ sub.pending[1].seq \in 1..g /\ sub.pending[1].seq \in {g, g + 1}
        BY <1>2, <1>6, <3>2 DEF Follows
      <4>2. sub.pending[1].seq = g /\ Reached(sub) = g
        BY <4>1 DEF Reached
      <4>3. Settled(sub) \in Nat /\ Settled(sub) + 1 = g
        <5>1. Len(sub.pending) \in Nat \ {0}
          BY <1>1, <4>1, FrontOfQueue DEF Subscriber
        <5>2. 1 \in 1..Len(sub.pending)
          BY <5>1
        <5> QED
          BY <1>1, <4>2, <5>2 DEF Contiguous
      <4> QED
        BY <1>1, <1>7, <2>1, <4>2, <4>3
    <3> QED
      BY <3>1, <3>2
  <2>3. Aimed(p) /\ Seen(p)
    BY <1>1, <1>2, <1>3, <1>7, <1>8, <1>11, <2>2, FilledTarget
  <2> HIDE DEF p
  <2>4. ~Awaited(o.pending, given)
    BY <1>11 DEF Awaited
  <2>5. \A i \in 1..Len(wire) : wire[i].kind = "reset" => client.epoch /\ wire[i].rev = client.baseRev
    BY <1>9, <2>4 DEF Calm
  <2>6. \A i \in 1..Len(wire) : ~(wire[i].kind = "batch" /\ wire[i].seq \notin given)
    BY <1>9, <1>11 DEF Carried
  <2>7. Calm(p.pending, given, wire, client) /\ Carried(p.pending, given, wire)
    BY <2>5, <2>6 DEF Calm, Carried
  <2> QED
    BY <2>3, <2>7 DEF p, o
<1> QED
  BY <1>10, <1>11

(***************************************************************************)
(* The reset of a page that has been handed over finds the client at its   *)
(* revision; the batch of a page is the page.                              *)
(***************************************************************************)
LEMMA PutSeen ==
    ASSUME NEW g \in Nat, NEW q, NEW G, G = 1..g, NEW c, NEW w \in Seq(Payload),
           NEW m \in Payload, Calm(q, G, w, c), Carried(q, G, w),
           \/ m.kind = "frame"
           \/ /\ q # <<>> /\ m = ResetOf(q[1]) /\ q[1].baseline
              /\ q[1].seq \in {g, g + 1} /\ q[1].seq >= 1
              /\ q[1].seq = g => c.epoch /\ q[1].rev = c.baseRev
           \/ q # <<>> /\ m = BatchOf(q[1])
    PROVE  Calm(q, G, Append(w, m), c) /\ Carried(q, G, Append(w, m))
<1> DEFINE r == Append(w, m)
           L == Len(w)
<1>1. /\ L \in Nat /\ Len(r) = L + 1 /\ r[L + 1] = m
      /\ \A i \in 1..L : r[i] = w[i]
  BY AppendProperties, LenProperties
<1> HIDE DEF r
<1>2. \A i \in 1..Len(r) : i \in 1..L \/ i = L + 1
  BY <1>1
<1>3. ASSUME ~Awaited(q, G), NEW i \in 1..Len(r), r[i].kind = "reset"
      PROVE  c.epoch /\ r[i].rev = c.baseRev
  <2>1. CASE i \in 1..L
    BY <1>1, <1>3, <2>1 DEF Calm
  <2>2. CASE i = L + 1
    <3>1. m.kind = "reset" /\ r[i] = m
      BY <1>1, <1>3, <2>2
    <3>2. /\ q # <<>> /\ m.rev = q[1].rev /\ q[1].baseline
          /\ q[1].seq \in {g, g + 1} /\ q[1].seq >= 1
          /\ q[1].seq = g => c.epoch /\ q[1].rev = c.baseRev
      BY <3>1 DEF ResetOf, BatchOf
    <3>3. q[1].seq \in G
      BY <1>3, <3>2 DEF Awaited
    <3>4. q[1].seq = g
      BY <3>2, <3>3
    <3> QED
      BY <3>1, <3>2, <3>4
  <2> QED
    BY <1>2, <2>1, <2>2
<1>4. ASSUME NEW i \in 1..Len(r), r[i].kind = "batch", r[i].seq \notin G
      PROVE  /\ q # <<>> /\ r[i].seq = q[1].seq
             /\ r[i].baseline = q[1].baseline /\ r[i].events = q[1].events
  <2>1. CASE i \in 1..L
    BY <1>1, <1>4, <2>1 DEF Carried
  <2>2. CASE i = L + 1
    <3>1. m.kind = "batch" /\ r[i] = m
      BY <1>1, <1>4, <2>2
    <3>2. q # <<>> /\ m = BatchOf(q[1])
      BY <3>1 DEF ResetOf
    <3> QED
      BY <3>1, <3>2 DEF BatchOf
  <2> QED
    BY <1>2, <2>1, <2>2
<1>5. Calm(q, G, r, c)
  BY <1>3 DEF Calm
<1>6. Carried(q, G, r)
  BY <1>4 DEF Carried
<1> QED
  BY <1>5, <1>6 DEF r

(***************************************************************************)
(* The publisher.                                                          *)
(***************************************************************************)
LEMMA PublisherSeen ==
    ASSUME StreamInv, NEW g \in Nat, OnceUpTo(g), SeenInv, Publisher
    PROVE  SeenInv'
<1> USE DEF timelineVars, publisherVars, clientVars
<1>1. /\ TimeInv /\ Aimed(sub)
      /\ session.live \/ tick.active =>
            /\ Calm(sub.pending, given, wire, client)
            /\ Carried(sub.pending, given, wire)
            /\ Seen(sub)
  BY DEF SeenInv
<1>2. /\ TypeOK /\ store \in Store /\ playback \in Playback /\ playback.revision \in Nat
      /\ sub \in Subscriber /\ wire \in Seq(Payload)
  BY DEF StreamInv, TypeOK, Playback
<1>3. NoRevision < 0 /\ ~Idle.active
  BY DEF NoRevision, Idle
<1>4. CASE \E elapsed \in {0, 1} : TickBegin(elapsed)
  <2>1. PICK elapsed \in {0, 1} : TickBegin(elapsed)
    BY <1>4
  <2>2. /\ UNCHANGED <<store, loading, session, wire, client, given, view>>
        /\ ~tick.active
        /\ playback' = UpdateEffectiveCursor(playback, store, elapsed)
    BY <2>1 DEF TickBegin
  <2>3. /\ playback' \in Playback /\ playback'.revision \in {playback.revision, playback.revision + 1}
        /\ Placed(store, playback')
    BY <1>2, <2>2, EffectiveCursorPlaced
  <2>4. TargetRev(sub) \in Nat \cup {NoRevision} /\ TargetRev(sub) <= playback.revision
    BY <1>1, <1>2, TargetType DEF Aimed
  <2>5. /\ TargetRev(sub) <= playback'.revision
        /\ TargetRev(sub) = playback'.revision => TargetRev(sub) = playback.revision
    <3> DEFINE x == TargetRev(sub)
    <3>1. x \in Int
      BY <2>4 DEF NoRevision
    <3> HIDE DEF x
    <3> QED
      BY <1>2, <2>3, <2>4, <3>1 DEF x
  <2>6. CASE session.live /\ session.subscribed
    <3>1. sub' = sub /\ tick' = [active |-> TRUE, ack |-> session.ack, snap |-> playback']
      BY <2>1, <2>6 DEF TickBegin
    <3>2. tick'.snap = playback'
      BY <3>1
    <3>3. TimeInv'
      BY <1>1, <1>2, <2>2, <2>3, <3>2 DEF TimeInv, Current
    <3>4. Aimed(sub)'
      BY <1>1, <2>2, <2>5, <3>1 DEF Aimed, Current
    <3>5. Seen(sub)'
      BY <1>1, <2>2, <2>5, <2>6, <3>1 DEF Seen, Current
    <3> QED
      BY <1>1, <2>2, <2>6, <3>1, <3>3, <3>4, <3>5 DEF SeenInv
  <2>7. CASE ~(session.live /\ session.subscribed)
    <3>1. sub' = Fresh /\ tick' = Idle
      BY <2>1, <2>7 DEF TickBegin
    <3>2. session.live => sub = Fresh /\ Len(wire) = 0
      BY <2>7 DEF StreamInv, QuietInv
    <3>3. TimeInv'
      BY <1>1, <1>3, <2>2, <2>3, <3>1 DEF TimeInv
    <3>4. TargetRev(sub') = NoRevision /\ OneBatch(sub'.pending)
      BY <3>1, FreshTarget
    <3>5. NoRevision <= playback'.revision /\ NoRevision # playback'.revision
      BY <2>3 DEF Playback, NoRevision
    <3>6. Aimed(sub)' /\ Seen(sub)'
      BY <3>4, <3>5 DEF Aimed, Seen, Current
    <3>7. session'.live => Calm(sub'.pending, given', wire', client') /\ Carried(sub'.pending, given', wire')
      BY <2>2, <3>2 DEF Calm, Carried
    <3> QED
      BY <1>3, <3>1, <3>3, <3>6, <3>7 DEF SeenInv
  <2> QED
    BY <2>6, <2>7
<1>5. CASE TickGiveUp
  <2>1. /\ UNCHANGED <<store, playback, loading>> /\ tick' = Idle /\ sub' = Fresh
        /\ session' = [session EXCEPT !.live = FALSE]
    BY <1>5 DEF TickGiveUp
  <2>2. ~session'.live /\ ~tick'.active
    BY <1>3, <2>1 DEF StreamInv, TypeOK, Session
  <2>3. TimeInv'
    BY <1>1, <2>1, <2>2 DEF TimeInv
  <2>4. TargetRev(sub') = NoRevision /\ OneBatch(sub'.pending)
    BY <2>1, FreshTarget
  <2>5. NoRevision <= playback'.revision /\ NoRevision # playback'.revision
    BY <1>2, <2>1 DEF NoRevision
  <2>6. Aimed(sub)'
    BY <2>4, <2>5 DEF Aimed, Current
  <2> QED
    BY <2>2, <2>3, <2>6 DEF SeenInv
<1>6. CASE \E elapsed, keptReset, keptBatch, framed \in BOOLEAN :
               TickPublish(elapsed, keptReset, keptBatch, framed)
  <2>1. PICK elapsed \in BOOLEAN, keptReset \in BOOLEAN, keptBatch \in BOOLEAN,
             framed \in BOOLEAN : TickPublish(elapsed, keptReset, keptBatch, framed)
    BY <1>6
  <2> DEFINE p == Filled(Popped(sub))
             due == Due(p, elapsed)
             page == p.pending[1]
             first == IF due THEN Send(wire, ResetOf(page), page.baseline /\ keptReset)
                      ELSE wire
             queue == IF due THEN Transmit(wire, page, keptReset, keptBatch) ELSE wire
             frame == FrameOf(p)
  <2>2. /\ tick.active /\ tick' = Idle
        /\ sub' = IF due THEN Sent(p) ELSE p
        /\ wire' = IF framed THEN Send(queue, frame, TRUE) ELSE queue
        /\ UNCHANGED <<store, playback, loading, client, given, view>>
    BY <2>1 DEF TickPublish
  <2>3. /\ p \in Subscriber
        /\ p.pending # <<>> => /\ page \in Page /\ p.pending[Len(p.pending)] \in Page
                               /\ page.seq = Settled(p) + 1 /\ Settled(p) \in Nat
    BY <2>2, TickQueue DEF Contiguous
  <2>4. Aimed(p) /\ Seen(p) /\ Calm(p.pending, given, wire, client) /\ Carried(p.pending, given, wire)
    BY <2>2, TickSeen
  <2>5. given = 1..g /\ Follows(g, p, wire, client)
    BY <2>2, TickFollows DEF OnceUpTo
  <2>6. due => p.pending # <<>>
    BY DEF Due
  <2>7. (first = wire) \/ (due /\ page.baseline /\ first = Append(wire, ResetOf(page)))
    BY DEF Send
  <2>8. (queue = first) \/ (due /\ queue = Append(first, BatchOf(page)))
    BY DEF Send, Transmit
  <2>9. (wire' = queue) \/ (wire' = Append(queue, frame))
    BY <2>2 DEF Send
  <2>10. frame \in Payload /\ frame.kind = "frame"
    <3>1. frames \in Nat /\ tick.ack \in Nat /\ tick.snap.revision \in Nat
      BY <1>2 DEF TypeOK, Ticking, Playback
    <3> HIDE DEF p
    <3>2. Watermark(p) \in Nat
      BY <2>3, <3>1 DEF Watermark, Page
    <3> QED
      BY <3>1, <3>2 DEF FrameOf, Payload, Frame
  <2> HIDE DEF p, due, first, queue, frame
  <2>11. due => ResetOf(page) \in Payload /\ BatchOf(page) \in Payload
    <3>1. due => page \in Page
      BY <2>3, <2>6
    <3> HIDE DEF page
    <3> QED
      BY <3>1 DEF ResetOf, BatchOf, Page, Payload, Reset, Batch
  <2>12. due => /\ page.seq \in {g, g + 1} /\ page.seq >= 1
                /\ page.seq = g /\ page.baseline => client.epoch /\ page.rev = client.baseRev
    BY <2>3, <2>5, <2>6 DEF Follows
  <2>13. /\ first \in Seq(Payload) /\ Calm(p.pending, given, first, client)
         /\ Carried(p.pending, given, first)
    <3>1. CASE first = wire
      BY <1>2, <2>4, <3>1
    <3>2. CASE due /\ page.baseline /\ first = Append(wire, ResetOf(page))
      <4>1. p.pending # <<>> /\ ResetOf(page) \in Payload
        BY <2>6, <2>11, <3>2
      <4> QED
        BY <1>2, <2>4, <2>5, <2>12, <3>2, <4>1, PutSeen, AppendProperties
    <3> QED
      BY <2>7, <3>1, <3>2
  <2>14. /\ queue \in Seq(Payload) /\ Calm(p.pending, given, queue, client)
         /\ Carried(p.pending, given, queue)
    <3>1. CASE queue = first
      BY <2>13, <3>1
    <3>2. CASE due /\ queue = Append(first, BatchOf(page))
      <4>1. p.pending # <<>> /\ BatchOf(page) \in Payload
        BY <2>6, <2>11, <3>2
      <4> QED
        BY <2>5, <2>13, <3>2, <4>1, PutSeen, AppendProperties
    <3> QED
      BY <2>8, <3>1, <3>2
  <2>15. Calm(p.pending, given, wire', client) /\ Carried(p.pending, given, wire')
    <3>1. CASE wire' = queue
      BY <2>14, <3>1
    <3>2. CASE wire' = Append(queue, frame)
      BY <2>5, <2>10, <2>14, <3>2, PutSeen
    <3> QED
      BY <2>9, <3>1, <3>2
  <2>16. /\ OneBatch(sub'.pending) /\ TargetRev(sub') = TargetRev(p) /\ TargetCur(sub') = TargetCur(p)
         /\ Told(sub'.pending, given, view) = Told(p.pending, given, view)
         /\ Calm(sub'.pending, given, wire', client) /\ Carried(sub'.pending, given, wire')
    <3>1. CASE due
      <4> DEFINE s == Sent(p)
      <4>1. p.pending # <<>> /\ OneBatch(p.pending)
        BY <2>4, <2>6, <3>1 DEF Aimed
      <4>2. /\ OneBatch(s.pending) /\ s.pending # <<>>
            /\ TargetRev(s) = TargetRev(p) /\ TargetCur(s) = TargetCur(p)
            /\ Told(s.pending, given, view) = Told(p.pending, given, view)
            /\ s.pending[1].seq = p.pending[1].seq
            /\ s.pending[1].baseline = p.pending[1].baseline
            /\ s.pending[1].events = p.pending[1].events
        BY <2>3, <4>1, SentTarget
      <4>3. sub' = s
        BY <2>2, <3>1
      <4> HIDE DEF s
      <4>4. Calm(s.pending, given, wire', client)
        BY <2>15, <4>1, <4>2 DEF Calm, Awaited
      <4>5. Carried(s.pending, given, wire')
        BY <2>15, <4>1, <4>2 DEF Carried
      <4> QED
        BY <4>2, <4>3, <4>4, <4>5
    <3>2. CASE ~due
      BY <2>2, <2>4, <2>15, <3>2 DEF Aimed
    <3> QED
      BY <3>1, <3>2
  <2>17. TimeInv'
    BY <1>1, <1>3, <2>2 DEF TimeInv
  <2>18. Aimed(sub)'
    BY <2>2, <2>4, <2>16 DEF Aimed, Current
  <2>19. Seen(sub)'
    BY <2>2, <2>4, <2>16 DEF Seen, Current
  <2> QED
    BY <2>2, <2>16, <2>17, <2>18, <2>19 DEF SeenInv
<1> QED
  BY <1>4, <1>5, <1>6 DEF Publisher

(***************************************************************************)
(* Playback control and loading outdate whatever was read before, by a new *)
(* revision or by the load that will bring one.                            *)
(***************************************************************************)
LEMMA TimelinesSeen ==
    ASSUME FeedSamples = {}, FeedEvents = {}, \A r \in Recordings : WithState(r),
           StreamInv, SeenInv, Timelines
    PROVE  SeenInv'
<1> USE DEF timelineVars, publisherVars, clientVars
<1>1. /\ TimeInv /\ Aimed(sub)
      /\ session.live \/ tick.active =>
            /\ Calm(sub.pending, given, wire, client)
            /\ Carried(sub.pending, given, wire)
            /\ Seen(sub)
  BY DEF SeenInv
<1>2. /\ store \in Store /\ playback \in Playback /\ playback.revision \in Nat
      /\ sub \in Subscriber /\ loading \in BOOLEAN
      /\ tick.snap.revision \in Nat
  BY DEF StreamInv, TypeOK, Playback, Ticking
<1>3. TargetRev(sub) \in Int /\ TargetRev(sub) <= playback.revision
  BY <1>1, <1>2, TargetType DEF Aimed, NoRevision
<1>4. UNCHANGED <<session, sub, tick, wire, client, given, view>>
  BY DEF Timelines, AppendState, AppendEvent, GoLive, Seek, Play, LoadStore, ResetAfterLoad
<1>5. SUFFICES /\ WithState(store') /\ playback'.revision \in Nat
               /\ \/ loading' /\ playback'.revision >= playback.revision
                  \/ Placed(store', playback') /\ playback'.revision > playback.revision
  <2>1. playback'.revision >= playback.revision
    BY <1>2, <1>5
  <2>2. ASSUME NEW rev \in Int, rev <= playback.revision
        PROVE  rev <= playback'.revision /\ ~(~loading' /\ rev = playback'.revision)
    BY <1>2, <1>5, <2>2
  <2>3. TargetRev(sub) <= playback'.revision /\ ~(~loading' /\ TargetRev(sub) = playback'.revision)
    BY <1>3, <2>2
  <2>4. tick.active => tick.snap.revision <= playback'.revision
                       /\ ~(~loading' /\ tick.snap.revision = playback'.revision)
    BY <1>1, <1>2, <2>2 DEF TimeInv
  <2>5. TimeInv'
    BY <1>4, <1>5, <2>4 DEF TimeInv, Current
  <2>6. Aimed(sub)' /\ Seen(sub)'
    BY <1>1, <1>4, <2>3 DEF Aimed, Seen, Current
  <2> QED
    BY <1>1, <1>4, <2>5, <2>6 DEF SeenInv
<1>6. CASE GoLive
  <2>1. /\ playback' = [mode |-> "live", cursor |-> Latest(store), revision |-> playback.revision + 1]
        /\ store' = store
    BY <1>6 DEF GoLive
  <2>2. Instants(store) # {} => Latest(store) # NoTime
    BY <1>2, Bounds, InstantsFinite DEF NoTime
  <2> QED
    BY <1>1, <1>2, <2>1, <2>2 DEF TimeInv, Placed, Fits
<1>7. CASE \E t \in Instants(store) : Seek(t)
  <2>1. PICK t \in Instants(store) : Seek(t)
    BY <1>7
  <2>2. /\ playback' = [mode |-> "paused", cursor |-> Clamp(t, store), revision |-> playback.revision + 1]
        /\ store' = store /\ Instants(store) # {}
    BY <2>1 DEF Seek
  <2>3. Clamp(t, store) # NoTime
    <3>1. Instants(store) \subseteq Nat \ {0} /\ t \in Nat
      BY <1>2, <2>1, InstantsFinite
    <3>2. Earliest(store) \in Nat \ {0} /\ Earliest(store) <= Clamp(t, store) /\ Clamp(t, store) \in Nat
      BY <1>2, <2>2, <3>1, Bounds, ClampInBounds
    <3> QED
      BY <3>2 DEF NoTime
  <2> QED
    BY <1>1, <1>2, <2>2, <2>3 DEF TimeInv, Placed, Fits
<1>8. CASE Play
  <2> DEFINE now == UpdateEffectiveCursor(playback, store, 0)
             playing == [mode |-> "playing", cursor |-> Clamp(now.cursor, store),
                         revision |-> now.revision + 1]
  <2>1. playback' = UpdateEffectiveCursor(playing, store, 0) /\ store' = store
    BY <1>8 DEF Play
  <2>2. now \in Playback /\ now.revision \in {playback.revision, playback.revision + 1}
    BY <1>2, EffectiveCursorPlaced
  <2> HIDE DEF now
  <2>3. playing \in Playback /\ playing.revision = now.revision + 1
    <3>1. now.cursor \in Nat /\ now.revision \in Nat
      BY <2>2 DEF Playback
    <3>2. Clamp(now.cursor, store) \in Nat
      BY <1>2, <3>1, ClampInBounds
    <3> QED
      BY <3>1, <3>2 DEF Playback, Mode
  <2> HIDE DEF playing
  <2>4. /\ playback' \in Playback /\ Placed(store, playback')
        /\ playback'.revision \in {playing.revision, playing.revision + 1}
    BY <1>2, <2>1, <2>3, EffectiveCursorPlaced
  <2>5. playback'.revision \in Nat /\ playback'.revision > playback.revision
    BY <1>2, <2>2, <2>3, <2>4 DEF Playback
  <2> QED
    BY <1>1, <2>1, <2>4, <2>5 DEF TimeInv
<1>9. CASE \E r \in Recordings \cup {EmptyStore} : LoadStore(r)
  <2>1. PICK r \in Recordings \cup {EmptyStore} : LoadStore(r)
    BY <1>9
  <2>2. WithState(EmptyStore)
    BY DEF WithState, EmptyStore
  <2> QED
    BY <1>2, <2>1, <2>2 DEF LoadStore
<1>10. CASE ResetAfterLoad
  <2>1. /\ playback' = [mode |-> "paused", cursor |-> Earliest(store), revision |-> playback.revision + 1]
        /\ store' = store
    BY <1>10 DEF ResetAfterLoad
  <2>2. Instants(store) # {} => Earliest(store) # NoTime
    BY <1>2, Bounds, InstantsFinite DEF NoTime
  <2> QED
    BY <1>1, <1>2, <2>1, <2>2 DEF TimeInv, Placed, Fits
<1> QED
  BY <1>6, <1>7, <1>8, <1>9, <1>10 DEF Timelines

(***************************************************************************)
(* The session changes nothing of it.                                      *)
(***************************************************************************)
LEMMA SessionsSeen ==
    ASSUME StreamInv, SeenInv, Sessions
    PROVE  SeenInv'
<1>1. UNCHANGED <<store, playback, loading, sub, tick, wire, client, given, view>>
  BY DEF Sessions, HandleSubscribe, HandleAck, RemoveSession,
         timelineVars, publisherVars, clientVars
<1>2. session'.live => session.live
  BY DEF Sessions, HandleSubscribe, HandleAck, RemoveSession, StreamInv, TypeOK, Session
<1>3. TimeInv'
  BY <1>1 DEF SeenInv, TimeInv, Current
<1>4. Aimed(sub)' /\ (Seen(sub) => Seen(sub)')
  BY <1>1 DEF SeenInv, Aimed, Seen, Current
<1> QED
  BY <1>1, <1>2, <1>3, <1>4 DEF SeenInv

(***************************************************************************)
(* Handing over the first page leads the consumer where the queue takes    *)
(* it.                                                                     *)
(***************************************************************************)
LEMMA GivenTold ==
    ASSUME NEW q \in Seq(Page), q # <<>>, NEW g \in Nat, q[1].seq = g + 1,
           \A i \in 1..Len(q) : q[i].seq = g + i, NEW v
    PROVE  Told(q, 1..(g + 1), IF q[1].baseline THEN q[1].events ELSE v \cup q[1].events)
             = Told(q, 1..g, v)
<1> DEFINE G == 1..g
           H == 1..(g + 1)
           E == q[1].events
<1>1. Len(q) \in Nat \ {0} /\ q[1] \in Page
  BY FrontOfQueue
<1>2. 1 \in 1..Len(q) /\ q[1].seq \notin G /\ q[1].seq \in H /\ E \subseteq Event
  BY <1>1 DEF Page
<1>3. Rest(q, G) = E \cup Rest(q, H)
  <2>1. ASSUME NEW e \in Rest(q, G) PROVE e \in E \cup Rest(q, H)
    <3>1. PICK i \in 1..Len(q) : e \in q[i].events
      BY <2>1 DEF Rest
    <3>2. CASE i = 1
      BY <3>1, <3>2
    <3>3. CASE i # 1
      <4>1. q[i].seq = g + i /\ i > 1 /\ i \in Nat
        BY <1>1, <3>3
      <4>2. q[i].seq \notin H
        BY <4>1
      <4> QED
        BY <2>1, <3>1, <4>2 DEF Rest
    <3> QED
      BY <3>2, <3>3
  <2>2. ASSUME NEW e \in Rest(q, H) PROVE e \in Rest(q, G)
    <3>1. PICK i \in 1..Len(q) : q[i].seq \notin H /\ e \in q[i].events
      BY <2>2 DEF Rest
    <3>2. q[i].seq \notin G
      BY <3>1
    <3> HIDE DEF G, H
    <3> QED
      BY <2>2, <3>1, <3>2 DEF Rest
  <2>3. E \subseteq Rest(q, G)
    <3> HIDE DEF G
    <3> QED
      BY <1>2 DEF Rest
  <2> HIDE DEF G, H, E
  <2> QED
    BY <2>1, <2>2, <2>3
<1>4. Awaited(q, G) = q[1].baseline /\ ~Awaited(q, H)
  BY <1>1, <1>2 DEF Awaited, Page
<1> HIDE DEF G, H, E
<1>5. Told(q, H, IF q[1].baseline THEN E ELSE v \cup E) = Told(q, G, v)
  BY <1>3, <1>4 DEF Told
<1> QED
  BY <1>5 DEF G, H, E

(***************************************************************************)
(* Taking payloads from the network leaves what is said of the others.     *)
(***************************************************************************)
LEMMA TakenCarried ==
    ASSUME NEW q, NEW G, NEW w, NEW x, Carried(q, G, w),
           \A j \in 1..Len(x) : \E k \in 1..Len(w) : x[j] = w[k]
    PROVE  Carried(q, G, x)
<1>1. ASSUME NEW j \in 1..Len(x), x[j].kind = "batch", x[j].seq \notin G
      PROVE  /\ q # <<>> /\ x[j].seq = q[1].seq
             /\ x[j].baseline = q[1].baseline /\ x[j].events = q[1].events
  <2>1. PICK k \in 1..Len(w) : x[j] = w[k]
    OBVIOUS
  <2>2. w[k].kind = "batch" /\ w[k].seq \notin G
    BY <1>1, <2>1
  <2> QED
    BY <2>1, <2>2 DEF Carried
<1> QED
  BY <1>1 DEF Carried

(***************************************************************************)
(* The client, when the network hands over its payloads in their order.    *)
(***************************************************************************)
LEMMA ClientSeen ==
    ASSUME ~Reorder, StreamInv, NEW g \in Nat, OnceUpTo(g), OnceInv', SeenInv, Client
    PROVE  SeenInv'
<1> USE DEF timelineVars, publisherVars, clientVars
<1>1. /\ given = 1..g /\ client.applied <= g /\ InOrder(g, wire, client)
      /\ session.live \/ tick.active => Follows(g, sub, wire, client)
  BY DEF OnceUpTo
<1>2. /\ TimeInv /\ Aimed(sub)
      /\ session.live \/ tick.active =>
            /\ Calm(sub.pending, given, wire, client)
            /\ Carried(sub.pending, given, wire)
            /\ Seen(sub)
  BY DEF SeenInv
<1>3. wire \in Seq(Payload) /\ client \in ClientState /\ sub \in Subscriber
  BY DEF StreamInv, TypeOK
<1>4. UNCHANGED <<store, playback, loading, session, sub, tick>>
  BY DEF Client, ClientConnect, ShowPending, RecvEarly, RecvFrame, RecvBatch, RecvReset
<1>5. TimeInv' /\ Aimed(sub)'
  BY <1>2, <1>4 DEF TimeInv, Aimed, Current
<1>6. SUFFICES ASSUME session.live \/ tick.active
               PROVE  /\ Calm(sub.pending, given', wire', client')
                      /\ Carried(sub.pending, given', wire')
                      /\ Seen(sub)'
  BY <1>4, <1>5 DEF SeenInv
<1>7. /\ Calm(sub.pending, given, wire, client) /\ Carried(sub.pending, given, wire)
      /\ Seen(sub) /\ Follows(g, sub, wire, client)
  BY <1>1, <1>2, <1>6
<1>8. ASSUME wire' = wire \/ (1 \in 1..Len(wire) /\ wire' = Without(wire, 1))
      PROVE  \A j \in 1..Len(wire') : \E k \in 1..Len(wire) : wire'[j] = wire[k]
  BY <1>3, <1>8, WithoutKeeps
<1>9. ASSUME client'.epoch = client.epoch, client'.baseRev = client.baseRev,
             UNCHANGED <<given, view>>,
             wire' = wire \/ (1 \in 1..Len(wire) /\ wire' = Without(wire, 1))
      PROVE  /\ Calm(sub.pending, given', wire', client')
             /\ Carried(sub.pending, given', wire')
             /\ Seen(sub)'
  <2>1. \A j \in 1..Len(wire') : \E k \in 1..Len(wire) : wire'[j] = wire[k]
    BY <1>8, <1>9
  <2>2. Calm(sub.pending, given', wire', client')
    BY <1>7, <1>9, <2>1 DEF Calm
  <2>3. Carried(sub.pending, given', wire')
    BY <1>7, <1>9, <2>1, TakenCarried
  <2>4. Seen(sub)'
    BY <1>4, <1>7, <1>9 DEF Seen, Current
  <2> QED
    BY <2>2, <2>3, <2>4
<1>10. CASE ClientConnect
  <2>1. client'.epoch = client.epoch /\ client'.baseRev = client.baseRev
    BY <1>3, <1>10 DEF ClientConnect, ClientState
  <2> QED
    BY <1>9, <1>10, <2>1 DEF ClientConnect
<1>11. CASE ShowPending
  <2>1. client'.epoch = client.epoch /\ client'.baseRev = client.baseRev
    BY <1>3, <1>11 DEF ShowPending, ClientState
  <2> QED
    BY <1>9, <1>11, <2>1 DEF ShowPending
<1>12. ASSUME NEW i \in Receivable,
              RecvEarly(i) \/ RecvFrame(i) \/ RecvBatch(i, TRUE) \/ RecvBatch(i, FALSE) \/ RecvReset(i)
       PROVE  /\ Calm(sub.pending, given', wire', client')
              /\ Carried(sub.pending, given', wire')
              /\ Seen(sub)'
  <2>1. i = 1 /\ 1 \in 1..Len(wire)
    BY <1>12 DEF Receivable
  <2>2. CASE RecvEarly(1)
    BY <1>9, <2>1, <2>2 DEF RecvEarly
  <2>3. CASE RecvFrame(1)
    <3>1. client'.epoch = client.epoch /\ client'.baseRev = client.baseRev
      BY <1>3, <2>3 DEF RecvFrame, ClientState
    <3> QED
      BY <1>9, <2>1, <2>3, <3>1 DEF RecvFrame
  <2>4. CASE RecvBatch(1, TRUE) \/ RecvBatch(1, FALSE)
    <3>1. PICK keptAck \in BOOLEAN : RecvBatch(1, keptAck)
      BY <2>4
    <3> DEFINE b == wire[1]
               c == Rebased(b)
    <3>2. /\ b.kind = "batch" /\ wire' = Without(wire, 1)
          /\ \/ /\ b.seq <= c.applied
                /\ client' = c
                /\ UNCHANGED <<view, given, twice>>
             \/ /\ b.seq > c.applied
                /\ client' = [c EXCEPT !.applied = b.seq]
                /\ Consume(b)
      BY <3>1 DEF RecvBatch
    <3>3. b.seq \in {g, g + 1} /\ b.seq >= 1
      BY <1>1, <2>1, <3>2 DEF InOrder, StreamInv, WireInv
    <3>4. CASE b.seq = g
      <4>1. client.epoch /\ client.applied = g /\ (b.baseline => b.rev = client.baseRev)
        BY <1>1, <2>1, <3>2, <3>4 DEF InOrder, BatchIn
      <4>2. c = client
        BY <4>1 DEF Rebased
      <4> HIDE DEF c
      <4>3. client' = client /\ UNCHANGED <<given, view>>
        BY <3>2, <3>4, <4>1, <4>2
      <4> QED
        BY <1>9, <2>1, <3>2, <4>3
    <3>5. CASE b.seq = g + 1
      <4>1. c.applied \in {0, client.applied}
        BY <1>3 DEF Rebased, ClientState
      <4> HIDE DEF c
      <4>2. Consume(b)
        BY <1>1, <1>3, <3>2, <3>5, <4>1 DEF ClientState
      <4>3. given' = 1..(g + 1) /\ view' = IF b.baseline THEN b.events ELSE view \cup b.events
        <5>1. 1..(g + 1) = (1..g) \cup {g + 1}
          OBVIOUS
        <5> QED
          BY <1>1, <3>5, <4>2, <5>1 DEF Consume
      <4>4. /\ sub.pending # <<>> /\ sub.pending[1].seq = g + 1
            /\ b.baseline = sub.pending[1].baseline /\ b.events = sub.pending[1].events
        BY <1>1, <1>7, <2>1, <3>2, <3>5 DEF Carried
      <4>5. sub.pending \in Seq(Page) /\ \A k \in 1..Len(sub.pending) : sub.pending[k].seq = g + k
        <5>1. sub.pending \in Seq(Page) /\ Len(sub.pending) \in Nat \ {0}
          BY <1>3, <4>4, FrontOfQueue DEF Subscriber
        <5>2. 1 \in 1..Len(sub.pending) /\ Contiguous(sub)
          BY <5>1 DEF StreamInv, QueueInv
        <5>3. Settled(sub) \in Nat /\ Settled(sub) + 1 = g + 1
          BY <4>4, <5>2 DEF Contiguous
        <5>4. Settled(sub) = g
          BY <5>3
        <5> QED
          BY <5>1, <5>2, <5>4 DEF Contiguous
      <4>6. Told(sub.pending, given', view') = Told(sub.pending, given, view)
        <5> DEFINE q == sub.pending
        <5>1. Told(q, 1..(g + 1), IF q[1].baseline THEN q[1].events ELSE view \cup q[1].events)
                = Told(q, 1..g, view)
          BY <4>4, <4>5, GivenTold
        <5>2. view' = IF q[1].baseline THEN q[1].events ELSE view \cup q[1].events
          BY <4>3, <4>4
        <5> QED
          BY <1>1, <4>3, <5>1, <5>2
      <4>7. Seen(sub)'
        BY <1>4, <1>7, <4>6 DEF Seen, Current
      <4>8. Follows(g + 1, sub, wire', client')
        <5>1. PICK h \in Nat : OnceUpTo(h)'
          BY DEF OnceInv
        <5>2. given' = 1..h
          BY <5>1 DEF OnceUpTo
        <5>3. h = g + 1
          <6>1. h \in 1..(g + 1) \/ h = 0
            BY <4>3, <5>2
          <6>2. g + 1 \in 1..h
            BY <4>3, <5>2
          <6> QED
            BY <6>1, <6>2
        <5> QED
          BY <1>4, <1>6, <5>1, <5>3 DEF OnceUpTo
      <4>9. Calm(sub.pending, given', wire', client')
        BY <4>4, <4>8 DEF Follows, Calm
      <4>10. Carried(sub.pending, given', wire')
        BY <4>3, <4>4, <4>8 DEF Follows, Carried
      <4> QED
        BY <4>7, <4>9, <4>10
    <3> QED
      BY <3>3, <3>4, <3>5
  <2>5. CASE RecvReset(1)
    <3>1. wire[1].kind = "reset" /\ wire' = Without(wire, 1) /\ UNCHANGED given
      BY <2>5 DEF RecvReset
    <3>2. CASE client.epoch /\ client.baseRev = wire[1].rev
      <4>1. UNCHANGED <<client, view>>
        BY <2>5, <3>2 DEF RecvReset
      <4> QED
        BY <1>9, <2>1, <3>1, <4>1
    <3>3. CASE ~(client.epoch /\ client.baseRev = wire[1].rev)
      <4>1. Awaited(sub.pending, given)
        BY <1>7, <2>1, <3>1, <3>3 DEF Calm
      <4>2. Calm(sub.pending, given', wire', client')
        BY <3>1, <4>1 DEF Calm
      <4>3. Carried(sub.pending, given', wire')
        <5>1. \A j \in 1..Len(wire') : \E k \in 1..Len(wire) : wire'[j] = wire[k]
          BY <1>8, <2>1, <3>1
        <5> QED
          BY <1>7, <3>1, <5>1, TakenCarried
      <4>4. Told(sub.pending, given', view') = Told(sub.pending, given, view)
        BY <3>1, <4>1 DEF Told
      <4>5. Seen(sub)'
        BY <1>4, <1>7, <4>4 DEF Seen, Current
      <4> QED
        BY <4>2, <4>3, <4>5
    <3> QED
      BY <3>2, <3>3
  <2> QED
    BY <1>12, <2>1, <2>2, <2>3, <2>4, <2>5
<1> QED
  BY <1>10, <1>11, <1>12 DEF Client

(***************************************************************************)
(* A subscriber that the publisher considers in step holds, of every       *)
(* aircraft with a state by its cursor, the life that baseline_events      *)
(* would give a new one there: over a network that may lose but does not   *)
(* overtake, whatever is sought, played, loaded or cleared meanwhile.      *)
(* Recordings are those the clients produce, whose spawns carry a state.   *)
(* With events stored behind the cursor while the stream runs it does not  *)
(* hold.                                                                   *)
(***************************************************************************)
THEOREM ViewIsComplete ==
    ASSUME ~Reorder, FeedSamples = {}, FeedEvents = {},
           \A r \in Recordings : WithState(r)
    PROVE  Spec => []ViewComplete
<1>1. Init => SeenInv
  <2> SUFFICES ASSUME Init PROVE SeenInv
    OBVIOUS
  <2>1. /\ store \in Recordings /\ store \in Store /\ wire = <<>> /\ sub = Fresh /\ tick = Idle
        /\ playback = IF Instants(store) = {}
                      THEN [mode |-> "live", cursor |-> NoTime, revision |-> 0]
                      ELSE [mode |-> "paused", cursor |-> Earliest(store), revision |-> 0]
    BY StreamAssumption DEF Init
  <2>2. Len(wire) = 0 /\ ~tick.active
    BY <2>1 DEF Idle
  <2>3. Placed(store, playback) /\ playback.revision = 0
    <3>1. Instants(store) = {} => Latest(store) = NoTime
      BY DEF Latest
    <3>2. Instants(store) # {} => Earliest(store) # NoTime
      BY <2>1, Bounds, InstantsFinite DEF NoTime
    <3> QED
      BY <2>1, <3>1, <3>2 DEF Placed, Fits
  <2>4. TimeInv
    BY <2>1, <2>2, <2>3 DEF TimeInv
  <2>5. Aimed(sub) /\ Seen(sub)
    BY <2>1, <2>3, FreshTarget DEF Aimed, Seen, Current, NoRevision
  <2>6. Calm(sub.pending, given, wire, client) /\ Carried(sub.pending, given, wire)
    BY <2>2 DEF Calm, Carried
  <2> QED
    BY <2>4, <2>5, <2>6 DEF SeenInv
<1>2. StreamInv /\ OnceInv /\ OnceInv' /\ SeenInv /\ [Next]_vars => SeenInv'
  <2> SUFFICES ASSUME StreamInv, OnceInv, OnceInv', SeenInv, [Next]_vars PROVE SeenInv'
    OBVIOUS
  <2>1. PICK g \in Nat : OnceUpTo(g)
    BY DEF OnceInv
  <2>2. CASE Timelines
    BY <2>2, TimelinesSeen
  <2>3. CASE Sessions
    BY <2>3, SessionsSeen
  <2>4. CASE Publisher
    BY <2>1, <2>4, PublisherSeen
  <2>5. CASE Client
    BY <2>1, <2>5, ClientSeen
  <2>6. CASE UNCHANGED vars
    <3>1. UNCHANGED <<store, playback, loading, session, sub, tick, wire, client, given, view>>
      BY <2>6 DEF vars, timelineVars, publisherVars, clientVars
    <3>2. TimeInv' /\ Aimed(sub)' /\ (Seen(sub) => Seen(sub)')
      BY <3>1 DEF SeenInv, TimeInv, Aimed, Seen, Current
    <3> QED
      BY <3>1, <3>2 DEF SeenInv
  <2> QED
    BY <2>2, <2>3, <2>4, <2>5, <2>6 DEF Next
<1>3. StreamInv /\ SeenInv => ViewComplete
  <2> SUFFICES ASSUME StreamInv, SeenInv, InStep, NEW s \in store.states, s[2] <= sub.lastCur
               PROVE  Life({e \in view : e.aircraft = s[1]})
                          = Life(UpTo(EventsOf(store, s[1]), sub.lastCur))
    BY DEF ViewComplete
  <2>1. /\ session.live /\ sub.pending = <<>> /\ sub.lastRev = playback.revision /\ ~loading
        /\ store \in Store /\ sub.lastCur \in Nat
    BY DEF InStep, StreamInv, TypeOK, Subscriber
  <2>2. TargetRev(sub) = sub.lastRev /\ TargetCur(sub) = sub.lastCur
    BY <2>1 DEF TargetRev, TargetCur
  <2>3. Told(sub.pending, given, view) = view
    <3>1. Len(sub.pending) = 0
      BY <2>1, EmptySeq
    <3>2. Rest(sub.pending, given) = {} /\ ~Awaited(sub.pending, given)
      BY <2>1, <3>1 DEF Rest, Awaited
    <3> QED
      BY <3>2 DEF Told
  <2>4. Whole(store, view, sub.lastCur)
    BY <2>1, <2>2, <2>3 DEF SeenInv, Seen, Current
  <2> QED
    BY <2>1, <2>4, WholeLife
<1> QED
  BY <1>1, <1>2, <1>3, StreamInvariant, OnceInvariant, PTL DEF Spec
===============================================================================
