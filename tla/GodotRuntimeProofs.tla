-------------------------- MODULE GodotRuntimeProofs --------------------------
(***************************************************************************)
(* Proofs about module GodotRuntime: no operation of the scene is lost or  *)
(* answered out of order between its thread and the worker, for any number *)
(* of streams, operations and waiting events.                              *)
(***************************************************************************)
EXTENDS GodotRuntime, TLAPS, SequenceTheorems

(***************************************************************************)
(* The inductive invariant.                                                *)
(*                                                                         *)
(* Kept says OperationsKept piece by piece: the ids in what was signalled, *)
(* in the waiting events and in the waiting commands are those accepted,   *)
(* each of the three is in call order, and each lies below the next.       *)
(*                                                                         *)
(* Phases is why no operation is still queued when the worker goes.  While *)
(* it starts, or when its start failed, the node is not running and no     *)
(* Started is on its way, so nothing was accepted (Unheard); otherwise it  *)
(* goes only on Shutdown, and that is the last command ever sent.          *)
(***************************************************************************)
Below(A, B) == \A a \in A, b \in B : a < b

Has(q, kind) == \E i \in 1 .. Len(q) : q[i].kind = kind

Command == [kind : {"shutdown", "timeline"} \cup Sessional, n : Nat]

Notice == [kind : {"started", "reconnecting", "reset", "completed", "error", "stopped"},
           n : Nat]

GodotTypeOK ==
    /\ host \in [status : Status, pc : {"idle", "drain", "take", "join"}, role : Role,
                 snapshot : Nat]
    /\ worker \in [pc : {"none", "start", "wait", "due", "check", "connect", "retry",
                         "poll", "recv", "stop", "ended"},
                   role : Role, at : Nat, announced : BOOLEAN]
    /\ commands \in Seq(Command)
    /\ events \in Seq(Notice) /\ answered \in Seq(Notice)
    /\ slot \in Nat /\ stream \in Nat /\ nextId \in Nat

Kept ==
    /\ accepted = Ids(answered) \cup Ids(events) \cup Ids(commands)
    /\ InCallOrder(answered) /\ InCallOrder(events) /\ InCallOrder(commands)
    /\ Below(Ids(answered), Ids(events))
    /\ Below(Ids(answered), Ids(commands))
    /\ Below(Ids(events), Ids(commands))
    /\ \A n \in accepted : n < nextId

Unheard ==
    /\ Ids(commands) = {}
    /\ host.status # "running"
    /\ ~Has(events, "started")

Phases ==
    /\ host.status = "stopped" <=> worker.pc = "none"
    /\ worker.pc = "none" => commands = <<>> /\ events = <<>> /\ host.pc = "idle"
    /\ host.pc # "join" => ~Has(commands, "shutdown") /\ ~Has(events, "stopped")
    /\ host.pc # "join" /\ worker.pc # "none" => ~closed
    /\ \A i \in 1 .. Len(commands) : commands[i].kind = "shutdown" => i = Len(commands)
    /\ worker.pc = "start" => Unheard
    /\ worker.pc = "stop" => host.pc = "join" /\ commands = <<>>
    /\ worker.pc = "ended" => Ids(commands) = {} /\ (host.pc # "join" => Unheard)

GodotInv == GodotTypeOK /\ Kept /\ Phases
-----------------------------------------------------------------------------
(* Operations in a channel.                                                *)

(***************************************************************************)
(* An empty channel holds no operation and nothing else.                   *)
(***************************************************************************)
LEMMA NothingIn ==
    /\ Ids(<<>>) = {}
    /\ InCallOrder(<<>>)
    /\ \A k : ~Has(<<>>, k)
BY DEF Ids, InCallOrder, Has

(***************************************************************************)
(* What sending into a channel (Sender::send) adds to it.                  *)
(***************************************************************************)
LEMMA AppendHolds ==
    ASSUME NEW S, NEW q \in Seq(S), NEW e \in S
    PROVE  /\ Append(q, e) \in Seq(S)
           /\ Ids(Append(q, e)) = Ids(q) \cup (IF OfOperation(e) THEN {e.n} ELSE {})
           /\ \A k : Has(Append(q, e), k) <=> Has(q, k) \/ e.kind = k
<1> DEFINE a == Append(q, e)
<1>1. /\ a \in Seq(S) /\ Len(q) \in Nat /\ Len(a) = Len(q) + 1
      /\ \A i \in 1 .. Len(q) : a[i] = q[i]
      /\ a[Len(q) + 1] = e
  BY AppendProperties, LenProperties
<1> HIDE DEF a
<1>2. \A i : i \in 1 .. Len(a) <=> i \in 1 .. Len(q) \/ i = Len(q) + 1
  BY <1>1
<1>3. Ids(a) = Ids(q) \cup (IF OfOperation(e) THEN {e.n} ELSE {})
  <2>1. ASSUME NEW n \in Ids(a)
        PROVE  n \in Ids(q) \cup (IF OfOperation(e) THEN {e.n} ELSE {})
    <3>1. PICK i \in 1 .. Len(a) : OfOperation(a[i]) /\ n = a[i].n
      BY <2>1 DEF Ids
    <3> QED
      BY <1>1, <1>2, <3>1 DEF Ids
  <2>2. ASSUME NEW n \in Ids(q) PROVE n \in Ids(a)
    <3>1. PICK i \in 1 .. Len(q) : OfOperation(q[i]) /\ n = q[i].n
      BY <2>2 DEF Ids
    <3>2. i \in 1 .. Len(a) /\ a[i] = q[i]
      BY <1>1, <1>2
    <3> QED
      BY <3>1, <3>2 DEF Ids
  <2>3. ASSUME OfOperation(e) PROVE e.n \in Ids(a)
    BY <1>1, <1>2, <2>3 DEF Ids
  <2> QED
    BY <2>1, <2>2, <2>3
<1>4. ASSUME NEW k PROVE Has(a, k) <=> Has(q, k) \/ e.kind = k
  BY <1>1, <1>2 DEF Has
<1> QED
  BY <1>1, <1>3, <1>4 DEF a

(***************************************************************************)
(* A channel stays in call order when what is sent is newer than all of it.*)
(***************************************************************************)
LEMMA AppendOrder ==
    ASSUME NEW S, NEW q \in Seq(S), NEW e \in S, InCallOrder(q),
           OfOperation(e) => \A n \in Ids(q) : n < e.n
    PROVE  InCallOrder(Append(q, e))
<1> DEFINE a == Append(q, e)
<1>1. /\ Len(q) \in Nat /\ Len(a) = Len(q) + 1
      /\ \A i \in 1 .. Len(q) : a[i] = q[i]
      /\ a[Len(q) + 1] = e
  BY AppendProperties, LenProperties
<1> HIDE DEF a
<1>2. SUFFICES ASSUME NEW i \in 1 .. Len(a), NEW j \in 1 .. Len(a), i < j,
                      OfOperation(a[i]), OfOperation(a[j])
               PROVE  a[i].n < a[j].n
  BY DEF InCallOrder, a
<1>3. i \in 1 .. Len(q) /\ a[i] = q[i]
  BY <1>1, <1>2
<1>4. CASE j \in 1 .. Len(q)
  <2>1. a[j] = q[j]
    BY <1>1, <1>4
  <2> QED
    BY <1>2, <1>3, <1>4, <2>1 DEF InCallOrder
<1>5. CASE j = Len(q) + 1
  <2>1. a[j] = e
    BY <1>1, <1>5
  <2>2. a[i].n \in Ids(q)
    BY <1>2, <1>3 DEF Ids
  <2> QED
    BY <1>2, <2>1, <2>2
<1> QED
  BY <1>1, <1>4, <1>5

(***************************************************************************)
(* Receiving takes the oldest: what is left is what was there without it,  *)
(* and is newer.                                                           *)
(***************************************************************************)
LEMMA TailHolds ==
    ASSUME NEW S, NEW q \in Seq(S), q # <<>>
    PROVE  /\ Head(q) \in S /\ Tail(q) \in Seq(S)
           /\ Ids(q) = Ids(Tail(q)) \cup (IF OfOperation(Head(q)) THEN {Head(q).n} ELSE {})
           /\ \A k : Has(q, k) <=> Has(Tail(q), k) \/ Head(q).kind = k
           /\ InCallOrder(q) =>
                /\ InCallOrder(Tail(q))
                /\ OfOperation(Head(q)) => \A n \in Ids(Tail(q)) : Head(q).n < n
<1> DEFINE t == Tail(q)
           h == Head(q)
<1>1. /\ Len(q) \in Nat \ {0} /\ h \in S /\ h = q[1] /\ t \in Seq(S)
      /\ Len(t) = Len(q) - 1
      /\ \A i \in 1 .. Len(t) : t[i] = q[i + 1]
  <2>1. Len(q) \in Nat \ {0}
    BY EmptySeq
  <2> QED
    BY <2>1, HeadTailProperties, ElementOfSeq
<1> HIDE DEF t, h
<1>2. \A i \in 1 .. Len(t) : i + 1 \in 1 .. Len(q) /\ 1 < i + 1 /\ t[i] = q[i + 1]
  BY <1>1
<1>3. ASSUME NEW i \in 1 .. Len(q), i # 1
      PROVE  i - 1 \in 1 .. Len(t) /\ t[i - 1] = q[i]
  <2>1. i - 1 \in 1 .. Len(t) /\ (i - 1) + 1 = i
    BY <1>1, <1>3
  <2> QED
    BY <1>1, <2>1
<1>4. 1 \in 1 .. Len(q)
  BY <1>1
<1>5. ASSUME NEW n \in Ids(t)
      PROVE  n \in Ids(q) /\ (InCallOrder(q) /\ OfOperation(h) => h.n < n)
  <2>1. PICK i \in 1 .. Len(t) : OfOperation(t[i]) /\ n = t[i].n
    BY <1>5 DEF Ids
  <2>2. i + 1 \in 1 .. Len(q) /\ 1 < i + 1 /\ t[i] = q[i + 1]
    BY <1>2
  <2>3. n \in Ids(q)
    BY <2>1, <2>2 DEF Ids
  <2>4. ASSUME InCallOrder(q), OfOperation(h) PROVE h.n < n
    <3>1. 1 < i + 1 /\ OfOperation(q[1]) /\ OfOperation(q[i + 1])
            => q[1].n < q[i + 1].n
      BY <2>2, <2>4, <1>4 DEF InCallOrder
    <3> QED
      BY <3>1, <1>1, <2>1, <2>2, <2>4
  <2> QED
    BY <2>3, <2>4
<1>6. ASSUME OfOperation(h) PROVE h.n \in Ids(q)
  BY <1>1, <1>4, <1>6 DEF Ids
<1>7. ASSUME NEW n \in Ids(q)
      PROVE  n \in Ids(t) \/ (OfOperation(h) /\ n = h.n)
  <2>1. PICK i \in 1 .. Len(q) : OfOperation(q[i]) /\ n = q[i].n
    BY <1>7 DEF Ids
  <2>2. CASE i = 1
    BY <2>1, <2>2, <1>1
  <2>3. CASE i # 1
    <3>1. i - 1 \in 1 .. Len(t) /\ t[i - 1] = q[i]
      BY <1>3, <2>3
    <3> QED
      BY <2>1, <3>1 DEF Ids
  <2> QED
    BY <2>2, <2>3
<1>8. Ids(q) = Ids(t) \cup (IF OfOperation(h) THEN {h.n} ELSE {})
  BY <1>5, <1>6, <1>7
<1>9. ASSUME NEW k PROVE Has(q, k) <=> Has(t, k) \/ h.kind = k
  <2>1. ASSUME Has(t, k) PROVE Has(q, k)
    <3>1. PICK i \in 1 .. Len(t) : t[i].kind = k
      BY <2>1 DEF Has
    <3> QED
      BY <3>1, <1>2 DEF Has
  <2>2. ASSUME h.kind = k PROVE Has(q, k)
    BY <1>1, <1>4, <2>2 DEF Has
  <2>3. ASSUME Has(q, k) PROVE Has(t, k) \/ h.kind = k
    <3>1. PICK i \in 1 .. Len(q) : q[i].kind = k
      BY <2>3 DEF Has
    <3>2. CASE i = 1
      BY <3>1, <3>2, <1>1
    <3>3. CASE i # 1
      <4>1. i - 1 \in 1 .. Len(t) /\ t[i - 1] = q[i]
        BY <1>3, <3>3
      <4> QED
        BY <3>1, <4>1 DEF Has
    <3> QED
      BY <3>2, <3>3
  <2> QED
    BY <2>1, <2>2, <2>3
<1>10. ASSUME InCallOrder(q) PROVE InCallOrder(t)
  <2>1. SUFFICES ASSUME NEW i \in 1 .. Len(t), NEW j \in 1 .. Len(t), i < j,
                        OfOperation(t[i]), OfOperation(t[j])
                 PROVE  t[i].n < t[j].n
    BY DEF InCallOrder
  <2>2. /\ i + 1 \in 1 .. Len(q) /\ t[i] = q[i + 1]
        /\ j + 1 \in 1 .. Len(q) /\ t[j] = q[j + 1]
        /\ i + 1 < j + 1
    BY <1>2, <2>1
  <2> QED
    BY <1>10, <2>1, <2>2 DEF InCallOrder
<1> QED
  BY <1>1, <1>5, <1>8, <1>9, <1>10 DEF t, h

(***************************************************************************)
(* A notice that answers no operation changes no operation of the channel. *)
(***************************************************************************)
LEMMA PostNotice ==
    ASSUME NEW q \in Seq(Notice), NEW e \in Notice, ~OfOperation(e), InCallOrder(q)
    PROVE  /\ Post(q, e) \in Seq(Notice)
           /\ Ids(Post(q, e)) = Ids(q)
           /\ InCallOrder(Post(q, e))
           /\ \A k : Has(Post(q, e), k) <=> Has(q, k) \/ e.kind = k
<1>1. CASE q # <<>> /\ q[Len(q)] = e
  <2>1. Len(q) \in 1 .. Len(q)
    BY <1>1, EmptySeq, LenProperties
  <2>2. \A k : e.kind = k => Has(q, k)
    BY <1>1, <2>1 DEF Has
  <2> QED
    BY <1>1, <2>2 DEF Post
<1>2. CASE ~(q # <<>> /\ q[Len(q)] = e)
  <2>1. Post(q, e) = Append(q, e)
    BY <1>2 DEF Post
  <2>2. /\ Append(q, e) \in Seq(Notice)
        /\ Ids(Append(q, e)) = Ids(q)
        /\ \A k : Has(Append(q, e), k) <=> Has(q, k) \/ e.kind = k
    BY AppendHolds
  <2>3. InCallOrder(Append(q, e))
    BY AppendOrder
  <2> QED
    BY <2>1, <2>2, <2>3
<1> QED
  BY <1>1, <1>2

(***************************************************************************)
(* The completion of an operation newer than all in the channel is never   *)
(* taken for the one posted before it.                                     *)
(***************************************************************************)
LEMMA PostCompletion ==
    ASSUME NEW q \in Seq(Notice), NEW id \in Nat, InCallOrder(q),
           \A n \in Ids(q) : n < id
    PROVE  /\ Post(q, Completed(id)) \in Seq(Notice)
           /\ Ids(Post(q, Completed(id))) = Ids(q) \cup {id}
           /\ InCallOrder(Post(q, Completed(id)))
           /\ \A k : Has(Post(q, Completed(id)), k) <=> Has(q, k) \/ k = "completed"
<1> DEFINE e == Completed(id)
<1>1. e \in Notice /\ OfOperation(e) /\ e.n = id /\ e.kind = "completed"
  BY DEF Completed, Notice, OfOperation
<1> HIDE DEF e
<1>2. ~(q # <<>> /\ q[Len(q)] = e)
  <2>1. SUFFICES ASSUME q # <<>>, q[Len(q)] = e PROVE FALSE
    OBVIOUS
  <2>2. Len(q) \in 1 .. Len(q)
    BY <2>1, EmptySeq, LenProperties
  <2>3. id \in Ids(q)
    BY <1>1, <2>1, <2>2 DEF Ids
  <2>4. id < id
    BY <2>3
  <2> QED
    BY <2>4
<1>3. Post(q, e) = Append(q, e)
  BY <1>2 DEF Post
<1>4. /\ Append(q, e) \in Seq(Notice)
      /\ Ids(Append(q, e)) = Ids(q) \cup {id}
      /\ \A k : Has(Append(q, e), k) <=> Has(q, k) \/ e.kind = k
  BY <1>1, AppendHolds
<1>5. InCallOrder(Append(q, e))
  BY <1>1, AppendOrder
<1> QED
  BY <1>1, <1>3, <1>4, <1>5 DEF e

(***************************************************************************)
(* Two channels in call order, the one below the other, read one after the *)
(* other are in call order.                                                *)
(***************************************************************************)
LEMMA JoinedOrder ==
    ASSUME NEW S, NEW p \in Seq(S), NEW q \in Seq(S),
           InCallOrder(p), InCallOrder(q), Below(Ids(p), Ids(q))
    PROVE  /\ p \o q \in Seq(S)
           /\ Ids(p \o q) = Ids(p) \cup Ids(q)
           /\ InCallOrder(p \o q)
<1> DEFINE r == p \o q
<1>1. /\ r \in Seq(S) /\ Len(p) \in Nat /\ Len(q) \in Nat
      /\ Len(r) = Len(p) + Len(q)
      /\ \A i \in 1 .. Len(r) : r[i] = IF i <= Len(p) THEN p[i] ELSE q[i - Len(p)]
  BY ConcatProperties, LenProperties
<1> HIDE DEF r
<1>2. \A i \in 1 .. Len(p) : i \in 1 .. Len(r) /\ r[i] = p[i]
  BY <1>1
<1>3. ASSUME NEW i \in 1 .. Len(q) PROVE i + Len(p) \in 1 .. Len(r) /\ r[i + Len(p)] = q[i]
  <2>1. i + Len(p) \in 1 .. Len(r) /\ ~(i + Len(p) <= Len(p)) /\ (i + Len(p)) - Len(p) = i
    BY <1>1
  <2> QED
    BY <1>1, <2>1
<1>4. ASSUME NEW i \in 1 .. Len(r)
      PROVE  \/ i \in 1 .. Len(p) /\ r[i] = p[i]
             \/ i > Len(p) /\ i - Len(p) \in 1 .. Len(q) /\ r[i] = q[i - Len(p)]
  <2>1. CASE i <= Len(p)
    BY <1>1, <2>1
  <2>2. CASE ~(i <= Len(p))
    BY <1>1, <2>2
  <2> QED
    BY <2>1, <2>2
<1>5. Ids(r) = Ids(p) \cup Ids(q)
  <2>1. ASSUME NEW n \in Ids(r) PROVE n \in Ids(p) \cup Ids(q)
    <3>1. PICK i \in 1 .. Len(r) : OfOperation(r[i]) /\ n = r[i].n
      BY <2>1 DEF Ids
    <3>2. CASE i \in 1 .. Len(p) /\ r[i] = p[i]
      BY <3>1, <3>2 DEF Ids
    <3>3. CASE i - Len(p) \in 1 .. Len(q) /\ r[i] = q[i - Len(p)]
      BY <3>1, <3>3 DEF Ids
    <3> QED
      BY <1>4, <3>2, <3>3
  <2>2. ASSUME NEW n \in Ids(p) PROVE n \in Ids(r)
    <3>1. PICK i \in 1 .. Len(p) : OfOperation(p[i]) /\ n = p[i].n
      BY <2>2 DEF Ids
    <3> QED
      BY <1>2, <3>1 DEF Ids
  <2>3. ASSUME NEW n \in Ids(q) PROVE n \in Ids(r)
    <3>1. PICK i \in 1 .. Len(q) : OfOperation(q[i]) /\ n = q[i].n
      BY <2>3 DEF Ids
    <3>2. i + Len(p) \in 1 .. Len(r) /\ r[i + Len(p)] = q[i]
      BY <1>3
    <3> QED
      BY <3>1, <3>2 DEF Ids
  <2> QED
    BY <2>1, <2>2, <2>3
<1>6. InCallOrder(r)
  <2>1. SUFFICES ASSUME NEW i \in 1 .. Len(r), NEW j \in 1 .. Len(r), i < j,
                        OfOperation(r[i]), OfOperation(r[j])
                 PROVE  r[i].n < r[j].n
    BY DEF InCallOrder
  <2>2. CASE j \in 1 .. Len(p) /\ r[j] = p[j]
    <3>1. i \in 1 .. Len(p) /\ r[i] = p[i]
      BY <1>1, <1>2, <2>1, <2>2
    <3> QED
      BY <2>1, <2>2, <3>1 DEF InCallOrder
  <2>3. CASE j > Len(p) /\ j - Len(p) \in 1 .. Len(q) /\ r[j] = q[j - Len(p)]
    <3>1. CASE i \in 1 .. Len(p) /\ r[i] = p[i]
      <4>1. r[i].n \in Ids(p)
        BY <2>1, <3>1 DEF Ids
      <4>2. r[j].n \in Ids(q)
        BY <2>1, <2>3 DEF Ids
      <4> QED
        BY <4>1, <4>2 DEF Below
    <3>2. CASE i > Len(p) /\ i - Len(p) \in 1 .. Len(q) /\ r[i] = q[i - Len(p)]
      <4>1. i - Len(p) < j - Len(p)
        BY <1>1, <2>1
      <4> QED
        BY <2>1, <2>3, <3>2, <4>1 DEF InCallOrder
    <3> QED
      BY <1>4, <3>1, <3>2
  <2> QED
    BY <1>4, <2>2, <2>3
<1> QED
  BY <1>1, <1>5, <1>6 DEF r
-----------------------------------------------------------------------------
(* The steps.                                                              *)

(***************************************************************************)
(* A step that takes no id and moves none keeps the operations.            *)
(***************************************************************************)
LEMMA NoneMoved ==
    ASSUME Kept, UNCHANGED <<accepted, answered, nextId>>,
           Ids(events') = Ids(events), Ids(commands') = Ids(commands),
           InCallOrder(events'), InCallOrder(commands')
    PROVE  Kept'
BY DEF Kept

(***************************************************************************)
(* What the worker posts, and that none of it but Stopped is its farewell. *)
(***************************************************************************)
LEMMA Notices ==
    /\ {Started, Reconnecting, StreamReset, Failed, Stopped} \subseteq Notice
    /\ \A e \in {Started, Reconnecting, StreamReset, Failed, Stopped} : ~OfOperation(e)
    /\ \A e \in {Started, Reconnecting, StreamReset, Failed} : e.kind # "stopped"
    /\ Failed.kind # "started" /\ Stopped.kind = "stopped"
BY DEF Started, Reconnecting, StreamReset, Failed, Stopped, Notice, OfOperation, Sessional

(***************************************************************************)
(* Which messages are of operations: the session commands and their        *)
(* completions.                                                            *)
(***************************************************************************)
LEMMA OperationsOf ==
    /\ \A c \in Command : c.n \in Nat /\ (OfOperation(c) <=> c.kind \in Sessional)
    /\ \A e \in Notice : e.n \in Nat /\ (OfOperation(e) <=> e.kind = "completed")
BY DEF Command, Notice, OfOperation, Sessional

(***************************************************************************)
(* A worker at work, in whatever step of its loops, that leaves the node   *)
(* and the commands alone.                                                 *)
(***************************************************************************)
LEMMA WorkerGoesOn ==
    ASSUME GodotInv, UNCHANGED <<host, closed, commands>>, worker.pc # "none",
           worker'.pc \notin {"none", "start", "stop", "ended"},
           Has(events', "stopped") => Has(events, "stopped")
    PROVE  Phases'
BY DEF GodotInv, Phases

(***************************************************************************)
(* A worker that quits was told to by shutdown_internal, and has nothing   *)
(* but Shutdown before it.                                                 *)
(***************************************************************************)
LEMMA QuitsLast ==
    ASSUME GodotInv, worker.pc # "none", Quits
    PROVE  host.pc = "join" /\ Ids(commands) = {}
<1>1. commands \in Seq(Command) /\ Phases
  BY DEF GodotInv, GodotTypeOK
<1>2. CASE commands = <<>>
  <2>1. closed
    BY <1>2 DEF Quits
  <2>2. Ids(commands) = {}
    BY <1>2, NothingIn
  <2> QED
    BY <1>1, <2>1, <2>2 DEF Phases
<1>3. CASE commands # <<>>
  <2>1. Head(commands) = Shutdown
    BY <1>3 DEF Quits
  <2>2. Len(commands) \in Nat \ {0} /\ Head(commands) = commands[1]
    BY <1>1, <1>3, EmptySeq, HeadTailProperties
  <2>3. 1 \in 1 .. Len(commands) /\ commands[1].kind = "shutdown"
    BY <2>1, <2>2 DEF Shutdown
  <2>4. Has(commands, "shutdown") /\ Len(commands) = 1
    BY <1>1, <2>3 DEF Has, Phases
  <2>5. ~OfOperation(commands[1])
    BY <2>3 DEF OfOperation, Sessional
  <2>6. \A i \in 1 .. Len(commands) : ~OfOperation(commands[i])
    BY <2>4, <2>5
  <2>7. Ids(commands) = {}
    BY <2>6 DEF Ids
  <2> QED
    BY <1>1, <2>4, <2>7 DEF Phases
<1> QED
  BY <1>2, <1>3

(***************************************************************************)
(* Initially there is no worker and no operation.                          *)
(***************************************************************************)
LEMMA GodotInit == Init => GodotInv
<1> SUFFICES ASSUME Init PROVE GodotInv
  OBVIOUS
<1>1. GodotTypeOK
  BY EmptySeq DEF Init, GodotTypeOK, NoWorker, NoFrame, Status, Role
<1>2. Kept
  BY NothingIn DEF Init, Kept, Below
<1>3. Phases
  BY NothingIn DEF Init, Phases, NoWorker
<1> QED
  BY <1>1, <1>2, <1>3 DEF GodotInv

(***************************************************************************)
(* start finds the channels of the last run gone.                          *)
(***************************************************************************)
LEMMA StartStep ==
    ASSUME GodotInv, NEW role \in Role, Start(role)
    PROVE  GodotInv'
<1>1. worker.pc = "none" /\ commands = <<>> /\ events = <<>>
  BY DEF GodotInv, Phases, Start
<1>2. UNCHANGED <<commands, events, slot, stream, nextId, accepted, answered>>
  BY DEF Start, history
<1>3. GodotTypeOK'
  BY <1>2 DEF GodotInv, GodotTypeOK, Start, Status
<1>4. Kept'
  BY <1>2 DEF GodotInv, Kept
<1>5. Phases'
  <2>1. commands' = <<>> /\ events' = <<>>
    BY <1>1, <1>2
  <2>2. /\ host'.status = "starting" /\ host'.pc = "idle" /\ worker'.pc = "start"
        /\ closed' = FALSE
    BY DEF Start, GodotInv, GodotTypeOK
  <2>3. Len(commands') = 0
    BY <2>1
  <2> QED
    BY <2>1, <2>2, <2>3, NothingIn DEF Phases, Unheard
<1> QED
  BY <1>3, <1>4, <1>5 DEF GodotInv

(***************************************************************************)
(* The node sends commands only while it is running, so to a worker that   *)
(* takes them.                                                             *)
(***************************************************************************)
LEMMA SentToWorker ==
    ASSUME GodotInv, host.pc = "idle", Accepts
    PROVE  worker.pc \notin {"none", "start", "stop", "ended"}
BY DEF GodotInv, Phases, Unheard, Accepts

(***************************************************************************)
(* A command that is not Shutdown, sent by a running node.                 *)
(***************************************************************************)
LEMMA SentPhases ==
    ASSUME GodotInv, host.pc = "idle", Accepts, UNCHANGED <<host, worker, closed, events>>,
           NEW c \in Command, c.kind # "shutdown", commands' = Append(commands, c)
    PROVE  Phases'
<1>1. worker.pc \notin {"none", "start", "stop", "ended"}
  BY SentToWorker
<1>2. commands \in Seq(Command) /\ Phases
  BY DEF GodotInv, GodotTypeOK
<1>3. ~Has(commands, "shutdown") /\ ~Has(events, "stopped")
  BY <1>2 DEF Phases
<1>4. ~Has(commands', "shutdown")
  <2>1. Has(Append(commands, c), "shutdown") <=> Has(commands, "shutdown") \/ c.kind = "shutdown"
    BY <1>2, AppendHolds
  <2> QED
    BY <1>3, <2>1
<1>5. \A i \in 1 .. Len(commands') : commands'[i].kind # "shutdown"
  BY <1>4 DEF Has
<1> QED
  BY <1>1, <1>2, <1>3, <1>4, <1>5 DEF Phases

(***************************************************************************)
(* Transport commands are of no operation.                                 *)
(***************************************************************************)
LEMMA TimelineStep ==
    ASSUME GodotInv, TimelineCommand
    PROVE  GodotInv'
<1>1. Timeline \in Command /\ ~OfOperation(Timeline) /\ Timeline.kind # "shutdown"
  BY DEF Timeline, Command, OfOperation, Sessional
<1>2. GodotTypeOK /\ Kept
  BY DEF GodotInv
<1>3. commands' = Append(commands, Timeline)
  BY DEF TimelineCommand
<1>4. UNCHANGED <<host, worker, closed, events, slot, stream, nextId, accepted, answered>>
  BY DEF TimelineCommand, history
<1>5. /\ commands' \in Seq(Command) /\ Ids(commands') = Ids(commands)
  <2>1. commands \in Seq(Command)
    BY <1>2 DEF GodotTypeOK
  <2>2. /\ Append(commands, Timeline) \in Seq(Command)
        /\ Ids(Append(commands, Timeline))
             = Ids(commands) \cup (IF OfOperation(Timeline) THEN {Timeline.n} ELSE {})
    BY <1>1, <2>1, AppendHolds
  <2> QED
    BY <1>1, <1>3, <2>2
<1>6. InCallOrder(commands')
  <2>1. commands \in Seq(Command) /\ InCallOrder(commands)
    BY <1>2 DEF GodotTypeOK, Kept
  <2>2. InCallOrder(Append(commands, Timeline))
    BY <1>1, <2>1, AppendOrder
  <2> QED
    BY <1>3, <2>2
<1>7. Kept'
  BY <1>2, <1>4, <1>5, <1>6, NoneMoved DEF Kept
<1>8. Phases'
  BY <1>1, <1>3, <1>4, SentPhases DEF TimelineCommand
<1> QED
  BY <1>2, <1>4, <1>5, <1>7, <1>8 DEF GodotInv, GodotTypeOK

(***************************************************************************)
(* An operation gets an id above all others, and uses it up when refused.  *)
(***************************************************************************)
LEMMA SessionStep ==
    ASSUME GodotInv, NEW kind \in Sessional, SessionCommand(kind)
    PROVE  GodotInv'
<1> DEFINE c == Operation(kind, nextId)
<1>1. GodotTypeOK /\ Kept /\ Phases
  BY DEF GodotInv
<1>2. /\ nextId \in Nat /\ nextId' = nextId + 1
      /\ UNCHANGED <<host, worker, closed, events, slot, stream, answered>>
  BY <1>1 DEF SessionCommand, GodotTypeOK
<1>3. /\ c \in Command /\ OfOperation(c) /\ c.n = nextId /\ c.kind # "shutdown"
  BY <1>2 DEF Operation, Command, OfOperation, Sessional
<1> HIDE DEF c
<1>4. accepted \in SUBSET Nat
  <2>1. /\ \A i \in 1 .. Len(answered) : answered[i].n \in Nat
        /\ \A i \in 1 .. Len(events) : events[i].n \in Nat
        /\ \A i \in 1 .. Len(commands) : commands[i].n \in Nat
    BY <1>1, ElementOfSeq, OperationsOf DEF GodotTypeOK
  <2>2. Ids(answered) \in SUBSET Nat /\ Ids(events) \in SUBSET Nat /\ Ids(commands) \in SUBSET Nat
    BY <2>1 DEF Ids
  <2> QED
    BY <1>1, <2>2 DEF Kept
<1>5. CASE Accepts
  <2>1. commands' = Append(commands, c) /\ accepted' = accepted \cup {nextId}
    BY <1>5 DEF SessionCommand, c
  <2>2. commands' \in Seq(Command) /\ Ids(commands') = Ids(commands) \cup {nextId}
    <3>1. commands \in Seq(Command)
      BY <1>1 DEF GodotTypeOK
    <3>2. /\ Append(commands, c) \in Seq(Command)
          /\ Ids(Append(commands, c)) = Ids(commands) \cup (IF OfOperation(c) THEN {c.n} ELSE {})
      BY <1>3, <3>1, AppendHolds
    <3> QED
      BY <1>3, <2>1, <3>2
  <2>3. \A n \in accepted : n < nextId
    BY <1>1 DEF Kept
  <2>4. InCallOrder(commands')
    <3>1. \A n \in Ids(commands) : n < c.n
      BY <1>1, <1>3, <2>3 DEF Kept
    <3>2. commands \in Seq(Command) /\ InCallOrder(commands)
      BY <1>1 DEF GodotTypeOK, Kept
    <3>3. InCallOrder(Append(commands, c))
      BY <1>3, <3>1, <3>2, AppendOrder
    <3> QED
      BY <2>1, <3>3
  <2>5. Below(Ids(answered), Ids(commands')) /\ Below(Ids(events), Ids(commands'))
    BY <1>1, <2>2, <2>3 DEF Below, Kept
  <2>6. \A n \in accepted' : n < nextId'
    BY <1>2, <1>4, <2>1, <2>3
  <2>7. accepted' = Ids(answered) \cup Ids(events) \cup Ids(commands')
    BY <1>1, <2>1, <2>2 DEF Kept
  <2>8. Kept'
    BY <1>1, <1>2, <2>4, <2>5, <2>6, <2>7 DEF Kept
  <2>9. Phases'
    BY <1>2, <1>3, <1>5, <2>1, SentPhases DEF SessionCommand
  <2> QED
    BY <1>1, <1>2, <2>2, <2>8, <2>9 DEF GodotInv, GodotTypeOK
<1>6. CASE ~Accepts
  <2>1. commands' = commands /\ accepted' = accepted
    BY <1>6 DEF SessionCommand
  <2>2. \A n \in accepted' : n < nextId'
    BY <1>1, <1>2, <1>4, <2>1 DEF Kept
  <2>3. Kept'
    BY <1>1, <1>2, <2>1, <2>2 DEF Kept
  <2>4. Phases'
    BY <1>1, <1>2, <2>1 DEF Phases, Unheard
  <2> QED
    BY <1>1, <1>2, <2>1, <2>3, <2>4 DEF GodotInv, GodotTypeOK
<1> QED
  BY <1>5, <1>6

(***************************************************************************)
(* process begins and ends, and takes the frame: no operation is touched.  *)
(***************************************************************************)
LEMMA ProcessStep ==
    ASSUME GodotInv, Process \/ DrainEnd \/ Take
    PROVE  GodotInv'
<1>1. GodotTypeOK /\ Kept /\ Phases
  BY DEF GodotInv
<1>2. UNCHANGED <<worker, commands, closed, events, stream, nextId, accepted, answered>>
  BY DEF Process, DrainEnd, Take, channels, history
<1>3. /\ host'.status = host.status /\ host.pc # "join" /\ host'.pc # "join"
      /\ host.status # "stopped"
  <2>1. worker.pc = "none" => host.pc = "idle"
    BY <1>1 DEF Phases
  <2> QED
    BY <1>1, <2>1 DEF Process, DrainEnd, Take, GodotTypeOK, Phases
<1>4. GodotTypeOK'
  <2>1. /\ host \in [status : Status, pc : {"idle", "drain", "take", "join"}, role : Role,
                     snapshot : Nat]
        /\ slot \in Nat
    BY <1>1 DEF GodotTypeOK
  <2>2. host' \in [status : Status, pc : {"idle", "drain", "take", "join"}, role : Role,
                   snapshot : Nat]
    BY <2>1 DEF Process, DrainEnd, Take
  <2>3. slot' \in Nat
    BY <2>1 DEF Process, DrainEnd, Take, channels, NoFrame
  <2> QED
    BY <1>1, <1>2, <2>2, <2>3 DEF GodotTypeOK
<1>5. Kept'
  BY <1>1, <1>2 DEF Kept
<1>6. Phases'
  BY <1>1, <1>2, <1>3 DEF Phases, Unheard
<1> QED
  BY <1>4, <1>5, <1>6 DEF GodotInv

(***************************************************************************)
(* poll_events: a completion leaves the channel for the signal it becomes. *)
(***************************************************************************)
LEMMA DrainStep ==
    ASSUME GodotInv, DrainEvent
    PROVE  GodotInv'
<1> DEFINE e == Head(events)
<1>1. GodotTypeOK /\ Kept /\ Phases
  BY DEF GodotInv
<1>2. /\ UNCHANGED <<worker, commands, closed, slot, stream, nextId, accepted>>
      /\ host.pc = "drain" /\ events # <<>> /\ events' = Tail(events)
      /\ host' = After(host, e)
      /\ answered' = IF e.kind = "completed" THEN Append(answered, e) ELSE answered
  BY DEF DrainEvent
<1>3. events \in Seq(Notice) /\ answered \in Seq(Notice)
  BY <1>1 DEF GodotTypeOK
<1>4. /\ e \in Notice /\ events' \in Seq(Notice)
      /\ Ids(events) = Ids(events') \cup (IF OfOperation(e) THEN {e.n} ELSE {})
      /\ \A k : Has(events, k) <=> Has(events', k) \/ e.kind = k
      /\ InCallOrder(events')
      /\ OfOperation(e) => \A n \in Ids(events') : e.n < n
  <2>1. InCallOrder(events)
    BY <1>1 DEF Kept
  <2> QED
    BY <1>2, <1>3, <2>1, TailHolds
<1>5. OfOperation(e) <=> e.kind = "completed"
  BY <1>4, OperationsOf
<1> HIDE DEF e
<1>6. worker.pc # "none" /\ host.status # "stopped"
  BY <1>1, <1>2 DEF Phases
<1>7. e.kind # "stopped"
  <2>1. ~Has(events, "stopped")
    BY <1>1, <1>2 DEF Phases
  <2> QED
    BY <1>4, <2>1
<1>8. /\ host' \in [status : Status, pc : {"idle", "drain", "take", "join"}, role : Role,
                    snapshot : Nat]
      /\ host'.pc = host.pc
      /\ host'.status # "stopped"
      /\ host'.status = "running" => host.status = "running" \/ e.kind = "started"
  <2>1. host \in [status : Status, pc : {"idle", "drain", "take", "join"}, role : Role,
                  snapshot : Nat]
    BY <1>1 DEF GodotTypeOK
  <2> QED
    BY <1>2, <1>6, <1>7, <2>1 DEF After, Status, NoFrame
<1>9. Kept' /\ answered' \in Seq(Notice)
  <2>1. CASE e.kind = "completed"
    <3>1. answered' = Append(answered, e) /\ OfOperation(e)
      BY <1>2, <1>5, <2>1
    <3>2. answered' \in Seq(Notice) /\ Ids(answered') = Ids(answered) \cup {e.n}
      <4>1. /\ Append(answered, e) \in Seq(Notice)
            /\ Ids(Append(answered, e)) = Ids(answered) \cup (IF OfOperation(e) THEN {e.n} ELSE {})
        BY <1>3, <1>4, AppendHolds
      <4> QED
        BY <3>1, <4>1
    <3>3. Ids(events) = Ids(events') \cup {e.n}
      BY <1>4, <3>1
    <3>4. InCallOrder(answered')
      <4>1. \A n \in Ids(answered) : n < e.n
        BY <1>1, <3>3 DEF Kept, Below
      <4>2. InCallOrder(answered)
        BY <1>1 DEF Kept
      <4>3. InCallOrder(Append(answered, e))
        BY <1>3, <1>4, <4>1, <4>2, AppendOrder
      <4> QED
        BY <3>1, <4>3
    <3>5. Below(Ids(answered'), Ids(events'))
      BY <1>1, <1>4, <3>1, <3>2, <3>3 DEF Kept, Below
    <3>6. Below(Ids(answered'), Ids(commands)) /\ Below(Ids(events'), Ids(commands))
      BY <1>1, <3>2, <3>3 DEF Kept, Below
    <3>7. accepted = Ids(answered') \cup Ids(events') \cup Ids(commands)
      BY <1>1, <3>2, <3>3 DEF Kept
    <3> QED
      BY <1>1, <1>2, <1>4, <3>2, <3>4, <3>5, <3>6, <3>7 DEF Kept
  <2>2. CASE e.kind # "completed"
    <3>1. answered' = answered /\ Ids(events') = Ids(events)
      BY <1>2, <1>4, <1>5, <2>2
    <3>2. InCallOrder(commands)
      BY <1>1 DEF Kept
    <3> QED
      BY <1>1, <1>2, <1>3, <1>4, <3>1, <3>2, NoneMoved
  <2> QED
    BY <2>1, <2>2
<1>10. Phases'
  <2>1. Unheard => Unheard'
    BY <1>2, <1>4, <1>8 DEF Unheard
  <2>2. Has(events', "stopped") => Has(events, "stopped")
    BY <1>4
  <2> QED
    BY <1>1, <1>2, <1>6, <1>8, <2>1, <2>2 DEF Phases
<1> QED
  BY <1>1, <1>2, <1>4, <1>8, <1>9, <1>10 DEF GodotInv, GodotTypeOK

(***************************************************************************)
(* shutdown_internal puts Shutdown behind everything sent before it.       *)
(***************************************************************************)
LEMMA BeginShutdownStep ==
    ASSUME GodotInv, BeginShutdown
    PROVE  GodotInv'
<1>1. GodotTypeOK /\ Kept /\ Phases
  BY DEF GodotInv
<1>2. /\ UNCHANGED <<worker, events, slot, stream, nextId, accepted, answered>>
      /\ host.pc = "idle" /\ host.status # "stopped"
      /\ commands' = IF worker.pc = "ended" THEN commands ELSE Append(commands, Shutdown)
  BY DEF BeginShutdown, history
<1>3. /\ host' \in [status : Status, pc : {"idle", "drain", "take", "join"}, role : Role,
                    snapshot : Nat]
      /\ host'.pc = "join" /\ host'.status = "stopping"
  BY <1>1 DEF BeginShutdown, GodotTypeOK, Status
<1>4. commands \in Seq(Command) /\ InCallOrder(commands)
  BY <1>1 DEF GodotTypeOK, Kept
<1>5. Shutdown \in Command /\ ~OfOperation(Shutdown)
  BY DEF Shutdown, Command, OfOperation, Sessional
<1>6. commands' \in Seq(Command) /\ Ids(commands') = Ids(commands) /\ InCallOrder(commands')
  <2>1. /\ Append(commands, Shutdown) \in Seq(Command)
        /\ Ids(Append(commands, Shutdown))
             = Ids(commands) \cup (IF OfOperation(Shutdown) THEN {Shutdown.n} ELSE {})
    BY <1>4, <1>5, AppendHolds
  <2>2. InCallOrder(Append(commands, Shutdown))
    BY <1>4, <1>5, AppendOrder
  <2> QED
    BY <1>2, <1>4, <1>5, <2>1, <2>2
<1>7. \A i \in 1 .. Len(commands') : commands'[i].kind = "shutdown" => i = Len(commands')
  <2>1. \A i \in 1 .. Len(commands) : commands[i].kind # "shutdown"
    BY <1>1, <1>2 DEF Phases, Has
  <2>2. CASE worker.pc = "ended"
    BY <1>2, <2>1, <2>2
  <2>3. CASE worker.pc # "ended"
    <3>1. /\ commands' = Append(commands, Shutdown) /\ Len(commands) \in Nat
          /\ Len(commands') = Len(commands) + 1
          /\ \A i \in 1 .. Len(commands) : commands'[i] = commands[i]
      BY <1>2, <1>4, <1>5, <2>3, AppendProperties, LenProperties
    <3> QED
      BY <2>1, <3>1
  <2> QED
    BY <2>2, <2>3
<1>8. Kept'
  BY <1>1, <1>2, <1>6, NoneMoved DEF Kept
<1>9. Phases'
  BY <1>1, <1>2, <1>3, <1>6, <1>7 DEF Phases, Unheard
<1> QED
  BY <1>1, <1>2, <1>3, <1>6, <1>8, <1>9 DEF GodotInv, GodotTypeOK

(***************************************************************************)
(* After the join the node and its channels are as before the first start. *)
(***************************************************************************)
LEMMA EndShutdownStep ==
    ASSUME GodotInv, EndShutdown
    PROVE  GodotInv'
<1>1. GodotTypeOK
  BY DEF GodotInv
<1>2. /\ commands' = <<>> /\ events' = <<>> /\ answered' = <<>> /\ accepted' = {}
      /\ worker' = NoWorker /\ slot' = NoFrame
      /\ UNCHANGED <<stream, nextId>>
  BY DEF EndShutdown
<1>3. /\ host' \in [status : Status, pc : {"idle", "drain", "take", "join"}, role : Role,
                    snapshot : Nat]
      /\ host'.pc = "idle" /\ host'.status = "stopped"
  BY <1>1 DEF EndShutdown, GodotTypeOK, Status
<1>4. /\ worker' \in [pc : {"none", "start", "wait", "due", "check", "connect", "retry",
                            "poll", "recv", "stop", "ended"},
                      role : Role, at : Nat, announced : BOOLEAN]
      /\ worker'.pc = "none" /\ slot' \in Nat
  BY <1>2 DEF NoWorker, NoFrame, Role
<1>5. GodotTypeOK'
  BY <1>1, <1>2, <1>3, <1>4, EmptySeq DEF GodotTypeOK
<1>6. Kept'
  BY <1>2, NothingIn DEF Kept, Below
<1>7. Phases'
  <2>1. Len(commands') = 0
    BY <1>2
  <2> QED
    BY <1>2, <1>3, <1>4, <2>1, NothingIn DEF Phases
<1> QED
  BY <1>5, <1>6, <1>7 DEF GodotInv

(***************************************************************************)
(* A step in which the worker goes on and posts at most notices that       *)
(* answer nothing.                                                         *)
(***************************************************************************)
LEMMA WorkerKeeps ==
    ASSUME GodotInv, UNCHANGED <<host, closed, commands, nextId, accepted, answered>>,
           worker' \in [pc : {"wait", "due", "check", "connect", "retry", "poll", "recv"},
                        role : Role, at : Nat, announced : BOOLEAN],
           worker.pc # "none", slot' \in Nat, stream' \in Nat,
           events' \in Seq(Notice), Ids(events') = Ids(events), InCallOrder(events'),
           Has(events', "stopped") => Has(events, "stopped")
    PROVE  GodotInv'
<1>1. GodotTypeOK /\ Kept
  BY DEF GodotInv
<1>2. worker' \in [pc : {"none", "start", "wait", "due", "check", "connect", "retry",
                         "poll", "recv", "stop", "ended"},
                   role : Role, at : Nat, announced : BOOLEAN]
  OBVIOUS
<1>3. GodotTypeOK'
  BY <1>1, <1>2 DEF GodotTypeOK
<1>4. Kept'
  BY <1>1, NoneMoved DEF Kept
<1>5. worker'.pc \notin {"none", "start", "stop", "ended"}
  OBVIOUS
<1>6. Phases'
  BY <1>5, WorkerGoesOn
<1> QED
  BY <1>3, <1>4, <1>6 DEF GodotInv

(***************************************************************************)
(* The same for a step that posts one notice, or none.                     *)
(***************************************************************************)
LEMMA WorkerSays ==
    ASSUME GodotInv, UNCHANGED <<host, closed, commands, nextId, accepted, answered>>,
           worker' \in [pc : {"wait", "due", "check", "connect", "retry", "poll", "recv"},
                        role : Role, at : Nat, announced : BOOLEAN],
           worker.pc # "none", slot' \in Nat, stream' \in Nat,
           NEW e \in {Started, Reconnecting, StreamReset},
           events' \in {events, Post(events, e)}
    PROVE  GodotInv'
<1>1. events \in Seq(Notice) /\ InCallOrder(events)
  BY DEF GodotInv, GodotTypeOK, Kept
<1>2. e \in Notice /\ ~OfOperation(e) /\ e.kind # "stopped"
  BY Notices
<1>3. /\ Post(events, e) \in Seq(Notice) /\ Ids(Post(events, e)) = Ids(events)
      /\ InCallOrder(Post(events, e))
      /\ Has(Post(events, e), "stopped") <=> Has(events, "stopped") \/ e.kind = "stopped"
  BY <1>1, <1>2, PostNotice
<1>4. /\ events' \in Seq(Notice) /\ Ids(events') = Ids(events) /\ InCallOrder(events')
      /\ Has(events', "stopped") => Has(events, "stopped")
  BY <1>1, <1>2, <1>3
<1> QED
  BY <1>4, WorkerKeeps

(***************************************************************************)
(* The worker's steps that leave the commands alone: a server that starts, *)
(* waits or makes a frame, a client that connects and receives.            *)
(***************************************************************************)
LEMMA SpeakingSteps ==
    ASSUME GodotInv,
           \/ ServerStarts \/ TimesOut \/ Skip \/ PublishFrame
           \/ ClientStarts \/ Connected \/ ConnectFails
           \/ RecvReset \/ RecvBaseline \/ RecvFrame \/ RecvNothing
    PROVE  GodotInv'
<1> DEFINE Working == [pc : {"wait", "due", "check", "connect", "retry", "poll", "recv"},
                       role : Role, at : Nat, announced : BOOLEAN]
<1>1. /\ worker \in [pc : {"none", "start", "wait", "due", "check", "connect", "retry",
                           "poll", "recv", "stop", "ended"},
                     role : Role, at : Nat, announced : BOOLEAN]
      /\ slot \in Nat /\ stream \in Nat
  BY DEF GodotInv, GodotTypeOK
<1>2. UNCHANGED <<host, closed, commands, nextId, accepted, answered>>
  BY DEF ServerStarts, TimesOut, Skip, PublishFrame, ClientStarts, Connected, ConnectFails,
         RecvReset, RecvBaseline, RecvFrame, RecvNothing, channels, history
<1>3. worker.pc # "none"
  BY DEF ServerStarts, TimesOut, Skip, PublishFrame, ClientStarts, Connected, ConnectFails,
         RecvReset, RecvBaseline, RecvFrame, RecvNothing
<1>4. stream' \in Nat
  BY <1>1
     DEF ServerStarts, TimesOut, Skip, PublishFrame, ClientStarts, Connected, ConnectFails,
         RecvReset, RecvBaseline, RecvFrame, RecvNothing
<1>5. slot' \in Nat
  BY <1>1
     DEF ServerStarts, TimesOut, Skip, PublishFrame, ClientStarts, Connected, ConnectFails,
         RecvReset, RecvBaseline, RecvFrame, RecvNothing, channels, PutFrame
<1>6. worker' \in Working
  <2>1. CASE ServerStarts
    BY <1>1, <1>4, <2>1 DEF ServerStarts
  <2>2. CASE TimesOut
    BY <1>1, <2>2 DEF TimesOut
  <2>3. CASE Skip
    BY <1>1, <2>3 DEF Skip
  <2>4. CASE PublishFrame
    BY <1>1, <2>4 DEF PublishFrame
  <2>5. CASE ClientStarts
    BY <1>1, <2>5 DEF ClientStarts
  <2>6. CASE Connected
    BY <1>1, <2>6 DEF Connected
  <2>7. CASE ConnectFails
    BY <1>1, <2>7 DEF ConnectFails
  <2>8. CASE RecvReset
    BY <1>1, <2>8 DEF RecvReset
  <2>9. CASE RecvBaseline
    BY <1>1, <1>4, <2>9 DEF RecvBaseline
  <2>10. CASE RecvFrame
    BY <1>1, <2>10 DEF RecvFrame
  <2>11. CASE RecvNothing
    BY <1>1, <2>11 DEF RecvNothing
  <2> QED
    BY <2>1, <2>2, <2>3, <2>4, <2>5, <2>6, <2>7, <2>8, <2>9, <2>10, <2>11
<1>7. \E e \in {Started, Reconnecting, StreamReset} : events' \in {events, Post(events, e)}
  BY DEF ServerStarts, TimesOut, Skip, PublishFrame, ClientStarts, Connected, ConnectFails,
         RecvReset, RecvBaseline, RecvFrame, RecvNothing, channels
<1> QED
  BY <1>2, <1>3, <1>4, <1>5, <1>6, <1>7, WorkerSays

(***************************************************************************)
(* A lost connection posts two notices.                                    *)
(***************************************************************************)
LEMMA LoseStep ==
    ASSUME GodotInv, Lose
    PROVE  GodotInv'
<1> DEFINE q == Post(events, StreamReset)
           r == Post(q, Reconnecting)
<1>1. events \in Seq(Notice) /\ InCallOrder(events)
  BY DEF GodotInv, GodotTypeOK, Kept
<1>2. /\ StreamReset \in Notice /\ ~OfOperation(StreamReset) /\ StreamReset.kind # "stopped"
      /\ Reconnecting \in Notice /\ ~OfOperation(Reconnecting)
      /\ Reconnecting.kind # "stopped"
  BY Notices
<1>3. /\ q \in Seq(Notice) /\ Ids(q) = Ids(events) /\ InCallOrder(q)
      /\ Has(q, "stopped") <=> Has(events, "stopped") \/ StreamReset.kind = "stopped"
  BY <1>1, <1>2, PostNotice
<1> HIDE DEF q
<1>4. /\ r \in Seq(Notice) /\ Ids(r) = Ids(q) /\ InCallOrder(r)
      /\ Has(r, "stopped") <=> Has(q, "stopped") \/ Reconnecting.kind = "stopped"
  BY <1>2, <1>3, PostNotice
<1>5. events' = r
  BY DEF Lose, q
<1> HIDE DEF r
<1>6. /\ UNCHANGED <<host, closed, commands, nextId, accepted, answered>>
      /\ worker.pc = "recv" /\ slot' = slot /\ stream' = stream
  BY DEF Lose, history
<1>7. /\ worker' \in [pc : {"wait", "due", "check", "connect", "retry", "poll", "recv"},
                      role : Role, at : Nat, announced : BOOLEAN]
      /\ slot \in Nat /\ stream \in Nat
  BY DEF Lose, GodotInv, GodotTypeOK
<1> QED
  BY <1>2, <1>3, <1>4, <1>5, <1>6, <1>7, WorkerKeeps

(***************************************************************************)
(* A worker that cannot start has been sent nothing.                       *)
(***************************************************************************)
LEMMA StartFailsStep ==
    ASSUME GodotInv, StartFails
    PROVE  GodotInv'
<1>1. GodotTypeOK /\ Kept /\ Phases
  BY DEF GodotInv
<1>2. /\ UNCHANGED <<host, commands, closed, slot, stream, nextId, accepted, answered>>
      /\ worker.pc = "start" /\ events' = Post(events, Failed)
  BY DEF StartFails, history
<1>3. /\ worker' \in [pc : {"none", "start", "wait", "due", "check", "connect", "retry",
                            "poll", "recv", "stop", "ended"},
                      role : Role, at : Nat, announced : BOOLEAN]
      /\ worker'.pc = "ended"
  BY <1>1 DEF StartFails, GodotTypeOK
<1>4. /\ events' \in Seq(Notice) /\ Ids(events') = Ids(events) /\ InCallOrder(events')
      /\ Has(events', "stopped") => Has(events, "stopped")
      /\ Has(events', "started") => Has(events, "started")
  <2>1. events \in Seq(Notice) /\ InCallOrder(events)
    BY <1>1 DEF GodotTypeOK, Kept
  <2>2. /\ Failed \in Notice /\ ~OfOperation(Failed)
        /\ Failed.kind # "stopped" /\ Failed.kind # "started"
    BY Notices
  <2>3. /\ Post(events, Failed) \in Seq(Notice) /\ Ids(Post(events, Failed)) = Ids(events)
        /\ InCallOrder(Post(events, Failed))
        /\ \A k : Has(Post(events, Failed), k) <=> Has(events, k) \/ Failed.kind = k
    BY <2>1, <2>2, PostNotice
  <2> QED
    BY <1>2, <2>2, <2>3
<1>5. GodotTypeOK'
  BY <1>1, <1>2, <1>3, <1>4 DEF GodotTypeOK
<1>6. Kept'
  BY <1>1, <1>2, <1>4, NoneMoved DEF Kept
<1>7. Phases'
  <2>1. Unheard /\ Unheard'
    BY <1>1, <1>2, <1>4 DEF Phases, Unheard
  <2>2. Ids(commands') = {}
    BY <2>1 DEF Unheard
  <2> QED
    BY <1>1, <1>2, <1>3, <1>4, <2>1, <2>2 DEF Phases
<1> QED
  BY <1>5, <1>6, <1>7 DEF GodotInv

(***************************************************************************)
(* A worker that quits throws away no operation with its commands.         *)
(***************************************************************************)
LEMMA QuitStep ==
    ASSUME GodotInv, ServerQuits \/ Look
    PROVE  GodotInv'
<1>1. GodotTypeOK /\ Kept /\ Phases
  BY DEF GodotInv
<1>2. /\ UNCHANGED <<host, closed, events, slot, stream, nextId, accepted, answered>>
      /\ worker.pc \in {"wait", "check", "retry", "poll"}
  BY DEF ServerQuits, Look, history
<1>3. CASE Quits
  <2>1. /\ commands' = <<>>
        /\ worker'.pc = "stop"
        /\ worker' \in [pc : {"none", "start", "wait", "due", "check", "connect", "retry",
                              "poll", "recv", "stop", "ended"},
                        role : Role, at : Nat, announced : BOOLEAN]
    <3>1. commands' = <<>> /\ worker' = [worker EXCEPT !.pc = "stop"]
      BY <1>3 DEF ServerQuits, Look
    <3> QED
      BY <1>1, <3>1 DEF GodotTypeOK
  <2>2. host.pc = "join" /\ Ids(commands) = {}
    BY <1>2, <1>3, QuitsLast
  <2>3. /\ commands' \in Seq(Command) /\ Ids(commands') = Ids(commands)
        /\ InCallOrder(commands') /\ Len(commands') = 0
    BY <2>1, <2>2, NothingIn, EmptySeq
  <2>4. GodotTypeOK'
    BY <1>1, <1>2, <2>1, <2>3 DEF GodotTypeOK
  <2>5. Kept'
    BY <1>1, <1>2, <2>3, NoneMoved DEF Kept
  <2>6. Phases'
    BY <1>1, <1>2, <2>1, <2>2, <2>3 DEF Phases
  <2> QED
    BY <2>4, <2>5, <2>6 DEF GodotInv
<1>4. CASE ~Quits
  <2>1. Look /\ commands' = commands
    BY <1>4 DEF ServerQuits, Look
  <2>2. worker' \in [pc : {"wait", "due", "check", "connect", "retry", "poll", "recv"},
                     role : Role, at : Nat, announced : BOOLEAN]
    <3>1. \E p \in {"connect", "check", "recv"} : worker' = [worker EXCEPT !.pc = p]
      BY <1>4, <2>1 DEF Look
    <3> QED
      BY <1>1, <3>1 DEF GodotTypeOK
  <2>3. /\ events' \in Seq(Notice) /\ InCallOrder(events') /\ slot' \in Nat /\ stream' \in Nat
    BY <1>1, <1>2 DEF GodotTypeOK, Kept
  <2> QED
    BY <1>2, <2>1, <2>2, <2>3, WorkerKeeps
<1> QED
  BY <1>3, <1>4

(***************************************************************************)
(* handle_server_command: the oldest operation leaves the commands and its *)
(* completion enters the events, whatever came of it.                      *)
(***************************************************************************)
LEMMA HandleStep ==
    ASSUME GodotInv, HandleCommand
    PROVE  GodotInv'
<1> DEFINE c == Head(commands)
<1>1. GodotTypeOK /\ Kept /\ Phases
  BY DEF GodotInv
<1>2. /\ UNCHANGED <<host, closed, slot, nextId, accepted, answered>>
      /\ worker.pc = "wait" /\ commands # <<>> /\ commands' = Tail(commands)
      /\ events' = IF c.kind \in Sessional THEN Post(events, Completed(c.n)) ELSE events
  BY DEF HandleCommand, Complete, history
<1>3. commands \in Seq(Command) /\ events \in Seq(Notice) /\ stream \in Nat /\ slot \in Nat
  BY <1>1 DEF GodotTypeOK
<1>4. /\ stream' \in Nat
      /\ worker' \in [pc : {"none", "start", "wait", "due", "check", "connect", "retry",
                            "poll", "recv", "stop", "ended"},
                      role : Role, at : Nat, announced : BOOLEAN]
      /\ worker'.pc = "due"
  <2>1. stream' \in Nat /\ worker' = [worker EXCEPT !.pc = "due", !.at = stream']
    BY <1>3 DEF HandleCommand
  <2> QED
    BY <1>1, <2>1 DEF GodotTypeOK
<1>5. /\ c \in Command /\ commands' \in Seq(Command)
      /\ Ids(commands) = Ids(commands') \cup (IF OfOperation(c) THEN {c.n} ELSE {})
      /\ Has(commands', "shutdown") => Has(commands, "shutdown")
      /\ InCallOrder(commands')
      /\ OfOperation(c) => \A n \in Ids(commands') : c.n < n
  <2>1. InCallOrder(commands)
    BY <1>1 DEF Kept
  <2>2. Has(commands, "shutdown") <=> Has(Tail(commands), "shutdown") \/ c.kind = "shutdown"
    BY <1>2, <1>3, TailHolds
  <2> QED
    BY <1>2, <1>3, <2>1, <2>2, TailHolds
<1>6. \A i \in 1 .. Len(commands') : commands'[i].kind = "shutdown" => i = Len(commands')
  <2>1. /\ Len(commands) \in Nat \ {0} /\ Len(commands') = Len(commands) - 1
        /\ \A i \in 1 .. Len(commands') : commands'[i] = commands[i + 1]
    BY <1>2, <1>3, EmptySeq, HeadTailProperties
  <2>2. SUFFICES ASSUME NEW i \in 1 .. Len(commands'), commands'[i].kind = "shutdown"
                 PROVE  i = Len(commands')
    OBVIOUS
  <2>3. i + 1 \in 1 .. Len(commands) /\ commands[i + 1].kind = "shutdown"
    BY <2>1, <2>2
  <2>4. i + 1 = Len(commands)
    BY <1>1, <2>3 DEF Phases
  <2> QED
    BY <2>1, <2>4
<1>7. c.n \in Nat /\ (OfOperation(c) <=> c.kind \in Sessional)
  BY <1>5, OperationsOf
<1> HIDE DEF c
<1>8. /\ Kept' /\ events' \in Seq(Notice)
      /\ Has(events', "stopped") => Has(events, "stopped")
  <2>1. CASE c.kind \in Sessional
    <3>1. /\ OfOperation(c) /\ Ids(commands) = Ids(commands') \cup {c.n}
          /\ events' = Post(events, Completed(c.n))
      BY <1>2, <1>5, <1>7, <2>1
    <3>2. InCallOrder(events) /\ \A n \in Ids(events) : n < c.n
      BY <1>1, <3>1 DEF Kept, Below
    <3>3. /\ Post(events, Completed(c.n)) \in Seq(Notice)
          /\ Ids(Post(events, Completed(c.n))) = Ids(events) \cup {c.n}
          /\ InCallOrder(Post(events, Completed(c.n)))
          /\ \A k : Has(Post(events, Completed(c.n)), k) <=> Has(events, k) \/ k = "completed"
      BY <1>3, <1>7, <3>2, PostCompletion
    <3>4. /\ events' \in Seq(Notice) /\ Ids(events') = Ids(events) \cup {c.n}
          /\ InCallOrder(events')
          /\ Has(events', "stopped") => Has(events, "stopped")
      BY <3>1, <3>3
    <3>5. Below(Ids(answered), Ids(events'))
      BY <1>1, <3>1, <3>4 DEF Kept, Below
    <3>6. Below(Ids(answered), Ids(commands'))
      BY <1>1, <3>1 DEF Kept, Below
    <3>7. Below(Ids(events'), Ids(commands'))
      BY <1>1, <1>5, <3>1, <3>4 DEF Kept, Below
    <3>8. accepted = Ids(answered) \cup Ids(events') \cup Ids(commands')
      BY <1>1, <3>1, <3>4 DEF Kept
    <3> QED
      BY <1>1, <1>2, <1>5, <3>4, <3>5, <3>6, <3>7, <3>8 DEF Kept
  <2>2. CASE c.kind \notin Sessional
    <3>1. events' = events /\ Ids(commands') = Ids(commands)
      BY <1>2, <1>5, <1>7, <2>2
    <3>2. InCallOrder(events)
      BY <1>1 DEF Kept
    <3> QED
      BY <1>1, <1>2, <1>3, <1>5, <3>1, <3>2, NoneMoved
  <2> QED
    BY <2>1, <2>2
<1>9. Phases'
  BY <1>1, <1>2, <1>4, <1>5, <1>6, <1>8 DEF Phases
<1> QED
  BY <1>1, <1>2, <1>3, <1>4, <1>5, <1>8, <1>9 DEF GodotInv, GodotTypeOK

(***************************************************************************)
(* The worker's last event.                                                *)
(***************************************************************************)
LEMMA StopStep ==
    ASSUME GodotInv, Stop
    PROVE  GodotInv'
<1>1. GodotTypeOK /\ Kept /\ Phases
  BY DEF GodotInv
<1>2. /\ UNCHANGED <<host, commands, closed, slot, stream, nextId, accepted, answered>>
      /\ worker.pc = "stop" /\ events' = Post(events, Stopped)
  BY DEF Stop, history
<1>3. /\ worker' \in [pc : {"none", "start", "wait", "due", "check", "connect", "retry",
                            "poll", "recv", "stop", "ended"},
                      role : Role, at : Nat, announced : BOOLEAN]
      /\ worker'.pc = "ended"
  BY <1>1 DEF Stop, GodotTypeOK
<1>4. events' \in Seq(Notice) /\ Ids(events') = Ids(events) /\ InCallOrder(events')
  <2>1. events \in Seq(Notice) /\ InCallOrder(events)
    BY <1>1 DEF GodotTypeOK, Kept
  <2>2. Stopped \in Notice /\ ~OfOperation(Stopped)
    BY Notices
  <2>3. /\ Post(events, Stopped) \in Seq(Notice) /\ Ids(Post(events, Stopped)) = Ids(events)
        /\ InCallOrder(Post(events, Stopped))
    BY <2>1, <2>2, PostNotice
  <2> QED
    BY <1>2, <2>3
<1>5. host.pc = "join" /\ commands = <<>>
  BY <1>1, <1>2 DEF Phases
<1>6. Ids(commands') = {}
  BY <1>2, <1>5, NothingIn
<1>7. GodotTypeOK'
  BY <1>1, <1>2, <1>3, <1>4 DEF GodotTypeOK
<1>8. Kept'
  BY <1>1, <1>2, <1>4, NoneMoved DEF Kept
<1>9. Phases'
  BY <1>1, <1>2, <1>3, <1>5, <1>6 DEF Phases
<1> QED
  BY <1>7, <1>8, <1>9 DEF GodotInv
-----------------------------------------------------------------------------
(* The theorems.                                                           *)

(***************************************************************************)
(* Every step of the scene's thread and of the worker keeps the invariant. *)
(***************************************************************************)
LEMMA GodotStep == GodotInv /\ [Next]_vars => GodotInv'
<1> SUFFICES ASSUME GodotInv, [Next]_vars PROVE GodotInv'
  OBVIOUS
<1>1. CASE \E role \in Role : Start(role)
  BY <1>1, StartStep
<1>2. CASE TimelineCommand
  BY <1>2, TimelineStep
<1>3. CASE \E kind \in Sessional : SessionCommand(kind)
  BY <1>3, SessionStep
<1>4. CASE Process \/ DrainEnd \/ Take
  BY <1>4, ProcessStep
<1>5. CASE DrainEvent
  BY <1>5, DrainStep
<1>6. CASE BeginShutdown
  BY <1>6, BeginShutdownStep
<1>7. CASE EndShutdown
  BY <1>7, EndShutdownStep
<1>8. CASE StartFails
  BY <1>8, StartFailsStep
<1>9. CASE ServerQuits \/ Look
  BY <1>9, QuitStep
<1>10. CASE HandleCommand
  BY <1>10, HandleStep
<1>11. CASE ServerStarts \/ TimesOut \/ Skip \/ PublishFrame
  BY <1>11, SpeakingSteps
<1>12. CASE \/ ClientStarts \/ Connected \/ ConnectFails
            \/ RecvReset \/ RecvBaseline \/ RecvFrame \/ RecvNothing
  BY <1>12, SpeakingSteps
<1>13. CASE Lose
  BY <1>13, LoseStep
<1>14. CASE Stop
  BY <1>14, StopStep
<1>15. CASE UNCHANGED vars
  <2>1. UNCHANGED <<host, worker, commands, closed, events, slot, stream, nextId, accepted,
                    answered>>
    BY <1>15 DEF vars, channels, history
  <2>2. GodotTypeOK'
    BY <2>1 DEF GodotInv, GodotTypeOK
  <2>3. Kept'
    BY <2>1 DEF GodotInv, Kept
  <2>4. Phases'
    BY <2>1 DEF GodotInv, Phases, Unheard
  <2> QED
    BY <2>2, <2>3, <2>4 DEF GodotInv
<1> QED
  BY <1>1, <1>2, <1>3, <1>4, <1>5, <1>6, <1>7, <1>8, <1>9, <1>10, <1>11, <1>12, <1>13,
     <1>14, <1>15
     DEF Next, Scene, Worker, ServerWorker, ClientWorker

(***************************************************************************)
(* The invariant holds in every behaviour of the node and its worker.      *)
(***************************************************************************)
THEOREM GodotInvariant == Spec => []GodotInv
BY GodotInit, GodotStep, PTL DEF Spec

(***************************************************************************)
(* The invariant in the words of OperationsKept.                           *)
(***************************************************************************)
LEMMA GodotInvKept == GodotInv => OperationsKept
<1> SUFFICES ASSUME GodotInv PROVE OperationsKept
  OBVIOUS
<1> DEFINE S == Command \cup Notice
           p == answered \o events
<1>1. GodotTypeOK /\ Kept /\ Phases
  BY DEF GodotInv
<1>2. answered \in Seq(S) /\ events \in Seq(S) /\ commands \in Seq(S)
  <2>1. Command \subseteq S /\ Notice \subseteq S
    OBVIOUS
  <2> HIDE DEF S
  <2>2. Seq(Command) \subseteq Seq(S) /\ Seq(Notice) \subseteq Seq(S)
    BY <2>1, SeqMonotonic
  <2> QED
    BY <1>1, <2>2 DEF GodotTypeOK
<1> HIDE DEF S
<1>3. p \in Seq(S) /\ Ids(p) = Ids(answered) \cup Ids(events) /\ InCallOrder(p)
  <2>1. InCallOrder(answered) /\ InCallOrder(events) /\ Below(Ids(answered), Ids(events))
    BY <1>1 DEF Kept
  <2> QED
    BY <1>2, <2>1, JoinedOrder
<1> HIDE DEF p
<1>4. Below(Ids(p), Ids(commands)) /\ InCallOrder(commands)
  BY <1>1, <1>3 DEF Kept, Below
<1>5. InCallOrder(p \o commands)
  BY <1>2, <1>3, <1>4, JoinedOrder
<1>6. InCallOrder(answered \o events \o commands)
  BY <1>5 DEF p
<1>7. accepted = Ids(answered) \cup Ids(events) \cup Ids(commands)
  BY <1>1 DEF Kept
<1>8. worker.pc = "ended" => Ids(commands) = {}
  BY <1>1 DEF Phases
<1> QED
  BY <1>6, <1>7, <1>8 DEF OperationsKept

(***************************************************************************)
(* save_session, load_session and clear_session: every id the node takes   *)
(* into its queue is answered exactly once and in the order of the calls,  *)
(* or still on its way, and a worker that ends leaves none behind - also   *)
(* one whose start failed and one with Shutdown behind operations.         *)
(***************************************************************************)
THEOREM OperationsNeverLost == Spec => []OperationsKept
BY GodotInvariant, GodotInvKept, PTL
===============================================================================
