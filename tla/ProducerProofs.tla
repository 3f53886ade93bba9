---------------------------- MODULE ProducerProofs ----------------------------
(***************************************************************************)
(* Proofs about module Producer: the aircraft's messages leave in order,   *)
(* and a client that closed without a failing send has sent them all.      *)
(***************************************************************************)
EXTENDS Producer, TLAPS, FiniteSetTheorems, SequenceTheorems, NaturalsInduction,
        WellFoundedInduction

Calls == {"state", "event", "telemetry", "despawn"}
Message == [kind : Calls \cup {"handshake", "heartbeat", "spawn", "stop", "shutdown"}, seq : Nat]

ProducerTypeOK ==
    /\ conn \in Conn /\ despawned \in BOOLEAN /\ opTx \in BOOLEAN
    /\ sequence \in Nat /\ faults \in Nat
    /\ ops \in Seq(Message) /\ out \in Seq(Message)
    /\ accepted \in Seq(Message) /\ wire \in Seq(Message)
    /\ task \in [sender : {"none", "run", "done"}, operation : {"none", "start", "run", "done"},
                 heartbeat : {"none", "run", "done"}]

(***************************************************************************)
(* How far the client's life has come and what there is at that point.     *)
(***************************************************************************)
Lived ==
    /\ task.sender = "none" <=> conn \in {"idle", "checked", "handshake", "failed"}
    /\ task.sender = "none" =>
          /\ task.operation = "none" /\ task.heartbeat = "none" /\ ops = <<>> /\ out = <<>>
          /\ accepted = <<>> /\ sequence = 0 /\ despawned = FALSE
          /\ wire \in {<<>>, <<Msg("handshake")>>}
          /\ conn = "handshake" => wire = <<Msg("handshake")>>
    /\ task.sender # "none" =>
          task.operation # "none" /\ wire # <<>> /\ wire[1].kind = "handshake"
    /\ opTx = (conn = "open")
    /\ conn \in {"joinHeartbeat", "joinOperation", "joinSender", "closed"} => despawned = TRUE
    /\ conn = "closed" => task.sender = "done"

(***************************************************************************)
(* The stop operation is the last one and comes from close; the shutdown   *)
(* message it turns into is followed by heartbeats only.                   *)
(***************************************************************************)
StopsLast ==
    /\ \A i \in 1 .. Len(ops) : /\ ops[i].kind \in Calls \cup {"stop"}
                                /\ ops[i].kind = "stop" => i = Len(ops) /\ conn # "open"
    /\ task.operation = "done" => ops = <<>> /\ conn # "open"
    /\ \A i \in 1 .. Len(out) :
          /\ out[i].kind # "stop"
          /\ out[i].kind = "shutdown" =>
                /\ task.operation = "done"
                /\ \A j \in i + 1 .. Len(out) : out[j].kind = "heartbeat"

(***************************************************************************)
(* What the caller was told is under way was written, waits in one of the  *)
(* two queues, or is the spawn the operation task begins with; a sender    *)
(* that has ended has left none behind unless a send failed.               *)
(***************************************************************************)
Waiting(msgs) == Besides(msgs, {"handshake", "heartbeat", "stop", "shutdown"})

ToSpawn == IF task.operation = "start" THEN <<Msg("spawn")>> ELSE <<>>

Flows ==
    /\ task.sender # "done" =>
          accepted = Aircraft(wire) \o (Waiting(out) \o (ToSpawn \o Waiting(ops)))
    /\ task.sender = "done" => out = <<>> /\ IsPrefix(Aircraft(wire), accepted)
    /\ task.sender = "done" /\ faults = 0 =>
          accepted = Aircraft(wire) /\ task.operation = "done"

(***************************************************************************)
(* Telemetry is numbered as it is accepted, and there is one despawn.      *)
(***************************************************************************)
Counted ==
    /\ sequence = Cardinality(Of("telemetry", accepted))
    /\ \A i \in Of("telemetry", accepted) :
          accepted[i].seq = Cardinality({j \in Of("telemetry", accepted) : j <= i})
    /\ Cardinality(Of("despawn", accepted)) = IF despawned THEN 1 ELSE 0

ProducerInv == ProducerTypeOK /\ Lived /\ StopsLast /\ Flows /\ Counted
-------------------------------------------------------------------------------
(***************************************************************************)
(* Induction over a set of naturals: the least number outside it would be  *)
(* neither zero nor the successor of one inside.                           *)
(***************************************************************************)
LEMMA SetInduction ==
    ASSUME NEW S, 0 \in S, \A n \in Nat : n \in S => n + 1 \in S
    PROVE  \A n \in Nat : n \in S
<1> DEFINE R == OpToRel(<, Nat)
           Out == {n \in Nat : n \notin S}
<1>1. \A x, y \in Nat : y < x => <<y, x>> \in R
  BY DEF OpToRel
<1>2. IsWellFoundedOn(R, Nat)
  BY NatLessThanWellFounded
<1>3. SUFFICES ASSUME Out # {} PROVE FALSE
  OBVIOUS
<1>4. Out \in SUBSET Nat
  OBVIOUS
<1> HIDE DEF R, Out
<1>5. PICK m \in Out : \A y \in Out : <<y, m>> \notin R
  BY <1>2, <1>3, <1>4, WFMin
<1>6. m \in Nat /\ m \notin S
  BY <1>5 DEF Out
<1>7. m # 0
  BY <1>6
<1>8. m - 1 \in Nat /\ m - 1 < m
  BY <1>6, <1>7
<1>9. m - 1 \notin Out
  BY <1>1, <1>5, <1>6, <1>8
<1>10. m - 1 \in S
  BY <1>8, <1>9 DEF Out
<1>11. (m - 1) + 1 \in S
  BY <1>8, <1>10
<1> QED
  BY <1>6, <1>11

(***************************************************************************)
(* What is put behind the last of two sequences is put behind both, and    *)
(* the head of the second may be moved to the end of the first.            *)
(***************************************************************************)
LEMMA AppendConcat ==
    ASSUME NEW x \in Seq(Message), NEW y \in Seq(Message), NEW m \in Message
    PROVE  /\ Append(x \o y, m) = x \o Append(y, m)
           /\ x \o (<<m>> \o y) = Append(x, m) \o y
           /\ x \o y \in Seq(Message)
<1>1. x \o y \in Seq(Message) /\ <<m>> \in Seq(Message)
  BY ConcatProperties
<1>2. /\ Append(x \o y, m) = (x \o y) \o <<m>>
      /\ Append(y, m) = y \o <<m>>
      /\ Append(x, m) = x \o <<m>>
  BY <1>1, AppendIsConcat
<1> DEFINE one == <<m>>
<1>3. (x \o y) \o one = x \o (y \o one) /\ (x \o one) \o y = x \o (one \o y)
  <2>1. one \in Seq(Message)
    BY <1>1
  <2> HIDE DEF one
  <2> QED
    BY <2>1
<1> QED
  BY <1>1, <1>2, <1>3

(***************************************************************************)
(* f is the run of Besides over the messages.                              *)
(***************************************************************************)
Keeps(f, msgs, kinds) ==
    /\ f[0] = <<>>
    /\ \A n \in 1 .. Len(msgs) :
          f[n] = IF msgs[n].kind \in kinds THEN f[n - 1] ELSE Append(f[n - 1], msgs[n])

(***************************************************************************)
(* Besides has such a run for every sequence: the recursion is defined.    *)
(***************************************************************************)
LEMMA BesidesRuns ==
    ASSUME NEW q \in Seq(Message), NEW K
    PROVE  \E f \in [0 .. Len(q) -> Seq(Message)] : Keeps(f, q, K) /\ Besides(q, K) = f[Len(q)]
<1> DEFINE L == Len(q)
           Next_(s, n) == IF q[n].kind \in K THEN s ELSE Append(s, q[n])
           Body(f, m) == [n \in 0 .. m |-> IF n = 0 THEN <<>> ELSE Next_(f[n - 1], n)]
           Runs(m) == \E f \in [0 .. m -> Seq(Message)] : f = Body(f, m)
           S == {m \in Nat : m <= L => Runs(m)}
<1>0. L \in Nat /\ \A n \in 1 .. L : q[n] \in Message
  BY LenProperties, ElementOfSeq
<1>00. \A s \in Seq(Message), n \in 1 .. L : Next_(s, n) \in Seq(Message)
  BY <1>0, AppendProperties
<1> HIDE DEF L, Next_
<1>1. Runs(0)
  <2>1. [n \in 0 .. 0 |-> <<>>] \in [0 .. 0 -> Seq(Message)]
    OBVIOUS
  <2>2. [n \in 0 .. 0 |-> <<>>] = Body([n \in 0 .. 0 |-> <<>>], 0)
    OBVIOUS
  <2> QED
    BY <2>1, <2>2
<1>2. ASSUME NEW m \in Nat, m + 1 <= L, Runs(m) PROVE Runs(m + 1)
  <2>1. m + 1 \in 1 .. L /\ m \in 0 .. m
    BY <1>0, <1>2
  <2>2. PICK f \in [0 .. m -> Seq(Message)] : f = Body(f, m)
    BY <1>2
  <2> DEFINE g == [n \in 0 .. m + 1 |-> IF n = m + 1 THEN Next_(f[m], m + 1) ELSE f[n]]
  <2>3. \A n \in 0 .. m + 1 : n # m + 1 => n \in 0 .. m
    OBVIOUS
  <2>4. Next_(f[m], m + 1) \in Seq(Message)
    BY <1>00, <2>1
  <2>5. g \in [0 .. m + 1 -> Seq(Message)]
    BY <2>3, <2>4
  <2>6. ASSUME NEW n \in 0 .. m + 1
        PROVE  g[n] = IF n = 0 THEN <<>> ELSE Next_(g[n - 1], n)
    <3>1. CASE n = m + 1
      <4>1. g[n - 1] = f[m] /\ g[n] = Next_(f[m], m + 1) /\ n # 0
        BY <3>1
      <4> QED
        BY <3>1, <4>1
    <3>2. CASE n # m + 1
      <4>1. n \in 0 .. m /\ g[n] = f[n]
        BY <2>3, <3>2
      <4>2. f[n] = IF n = 0 THEN <<>> ELSE Next_(f[n - 1], n)
        BY <2>2, <4>1
      <4>3. n # 0 => g[n - 1] = f[n - 1]
        BY <4>1
      <4> QED
        BY <4>1, <4>2, <4>3
    <3> QED
      BY <3>1, <3>2
  <2>7. g = Body(g, m + 1)
    BY <2>6
  <2> QED
    BY <2>5, <2>7
<1>3. Runs(L)
  <2> HIDE DEF Runs
  <2>1. 0 \in S /\ \A m \in Nat : m \in S => m + 1 \in S
    BY <1>0, <1>1, <1>2
  <2> HIDE DEF S
  <2>2. L \in S
    BY <1>0, <2>1, SetInduction
  <2> QED
    BY <1>0, <2>2 DEF S
<1>4. \E f \in [0 .. L -> Seq(Message)] : f = Body(f, L)
  BY <1>3
<1> DEFINE kept == CHOOSE f : f = Body(f, L)
<1>5. kept = Body(kept, L)
  BY <1>4, Zenon
<1>6. PICK f \in [0 .. L -> Seq(Message)] : f = Body(f, L)
  BY <1>4
<1>7. Besides(q, K) = kept[L]
  BY Zenon DEF Besides, L, Next_
<1> HIDE DEF kept
<1> DEFINE T == {n \in Nat : n <= L => kept[n] = f[n]}
<1>8. 0 \in T
  BY <1>0, <1>5, <1>6
<1>9. ASSUME NEW n \in Nat, n \in T PROVE n + 1 \in T
  <2> SUFFICES ASSUME n + 1 <= L PROVE kept[n + 1] = f[n + 1]
    OBVIOUS
  <2>1. kept[n] = f[n] /\ n + 1 \in 0 .. L /\ n + 1 # 0 /\ (n + 1) - 1 = n
    BY <1>0, <1>9
  <2>2. kept[n + 1] = Next_(kept[n], n + 1)
    BY <1>5, <2>1
  <2>3. f[n + 1] = Next_(f[n], n + 1)
    BY <1>6, <2>1
  <2> QED
    BY <2>1, <2>2, <2>3
<1>10. L \in T
  <2> HIDE DEF T
  <2> QED
    BY <1>0, <1>8, <1>9, SetInduction
<1>11. Besides(q, K) = f[L]
  BY <1>0, <1>7, <1>10
<1>12. Keeps(f, q, K)
  <2>1. f[0] = <<>>
    BY <1>0, <1>6
  <2>2. ASSUME NEW n \in 1 .. L PROVE f[n] = Next_(f[n - 1], n)
    <3>1. n \in 0 .. L /\ n # 0
      BY <1>0
    <3> QED
      BY <1>6, <3>1
  <2> QED
    BY <2>1, <2>2 DEF Keeps, L, Next_
<1> QED
  BY <1>11, <1>12 DEF L

(***************************************************************************)
(* A message at the end is kept or left out there (SendOutbound).          *)
(***************************************************************************)
LEMMA BesidesAppend ==
    ASSUME NEW q \in Seq(Message), NEW m \in Message, NEW K
    PROVE  /\ Besides(q, K) \in Seq(Message)
           /\ Besides(Append(q, m), K) =
                IF m.kind \in K THEN Besides(q, K) ELSE Append(Besides(q, K), m)
<1> DEFINE r == Append(q, m)
           L == Len(q)
<1>1. r \in Seq(Message) /\ Len(r) = L + 1 /\ L \in Nat /\ r[L + 1] = m
      /\ \A n \in 1 .. L : r[n] = q[n]
  BY AppendProperties, LenProperties
<1>2. PICK f \in [0 .. L -> Seq(Message)] : Keeps(f, q, K) /\ Besides(q, K) = f[L]
  BY BesidesRuns
<1>3. PICK g \in [0 .. Len(r) -> Seq(Message)] : Keeps(g, r, K) /\ Besides(r, K) = g[Len(r)]
  BY <1>1, BesidesRuns
<1> HIDE DEF r, L
<1> DEFINE S == {n \in Nat : n <= L => f[n] = g[n]}
<1>4. 0 \in S
  BY <1>2, <1>3 DEF Keeps
<1>5. ASSUME NEW n \in Nat, n \in S PROVE n + 1 \in S
  <2> SUFFICES ASSUME n + 1 <= L PROVE f[n + 1] = g[n + 1]
    OBVIOUS
  <2>1. f[n] = g[n] /\ n + 1 \in 1 .. L /\ n + 1 \in 1 .. Len(r) /\ (n + 1) - 1 = n
    BY <1>1, <1>5
  <2>2. f[n + 1] = IF q[n + 1].kind \in K THEN f[n] ELSE Append(f[n], q[n + 1])
    BY <1>2, <2>1 DEF Keeps, L
  <2>3. g[n + 1] = IF r[n + 1].kind \in K THEN g[n] ELSE Append(g[n], r[n + 1])
    BY <1>3, <2>1 DEF Keeps
  <2> QED
    BY <1>1, <2>1, <2>2, <2>3
<1>6. f[L] = g[L]
  <2> HIDE DEF S
  <2>1. L \in S
    BY <1>1, <1>4, <1>5, SetInduction
  <2> QED
    BY <1>1, <2>1 DEF S
<1>7. g[L + 1] = IF m.kind \in K THEN g[L] ELSE Append(g[L], m)
  <2>1. L + 1 \in 1 .. Len(r) /\ (L + 1) - 1 = L
    BY <1>1
  <2>2. g[L + 1] = IF r[L + 1].kind \in K THEN g[(L + 1) - 1] ELSE Append(g[(L + 1) - 1], r[L + 1])
    BY <1>3, <2>1 DEF Keeps
  <2> QED
    BY <1>1, <2>1, <2>2
<1>8. Besides(q, K) \in Seq(Message)
  BY <1>1, <1>2
<1> QED
  BY <1>1, <1>2, <1>3, <1>6, <1>7, <1>8 DEF r

(***************************************************************************)
(* Nothing is kept of nothing.                                             *)
(***************************************************************************)
LEMMA BesidesEmpty ==
    ASSUME NEW K
    PROVE  Besides(<<>>, K) = <<>>
<1>1. <<>> \in Seq(Message) /\ Len(<<>>) = 0
  OBVIOUS
<1>2. PICK f \in [0 .. Len(<<>>) -> Seq(Message)] :
          Keeps(f, <<>>, K) /\ Besides(<<>>, K) = f[Len(<<>>)]
  BY <1>1, BesidesRuns
<1> QED
  BY <1>1, <1>2 DEF Keeps

(***************************************************************************)
(* The message taken from the front of a queue is the first of the kept    *)
(* ones, or none of them (the operation task, the sender task).            *)
(***************************************************************************)
LEMMA BesidesTail ==
    ASSUME NEW q \in Seq(Message), q # <<>>, NEW K
    PROVE  Besides(q, K) =
             (IF Head(q).kind \in K THEN <<>> ELSE <<Head(q)>>) \o Besides(Tail(q), K)
<1> DEFINE r == Tail(q)
           L == Len(q)
           h == IF Head(q).kind \in K THEN <<>> ELSE <<Head(q)>>
<1>1. /\ r \in Seq(Message) /\ Len(r) = L - 1 /\ L \in Nat \ {0} /\ Head(q) \in Message
      /\ Head(q) = q[1]
      /\ \A n \in 1 .. Len(r) : r[n] = q[n + 1] /\ r[n] \in Message
  BY HeadTailProperties, LenProperties, ElementOfSeq, EmptySeq
<1>2. PICK f \in [0 .. L -> Seq(Message)] : Keeps(f, q, K) /\ Besides(q, K) = f[L]
  BY BesidesRuns
<1>3. PICK g \in [0 .. Len(r) -> Seq(Message)] : Keeps(g, r, K) /\ Besides(r, K) = g[Len(r)]
  BY <1>1, BesidesRuns
<1>4. h \in Seq(Message)
  BY <1>1
<1>5. f[1] = h /\ h \o <<>> = h
  <2>1. 1 \in 1 .. L /\ 1 - 1 = 0
    BY <1>1
  <2>2. f[1] = IF q[1].kind \in K THEN f[0] ELSE Append(f[0], q[1])
    BY <1>2, <2>1 DEF Keeps
  <2>3. Append(<<>>, q[1]) = <<q[1]>>
    BY <1>1
  <2>4. f[0] = <<>>
    BY <1>2 DEF Keeps
  <2> QED
    BY <1>1, <1>4, <2>2, <2>3, <2>4, ConcatEmptySeq
<1> HIDE DEF r, L, h
<1> DEFINE S == {n \in Nat : n <= Len(r) => f[n + 1] = h \o g[n]}
<1>6. 0 \in S
  <2>1. g[0] = <<>>
    BY <1>3 DEF Keeps
  <2>2. h \o g[0] = h
    BY <1>5, <2>1
  <2>3. f[0 + 1] = f[1]
    OBVIOUS
  <2>4. f[0 + 1] = h \o g[0]
    BY <1>5, <2>2, <2>3
  <2> QED
    BY <2>4
<1>7. ASSUME NEW n \in Nat, n \in S PROVE n + 1 \in S
  <2> SUFFICES ASSUME n + 1 <= Len(r) PROVE f[(n + 1) + 1] = h \o g[n + 1]
    OBVIOUS
  <2>1. /\ f[n + 1] = h \o g[n] /\ n + 1 \in 1 .. Len(r) /\ (n + 1) + 1 \in 1 .. L
        /\ (n + 1) - 1 = n /\ ((n + 1) + 1) - 1 = n + 1 /\ n \in 0 .. Len(r)
    <3>1. Len(r) \in Nat /\ Len(r) = L - 1 /\ L \in Nat
      BY <1>1, LenProperties
    <3>2. n <= Len(r)
      BY <3>1
    <3>3. f[n + 1] = h \o g[n]
      BY <1>7, <3>2
    <3> QED
      BY <3>1, <3>3
  <2>2. f[(n + 1) + 1] = IF q[(n + 1) + 1].kind \in K THEN f[n + 1]
                         ELSE Append(f[n + 1], q[(n + 1) + 1])
    BY <1>2, <2>1 DEF Keeps, L
  <2>3. g[n + 1] = IF r[n + 1].kind \in K THEN g[n] ELSE Append(g[n], r[n + 1])
    BY <1>3, <2>1 DEF Keeps
  <2>4. r[n + 1] = q[(n + 1) + 1] /\ r[n + 1] \in Message /\ g[n] \in Seq(Message)
    BY <1>1, <2>1
  <2>5. Append(h \o g[n], r[n + 1]) = h \o Append(g[n], r[n + 1])
    BY <1>4, <2>4, AppendConcat
  <2> QED
    BY <2>1, <2>2, <2>3, <2>4, <2>5
<1>8. f[Len(r) + 1] = h \o g[Len(r)]
  <2> HIDE DEF S
  <2>0. Len(r) \in Nat
    BY <1>1, LenProperties
  <2>1. Len(r) \in S
    BY <2>0, <1>6, <1>7, SetInduction
  <2> QED
    BY <2>0, <2>1 DEF S
<1>9. Len(r) + 1 = L
  BY <1>1
<1>10. Besides(q, K) = h \o Besides(r, K)
  BY <1>2, <1>3, <1>8, <1>9
<1> QED
  BY <1>10 DEF r, h

(***************************************************************************)
(* Nothing is kept of messages that are all left out: what is behind a     *)
(* shutdown is heartbeats.                                                 *)
(***************************************************************************)
LEMMA BesidesNone ==
    ASSUME NEW q \in Seq(Message), NEW K, \A i \in 1 .. Len(q) : q[i].kind \in K
    PROVE  Besides(q, K) = <<>>
<1>1. PICK f \in [0 .. Len(q) -> Seq(Message)] : Keeps(f, q, K) /\ Besides(q, K) = f[Len(q)]
  BY BesidesRuns
<1> DEFINE S == {n \in Nat : n <= Len(q) => f[n] = <<>>}
<1>2. 0 \in S
  BY <1>1 DEF Keeps
<1>3. ASSUME NEW n \in Nat, n \in S PROVE n + 1 \in S
  <2> SUFFICES ASSUME n + 1 <= Len(q) PROVE f[n + 1] = <<>>
    OBVIOUS
  <2>1. f[n] = <<>> /\ n + 1 \in 1 .. Len(q) /\ (n + 1) - 1 = n
    BY <1>3, LenProperties
  <2>2. f[n + 1] = IF q[n + 1].kind \in K THEN f[n] ELSE Append(f[n], q[n + 1])
    BY <1>1, <2>1 DEF Keeps
  <2> QED
    BY <2>1, <2>2
<1>4. Len(q) \in Nat
  BY LenProperties
<1>5. Len(q) \in S
  <2> HIDE DEF S
  <2> QED
    BY <1>2, <1>3, <1>4, SetInduction
<1> QED
  BY <1>1, <1>4, <1>5

(***************************************************************************)
(* A sequence is a prefix of what extends it.                              *)
(***************************************************************************)
LEMMA PrefixConcat ==
    ASSUME NEW x \in Seq(Message), NEW y \in Seq(Message), NEW z \in Seq(Message)
    PROVE  /\ IsPrefix(x, x \o y)
           /\ IsPrefix(x, y) => IsPrefix(x, y \o z)
<1>1. ASSUME NEW s \in Seq(Message), NEW t \in Seq(Message)
      PROVE  IsPrefix(s, t) <=>
                Len(s) <= Len(t) /\ \A i \in 1 .. Len(s) : s[i] = t[i]
  <2>1. Len(s) \in Nat /\ Len(t) \in Nat /\ 1 \in Int /\ Len(s) \in Int
    BY LenProperties
  <2>2. CASE Len(s) <= Len(t)
    <3>1. \A i \in 1 .. Len(s) : s[i] \in Message /\ t[i] \in Message
      BY <2>1, <2>2, ElementOfSeq
    <3> DEFINE u == SubSeq(s, 1, Len(s))
               v == SubSeq(t, 1, Len(s))
    <3>2. /\ u \in Seq(Message) /\ Len(u) = Len(s)
          /\ \A i \in 1 .. Len(s) : u[i] = s[i]
      <4>1. /\ u \in Seq(Message)
            /\ Len(u) = IF 1 <= Len(s) THEN Len(s) - 1 + 1 ELSE 0
            /\ \A i \in 1 .. Len(s) - 1 + 1 : u[i] = s[1 + i - 1]
        BY <2>1, <3>1, SubSeqProperties
      <4> HIDE DEF u
      <4> QED
        BY <2>1, <4>1
    <3>3. /\ v \in Seq(Message) /\ Len(v) = Len(s)
          /\ \A i \in 1 .. Len(s) : v[i] = t[i]
      <4>1. /\ v \in Seq(Message)
            /\ Len(v) = IF 1 <= Len(s) THEN Len(s) - 1 + 1 ELSE 0
            /\ \A i \in 1 .. Len(s) - 1 + 1 : v[i] = t[1 + i - 1]
        BY <2>1, <3>1, SubSeqProperties
      <4> HIDE DEF v
      <4> QED
        BY <2>1, <4>1
    <3>4. IsPrefix(s, t) <=> u = v
      BY <2>2 DEF IsPrefix
    <3> HIDE DEF u, v
    <3>5. (\A i \in 1 .. Len(s) : s[i] = t[i]) => u = v
      BY <3>2, <3>3, SeqEqual
    <3>6. u = v => \A i \in 1 .. Len(s) : s[i] = t[i]
      BY <3>2, <3>3
    <3> QED
      BY <2>2, <3>4, <3>5, <3>6
  <2>3. CASE ~(Len(s) <= Len(t))
    BY <2>3 DEF IsPrefix
  <2> QED
    BY <2>2, <2>3
<1>2. Len(x) \in Nat /\ Len(y) \in Nat /\ Len(z) \in Nat
  BY LenProperties
<1>3. /\ x \o y \in Seq(Message) /\ Len(x \o y) = Len(x) + Len(y)
      /\ \A i \in 1 .. Len(x) : (x \o y)[i] = x[i]
  BY <1>2, ConcatProperties
<1>4. /\ y \o z \in Seq(Message) /\ Len(y \o z) = Len(y) + Len(z)
      /\ \A i \in 1 .. Len(y) : (y \o z)[i] = y[i]
  BY <1>2, ConcatProperties
<1>5. IsPrefix(x, x \o y)
  <2> DEFINE t == x \o y
  <2>1. t \in Seq(Message) /\ Len(x) <= Len(t) /\ \A i \in 1 .. Len(x) : x[i] = t[i]
    BY <1>2, <1>3
  <2> HIDE DEF t
  <2>2. IsPrefix(x, t)
    BY <1>1, <2>1
  <2> QED
    BY <2>2 DEF t
<1>6. ASSUME IsPrefix(x, y) PROVE IsPrefix(x, y \o z)
  <2>1. Len(x) <= Len(y) /\ \A i \in 1 .. Len(x) : x[i] = y[i]
    BY <1>1, <1>6
  <2>2. Len(x) <= Len(y \o z) /\ \A i \in 1 .. Len(x) : x[i] = (y \o z)[i]
    BY <1>2, <1>4, <2>1
  <2> QED
    BY <1>1, <1>4, <2>2
<1> QED
  BY <1>5, <1>6

Numbered(msgs) ==
    \A i \in Of("telemetry", msgs) :
        msgs[i].seq = Cardinality({j \in Of("telemetry", msgs) : j <= i})

(***************************************************************************)
(* One more message is one more of its kind, and telemetry that takes the  *)
(* next number leaves all of it numbered (publish_telemetry).              *)
(***************************************************************************)
LEMMA OfAppend ==
    ASSUME NEW q \in Seq(Message), NEW m \in Message
    PROVE  /\ \A k : /\ Cardinality(Of(k, q)) \in Nat
                     /\ Cardinality(Of(k, Append(q, m))) =
                          IF m.kind = k THEN Cardinality(Of(k, q)) + 1 ELSE Cardinality(Of(k, q))
           /\ /\ Numbered(q)
              /\ m.kind = "telemetry" => m.seq = Cardinality(Of("telemetry", q)) + 1
              => Numbered(Append(q, m))
<1> DEFINE r == Append(q, m)
           L == Len(q)
<1>1. /\ L \in Nat /\ DOMAIN q = 1 .. L /\ DOMAIN r = 1 .. L + 1
      /\ r[L + 1] = m /\ \A i \in 1 .. L : r[i] = q[i]
  BY AppendProperties, LenProperties
<1> HIDE DEF r, L
<1>2. ASSUME NEW k
      PROVE  /\ IsFiniteSet(Of(k, q)) /\ Of(k, q) \subseteq 1 .. L
             /\ Of(k, r) = IF m.kind = k THEN Of(k, q) \cup {L + 1} ELSE Of(k, q)
  <2>1. Of(k, q) \subseteq 1 .. L
    BY <1>1 DEF Of
  <2>2. IsFiniteSet(1 .. L)
    BY <1>1, FS_Interval
  <2>3. IsFiniteSet(Of(k, q))
    BY <2>1, <2>2, FS_Subset
  <2>4. \A i : i \in Of(k, r) <=> i \in Of(k, q) \/ (i = L + 1 /\ m.kind = k)
    BY <1>1 DEF Of
  <2> QED
    BY <2>1, <2>3, <2>4
<1>3. ASSUME NEW k
      PROVE  /\ Cardinality(Of(k, q)) \in Nat
             /\ Cardinality(Of(k, r)) =
                  IF m.kind = k THEN Cardinality(Of(k, q)) + 1 ELSE Cardinality(Of(k, q))
  <2>1. IsFiniteSet(Of(k, q)) /\ L + 1 \notin Of(k, q)
    BY <1>1, <1>2
  <2>2. Cardinality(Of(k, q)) \in Nat
    BY <2>1, FS_CardinalityType
  <2>3. Cardinality(Of(k, q) \cup {L + 1}) = Cardinality(Of(k, q)) + 1
    BY <2>1, FS_AddElement
  <2> QED
    BY <1>2, <2>2, <2>3
<1>4. ASSUME Numbered(q), m.kind = "telemetry" => m.seq = Cardinality(Of("telemetry", q)) + 1
      PROVE  Numbered(r)
  <2> DEFINE O == Of("telemetry", q)
             P == Of("telemetry", r)
  <2>1. O \subseteq 1 .. L /\ P = IF m.kind = "telemetry" THEN O \cup {L + 1} ELSE O
    BY <1>2
  <2>2. ASSUME NEW i \in P PROVE r[i].seq = Cardinality({j \in P : j <= i})
    <3>1. CASE i \in O
      <4>1. \A j : j \in P /\ j <= i <=> j \in O /\ j <= i
        <5> HIDE DEF O, P
        <5> QED
          BY <1>1, <2>1, <3>1
      <4>2. {j \in P : j <= i} = {j \in O : j <= i}
        <5> HIDE DEF O, P
        <5> QED
          BY <4>1
      <4>3. q[i].seq = Cardinality({j \in O : j <= i})
        BY <1>4, <3>1 DEF Numbered
      <4>4. r[i] = q[i]
        BY <1>1, <2>1, <3>1
      <4> QED
        BY <4>2, <4>3, <4>4
    <3>2. CASE i \notin O
      <4> HIDE DEF O, P
      <4>1. i = L + 1 /\ m.kind = "telemetry"
        BY <2>1, <3>2
      <4>2. {j \in P : j <= i} = P
        <5>1. \A j \in P : j \in Nat /\ j <= L + 1
          BY <1>1, <2>1
        <5> QED
          BY <4>1, <5>1
      <4>3. m.seq = Cardinality(O) + 1
        BY <1>4, <4>1 DEF O
      <4>4. Cardinality(P) = Cardinality(O) + 1
        BY <1>3, <4>1 DEF O, P
      <4> QED
        BY <1>1, <4>1, <4>2, <4>3, <4>4
    <3> QED
      BY <3>1, <3>2
  <2> QED
    BY <2>2 DEF Numbered
<1> QED
  BY <1>3, <1>4 DEF r

(***************************************************************************)
(* What the client's own messages are.                                     *)
(***************************************************************************)
LEMMA Kinds ==
    \A k \in Calls \cup {"handshake", "heartbeat", "spawn", "stop", "shutdown"} :
        Msg(k) \in Message /\ Msg(k).kind = k
BY DEF Msg, Message

(***************************************************************************)
(* Besides for the two sets of kinds the invariant leaves out.             *)
(***************************************************************************)
LEMMA Queues ==
    ASSUME NEW q \in Seq(Message)
    PROVE  /\ Waiting(q) \in Seq(Message) /\ Aircraft(q) \in Seq(Message)
           /\ Waiting(<<>>) = <<>> /\ Aircraft(<<>>) = <<>>
           /\ \A m \in Message :
                /\ Waiting(Append(q, m)) =
                     IF m.kind \in {"handshake", "heartbeat", "stop", "shutdown"} THEN Waiting(q)
                     ELSE Append(Waiting(q), m)
                /\ Aircraft(Append(q, m)) =
                     IF m.kind \in {"handshake", "heartbeat"} THEN Aircraft(q)
                     ELSE Append(Aircraft(q), m)
           /\ q # <<>> =>
                Waiting(q) =
                  (IF Head(q).kind \in {"handshake", "heartbeat", "stop", "shutdown"} THEN <<>>
                   ELSE <<Head(q)>>) \o Waiting(Tail(q))
<1>1. Msg("stop") \in Message
  BY Kinds
<1>2. Waiting(q) \in Seq(Message) /\ Aircraft(q) \in Seq(Message)
  BY <1>1, BesidesAppend DEF Waiting, Aircraft
<1>3. Waiting(<<>>) = <<>> /\ Aircraft(<<>>) = <<>>
  BY BesidesEmpty DEF Waiting, Aircraft
<1>4. ASSUME NEW m \in Message
      PROVE  /\ Waiting(Append(q, m)) =
                  IF m.kind \in {"handshake", "heartbeat", "stop", "shutdown"} THEN Waiting(q)
                  ELSE Append(Waiting(q), m)
             /\ Aircraft(Append(q, m)) =
                  IF m.kind \in {"handshake", "heartbeat"} THEN Aircraft(q)
                  ELSE Append(Aircraft(q), m)
  BY BesidesAppend DEF Waiting, Aircraft
<1>5. ASSUME q # <<>>
      PROVE  Waiting(q) =
               (IF Head(q).kind \in {"handshake", "heartbeat", "stop", "shutdown"} THEN <<>>
                ELSE <<Head(q)>>) \o Waiting(Tail(q))
  BY <1>5, BesidesTail DEF Waiting
<1> QED
  BY <1>2, <1>3, <1>4, <1>5

(***************************************************************************)
(* A queue loses its oldest message: the others keep their order.          *)
(***************************************************************************)
LEMMA Taken ==
    ASSUME NEW q \in Seq(Message), q # <<>>
    PROVE  /\ Head(q) \in Message /\ Head(q) = q[1] /\ Tail(q) \in Seq(Message)
           /\ Len(q) \in Nat \ {0} /\ Len(Tail(q)) = Len(q) - 1
           /\ \A i \in 1 .. Len(Tail(q)) : Tail(q)[i] = q[i + 1]
  BY HeadTailProperties, LenProperties, EmptySeq

(***************************************************************************)
(* An operation the open client accepts goes to the end of both histories: *)
(* what is under way stays complete (SendOperation).                       *)
(***************************************************************************)
LEMMA Accepting ==
    ASSUME ProducerInv, conn = "open", NEW op \in Message, op.kind \in Calls
    PROVE  /\ Append(ops, op) \in Seq(Message) /\ Append(accepted, op) \in Seq(Message)
           /\ \A i \in 1 .. Len(Append(ops, op)) : Append(ops, op)[i].kind \in Calls
           /\ task.sender # "done" =>
                Append(accepted, op) =
                  Aircraft(wire) \o (Waiting(out) \o (ToSpawn \o Waiting(Append(ops, op))))
           /\ task.sender = "done" => IsPrefix(Aircraft(wire), Append(accepted, op))
<1>1. /\ ops \in Seq(Message) /\ out \in Seq(Message)
      /\ accepted \in Seq(Message) /\ wire \in Seq(Message)
  BY DEF ProducerInv, ProducerTypeOK
<1>2. Append(ops, op) \in Seq(Message) /\ Append(accepted, op) \in Seq(Message)
  BY <1>1, AppendProperties
<1>3. \A i \in 1 .. Len(Append(ops, op)) : Append(ops, op)[i].kind \in Calls
  <2>1. \A i \in 1 .. Len(ops) : ops[i].kind \in Calls
    BY DEF ProducerInv, StopsLast
  <2>2. /\ Len(ops) \in Nat /\ Len(Append(ops, op)) = Len(ops) + 1
        /\ Append(ops, op)[Len(ops) + 1] = op
        /\ \A i \in 1 .. Len(ops) : Append(ops, op)[i] = ops[i]
    BY <1>1, AppendProperties, LenProperties
  <2> QED
    BY <2>1, <2>2
<1>4. /\ Aircraft(wire) \in Seq(Message) /\ Waiting(out) \in Seq(Message)
      /\ Waiting(ops) \in Seq(Message) /\ ToSpawn \in Seq(Message)
  <2>1. ToSpawn \in Seq(Message)
    BY Kinds DEF ToSpawn
  <2> QED
    BY <1>1, <2>1, Queues
<1>5. Waiting(Append(ops, op)) = Append(Waiting(ops), op)
  <2>1. op.kind \notin {"handshake", "heartbeat", "stop", "shutdown"}
    BY DEF Calls
  <2> QED
    BY <1>1, <2>1, Queues
<1>6. ASSUME task.sender # "done"
      PROVE  Append(accepted, op) =
               Aircraft(wire) \o (Waiting(out) \o (ToSpawn \o Waiting(Append(ops, op))))
  <2> DEFINE a == Aircraft(wire)
             b == Waiting(out)
             c == ToSpawn
             d == Waiting(ops)
  <2>1. accepted = a \o (b \o (c \o d))
    BY <1>6 DEF ProducerInv, Flows
  <2>2. a \in Seq(Message) /\ b \in Seq(Message) /\ c \in Seq(Message) /\ d \in Seq(Message)
    BY <1>4
  <2>3. Waiting(Append(ops, op)) = Append(d, op)
    BY <1>5
  <2> HIDE DEF a, b, c, d
  <2>4. c \o d \in Seq(Message) /\ c \o Append(d, op) = Append(c \o d, op)
    BY <2>2, AppendConcat
  <2>5. b \o (c \o d) \in Seq(Message) /\ b \o Append(c \o d, op) = Append(b \o (c \o d), op)
    BY <2>2, <2>4, AppendConcat
  <2>6. a \o Append(b \o (c \o d), op) = Append(a \o (b \o (c \o d)), op)
    <3> DEFINE e == b \o (c \o d)
    <3>1. e \in Seq(Message)
      BY <2>5
    <3> HIDE DEF e
    <3>2. a \o Append(e, op) = Append(a \o e, op)
      BY <2>2, <3>1, AppendConcat
    <3> QED
      BY <3>2 DEF e
  <2>7. Append(accepted, op) = a \o (b \o (c \o Append(d, op)))
    BY <2>1, <2>4, <2>5, <2>6
  <2> QED
    BY <2>3, <2>7 DEF a, b, c
<1>7. ASSUME task.sender = "done" PROVE IsPrefix(Aircraft(wire), Append(accepted, op))
  <2>1. IsPrefix(Aircraft(wire), accepted)
    BY <1>7 DEF ProducerInv, Flows
  <2>2. Append(accepted, op) = accepted \o <<op>> /\ <<op>> \in Seq(Message)
    BY <1>1, AppendIsConcat
  <2> DEFINE one == <<op>>
  <2>3. one \in Seq(Message)
    BY <2>2
  <2> HIDE DEF one
  <2>4. IsPrefix(Aircraft(wire), accepted \o one)
    BY <1>1, <1>4, <2>1, <2>3, PrefixConcat
  <2> QED
    BY <2>2, <2>4 DEF one
<1> QED
  BY <1>2, <1>3, <1>6, <1>7

(***************************************************************************)
(* Every call of the open client keeps the invariant.                      *)
(***************************************************************************)
LEMMA OperateKeeps ==
    ASSUME ProducerInv, NEW op \in Message, op.kind \in Calls, Operate(op),
           despawned' \in BOOLEAN,
           op.kind = "despawn" => ~despawned /\ despawned',
           op.kind # "despawn" => (despawned' <=> despawned),
           op.kind = "telemetry" => op.seq = sequence + 1 /\ sequence' = sequence + 1,
           op.kind # "telemetry" => sequence' = sequence
    PROVE  ProducerInv'
<1>1. /\ conn = "open" /\ ops' = Append(ops, op) /\ accepted' = Append(accepted, op)
      /\ UNCHANGED <<conn, opTx, stop, out, task, beats, faults, wire>>
  BY DEF Operate, SendOperation
<1>2. /\ ops' \in Seq(Message) /\ accepted' \in Seq(Message)
      /\ \A i \in 1 .. Len(ops') : ops'[i].kind \in Calls
  BY <1>1, Accepting
<1>3. sequence' \in Nat
  BY DEF ProducerInv, ProducerTypeOK
<1>4. ProducerTypeOK'
  BY <1>1, <1>2, <1>3 DEF ProducerInv, ProducerTypeOK
<1>5. Lived'
  <2>1. task.sender # "none" /\ conn' = "open"
    BY <1>1 DEF ProducerInv, Lived
  <2> QED
    BY <1>1, <2>1 DEF ProducerInv, Lived
<1>6. StopsLast'
  BY <1>1, <1>2 DEF ProducerInv, StopsLast, Calls
<1>7. Flows'
  <2>1. ToSpawn' = ToSpawn
    BY <1>1 DEF ToSpawn
  <2>2. /\ task.sender # "done" =>
             accepted' = Aircraft(wire') \o (Waiting(out') \o (ToSpawn' \o Waiting(ops')))
        /\ task.sender = "done" => IsPrefix(Aircraft(wire'), accepted')
    BY <1>1, <2>1, Accepting
  <2>3. task.sender = "done" => out' = <<>> /\ faults' # 0
    BY <1>1 DEF ProducerInv, Flows, StopsLast
  <2> QED
    BY <1>1, <2>2, <2>3 DEF Flows
<1>8. Counted'
  <2>1. accepted \in Seq(Message)
    BY DEF ProducerInv, ProducerTypeOK
  <2>2. /\ sequence = Cardinality(Of("telemetry", accepted)) /\ Numbered(accepted)
        /\ Cardinality(Of("despawn", accepted)) = IF despawned THEN 1 ELSE 0
    BY DEF ProducerInv, Counted, Numbered
  <2>3. Numbered(accepted')
    BY <1>1, <2>1, <2>2, OfAppend
  <2>4. sequence' = Cardinality(Of("telemetry", accepted'))
    BY <1>1, <2>1, <2>2, OfAppend
  <2>5. Cardinality(Of("despawn", accepted')) = IF despawned' THEN 1 ELSE 0
    BY <1>1, <2>1, <2>2, OfAppend
  <2> QED
    BY <2>3, <2>4, <2>5 DEF Counted, Numbered
<1> QED
  BY <1>4, <1>5, <1>6, <1>7, <1>8 DEF ProducerInv

(***************************************************************************)
(* Up to the handshake's answer nothing waits anywhere; then the spawn is  *)
(* what the operation task begins with.                                    *)
(***************************************************************************)
LEMMA ConnectKeeps ==
    ASSUME ProducerInv,
           \/ \E good \in BOOLEAN : New(good) \/ Connect(good)
           \/ \E reply \in {"ack", "error", "other", "timeout"} : Established(reply)
    PROVE  ProducerInv'
<1>1. /\ conn \in {"idle", "checked", "handshake"} /\ task.sender = "none"
      /\ UNCHANGED <<despawned, sequence, ops, stop, out, beats, faults>>
  BY DEF New, Connect, Established, ProducerInv, Lived
<1>2. /\ ops = <<>> /\ out = <<>> /\ accepted = <<>> /\ task.operation = "none"
      /\ task.heartbeat = "none" /\ sequence = 0 /\ despawned = FALSE
  BY <1>1 DEF ProducerInv, Lived
<1>3. Msg("handshake") \in Message /\ Msg("spawn") \in Message
      /\ Msg("handshake").kind = "handshake" /\ Msg("spawn").kind = "spawn"
  BY Kinds
<1>4. /\ <<Msg("handshake")>> \in Seq(Message) /\ <<Msg("spawn")>> \in Seq(Message)
      /\ <<>> \in Seq(Message)
  BY <1>3
<1>5. /\ Waiting(<<>>) = <<>> /\ Aircraft(<<>>) = <<>> /\ Aircraft(<<Msg("handshake")>>) = <<>>
  <2>1. <<Msg("handshake")>> = Append(<<>>, Msg("handshake"))
    BY <1>3
  <2> QED
    BY <1>3, <1>4, <2>1, Queues
<1>6. CASE \/ \E good \in BOOLEAN : New(good) \/ Connect(good)
           \/ conn' = "failed" /\ UNCHANGED <<opTx, task, accepted, wire>>
  <2>1. /\ UNCHANGED <<opTx, task, accepted>>
        /\ wire' = wire \/ (conn = "checked" /\ wire' = <<Msg("handshake")>>)
        /\ conn' \in {"checked", "handshake", "failed"}
        /\ conn' = "handshake" => wire' = <<Msg("handshake")>>
    BY <1>6 DEF New, Connect
  <2>2. ProducerTypeOK'
    BY <1>1, <1>4, <2>1 DEF ProducerInv, ProducerTypeOK, Conn
  <2>3. Lived'
    <3>1. wire' \in {<<>>, <<Msg("handshake")>>}
      BY <1>1, <2>1 DEF ProducerInv, Lived
    <3>2. opTx = FALSE
      BY <1>1 DEF ProducerInv, Lived
    <3> QED
      BY <1>1, <1>2, <2>1, <3>1, <3>2 DEF Lived
  <2>4. StopsLast'
    BY <1>1, <1>2, <2>1 DEF ProducerInv, StopsLast
  <2>5. Flows'
    <3>1. Aircraft(wire') = <<>> /\ ToSpawn' = <<>>
      BY <1>1, <1>2, <1>5, <2>1 DEF ToSpawn, ProducerInv, Lived
    <3>2. <<>> \o (<<>> \o (<<>> \o <<>>)) = <<>>
      OBVIOUS
    <3> QED
      BY <1>1, <1>2, <1>5, <2>1, <3>1, <3>2 DEF Flows
  <2>6. Counted'
    BY <1>1, <2>1 DEF ProducerInv, Counted
  <2> QED
    BY <2>2, <2>3, <2>4, <2>5, <2>6 DEF ProducerInv
<1>7. CASE \E reply \in {"ack", "error", "other", "timeout"} : Established(reply)
  <2>1. CASE conn' = "failed"
    BY <1>6, <1>7, <2>1 DEF Established
  <2>2. CASE conn' # "failed"
    <3>1. /\ conn = "handshake" /\ conn' = "open" /\ opTx' = TRUE
          /\ task' = [sender |-> "run", operation |-> "start", heartbeat |-> "run"]
          /\ accepted' = <<Msg("spawn")>> /\ wire' = wire
      BY <1>7, <2>2 DEF Established
    <3>2. wire = <<Msg("handshake")>>
      BY <1>1, <3>1 DEF ProducerInv, Lived
    <3>3. ProducerTypeOK'
      BY <1>1, <1>4, <3>1 DEF ProducerInv, ProducerTypeOK, Conn
    <3>4. Lived'
      BY <1>1, <1>2, <1>3, <3>1, <3>2 DEF Lived
    <3>5. StopsLast'
      BY <1>1, <1>2, <3>1 DEF StopsLast
    <3>6. Flows'
      <4>1. Aircraft(wire') = <<>> /\ ToSpawn' = <<Msg("spawn")>>
        BY <1>5, <3>1, <3>2 DEF ToSpawn
      <4>2. <<>> \o (<<>> \o (<<Msg("spawn")>> \o <<>>)) = <<Msg("spawn")>>
        BY <1>4, ConcatEmptySeq
      <4> QED
        BY <1>1, <1>2, <1>5, <3>1, <4>1, <4>2 DEF Flows
    <3>7. Counted'
      <4>1. accepted' = Append(<<>>, Msg("spawn"))
        BY <1>3, <3>1
      <4>2. Numbered(<<>>) /\ \A k : Of(k, <<>>) = {}
        BY DEF Numbered, Of
      <4>3. Cardinality({}) = 0
        BY FS_EmptySet
      <4>4. Numbered(accepted') /\ Cardinality(Of("telemetry", accepted')) = 0
            /\ Cardinality(Of("despawn", accepted')) = 0
        <5>1. Cardinality(Of("telemetry", <<>>)) = 0 /\ Cardinality(Of("despawn", <<>>)) = 0
          BY <4>2, <4>3
        <5>2. Msg("spawn").kind # "telemetry" /\ Msg("spawn").kind # "despawn"
          BY <1>3
        <5> QED
          BY <1>3, <1>4, <4>1, <4>2, <5>1, <5>2, OfAppend
      <4> QED
        BY <1>1, <1>2, <4>4 DEF Counted, Numbered
    <3> QED
      BY <3>3, <3>4, <3>5, <3>6, <3>7 DEF ProducerInv
  <2> QED
    BY <2>1, <2>2
<1> QED
  BY <1>6, <1>7

(***************************************************************************)
(* The caller's methods and their numbers.                                 *)
(***************************************************************************)
LEMMA CallKeeps ==
    ASSUME ProducerInv, Call
    PROVE  ProducerInv'
<1>0. despawned \in BOOLEAN /\ sequence \in Nat
  BY DEF ProducerInv, ProducerTypeOK
<1>1. CASE UpdateState
  <2>1. Msg("state") \in Message /\ Msg("state").kind = "state"
    BY Kinds DEF Calls
  <2> QED
    BY <1>0, <1>1, <2>1, OperateKeeps DEF UpdateState, Calls
<1>2. CASE CreateEvent
  <2>1. Msg("event") \in Message /\ Msg("event").kind = "event"
    BY Kinds DEF Calls
  <2> QED
    BY <1>0, <1>2, <2>1, OperateKeeps DEF CreateEvent, Calls
<1>3. CASE PublishTelemetry
  <2> DEFINE m == [kind |-> "telemetry", seq |-> sequence + 1]
  <2>1. m \in Message /\ m.kind = "telemetry" /\ m.seq = sequence + 1
    BY <1>0 DEF Message, Calls
  <2>2. Operate(m) /\ sequence' = sequence + 1 /\ despawned' = despawned
    BY <1>3 DEF PublishTelemetry, PublishFrame
  <2> HIDE DEF m
  <2> QED
    BY <1>0, <2>1, <2>2, OperateKeeps DEF Calls
<1>4. CASE Despawn
  <2>1. Msg("despawn") \in Message /\ Msg("despawn").kind = "despawn"
    BY Kinds DEF Calls
  <2>2. ~despawned /\ Operate(Msg("despawn")) /\ despawned' = TRUE /\ sequence' = sequence
    BY <1>4 DEF Despawn
  <2> QED
    BY <1>0, <2>1, <2>2, OperateKeeps DEF Calls
<1> QED
  BY <1>1, <1>2, <1>3, <1>4 DEF Call

(***************************************************************************)
(* close puts a last despawn, unless there was one, and the stop operation *)
(* behind everything else.                                                 *)
(***************************************************************************)
LEMMA CloseKeeps ==
    ASSUME ProducerInv, Close
    PROVE  ProducerInv'
<1> DEFINE d == Msg("despawn")
           s == Msg("stop")
           q == IF despawned THEN ops ELSE Append(ops, d)
           a == IF despawned THEN accepted ELSE Append(accepted, d)
<1>1. /\ conn = "open" /\ conn' = "joinHeartbeat" /\ opTx' = FALSE /\ despawned' = TRUE
      /\ UNCHANGED <<sequence, out, task, beats, faults, wire>>
  BY DEF Close
<1>2. d \in Message /\ d.kind = "despawn" /\ s \in Message /\ s.kind = "stop" /\ d.kind \in Calls
  BY Kinds DEF Calls
<1>3. /\ ops \in Seq(Message) /\ out \in Seq(Message) /\ accepted \in Seq(Message)
      /\ wire \in Seq(Message) /\ despawned \in BOOLEAN
  BY DEF ProducerInv, ProducerTypeOK
<1>4. ops' = Append(q, s) /\ accepted' = a
  <2>1. CASE despawned
    <3>1. ops' = ops \o <<>> \o <<s>> /\ accepted' = accepted \o <<>>
      BY <2>1 DEF Close
    <3>2. ops \o <<>> = ops /\ accepted \o <<>> = accepted
      BY <1>3, ConcatEmptySeq
    <3>3. Append(ops, s) = ops \o <<s>>
      BY <1>2, <1>3, AppendIsConcat
    <3> QED
      BY <2>1, <3>1, <3>2, <3>3
  <2>2. CASE ~despawned
    <3>1. ops' = ops \o <<d>> \o <<s>> /\ accepted' = accepted \o <<d>>
      BY <2>2 DEF Close
    <3> HIDE DEF d, s
    <3>2. Append(ops, d) = ops \o <<d>> /\ Append(accepted, d) = accepted \o <<d>>
      BY <1>2, <1>3, AppendIsConcat
    <3>3. Append(ops, d) \in Seq(Message)
      BY <1>2, <1>3, AppendProperties
    <3>4. Append(Append(ops, d), s) = Append(ops, d) \o <<s>>
      BY <1>2, <3>3, AppendIsConcat
    <3> QED
      BY <2>2, <3>1, <3>2, <3>4
  <2> QED
    BY <1>3, <2>1, <2>2
<1> HIDE DEF d, s
<1>5. /\ q \in Seq(Message) /\ a \in Seq(Message)
      /\ \A i \in 1 .. Len(q) : q[i].kind \in Calls
      /\ task.sender # "done" =>
           a = Aircraft(wire) \o (Waiting(out) \o (ToSpawn \o Waiting(q)))
      /\ task.sender = "done" => IsPrefix(Aircraft(wire), a)
  <2>1. CASE despawned
    <3>1. \A i \in 1 .. Len(ops) : ops[i].kind \in Calls
      BY <1>1 DEF ProducerInv, StopsLast
    <3>2. /\ task.sender # "done" =>
               accepted = Aircraft(wire) \o (Waiting(out) \o (ToSpawn \o Waiting(ops)))
          /\ task.sender = "done" => IsPrefix(Aircraft(wire), accepted)
      BY DEF ProducerInv, Flows
    <3> QED
      BY <1>3, <2>1, <3>1, <3>2
  <2>2. CASE ~despawned
    BY <1>1, <1>2, <2>2, Accepting
  <2> QED
    BY <1>3, <2>1, <2>2
<1>6. /\ sequence = Cardinality(Of("telemetry", a)) /\ Numbered(a)
      /\ Cardinality(Of("despawn", a)) = 1
  <2>1. /\ sequence = Cardinality(Of("telemetry", accepted)) /\ Numbered(accepted)
        /\ Cardinality(Of("despawn", accepted)) = IF despawned THEN 1 ELSE 0
    BY DEF ProducerInv, Counted, Numbered
  <2> QED
    BY <1>2, <1>3, <2>1, OfAppend
<1> HIDE DEF q, a
<1>7. /\ ops' \in Seq(Message) /\ Len(ops') = Len(q) + 1 /\ Len(q) \in Nat
      /\ \A i \in 1 .. Len(q) : ops'[i] = q[i]
      /\ ops'[Len(q) + 1] = s
  BY <1>2, <1>4, <1>5, AppendProperties, LenProperties
<1>8. ProducerTypeOK'
  BY <1>1, <1>4, <1>5, <1>7 DEF ProducerInv, ProducerTypeOK, Conn
<1>9. Lived'
  <2>1. task.sender # "none"
    BY <1>1 DEF ProducerInv, Lived
  <2> QED
    BY <1>1, <2>1 DEF ProducerInv, Lived
<1>10. StopsLast'
  <2>1. \A i \in 1 .. Len(ops') : /\ ops'[i].kind \in Calls \cup {"stop"}
                                  /\ ops'[i].kind = "stop" => i = Len(ops')
    BY <1>2, <1>5, <1>7 DEF Calls
  <2>2. task.operation # "done"
    BY <1>1 DEF ProducerInv, StopsLast
  <2> QED
    BY <1>1, <2>1, <2>2 DEF ProducerInv, StopsLast
<1>11. Flows'
  <2>1. ToSpawn' = ToSpawn
    BY <1>1 DEF ToSpawn
  <2>2. Waiting(ops') = Waiting(q)
    BY <1>2, <1>4, <1>5, Queues
  <2>3. task.sender = "done" => out' = <<>> /\ faults' # 0
    BY <1>1 DEF ProducerInv, Flows, StopsLast
  <2> QED
    BY <1>1, <1>4, <1>5, <2>1, <2>2, <2>3 DEF Flows
<1>12. Counted'
  BY <1>1, <1>4, <1>6 DEF Counted, Numbered
<1> QED
  BY <1>8, <1>9, <1>10, <1>11, <1>12 DEF ProducerInv

(***************************************************************************)
(* Waiting for the tasks, and dropping the client, move no message.        *)
(***************************************************************************)
LEMMA LeaveKeeps ==
    ASSUME ProducerInv, Join \/ Drop
    PROVE  ProducerInv'
<1>1. /\ UNCHANGED <<despawned, sequence, ops, out, task, faults, accepted, wire>>
      /\ conn \in {"open", "joinHeartbeat", "joinOperation", "joinSender"}
      /\ conn' \in {"joinOperation", "joinSender", "closed", "dropped"}
      /\ conn = "open" => conn' = "dropped"
      /\ conn' = "closed" => task.sender = "done"
  BY DEF Join, Drop
<1>2. opTx' = FALSE
  <2>1. CASE Join
    <3>1. opTx' = opTx /\ conn # "open"
      BY <2>1 DEF Join
    <3> QED
      BY <3>1 DEF ProducerInv, Lived
  <2>2. CASE Drop
    BY <2>2 DEF Drop
  <2> QED
    BY <2>1, <2>2
<1>3. ProducerTypeOK'
  BY <1>1, <1>2 DEF ProducerInv, ProducerTypeOK, Conn
<1>4. Lived'
  <2>1. task.sender # "none" /\ (conn # "open" => despawned = TRUE)
    BY <1>1 DEF ProducerInv, Lived
  <2> QED
    BY <1>1, <1>2, <2>1 DEF ProducerInv, Lived
<1>5. StopsLast'
  BY <1>1 DEF ProducerInv, StopsLast
<1>6. Flows'
  BY <1>1 DEF ProducerInv, Flows, ToSpawn
<1>7. Counted'
  BY <1>1 DEF ProducerInv, Counted
<1> QED
  BY <1>3, <1>4, <1>5, <1>6, <1>7 DEF ProducerInv

(***************************************************************************)
(* A message goes to a sender task that still runs, or is lost with it;    *)
(* only the operation task's last one is a shutdown (send_outbound).       *)
(***************************************************************************)
LEMMA OutboundKeeps ==
    ASSUME ProducerInv, NEW m \in Message, SendOutbound(m), m.kind # "stop",
           task.operation \in {"start", "run"} \/ m.kind = "heartbeat",
           m.kind = "shutdown" => task'.operation = "done",
           task.operation = "done" => task'.operation = "done"
    PROVE  /\ out' \in Seq(Message)
           /\ \A i \in 1 .. Len(out') :
                /\ out'[i].kind # "stop"
                /\ out'[i].kind = "shutdown" =>
                      /\ task'.operation = "done"
                      /\ \A j \in i + 1 .. Len(out') : out'[j].kind = "heartbeat"
<1>1. out \in Seq(Message)
  BY DEF ProducerInv, ProducerTypeOK
<1>2. \A i \in 1 .. Len(out) :
          /\ out[i].kind # "stop"
          /\ out[i].kind = "shutdown" =>
                /\ task.operation = "done"
                /\ \A j \in i + 1 .. Len(out) : out[j].kind = "heartbeat"
  BY DEF ProducerInv, StopsLast
<1>3. CASE out' = out
  BY <1>1, <1>2, <1>3
<1>4. CASE out' = Append(out, m)
  <2>1. /\ out' \in Seq(Message) /\ Len(out') = Len(out) + 1 /\ Len(out) \in Nat
        /\ out'[Len(out) + 1] = m /\ \A i \in 1 .. Len(out) : out'[i] = out[i]
    BY <1>1, <1>4, AppendProperties, LenProperties
  <2>2. ASSUME NEW i \in 1 .. Len(out')
        PROVE  /\ out'[i].kind # "stop"
               /\ out'[i].kind = "shutdown" =>
                     /\ task'.operation = "done"
                     /\ \A j \in i + 1 .. Len(out') : out'[j].kind = "heartbeat"
    <3>1. CASE i = Len(out) + 1
      BY <2>1, <3>1
    <3>2. CASE i # Len(out) + 1
      <4>1. i \in 1 .. Len(out) /\ out'[i] = out[i]
        BY <2>1, <3>2
      <4>2. out'[i].kind # "stop"
        BY <1>2, <4>1
      <4>3. ASSUME out'[i].kind = "shutdown"
            PROVE  /\ task'.operation = "done"
                   /\ \A j \in i + 1 .. Len(out') : out'[j].kind = "heartbeat"
        <5>1. task.operation = "done" /\ \A j \in i + 1 .. Len(out) : out[j].kind = "heartbeat"
          BY <1>2, <4>1, <4>3
        <5>2. m.kind = "heartbeat" /\ task'.operation = "done"
          BY <5>1
        <5>3. ASSUME NEW j \in i + 1 .. Len(out') PROVE out'[j].kind = "heartbeat"
          <6>1. j = Len(out) + 1 \/ (j \in i + 1 .. Len(out) /\ j \in 1 .. Len(out))
            BY <2>1, <4>1
          <6> QED
            BY <2>1, <5>1, <5>2, <6>1
        <5> QED
          BY <5>2, <5>3
      <4> QED
        BY <4>2, <4>3
    <3> QED
      BY <3>1, <3>2
  <2> QED
    BY <2>1, <2>2
<1> QED
  BY <1>3, <1>4 DEF SendOutbound

(***************************************************************************)
(* The operation task moves the oldest operation, or its spawn, to the     *)
(* outbound queue, ends on the stop operation or with its queue.           *)
(***************************************************************************)
LEMMA OperationKeeps ==
    ASSUME ProducerInv, OperationStart \/ OperationStep \/ OperationEnd
    PROVE  ProducerInv'
<1>1. /\ UNCHANGED <<conn, despawned, sequence, opTx, stop, beats, faults, accepted, wire>>
      /\ task.operation \in {"start", "run"}
      /\ task' = [task EXCEPT !.operation = task'.operation]
      /\ task'.operation \in {"run", "done"}
  <2>1. task \in [sender : {"none", "run", "done"}, operation : {"none", "start", "run", "done"},
                  heartbeat : {"none", "run", "done"}]
    BY DEF ProducerInv, ProducerTypeOK
  <2> QED
    BY <2>1 DEF OperationStart, OperationStep, OperationEnd
<1>2. /\ task' \in [sender : {"none", "run", "done"}, operation : {"none", "start", "run", "done"},
                    heartbeat : {"none", "run", "done"}]
      /\ task'.sender = task.sender
  BY <1>1 DEF ProducerInv, ProducerTypeOK
<1>3. /\ ops \in Seq(Message) /\ out \in Seq(Message) /\ wire \in Seq(Message)
      /\ Aircraft(wire) \in Seq(Message) /\ Waiting(out) \in Seq(Message)
      /\ Waiting(ops) \in Seq(Message)
  BY Queues DEF ProducerInv, ProducerTypeOK
<1>4. task.sender # "none"
  BY <1>1 DEF ProducerInv, Lived
<1>5. Counted'
  BY <1>1 DEF ProducerInv, Counted
<1>6. Lived'
  BY <1>1, <1>2, <1>4 DEF ProducerInv, Lived
<1>7. task.sender = "done" => faults # 0 /\ out = <<>> /\ IsPrefix(Aircraft(wire), accepted)
  BY <1>1 DEF ProducerInv, Flows
<1>8. /\ ops' \in Seq(Message) /\ out' \in Seq(Message)
      /\ StopsLast'
      /\ task.sender = "done" => out' = out
      /\ task.sender # "done" =>
           accepted = Aircraft(wire) \o (Waiting(out') \o (ToSpawn' \o Waiting(ops')))
  <2>0. task.sender # "done" =>
          accepted = Aircraft(wire) \o (Waiting(out) \o (ToSpawn \o Waiting(ops)))
    BY DEF ProducerInv, Flows
  <2>1. CASE OperationStart
    <3> DEFINE m == Msg("spawn")
    <3>1. /\ task.operation = "start" /\ SendOutbound(m) /\ task'.operation = "run"
          /\ ops' = ops
      BY <2>1, <1>2 DEF OperationStart, ProducerInv, ProducerTypeOK
    <3>2. m \in Message /\ m.kind = "spawn"
      BY Kinds
    <3>3. ToSpawn = <<m>> /\ ToSpawn' = <<>>
      BY <3>1 DEF ToSpawn
    <3> HIDE DEF m
    <3>4. /\ out' \in Seq(Message)
          /\ \A i \in 1 .. Len(out') :
               /\ out'[i].kind # "stop"
               /\ out'[i].kind = "shutdown" =>
                     /\ task'.operation = "done"
                     /\ \A j \in i + 1 .. Len(out') : out'[j].kind = "heartbeat"
      BY <3>1, <3>2, OutboundKeeps
    <3>5. StopsLast'
      BY <1>1, <3>1, <3>4 DEF ProducerInv, StopsLast
    <3>6. ASSUME task.sender # "done"
          PROVE  Waiting(out') \o (<<>> \o Waiting(ops)) = Waiting(out) \o (<<m>> \o Waiting(ops))
      <4>1. Waiting(out') = Append(Waiting(out), m)
        BY <1>3, <3>1, <3>2, <3>6, Queues DEF SendOutbound
      <4>2. <<>> \o Waiting(ops) = Waiting(ops)
        BY <1>3, ConcatEmptySeq
      <4>3. Waiting(out) \o (<<m>> \o Waiting(ops)) = Append(Waiting(out), m) \o Waiting(ops)
        <5>1. Waiting(out) \in Seq(Message) /\ Waiting(ops) \in Seq(Message) /\ m \in Message
          BY <1>3, <3>2
        <5> QED
          BY <5>1, AppendConcat
      <4> QED
        BY <4>1, <4>2, <4>3
    <3>7. task.sender = "done" => out' = out
      BY <3>1 DEF SendOutbound
    <3> QED
      BY <1>3, <2>0, <3>1, <3>3, <3>4, <3>5, <3>6, <3>7
  <2>2. CASE OperationStep
    <3> DEFINE last == Head(ops).kind = "stop"
               m == IF last THEN Msg("shutdown") ELSE Head(ops)
    <3>1. /\ task.operation = "run" /\ ops # <<>> /\ SendOutbound(m) /\ ops' = Tail(ops)
          /\ task'.operation = IF last THEN "done" ELSE "run"
      BY <2>2, <1>2 DEF OperationStep, ProducerInv, ProducerTypeOK
    <3>2. /\ Head(ops) \in Message /\ Head(ops) = ops[1] /\ ops' \in Seq(Message)
          /\ Len(ops) \in Nat \ {0} /\ Len(ops') = Len(ops) - 1
          /\ \A i \in 1 .. Len(ops') : ops'[i] = ops[i + 1]
      BY <1>3, <3>1, Taken
    <3>3. /\ Head(ops).kind \in Calls \cup {"stop"}
          /\ last => Len(ops) = 1 /\ conn # "open"
      <4>1. 1 \in 1 .. Len(ops)
        BY <3>2
      <4> QED
        BY <3>2, <4>1 DEF ProducerInv, StopsLast
    <3>4. m \in Message /\ m.kind \in Calls \cup {"shutdown"} /\ (m.kind = "shutdown" <=> last)
      BY <3>2, <3>3, Kinds DEF Calls
    <3>5. Waiting(ops) = (IF last THEN <<>> ELSE <<m>>) \o Waiting(ops')
      <4>1. last <=> Head(ops).kind \in {"handshake", "heartbeat", "stop", "shutdown"}
        BY <3>3 DEF Calls
      <4> QED
        BY <1>3, <3>1, <4>1, Queues
    <3> HIDE DEF last, m
    <3>6. /\ out' \in Seq(Message)
          /\ \A i \in 1 .. Len(out') :
               /\ out'[i].kind # "stop"
               /\ out'[i].kind = "shutdown" =>
                     /\ task'.operation = "done"
                     /\ \A j \in i + 1 .. Len(out') : out'[j].kind = "heartbeat"
      BY <3>1, <3>4, OutboundKeeps DEF Calls
    <3>7. StopsLast'
      <4>1. \A i \in 1 .. Len(ops') :
              /\ ops'[i].kind \in Calls \cup {"stop"}
              /\ ops'[i].kind = "stop" => i = Len(ops') /\ conn # "open"
        <5> SUFFICES ASSUME NEW i \in 1 .. Len(ops')
                     PROVE  /\ ops'[i].kind \in Calls \cup {"stop"}
                            /\ ops'[i].kind = "stop" => i = Len(ops') /\ conn # "open"
          OBVIOUS
        <5>1. i + 1 \in 1 .. Len(ops) /\ ops'[i] = ops[i + 1]
          BY <3>2
        <5>2. /\ ops[i + 1].kind \in Calls \cup {"stop"}
              /\ ops[i + 1].kind = "stop" => i + 1 = Len(ops) /\ conn # "open"
          BY <5>1 DEF ProducerInv, StopsLast
        <5> QED
          BY <3>2, <5>1, <5>2
      <4>2. task'.operation = "done" => ops' = <<>> /\ conn # "open"
        <5>1. ASSUME last PROVE ops' = <<>> /\ conn # "open"
          <6>1. Len(ops') = 0
            BY <3>2, <3>3, <5>1 DEF last
          <6>2. ops' = <<>>
            BY <3>2, <6>1, EmptySeq
          <6> QED
            BY <3>3, <5>1, <6>2
        <5> QED
          BY <3>1, <5>1
      <4> QED
        BY <1>1, <3>6, <4>1, <4>2 DEF StopsLast
    <3>8. ToSpawn = <<>> /\ ToSpawn' = <<>>
      BY <1>1, <3>1 DEF ToSpawn
    <3>9. ASSUME task.sender # "done"
          PROVE  Waiting(out') \o (<<>> \o Waiting(ops')) = Waiting(out) \o (<<>> \o Waiting(ops))
      <4>0. Waiting(ops') \in Seq(Message)
        BY <3>2, Queues
      <4>1. out' = Append(out, m)
        BY <3>1, <3>9 DEF SendOutbound
      <4>2. <<>> \o Waiting(ops) = Waiting(ops) /\ <<>> \o Waiting(ops') = Waiting(ops')
        BY <1>3, <4>0, ConcatEmptySeq
      <4>3. CASE last
        <5>1. Waiting(out') = Waiting(out)
          BY <1>3, <3>4, <4>1, <4>3, Queues
        <5>2. Waiting(ops) = Waiting(ops')
          BY <3>5, <4>2, <4>3
        <5> QED
          BY <4>2, <5>1, <5>2
      <4>4. CASE ~last
        <5>1. Waiting(out') = Append(Waiting(out), m)
          BY <1>3, <3>4, <4>1, <4>4, Queues DEF Calls
        <5>2. Waiting(ops) = <<m>> \o Waiting(ops')
          BY <3>5, <4>4
        <5>3. Waiting(out) \o (<<m>> \o Waiting(ops')) = Append(Waiting(out), m) \o Waiting(ops')
          <6>1. Waiting(out) \in Seq(Message) /\ m \in Message
            BY <1>3, <3>4
          <6> QED
            BY <4>0, <6>1, AppendConcat
        <5> QED
          BY <4>2, <5>1, <5>2, <5>3
      <4> QED
        BY <4>3, <4>4
    <3>10. task.sender = "done" => out' = out
      BY <3>1 DEF SendOutbound
    <3> QED
      BY <2>0, <3>2, <3>6, <3>7, <3>8, <3>9, <3>10
  <2>3. CASE OperationEnd
    <3>1. /\ task.operation = "run" /\ task'.operation = "done" /\ ops' = ops /\ out' = out
          /\ ops = <<>> /\ ~opTx
      BY <2>3, <1>2 DEF OperationEnd, ProducerInv, ProducerTypeOK
    <3>2. conn # "open"
      BY <3>1 DEF ProducerInv, Lived
    <3>3. ToSpawn = <<>> /\ ToSpawn' = <<>>
      BY <3>1 DEF ToSpawn
    <3>4. StopsLast'
      BY <1>1, <3>1, <3>2 DEF ProducerInv, StopsLast
    <3> QED
      BY <1>3, <2>0, <3>1, <3>3, <3>4
  <2> QED
    BY <2>1, <2>2, <2>3
<1>9. ProducerTypeOK'
  BY <1>1, <1>2, <1>8 DEF ProducerInv, ProducerTypeOK
<1>10. Flows'
  BY <1>1, <1>2, <1>7, <1>8 DEF Flows
<1> QED
  BY <1>5, <1>6, <1>8, <1>9, <1>10 DEF ProducerInv

(***************************************************************************)
(* The heartbeat task adds heartbeats, which are none of the aircraft's    *)
(* messages, and ends.                                                     *)
(***************************************************************************)
LEMMA HeartbeatKeeps ==
    ASSUME ProducerInv, HeartbeatTick \/ HeartbeatStop
    PROVE  ProducerInv'
<1> DEFINE m == Msg("heartbeat")
<1>1. /\ UNCHANGED <<conn, despawned, sequence, ops, opTx, stop, faults, accepted, wire>>
      /\ task.heartbeat = "run"
      /\ task' = task \/ task' = [task EXCEPT !.heartbeat = "done"]
      /\ out' = out \/ SendOutbound(m)
  BY DEF HeartbeatTick, HeartbeatStop
<1>2. /\ task' \in [sender : {"none", "run", "done"}, operation : {"none", "start", "run", "done"},
                    heartbeat : {"none", "run", "done"}]
      /\ task'.sender = task.sender /\ task'.operation = task.operation
  BY <1>1 DEF ProducerInv, ProducerTypeOK
<1>3. m \in Message /\ m.kind = "heartbeat"
  BY Kinds
<1>4. out \in Seq(Message) /\ ToSpawn' = ToSpawn
  BY <1>2 DEF ProducerInv, ProducerTypeOK, ToSpawn
<1> HIDE DEF m
<1>5. /\ out' \in Seq(Message)
      /\ \A i \in 1 .. Len(out') :
           /\ out'[i].kind # "stop"
           /\ out'[i].kind = "shutdown" =>
                 /\ task'.operation = "done"
                 /\ \A j \in i + 1 .. Len(out') : out'[j].kind = "heartbeat"
  <2>1. CASE out' = out
    BY <1>2, <1>4, <2>1 DEF ProducerInv, StopsLast
  <2>2. CASE SendOutbound(m)
    BY <1>2, <1>3, <2>2, OutboundKeeps
  <2> QED
    BY <1>1, <2>1, <2>2
<1>6. Waiting(out') = Waiting(out)
  BY <1>1, <1>3, <1>4, Queues DEF SendOutbound
<1>7. task.sender = "none" => out' = out
  <2>1. SUFFICES ASSUME task.sender = "none" PROVE FALSE
    OBVIOUS
  <2>2. task.heartbeat # "run"
    BY <2>1 DEF ProducerInv, Lived
  <2> QED
    BY <1>1, <2>2
<1>8. task.sender = "done" => out' = out
  BY <1>1 DEF SendOutbound
<1>9. ProducerTypeOK'
  BY <1>1, <1>2, <1>5 DEF ProducerInv, ProducerTypeOK
<1>10. Lived'
  BY <1>1, <1>2, <1>7 DEF ProducerInv, Lived
<1>11. StopsLast'
  BY <1>1, <1>2, <1>5 DEF ProducerInv, StopsLast
<1>12. Flows'
  BY <1>1, <1>2, <1>4, <1>6, <1>8 DEF ProducerInv, Flows
<1>13. Counted'
  BY <1>1 DEF ProducerInv, Counted
<1> QED
  BY <1>9, <1>10, <1>11, <1>12, <1>13 DEF ProducerInv

(***************************************************************************)
(* The sender task writes the oldest message, gives up on a failing send,  *)
(* or ends: on the shutdown, behind which there are heartbeats only, or    *)
(* with its queue when the operation task is done.  When it ends without a *)
(* failing send nothing of the aircraft is left unsent.                    *)
(***************************************************************************)
LEMMA SenderKeeps ==
    ASSUME ProducerInv, SenderStep \/ SenderFails \/ SenderEnd
    PROVE  ProducerInv'
<1>1. /\ UNCHANGED <<conn, despawned, sequence, ops, opTx, stop, beats, accepted>>
      /\ task.sender = "run"
  BY DEF SenderStep, SenderFails, SenderEnd
<1>2. /\ ops \in Seq(Message) /\ out \in Seq(Message) /\ wire \in Seq(Message)
      /\ Aircraft(wire) \in Seq(Message) /\ Waiting(out) \in Seq(Message)
      /\ Waiting(ops) \in Seq(Message) /\ ToSpawn \in Seq(Message)
  <2>1. ToSpawn \in Seq(Message)
    BY Kinds DEF ToSpawn
  <2> QED
    BY <2>1, Queues DEF ProducerInv, ProducerTypeOK
<1>3. /\ accepted = Aircraft(wire) \o (Waiting(out) \o (ToSpawn \o Waiting(ops)))
      /\ wire # <<>> /\ wire[1].kind = "handshake" /\ task.operation # "none"
  BY <1>1 DEF ProducerInv, Flows, Lived
<1>4. task \in [sender : {"none", "run", "done"}, operation : {"none", "start", "run", "done"},
                heartbeat : {"none", "run", "done"}]
  BY DEF ProducerInv, ProducerTypeOK
<1>5. Counted'
  BY <1>1 DEF ProducerInv, Counted
<1>6. CASE task' = [task EXCEPT !.sender = "done"] /\ out' = <<>> /\ wire' = wire /\ faults' \in Nat
           /\ (faults' = 0 => Waiting(out) = <<>> /\ task.operation = "done")
  <2>1. /\ task'.sender = "done" /\ task'.operation = task.operation
        /\ task' \in [sender : {"none", "run", "done"},
                      operation : {"none", "start", "run", "done"},
                      heartbeat : {"none", "run", "done"}]
    BY <1>4, <1>6
  <2>2. ProducerTypeOK'
    BY <1>1, <1>6, <2>1 DEF ProducerInv, ProducerTypeOK
  <2>3. Lived'
    BY <1>1, <1>3, <1>6, <2>1 DEF ProducerInv, Lived
  <2>4. StopsLast'
    BY <1>1, <1>6, <2>1 DEF ProducerInv, StopsLast
  <2>5. IsPrefix(Aircraft(wire), accepted)
    <3> DEFINE rest == Waiting(out) \o (ToSpawn \o Waiting(ops))
    <3>1. rest \in Seq(Message)
      BY <1>2, ConcatProperties
    <3> HIDE DEF rest
    <3>2. IsPrefix(Aircraft(wire), Aircraft(wire) \o rest)
      BY <1>2, <3>1, PrefixConcat
    <3> QED
      BY <1>3, <3>2 DEF rest
  <2>6. ASSUME faults' = 0 PROVE accepted = Aircraft(wire)
    <3>1. Waiting(out) = <<>> /\ ToSpawn = <<>>
      BY <1>6, <2>6 DEF ToSpawn
    <3>2. ops = <<>>
      BY <1>6, <2>6 DEF ProducerInv, StopsLast
    <3>3. Waiting(ops) = <<>>
      BY <3>2, BesidesEmpty DEF Waiting
    <3>4. <<>> \o (<<>> \o <<>>) = <<>>
      OBVIOUS
    <3>5. Aircraft(wire) \o <<>> = Aircraft(wire)
      BY <1>2, ConcatEmptySeq
    <3> QED
      BY <1>3, <3>1, <3>3, <3>4, <3>5
  <2>7. Flows'
    BY <1>1, <1>6, <2>1, <2>5, <2>6 DEF Flows
  <2> QED
    BY <1>5, <2>2, <2>3, <2>4, <2>7 DEF ProducerInv
<1>7. CASE SenderStep
  <2>1. /\ out # <<>> /\ Head(out) \in Message /\ Head(out) = out[1] /\ Tail(out) \in Seq(Message)
        /\ Len(out) \in Nat \ {0} /\ Len(Tail(out)) = Len(out) - 1
        /\ \A i \in 1 .. Len(Tail(out)) : Tail(out)[i] = out[i + 1]
    BY <1>2, <1>7, Taken DEF SenderStep
  <2>2. \A i \in 1 .. Len(out) :
          /\ out[i].kind # "stop"
          /\ out[i].kind = "shutdown" =>
                /\ task.operation = "done"
                /\ \A j \in i + 1 .. Len(out) : out[j].kind = "heartbeat"
    BY DEF ProducerInv, StopsLast
  <2>3. CASE Head(out).kind = "shutdown"
    <3>1. /\ task' = [task EXCEPT !.sender = "done"] /\ wire' = wire /\ out' = <<>>
          /\ faults' = faults
      BY <1>7, <2>3 DEF SenderStep
    <3>2. task.operation = "done" /\ \A j \in 2 .. Len(out) : out[j].kind = "heartbeat"
      <4>1. 1 \in 1 .. Len(out) /\ out[1].kind = "shutdown"
        BY <2>1, <2>3
      <4> QED
        BY <2>2, <4>1
    <3>3. \A i \in 1 .. Len(out) : out[i].kind \in {"handshake", "heartbeat", "stop", "shutdown"}
      BY <2>1, <2>3, <3>2
    <3>4. Waiting(out) = <<>>
      BY <1>2, <3>3, BesidesNone DEF Waiting
    <3>5. faults' \in Nat
      BY <3>1 DEF ProducerInv, ProducerTypeOK
    <3> QED
      BY <1>6, <3>1, <3>2, <3>4, <3>5
  <2>4. CASE Head(out).kind # "shutdown"
    <3> DEFINE m == Head(out)
    <3>1. wire' = Append(wire, m) /\ task' = task /\ out' = Tail(out) /\ faults' = faults
      BY <1>7, <2>4 DEF SenderStep
    <3>2. m \in Message /\ m.kind # "stop" /\ m.kind # "shutdown"
      BY <2>1, <2>2, <2>4
    <3>3. Waiting(out) = (IF m.kind \in {"handshake", "heartbeat", "stop", "shutdown"} THEN <<>>
                          ELSE <<m>>) \o Waiting(out')
      BY <1>2, <2>1, <3>1, Queues
    <3> HIDE DEF m
    <3>4. /\ wire' \in Seq(Message) /\ wire' # <<>> /\ wire'[1] = wire[1]
      <4>1. wire \in Seq(Message) /\ wire # <<>>
        BY <1>2, <1>3
      <4>2. Len(wire) \in Nat /\ Len(wire) # 0
        BY <4>1, LenProperties, EmptySeq
      <4> QED
        BY <3>1, <3>2, <4>1, <4>2, AppendProperties
    <3>5. ProducerTypeOK'
      BY <1>1, <2>1, <3>1, <3>4 DEF ProducerInv, ProducerTypeOK
    <3>6. Lived'
      BY <1>1, <1>3, <3>1, <3>4 DEF ProducerInv, Lived
    <3>7. StopsLast'
      <4>1. ASSUME NEW i \in 1 .. Len(out')
            PROVE  /\ out'[i].kind # "stop"
                   /\ out'[i].kind = "shutdown" =>
                        /\ task.operation = "done"
                        /\ \A j \in i + 1 .. Len(out') : out'[j].kind = "heartbeat"
        <5>1. i + 1 \in 1 .. Len(out) /\ out'[i] = out[i + 1]
          BY <2>1, <3>1
        <5>2. /\ out[i + 1].kind # "stop"
              /\ out[i + 1].kind = "shutdown" =>
                   /\ task.operation = "done"
                   /\ \A j \in (i + 1) + 1 .. Len(out) : out[j].kind = "heartbeat"
          BY <2>2, <5>1
        <5>3. \A j \in i + 1 .. Len(out') : j + 1 \in (i + 1) + 1 .. Len(out) /\ out'[j] = out[j + 1]
          BY <2>1, <3>1
        <5> QED
          BY <5>1, <5>2, <5>3
      <4> QED
        BY <1>1, <3>1, <4>1 DEF ProducerInv, StopsLast
    <3>8. Flows'
      <4>1. ToSpawn' = ToSpawn
        BY <3>1 DEF ToSpawn
      <4> DEFINE c == ToSpawn \o Waiting(ops)
                 w == Waiting(out')
      <4>2. c \in Seq(Message) /\ w \in Seq(Message)
        BY <1>2, <2>1, <3>1, Queues, ConcatProperties
      <4>3. accepted = Aircraft(wire) \o (Waiting(out) \o c)
        BY <1>3
      <4>4. Waiting(out) = (IF m.kind \in {"handshake", "heartbeat", "stop", "shutdown"} THEN <<>>
                            ELSE <<m>>) \o w
        BY <3>3
      <4> HIDE DEF c, w
      <4>5. ASSUME m.kind \in {"handshake", "heartbeat"}
            PROVE  accepted = Aircraft(wire') \o (w \o c)
        <5>1. Aircraft(wire') = Aircraft(wire)
          BY <1>2, <3>1, <3>2, <4>5, Queues
        <5>2. Waiting(out) = w
          BY <4>2, <4>4, <4>5, ConcatEmptySeq
        <5> QED
          BY <4>3, <5>1, <5>2
      <4>6. ASSUME m.kind \notin {"handshake", "heartbeat"}
            PROVE  accepted = Aircraft(wire') \o (w \o c)
        <5>1. Aircraft(wire') = Append(Aircraft(wire), m)
          BY <1>2, <3>1, <3>2, <4>6, Queues
        <5>2. Waiting(out) = <<m>> \o w
          BY <3>2, <4>4, <4>6
        <5> DEFINE a == Aircraft(wire)
                   one == <<m>>
        <5>3. a \in Seq(Message) /\ one \in Seq(Message)
          BY <1>2, <3>2
        <5>4. w \o c \in Seq(Message)
          BY <4>2, ConcatProperties
        <5>5. (one \o w) \o c = one \o (w \o c)
          <6> HIDE DEF one
          <6> QED
            BY <4>2, <5>3
        <5>6. a \o (<<m>> \o (w \o c)) = Append(a, m) \o (w \o c)
          <6> DEFINE e == w \o c
          <6>1. e \in Seq(Message)
            BY <5>4
          <6> HIDE DEF a, e
          <6>2. a \o (<<m>> \o e) = Append(a, m) \o e
            BY <3>2, <5>3, <6>1, AppendConcat
          <6> QED
            BY <6>2 DEF e
        <5> QED
          BY <4>3, <5>1, <5>2, <5>5, <5>6
      <4>7. accepted = Aircraft(wire') \o (w \o c)
        BY <4>5, <4>6
      <4> QED
        BY <1>1, <3>1, <4>1, <4>7 DEF Flows, c, w
    <3> QED
      BY <1>5, <3>5, <3>6, <3>7, <3>8 DEF ProducerInv
  <2> QED
    BY <2>3, <2>4
<1>8. CASE SenderFails
  <2>1. faults \in Nat
    BY DEF ProducerInv, ProducerTypeOK
  <2> QED
    BY <1>6, <1>8, <2>1 DEF SenderFails
<1>9. CASE SenderEnd
  <2>1. faults \in Nat
    BY DEF ProducerInv, ProducerTypeOK
  <2>2. Waiting(<<>>) = <<>>
    BY BesidesEmpty DEF Waiting
  <2>3. /\ task' = [task EXCEPT !.sender = "done"] /\ out = <<>> /\ out' = out /\ wire' = wire
        /\ faults' = faults /\ task.operation = "done"
    BY <1>9 DEF SenderEnd
  <2> QED
    BY <1>6, <2>1, <2>2, <2>3
<1> QED
  BY <1>7, <1>8, <1>9

-------------------------------------------------------------------------------
(***************************************************************************)
(* A new client satisfies the invariant.                                   *)
(***************************************************************************)
LEMMA NewClient ==
    ASSUME Init
    PROVE  ProducerInv
<1>1. ProducerTypeOK
  <2>1. /\ conn \in Conn /\ despawned \in BOOLEAN /\ opTx \in BOOLEAN
        /\ sequence \in Nat /\ faults \in Nat
    BY DEF Init, Conn
  <2>2. /\ ops \in Seq(Message) /\ out \in Seq(Message)
        /\ accepted \in Seq(Message) /\ wire \in Seq(Message)
    BY EmptySeq DEF Init
  <2>3. task \in [sender : {"none", "run", "done"}, operation : {"none", "start", "run", "done"},
                  heartbeat : {"none", "run", "done"}]
    BY DEF Init
  <2> QED
    BY <2>1, <2>2, <2>3 DEF ProducerTypeOK
<1>2. Lived
  BY DEF Init, Lived
<1>3. StopsLast
  BY DEF Init, StopsLast
<1>4. Flows
  <2>1. Waiting(<<>>) = <<>> /\ Aircraft(<<>>) = <<>>
    BY BesidesEmpty DEF Waiting, Aircraft
  <2>2. ToSpawn = <<>>
    BY DEF Init, ToSpawn
  <2>3. <<>> \o (<<>> \o (<<>> \o <<>>)) = <<>>
    OBVIOUS
  <2>4. /\ accepted = <<>> /\ wire = <<>> /\ out = <<>> /\ ops = <<>> /\ task.sender = "none"
    BY DEF Init
  <2> QED
    BY <2>1, <2>2, <2>3, <2>4 DEF Flows
<1>5. Counted
  <2>1. Of("telemetry", <<>>) = {} /\ Of("despawn", <<>>) = {}
    BY DEF Of
  <2>2. Cardinality({}) = 0
    BY FS_EmptySet
  <2>3. accepted = <<>> /\ sequence = 0 /\ despawned = FALSE
    BY DEF Init
  <2> QED
    BY <2>1, <2>2, <2>3 DEF Counted
<1> QED
  BY <1>1, <1>2, <1>3, <1>4, <1>5 DEF ProducerInv

(***************************************************************************)
(* The inductive invariant of the producer's client, for every number of   *)
(* calls, heartbeats and failing sends: what the caller was told is under  *)
(* way is, in its order, what was written and what waits (client.rs).      *)
(***************************************************************************)
THEOREM ProducerInvariant == Spec => []ProducerInv
<1>1. Init => ProducerInv
  BY NewClient
<1>2. ProducerInv /\ [Next]_vars => ProducerInv'
  <2> SUFFICES ASSUME ProducerInv, [Next]_vars PROVE ProducerInv'
    OBVIOUS
  <2>1. CASE \/ \E good \in BOOLEAN : New(good) \/ Connect(good)
             \/ \E reply \in {"ack", "error", "other", "timeout"} : Established(reply)
    BY <2>1, ConnectKeeps
  <2>2. CASE Call
    BY <2>2, CallKeeps
  <2>3. CASE Close
    BY <2>3, CloseKeeps
  <2>4. CASE Join \/ Drop
    BY <2>4, LeaveKeeps
  <2>5. CASE OperationStart \/ OperationStep \/ OperationEnd
    BY <2>5, OperationKeeps
  <2>6. CASE HeartbeatTick \/ HeartbeatStop
    BY <2>6, HeartbeatKeeps
  <2>7. CASE SenderStep \/ SenderFails \/ SenderEnd
    BY <2>7, SenderKeeps
  <2>8. CASE UNCHANGED vars
    <3>1. ProducerTypeOK' /\ Lived'
      BY <2>8 DEF vars, ProducerInv, ProducerTypeOK, Lived
    <3>2. StopsLast' /\ Counted'
      BY <2>8 DEF vars, ProducerInv, StopsLast, Counted
    <3>3. Flows'
      BY <2>8 DEF vars, ProducerInv, Flows, ToSpawn
    <3> QED
      BY <3>1, <3>2, <3>3 DEF ProducerInv
  <2> QED
    BY <2>1, <2>2, <2>3, <2>4, <2>5, <2>6, <2>7, <2>8 DEF Next, Tasks
<1> QED
  BY <1>1, <1>2, PTL DEF Spec

(***************************************************************************)
(* The aircraft's messages leave in the order of the calls, the spawn      *)
(* first, each at most once, telemetry numbered without a gap: two tasks   *)
(* and three queues neither reorder nor repeat (client.rs).                *)
(***************************************************************************)
THEOREM MessagesInOrder == Spec => []SentInOrder
<1>1. ProducerInv => SentInOrder
  <2> SUFFICES ASSUME ProducerInv PROVE SentInOrder
    OBVIOUS
  <2>1. IsPrefix(Aircraft(wire), accepted)
    <3>1. CASE task.sender = "done"
      BY <3>1 DEF ProducerInv, Flows
    <3>2. CASE task.sender # "done"
      <4>1. accepted = Aircraft(wire) \o (Waiting(out) \o (ToSpawn \o Waiting(ops)))
        BY <3>2 DEF ProducerInv, Flows
      <4> DEFINE rest == Waiting(out) \o (ToSpawn \o Waiting(ops))
      <4>2. Aircraft(wire) \in Seq(Message) /\ rest \in Seq(Message)
        <5>1. ToSpawn \in Seq(Message)
          BY Kinds DEF ToSpawn
        <5>2. /\ Aircraft(wire) \in Seq(Message) /\ Waiting(out) \in Seq(Message)
              /\ Waiting(ops) \in Seq(Message)
          BY Queues DEF ProducerInv, ProducerTypeOK
        <5> QED
          BY <5>1, <5>2, ConcatProperties
      <4> HIDE DEF rest
      <4>3. IsPrefix(Aircraft(wire), Aircraft(wire) \o rest)
        BY <4>2, PrefixConcat
      <4> QED
        BY <4>1, <4>3 DEF rest
    <3> QED
      BY <3>1, <3>2
  <2>2. \A i \in Of("telemetry", accepted) :
          accepted[i].seq = Cardinality({j \in Of("telemetry", accepted) : j <= i})
    BY DEF ProducerInv, Counted
  <2>3. wire # <<>> => wire[1].kind = "handshake"
    <3>1. CASE task.sender = "none"
      <4>1. Msg("handshake").kind = "handshake"
        BY Kinds
      <4>2. wire = <<>> \/ wire = <<Msg("handshake")>>
        BY <3>1 DEF ProducerInv, Lived
      <4> QED
        BY <4>1, <4>2
    <3>2. CASE task.sender # "none"
      BY <3>2 DEF ProducerInv, Lived
    <3> QED
      BY <3>1, <3>2
  <2> QED
    BY <2>1, <2>2, <2>3 DEF SentInOrder
<1> QED
  BY <1>1, ProducerInvariant, PTL

(***************************************************************************)
(* When close has returned and no send failed, everything the caller was   *)
(* told is under way has been written, with one despawn, no matter how the *)
(* shutdown overtook or was overtaken by heartbeats (close).               *)
(***************************************************************************)
THEOREM CloseDelivers == Spec => []ClosedDelivered
<1>1. ProducerInv => ClosedDelivered
  <2> SUFFICES ASSUME ProducerInv, conn = "closed", faults = 0
               PROVE  /\ Aircraft(wire) = accepted
                      /\ Cardinality(Of("despawn", Aircraft(wire))) = 1
    BY DEF ClosedDelivered
  <2>1. task.sender = "done" /\ despawned = TRUE
    BY DEF ProducerInv, Lived
  <2>2. Aircraft(wire) = accepted
    BY <2>1 DEF ProducerInv, Flows
  <2>3. Cardinality(Of("despawn", accepted)) = 1
    BY <2>1 DEF ProducerInv, Counted
  <2> QED
    BY <2>2, <2>3
<1> QED
  BY <1>1, ProducerInvariant, PTL
===============================================================================
