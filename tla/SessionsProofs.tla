----------------------------- MODULE SessionsProofs -----------------------------
(***************************************************************************)
(* The session tables agree, for any number of clients and addresses and   *)
(* any number of requests in flight.                                       *)
(***************************************************************************)
EXTENDS Sessions, TLAPS

Looping == [pc : {"collect", "purge", "recv", "handle", "settle", "ended"},
            expired : SUBSET (Addrs \X Clients),
            msg : Request \cup {NoRequest}, refused : BOOLEAN]

Connecting == [pc : {"off", "shaking", "subscribing", "ready"},
               addr : Addrs \cup {None}]

(* The loop handles a request; a client that is not off has an address.    *)
Busy ==
    /\ loop.pc \in {"handle", "settle"} => loop.msg \in Request
    /\ \A u \in Clients : client[u].pc # "off" => client[u].addr \in Addrs

(* Between the halves of cleanup_expired no client that was found expired  *)
(* gets a session elsewhere.                                               *)
Doomed ==
    loop.pc = "purge" =>
        \A a, b \in Addrs, u \in Clients :
            <<a, u>> \in loop.expired /\ byAddr[b].uuid = u => b = a

TablesInv == TypeOK /\ Busy /\ Indexed /\ Doomed

(***************************************************************************)
(* A response goes to an address some client waits at.                     *)
(***************************************************************************)
LEMMA ReplyType ==
    ASSUME TypeOK, Busy, loop.pc \in {"handle", "settle"}, NEW ok \in BOOLEAN, Reply(ok)
    PROVE  answers' \subseteq Answer
<1>1. loop.msg.from \in Addrs
  BY DEF Busy, Request
<1> QED
  BY <1>1 DEF Reply, TypeOK, Answer

(***************************************************************************)
(* A request, sent or lost, is a request.                                  *)
(***************************************************************************)
LEMMA AskType ==
    ASSUME TypeOK, NEW u \in Clients, NEW a \in Addrs, NEW kind \in Kind, Ask(u, a, kind)
    PROVE  requests' \subseteq Request
BY DEF Ask, TypeOK, Request

(***************************************************************************)
(* The empty tables agree.                                                 *)
(***************************************************************************)
LEMMA TablesInit == Init => TablesInv
<1> SUFFICES ASSUME Init PROVE TablesInv
  OBVIOUS
<1>1. Idle \in Looping
  BY DEF Idle, Looping
<1>2. NoSession \in Session /\ Off \in Connecting
  BY DEF NoSession, Session, Off, Connecting
<1>3. TypeOK
  BY <1>1, <1>2 DEF Init, TypeOK, Looping, Connecting
<1>4. Busy /\ Doomed
  BY DEF Init, Busy, Doomed, Idle, Off
<1>5. Indexed
  BY SessionsAssumption DEF Init, Indexed, Live, NoSession
<1> QED
  BY <1>3, <1>4, <1>5 DEF TablesInv

(***************************************************************************)
(* The receive loop keeps the tables in agreement: set_session removes the *)
(* client's session at its previous address, and what Purge takes from one *)
(* table it takes from the other.                                          *)
(***************************************************************************)
LEMMA LoopStep ==
    ASSUME TablesInv,
           \/ Cleanup \/ ReceiveError \/ Handle
           \/ \E r \in requests, copied \in BOOLEAN : Receive(r, copied)
    PROVE  TablesInv'
<1> USE DEF tableVars, netVars
<1>0. TypeOK /\ Busy /\ Indexed /\ Doomed
  BY DEF TablesInv
<1>i. Idle \in Looping /\ Idle.pc = "collect"
  BY DEF Idle, Looping
<1>t. loop \in Looping /\ client \in [Clients -> Connecting]
  BY <1>0 DEF TypeOK, Looping, Connecting
<1>1. CASE Collect
  <2> DEFINE found == {<<a, byAddr[a].uuid>> : a \in {b \in quiet : Live(b)}}
  <2>1. found \subseteq Addrs \X Clients
    BY <1>0 DEF TypeOK, Session, Live
  <2>2. /\ loop' \in Looping /\ loop'.pc \in {"recv", "purge"} /\ loop'.expired = found
        /\ accepted' = {} /\ UNCHANGED <<tableVars, listed, client, netVars, shaken>>
    BY <1>1, <1>t, <2>1 DEF Collect, Looping
  <2>3. TypeOK'
    BY <1>0, <2>2 DEF TypeOK, Looping
  <2>4. Busy' /\ Indexed'
    BY <1>0, <2>2 DEF Busy, Indexed, Live
  <2>5. Doomed'
    <3> SUFFICES ASSUME NEW a \in Addrs, NEW b \in Addrs, NEW u \in Clients,
                        <<a, u>> \in loop'.expired, byAddr'[b].uuid = u
                 PROVE  b = a
      BY DEF Doomed
    <3>1. Live(a) /\ byAddr[a].uuid = u
      BY <2>2
    <3>2. Live(b) /\ byAddr[b].uuid = u
      BY <2>2, SessionsAssumption DEF Live
    <3> QED
      BY <1>0, <3>1, <3>2 DEF Indexed
  <2> QED
    BY <2>3, <2>4, <2>5 DEF TablesInv
<1>2. CASE Purge
  <2> DEFINE gone == {a \in Addrs : \E u \in Clients : <<a, u>> \in loop.expired}
  <2>1. /\ loop' \in Looping /\ loop'.pc = "recv"
        /\ byAddr' = [a \in Addrs |-> IF a \in gone THEN NoSession ELSE byAddr[a]]
        /\ byClientUuid' = [u \in Clients |->
                               IF \E a \in Addrs : <<a, u>> \in loop.expired THEN None
                               ELSE byClientUuid[u]]
        /\ quiet' = quiet \ gone
        /\ UNCHANGED <<listed, client, netVars, accepted, shaken>>
    BY <1>2, <1>t DEF Purge, Looping
  <2>2. TypeOK'
    BY <1>0, <2>1 DEF TypeOK, Looping, NoSession, Session
  <2>3. Busy' /\ Doomed'
    BY <1>0, <2>1 DEF Busy, Doomed
  <2>4. Indexed'
    <3> SUFFICES ASSUME NEW b \in Addrs, byAddr'[b].uuid # None
                 PROVE  byClientUuid'[byAddr'[b].uuid] = b
      BY DEF Indexed, Live
    <3>1. b \notin gone /\ byAddr'[b] = byAddr[b] /\ Live(b)
      BY <2>1 DEF NoSession, Live
    <3>2. byAddr[b].uuid \in Clients
      BY <1>0, <3>1 DEF TypeOK, Session, Live
    <3>3. ~\E a \in Addrs : <<a, byAddr[b].uuid>> \in loop.expired
      BY <1>0, <1>2, <3>1, <3>2 DEF Doomed, Purge
    <3> QED
      BY <1>0, <2>1, <3>1, <3>2, <3>3 DEF Indexed
  <2> QED
    BY <2>2, <2>3, <2>4 DEF TablesInv
<1>3. ASSUME NEW r \in requests, NEW copied \in BOOLEAN, Receive(r, copied)
      PROVE  TablesInv'
  <2>1. r \in Request
    BY <1>0 DEF TypeOK
  <2>2. /\ loop' \in Looping /\ loop'.pc = "handle" /\ loop'.msg = r
        /\ requests' \subseteq requests /\ quiet' \subseteq quiet
        /\ UNCHANGED <<byAddr, byClientUuid, listed, client, answers, accepted, shaken>>
    BY <1>3, <1>t, <2>1 DEF Receive, Looping
  <2>3. TypeOK'
    BY <1>0, <2>2 DEF TypeOK, Looping
  <2>4. Busy' /\ Indexed' /\ Doomed'
    BY <1>0, <2>1, <2>2 DEF Busy, Indexed, Live, Doomed
  <2> QED
    BY <2>3, <2>4 DEF TablesInv
<1>4. CASE ReceiveError
  <2>1. /\ loop' \in Looping /\ loop'.pc = "ended"
        /\ UNCHANGED <<tableVars, listed, client, netVars, accepted, shaken>>
    BY <1>4, <1>t DEF ReceiveError, Looping
  <2>2. TypeOK'
    BY <1>0, <2>1 DEF TypeOK, Looping
  <2>3. Busy' /\ Indexed' /\ Doomed'
    BY <1>0, <2>1 DEF Busy, Indexed, Live, Doomed
  <2> QED
    BY <2>2, <2>3 DEF TablesInv
<1>5. CASE HandleHandshake
  <2> DEFINE a == loop.msg.from
             u == loop.msg.uuid
  <2>1. a \in Addrs /\ u \in Clients
    BY <1>0, <1>5 DEF HandleHandshake, Busy, Request
  <2>2. answers' \subseteq Answer
    BY <1>0, <1>5, ReplyType DEF HandleHandshake
  <2>3. [uuid |-> u, subscribed |-> FALSE] \in Session /\ NoSession \in Session
    BY <2>1 DEF Session, NoSession
  <2>4. /\ byClientUuid' = [byClientUuid EXCEPT ![u] = a]
        /\ byAddr' = [b \in Addrs |->
                         IF b = a THEN [uuid |-> u, subscribed |-> FALSE]
                         ELSE IF b = byClientUuid[u] THEN NoSession ELSE byAddr[b]]
        /\ quiet' \subseteq quiet
    BY <1>5 DEF HandleHandshake, SetSession
  <2>5. shaken' \in [Subscribers -> 0..2]
    BY <1>0, <1>5 DEF HandleHandshake, TypeOK
  <2>6. loop' = Idle /\ UNCHANGED <<listed, client, requests, accepted>>
    BY <1>5 DEF HandleHandshake
  <2>7. TypeOK'
    <3>1. byAddr' \in [Addrs -> Session]
      BY <1>0, <2>3, <2>4 DEF TypeOK
    <3>2. byClientUuid' \in [Clients -> Addrs \cup {None}]
      BY <1>0, <2>1, <2>4 DEF TypeOK
    <3> QED
      BY <1>0, <1>i, <2>2, <2>4, <2>5, <2>6, <3>1, <3>2 DEF TypeOK, Looping
  <2>8. Busy' /\ Doomed'
    BY <1>0, <1>i, <2>6 DEF Busy, Doomed
  <2>9. Indexed'
    <3> SUFFICES ASSUME NEW b \in Addrs, byAddr'[b].uuid # None
                 PROVE  byClientUuid'[byAddr'[b].uuid] = b
      BY DEF Indexed, Live
    <3>1. CASE b = a
      BY <1>0, <2>1, <2>4, <3>1 DEF TypeOK
    <3>2. CASE b # a
      <4>1. b # byClientUuid[u] /\ byAddr'[b] = byAddr[b] /\ Live(b)
        BY <2>4, <3>2 DEF NoSession, Live
      <4>2. byAddr[b].uuid \in Clients /\ byClientUuid[byAddr[b].uuid] = b
        BY <1>0, <4>1 DEF TypeOK, Session, Indexed, Live
      <4>3. byAddr[b].uuid # u
        BY <4>1, <4>2
      <4> QED
        BY <1>0, <2>4, <4>1, <4>2, <4>3 DEF TypeOK
    <3> QED
      BY <3>1, <3>2
  <2> QED
    BY <2>7, <2>8, <2>9 DEF TablesInv
<1>6. CASE HandleHeartbeat
  <2>1. answers' \subseteq Answer
    BY <1>0, <1>6, ReplyType DEF HandleHeartbeat
  <2>2. loop' = Idle /\ UNCHANGED <<tableVars, listed, client, requests, accepted, shaken>>
    BY <1>6 DEF HandleHeartbeat
  <2>3. TypeOK'
    BY <1>0, <1>i, <2>1, <2>2 DEF TypeOK, Looping
  <2>4. Busy' /\ Indexed' /\ Doomed'
    BY <1>0, <1>i, <2>2 DEF Busy, Indexed, Live, Doomed
  <2> QED
    BY <2>3, <2>4 DEF TablesInv
<1>7. CASE HandleSubscribe
  <2>1. answers' \subseteq Answer
    BY <1>0, <1>7, ReplyType DEF HandleSubscribe
  <2>2. /\ loop' = Idle
        /\ UNCHANGED <<byClientUuid, quiet, listed, client, requests, accepted, shaken>>
    BY <1>7 DEF HandleSubscribe
  <2>3. /\ byAddr' \in [Addrs -> Session]
        /\ \A b \in Addrs : byAddr'[b].uuid = byAddr[b].uuid
    <3>1. loop.msg.from \in Addrs
      BY <1>0, <1>7 DEF HandleSubscribe, Busy, Request
    <3>2. CASE UNCHANGED byAddr
      BY <1>0, <3>2 DEF TypeOK
    <3>3. CASE SubscribeCursor(loop.msg.from)
      <4>1. \A s \in Session : /\ [s EXCEPT !.subscribed = TRUE] \in Session
                              /\ [s EXCEPT !.subscribed = TRUE].uuid = s.uuid
        BY DEF Session
      <4>2. byAddr' = [byAddr EXCEPT ![loop.msg.from] = [@ EXCEPT !.subscribed = TRUE]]
        BY <3>3 DEF SubscribeCursor
      <4> QED
        BY <1>0, <3>1, <4>1, <4>2 DEF TypeOK
    <3> QED
      BY <1>7, <3>2, <3>3 DEF HandleSubscribe
  <2>4. TypeOK'
    BY <1>0, <1>i, <2>1, <2>2, <2>3 DEF TypeOK, Looping
  <2>5. Busy' /\ Doomed'
    BY <1>0, <1>i, <2>2 DEF Busy, Doomed
  <2>6. Indexed'
    BY <1>0, <2>2, <2>3 DEF Indexed, Live
  <2> QED
    BY <2>4, <2>5, <2>6 DEF TablesInv
<1>8. CASE HandleUpload
  <2>1. answers' \subseteq Answer
    BY <1>0, <1>8, ReplyType DEF HandleUpload, TypeOK
  <2>2. /\ loop' \in Looping /\ loop'.pc = "settle" /\ loop'.msg = loop.msg
        /\ UNCHANGED <<tableVars, listed, client, requests, accepted, shaken>>
    BY <1>8, <1>t DEF HandleUpload, Looping
  <2>3. TypeOK'
    BY <1>0, <2>1, <2>2 DEF TypeOK, Looping
  <2>4. Busy' /\ Indexed' /\ Doomed'
    BY <1>0, <1>8, <2>2 DEF HandleUpload, Busy, Indexed, Live, Doomed
  <2> QED
    BY <2>3, <2>4 DEF TablesInv
<1>9. CASE Settle
  <2>1. loop.msg.uuid \in Clients
    BY <1>0, <1>9 DEF Settle, Busy, Request
  <2>2. loop' = Idle /\ UNCHANGED <<tableVars, listed, client, netVars, shaken>>
    BY <1>9 DEF Settle
  <2>3. accepted' \subseteq Clients
    BY <1>0, <1>9, <2>1 DEF Settle, TypeOK
  <2>4. TypeOK'
    BY <1>0, <1>i, <2>2, <2>3 DEF TypeOK, Looping
  <2>5. Busy' /\ Indexed' /\ Doomed'
    BY <1>0, <1>i, <2>2 DEF Busy, Indexed, Live, Doomed
  <2> QED
    BY <2>4, <2>5 DEF TablesInv
<1> QED
  BY <1>1, <1>2, <1>3, <1>4, <1>5, <1>6, <1>7, <1>8, <1>9 DEF Cleanup, Handle

(***************************************************************************)
(* The publisher's eviction takes a session out of both tables, and time   *)
(* passing takes none.                                                     *)
(***************************************************************************)
LEMMA PublisherStep ==
    ASSUME TablesInv, Publisher \/ \E a \in Addrs : GoQuiet(a)
    PROVE  TablesInv'
<1> USE DEF tableVars, netVars
<1>0. TypeOK /\ Busy /\ Indexed /\ Doomed
  BY DEF TablesInv
<1>1. ASSUME \/ ListSessions
             \/ \E a \in listed : Serve(a)
             \/ \E a \in Addrs : GoQuiet(a)
      PROVE  TablesInv'
  <2>1. /\ listed' \subseteq Addrs /\ quiet' \subseteq Addrs
        /\ UNCHANGED <<byAddr, byClientUuid, loop, client, netVars, accepted, shaken>>
    BY <1>0, <1>1 DEF ListSessions, Serve, GoQuiet, TypeOK
  <2>2. TypeOK'
    BY <1>0, <2>1 DEF TypeOK
  <2>3. Busy' /\ Indexed' /\ Doomed'
    BY <1>0, <2>1 DEF Busy, Indexed, Live, Doomed
  <2> QED
    BY <2>2, <2>3 DEF TablesInv
<1>2. ASSUME NEW a \in listed, Evict(a) PROVE TablesInv'
  <2>1. a \in Addrs /\ NoSession \in Session /\ NoSession.uuid = None
    BY <1>0 DEF TypeOK, NoSession, Session
  <2>2. /\ listed' \subseteq listed /\ quiet' \subseteq quiet
        /\ UNCHANGED <<loop, client, netVars, accepted, shaken>>
        /\ byAddr' = [byAddr EXCEPT ![a] = NoSession]
    BY <1>2 DEF Evict
  <2>3. /\ byClientUuid' \in [Clients -> Addrs \cup {None}]
        /\ \A u \in Clients : byAddr[a].uuid # u => byClientUuid'[u] = byClientUuid[u]
    BY <1>0, <1>2, <2>1 DEF Evict, TypeOK, Session, Live
  <2>4. TypeOK'
    BY <1>0, <2>1, <2>2, <2>3 DEF TypeOK
  <2>5. Busy'
    BY <1>0, <2>2 DEF Busy
  <2>6. \A b \in Addrs : byAddr'[b] = IF b = a THEN NoSession ELSE byAddr[b]
    BY <1>0, <2>2 DEF TypeOK
  <2>7. Doomed'
    BY <1>0, <2>1, <2>2, <2>6, SessionsAssumption DEF Doomed
  <2>8. Indexed'
    <3> SUFFICES ASSUME NEW b \in Addrs, byAddr'[b].uuid # None
                 PROVE  byClientUuid'[byAddr'[b].uuid] = b
      BY DEF Indexed, Live
    <3>1. b # a /\ byAddr'[b] = byAddr[b] /\ Live(b)
      BY <2>1, <2>6 DEF Live
    <3>2. byAddr[b].uuid \in Clients /\ byClientUuid[byAddr[b].uuid] = b
      BY <1>0, <3>1 DEF TypeOK, Session, Indexed, Live
    <3>3. byAddr[a].uuid # byAddr[b].uuid
      BY <1>0, <2>1, <3>1, <3>2 DEF Indexed, Live
    <3> QED
      BY <2>3, <3>1, <3>2, <3>3
  <2> QED
    BY <2>4, <2>5, <2>7, <2>8 DEF TablesInv
<1> QED
  BY <1>1, <1>2 DEF Publisher

(***************************************************************************)
(* Clients do not touch the tables.                                        *)
(***************************************************************************)
LEMMA ClientKeeps ==
    ASSUME TablesInv, NEW u \in Clients, ClientStep(u)
    PROVE  TablesInv'
<1> USE DEF tableVars, netVars
<1>0. TypeOK /\ Busy /\ Indexed /\ Doomed
  BY DEF TablesInv
<1>t. client \in [Clients -> Connecting] /\ Off \in Connecting /\ Off.pc = "off"
  BY <1>0 DEF TypeOK, Connecting, Off
<1>k. {"handshake", "subscribe", "heartbeat", "upload"} \subseteq Kind
  BY DEF Kind
<1> DEFINE Kept ==
      /\ client' \in [Clients -> Connecting]
      /\ \A v \in Clients : client'[v].pc # "off" => client'[v].addr \in Addrs
      /\ requests' \subseteq Request /\ answers' \subseteq Answer
      /\ UNCHANGED <<tableVars, loop, listed, accepted, shaken>>
<1>1. ASSUME NEW a \in Addrs, Connect(u, a) PROVE Kept
  <2>1. requests' \subseteq Request
    BY <1>0, <1>1, <1>k, AskType DEF Connect
  <2>2. [pc |-> "shaking", addr |-> a] \in Connecting
    BY DEF Connecting
  <2> QED
    BY <1>0, <1>1, <1>t, <2>1, <2>2 DEF Connect, TypeOK, Busy
<1>2. ASSUME NEW r \in answers, GetAnswer(u, r) PROVE Kept
  <2>1. r.to \in Addrs /\ client[u].addr \in Addrs
    BY <1>0, <1>2 DEF GetAnswer, TypeOK, Answer, Busy
  <2>2. requests' \subseteq Request
    BY <1>0, <1>2, <1>k, <2>1, AskType DEF GetAnswer, TypeOK
  <2>3. client' \in [Clients -> Connecting]
    BY <1>2, <1>t DEF GetAnswer, Connecting
  <2>4. \A v \in Clients : client'[v].pc # "off" => client'[v].addr \in Addrs
    BY <1>0, <1>2, <1>t, <2>1 DEF GetAnswer, Busy, Connecting
  <2>5. answers' \subseteq Answer /\ UNCHANGED <<tableVars, loop, listed, accepted, shaken>>
    BY <1>0, <1>2 DEF GetAnswer, TypeOK
  <2> QED
    BY <2>2, <2>3, <2>4, <2>5
<1>3. ASSUME NEW kind \in {"heartbeat", "upload"}, Speak(u, kind) PROVE Kept
  <2>1. client[u].addr \in Addrs
    BY <1>0, <1>3 DEF Speak, Busy
  <2>2. requests' \subseteq Request
    BY <1>0, <1>3, <1>k, <2>1 DEF Speak, TypeOK, Request
  <2> QED
    BY <1>0, <1>3, <1>t, <2>2 DEF Speak, TypeOK, Busy
<1>4. ASSUME Close(u) PROVE Kept
  BY <1>0, <1>4, <1>t DEF Close, TypeOK, Busy
<1>5. Kept
  BY <1>1, <1>2, <1>3, <1>4 DEF ClientStep
<1>6. TypeOK'
  BY <1>0, <1>5 DEF TypeOK, Connecting
<1>7. Busy' /\ Indexed' /\ Doomed'
  BY <1>0, <1>5 DEF Busy, Indexed, Live, Doomed
<1> QED
  BY <1>6, <1>7 DEF TablesInv

(***************************************************************************)
(* The invariant holds in every reachable state.                           *)
(***************************************************************************)
THEOREM TablesInvariant == Spec => []TablesInv
<1>1. TablesInv /\ [Next]_vars => TablesInv'
  <2> SUFFICES ASSUME TablesInv, [Next]_vars PROVE TablesInv'
    OBVIOUS
  <2>1. CASE Next
    BY <2>1, LoopStep, PublisherStep, ClientKeeps DEF Next
  <2>2. CASE UNCHANGED vars
    BY <2>2 DEF vars, tableVars, netVars, TablesInv, TypeOK, Busy, Indexed, Live, Doomed
  <2> QED
    BY <2>1, <2>2
<1> QED
  BY TablesInit, <1>1, PTL DEF Spec

(***************************************************************************)
(* Type correctness of the tables, the loop and the clients.               *)
(***************************************************************************)
THEOREM SessionsTypeCorrect == Spec => []TypeOK
<1>1. TablesInv => TypeOK
  BY DEF TablesInv
<1> QED
  BY <1>1, TablesInvariant, PTL

(***************************************************************************)
(* by_addr and by_client_uuid agree on every session (Indexed), whatever   *)
(* handshakes, expiry and eviction do between the locks.                   *)
(***************************************************************************)
THEOREM TablesAgree == Spec => []Indexed
<1>1. TablesInv => Indexed
  BY DEF TablesInv
<1> QED
  BY <1>1, TablesInvariant, PTL

-------------------------------------------------------------------------------
(***************************************************************************)
(* Who an address belongs to.  A datagram under way was sent by the client *)
(* that has, or had, its source address, and no two of one address are of  *)
(* different clients; past its handshake a client finds no one else's      *)
(* session at its address, and neither does anything it has sent since or  *)
(* an answer on its way to it.                                             *)
(***************************************************************************)
Underway == requests \cup {loop.msg}

Mine(a, u) == byAddr[a].uuid \in {None, u}

Owners ==
    /\ loop.pc = "settle" => loop.msg.kind = "upload"
    /\ \A u \in Clients : client[u].pc = "off" => client[u].addr = None
    /\ \A u, v \in Clients : u # v => client[u].addr = None \/ client[u].addr # client[v].addr
    /\ \A r \in Underway, u \in Clients :
          r.from \in Addrs /\ client[u].addr = r.from => r.uuid = u
    /\ \A r, q \in Underway : r.from = q.from => r.uuid = q.uuid
    /\ \A r \in Underway :
          r.kind \in {"subscribe", "heartbeat", "upload"} => Mine(r.from, r.uuid)
    /\ \A u \in Clients :
          client[u].pc \in {"subscribing", "ready"} => Mine(client[u].addr, u)
    /\ \A x \in answers : \E u \in Clients : client[u].addr = x.to /\ Mine(x.to, u)

(* A client has sent no more than the step of connect() it has come to.    *)
Paced ==
    \A u \in Clients, r \in Underway : client[u].addr = r.from /\ r.from \in Addrs =>
        /\ client[u].pc = "shaking" => r.kind = "handshake"
        /\ client[u].pc = "subscribing" => r.kind \in {"handshake", "subscribe"}

SubOk(u) ==
    LET s == byAddr[client[u].addr] IN s.uuid = None \/ (s.uuid = u /\ s.subscribed)

(* What the answers to a subscriber mean, as long as its handshake was     *)
(* handled at most once.                                                   *)
Confirmed ==
    \A u \in Subscribers :
        /\ shaken[u] = 0 => /\ client[u].pc \in {"off", "shaking"}
                            /\ \A x \in answers : x.to # client[u].addr
        /\ shaken[u] = 1 /\ client[u].pc = "subscribing"
             /\ (\E x \in answers : x.ok /\ x.to = client[u].addr) => SubOk(u)
        /\ shaken[u] = 1 /\ client[u].pc = "ready" => SubOk(u)

ClientsInv == TablesInv /\ Owners /\ Paced /\ Confirmed /\ OnlyProducersUpload

(***************************************************************************)
(* What is under way comes from an address, except for nothing at all.     *)
(***************************************************************************)
LEMMA UnderwayType ==
    ASSUME TablesInv
    PROVE  /\ Underway \subseteq Request \cup {NoRequest}
           /\ \A r \in Underway : r.kind # "none" =>
                 r \in Request /\ r.from \in Addrs /\ r.uuid \in Clients
           /\ NoRequest.kind = "none" /\ NoRequest.from = None
           /\ \A u \in Clients : client[u].pc # "off" => client[u].addr \in Addrs
           /\ \A x \in answers : x.to \in Addrs
           /\ None \notin Addrs /\ None \notin Clients /\ Subscribers \subseteq Clients
<1>1. TypeOK /\ Busy
  BY DEF TablesInv
<1>2. Underway \subseteq Request \cup {NoRequest}
  BY <1>1 DEF TypeOK, Underway
<1>3. NoRequest.kind = "none" /\ NoRequest.from = None
  BY DEF NoRequest
<1>4. \A r \in Underway : r.kind # "none" => r \in Request
  BY <1>2, <1>3
<1>5. \A r \in Request : r.from \in Addrs /\ r.uuid \in Clients
  BY DEF Request
<1>6. \A x \in answers : x.to \in Addrs
  BY <1>1 DEF TypeOK, Answer
<1> QED
  BY <1>1, <1>2, <1>3, <1>4, <1>5, <1>6, SessionsAssumption DEF Busy

(***************************************************************************)
(* At the start nobody has an address.                                     *)
(***************************************************************************)
LEMMA ClientsInit == Init => ClientsInv
<1> SUFFICES ASSUME Init PROVE ClientsInv
  OBVIOUS
<1>1. TablesInv
  BY TablesInit
<1>2. Underway = {NoRequest} /\ loop.pc = "collect"
  BY DEF Init, Underway, Idle
<1>3. \A u \in Clients : client[u].pc = "off" /\ client[u].addr = None
  BY DEF Init, Off
<1>4. answers = {} /\ accepted = {}
  BY DEF Init
<1>5. Owners
  BY <1>2, <1>3, <1>4, SessionsAssumption DEF Owners, NoRequest
<1>6. Paced
  BY <1>2, SessionsAssumption DEF Paced, NoRequest
<1>7. Confirmed /\ OnlyProducersUpload
  BY <1>3, <1>4, SessionsAssumption DEF Confirmed, OnlyProducersUpload
<1> QED
  BY <1>1, <1>5, <1>6, <1>7 DEF ClientsInv

(***************************************************************************)
(* Taking sessions out of the table, and datagrams off the network, costs  *)
(* nobody the address.                                                     *)
(***************************************************************************)
LEMMA TakingAway ==
    ASSUME ClientsInv, TablesInv',
           Underway' \subseteq Underway \cup {NoRequest},
           UNCHANGED <<client, answers, shaken>>,
           \A a \in Addrs : byAddr'[a] \in {byAddr[a], NoSession},
           loop'.pc # "settle", OnlyProducersUpload'
    PROVE  ClientsInv'
<1>0. TablesInv /\ Owners /\ Paced /\ Confirmed
  BY DEF ClientsInv
<1>1. /\ \A r \in Underway : r.kind # "none" =>
             r \in Request /\ r.from \in Addrs /\ r.uuid \in Clients
      /\ NoRequest.kind = "none" /\ NoRequest.from = None
      /\ \A u \in Clients : client[u].pc # "off" => client[u].addr \in Addrs
      /\ \A x \in answers : x.to \in Addrs
      /\ None \notin Addrs /\ Subscribers \subseteq Clients
  BY <1>0, UnderwayType
<1>2. \A a \in Addrs, u \in Clients : Mine(a, u) => Mine(a, u)'
  BY DEF Mine, NoSession
<1>3. \A r \in Underway' : r \in Underway \/ r = NoRequest
  OBVIOUS
<1>4. \A r, q \in Underway' : r.from = q.from => r.uuid = q.uuid
  <2> SUFFICES ASSUME NEW r \in Underway', NEW q \in Underway', r.from = q.from
               PROVE  r.uuid = q.uuid
    OBVIOUS
  <2>1. CASE r \in Underway /\ q \in Underway
    BY <1>0, <2>1 DEF Owners
  <2>2. CASE r = NoRequest \/ q = NoRequest
    <3>1. r.from = None /\ q.from = None
      BY <1>1, <2>2
    <3>2. \A z \in Underway' : z.from = None => z = NoRequest
      <4>1. \A z \in Underway' : z \in Request \/ z = NoRequest
        BY <1>0, <1>3, UnderwayType
      <4>2. \A z \in Request : z.from # None
        BY <1>1 DEF Request
      <4> QED
        BY <4>1, <4>2
    <3> QED
      BY <3>1, <3>2
  <2> QED
    BY <1>3, <2>1, <2>2
<1>5. \A r \in Underway' : r.kind \in {"subscribe", "heartbeat", "upload"} => Mine(r.from, r.uuid)'
  BY <1>0, <1>1, <1>2, <1>3 DEF Owners
<1>6. \A u \in Clients :
          client'[u].pc \in {"subscribing", "ready"} => Mine(client[u].addr, u)'
  BY <1>0, <1>1, <1>2 DEF Owners
<1>7. \A x \in answers' : \E u \in Clients : client'[u].addr = x.to /\ Mine(x.to, u)'
  BY <1>0, <1>1, <1>2 DEF Owners
<1>8. \A r \in Underway', u \in Clients :
          r.from \in Addrs /\ client'[u].addr = r.from => r.uuid = u
  BY <1>0, <1>1, <1>3 DEF Owners
<1>9. Owners'
  BY <1>0, <1>4, <1>5, <1>6, <1>7, <1>8 DEF Owners
<1>10. Paced'
  BY <1>0, <1>1, <1>3 DEF Paced
<1>11. \A u \in Subscribers : client[u].pc # "off" /\ SubOk(u) => SubOk(u)'
  BY <1>1 DEF SubOk, NoSession
<1>12. Confirmed'
  BY <1>0, <1>11 DEF Confirmed
<1> QED
  BY <1>9, <1>10, <1>12 DEF ClientsInv

(***************************************************************************)
(* A response goes to the client that waits at the request's address.      *)
(***************************************************************************)
Replied(ok) ==
    \A x \in answers' : x \in answers \/
        /\ x.to = loop.msg.from /\ x.ok = ok
        /\ \E u \in Clients : client[u].addr = x.to /\ client[u].pc \in {"shaking", "subscribing"}

(***************************************************************************)
(* Reply does just that.                                                   *)
(***************************************************************************)
LEMMA ReplyReplies ==
    ASSUME NEW ok \in BOOLEAN, Reply(ok)
    PROVE  Replied(ok)
<1> DEFINE W == {loop.msg.from} \cap {client[u].addr : u \in {v \in Clients :
                        client[v].pc \in {"shaking", "subscribing"}}}
<1>1. \A x \in answers' : x \in answers \/ \E a \in W : x = [to |-> a, ok |-> ok]
  BY DEF Reply
<1>2. \A a \in W : /\ a = loop.msg.from
                   /\ \E u \in Clients : client[u].addr = a /\ client[u].pc \in {"shaking", "subscribing"}
  OBVIOUS
<1> HIDE DEF W
<1>3. \A a : [to |-> a, ok |-> ok].to = a /\ [to |-> a, ok |-> ok].ok = ok
  OBVIOUS
<1> QED
  BY <1>1, <1>2, <1>3 DEF Replied

(***************************************************************************)
(* Whatever the loop does for a message, only the sender's session at its  *)
(* address can be the result, and only the sender's client hears of it.    *)
(***************************************************************************)
LEMMA HandlingOwners ==
    ASSUME ClientsInv, TablesInv', loop.msg \in Request,
           UNCHANGED <<client, requests>>,
           loop'.msg \in {loop.msg, NoRequest},
           loop'.pc = "settle" => loop'.msg.kind = "upload",
           \A a \in Addrs : a # loop.msg.from => byAddr'[a].uuid \in {byAddr[a].uuid, None},
           byAddr'[loop.msg.from].uuid \in {None, loop.msg.uuid},
           NEW ok \in BOOLEAN, Replied(ok)
    PROVE  Owners' /\ Paced'
<1> DEFINE m == loop.msg
<1>0. TablesInv /\ Owners /\ Paced
  BY DEF ClientsInv
<1>1. /\ Underway \subseteq Request \cup {NoRequest}
      /\ \A r \in Underway : r.kind # "none" =>
             r \in Request /\ r.from \in Addrs /\ r.uuid \in Clients
      /\ NoRequest.kind = "none" /\ NoRequest.from = None
      /\ \A u \in Clients : client[u].pc # "off" => client[u].addr \in Addrs
      /\ \A x \in answers : x.to \in Addrs
      /\ None \notin Addrs /\ Subscribers \subseteq Clients
  BY <1>0, UnderwayType
<1>m. m \in Underway /\ m.from \in Addrs /\ m.uuid \in Clients
  BY DEF Underway, Request
<1>o. \A u \in Clients : client[u].addr = m.from => u = m.uuid
  BY <1>0, <1>m DEF Owners
<1>2. \A a \in Addrs, u \in Clients :
         Mine(a, u) /\ (a = m.from => u = m.uuid) => Mine(a, u)'
  BY DEF Mine
<1>3. \A r \in Underway' : r \in Underway \/ r = NoRequest
  BY DEF Underway
<1>4. \A r, q \in Underway' : r.from = q.from => r.uuid = q.uuid
  <2> SUFFICES ASSUME NEW r \in Underway', NEW q \in Underway', r.from = q.from
               PROVE  r.uuid = q.uuid
    OBVIOUS
  <2>1. CASE r \in Underway /\ q \in Underway
    BY <1>0, <2>1 DEF Owners
  <2>2. CASE r = NoRequest \/ q = NoRequest
    <3>1. r.from = None /\ q.from = None
      BY <1>1, <2>2
    <3>2. \A z \in Underway' : z.from = None => z = NoRequest
      <4>1. \A z \in Underway' : z \in Request \/ z = NoRequest
        BY <1>1, <1>3
      <4>2. \A z \in Request : z.from # None
        BY <1>1 DEF Request
      <4> QED
        BY <4>1, <4>2
    <3> QED
      BY <3>1, <3>2
  <2> QED
    BY <1>3, <2>1, <2>2
<1>5. ASSUME NEW r \in Underway', r.kind \in {"subscribe", "heartbeat", "upload"}
      PROVE  Mine(r.from, r.uuid)'
  <2>1. r \in Underway /\ r.from \in Addrs /\ r.uuid \in Clients
    BY <1>1, <1>3, <1>5
  <2>2. Mine(r.from, r.uuid)
    BY <1>0, <1>5, <2>1 DEF Owners
  <2>3. r.from = m.from => r.uuid = m.uuid
    BY <1>0, <1>m, <2>1 DEF Owners
  <2> QED
    BY <1>2, <2>1, <2>2, <2>3
<1>6. ASSUME NEW u \in Clients, client[u].pc \in {"subscribing", "ready"}
      PROVE  Mine(client[u].addr, u)'
  <2>1. Mine(client[u].addr, u) /\ client[u].addr \in Addrs
    BY <1>0, <1>1, <1>6 DEF Owners
  <2> QED
    BY <1>2, <1>o, <2>1
<1>7. ASSUME NEW x \in answers'
      PROVE  \E u \in Clients : client[u].addr = x.to /\ Mine(x.to, u)'
  <2>1. CASE x \in answers
    <3>1. PICK u \in Clients : client[u].addr = x.to /\ Mine(x.to, u)
      BY <1>0, <2>1 DEF Owners
    <3>2. Mine(x.to, u)'
      BY <1>1, <1>2, <1>o, <2>1, <3>1
    <3> QED
      BY <3>1, <3>2
  <2>2. CASE x.to = m.from /\ \E u \in Clients : client[u].addr = x.to
    <3>1. client[m.uuid].addr = x.to
      BY <1>o, <2>2
    <3>2. byAddr'[x.to].uuid \in {None, m.uuid}
      BY <2>2
    <3> HIDE DEF m
    <3> QED
      BY <1>m, <3>1, <3>2 DEF Mine
  <2> QED
    BY <2>1, <2>2 DEF Replied
<1>8. \A r \in Underway', u \in Clients :
          r.from \in Addrs /\ client'[u].addr = r.from => r.uuid = u
  BY <1>0, <1>1, <1>3 DEF Owners
<1>6a. \A u \in Clients : client'[u].pc \in {"subscribing", "ready"} => Mine(client[u].addr, u)'
  BY <1>6
<1>7a. \A x \in answers' : \E u \in Clients : client'[u].addr = x.to /\ Mine(x.to, u)'
  BY <1>7
<1>5a. \A r \in Underway' : r.kind \in {"subscribe", "heartbeat", "upload"} => Mine(r.from, r.uuid)'
  BY <1>5
<1>9. Owners'
  BY <1>0, <1>4, <1>5a, <1>6a, <1>7a, <1>8 DEF Owners
<1>10. Paced'
  BY <1>0, <1>1, <1>3 DEF Paced
<1> QED
  BY <1>9, <1>10

(***************************************************************************)
(* A message that is not a handshake resets nothing, and only a            *)
(* subscription that was recorded is confirmed to a subscribing client.    *)
(***************************************************************************)
LEMMA HandlingConfirmed ==
    ASSUME ClientsInv, TablesInv', loop.msg \in Request, loop.msg.kind # "handshake",
           UNCHANGED <<client, requests, shaken>>,
           \A a \in Addrs : byAddr'[a].uuid = byAddr[a].uuid
                            /\ (byAddr[a].subscribed => byAddr'[a].subscribed),
           NEW ok \in BOOLEAN, Replied(ok),
           ok /\ loop.msg.kind = "subscribe" => byAddr'[loop.msg.from].subscribed
    PROVE  Confirmed'
<1> DEFINE m == loop.msg
<1>0. TablesInv /\ Owners /\ Paced /\ Confirmed
  BY DEF ClientsInv
<1>1. /\ \A u \in Clients : client[u].pc # "off" => client[u].addr \in Addrs
      /\ None \notin Addrs /\ Subscribers \subseteq Clients
  BY <1>0, UnderwayType
<1>m. m \in Underway /\ m.from \in Addrs /\ m.uuid \in Clients
  BY DEF Underway, Request
<1>2. ASSUME NEW u \in Subscribers, NEW x \in answers', x \notin answers, x.to = client[u].addr
      PROVE  /\ client[u].pc = "subscribing" /\ m.kind = "subscribe" /\ x.ok = ok
             /\ client[u].addr = m.from /\ u = m.uuid
  <2>1. PICK v \in Clients : client[v].addr = x.to /\ client[v].pc \in {"shaking", "subscribing"}
    BY <1>2 DEF Replied
  <2>2. x.to = m.from /\ x.ok = ok
    BY <1>2 DEF Replied
  <2>3. v = u
    <3>1. u \in Clients /\ client[u].addr = client[v].addr /\ client[v].addr \in Addrs
      BY <1>1, <1>2, <1>m, <2>1, <2>2
    <3> QED
      BY <1>0, <1>1, <3>1 DEF Owners
  <2>4. u = m.uuid
    BY <1>0, <1>m, <2>1, <2>2, <2>3 DEF Owners
  <2> QED
    BY <1>0, <1>m, <2>1, <2>2, <2>3, <2>4 DEF Paced
<1>3. ASSUME NEW u \in Subscribers, client[u].pc # "off", SubOk(u) PROVE SubOk(u)'
  <2>1. client[u].addr \in Addrs
    BY <1>1, <1>3
  <2> QED
    BY <1>3, <2>1 DEF SubOk
<1>4. ASSUME NEW u \in Subscribers, shaken[u] = 0
      PROVE  client[u].pc \in {"off", "shaking"} /\ \A x \in answers' : x.to # client[u].addr
  <2>1. client[u].pc \in {"off", "shaking"} /\ \A x \in answers : x.to # client[u].addr
    BY <1>0, <1>4 DEF Confirmed
  <2> QED
    BY <1>2, <2>1
<1>5. ASSUME NEW u \in Subscribers, shaken[u] = 1, client[u].pc = "subscribing",
             NEW x \in answers', x.ok, x.to = client[u].addr
      PROVE  SubOk(u)'
  <2>1. CASE x \in answers
    BY <1>0, <1>3, <1>5, <2>1 DEF Confirmed
  <2>2. CASE x \notin answers
    <3>1. m.kind = "subscribe" /\ ok /\ client[u].addr = m.from
      BY <1>2, <1>5, <2>2
    <3>2. byAddr'[m.from].subscribed
      BY <3>1
    <3>3. Mine(client[u].addr, u)
      BY <1>0, <1>1, <1>5 DEF Owners
    <3>4. byAddr'[m.from].uuid \in {None, u}
      BY <1>m, <3>1, <3>3 DEF Mine
    <3> QED
      BY <3>1, <3>2, <3>4 DEF SubOk
  <2> QED
    BY <2>1, <2>2
<1>6. ASSUME NEW u \in Subscribers, shaken[u] = 1, client[u].pc = "ready"
      PROVE  SubOk(u)'
  BY <1>0, <1>3, <1>6 DEF Confirmed
<1> QED
  BY <1>4, <1>5, <1>6 DEF Confirmed

(***************************************************************************)
(* The loop, the publisher and time.                                       *)
(***************************************************************************)
LEMMA ServerKeepsOwners ==
    ASSUME ClientsInv, TablesInv',
           \/ Cleanup \/ ReceiveError \/ Publisher
           \/ \E r \in requests, copied \in BOOLEAN : Receive(r, copied)
           \/ \E a \in Addrs : GoQuiet(a)
    PROVE  ClientsInv'
<1> USE DEF tableVars, netVars
<1>0. TypeOK /\ Owners /\ OnlyProducersUpload
  BY DEF ClientsInv, TablesInv
<1>t. loop \in Looping
  BY <1>0 DEF TypeOK, Looping
<1>1. CASE Cleanup \/ ReceiveError
  <2>1. /\ UNCHANGED <<client, answers, requests, shaken>>
        /\ accepted' \in {accepted, {}}
        /\ \A a \in Addrs : byAddr'[a] \in {byAddr[a], NoSession}
    BY <1>1 DEF Cleanup, Collect, Purge, ReceiveError
  <2>2. loop'.msg = loop.msg /\ loop'.pc # "settle"
    BY <1>1, <1>t DEF Cleanup, Collect, Purge, ReceiveError, Looping
  <2>3. Underway' = Underway /\ OnlyProducersUpload'
    BY <1>0, <2>1, <2>2 DEF Underway, OnlyProducersUpload
  <2> QED
    BY <2>1, <2>2, <2>3, TakingAway
<1>2. CASE \E r \in requests, copied \in BOOLEAN : Receive(r, copied)
  <2>1. PICK r \in requests, copied \in BOOLEAN : Receive(r, copied)
    BY <1>2
  <2>2. /\ UNCHANGED <<client, answers, byAddr, accepted, shaken>>
        /\ requests' \subseteq requests
    BY <2>1 DEF Receive
  <2>3. loop'.msg = r /\ loop'.pc # "settle"
    BY <1>t, <2>1 DEF Receive, Looping
  <2>4. Underway' \subseteq Underway /\ OnlyProducersUpload'
    BY <1>0, <2>2, <2>3 DEF Underway, OnlyProducersUpload
  <2> QED
    BY <2>2, <2>3, <2>4, TakingAway
<1>3. CASE Publisher \/ \E a \in Addrs : GoQuiet(a)
  <2>1. /\ UNCHANGED <<client, answers, requests, accepted, shaken, loop>>
        /\ \A a \in Addrs : byAddr'[a] \in {byAddr[a], NoSession}
    BY <1>0, <1>3 DEF Publisher, ListSessions, Serve, Evict, GoQuiet, TypeOK
  <2>2. Underway' = Underway /\ OnlyProducersUpload'
    BY <1>0, <2>1 DEF Underway, OnlyProducersUpload
  <2>3. CASE loop.pc # "settle"
    BY <2>1, <2>2, <2>3, TakingAway
  <2>4. CASE loop.pc = "settle"
    <3>1. loop.msg \in Request /\ loop.msg.kind = "upload"
      BY <1>0, <2>4 DEF ClientsInv, TablesInv, Busy, Owners
    <3>2. loop.msg.from \in Addrs
      BY <3>1 DEF Request
    <3>3. \A a \in Addrs : byAddr'[a].uuid \in {byAddr[a].uuid, None}
      BY <2>1 DEF NoSession
    <3>4. Mine(loop.msg.from, loop.msg.uuid)
      BY <1>0, <3>1 DEF Owners, Underway
    <3>5. byAddr'[loop.msg.from].uuid \in {None, loop.msg.uuid}
      BY <3>2, <3>3, <3>4 DEF Mine
    <3>6. Replied(TRUE)
      BY <2>1 DEF Replied
    <3>7. Owners' /\ Paced'
      BY <2>1, <3>1, <3>3, <3>5, <3>6, HandlingOwners
    <3>8. \A u \in Subscribers : client[u].pc # "off" /\ SubOk(u) => SubOk(u)'
      <4>1. \A u \in Subscribers : client[u].pc # "off" => client[u].addr \in Addrs
        BY UnderwayType DEF ClientsInv
      <4> QED
        BY <2>1, <4>1 DEF SubOk, NoSession
    <3>9. Confirmed'
      BY <2>1, <3>8 DEF ClientsInv, Confirmed
    <3> QED
      BY <2>2, <3>7, <3>9 DEF ClientsInv
  <2> QED
    BY <2>3, <2>4
<1> QED
  BY <1>1, <1>2, <1>3

(***************************************************************************)
(* The handlers: what set_session, subscribe_cursor and the two looks at   *)
(* the role of an upload do to the client that sent the message.           *)
(***************************************************************************)
LEMMA HandlersKeepOwners ==
    ASSUME ClientsInv, TablesInv', Handle
    PROVE  ClientsInv'
<1> USE DEF tableVars, netVars
<1> DEFINE m == loop.msg
<1>0. TablesInv /\ TypeOK /\ Busy /\ Owners /\ Paced /\ Confirmed /\ OnlyProducersUpload
  BY DEF ClientsInv, TablesInv
<1>t. loop \in Looping
  BY <1>0 DEF TypeOK, Looping
<1>m. m \in Request /\ m \in Underway /\ m.from \in Addrs /\ m.uuid \in Clients
  BY <1>0 DEF Handle, HandleHandshake, HandleHeartbeat, HandleSubscribe, HandleUpload, Settle,
              Busy, Request, Underway
<1>u. /\ \A u \in Clients : client[u].pc # "off" => client[u].addr \in Addrs
      /\ None \notin Addrs /\ Subscribers \subseteq Clients
  BY <1>0, UnderwayType
<1>i. Idle.msg = NoRequest /\ Idle.pc = "collect"
  BY DEF Idle
<1>1. CASE HandleHandshake
  <2>1. /\ loop' = Idle /\ UNCHANGED <<listed, client, requests, accepted>>
        /\ SetSession(m.from, m.uuid) /\ Reply(TRUE)
        /\ shaken' = [u \in Subscribers |-> IF u # m.uuid THEN shaken[u]
                                            ELSE IF shaken[u] = 0 THEN 1 ELSE 2]
    BY <1>1 DEF HandleHandshake
  <2>2. /\ \A a \in Addrs : a # m.from => byAddr'[a] \in {byAddr[a], NoSession}
        /\ byAddr'[m.from] = [uuid |-> m.uuid, subscribed |-> FALSE]
    BY <1>m, <2>1 DEF SetSession
  <2>3. Replied(TRUE)
    BY <2>1, ReplyReplies
  <2>4. Owners' /\ Paced'
    <3>1. \A a \in Addrs : a # m.from => byAddr'[a].uuid \in {byAddr[a].uuid, None}
      BY <2>2 DEF NoSession
    <3>2. byAddr'[m.from].uuid \in {None, m.uuid}
      BY <2>2
    <3> QED
      BY <1>i, <1>m, <2>1, <2>3, <3>1, <3>2, HandlingOwners
  <2>5. ASSUME NEW u \in Subscribers
        PROVE  /\ shaken'[u] = 0 => /\ client[u].pc \in {"off", "shaking"}
                                    /\ \A x \in answers' : x.to # client[u].addr
               /\ shaken'[u] = 1 /\ client[u].pc = "subscribing"
                    /\ (\E x \in answers' : x.ok /\ x.to = client[u].addr) => SubOk(u)'
               /\ shaken'[u] = 1 /\ client[u].pc = "ready" => SubOk(u)'
    <3>1. CASE u = m.uuid
      <4>1. shaken'[u] # 0 /\ (shaken'[u] = 1 => shaken[u] = 0)
        BY <2>1, <3>1
      <4>2. shaken[u] = 0 => client[u].pc \in {"off", "shaking"}
        BY <1>0 DEF Confirmed
      <4> QED
        BY <4>1, <4>2
    <3>2. CASE u # m.uuid
      <4>1. shaken'[u] = shaken[u]
        BY <2>1, <3>2
      <4>2. client[u].addr # m.from
        BY <1>0, <1>m, <1>u, <3>2 DEF Owners
      <4>3. \A x \in answers' : x.to = client[u].addr => x \in answers
        BY <2>3, <4>2 DEF Replied
      <4>4. client[u].pc # "off" => byAddr'[client[u].addr] \in {byAddr[client[u].addr], NoSession}
        BY <1>u, <2>2, <4>2
      <4>5. client[u].pc # "off" /\ SubOk(u) => SubOk(u)'
        BY <2>1, <4>4 DEF SubOk, NoSession
      <4> QED
        BY <1>0, <4>1, <4>3, <4>5 DEF Confirmed
    <3> QED
      BY <3>1, <3>2
  <2>6. Confirmed'
    BY <2>1, <2>5 DEF Confirmed
  <2> QED
    BY <1>0, <2>1, <2>4, <2>6 DEF ClientsInv, OnlyProducersUpload
<1>2. ASSUME m.kind \in {"subscribe", "heartbeat", "upload"},
             UNCHANGED <<client, requests, shaken>>,
             loop'.msg \in {m, NoRequest}, loop'.pc = "settle" => loop'.msg.kind = "upload",
             \A a \in Addrs : byAddr'[a].uuid = byAddr[a].uuid
                              /\ (byAddr[a].subscribed => byAddr'[a].subscribed),
             NEW ok \in BOOLEAN, Replied(ok),
             ok /\ m.kind = "subscribe" => byAddr'[m.from].subscribed,
             OnlyProducersUpload'
      PROVE  ClientsInv'
  <2>1. Confirmed'
    BY <1>2, <1>m, HandlingConfirmed
  <2>2. Mine(m.from, m.uuid)
    BY <1>0, <1>m, <1>2 DEF Owners
  <2>3. byAddr'[m.from].uuid \in {None, m.uuid}
    BY <1>m, <1>2, <2>2 DEF Mine
  <2>4. Owners' /\ Paced'
    BY <1>2, <1>m, <2>3, HandlingOwners
  <2> QED
    BY <1>2, <2>1, <2>4 DEF ClientsInv
<1>3. CASE HandleHeartbeat
  <2>1. /\ loop' = Idle /\ UNCHANGED <<tableVars, client, requests, accepted, shaken>>
        /\ m.kind = "heartbeat" /\ Replied(TRUE)
    BY <1>3, ReplyReplies DEF HandleHeartbeat
  <2>2. OnlyProducersUpload'
    BY <1>0, <2>1 DEF OnlyProducersUpload
  <2> QED
    BY <1>2, <1>i, <2>1, <2>2
<1>4. CASE HandleSubscribe
  <2>1. /\ loop' = Idle /\ UNCHANGED <<client, requests, accepted, shaken>>
        /\ m.kind = "subscribe"
    BY <1>4 DEF HandleSubscribe
  <2>2. OnlyProducersUpload'
    BY <1>0, <2>1 DEF OnlyProducersUpload
  <2>3. CASE SubscribeCursor(m.from) /\ Reply(TRUE)
    <3>1. \A s \in Session : /\ [s EXCEPT !.subscribed = TRUE].subscribed
                             /\ [s EXCEPT !.subscribed = TRUE].uuid = s.uuid
      BY DEF Session
    <3>2. byAddr' = [byAddr EXCEPT ![m.from] = [@ EXCEPT !.subscribed = TRUE]]
      BY <2>3 DEF SubscribeCursor
    <3>3. /\ \A a \in Addrs : byAddr'[a].uuid = byAddr[a].uuid
                              /\ (byAddr[a].subscribed => byAddr'[a].subscribed)
          /\ byAddr'[m.from].subscribed
      BY <1>0, <1>m, <3>1, <3>2 DEF TypeOK
    <3>4. Replied(TRUE)
      BY <2>3, ReplyReplies
    <3> QED
      BY <1>2, <1>i, <2>1, <2>2, <3>3, <3>4
  <2>4. CASE UNCHANGED byAddr /\ Reply(FALSE)
    <3>1. Replied(FALSE)
      BY <2>4, ReplyReplies
    <3> QED
      BY <1>2, <1>i, <2>1, <2>2, <2>4, <3>1
  <2> QED
    BY <1>4, <2>3, <2>4 DEF HandleSubscribe
<1>5. CASE HandleUpload
  <2>1. /\ loop'.pc = "settle" /\ loop'.msg = m
        /\ UNCHANGED <<tableVars, client, requests, accepted, shaken>> /\ m.kind = "upload"
    BY <1>5, <1>t DEF HandleUpload, Looping
  <2>2. OnlyProducersUpload'
    BY <1>0, <2>1 DEF OnlyProducersUpload
  <2>3. Replied(FALSE)
    <3>1. CASE UNCHANGED answers
      BY <3>1 DEF Replied
    <3>2. CASE Reply(FALSE)
      BY <3>2, ReplyReplies
    <3> QED
      BY <1>5, <3>1, <3>2 DEF HandleUpload
  <2> QED
    BY <1>2, <2>1, <2>2, <2>3
<1>6. CASE Settle
  <2>1. /\ loop' = Idle /\ UNCHANGED <<tableVars, client, requests, answers, shaken>>
        /\ m.kind = "upload"
    BY <1>0, <1>6 DEF Settle, Owners
  <2>2. Role(m.from) = "producer" => m.uuid \notin Subscribers
    <3>1. Mine(m.from, m.uuid)
      BY <1>0, <1>m, <2>1 DEF Owners
    <3>2. Role(m.from) = "producer" => byAddr[m.from].uuid # None /\ byAddr[m.from].uuid \notin Subscribers
      BY DEF Role, Live, None
    <3> QED
      BY <3>1, <3>2 DEF Mine
  <2>3. OnlyProducersUpload'
    BY <1>0, <1>6, <2>2 DEF Settle, OnlyProducersUpload
  <2>4. Replied(FALSE)
    BY <2>1 DEF Replied
  <2> QED
    BY <1>2, <1>i, <2>1, <2>3, <2>4
<1> QED
  BY <1>1, <1>3, <1>4, <1>5, <1>6 DEF Handle

(***************************************************************************)
(* A client opens its socket where nothing is left of the previous owner.  *)
(***************************************************************************)
LEMMA ConnectKeepsOwners ==
    ASSUME ClientsInv, TablesInv', NEW u \in Clients, NEW a \in Addrs, Connect(u, a)
    PROVE  ClientsInv'
<1> USE DEF tableVars, netVars
<1>0. TablesInv /\ TypeOK /\ Owners /\ Paced /\ Confirmed /\ OnlyProducersUpload
  BY DEF ClientsInv, TablesInv
<1>t. client \in [Clients -> Connecting]
  BY <1>0 DEF TypeOK, Connecting
<1>1. /\ None \notin Addrs /\ Subscribers \subseteq Clients
      /\ Underway \subseteq Request \cup {NoRequest}
  BY <1>0, UnderwayType
<1> DEFINE h == [from |-> a, uuid |-> u, kind |-> "handshake"]
<1>2. /\ UNCHANGED <<byAddr, loop, answers, accepted, shaken>>
      /\ \A v \in Clients : client'[v] = IF v = u THEN [pc |-> "shaking", addr |-> a] ELSE client[v]
      /\ Underway' \subseteq Underway \cup {h}
      /\ \A r \in Underway : r.from # a
      /\ \A v \in Clients : client[v].addr # a
      /\ client[u].pc = "off"
  BY <1>t DEF Connect, Ask, Underway
<1>3. h.from = a /\ h.uuid = u /\ h.kind = "handshake"
  OBVIOUS
<1> HIDE DEF h
<1>4. client'[u].pc = "shaking" /\ client'[u].addr = a /\ \A v \in Clients : v # u => client'[v] = client[v]
  BY <1>2
<1>5. \A x \in answers : x.to # a
  BY <1>0, <1>2 DEF Owners
<1>6. \A b, v : Mine(b, v) <=> Mine(b, v)'
  BY <1>2 DEF Mine
<1>7. \A v, w \in Clients : v # w => client'[v].addr = None \/ client'[v].addr # client'[w].addr
  BY <1>0, <1>2, <1>4 DEF Owners
<1>8. \A r \in Underway', v \in Clients :
          r.from \in Addrs /\ client'[v].addr = r.from => r.uuid = v
  BY <1>0, <1>2, <1>3, <1>4 DEF Owners
<1>9. \A r, q \in Underway' : r.from = q.from => r.uuid = q.uuid
  BY <1>0, <1>2, <1>3 DEF Owners
<1>10. \A r \in Underway' :
          r.kind \in {"subscribe", "heartbeat", "upload"} => Mine(r.from, r.uuid)'
  BY <1>0, <1>2, <1>3, <1>6 DEF Owners
<1>11. ASSUME NEW v \in Clients, client'[v].pc \in {"subscribing", "ready"}
       PROVE  byAddr'[client'[v].addr].uuid \in {None, v}
  BY <1>0, <1>2, <1>4, <1>11 DEF Owners, Mine
<1>12. ASSUME NEW x \in answers'
       PROVE  \E v \in Clients : client'[v].addr = x.to /\ Mine(x.to, v)'
  <2>1. PICK v \in Clients : client[v].addr = x.to /\ Mine(x.to, v)
    BY <1>0, <1>2 DEF Owners
  <2>2. x.to \in Addrs
    BY <1>0, <1>2, UnderwayType
  <2>3. v # u
    BY <1>0, <1>1, <1>2, <2>1, <2>2 DEF Owners
  <2> QED
    BY <1>4, <1>6, <2>1, <2>3
<1>13. Owners'
  <2>1. \A v \in Clients : client'[v].pc \in {"subscribing", "ready"} => Mine(client[v].addr, v)'
    BY <1>4, <1>11 DEF Mine
  <2>2. \A x \in answers' : \E v \in Clients : client'[v].addr = x.to /\ Mine(x.to, v)'
    BY <1>12
  <2> QED
    BY <1>0, <1>2, <1>4, <1>7, <1>8, <1>9, <1>10, <2>1, <2>2 DEF Owners
<1>14. Paced'
  BY <1>0, <1>2, <1>3, <1>4 DEF Paced
<1>15. Confirmed'
  <2> SUFFICES ASSUME NEW v \in Subscribers
               PROVE  /\ shaken[v] = 0 => /\ client'[v].pc \in {"off", "shaking"}
                                          /\ \A x \in answers : x.to # client'[v].addr
                      /\ shaken[v] = 1 /\ client'[v].pc = "subscribing"
                           /\ (\E x \in answers : x.ok /\ x.to = client'[v].addr) => SubOk(v)'
                      /\ shaken[v] = 1 /\ client'[v].pc = "ready" => SubOk(v)'
    BY <1>2 DEF Confirmed
  <2>1. CASE v = u
    BY <1>4, <1>5, <2>1
  <2>2. CASE v # u
    <3>1. client'[v] = client[v] /\ (SubOk(v) => SubOk(v)')
      BY <1>1, <1>2, <1>4, <2>2 DEF SubOk
    <3> QED
      BY <1>0, <3>1 DEF Confirmed
  <2> QED
    BY <2>1, <2>2
<1> QED
  BY <1>0, <1>2, <1>13, <1>14, <1>15 DEF ClientsInv, OnlyProducersUpload

(***************************************************************************)
(* A client leaves, after an error or of its own accord, and its unread    *)
(* answers leave with it.                                                  *)
(***************************************************************************)
LEMMA LeavingKeepsOwners ==
    ASSUME ClientsInv, TablesInv', NEW u \in Clients,
           client' = [client EXCEPT ![u] = Off],
           answers' = {x \in answers : x.to # client[u].addr},
           UNCHANGED <<byAddr, loop, requests, accepted, shaken>>
    PROVE  ClientsInv'
<1>0. TablesInv /\ TypeOK /\ Owners /\ Paced /\ Confirmed /\ OnlyProducersUpload
  BY DEF ClientsInv, TablesInv
<1>t. client \in [Clients -> Connecting]
  BY <1>0 DEF TypeOK, Connecting
<1>1. None \notin Addrs /\ Subscribers \subseteq Clients
  BY <1>0, UnderwayType
<1>2. /\ client'[u].pc = "off" /\ client'[u].addr = None
      /\ \A v \in Clients : v # u => client'[v] = client[v]
      /\ Underway' = Underway
  BY <1>t DEF Off, Underway
<1>6. \A b, v : Mine(b, v) <=> Mine(b, v)'
  BY DEF Mine
<1>7. \A v, w \in Clients : v # w => client'[v].addr = None \/ client'[v].addr # client'[w].addr
  <2> SUFFICES ASSUME NEW v \in Clients, NEW w \in Clients, v # w, client'[v].addr # None
               PROVE  client'[v].addr # client'[w].addr
    OBVIOUS
  <2>1. v # u
    BY <1>2
  <2> QED
    BY <1>0, <1>2, <2>1 DEF Owners
<1>8. \A r \in Underway', v \in Clients :
          r.from \in Addrs /\ client'[v].addr = r.from => r.uuid = v
  BY <1>0, <1>1, <1>2 DEF Owners
<1>12. ASSUME NEW x \in answers'
       PROVE  \E v \in Clients : client'[v].addr = x.to /\ Mine(x.to, v)'
  <2>1. PICK v \in Clients : client[v].addr = x.to /\ Mine(x.to, v)
    BY <1>0 DEF Owners
  <2>2. v # u
    BY <2>1
  <2> QED
    BY <1>2, <1>6, <2>1, <2>2
<1>13. Owners'
  <2>1. \A v \in Clients : client'[v].pc \in {"subscribing", "ready"} => Mine(client[v].addr, v)'
    BY <1>0, <1>2 DEF Owners, Mine
  <2>2. \A x \in answers' : \E v \in Clients : client'[v].addr = x.to /\ Mine(x.to, v)'
    BY <1>12
  <2>3. \A r \in Underway' :
           r.kind \in {"subscribe", "heartbeat", "upload"} => Mine(r.from, r.uuid)'
    BY <1>0, <1>2, <1>6 DEF Owners
  <2> QED
    BY <1>0, <1>2, <1>7, <1>8, <2>1, <2>2, <2>3 DEF Owners
<1>14. Paced'
  BY <1>0, <1>1, <1>2 DEF Paced
<1>15. Confirmed'
  <2> SUFFICES ASSUME NEW v \in Subscribers
               PROVE  /\ shaken[v] = 0 => /\ client'[v].pc \in {"off", "shaking"}
                                          /\ \A x \in answers' : x.to # client'[v].addr
                      /\ shaken[v] = 1 /\ client'[v].pc = "subscribing"
                           /\ (\E x \in answers' : x.ok /\ x.to = client'[v].addr) => SubOk(v)'
                      /\ shaken[v] = 1 /\ client'[v].pc = "ready" => SubOk(v)'
    BY DEF Confirmed
  <2>1. CASE v = u
    <3>1. \A x \in answers' : x.to # None
      BY <1>0, <1>1, UnderwayType
    <3> QED
      BY <1>2, <2>1, <3>1
  <2>2. CASE v # u
    <3>1. client'[v] = client[v] /\ (SubOk(v) => SubOk(v)')
      BY <1>1, <1>2, <2>2 DEF SubOk
    <3> QED
      BY <1>0, <3>1 DEF Confirmed
  <2> QED
    BY <2>1, <2>2
<1> QED
  BY <1>0, <1>13, <1>14, <1>15 DEF ClientsInv, OnlyProducersUpload

(***************************************************************************)
(* A client that stays where it is goes on, and may send a request that    *)
(* fits the step it has come to.                                           *)
(***************************************************************************)
LEMMA AdvancingKeepsOwners ==
    ASSUME ClientsInv, TablesInv', NEW u \in Clients,
           client'[u].pc \in {"subscribing", "ready"}, client'[u].addr = client[u].addr,
           \A v \in Clients : v # u => client'[v] = client[v],
           client[u].addr \in Addrs, Mine(client[u].addr, u),
           client'[u].pc = "subscribing" => client[u].pc = "shaking",
           answers' \subseteq answers,
           \A r \in requests' : r \notin requests =>
              /\ r.from = client[u].addr /\ r.uuid = u
              /\ r.kind \in {"subscribe", "heartbeat", "upload"}
              /\ client'[u].pc = "subscribing" => r.kind = "subscribe",
           UNCHANGED <<byAddr, loop, accepted, shaken>>,
           u \in Subscribers =>
             /\ shaken[u] # 0
             /\ client'[u].pc = "subscribing" => ~\E x \in answers' : x.ok /\ x.to = client[u].addr
             /\ client'[u].pc = "ready" /\ shaken[u] = 1 => SubOk(u)
    PROVE  ClientsInv'
<1>0. TablesInv /\ TypeOK /\ Owners /\ Paced /\ Confirmed /\ OnlyProducersUpload
  BY DEF ClientsInv, TablesInv
<1>1. None \notin Addrs /\ Subscribers \subseteq Clients
  BY <1>0, UnderwayType
<1> DEFINE a == client[u].addr
           Sent(r) == /\ r.from = a /\ r.uuid = u
                      /\ r.kind \in {"subscribe", "heartbeat", "upload"}
                      /\ client'[u].pc = "subscribing" => r.kind = "subscribe"
<1>2. \A v \in Clients : client'[v].addr = client[v].addr
  OBVIOUS
<1>3. \A r \in Underway' : r \in Underway \/ Sent(r)
  BY DEF Underway
<1>6. \A b, v : Mine(b, v) <=> Mine(b, v)'
  BY DEF Mine
<1>o. \A r \in Underway : r.from = a => r.uuid = u
  BY <1>0 DEF Owners
<1>7. \A v, w \in Clients : v # w => client'[v].addr = None \/ client'[v].addr # client'[w].addr
  BY <1>0, <1>2 DEF Owners
<1>8. \A r \in Underway', v \in Clients :
          r.from \in Addrs /\ client'[v].addr = r.from => r.uuid = v
  BY <1>0, <1>1, <1>2, <1>3 DEF Owners
<1>9. \A r, q \in Underway' : r.from = q.from => r.uuid = q.uuid
  BY <1>0, <1>3, <1>o DEF Owners
<1>10. \A r \in Underway' :
          r.kind \in {"subscribe", "heartbeat", "upload"} => Mine(r.from, r.uuid)'
  BY <1>0, <1>3, <1>6 DEF Owners
<1>11. \A v \in Clients :
          client'[v].pc \in {"subscribing", "ready"} => byAddr'[client'[v].addr].uuid \in {None, v}
  BY <1>0, <1>2 DEF Owners, Mine
<1>12. \A x \in answers' : \E v \in Clients : client'[v].addr = x.to /\ Mine(x.to, v)'
  BY <1>0, <1>2, <1>6 DEF Owners
<1>13. Owners'
  <2>1. \A v \in Clients : client'[v].pc \in {"subscribing", "ready"} => Mine(client[v].addr, v)'
    BY <1>11 DEF Mine
  <2> QED
    BY <1>0, <1>2, <1>7, <1>8, <1>9, <1>10, <1>12, <2>1 DEF Owners
<1>14. Paced'
  <2> SUFFICES ASSUME NEW v \in Clients, NEW r \in Underway', client[v].addr = r.from, r.from \in Addrs
               PROVE  /\ client'[v].pc = "shaking" => r.kind = "handshake"
                      /\ client'[v].pc = "subscribing" => r.kind \in {"handshake", "subscribe"}
    BY <1>2 DEF Paced
  <2>1. CASE v = u
    BY <1>0, <1>2, <1>3, <2>1 DEF Paced
  <2>2. CASE v # u
    <3>1. ~Sent(r)
      BY <1>0, <1>1, <2>2 DEF Owners
    <3> QED
      BY <1>0, <1>2, <1>3, <2>2, <3>1 DEF Paced
  <2> QED
    BY <2>1, <2>2
<1>15. Confirmed'
  <2> SUFFICES ASSUME NEW v \in Subscribers
               PROVE  /\ shaken[v] = 0 => /\ client'[v].pc \in {"off", "shaking"}
                                          /\ \A x \in answers' : x.to # client'[v].addr
                      /\ shaken[v] = 1 /\ client'[v].pc = "subscribing"
                           /\ (\E x \in answers' : x.ok /\ x.to = client'[v].addr) => SubOk(v)'
                      /\ shaken[v] = 1 /\ client'[v].pc = "ready" => SubOk(v)'
    BY DEF Confirmed
  <2>0. SubOk(v) => SubOk(v)'
    BY <1>1, <1>2 DEF SubOk
  <2>1. CASE v = u
    BY <1>2, <2>0, <2>1
  <2>2. CASE v # u
    <3>1. client'[v] = client[v]
      BY <1>1, <1>2, <2>2
    <3> QED
      BY <1>0, <2>0, <3>1 DEF Confirmed
  <2> QED
    BY <2>1, <2>2
<1> QED
  BY <1>0, <1>13, <1>14, <1>15 DEF ClientsInv, OnlyProducersUpload

(***************************************************************************)
(* Every step of a client.                                                 *)
(***************************************************************************)
LEMMA ClientsKeepOwners ==
    ASSUME ClientsInv, TablesInv', NEW u \in Clients, ClientStep(u)
    PROVE  ClientsInv'
<1> USE DEF tableVars, netVars
<1>0. TablesInv /\ TypeOK /\ Busy /\ Owners /\ Paced /\ Confirmed /\ OnlyProducersUpload
  BY DEF ClientsInv, TablesInv
<1>t. client \in [Clients -> Connecting]
  BY <1>0 DEF TypeOK, Connecting
<1>a. client[u].pc # "off" => client[u].addr \in Addrs
  BY <1>0 DEF Busy
<1>1. ASSUME NEW r \in answers, GetAnswer(u, r) PROVE ClientsInv'
  <2>0. /\ r.to = client[u].addr /\ client[u].pc \in {"shaking", "subscribing"}
        /\ client[u].addr \in Addrs
        /\ UNCHANGED <<byAddr, loop, accepted, shaken>>
    BY <1>a, <1>1 DEF GetAnswer
  <2>1. CASE ~r.ok
    BY <1>1, <2>0, <2>1, LeavingKeepsOwners DEF GetAnswer
  <2>2. CASE r.ok
    <3>1. Mine(client[u].addr, u)
      <4>1. PICK v \in Clients : client[v].addr = r.to /\ Mine(r.to, v)
        BY <1>0 DEF Owners
      <4>2. v = u
        BY <1>0, <2>0, <4>1, SessionsAssumption DEF Owners
      <4> QED
        BY <2>0, <4>1, <4>2
    <3>2. u \in Subscribers => shaken[u] # 0
      BY <1>0, <2>0 DEF Confirmed
    <3>3. answers' = answers \ {r} /\ answers' \subseteq answers
      BY <1>1, <2>2 DEF GetAnswer
    <3>4. CASE /\ client[u].pc = "shaking" /\ u \in Subscribers
               /\ client' = [client EXCEPT ![u].pc = "subscribing"] /\ Ask(u, r.to, "subscribe")
      <4>1. ~\E x \in answers' : x.ok /\ x.to = client[u].addr
        <5> SUFFICES ASSUME NEW x \in answers, x.ok, x.to = r.to PROVE x = r
          BY <2>0, <3>3
        <5>1. x \in Answer /\ r \in Answer
          BY <1>0 DEF TypeOK
        <5>2. x.ok = TRUE /\ r.ok = TRUE
          BY <2>2, <5>1 DEF Answer
        <5> QED
          BY <5>1, <5>2 DEF Answer
      <4>2. \A q \in requests' : q \notin requests =>
               q.from = client[u].addr /\ q.uuid = u /\ q.kind = "subscribe"
        BY <2>0, <3>4 DEF Ask
      <4>3. /\ client'[u].pc = "subscribing" /\ client'[u].addr = client[u].addr
            /\ \A v \in Clients : v # u => client'[v] = client[v]
        BY <1>t, <3>4 DEF Connecting
      <4> QED
        BY <2>0, <3>1, <3>2, <3>3, <3>4, <4>1, <4>2, <4>3, AdvancingKeepsOwners
    <3>5. CASE /\ client[u].pc = "subscribing" \/ u \notin Subscribers
               /\ client' = [client EXCEPT ![u].pc = "ready"] /\ UNCHANGED requests
      <4>1. u \in Subscribers /\ shaken[u] = 1 => SubOk(u)
        BY <1>0, <2>0, <2>2, <3>5 DEF Confirmed
      <4>2. /\ client'[u].pc = "ready" /\ client'[u].addr = client[u].addr
            /\ \A v \in Clients : v # u => client'[v] = client[v]
        BY <1>t, <3>5 DEF Connecting
      <4> QED
        BY <2>0, <3>1, <3>2, <3>3, <3>5, <4>1, <4>2, AdvancingKeepsOwners
    <3> QED
      BY <1>1, <2>2, <3>4, <3>5 DEF GetAnswer
  <2> QED
    BY <2>1, <2>2
<1>2. ASSUME NEW kind \in {"heartbeat", "upload"}, Speak(u, kind) PROVE ClientsInv'
  <2>1. /\ client[u].pc = "ready" /\ client[u].addr \in Addrs
        /\ \A q \in requests' : q \notin requests =>
              q.from = client[u].addr /\ q.uuid = u /\ q.kind \in {"heartbeat", "upload"}
        /\ UNCHANGED <<byAddr, loop, client, answers, accepted, shaken>>
    BY <1>a, <1>2 DEF Speak
  <2>3. Mine(client[u].addr, u)
    BY <1>0, <2>1 DEF Owners
  <2>4. u \in Subscribers => shaken[u] # 0 /\ (shaken[u] = 1 => SubOk(u))
    BY <1>0, <2>1 DEF Confirmed
  <2> QED
    BY <2>1, <2>3, <2>4, AdvancingKeepsOwners
<1>3. CASE Close(u)
  BY <1>3, LeavingKeepsOwners DEF Close
<1> QED
  BY <1>1, <1>2, <1>3, ConnectKeepsOwners DEF ClientStep

(***************************************************************************)
(* Addresses keep their owners in every reachable state.                   *)
(***************************************************************************)
THEOREM ClientsInvariant == Spec => []ClientsInv
<1>1. ClientsInv /\ TablesInv' /\ [Next]_vars => ClientsInv'
  <2> SUFFICES ASSUME ClientsInv, TablesInv', [Next]_vars PROVE ClientsInv'
    OBVIOUS
  <2>1. CASE Next
    BY <2>1, ServerKeepsOwners, HandlersKeepOwners, ClientsKeepOwners DEF Next
  <2>2. CASE UNCHANGED vars
    BY <2>2 DEF vars, tableVars, netVars, ClientsInv, Owners, Paced, Confirmed, Underway, Mine,
                SubOk, OnlyProducersUpload
  <2> QED
    BY <2>1, <2>2
<1> QED
  BY ClientsInit, TablesInvariant, <1>1, PTL DEF Spec

(***************************************************************************)
(* No upload of a cursor subscriber reaches the handler: between the two   *)
(* looks at its role the session at its address is its own or gone.        *)
(***************************************************************************)
THEOREM SubscribersNeverUpload == Spec => []OnlyProducersUpload
<1>1. ClientsInv => OnlyProducersUpload
  BY DEF ClientsInv
<1> QED
  BY <1>1, ClientsInvariant, PTL

(***************************************************************************)
(* When connect() of a cursor client has returned after one handshake, its *)
(* session is subscribed or gone.                                          *)
(***************************************************************************)
THEOREM ConnectedIsSubscribed == Spec => []ReadyIsSubscribed
<1>1. ClientsInv => ReadyIsSubscribed
  BY DEF ClientsInv, Confirmed, SubOk, ReadyIsSubscribed
<1> QED
  BY <1>1, ClientsInvariant, PTL
===============================================================================
