------------------------------- MODULE Sessions -------------------------------
(***************************************************************************)
(* The UDP server's session tables (core/src/transport/server.rs): the     *)
(* receive loop that fills them, expires their entries and checks roles    *)
(* against them, the cursor publisher that reads them and evicts from them *)
(* in another task (core/src/cursor.rs), and the clients whose connect()   *)
(* depends on them (core/src/transport/client.rs, core/src/cursor.rs).     *)
(*                                                                         *)
(* One action per table lock taken.  Requests are lost, delayed,           *)
(* duplicated and reordered.  What a session keeps of the cursor stream    *)
(* (cursor_epoch, cursor_event_ack) is the subject of CursorStream.        *)
(* Handshakes and subscriptions that fail validation are answered with an  *)
(* error and leave the tables alone; the clients modelled send valid ones. *)
(***************************************************************************)
EXTENDS Naturals, FiniteSets

CONSTANTS
    Clients,        \* client UUIDs
    Subscribers,    \* the ones that shake hands as cursor_subscriber
    Addrs,          \* source addresses
    MaxInFlight     \* bound: requests in flight

None == "none"

ASSUME SessionsAssumption ==
    /\ Subscribers \subseteq Clients
    /\ None \notin Clients
    /\ None \notin Addrs
    /\ MaxInFlight \in Nat

VARIABLES
    byAddr,         \* address -> Session
    byClientUuid,   \* client UUID -> address
    quiet,          \* addresses whose session was last seen over a timeout ago
    loop,           \* the receive loop: where it is, and what it works on
    listed,         \* subscribers of the publisher's tick, still to be served
    client,         \* the clients: where each is, and its address
    requests,       \* requests in flight
    answers,        \* responses to the clients that wait for one
    accepted,       \* history: whose upload this turn of the loop gave to the handler
    shaken          \* history: how often a subscriber's handshake was handled, up to 2

tableVars == <<byAddr, byClientUuid, quiet>>
netVars == <<requests, answers>>
vars == <<tableVars, loop, listed, client, netVars, accepted, shaken>>

NoSession == [uuid |-> None, subscribed |-> FALSE]
Session == [uuid : Clients \cup {None}, subscribed : BOOLEAN]
Kind == {"handshake", "subscribe", "heartbeat", "upload"}
Request == [from : Addrs, uuid : Clients, kind : Kind]
Answer == [to : Addrs, ok : BOOLEAN]
NoRequest == [from |-> None, uuid |-> None, kind |-> "none"]
Idle == [pc |-> "collect", expired |-> {}, msg |-> NoRequest, refused |-> FALSE]

TypeOK ==
    /\ byAddr \in [Addrs -> Session]
    /\ byClientUuid \in [Clients -> Addrs \cup {None}]
    /\ quiet \subseteq Addrs
    /\ loop \in [pc : {"collect", "purge", "recv", "handle", "settle", "ended"},
                 expired : SUBSET (Addrs \X Clients),
                 msg : Request \cup {NoRequest}, refused : BOOLEAN]
    /\ listed \subseteq Addrs
    /\ client \in [Clients -> [pc : {"off", "shaking", "subscribing", "ready"},
                               addr : Addrs \cup {None}]]
    /\ requests \subseteq Request
    /\ answers \subseteq Answer
    /\ accepted \subseteq Clients
    /\ shaken \in [Subscribers -> 0..2]

Off == [pc |-> "off", addr |-> None]

Init ==
    /\ byAddr = [a \in Addrs |-> NoSession]
    /\ byClientUuid = [u \in Clients |-> None]
    /\ quiet = {}
    /\ loop = Idle
    /\ listed = {}
    /\ client = [u \in Clients |-> Off]
    /\ requests = {}
    /\ answers = {}
    /\ accepted = {}
    /\ shaken = [u \in Subscribers |-> 0]

Live(a) == byAddr[a].uuid # None
Role(a) == IF ~Live(a) THEN None
           ELSE IF byAddr[a].uuid \in Subscribers THEN "subscriber" ELSE "producer"

-----------------------------------------------------------------------------
(* The receive loop.  cleanup_expired, then one datagram, then what it     *)
(* asks for.                                                               *)

(* Mutant: nothing is ever found expired.                                  *)
CollectNone ==
    /\ loop.pc = "collect"
    /\ loop' = [loop EXCEPT !.pc = "recv"]
    /\ accepted' = {}
    /\ UNCHANGED <<tableVars, listed, client, netVars, shaken>>

(* The first half of cleanup_expired, under a lock of its own.             *)
Collect ==
    LET expired == {<<a, byAddr[a].uuid>> : a \in {b \in quiet : Live(b)}}
    IN /\ loop.pc = "collect"
       /\ loop' = [loop EXCEPT !.pc = IF expired = {} THEN "recv" ELSE "purge",
                               !.expired = expired]
       /\ accepted' = {}
       /\ UNCHANGED <<tableVars, listed, client, netVars, shaken>>

(* The second half, under another.                                         *)
Purge ==
    LET gone == {a \in Addrs : \E u \in Clients : <<a, u>> \in loop.expired}
    IN /\ loop.pc = "purge"
       /\ byAddr' = [a \in Addrs |-> IF a \in gone THEN NoSession ELSE byAddr[a]]
       /\ byClientUuid' = [u \in Clients |->
                              IF \E a \in Addrs : <<a, u>> \in loop.expired THEN None
                              ELSE byClientUuid[u]]
       /\ quiet' = quiet \ gone
       /\ loop' = [loop EXCEPT !.pc = "recv", !.expired = {}]
       /\ UNCHANGED <<listed, client, netVars, accepted, shaken>>

(* recv_from a socket, and touch_addr.  The network may keep a copy.       *)
Receive(r, copied) ==
    /\ loop.pc = "recv"
    /\ requests' = IF copied THEN requests ELSE requests \ {r}
    /\ quiet' = quiet \ {r.from}
    /\ loop' = [loop EXCEPT !.pc = "handle", !.msg = r]
    /\ UNCHANGED <<byAddr, byClientUuid, listed, client, answers, accepted, shaken>>

(* A datagram that does not decode, or a socket error, ends the loop.      *)
ReceiveError ==
    /\ loop.pc = "recv"
    /\ loop' = [loop EXCEPT !.pc = "ended"]
    /\ UNCHANGED <<tableVars, listed, client, netVars, accepted, shaken>>

(* A response; one nobody waits for is never looked at.                    *)
Reply(ok) ==
    answers' = answers \cup {[to |-> a, ok |-> ok] : a \in {loop.msg.from} \cap
                   {client[u].addr : u \in {v \in Clients :
                        client[v].pc \in {"shaking", "subscribing"}}}}

(* Mutant: the session at the client's previous address stays.             *)
SetSessionBeside(a, u) ==
    /\ byClientUuid' = [byClientUuid EXCEPT ![u] = a]
    /\ byAddr' = [byAddr EXCEPT ![a] = [uuid |-> u, subscribed |-> FALSE]]
    /\ quiet' = quiet \ {a}

(* set_session: the address the UUID was last seen at loses its session,   *)
(* whoever holds it by now.                                                *)
SetSession(a, u) ==
    LET old == byClientUuid[u]
    IN /\ byClientUuid' = [byClientUuid EXCEPT ![u] = a]
       /\ byAddr' = [b \in Addrs |->
                        IF b = a THEN [uuid |-> u, subscribed |-> FALSE]
                        ELSE IF b = old THEN NoSession ELSE byAddr[b]]
       /\ quiet' = quiet \ {a, old}

HandleHandshake ==
    /\ loop.pc = "handle"
    /\ loop.msg.kind = "handshake"
    /\ SetSession(loop.msg.from, loop.msg.uuid)
    /\ Reply(TRUE)
    /\ shaken' = [u \in Subscribers |-> IF u # loop.msg.uuid THEN shaken[u]
                                     ELSE IF shaken[u] = 0 THEN 1 ELSE 2]
    /\ loop' = Idle
    /\ UNCHANGED <<listed, client, requests, accepted>>

(* A heartbeat is answered whether there is a session or not.              *)
HandleHeartbeat ==
    /\ loop.pc = "handle"
    /\ loop.msg.kind = "heartbeat"
    /\ Reply(TRUE)
    /\ loop' = Idle
    /\ UNCHANGED <<tableVars, listed, client, requests, accepted, shaken>>

(* Mutant: the subscription is confirmed and not recorded.                 *)
SubscribeCursorUnmarked(a) == byAddr' = byAddr

(* subscribe_cursor, for a subscriber's session.                           *)
SubscribeCursor(a) == byAddr' = [byAddr EXCEPT ![a].subscribed = TRUE]

HandleSubscribe ==
    LET a == loop.msg.from
    IN /\ loop.pc = "handle"
       /\ loop.msg.kind = "subscribe"
       /\ \/ /\ Role(a) = "subscriber"
             /\ SubscribeCursor(a)
             /\ Reply(TRUE)
          \/ /\ Role(a) # "subscriber"
             /\ UNCHANGED byAddr
             /\ Reply(FALSE)
       /\ loop' = Idle
       /\ UNCHANGED <<byClientUuid, quiet, listed, client, requests, accepted, shaken>>

(* An upload: the first look at the role decides about the error response  *)
HandleUpload ==
    LET producer == Role(loop.msg.from) = "producer"
    IN /\ loop.pc = "handle"
       /\ loop.msg.kind = "upload"
       /\ IF producer THEN UNCHANGED answers ELSE Reply(FALSE)
       /\ loop' = [loop EXCEPT !.pc = "settle", !.refused = ~producer]
       /\ UNCHANGED <<tableVars, listed, client, requests, accepted, shaken>>

(* Mutant: whoever has a session may upload.                               *)
SettleAnyRole ==
    /\ loop.pc = "settle"
    /\ accepted' = IF Live(loop.msg.from) THEN accepted \cup {loop.msg.uuid} ELSE accepted
    /\ loop' = Idle
    /\ UNCHANGED <<tableVars, listed, client, netVars, shaken>>

(* ... and the second, once that is sent, about the handler.               *)
Settle ==
    /\ loop.pc = "settle"
    /\ accepted' = IF Role(loop.msg.from) = "producer" THEN accepted \cup {loop.msg.uuid}
                   ELSE accepted
    /\ loop' = Idle
    /\ UNCHANGED <<tableVars, listed, client, netVars, shaken>>

-----------------------------------------------------------------------------
(* The publisher: active_sessions at the start of a tick, then one         *)
(* subscriber after the other; one that is beyond max_subscribers or out   *)
(* of retries is removed.                                                  *)

ListSessions ==
    /\ listed = {}
    /\ listed' = {a \in Addrs : Role(a) = "subscriber" /\ byAddr[a].subscribed}
    /\ UNCHANGED <<tableVars, loop, client, netVars, accepted, shaken>>

Serve(a) ==
    /\ a \in listed
    /\ listed' = listed \ {a}
    /\ UNCHANGED <<tableVars, loop, client, netVars, accepted, shaken>>

(* remove_by_addr                                                          *)
Evict(a) ==
    /\ a \in listed
    /\ listed' = listed \ {a}
    /\ byClientUuid' = IF Live(a) THEN [byClientUuid EXCEPT ![byAddr[a].uuid] = None]
                       ELSE byClientUuid
    /\ byAddr' = [byAddr EXCEPT ![a] = NoSession]
    /\ quiet' = quiet \ {a}
    /\ UNCHANGED <<loop, client, netVars, accepted, shaken>>

(* More than heartbeat_timeout_secs since the session was last touched.    *)
GoQuiet(a) ==
    /\ Live(a)
    /\ quiet' = quiet \cup {a}
    /\ UNCHANGED <<byAddr, byClientUuid, loop, listed, client, netVars, accepted, shaken>>

-----------------------------------------------------------------------------
(* The clients.                                                            *)

(* A request may be lost on the way.                                       *)
Ask(u, a, kind) ==
    \/ UNCHANGED requests
    \/ /\ Cardinality(requests) < MaxInFlight
       /\ requests' = requests \cup {[from |-> a, uuid |-> u, kind |-> kind]}

(* A client opens a socket at a free address and shakes hands.  No         *)
(* datagram of the address's previous owner is under way any more.         *)
Connect(u, a) ==
    /\ client[u].pc = "off"
    /\ \A v \in Clients : client[v].addr # a
    /\ \A r \in requests : r.from # a
    /\ loop.msg.from # a
    /\ client' = [client EXCEPT ![u] = [pc |-> "shaking", addr |-> a]]
    /\ Ask(u, a, "handshake")
    /\ UNCHANGED <<tableVars, loop, listed, answers, accepted, shaken>>

(* A response while connect() waits for one: responses carry no number, so *)
(* any of them will do.  An error ends connect(), and the socket goes with *)
(* whatever it had not read; a subscriber goes on to subscribe.            *)
GetAnswer(u, r) ==
    /\ client[u].pc \in {"shaking", "subscribing"}
    /\ r.to = client[u].addr
    /\ answers' = IF r.ok THEN answers \ {r} ELSE {x \in answers : x.to # r.to}
    /\ \/ /\ ~r.ok
          /\ client' = [client EXCEPT ![u] = Off]
          /\ UNCHANGED requests
       \/ /\ r.ok
          /\ client[u].pc = "shaking" /\ u \in Subscribers
          /\ client' = [client EXCEPT ![u].pc = "subscribing"]
          /\ Ask(u, r.to, "subscribe")
       \/ /\ r.ok
          /\ client[u].pc = "subscribing" \/ u \notin Subscribers
          /\ client' = [client EXCEPT ![u].pc = "ready"]
          /\ UNCHANGED requests
    /\ UNCHANGED <<tableVars, loop, listed, accepted, shaken>>

(* What a connected client sends: heartbeats, and uploads, which only a    *)
(* producer should send.                                                   *)
Speak(u, kind) ==
    /\ client[u].pc = "ready"
    /\ Cardinality(requests) < MaxInFlight
    /\ requests' = requests \cup {[from |-> client[u].addr, uuid |-> u, kind |-> kind]}
    /\ UNCHANGED <<tableVars, loop, listed, client, answers, accepted, shaken>>

(* The client closes, or gives up waiting after HANDSHAKE_TIMEOUT; its     *)
(* socket takes along the responses nobody read.                           *)
Close(u) ==
    /\ client[u].pc # "off"
    /\ client' = [client EXCEPT ![u] = Off]
    /\ answers' = {r \in answers : r.to # client[u].addr}
    /\ UNCHANGED <<tableVars, loop, listed, requests, accepted, shaken>>

-----------------------------------------------------------------------------
Cleanup == Collect \/ Purge

Handle ==
    \/ HandleHandshake \/ HandleHeartbeat \/ HandleSubscribe
    \/ HandleUpload \/ Settle

Publisher ==
    \/ ListSessions
    \/ \E a \in listed : Serve(a) \/ Evict(a)

ClientStep(u) ==
    \/ \E a \in Addrs : Connect(u, a)
    \/ \E r \in answers : GetAnswer(u, r)
    \/ \E kind \in {"heartbeat", "upload"} : Speak(u, kind)
    \/ Close(u)

Next ==
    \/ Cleanup
    \/ \E r \in requests, copied \in BOOLEAN : Receive(r, copied)
    \/ ReceiveError
    \/ Handle
    \/ Publisher
    \/ \E a \in Addrs : GoQuiet(a)
    \/ \E u \in Clients : ClientStep(u)

Spec == Init /\ [][Next]_vars

-----------------------------------------------------------------------------
(* Properties.                                                             *)

(***************************************************************************)
(* The two tables agree on every session: its client's UUID leads to its   *)
(* address, so a client has at most one session, although handshakes move  *)
(* clients between addresses and the publisher evicts between the two      *)
(* halves of cleanup_expired.                                              *)
(***************************************************************************)
Indexed == \A a \in Addrs : Live(a) => byClientUuid[byAddr[a].uuid] = a

(***************************************************************************)
(* A cursor client whose connect() has returned, and whose handshake was   *)
(* handled once, has a session marked as subscribed, or none any more      *)
(* because it was evicted or expired.  (A duplicate of its handshake       *)
(* resets the session and nobody tells the client.)                        *)
(***************************************************************************)
ReadyIsSubscribed ==
    \A u \in Subscribers :
        LET s == byAddr[client[u].addr]
        IN client[u].pc = "ready" /\ shaken[u] = 1 =>
               s.uuid = None \/ (s.uuid = u /\ s.subscribed)

(***************************************************************************)
(* No upload of a cursor subscriber reaches the store's handler, whatever  *)
(* its address was used for before and whoever is evicted between the two  *)
(* looks at the role.                                                      *)
(***************************************************************************)
OnlyProducersUpload == accepted \cap Subscribers = {}

(***************************************************************************)
(* The receive loop goes on while there is something to receive, and ends  *)
(* only by an error.                                                       *)
(***************************************************************************)
Fairness ==
    /\ WF_vars(Cleanup)
    /\ WF_vars(Handle)
    /\ WF_vars(\E r \in requests, copied \in BOOLEAN : Receive(r, copied))

FairSpec == Spec /\ Fairness

(***************************************************************************)
(* If datagrams keep arriving, from whomever, a session that is not heard  *)
(* of is removed.  (cleanup_expired runs only before a receive: with no    *)
(* datagram at all an expired session stays.)  Addresses are alike, so one *)
(* of them stands for all.                                                 *)
(***************************************************************************)
Expires ==
    LET a == CHOOSE b \in Addrs : TRUE
    IN []<>(requests # {}) => (a \in quiet) ~> (a \notin quiet \/ loop.pc = "ended")
===============================================================================
