------------------------------- MODULE Producer -------------------------------
(***************************************************************************)
(* The producer's client (core/src/transport/client.rs) and its Python     *)
(* wrapper (bindings/python/src/client.rs): one aircraft from handshake to *)
(* close.  The caller's methods only put operations into a queue; three    *)
(* tasks do the rest.  The operation task turns operations into messages,  *)
(* the heartbeat task adds its own, the sender task writes both to the UDP *)
(* socket until told to shut down or until a send fails.  Tasks end on     *)
(* messages or because the other end of a channel is gone.                 *)
(*                                                                         *)
(* A message is its kind and, for telemetry, its sequence number.          *)
(***************************************************************************)
EXTENDS Integers, FiniteSets, Sequences, SequencesExt

CONSTANTS MaxCalls,     \* bound on the caller's operations
          MaxBeats,     \* bound on the heartbeats
          MaxFaults     \* bound on the failing sends

ASSUME ProducerAssumption == {MaxCalls, MaxBeats, MaxFaults} \subseteq Nat

VARIABLES
    conn,       \* where the caller is in the client's life
    despawned,  \* AircraftClient.despawned
    sequence,   \* PyClient.telemetry_sequences of the one stream
    ops,        \* the operation queue
    opTx,       \* AircraftClient.op_tx is there
    stop,       \* the heartbeat's stop channel
    out,        \* the outbound queue
    task,       \* the three tasks
    beats,      \* heartbeats queued so far
    faults,     \* sends that failed
    accepted,   \* history: messages the caller was told are under way
    wire        \* history: datagrams written to the socket

vars == <<conn, despawned, sequence, ops, opTx, stop, out, task, beats, faults,
          accepted, wire>>

Msg(kind) == [kind |-> kind, seq |-> 0]

Conn == {"idle", "checked", "handshake", "open", "joinHeartbeat", "joinOperation",
         "joinSender", "closed", "failed", "dropped"}

Init == /\ conn = "idle"
        /\ despawned = FALSE
        /\ sequence = 0
        /\ ops = <<>> /\ opTx = FALSE
        /\ stop = "keep"
        /\ out = <<>>
        /\ task = [sender |-> "none", operation |-> "none", heartbeat |-> "none"]
        /\ beats = 0
        /\ faults = 0
        /\ accepted = <<>>
        /\ wire = <<>>

-------------------------------------------------------------------------------
(***************************************************************************)
(* PyClient::new checks its arguments, the core's connect some of them     *)
(* again; the handshake is sent once and its answer awaited for a second.  *)
(***************************************************************************)
New(valid) ==
    /\ conn = "idle"
    /\ conn' = IF valid THEN "checked" ELSE "failed"
    /\ UNCHANGED <<despawned, sequence, ops, opTx, stop, out, task, beats, faults,
                   accepted, wire>>

(* connect_with_telemetry_at up to the handshake; binding the socket or    *)
(* sending may fail.                                                       *)
Connect(sent) ==
    /\ conn = "checked"
    /\ conn' = IF sent THEN "handshake" ELSE "failed"
    /\ wire' = IF sent THEN <<Msg("handshake")>> ELSE wire
    /\ UNCHANGED <<despawned, sequence, ops, opTx, stop, out, task, beats, faults,
                   accepted>>

(* validate_handshake_ack: only ACK=true will do.                          *)
Acked(reply) == reply = "ack"

(* The answer, something else, or the timeout; then the tasks are started. *)
Established(reply) ==
    /\ conn = "handshake"
    /\ IF Acked(reply)
       THEN /\ conn' = "open"
            /\ opTx' = TRUE
            /\ task' = [sender |-> "run", operation |-> "start", heartbeat |-> "run"]
            /\ accepted' = <<Msg("spawn")>>
       ELSE conn' = "failed" /\ UNCHANGED <<opTx, task, accepted>>
    /\ UNCHANGED <<despawned, sequence, ops, stop, out, beats, faults, wire>>

-------------------------------------------------------------------------------
(***************************************************************************)
(* The caller's methods.  ensure_open looks at `closed` only: a client     *)
(* whose sender has ended still takes operations.                          *)
(***************************************************************************)
SendOperation(op) ==
    /\ opTx
    /\ ops' = Append(ops, op)
    /\ accepted' = Append(accepted, op)

Operate(op) ==
    /\ conn = "open"
    /\ Len(accepted) <= MaxCalls
    /\ SendOperation(op)
    /\ UNCHANGED <<conn, opTx, stop, out, task, beats, faults, wire>>

UpdateState == Operate(Msg("state")) /\ UNCHANGED <<despawned, sequence>>

CreateEvent == Operate(Msg("event")) /\ UNCHANGED <<despawned, sequence>>

PublishFrame(seq) == Operate([kind |-> "telemetry", seq |-> seq])

(* Mutant: the sequence number is not advanced.                            *)
PublishTelemetrySame ==
    /\ PublishFrame(1)
    /\ UNCHANGED <<despawned, sequence>>

(* A frame that does not fit the stream's schema raises before it is       *)
(* numbered.                                                               *)
PublishTelemetry ==
    /\ PublishFrame(sequence + 1)
    /\ sequence' = sequence + 1
    /\ UNCHANGED despawned

(* A second despawn is silently left out.                                  *)
Despawn ==
    /\ ~despawned
    /\ Operate(Msg("despawn"))
    /\ despawned' = TRUE
    /\ UNCHANGED sequence

(* Mutant: a client that was despawned is despawned again.                 *)
CloseDespawnsAgain ==
    /\ conn = "open"
    /\ ops' = ops \o <<Msg("despawn"), Msg("stop")>>
    /\ accepted' = Append(accepted, Msg("despawn"))
    /\ despawned' = TRUE
    /\ stop' = "stop"
    /\ opTx' = FALSE
    /\ conn' = "joinHeartbeat"
    /\ UNCHANGED <<sequence, out, task, beats, faults, wire>>

(* close, up to its first await: a last despawn, the stop flag, the stop   *)
(* operation, and the queue's sender is given up.                          *)
Close ==
    /\ conn = "open"
    /\ LET farewell == IF despawned THEN <<>> ELSE <<Msg("despawn")>>
       IN /\ ops' = ops \o farewell \o <<Msg("stop")>>
          /\ accepted' = accepted \o farewell
    /\ despawned' = TRUE
    /\ stop' = "stop"
    /\ opTx' = FALSE
    /\ conn' = "joinHeartbeat"
    /\ UNCHANGED <<sequence, out, task, beats, faults, wire>>

(* close awaits the tasks one after the other.                             *)
Join ==
    /\ \/ /\ conn = "joinHeartbeat" /\ task.heartbeat = "done"
          /\ conn' = "joinOperation"
       \/ /\ conn = "joinOperation" /\ task.operation = "done"
          /\ conn' = "joinSender"
       \/ /\ conn = "joinSender" /\ task.sender = "done"
          /\ conn' = "closed"
    /\ UNCHANGED <<despawned, sequence, ops, opTx, stop, out, task, beats, faults,
                   accepted, wire>>

(* The client is dropped without close, or the future of close is.         *)
Drop ==
    /\ conn \in {"open", "joinHeartbeat", "joinOperation", "joinSender"}
    /\ conn' = "dropped"
    /\ opTx' = FALSE
    /\ stop' = IF stop = "stop" THEN "stop" ELSE "gone"
    /\ UNCHANGED <<despawned, sequence, ops, out, task, beats, faults, accepted, wire>>

-------------------------------------------------------------------------------
(***************************************************************************)
(* The tasks.                                                              *)
(***************************************************************************)

(* send_outbound: without a sender task the message is lost with a warning.*)
SendOutbound(msg) ==
    out' = IF task.sender = "done" THEN out ELSE Append(out, msg)

(* The operation task begins with the spawn.                               *)
OperationStart ==
    /\ task.operation = "start"
    /\ SendOutbound(Msg("spawn"))
    /\ task' = [task EXCEPT !.operation = "run"]
    /\ UNCHANGED <<conn, despawned, sequence, ops, opTx, stop, beats, faults,
                   accepted, wire>>

OperationStep ==
    /\ task.operation = "run" /\ ops # <<>>
    /\ LET last == Head(ops).kind = "stop"
       IN /\ SendOutbound(IF last THEN Msg("shutdown") ELSE Head(ops))
          /\ task' = [task EXCEPT !.operation = IF last THEN "done" ELSE @]
    /\ ops' = Tail(ops)
    /\ UNCHANGED <<conn, despawned, sequence, opTx, stop, beats, faults, accepted, wire>>

(* The queue is empty and its sender gone.                                 *)
OperationEnd ==
    /\ task.operation = "run" /\ ops = <<>> /\ ~opTx
    /\ task' = [task EXCEPT !.operation = "done"]
    /\ UNCHANGED <<conn, despawned, sequence, ops, opTx, stop, out, beats, faults,
                   accepted, wire>>

(* A tick of the interval; the first one is immediate.                     *)
HeartbeatTick ==
    /\ task.heartbeat = "run"
    /\ beats < MaxBeats
    /\ IF stop = "stop"
       THEN /\ task' = [task EXCEPT !.heartbeat = "done"]
            /\ UNCHANGED <<out, beats>>
       ELSE /\ SendOutbound(Msg("heartbeat"))
            /\ beats' = beats + 1
            /\ UNCHANGED task
    /\ UNCHANGED <<conn, despawned, sequence, ops, opTx, stop, faults, accepted, wire>>

(* Mutant: only the flag ends the task, not the loss of its sender.        *)
HeartbeatStopFlagOnly ==
    /\ task.heartbeat = "run"
    /\ stop = "stop"
    /\ task' = [task EXCEPT !.heartbeat = "done"]
    /\ UNCHANGED <<conn, despawned, sequence, ops, opTx, stop, out, beats, faults,
                   accepted, wire>>

(* The stop channel changed: it was set, or its sender is gone.            *)
HeartbeatStop ==
    /\ task.heartbeat = "run"
    /\ stop # "keep"
    /\ task' = [task EXCEPT !.heartbeat = "done"]
    /\ UNCHANGED <<conn, despawned, sequence, ops, opTx, stop, out, beats, faults,
                   accepted, wire>>

(* The sender writes the oldest message, or ends on Shutdown.              *)
SenderStep ==
    /\ task.sender = "run" /\ out # <<>>
    /\ IF Head(out).kind = "shutdown"
       THEN task' = [task EXCEPT !.sender = "done"] /\ UNCHANGED wire
       ELSE wire' = Append(wire, Head(out)) /\ UNCHANGED task
    /\ out' = IF Head(out).kind = "shutdown" THEN <<>> ELSE Tail(out)
    /\ UNCHANGED <<conn, despawned, sequence, ops, opTx, stop, beats, faults, accepted>>

(* The first send that fails ends the sender for good.                     *)
SenderFails ==
    /\ task.sender = "run" /\ out # <<>> /\ Head(out).kind # "shutdown"
    /\ faults < MaxFaults
    /\ faults' = faults + 1
    /\ task' = [task EXCEPT !.sender = "done"]
    /\ out' = <<>>
    /\ UNCHANGED <<conn, despawned, sequence, ops, opTx, stop, beats, accepted, wire>>

(* Both tasks that hold the outbound queue's sender have ended.            *)
SenderEnd ==
    /\ task.sender = "run" /\ out = <<>>
    /\ task.operation = "done" /\ task.heartbeat = "done"
    /\ task' = [task EXCEPT !.sender = "done"]
    /\ UNCHANGED <<conn, despawned, sequence, ops, opTx, stop, out, beats, faults,
                   accepted, wire>>

Call == UpdateState \/ CreateEvent \/ PublishTelemetry \/ Despawn

Tasks == \/ OperationStart \/ OperationStep \/ OperationEnd
         \/ HeartbeatStop \/ SenderStep \/ SenderEnd

Next == \/ \E good \in BOOLEAN : New(good) \/ Connect(good)
        \/ \E reply \in {"ack", "error", "other", "timeout"} : Established(reply)
        \/ Call \/ Close \/ Join \/ Drop
        \/ Tasks \/ HeartbeatTick \/ SenderFails

Spec == Init /\ [][Next]_vars

(***************************************************************************)
(* The runtime polls a task that can proceed, and select! looks at both of *)
(* its branches; when sends fail or a heartbeat ticks is not promised.     *)
(***************************************************************************)
FairSpec == /\ Spec
            /\ WF_vars(OperationStart \/ OperationStep \/ OperationEnd)
            /\ WF_vars(HeartbeatStop)
            /\ WF_vars(SenderStep \/ SenderEnd)
            /\ WF_vars(Join)
-------------------------------------------------------------------------------
(***************************************************************************)
(* The promises.                                                           *)
(***************************************************************************)

(* The messages of other kinds, in their order.                            *)
Besides(msgs, kinds) ==
    LET kept[n \in 0 .. Len(msgs)] ==
            IF n = 0 THEN <<>>
            ELSE IF msgs[n].kind \in kinds THEN kept[n - 1] ELSE Append(kept[n - 1], msgs[n])
    IN kept[Len(msgs)]

Aircraft(msgs) == Besides(msgs, {"handshake", "heartbeat"})

Of(kind, msgs) == {i \in DOMAIN msgs : msgs[i].kind = kind}

(* The aircraft's messages leave in the order of the calls, the spawn      *)
(* first, each once and with consecutive telemetry numbers, although two   *)
(* tasks and three queues lie between (operation task, sender task,        *)
(* publish_telemetry).                                                     *)
SentInOrder ==
    /\ IsPrefix(Aircraft(wire), accepted)
    /\ \A i \in Of("telemetry", accepted) :
          accepted[i].seq = Cardinality({j \in Of("telemetry", accepted) : j <= i})
    /\ wire # <<>> => wire[1].kind = "handshake"

(* When close has returned and no send failed, everything the caller was   *)
(* told is under way was written, with exactly one despawn (close).        *)
ClosedDelivered ==
    conn = "closed" /\ faults = 0 =>
        /\ Aircraft(wire) = accepted
        /\ Cardinality(Of("despawn", Aircraft(wire))) = 1

(* close always returns, even after the sender died, and a client that is  *)
(* dropped instead leaves no task behind (close, the channels' ends).      *)
ClientEnds ==
    /\ conn = "joinHeartbeat" ~> conn \in {"closed", "dropped"}
    /\ conn \in {"closed", "dropped"} ~>
           \A t \in DOMAIN task : task[t] = "done"

===============================================================================
