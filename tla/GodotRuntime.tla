----------------------------- MODULE GodotRuntime -----------------------------
(***************************************************************************)
(* The Godot extension's FlyRulerRuntime node: the scene's thread, which   *)
(* Godot calls once per rendered frame (process), and a worker thread that *)
(* either runs a whole kernel (role "server") or follows a remote cursor   *)
(* stream (role "client").  They share three channels: commands to the     *)
(* worker, events to the scene, both unbounded, and a channel of capacity  *)
(* one for frames, into which the worker tries to put the newest frame and *)
(* drops it when it is full.                                               *)
(*                                                                         *)
(* A frame is the number of the stream it belongs to.  A new stream begins *)
(* with the server's start, with every change of its timeline and with     *)
(* every baseline a client receives; numbers are never used again.         *)
(* Cursor events, statistics, session lists and error texts pass through   *)
(* to the scene's signals and are left out.                                *)
(***************************************************************************)
EXTENDS Naturals, Sequences

CONSTANTS MaxStream,   \* bound on the streams
          MaxOps,      \* bound on the operation ids
          MaxEvents    \* bound on waiting events when the network acts

ASSUME GodotBounds == {MaxStream, MaxOps, MaxEvents} \subseteq Nat

VARIABLES host,      \* the node as the scene's thread sees it
          worker,    \* the worker thread
          commands,  \* command channel
          closed,    \* the node has dropped its command sender
          events,    \* event channel
          slot,      \* frame channel: NoFrame or the frame in it
          stream,    \* the newest stream
          nextId,    \* next_operation_id
          accepted,  \* history: operations of this run the node took
          answered   \* history: completions it has signalled, in their order

channels == <<commands, closed, events, slot>>
history == <<accepted, answered>>
vars == <<host, worker, channels, stream, nextId, history>>

NoFrame == 0
Role == {"server", "client"}
Status == {"stopped", "starting", "running", "reconnecting", "stopping", "failed"}

Started == [kind |-> "started", n |-> 0]
Reconnecting == [kind |-> "reconnecting", n |-> 0]
StreamReset == [kind |-> "reset", n |-> 0]
Completed(id) == [kind |-> "completed", n |-> id]
Failed == [kind |-> "error", n |-> 0]
Stopped == [kind |-> "stopped", n |-> 0]

Shutdown == [kind |-> "shutdown", n |-> 0]
Timeline == [kind |-> "timeline", n |-> 0]
Operation(kind, id) == [kind |-> kind, n |-> id]
Sessional == {"save", "load", "clear"}

TypeOK ==
    /\ host \in [status : Status, pc : {"idle", "drain", "take", "join"}, role : Role,
                 snapshot : 0 .. MaxStream]
    /\ worker \in [pc : {"none", "start", "wait", "due", "check", "connect", "retry",
                         "poll", "recv", "stop", "ended"},
                   role : Role, at : 0 .. MaxStream, announced : BOOLEAN]
    /\ closed \in BOOLEAN /\ slot \in 0 .. MaxStream
    /\ stream \in 0 .. MaxStream /\ nextId \in 1 .. MaxOps + 1

NoWorker == [pc |-> "none", role |-> "server", at |-> 0, announced |-> FALSE]

Init ==
    /\ host = [status |-> "stopped", pc |-> "idle", role |-> "server",
               snapshot |-> NoFrame]
    /\ worker = NoWorker
    /\ commands = <<>> /\ events = <<>> /\ slot = NoFrame /\ closed = FALSE
    /\ stream = 0 /\ nextId = 1
    /\ accepted = {} /\ answered = <<>>
-------------------------------------------------------------------------------
(* The scene's thread.                                                     *)

(* start: only from stopped.  What the scene last showed is not cleared.   *)
Start(role) ==
    /\ host.pc = "idle" /\ host.status = "stopped"
    /\ host' = [host EXCEPT !.status = "starting", !.role = role]
    /\ worker' = [pc |-> "start", role |-> role, at |-> 0, announced |-> FALSE]
    /\ closed' = FALSE
    /\ UNCHANGED <<commands, events, slot, stream, nextId, history>>

(* send: a client is receive-only, and the worker must be running.         *)
Accepts == host.role = "server" /\ host.status = "running"

(* live, pause, seek, play, set_speed, step.  The guard on the bound       *)
(* leaves every queued command a stream of its own.                        *)
TimelineCommand ==
    /\ host.pc = "idle" /\ Accepts
    /\ stream + Len(commands) < MaxStream
    /\ commands' = Append(commands, Timeline)
    /\ UNCHANGED <<host, worker, closed, events, slot, stream, nextId, history>>

(* save_session, load_session, clear_session: the id is used up even when  *)
(* the command is refused.                                                 *)
SessionCommand(kind) ==
    /\ host.pc = "idle" /\ host.status # "stopped"
    /\ nextId <= MaxOps
    /\ stream + Len(commands) < MaxStream
    /\ nextId' = nextId + 1
    /\ commands' = IF Accepts THEN Append(commands, Operation(kind, nextId)) ELSE commands
    /\ accepted' = IF Accepts THEN accepted \cup {nextId} ELSE accepted
    /\ UNCHANGED <<host, worker, closed, events, slot, stream, answered>>

(* process: first all waiting events, then the frame.                      *)
Process ==
    /\ host.pc = "idle" /\ host.status # "stopped"
    /\ host' = [host EXCEPT !.pc = "drain"]
    /\ UNCHANGED <<worker, channels, stream, nextId, history>>

After(h, e) ==
    CASE e.kind = "started" -> [h EXCEPT !.status = "running"]
      [] e.kind = "reconnecting" -> [h EXCEPT !.status = "reconnecting", !.snapshot = NoFrame]
      [] e.kind = "reset" -> [h EXCEPT !.snapshot = NoFrame]
      [] e.kind = "error" -> [h EXCEPT !.status = "failed"]
      [] e.kind = "stopped" -> [h EXCEPT !.status = "stopped"]
      [] OTHER -> h

(* Handling touches the node only, so it may as well happen while the rest *)
(* of the channel is still being emptied.                                  *)
DrainEvent ==
    /\ host.pc = "drain" /\ events # <<>>
    /\ host' = After(host, Head(events))
    /\ answered' = IF Head(events).kind = "completed"
                   THEN Append(answered, Head(events)) ELSE answered
    /\ events' = Tail(events)
    /\ UNCHANGED <<worker, commands, closed, slot, stream, nextId, accepted>>

DrainEnd ==
    /\ host.pc = "drain" /\ events = <<>>
    /\ host' = [host EXCEPT !.pc = "take"]
    /\ UNCHANGED <<worker, channels, stream, nextId, history>>

(* Mutant of Take: a node that shows a frame keeps it.                     *)
TakeFirst ==
    /\ host.pc = "take"
    /\ host' = [host EXCEPT !.pc = "idle",
                            !.snapshot = IF host.snapshot = NoFrame THEN slot ELSE @]
    /\ slot' = NoFrame
    /\ UNCHANGED <<worker, commands, closed, events, stream, nextId, history>>

Take ==
    /\ host.pc = "take"
    /\ host' = [host EXCEPT !.pc = "idle",
                            !.snapshot = IF slot = NoFrame THEN @ ELSE slot]
    /\ slot' = NoFrame
    /\ UNCHANGED <<worker, commands, closed, events, stream, nextId, history>>

(* Mutant of BeginShutdown: the worker is joined before it is told.        *)
BeginShutdownUntold ==
    /\ host.pc = "idle" /\ host.status \notin {"stopped", "stopping"}
    /\ host' = [host EXCEPT !.status = "stopping", !.pc = "join"]
    /\ UNCHANGED <<worker, channels, stream, nextId, history>>

(* shutdown_internal up to the join: the sender is taken out of the node,  *)
(* used once and dropped.                                                  *)
BeginShutdown ==
    /\ host.pc = "idle" /\ host.status \notin {"stopped", "stopping"}
    /\ host' = [host EXCEPT !.status = "stopping", !.pc = "join"]
    /\ commands' = IF worker.pc = "ended" THEN commands ELSE Append(commands, Shutdown)
    /\ closed' = TRUE
    /\ UNCHANGED <<worker, events, slot, stream, nextId, history>>

(* After the join the channels are dropped with what is still in them; the *)
(* last snapshot stays.                                                    *)
EndShutdown ==
    /\ host.pc = "join" /\ worker.pc = "ended"
    /\ host' = [host EXCEPT !.status = "stopped", !.pc = "idle"]
    /\ commands' = <<>> /\ events' = <<>> /\ slot' = NoFrame
    /\ accepted' = {} /\ answered' = <<>>
    /\ worker' = NoWorker
    /\ UNCHANGED <<closed, stream, nextId>>
-------------------------------------------------------------------------------
(* The worker.                                                             *)

(* An event equal to the one posted last adds nothing for the scene.       *)
Post(q, e) == IF q # <<>> /\ q[Len(q)] = e THEN q ELSE Append(q, e)

(* try_send into the channel of capacity one.                              *)
PutFrame(f) == slot' = IF slot = NoFrame THEN f ELSE slot

(* Shutdown is the next command, or no command will come any more.         *)
Quits == IF commands = <<>> THEN closed ELSE Head(commands) = Shutdown

(* The runtime cannot be created, an address cannot be bound, or the       *)
(* management server does not start and the UDP server is stopped again.   *)
StartFails ==
    /\ worker.pc = "start"
    /\ worker' = [worker EXCEPT !.pc = "ended"]
    /\ events' = Post(events, Failed)
    /\ UNCHANGED <<host, commands, closed, slot, stream, nextId, history>>

ServerStarts ==
    /\ worker.pc = "start" /\ worker.role = "server" /\ stream < MaxStream
    /\ stream' = stream + 1
    /\ worker' = [worker EXCEPT !.pc = "wait", !.at = stream']
    /\ events' = Post(events, Started)
    /\ UNCHANGED <<host, commands, closed, slot, nextId, history>>

(* recv_timeout: the next command, or the time of the next frame.          *)
ServerQuits ==
    /\ worker.pc = "wait" /\ Quits
    /\ worker' = [worker EXCEPT !.pc = "stop"]
    /\ commands' = <<>>
    /\ UNCHANGED <<host, closed, events, slot, stream, nextId, history>>

TimesOut ==
    /\ worker.pc = "wait" /\ commands = <<>> /\ ~closed
    /\ worker' = [worker EXCEPT !.pc = "due"]
    /\ UNCHANGED <<host, channels, stream, nextId, history>>

(* Mutant of Complete: an operation that failed is left without an answer. *)
CompleteSuccess(c, success) ==
    events' = IF c.kind \in Sessional /\ success THEN Post(events, Completed(c.n)) ELSE events

(* complete: the answer to an operation, whatever came of it.              *)
Complete(c, success) ==
    events' = IF c.kind \in Sessional THEN Post(events, Completed(c.n)) ELSE events

(* What a command that succeeds does to the timeline; clear cannot fail.   *)
Changes(c) == c.kind \in {"timeline", "load", "clear"}

HandleCommand ==
    /\ worker.pc = "wait" /\ commands # <<>> /\ ~Quits
    /\ \E success \in BOOLEAN :
          LET c == Head(commands)
              now == IF success /\ Changes(c) THEN stream + 1 ELSE stream
          IN /\ c.kind = "clear" => success
             /\ stream' = now
             /\ worker' = [worker EXCEPT !.pc = "due", !.at = now]
             /\ Complete(c, success)
    /\ commands' = Tail(commands)
    /\ UNCHANGED <<host, closed, slot, nextId, history>>

(* The frame is not due yet.                                               *)
Skip ==
    /\ worker.pc = "due"
    /\ worker' = [worker EXCEPT !.pc = "wait"]
    /\ UNCHANGED <<host, channels, stream, nextId, history>>

(* build_frame: every spawned and renderable aircraft at the cursor.       *)
PublishFrame ==
    /\ worker.pc = "due"
    /\ PutFrame(worker.at)
    /\ worker' = [worker EXCEPT !.pc = "wait"]
    /\ UNCHANGED <<host, commands, closed, events, stream, nextId, history>>

ClientStarts ==
    /\ worker.pc = "start" /\ worker.role = "client"
    /\ worker' = [worker EXCEPT !.pc = "check"]
    /\ UNCHANGED <<host, channels, stream, nextId, history>>

(* The three places where a client looks at its commands.  It is sent none *)
(* but Shutdown (Accepts).                                                 *)
Look ==
    /\ worker.pc \in {"check", "retry", "poll"}
    /\ worker' = [worker EXCEPT !.pc = IF Quits THEN "stop"
                                       ELSE CASE @ = "check" -> "connect"
                                              [] @ = "retry" -> "check"
                                              [] @ = "poll" -> "recv"]
    /\ commands' = IF Quits THEN <<>> ELSE commands
    /\ UNCHANGED <<host, closed, events, slot, stream, nextId, history>>

Connected ==
    /\ worker.pc = "connect" /\ Len(events) < MaxEvents
    /\ worker' = [worker EXCEPT !.pc = "poll", !.at = 0, !.announced = FALSE]
    /\ UNCHANGED <<host, channels, stream, nextId, history>>

ConnectFails ==
    /\ worker.pc = "connect"
    /\ worker' = [worker EXCEPT !.pc = "retry"]
    /\ events' = Post(events, Reconnecting)
    /\ UNCHANGED <<host, commands, closed, slot, stream, nextId, history>>

(* A Reset of another revision: no frame follows before its baseline.      *)
RecvReset ==
    /\ worker.pc = "recv" /\ Len(events) < MaxEvents
    /\ worker' = [worker EXCEPT !.pc = "poll", !.at = 0]
    /\ events' = Post(events, StreamReset)
    /\ UNCHANGED <<host, commands, closed, slot, stream, nextId, history>>

(* The first batch of a baseline; other batches only add cursor events.    *)
RecvBaseline ==
    /\ worker.pc = "recv" /\ stream < MaxStream
    /\ stream' = stream + 1
    /\ worker' = [worker EXCEPT !.pc = "poll", !.at = stream']
    /\ events' = Post(events, StreamReset)
    /\ UNCHANGED <<host, commands, closed, slot, nextId, history>>

(* frame_from_cursor; the first frame of a connection makes it running.    *)
RecvFrame ==
    /\ worker.pc = "recv" /\ worker.at # 0
    /\ worker' = [worker EXCEPT !.pc = "poll", !.announced = TRUE]
    /\ events' = IF worker.announced THEN events ELSE Post(events, Started)
    /\ PutFrame(worker.at)
    /\ UNCHANGED <<host, commands, closed, stream, nextId, history>>

(* Nothing complete arrived within 50 ms.                                  *)
RecvNothing ==
    /\ worker.pc = "recv"
    /\ worker' = [worker EXCEPT !.pc = "poll"]
    /\ UNCHANGED <<host, channels, stream, nextId, history>>

(* An error of heartbeat or recv, or nothing for heartbeat_timeout_secs.   *)
Lose ==
    /\ worker.pc = "recv"
    /\ worker' = [worker EXCEPT !.pc = "check", !.at = 0]
    /\ events' = Post(Post(events, StreamReset), Reconnecting)
    /\ UNCHANGED <<host, commands, closed, slot, stream, nextId, history>>

(* The server stops management and UDP; both roles say that they stopped.  *)
Stop ==
    /\ worker.pc = "stop"
    /\ worker' = [worker EXCEPT !.pc = "ended"]
    /\ events' = Post(events, Stopped)
    /\ UNCHANGED <<host, commands, closed, slot, stream, nextId, history>>

ServerWorker ==
    \/ ServerStarts \/ ServerQuits \/ TimesOut \/ HandleCommand \/ Skip \/ PublishFrame

ClientWorker ==
    \/ ClientStarts \/ Look \/ Connected \/ ConnectFails
    \/ RecvReset \/ RecvBaseline \/ RecvFrame \/ RecvNothing \/ Lose

Worker == StartFails \/ ServerWorker \/ ClientWorker \/ Stop

Scene == DrainEvent \/ DrainEnd \/ Take \/ EndShutdown

Next ==
    \/ \E role \in Role : Start(role)
    \/ TimelineCommand
    \/ \E kind \in Sessional : SessionCommand(kind)
    \/ Process \/ BeginShutdown
    \/ Scene \/ Worker

Spec == Init /\ [][Next]_vars

(* Godot calls process for every rendered frame, and a thread runs on.     *)
FairSpec == Spec /\ WF_vars(Process) /\ WF_vars(Scene) /\ WF_vars(Worker)
-------------------------------------------------------------------------------
(***************************************************************************)
(* An operation the node has given an id for is never lost between the     *)
(* threads: it waits as a command, or its one completion waits as an event *)
(* or was signalled, in the order of the calls; and a worker that ends has *)
(* left none undone, although Shutdown may be queued behind them.  The end *)
(* of shutdown drops completions that process has not yet taken            *)
(* (EndShutdown), and the count begins anew.                               *)
(***************************************************************************)
OfOperation(e) == e.kind \in Sessional \cup {"completed"}

Ids(q) == {q[i].n : i \in {j \in 1 .. Len(q) : OfOperation(q[j])}}

InCallOrder(q) ==
    \A i, j \in 1 .. Len(q) :
        i < j /\ OfOperation(q[i]) /\ OfOperation(q[j]) => q[i].n < q[j].n

OperationsKept ==
    /\ accepted = Ids(answered) \cup Ids(events) \cup Ids(commands)
    /\ InCallOrder(answered \o events \o commands)
    /\ worker.pc = "ended" => Ids(commands) = {}

(***************************************************************************)
(* shutdown, which Godot's main thread calls and which joins the worker,   *)
(* returns: whatever the worker is doing, and although nobody empties its  *)
(* channels any more.                                                      *)
(***************************************************************************)
ShutdownReturns == (host.pc = "join") ~> (host.status = "stopped")

(***************************************************************************)
(* A frame of an older stream may survive in the channel, be shown after   *)
(* the reset that should have removed it and make the worker drop newer    *)
(* ones; a frame put between the scene's look at the events and its look   *)
(* at the frame overtakes the reset before it and is removed by it.  As    *)
(* long as the worker keeps making frames (and the timeline comes to rest) *)
(* the scene nevertheless gets to the current stream.                      *)
(***************************************************************************)
CatchesUp ==
    []<><<PublishFrame \/ RecvFrame>>_vars => []<>(host.snapshot = worker.at)
===============================================================================
