-------------------------------- MODULE Bridge --------------------------------
(***************************************************************************)
(* The loop of the MSFS bridge (bindings/msfs/src/bridge.rs, ai.rs,        *)
(* aircraft.rs and simconnect.rs).  One selected aircraft flies as the     *)
(* simulator's user aircraft, whose motion is frozen meanwhile; the others *)
(* are shown as AI objects.  Creating an object is a request that the      *)
(* simulator answers some time later, or refuses; any call may fail, and   *)
(* the simulator may go away and come back.  The store changes under the   *)
(* loop between any two of its reads.                                      *)
(*                                                                         *)
(* What is drawn is left to module Rendering; whether an aircraft that is  *)
(* spawned has a usable pose is open.  An object bears the number of the   *)
(* request that made it.                                                   *)
(***************************************************************************)
EXTENDS Naturals, FiniteSets

CONSTANTS Aircraft,     \* ids, numbers in the order of the sort
          Requested,    \* settings.aircraft_id, or 0
          Home,         \* axes of the user aircraft that are frozen without the bridge
          MaxAi,        \* max_ai_aircraft
          MaxRequest,   \* bound on requests for objects
          MaxFault,     \* bound on failing calls
          MaxQuit       \* bound on the times the simulator goes away

ASSUME BridgeAssumption ==
    /\ Aircraft \subseteq Nat \ {0} /\ IsFiniteSet(Aircraft)
    /\ Requested \in Aircraft \cup {0} /\ Home \subseteq 1 .. 3
    /\ {MaxAi, MaxRequest, MaxFault, MaxQuit} \subseteq Nat

VARIABLES
    spawned,    \* the aircraft spawned at the cursor, by the store
    running,    \* cleared by Ctrl-C
    pc,         \* where run stands
    selected,   \* the aircraft flown as the user's, or 0
    frozen,     \* user_runtime.session.frozen
    original,   \* SimConnectClient.original_freeze
    acquired,   \* SimConnectClient.acquired_freeze
    candidates, \* candidates of this pass of AiRegistry::update
    active,     \* AiRegistry.active: the object of each aircraft, or 0
    pending,    \* AiRegistry.pending: the request of each aircraft, or 0
    asked,      \* number of the last request
    assigned,   \* SimConnectClient.assigned_objects
    refused,    \* SimConnectClient.exceptions
    alive,      \* whether the connection still has its simulator
    simUp,      \* whether a simulator runs
    open,       \* requests the simulator has not answered
    inbox,      \* its messages, not yet dispatched
    objects,    \* its AI objects
    axes,       \* the frozen axes of its user aircraft
    failed,     \* objects whose removal or take-over failed
    spoiled,    \* whether the axes were left in a state nobody will restore
    faults, quits

bridgeVars == <<running, selected, frozen, original, acquired, candidates, active, pending,
                asked, assigned, refused>>
simVars == <<alive, simUp, open, inbox, objects, axes>>
ghostVars == <<failed, spoiled, faults>>
vars == <<spawned, pc, bridgeVars, simVars, ghostVars, quits>>

Axis == 1 .. 3
None == [a \in Aircraft |-> 0]
NoMail == [assigned |-> {}, refused |-> {}, quit |-> FALSE]
Owned(f) == {f[a] : a \in Aircraft} \ {0}

Init ==
    /\ spawned = {} /\ running = TRUE /\ pc = "connect"
    /\ selected = 0 /\ frozen = FALSE /\ original = {} /\ acquired = FALSE
    /\ candidates = {} /\ active = None /\ pending = None /\ asked = 0
    /\ assigned = {} /\ refused = {}
    /\ alive = FALSE /\ simUp = TRUE /\ open = {} /\ inbox = NoMail /\ objects = {}
    /\ axes = Home
    /\ failed = {} /\ spoiled = FALSE /\ faults = 0 /\ quits = 0

(* A call to the simulator succeeds, or fails: always when it is gone.     *)
Works == alive /\ UNCHANGED faults
Fails == \/ ~alive /\ UNCHANGED faults
         \/ alive /\ faults < MaxFault /\ faults' = faults + 1

-------------------------------------------------------------------------------
(* The outside: uploads, Ctrl-C and the simulator.                         *)

(* A spawn or a despawn, or a cursor that moves across one.                *)
Upload(a) ==
    /\ pc # "stopped"
    /\ spawned' = IF a \in spawned THEN spawned \ {a} ELSE spawned \cup {a}
    /\ UNCHANGED <<pc, bridgeVars, simVars, ghostVars, quits>>

CtrlC ==
    /\ running /\ running' = FALSE
    /\ UNCHANGED <<spawned, pc, selected, frozen, original, acquired, candidates, active, pending,
                   asked, assigned, refused, simVars, ghostVars, quits>>

SimAssign(r) ==
    /\ r \in open /\ open' = open \ {r}
    /\ objects' = objects \cup {r}
    /\ inbox' = [inbox EXCEPT !.assigned = @ \cup {r}]
    /\ UNCHANGED <<spawned, pc, bridgeVars, alive, simUp, axes, ghostVars, quits>>

SimRefuse(r) ==
    /\ r \in open /\ open' = open \ {r}
    /\ inbox' = [inbox EXCEPT !.refused = @ \cup {r}]
    /\ UNCHANGED <<spawned, pc, bridgeVars, alive, simUp, objects, axes, ghostVars, quits>>

(* With or without a last message.                                         *)
SimQuit ==
    /\ simUp /\ quits < MaxQuit /\ pc # "stopped"
    /\ simUp' = FALSE /\ alive' = FALSE /\ quits' = quits + 1
    /\ open' = {} /\ objects' = {} /\ axes' = Home
    /\ \E said \in BOOLEAN : inbox' = [inbox EXCEPT !.quit = said /\ alive]
    /\ spoiled' = FALSE /\ failed' = {}
    /\ UNCHANGED <<spawned, pc, bridgeVars, faults>>

SimStart ==
    /\ ~simUp /\ simUp' = TRUE
    /\ UNCHANGED <<spawned, pc, bridgeVars, alive, open, inbox, objects, axes, ghostVars, quits>>

-------------------------------------------------------------------------------
(* The user aircraft.                                                      *)

(* The axes when the events of the first n of them have been transmitted.  *)
Transmitted(to, n) == {x \in to : x <= n} \cup {x \in axes : x > n}

(* set_frozen_for_object of the user aircraft: axis by axis, up to the one *)
(* whose event cannot be sent.                                             *)
SetFrozen(on) ==
    LET to == IF on THEN Axis ELSE original
    IN  \/ Works /\ axes' = Transmitted(to, 3) /\ acquired' = on /\ frozen' = on
        \/ /\ Fails /\ UNCHANGED <<acquired, frozen>>
           /\ \E n \in 0 .. 2 : axes' = Transmitted(to, IF alive THEN n ELSE 0)

(* ObjectSession::release; its error is only logged.                       *)
Release == IF frozen THEN SetFrozen(FALSE)
           ELSE UNCHANGED <<frozen, acquired, axes, faults>>

ToPc(next) == pc' = next

(* read_original_freeze: the answer, or what is assumed when it does not   *)
(* come in time.                                                           *)
OriginalFreeze == {axes, {}}

(* SimConnectClient::connect, when opening, configure and both requests    *)
(* for data succeed.                                                       *)
Connected ==
    /\ simUp /\ alive' = TRUE
    /\ \E read \in OriginalFreeze :
          original' = read /\ spoiled' = (spoiled \/ read # axes)

(* The outer loop of run; any call that connects may fail.                 *)
Connect ==
    /\ pc = "connect"
    /\ \/ ~running /\ ToPc("stopped") /\ UNCHANGED <<alive, original, spoiled>>
       \/ running /\ ToPc("pump") /\ Connected
       \/ running /\ UNCHANGED <<pc, alive, original, spoiled>>
    /\ UNCHANGED <<spawned, running, selected, frozen, acquired, candidates, active, pending, asked, assigned, refused, simUp, open, inbox, objects, axes,
                   failed, faults, quits>>

(* next_dispatch, until there is no message: where each one goes.          *)
Dispatched ==
    /\ assigned' = assigned \cup inbox.assigned
    /\ refused' = refused \cup inbox.refused
    /\ inbox' = NoMail

(* pump: every message that has come.                                      *)
Pump ==
    /\ pc = "pump"
    /\ IF ~running THEN ToPc("teardown") /\ UNCHANGED <<assigned, refused, inbox>>
       ELSE Dispatched /\ ToPc(IF inbox.quit THEN "teardown" ELSE "check")
    /\ UNCHANGED <<spawned, running, selected, frozen, original, acquired, candidates, active,
                   pending, asked, alive, simUp, open, objects, axes,
                   ghostVars, quits>>

(* The selected aircraft has despawned: motion is released.                *)
CheckSelected ==
    /\ pc = "check" /\ ToPc("select")
    /\ IF selected # 0 /\ selected \notin spawned
       THEN selected' = 0 /\ Release
       ELSE UNCHANGED <<selected, frozen, acquired, axes, faults>>
    /\ UNCHANGED <<spawned, running, original, candidates, active, pending, asked, assigned,
                   refused, alive, simUp, open, inbox, objects, failed, spoiled, quits>>

(* select_aircraft_at: the requested aircraft, else the one whose first    *)
(* spawn is earliest, which may be any of those spawned.                   *)
Select ==
    /\ pc = "select" /\ ToPc("user")
    /\ LET choice == {a \in spawned : Requested \in {0, a}}
       IN  IF selected = 0 /\ choice # {} THEN selected' \in choice ELSE UNCHANGED selected
    /\ UNCHANGED <<spawned, running, frozen, original, acquired, candidates, active, pending, asked, assigned, refused, simVars, ghostVars, quits>>

(* ObjectSession::apply: motion is frozen before the first frame is        *)
(* written; the first call that fails ends the connection.                 *)
Apply ==
    \/ /\ ~frozen /\ SetFrozen(TRUE)
       /\ ToPc(IF frozen' THEN "ai" ELSE "teardown")
       /\ spoiled' = (spoiled \/ (~frozen' /\ alive))
    \/ /\ ~frozen /\ alive /\ Fails /\ ToPc("teardown") /\ UNCHANGED spoiled
       /\ axes' = Transmitted(Axis, 3) /\ acquired' = TRUE /\ frozen' = TRUE
    \/ /\ frozen /\ UNCHANGED <<axes, acquired, frozen, spoiled>>
       /\ \/ Works /\ ToPc("ai")
          \/ Fails /\ ToPc("teardown")

(* process of the user aircraft: gear commands, whose failing ends the     *)
(* connection too, then a frame that changed and is valid.                 *)
ProcessUser ==
    /\ pc = "user"
    /\ \/ selected \in spawned /\ Apply
       \/ /\ selected # 0 /\ Fails /\ ToPc("teardown")
          /\ UNCHANGED <<axes, acquired, frozen, spoiled>>
       \/ ToPc("ai") /\ UNCHANGED <<axes, acquired, frozen, spoiled, faults>>
    /\ UNCHANGED <<spawned, running, selected, original, candidates, active, pending, asked,
                   assigned, refused, alive, simUp, open, inbox, objects, failed, quits>>

-------------------------------------------------------------------------------
(* AiRegistry::update.                                                     *)

(* candidates: spawned, not the user's, the first MaxAi of the sorted ids. *)
Candidates ==
    LET others == spawned \ {selected}
    IN  {a \in others : Cardinality({b \in others : b < a}) < MaxAi}

Keep(f, ids) == [a \in Aircraft |-> IF a \in ids THEN f[a] ELSE 0]

(* One call for each member of good and bad.                               *)
Calls(good, bad) ==
    IF alive THEN faults' = faults + Cardinality(bad) /\ faults' <= MaxFault
    ELSE good = {} /\ UNCHANGED faults

(* Mutant: an entry is dropped, its object stays.                          *)
RemoveMissingHalf(lost) ==
    /\ active' = Keep(active, candidates')
    /\ lost = {} /\ UNCHANGED <<objects, faults>>

(* remove_missing of the active entries; errors are only logged.           *)
RemoveMissing(lost) ==
    /\ active' = Keep(active, candidates')
    /\ LET gone == Owned(active) \ Owned(active')
       IN  /\ lost \subseteq gone
           /\ Calls(gone \ lost, lost)
           /\ objects' = objects \ (gone \ lost)

(* Pending entries leave with their aircraft, with an exception or when 10 *)
(* seconds are over; the last two set retry_after.                         *)
UpdatePending ==
    /\ pc = "ai" /\ ToPc("assign")
    /\ candidates' = Candidates
    /\ \E lost \in SUBSET Owned(active), late \in SUBSET candidates' :
         LET kept == Keep(pending, candidates')
             over == {a \in Aircraft : kept[a] # 0 /\ (kept[a] \in refused \/ a \in late)}
         IN  /\ RemoveMissing(lost)
             /\ pending' = Keep(kept, Aircraft \ over)
             /\ failed' = failed \cup lost
    /\ refused' = {}
    /\ UNCHANGED <<spawned, running, selected, frozen, original, acquired, asked, assigned,
                   alive, simUp, open, inbox, axes, spoiled, quits>>

(* take_assigned_object finds an object for the pending entry.             *)
HasObject(a) == pending[a] \in assigned

(* Objects that were assigned to a pending entry are taken over, one call  *)
(* after the other; the first error ends update.                           *)
UpdateAssigned ==
    LET ready == {a \in Aircraft : HasObject(a)}
        Take(done, left) ==
            /\ active' = [a \in Aircraft |-> IF a \in done THEN pending[a] ELSE active[a]]
            /\ pending' = Keep(pending, Aircraft \ (done \cup left))
            /\ assigned' = assigned \ {pending[a] : a \in done \cup left}
            /\ failed' = failed \cup {pending[a] : a \in left}
            /\ Calls(done, left)
    IN  /\ pc = "assign"
        /\ \/ Take(ready, {}) /\ ToPc("create")
           \/ /\ \E a \in ready, done \in SUBSET ready : a \notin done /\ Take(done, {a})
              /\ ToPc("teardown")
        /\ UNCHANGED <<spawned, running, selected, frozen, original, acquired, candidates, asked, refused, alive, simUp, open, inbox, objects, axes,
                       spoiled, quits>>

(* Candidates without an object are asked for, smallest id first, while    *)
(* there is room.  One without a usable pose, or whose retry_after is not  *)
(* over, is passed over; where the call fails, retry_after is set.         *)
Wanted == {a \in candidates : active[a] = 0 /\ pending[a] = 0 /\ a \in spawned}
Room == MaxAi - Cardinality(Owned(active)) - Cardinality(Owned(pending))

(* create_ai_aircraft: every attempt takes a number, one after the other.  *)
RequestId(a, tried) == asked + Cardinality({b \in tried : b <= a})

(* An attempt is sent and entered; or fails unsent; or is sent `blind`,    *)
(* when the number of its packet cannot be read afterwards: the simulator  *)
(* will answer a request that the registry does not know of.               *)
Create ==
    /\ pc = "create" /\ ToPc("draw")
    /\ \E due \in SUBSET Wanted, sent \in SUBSET Wanted :
         LET tried == {a \in due : Cardinality({b \in sent : b < a}) < Room}
         IN  /\ sent \subseteq tried
             /\ Calls(sent, tried \ sent)
             /\ pending' = [a \in Aircraft |->
                              IF a \in sent THEN RequestId(a, tried) ELSE pending[a]]
             /\ asked' = asked + Cardinality(tried) /\ asked' <= MaxRequest
             /\ \E blind \in SUBSET (tried \ sent) :
                   /\ blind # {} => alive
                   /\ open' = open \cup {RequestId(a, tried) : a \in sent \cup blind}
    /\ UNCHANGED <<spawned, running, selected, frozen, original, acquired, candidates, active,
                   assigned, refused, alive, simUp, inbox, objects, axes,
                   failed, spoiled, quits>>

(* process of the AI aircraft, then the sleep until the next pass.         *)
ProcessAi ==
    /\ pc = "draw"
    /\ \/ Calls(Owned(active), {}) /\ ToPc("pump")
       \/ \E o \in Owned(active) : Calls({}, {o}) /\ ToPc("teardown")
    /\ candidates' = {}
    /\ UNCHANGED <<spawned, running, selected, frozen, original, acquired, active, pending, asked, assigned, refused, simVars, failed, spoiled, quits>>

(* Mutant: dropping the client only closes it.                             *)
AttemptsOnce == IF frozen THEN 1 ELSE 0

(* The attempts to restore the axes: ObjectSession::release, and once more *)
(* when SimConnectClient is dropped and still holds them.                  *)
Attempts == (IF frozen THEN 1 ELSE 0) + (IF acquired THEN 1 ELSE 0)

(* The end of the inner loop: AiRegistry::clear, the release, and the drop *)
(* of the client, whose close takes its objects and requests away.         *)
Teardown ==
    /\ pc = "teardown" /\ ToPc("connect")
    /\ active' = None /\ pending' = None /\ candidates' = {}
    /\ assigned' = {} /\ refused' = {} /\ selected' = 0
    /\ frozen' = FALSE /\ acquired' = FALSE /\ original' = {} /\ asked' = 0
    /\ \E bad \in 0 .. Attempts :
         /\ IF alive THEN faults' = faults + bad /\ faults' <= MaxFault ELSE UNCHANGED faults
         /\ axes' = IF alive /\ bad < Attempts THEN original ELSE axes
    /\ alive' = FALSE /\ open' = {} /\ inbox' = NoMail /\ objects' = {}
    /\ failed' = {}
    /\ UNCHANGED <<spawned, running, simUp, spoiled, quits>>

Update == UpdatePending \/ UpdateAssigned \/ Create \/ ProcessAi

Next ==
    \/ \E a \in Aircraft : Upload(a)
    \/ CtrlC \/ SimQuit \/ SimStart
    \/ \E r \in open : SimAssign(r) \/ SimRefuse(r)
    \/ Connect \/ Pump \/ CheckSelected \/ Select \/ ProcessUser
    \/ Update
    \/ Teardown

Spec == Init /\ [][Next]_vars

-------------------------------------------------------------------------------
(* Objects the simulator has announced and no pending entry waits for.     *)
Unclaimed == (inbox.assigned \cup assigned) \ Owned(pending)

(***************************************************************************)
(* Where every AI object of the simulator is: the registry flies it, or it *)
(* is announced and not yet taken over, or the call that was to remove it  *)
(* or to take it over has failed; no object is in two of these places, and *)
(* none belongs to two aircraft.  max_ai_aircraft bounds the objects       *)
(* except for those last ones, which are no more than calls have failed,   *)
(* and except for the unclaimed ones: an object whose request was given up *)
(* (ai.rs:102, 216), answered by then or not, or sent without a number     *)
(* (simconnect.rs:502) stays on the list of assigned objects for good.     *)
(***************************************************************************)
AiAccounted ==
    alive =>
      /\ objects = Owned(active) \cup inbox.assigned \cup assigned \cup failed
      /\ Owned(active) \cap (inbox.assigned \cup assigned \cup failed) = {}
      /\ failed \cap (inbox.assigned \cup assigned) = {}
      /\ \A a, b \in Aircraft : active[a] # 0 /\ a # b => active[a] \notin {active[b], pending[b]}
      /\ Cardinality(objects \ (Unclaimed \cup failed)) <= MaxAi
      /\ Cardinality(failed) <= faults

(***************************************************************************)
(* A bridge that has disconnected, to stop or to connect again, has left   *)
(* the freeze state of the user aircraft as it found it, also when one     *)
(* call fails; except one that fails in the middle of freezing, or a       *)
(* freeze state that could not be read.                                    *)
(***************************************************************************)
FreezeRestored ==
    pc \in {"connect", "stopped"} /\ ~spoiled /\ faults <= 1 => axes = Home
===============================================================================
