----------------------------- MODULE BridgeProofs -----------------------------
(***************************************************************************)
(* Proofs about module Bridge: the user aircraft gets its freeze state     *)
(* back, and every AI object has its place.                                *)
(***************************************************************************)
EXTENDS Bridge, TLAPS, FiniteSetTheorems

(***************************************************************************)
(* The inductive invariant of the freeze state.  The session and the       *)
(* client agree on whether motion is frozen; unless something was spoiled  *)
(* or a second call has failed, the client remembers the state it found,   *)
(* and an aircraft whose motion is not frozen, or whose simulator has gone *)
(* away, is in that state.                                                 *)
(***************************************************************************)
FreezeTypeOK ==
    /\ axes \subseteq Axis /\ original \subseteq Axis
    /\ frozen \in BOOLEAN /\ acquired = frozen
    /\ alive \in BOOLEAN /\ spoiled \in BOOLEAN
    /\ faults \in Nat

Apart == pc \in {"connect", "stopped"}

Remembered ==
    ~spoiled /\ faults <= 1 =>
        /\ ~alive \/ ~frozen => axes = Home
        /\ alive => original = Home

FreezeInv ==
    /\ FreezeTypeOK
    /\ Apart => ~alive /\ ~frozen
    /\ Remembered

(***************************************************************************)
(* The inductive invariant of the AI objects.  Requests are numbered from  *)
(* 1 to `asked`; the simulator has each one open, made an object of it, or *)
(* refused it; what it answered is in the inbox or has been dispatched,    *)
(* until the object is taken over.                                         *)
(***************************************************************************)
RegistryTypeOK ==
    /\ alive \in BOOLEAN /\ faults \in Nat
    /\ active \in [Aircraft -> Nat] /\ pending \in [Aircraft -> Nat] /\ asked \in Nat
    /\ open \in SUBSET Nat /\ objects \in SUBSET Nat
    /\ assigned \in SUBSET Nat /\ refused \in SUBSET Nat
    /\ inbox \in [assigned : SUBSET Nat, refused : SUBSET Nat, quit : BOOLEAN]

(* Without a connection there is nothing on either side.                   *)
Blank ==
    /\ active = None /\ pending = None /\ asked = 0
    /\ assigned = {} /\ refused = {}
    /\ open = {} /\ inbox = NoMail /\ objects = {} /\ failed = {}

Numbered ==
    open \cup objects \cup Owned(pending) \cup Owned(active) \cup refused \cup inbox.refused
        \subseteq 1 .. asked

(* What the simulator has said of a request is the last word on it.        *)
Answered ==
    /\ open \cap objects = {}
    /\ (refused \cup inbox.refused) \cap (open \cup objects) = {}

(* Every object is flown, announced or failed, and in one place only.      *)
Placed ==
    /\ objects = Owned(active) \cup inbox.assigned \cup assigned \cup failed
    /\ inbox.assigned \cap assigned = {}
    /\ Owned(active) \cap (inbox.assigned \cup assigned \cup failed) = {}
    /\ failed \cap (inbox.assigned \cup assigned) = {}

(* An object fails with a call.                                            *)
Blamed == IsFiniteSet(failed) /\ Cardinality(failed) <= faults

(* An aircraft has an object or a request, and none has another's.         *)
Distinct ==
    /\ \A a \in Aircraft : active[a] = 0 \/ pending[a] = 0
    /\ \A a, b \in Aircraft : a # b =>
          /\ active[a] # 0 => active[a] \notin {active[b], pending[b]}
          /\ pending[a] # 0 => pending[a] \notin {active[b], pending[b]}

Limited == Cardinality(Owned(active) \cup Owned(pending)) <= MaxAi

RegistryInv ==
    /\ RegistryTypeOK
    /\ Apart => ~alive /\ Blank
    /\ alive => Numbered /\ Answered /\ Placed /\ Blamed /\ Distinct /\ Limited

(***************************************************************************)
(* A registry has as many entries as there are aircraft, at most.          *)
(***************************************************************************)
LEMMA OwnedFinite ==
    ASSUME NEW f
    PROVE  IsFiniteSet(Owned(f)) /\ Cardinality(Owned(f)) \in Nat
<1> DEFINE T == {f[a] : a \in Aircraft}
           g == [a \in Aircraft |-> f[a]]
<1>1. g \in Surjection(Aircraft, T)
  BY DEF Surjection
<1>2. IsFiniteSet(T)
  BY <1>1, BridgeAssumption, FS_Surjection
<1>3. IsFiniteSet(Owned(f))
  BY <1>2, FS_Subset DEF Owned
<1> QED
  BY <1>3, FS_CardinalityType

(***************************************************************************)
(* Calls that fail only ever add to the number of faults.                  *)
(***************************************************************************)
LEMMA CallsCount ==
    ASSUME faults \in Nat, NEW good, NEW bad, IsFiniteSet(bad), Calls(good, bad)
    PROVE  faults' \in Nat /\ faults' >= faults
<1>1. Cardinality(bad) \in Nat
  BY FS_CardinalityType
<1> QED
  BY <1>1 DEF Calls

(***************************************************************************)
(* Spawned aircraft and candidates are aircraft.                           *)
(***************************************************************************)
Known == spawned \subseteq Aircraft /\ candidates \subseteq Aircraft

(***************************************************************************)
(* The store and AiRegistry::update name only aircraft there are.          *)
(***************************************************************************)
LEMMA KnownInvariant == Spec => []Known
<1>1. Init => Known
  BY DEF Init, Known
<1>2. Known /\ [Next]_vars => Known'
  <2> SUFFICES ASSUME Known, [Next]_vars PROVE Known'
    OBVIOUS
  <2> USE DEF bridgeVars, simVars, ghostVars
  <2>1. ASSUME NEW a \in Aircraft, Upload(a) PROVE Known'
    BY <2>1 DEF Upload, Known
  <2>2. CASE UpdatePending
    BY <2>2 DEF UpdatePending, Candidates, Known
  <2>3. CASE ProcessAi \/ Teardown
    BY <2>3 DEF ProcessAi, Teardown, Known
  <2>4. CASE UNCHANGED <<spawned, candidates>>
    BY <2>4 DEF Known
  <2>5. CtrlC \/ SimQuit \/ SimStart \/ Connect \/ Pump \/ CheckSelected \/ Select
          => UNCHANGED <<spawned, candidates>>
    BY DEF CtrlC, SimQuit, SimStart, Connect, Pump, CheckSelected, Select
  <2>6. ProcessUser \/ UpdateAssigned \/ Create => UNCHANGED <<spawned, candidates>>
    BY DEF ProcessUser, UpdateAssigned, Create
  <2>7. \A r \in open : SimAssign(r) \/ SimRefuse(r) => UNCHANGED <<spawned, candidates>>
    BY DEF SimAssign, SimRefuse
  <2>8. UNCHANGED vars => UNCHANGED <<spawned, candidates>>
    BY DEF vars
  <2> QED
    BY <2>1, <2>2, <2>3, <2>4, <2>5, <2>6, <2>7, <2>8 DEF Next, Update
<1> QED
  BY <1>1, <1>2, PTL DEF Spec

(***************************************************************************)
(* A failing call is never taken back.                                     *)
(***************************************************************************)
LEMMA FaultsGrow ==
    ASSUME Known, [Next]_vars, faults \in Nat
    PROVE  faults' \in Nat /\ faults' >= faults
<1> USE DEF bridgeVars, simVars, ghostVars
<1> DEFINE Grows == faults' \in Nat /\ faults' >= faults
<1>0. UNCHANGED faults \/ Works \/ Fails => Grows
  BY DEF Works, Fails
<1> HIDE DEF Grows
<1>1. ASSUME NEW a \in Aircraft, Upload(a) PROVE Grows
  BY <1>0, <1>1 DEF Upload
<1>2. ASSUME NEW r \in open, SimAssign(r) \/ SimRefuse(r) PROVE Grows
  BY <1>0, <1>2 DEF SimAssign, SimRefuse
<1>3. CtrlC \/ SimQuit \/ SimStart \/ Connect \/ Pump \/ Select => Grows
  BY <1>0 DEF CtrlC, SimQuit, SimStart, Connect, Pump, Select
<1>4. CheckSelected \/ ProcessUser => Grows
  <2>1. \A on \in BOOLEAN : SetFrozen(on) => Works \/ Fails
    BY DEF SetFrozen
  <2>2. CheckSelected => UNCHANGED faults \/ Works \/ Fails
    BY <2>1 DEF CheckSelected, Release
  <2>3. ProcessUser => UNCHANGED faults \/ Works \/ Fails
    BY <2>1 DEF ProcessUser, Apply
  <2> QED
    BY <1>0, <2>2, <2>3
<1>5. ASSUME UpdatePending PROVE Grows
  <2>1. PICK lost \in SUBSET Owned(active) : RemoveMissing(lost)
    BY <1>5 DEF UpdatePending
  <2>2. IsFiniteSet(lost)
    BY OwnedFinite, FS_Subset
  <2> QED
    BY <2>1, <2>2, CallsCount DEF RemoveMissing, Grows
<1>6. ASSUME UpdateAssigned PROVE Grows
  <2>1. \/ Calls({a \in Aircraft : HasObject(a)}, {})
        \/ \E a \in Aircraft, done \in SUBSET Aircraft : Calls(done, {a})
    BY <1>6 DEF UpdateAssigned
  <2> QED
    BY <2>1, CallsCount, FS_EmptySet, FS_Singleton DEF Grows
<1>7. ASSUME Create PROVE Grows
  <2>1. PICK due \in SUBSET Wanted, sent \in SUBSET Wanted :
          Calls(sent, {a \in due : Cardinality({b \in sent : b < a}) < Room} \ sent)
    BY <1>7 DEF Create
  <2> DEFINE bad == {a \in due : Cardinality({b \in sent : b < a}) < Room} \ sent
  <2>2. bad \in SUBSET Aircraft
    BY DEF Wanted, Known
  <2>3. IsFiniteSet(bad)
    BY <2>2, BridgeAssumption, FS_Subset
  <2> HIDE DEF bad
  <2> QED
    BY <2>1, <2>3, CallsCount DEF bad, Grows
<1>8. ASSUME ProcessAi PROVE Grows
  <2>1. \/ Calls(Owned(active), {})
        \/ \E o \in Owned(active) : Calls({}, {o})
    BY <1>8 DEF ProcessAi
  <2> QED
    BY <2>1, CallsCount, FS_EmptySet, FS_Singleton DEF Grows
<1>9. ASSUME Teardown PROVE Grows
  <2>1. PICK bad \in 0 .. Attempts :
          IF alive THEN faults' = faults + bad /\ faults' <= MaxFault ELSE UNCHANGED faults
    BY <1>9 DEF Teardown
  <2>2. Attempts \in Nat
    BY DEF Attempts
  <2> QED
    BY <2>1, <2>2 DEF Grows
<1>10. UNCHANGED vars => Grows
  BY <1>0 DEF vars
<1>11. Grows
  BY <1>1, <1>2, <1>3, <1>4, <1>5, <1>6, <1>7, <1>8, <1>9, <1>10 DEF Next, Update
<1> QED
  BY <1>11 DEF Grows

-------------------------------------------------------------------------------
(***************************************************************************)
(* The freeze state: at first it is as the pilot left it.                  *)
(***************************************************************************)
LEMMA FreezeInit == Init => FreezeInv
<1> SUFFICES ASSUME Init PROVE FreezeInv
  OBVIOUS
<1>1. /\ axes = Home /\ original = {} /\ frozen = FALSE /\ acquired = FALSE
      /\ alive = FALSE /\ spoiled = FALSE /\ faults = 0
  BY DEF Init
<1>2. FreezeTypeOK
  BY <1>1, BridgeAssumption DEF FreezeTypeOK, Axis
<1>3. ~alive /\ ~frozen
  BY <1>1
<1> QED
  BY <1>1, <1>2, <1>3 DEF FreezeInv, Remembered

(***************************************************************************)
(* Steps that touch neither the axes nor what the client knows of them.    *)
(***************************************************************************)
LEMMA FreezeUntouched ==
    ASSUME FreezeInv, UNCHANGED <<axes, original, frozen, acquired, alive, spoiled>>,
           faults' \in Nat, faults' >= faults, Apart' => Apart
    PROVE  FreezeInv'
<1>1. FreezeTypeOK'
  BY DEF FreezeInv, FreezeTypeOK
<1>2. (Apart => ~alive /\ ~frozen)'
  BY DEF FreezeInv
<1>3. faults' <= 1 => faults <= 1
  BY DEF FreezeInv, FreezeTypeOK
<1>4. Remembered'
  BY <1>3 DEF FreezeInv, Remembered
<1> QED
  BY <1>1, <1>2, <1>4 DEF FreezeInv

(***************************************************************************)
(* Axis by axis: after all three the axes are as told, after none as they  *)
(* were.                                                                   *)
(***************************************************************************)
LEMMA AxesTransmitted ==
    ASSUME axes \subseteq Axis, NEW to \in SUBSET Axis
    PROVE  /\ Transmitted(to, 3) = to
           /\ Transmitted(to, 0) = axes
           /\ \A n \in 0 .. 3 : Transmitted(to, n) \subseteq Axis
<1>1. /\ axes \subseteq Nat /\ to \subseteq Nat
      /\ \A x \in axes \cup to : x \in Axis /\ x <= 3 /\ x > 0 /\ ~(x > 3) /\ ~(x <= 0)
  BY DEF Axis
<1> QED
  BY <1>1 DEF Transmitted

(***************************************************************************)
(* SetFrozen: a call that works sets all the axes, a call that fails       *)
(* counts as a fault or finds the simulator gone and the axes untouched.   *)
(***************************************************************************)
LEMMA FreezeSet ==
    ASSUME FreezeInv, NEW on \in BOOLEAN, SetFrozen(on)
    PROVE  /\ axes' \subseteq Axis /\ faults' \in Nat /\ faults' >= faults
           /\ \/ /\ alive /\ frozen' = on /\ acquired' = on /\ faults' = faults
                 /\ axes' = IF on THEN Axis ELSE original
              \/ /\ frozen' = frozen /\ acquired' = acquired
                 /\ \/ alive /\ faults' = faults + 1
                    \/ ~alive /\ axes' = axes
<1> DEFINE to == IF on THEN Axis ELSE original
<1>1. FreezeTypeOK
  BY DEF FreezeInv
<1>2. to \in SUBSET Axis
  BY <1>1 DEF FreezeTypeOK
<1> HIDE DEF to
<1>3. /\ Transmitted(to, 3) = to /\ Transmitted(to, 0) = axes
      /\ \A n \in 0 .. 3 : Transmitted(to, n) \subseteq Axis
  BY <1>1, <1>2, AxesTransmitted DEF FreezeTypeOK
<1>4. faults \in Nat
  BY <1>1 DEF FreezeTypeOK
<1>5. CASE Works /\ axes' = Transmitted(to, 3) /\ acquired' = on /\ frozen' = on
  <2>1. axes' = to /\ alive /\ faults' = faults
    BY <1>3, <1>5 DEF Works
  <2> QED
    BY <1>2, <1>4, <1>5, <2>1 DEF to
<1>6. CASE /\ Fails /\ UNCHANGED <<acquired, frozen>>
           /\ \E n \in 0 .. 2 : axes' = Transmitted(to, IF alive THEN n ELSE 0)
  <2>1. PICK n \in 0 .. 2 : axes' = Transmitted(to, IF alive THEN n ELSE 0)
    BY <1>6
  <2>2. CASE alive
    <3>1. axes' = Transmitted(to, n)
      BY <2>1, <2>2
    <3>2. faults' = faults + 1
      BY <1>6, <2>2 DEF Fails
    <3> QED
      BY <1>3, <1>4, <1>6, <2>2, <3>1, <3>2
  <2>3. CASE ~alive
    <3>1. axes' = axes
      BY <1>3, <2>1, <2>3
    <3>2. faults' = faults
      BY <1>6, <2>3 DEF Fails
    <3> QED
      BY <1>1, <1>4, <1>6, <2>3, <3>1, <3>2 DEF FreezeTypeOK
  <2> QED
    BY <2>2, <2>3
<1> QED
  BY <1>5, <1>6 DEF SetFrozen, to

(***************************************************************************)
(* ObjectSession::release gives the axes back, or still holds them.        *)
(***************************************************************************)
LEMMA FreezeReleased ==
    ASSUME FreezeInv, Release, UNCHANGED <<original, alive, spoiled>>, ~Apart'
    PROVE  FreezeInv'
<1>0. FreezeTypeOK /\ Remembered
  BY DEF FreezeInv
<1>1. CASE ~frozen
  BY <1>0, <1>1, FreezeUntouched DEF Release, FreezeTypeOK
<1>2. CASE frozen
  <2>1. SetFrozen(FALSE)
    BY <1>2 DEF Release
  <2>2. /\ axes' \subseteq Axis /\ faults' \in Nat /\ faults' >= faults
        /\ \/ /\ alive /\ frozen' = FALSE /\ acquired' = FALSE /\ faults' = faults
              /\ axes' = original
           \/ /\ frozen' = frozen /\ acquired' = acquired
              /\ \/ alive /\ faults' = faults + 1
                 \/ ~alive /\ axes' = axes
    BY <2>1, FreezeSet
  <2>3. faults' <= 1 => faults <= 1
    BY <1>0, <2>2 DEF FreezeTypeOK
  <2>4. FreezeTypeOK'
    BY <1>0, <2>2 DEF FreezeTypeOK
  <2>5. Remembered'
    <3>1. CASE alive /\ axes' = original
      BY <1>0, <2>3, <3>1 DEF Remembered
    <3>2. CASE ~alive /\ axes' = axes
      BY <1>0, <2>3, <3>2 DEF Remembered
    <3>3. CASE alive /\ frozen' = frozen
      <4>1. frozen'
        BY <1>2, <3>3
      <4> QED
        BY <1>0, <2>3, <3>3, <4>1 DEF Remembered
    <3> QED
      BY <2>2, <3>1, <3>2, <3>3
  <2> QED
    BY <2>4, <2>5 DEF FreezeInv
<1> QED
  BY <1>1, <1>2

(***************************************************************************)
(* ObjectSession::apply freezes the axes, also when it fails later on, or  *)
(* spoils them.                                                            *)
(***************************************************************************)
LEMMA FreezeApplied ==
    ASSUME FreezeInv, Apply, UNCHANGED <<original, alive>>
    PROVE  FreezeInv'
<1>0. FreezeTypeOK /\ Remembered
  BY DEF FreezeInv
<1>p. ~Apart'
  BY DEF Apply, ToPc, Apart
<1>1. CASE /\ frozen /\ UNCHANGED <<axes, acquired, frozen, spoiled>>
           /\ Works \/ Fails
  <2>1. faults' \in Nat /\ faults' >= faults
    BY <1>0, <1>1 DEF Works, Fails, FreezeTypeOK
  <2> QED
    BY <1>1, <1>p, <2>1, FreezeUntouched
<1>2. CASE ~frozen /\ SetFrozen(TRUE) /\ spoiled' = (spoiled \/ (~frozen' /\ alive))
  <2>2. /\ axes' \subseteq Axis /\ faults' \in Nat /\ faults' >= faults
        /\ \/ /\ alive /\ frozen' = TRUE /\ acquired' = TRUE /\ faults' = faults
              /\ axes' = Axis
           \/ /\ frozen' = frozen /\ acquired' = acquired
              /\ \/ alive /\ faults' = faults + 1
                 \/ ~alive /\ axes' = axes
    BY <1>2, FreezeSet
  <2>3. faults' <= 1 => faults <= 1
    BY <1>0, <2>2 DEF FreezeTypeOK
  <2>s. spoiled' \in BOOLEAN /\ (spoiled => spoiled') /\ (~frozen' /\ alive => spoiled')
    BY <1>2
  <2>4. FreezeTypeOK'
    BY <1>0, <2>2, <2>s DEF FreezeTypeOK
  <2>5. Remembered'
    BY <1>0, <1>2, <2>2, <2>3, <2>s DEF Remembered
  <2> QED
    BY <1>p, <2>4, <2>5 DEF FreezeInv
<1>3. CASE /\ ~frozen /\ alive /\ Fails /\ UNCHANGED spoiled
           /\ axes' = Transmitted(Axis, 3) /\ acquired' = TRUE /\ frozen' = TRUE
  <2>1. axes' = Axis
    BY <1>0, <1>3, AxesTransmitted DEF FreezeTypeOK
  <2>2. faults' = faults + 1 /\ faults' \in Nat /\ (faults' <= 1 => faults <= 1)
    BY <1>0, <1>3 DEF Fails, FreezeTypeOK
  <2>3. FreezeTypeOK'
    BY <1>0, <1>3, <2>1, <2>2 DEF FreezeTypeOK
  <2>4. Remembered'
    BY <1>0, <1>3, <2>2 DEF Remembered
  <2> QED
    BY <1>p, <2>3, <2>4 DEF FreezeInv
<1> QED
  BY <1>1, <1>2, <1>3 DEF Apply

(***************************************************************************)
(* The end of a connection: with at most one failing call, one of the two  *)
(* attempts restores the axes.                                             *)
(***************************************************************************)
LEMMA FreezeTornDown ==
    ASSUME FreezeInv, Teardown
    PROVE  FreezeInv'
<1>0. FreezeTypeOK /\ Remembered
  BY DEF FreezeInv
<1>1. /\ frozen' = FALSE /\ acquired' = FALSE /\ original' = {} /\ alive' = FALSE
      /\ spoiled' = spoiled
  BY DEF Teardown
<1>2. PICK bad \in 0 .. Attempts :
        /\ IF alive THEN faults' = faults + bad /\ faults' <= MaxFault ELSE UNCHANGED faults
        /\ axes' = IF alive /\ bad < Attempts THEN original ELSE axes
  BY DEF Teardown
<1>3. Attempts = IF frozen THEN 2 ELSE 0
  BY <1>0 DEF Attempts, FreezeTypeOK
<1>4. bad \in Nat /\ faults \in Nat
  BY <1>0, <1>2, <1>3 DEF FreezeTypeOK
<1>5. faults' \in Nat /\ faults' >= faults /\ axes' \subseteq Axis
  BY <1>0, <1>2, <1>4 DEF FreezeTypeOK
<1>6. FreezeTypeOK'
  BY <1>0, <1>1, <1>5 DEF FreezeTypeOK
<1>7. ~alive' /\ ~frozen'
  BY <1>1
<1>8. ASSUME ~spoiled', faults' <= 1 PROVE axes' = Home
  <2>1. ~spoiled /\ faults <= 1
    BY <1>1, <1>4, <1>5, <1>8
  <2>2. CASE ~alive
    BY <1>0, <1>2, <2>1, <2>2 DEF Remembered
  <2>3. CASE alive /\ ~frozen
    <3>1. bad = 0 /\ Attempts = 0
      BY <1>2, <1>3, <2>3
    <3> QED
      BY <1>0, <1>2, <2>1, <2>3, <3>1 DEF Remembered
  <2>4. CASE alive /\ frozen
    <3>1. bad < Attempts
      BY <1>2, <1>3, <1>4, <1>8, <2>4
    <3> QED
      BY <1>0, <1>2, <2>1, <2>4, <3>1 DEF Remembered
  <2> QED
    BY <2>2, <2>3, <2>4
<1> QED
  BY <1>6, <1>7, <1>8 DEF FreezeInv, Remembered

(***************************************************************************)
(* The freeze state is remembered in every reachable state.                *)
(***************************************************************************)
THEOREM FreezeInvariant == Spec => []FreezeInv
<1>1. Known /\ FreezeInv /\ [Next]_vars => FreezeInv'
  <2> SUFFICES ASSUME Known, FreezeInv, [Next]_vars PROVE FreezeInv'
    OBVIOUS
  <2> USE DEF bridgeVars, simVars, ghostVars
  <2>0. FreezeTypeOK /\ Remembered /\ faults \in Nat /\ faults >= faults
    BY DEF FreezeInv, FreezeTypeOK
  <2>f. faults' \in Nat /\ faults' >= faults
    BY <2>0, FaultsGrow
  <2>1. ASSUME NEW a \in Aircraft, Upload(a) PROVE FreezeInv'
    BY <2>0, <2>1, FreezeUntouched DEF Upload, Apart
  <2>2. CASE CtrlC \/ SimStart
    BY <2>0, <2>2, FreezeUntouched DEF CtrlC, SimStart, Apart
  <2>3. ASSUME NEW r \in open, SimAssign(r) \/ SimRefuse(r) PROVE FreezeInv'
    BY <2>0, <2>3, FreezeUntouched DEF SimAssign, SimRefuse, Apart
  <2>4. CASE SimQuit
    <3>1. /\ alive' = FALSE /\ axes' = Home /\ spoiled' = FALSE
          /\ UNCHANGED <<pc, original, frozen, acquired, faults>>
      BY <2>4 DEF SimQuit
    <3>2. FreezeTypeOK'
      BY <2>0, <3>1, BridgeAssumption DEF FreezeTypeOK, Axis
    <3>3. Remembered' /\ (Apart' => ~alive' /\ ~frozen')
      BY <3>1 DEF FreezeInv, Remembered, Apart
    <3> QED
      BY <3>2, <3>3 DEF FreezeInv
  <2>5. CASE Connect
    <3>1. CASE UNCHANGED <<alive, original, spoiled>>
      BY <2>0, <2>5, <3>1, FreezeUntouched DEF Connect, Apart, ToPc
    <3>2. CASE running /\ ToPc("pump") /\ Connected
      <4>1. ~alive /\ ~frozen
        BY <2>5 DEF Connect, FreezeInv, Apart
      <4>2. /\ alive' = TRUE /\ UNCHANGED <<frozen, acquired, axes, faults>> /\ ~Apart'
        BY <2>5, <3>2 DEF Connect, Connected, ToPc, Apart
      <4>3. PICK read \in OriginalFreeze :
              original' = read /\ spoiled' = (spoiled \/ read # axes)
        BY <3>2 DEF Connected
      <4>4. /\ original' \subseteq Axis /\ spoiled' \in BOOLEAN
            /\ ~spoiled' => ~spoiled /\ original' = axes
        BY <2>0, <4>3 DEF OriginalFreeze, FreezeTypeOK
      <4>5. FreezeTypeOK'
        BY <2>0, <4>2, <4>4 DEF FreezeTypeOK
      <4>6. Remembered'
        BY <2>0, <4>1, <4>2, <4>4 DEF Remembered
      <4> QED
        BY <4>2, <4>5, <4>6 DEF FreezeInv
    <3> QED
      BY <2>5, <3>1, <3>2 DEF Connect
  <2>6. CASE Pump
    BY <2>0, <2>6, FreezeUntouched DEF Pump, ToPc, Apart
  <2>7. CASE CheckSelected
    <3>1. CASE Release
      BY <2>7, <3>1, FreezeReleased DEF CheckSelected, ToPc, Apart
    <3>2. CASE UNCHANGED <<frozen, acquired, axes, faults>>
      BY <2>0, <2>7, <3>2, FreezeUntouched DEF CheckSelected, ToPc, Apart
    <3> QED
      BY <2>7, <3>1, <3>2 DEF CheckSelected
  <2>8. CASE Select
    BY <2>0, <2>8, FreezeUntouched DEF Select, ToPc, Apart
  <2>9. CASE ProcessUser
    <3>1. CASE Apply
      BY <2>9, <3>1, FreezeApplied DEF ProcessUser
    <3>2. CASE /\ ToPc("ai") \/ ToPc("teardown")
               /\ UNCHANGED <<axes, acquired, frozen, spoiled>>
      BY <2>f, <2>9, <3>2, FreezeUntouched DEF ProcessUser, ToPc, Apart
    <3> QED
      BY <2>9, <3>1, <3>2 DEF ProcessUser
  <2>10. CASE Update
    <3>1. UNCHANGED <<axes, original, frozen, acquired, alive, spoiled>> /\ ~Apart'
      BY <2>10 DEF Update, UpdatePending, UpdateAssigned, Create, ProcessAi, ToPc, Apart
    <3> QED
      BY <2>f, <3>1, FreezeUntouched
  <2>11. CASE Teardown
    BY <2>11, FreezeTornDown
  <2>12. CASE UNCHANGED vars
    BY <2>0, <2>12, FreezeUntouched DEF vars, Apart
  <2> QED
    BY <2>1, <2>2, <2>3, <2>4, <2>5, <2>6, <2>7, <2>8, <2>9, <2>10, <2>11, <2>12 DEF Next
<1> QED
  BY FreezeInit, KnownInvariant, <1>1, PTL DEF Spec

(***************************************************************************)
(* A bridge that has disconnected has left the freeze state of the user    *)
(* aircraft as it found it, whatever single call failed.                   *)
(***************************************************************************)
THEOREM FreezeStateRestored == Spec => []FreezeRestored
<1>1. FreezeInv => FreezeRestored
  BY DEF FreezeInv, Apart, Remembered, FreezeRestored
<1> QED
  BY <1>1, FreezeInvariant, PTL

-------------------------------------------------------------------------------
(***************************************************************************)
(* The AI objects.  create_ai_aircraft numbers the attempts of one pass    *)
(* one after the other: each aircraft gets a number of its own, and every  *)
(* number is used.                                                         *)
(***************************************************************************)
LEMMA RequestsNumbered ==
    ASSUME asked \in Nat, NEW tried \in SUBSET Aircraft
    PROVE  /\ IsFiniteSet(tried) /\ Cardinality(tried) \in Nat
           /\ \A a \in tried : RequestId(a, tried) \in asked + 1 .. asked + Cardinality(tried)
           /\ \A a, b \in tried : a # b => RequestId(a, tried) # RequestId(b, tried)
           /\ \A n \in asked + 1 .. asked + Cardinality(tried) :
                 \E a \in tried : RequestId(a, tried) = n
<1> DEFINE Upto(a) == {b \in tried : b <= a}
           N == Cardinality(tried)
           R == asked + 1 .. asked + N
           f == [a \in tried |-> RequestId(a, tried)]
<1>1. IsFiniteSet(tried) /\ N \in Nat
  BY BridgeAssumption, FS_Subset, FS_CardinalityType
<1>2. tried \subseteq Nat
  BY BridgeAssumption
<1>3. \A a \in tried : /\ IsFiniteSet(Upto(a)) /\ Cardinality(Upto(a)) \in 1 .. N
                      /\ RequestId(a, tried) = asked + Cardinality(Upto(a))
  <2> SUFFICES ASSUME NEW a \in tried
               PROVE  /\ IsFiniteSet(Upto(a)) /\ Cardinality(Upto(a)) \in 1 .. N
                      /\ RequestId(a, tried) = asked + Cardinality(Upto(a))
    OBVIOUS
  <2>1. Upto(a) \in SUBSET tried /\ a \in Upto(a)
    BY <1>2
  <2>2. IsFiniteSet(Upto(a)) /\ Cardinality(Upto(a)) <= N /\ Cardinality(Upto(a)) \in Nat
    BY <1>1, <2>1, FS_Subset, FS_CardinalityType
  <2>3. Cardinality(Upto(a)) # 0
    BY <2>1, <2>2, FS_EmptySet
  <2>4. RequestId(a, tried) = asked + Cardinality(Upto(a))
    BY DEF RequestId
  <2> HIDE DEF Upto
  <2> QED
    BY <1>1, <2>2, <2>3, <2>4
<1>4. \A a, b \in tried : a < b => RequestId(a, tried) # RequestId(b, tried)
  <2> SUFFICES ASSUME NEW a \in tried, NEW b \in tried, a < b
               PROVE  RequestId(a, tried) # RequestId(b, tried)
    OBVIOUS
  <2>0. a \in Nat /\ b \in Nat /\ \A c \in tried : c \in Nat
    BY <1>2
  <2>1. Upto(a) \in SUBSET Upto(b) /\ b \in Upto(b) /\ b \notin Upto(a)
    <3>1. \A c \in tried : c <= a => c <= b
      BY <2>0
    <3>2. b <= b /\ ~(b <= a)
      BY <2>0
    <3> QED
      BY <3>1, <3>2
  <2>2. Upto(a) # Upto(b)
    BY <2>1
  <2> HIDE DEF Upto
  <2>3. Cardinality(Upto(a)) # Cardinality(Upto(b))
    BY <1>3, <2>1, <2>2, FS_Subset
  <2>4. Cardinality(Upto(a)) \in Nat /\ Cardinality(Upto(b)) \in Nat
    BY <1>1, <1>3
  <2> QED
    BY <1>3, <2>3, <2>4
<1>5. \A a, b \in tried : a # b => RequestId(a, tried) # RequestId(b, tried)
  <2>1. \A a, b \in tried : a # b => a < b \/ b < a
    BY <1>2
  <2> QED
    BY <1>4, <2>1
<1>6. \A a \in tried : RequestId(a, tried) \in R
  <2> HIDE DEF Upto
  <2> QED
    BY <1>1, <1>3
<1>7. f \in Injection(tried, R)
  <2>1. f \in [tried -> R]
    BY <1>6
  <2>2. \A a, b \in tried : f[a] = f[b] => a = b
    BY <1>5
  <2> QED
    BY <2>1, <2>2 DEF Injection, IsInjective
<1>8. IsFiniteSet(R) /\ Cardinality(R) = N
  <2>1. asked + 1 \in Int /\ asked + N \in Int
    BY <1>1
  <2>2. IsFiniteSet(R) /\ Cardinality(R) = IF asked + 1 > asked + N THEN 0
                                           ELSE (asked + N) - (asked + 1) + 1
    BY <2>1, FS_Interval
  <2> HIDE DEF R, N
  <2> QED
    BY <1>1, <2>2
<1>9. f \in Surjection(tried, R)
  BY <1>7, <1>8, FS_Injection
<1>10. \A n \in R : \E a \in tried : f[a] = n
  BY <1>9 DEF Surjection
<1>11. \A n \in R : \E a \in tried : RequestId(a, tried) = n
  BY <1>10
<1> QED
  BY <1>1, <1>5, <1>6, <1>11

(***************************************************************************)
(* Create sends no more requests than there is room for: the aircraft with *)
(* the last number found all the others before it.                         *)
(***************************************************************************)
LEMMA RequestsFit ==
    ASSUME asked \in Nat, NEW sent \in SUBSET Aircraft, sent # {}, NEW room \in Int,
           \A a \in sent : Cardinality({b \in sent : b < a}) < room
    PROVE  Cardinality(sent) <= room
<1>1. IsFiniteSet(sent) /\ Cardinality(sent) \in Nat /\ Cardinality(sent) # 0
  BY RequestsNumbered, FS_EmptySet
<1>2. asked + Cardinality(sent) \in asked + 1 .. asked + Cardinality(sent)
  BY <1>1
<1>3. PICK a \in sent : RequestId(a, sent) = asked + Cardinality(sent)
  BY <1>2, RequestsNumbered
<1> DEFINE Upto == {b \in sent : b <= a}
           Before == {b \in sent : b < a}
<1>4. Upto \in SUBSET sent /\ Before = Upto \ {a} /\ a \in Upto
  <2>1. \A b \in sent : b \in Nat
    BY BridgeAssumption
  <2>2. \A b \in sent : b < a <=> b <= a /\ b # a
    BY <2>1
  <2>3. a <= a
    BY <2>1
  <2> QED
    BY <2>2, <2>3
<1>5. RequestId(a, sent) = asked + Cardinality(Upto)
  BY DEF RequestId
<1>6. Cardinality(Before) < room
  OBVIOUS
<1> HIDE DEF Upto, Before
<1>7. IsFiniteSet(Upto) /\ Cardinality(Upto) \in Nat
  BY <1>1, <1>4, FS_Subset, FS_CardinalityType
<1>8. Cardinality(Upto) = Cardinality(sent)
  BY <1>1, <1>3, <1>5, <1>7
<1>9. Cardinality(Before) = Cardinality(Upto) - 1
  BY <1>4, <1>7, FS_RemoveElement
<1> QED
  BY <1>1, <1>6, <1>7, <1>8, <1>9

(***************************************************************************)
(* Before the first connection there is nothing.                           *)
(***************************************************************************)
LEMMA RegistryInit == Init => RegistryInv
<1> SUFFICES ASSUME Init PROVE RegistryInv
  OBVIOUS
<1>1. alive = FALSE /\ faults = 0 /\ Blank
  BY DEF Init, Blank
<1>2. None \in [Aircraft -> Nat] /\ NoMail \in [assigned : SUBSET Nat, refused : SUBSET Nat, quit : BOOLEAN]
  BY DEF None, NoMail
<1>3. RegistryTypeOK
  BY <1>1, <1>2 DEF Blank, RegistryTypeOK
<1> QED
  BY <1>1, <1>3 DEF RegistryInv

(***************************************************************************)
(* The failed objects while no other fails.                                *)
(***************************************************************************)
LEMMA BlamedStill ==
    ASSUME Blamed, failed' = failed, faults \in Nat, faults' \in Nat, faults' >= faults
    PROVE  Blamed'
<1>1. IsFiniteSet(failed) /\ Cardinality(failed) \in Nat /\ Cardinality(failed) <= faults
  BY FS_CardinalityType DEF Blamed
<1>2. Cardinality(failed) <= faults'
  BY <1>1
<1> QED
  BY <1>1, <1>2 DEF Blamed

(***************************************************************************)
(* The failed objects when calls about some more have failed.              *)
(***************************************************************************)
LEMMA BlamedMore ==
    ASSUME Blamed, alive, faults \in Nat, NEW good, NEW bad, IsFiniteSet(bad), Calls(good, bad),
           NEW more, IsFiniteSet(more), Cardinality(more) <= Cardinality(bad),
           failed' = failed \cup more
    PROVE  Blamed'
<1>1. /\ IsFiniteSet(failed) /\ Cardinality(failed) \in Nat /\ Cardinality(failed) <= faults
      /\ Cardinality(more) \in Nat /\ Cardinality(bad) \in Nat
  BY FS_CardinalityType DEF Blamed
<1>2. faults' = faults + Cardinality(bad)
  BY DEF Calls
<1>3. IsFiniteSet(failed \cap more) /\ Cardinality(failed \cap more) \in Nat
  BY <1>1, FS_Intersection, FS_CardinalityType
<1>4. /\ IsFiniteSet(failed')
      /\ Cardinality(failed') = Cardinality(failed) + Cardinality(more) - Cardinality(failed \cap more)
  BY <1>1, FS_Union
<1>5. Cardinality(failed') <= faults'
  BY <1>1, <1>2, <1>3, <1>4
<1> QED
  BY <1>4, <1>5 DEF Blamed

(***************************************************************************)
(* Steps that touch neither the registry nor the objects.                  *)
(***************************************************************************)
LEMMA RegistryUntouched ==
    ASSUME RegistryInv, UNCHANGED <<alive, active, pending, asked, assigned, refused, open,
                                    inbox, objects, failed>>,
           Apart' => Apart, faults' \in Nat, faults' >= faults
    PROVE  RegistryInv'
<1>0. faults \in Nat
  BY DEF RegistryInv, RegistryTypeOK
<1>1. RegistryTypeOK' /\ (Apart => ~alive /\ Blank)'
  BY DEF RegistryInv, RegistryTypeOK, Blank, None
<1>2. ASSUME alive' PROVE Blamed'
  BY <1>0, <1>2, BlamedStill DEF RegistryInv
<1>3. ASSUME alive' PROVE (Numbered /\ Answered /\ Placed /\ Distinct /\ Limited)'
  BY <1>3 DEF RegistryInv, Numbered, Answered, Placed, Distinct, Limited
<1> QED
  BY <1>1, <1>2, <1>3 DEF RegistryInv

(***************************************************************************)
(* The simulator answers a request, with an object or an exception.        *)
(***************************************************************************)
LEMMA RegistryAnswered ==
    ASSUME RegistryInv, NEW r \in open, SimAssign(r) \/ SimRefuse(r)
    PROVE  RegistryInv'
<1> USE DEF bridgeVars, ghostVars
<1>0. /\ RegistryTypeOK /\ ~Apart
      /\ alive => Numbered /\ Answered /\ Placed /\ Blamed /\ Distinct /\ Limited
  BY DEF RegistryInv, Blank
<1>1. /\ r \in Nat /\ open' = open \ {r}
      /\ UNCHANGED <<pc, alive, active, pending, asked, assigned, refused, failed, faults>>
  BY <1>0 DEF SimAssign, SimRefuse, RegistryTypeOK
<1>2. /\ inbox' \in [assigned : SUBSET Nat, refused : SUBSET Nat, quit : BOOLEAN]
      /\ \/ /\ objects' = objects \cup {r}
            /\ inbox'.assigned = inbox.assigned \cup {r} /\ inbox'.refused = inbox.refused
         \/ /\ objects' = objects
            /\ inbox'.refused = inbox.refused \cup {r} /\ inbox'.assigned = inbox.assigned
  BY <1>0, <1>1 DEF SimAssign, SimRefuse, RegistryTypeOK
<1>3. RegistryTypeOK' /\ ~Apart'
  BY <1>0, <1>1, <1>2 DEF RegistryTypeOK, Apart
<1>4. ASSUME alive PROVE (Numbered /\ Answered /\ Placed /\ Blamed /\ Distinct /\ Limited)'
  <2>0. Numbered /\ Answered /\ Placed /\ Blamed /\ Distinct /\ Limited
    BY <1>0, <1>4
  <2>1. Numbered'
    BY <1>1, <1>2, <2>0 DEF Numbered
  <2>2. Answered'
    BY <1>1, <1>2, <2>0 DEF Answered
  <2>3. Placed'
    <3>1. r \notin objects
      BY <2>0 DEF Answered
    <3> QED
      BY <1>1, <1>2, <2>0, <3>1 DEF Placed
  <2>4. Distinct' /\ Limited' /\ Blamed'
    BY <1>1, <2>0 DEF Distinct, Limited, Blamed
  <2> QED
    BY <2>1, <2>2, <2>3, <2>4
<1> QED
  BY <1>1, <1>3, <1>4 DEF RegistryInv

(***************************************************************************)
(* The simulator goes away, and all its objects with it.                   *)
(***************************************************************************)
LEMMA RegistryQuit ==
    ASSUME RegistryInv, SimQuit
    PROVE  RegistryInv'
<1> USE DEF bridgeVars
<1>0. RegistryTypeOK
  BY DEF RegistryInv
<1>1. /\ alive' = FALSE /\ open' = {} /\ objects' = {} /\ failed' = {}
      /\ UNCHANGED <<pc, active, pending, asked, assigned, refused, faults>>
  BY DEF SimQuit
<1>2. PICK said \in BOOLEAN : inbox' = [inbox EXCEPT !.quit = said /\ alive]
  BY DEF SimQuit
<1>3. inbox' \in [assigned : SUBSET Nat, refused : SUBSET Nat, quit : BOOLEAN]
  BY <1>0, <1>2 DEF RegistryTypeOK
<1>4. RegistryTypeOK'
  BY <1>0, <1>1, <1>3 DEF RegistryTypeOK
<1>5. ASSUME Apart PROVE Blank'
  <2>1. ~alive /\ Blank
    BY <1>5 DEF RegistryInv
  <2>2. inbox = NoMail
    BY <2>1 DEF Blank
  <2>3. (said /\ alive) = FALSE
    BY <2>1
  <2>4. inbox' = NoMail
    BY <1>2, <2>2, <2>3 DEF NoMail
  <2> QED
    BY <1>1, <2>1, <2>4 DEF Blank, None
<1> QED
  BY <1>1, <1>4, <1>5 DEF RegistryInv, Apart

(***************************************************************************)
(* A connection begins with nothing on either side.                        *)
(***************************************************************************)
LEMMA RegistryConnected ==
    ASSUME RegistryInv, Connect
    PROVE  RegistryInv'
<1>0. RegistryTypeOK /\ Apart /\ Blank
  BY DEF RegistryInv, Connect, Apart
<1>1. UNCHANGED <<active, pending, asked, assigned, refused, open, inbox, objects, failed,
                faults>>
  BY DEF Connect
<1>2. CASE UNCHANGED alive
  BY <1>0, <1>1, <1>2, RegistryUntouched DEF RegistryTypeOK
<1>3. CASE ToPc("pump") /\ Connected
  <2>1. alive' = TRUE /\ ~Apart'
    BY <1>3 DEF Connected, ToPc, Apart
  <2>2. RegistryTypeOK'
    BY <1>0, <1>1, <2>1 DEF RegistryTypeOK
  <2>3. Owned(active') = {} /\ Owned(pending') = {}
    BY <1>0, <1>1 DEF Blank, Owned, None
  <2>4. /\ open' = {} /\ objects' = {} /\ refused' = {} /\ assigned' = {}
        /\ inbox'.refused = {} /\ inbox'.assigned = {} /\ failed' = {}
    BY <1>0, <1>1 DEF Blank, NoMail
  <2>5. Numbered' /\ Answered' /\ Placed'
    BY <2>3, <2>4 DEF Numbered, Answered, Placed
  <2>8. Blamed'
    BY <1>0, <1>1, <2>4, FS_EmptySet DEF Blamed, RegistryTypeOK
  <2>6. Distinct'
    BY <1>0, <1>1 DEF Blank, None, Distinct
  <2>7. Limited'
    <3>1. Owned(active') \cup Owned(pending') = {}
      BY <2>3
    <3> QED
      BY <3>1, FS_EmptySet, BridgeAssumption DEF Limited
  <2> QED
    BY <2>1, <2>2, <2>5, <2>6, <2>7, <2>8 DEF RegistryInv
<1> QED
  BY <1>2, <1>3 DEF Connect

(***************************************************************************)
(* pump moves the answers to where the registry looks for them.            *)
(***************************************************************************)
LEMMA RegistryPumped ==
    ASSUME RegistryInv, Pump
    PROVE  RegistryInv'
<1> USE DEF ghostVars
<1>0. /\ RegistryTypeOK
      /\ alive => Numbered /\ Answered /\ Placed /\ Blamed /\ Distinct /\ Limited
  BY DEF RegistryInv
<1>1. /\ UNCHANGED <<active, pending, asked, alive, open, objects, failed, faults>> /\ ~Apart'
  BY DEF Pump, ToPc, Apart
<1>2. CASE UNCHANGED <<assigned, refused, inbox>>
  BY <1>0, <1>1, <1>2, RegistryUntouched DEF RegistryTypeOK
<1>3. CASE Dispatched
  <2>1. /\ assigned' = assigned \cup inbox.assigned /\ refused' = refused \cup inbox.refused
        /\ inbox'.assigned = {} /\ inbox'.refused = {}
        /\ inbox' \in [assigned : SUBSET Nat, refused : SUBSET Nat, quit : BOOLEAN]
    BY <1>3 DEF Dispatched, NoMail
  <2>2. RegistryTypeOK'
    BY <1>0, <1>1, <2>1 DEF RegistryTypeOK
  <2>3. ASSUME alive PROVE (Numbered /\ Answered /\ Placed /\ Blamed /\ Distinct /\ Limited)'
    BY <1>0, <1>1, <2>1, <2>3 DEF Numbered, Answered, Placed, Blamed, Distinct, Limited
  <2> QED
    BY <1>1, <2>2, <2>3 DEF RegistryInv
<1> QED
  BY <1>2, <1>3 DEF Pump

(***************************************************************************)
(* Entries that leave the registry disturb no other.                       *)
(***************************************************************************)
LEMMA RegistryShrinks ==
    ASSUME RegistryTypeOK, Distinct, Limited,
           \A a \in Aircraft : active'[a] \in {active[a], 0} /\ pending'[a] \in {pending[a], 0}
    PROVE  /\ Owned(active') \subseteq Owned(active)
           /\ Owned(pending') \subseteq Owned(pending)
           /\ Distinct' /\ Limited'
<1>1. Owned(active') \subseteq Owned(active) /\ Owned(pending') \subseteq Owned(pending)
  BY DEF Owned
<1>2. Distinct'
  BY DEF Distinct
<1> DEFINE S == Owned(active) \cup Owned(pending)
           T == Owned(active') \cup Owned(pending')
<1>3. IsFiniteSet(S) /\ IsFiniteSet(T) /\ T \in SUBSET S
  BY <1>1, OwnedFinite, FS_Union
<1>4. Cardinality(T) <= Cardinality(S) /\ Cardinality(S) \in Nat /\ Cardinality(T) \in Nat
  BY <1>3, FS_Subset, FS_CardinalityType
<1>5. Cardinality(S) <= MaxAi /\ MaxAi \in Nat
  BY BridgeAssumption DEF Limited
<1>6. Cardinality(T) <= MaxAi
  <2> HIDE DEF S, T
  <2> QED
    BY <1>4, <1>5
<1> QED
  BY <1>1, <1>2, <1>6 DEF Limited

(***************************************************************************)
(* remove_missing and the requests given up: an object that was flown      *)
(* stays only when its removal failed.                                     *)
(***************************************************************************)
LEMMA RegistryCleaned ==
    ASSUME RegistryInv, UpdatePending, faults' \in Nat
    PROVE  RegistryInv'
<1>0. /\ RegistryTypeOK
      /\ alive => Numbered /\ Answered /\ Placed /\ Blamed /\ Distinct /\ Limited
  BY DEF RegistryInv
<1>1. UNCHANGED <<asked, assigned, alive, open, inbox>> /\ ~Apart' /\ refused' = {}
  BY DEF UpdatePending, ToPc, Apart
<1>2. PICK lost \in SUBSET Owned(active), late \in SUBSET candidates' :
        LET kept == Keep(pending, candidates')
            over == {a \in Aircraft : kept[a] # 0 /\ (kept[a] \in refused \/ a \in late)}
        IN  /\ RemoveMissing(lost)
            /\ pending' = Keep(kept, Aircraft \ over)
            /\ failed' = failed \cup lost
  BY DEF UpdatePending
<1>3. /\ active' \in [Aircraft -> Nat] /\ pending' \in [Aircraft -> Nat]
      /\ \A a \in Aircraft : active'[a] \in {active[a], 0} /\ pending'[a] \in {pending[a], 0}
  BY <1>0, <1>2 DEF RemoveMissing, Keep, RegistryTypeOK
<1> DEFINE gone == Owned(active) \ Owned(active')
<1>4. /\ lost \subseteq gone /\ objects' = objects \ (gone \ lost)
      /\ Calls(gone \ lost, lost)
  BY <1>2 DEF RemoveMissing
<1>5. failed' = failed \cup lost
  BY <1>2
<1>6. RegistryTypeOK'
  BY <1>0, <1>1, <1>3, <1>4 DEF RegistryTypeOK
<1>7. ASSUME alive PROVE (Numbered /\ Answered /\ Placed /\ Blamed /\ Distinct /\ Limited)'
  <2>0. Numbered /\ Answered /\ Placed /\ Blamed /\ Distinct /\ Limited
    BY <1>0, <1>7
  <2>1. /\ Owned(active') \subseteq Owned(active) /\ Owned(pending') \subseteq Owned(pending)
        /\ Distinct' /\ Limited'
    BY <1>0, <1>3, <2>0, RegistryShrinks
  <2>2. Numbered'
    BY <1>1, <1>4, <2>0, <2>1 DEF Numbered
  <2>3. Answered'
    BY <1>1, <1>4, <2>0, <2>1 DEF Answered
  <2>4. Placed'
    BY <1>1, <1>4, <1>5, <2>0, <2>1 DEF Placed
  <2>5. Blamed'
    <3>1. IsFiniteSet(lost) /\ Cardinality(lost) \in Nat
      BY OwnedFinite, FS_Subset, FS_CardinalityType
    <3>2. Cardinality(lost) <= Cardinality(lost) /\ faults \in Nat
      BY <1>0, <3>1 DEF RegistryTypeOK
    <3> HIDE DEF gone
    <3> QED
      BY <1>4, <1>5, <1>7, <2>0, <3>1, <3>2, BlamedMore
  <2> QED
    BY <2>1, <2>2, <2>3, <2>4, <2>5
<1> QED
  BY <1>1, <1>6, <1>7 DEF RegistryInv

(***************************************************************************)
(* Objects that have come are taken over by the aircraft that asked for    *)
(* them; the one whose first call fails is flown by nobody.                *)
(***************************************************************************)
LEMMA RegistryTakesOver ==
    ASSUME RegistryInv, UpdateAssigned, faults' \in Nat
    PROVE  RegistryInv'
<1>0. /\ RegistryTypeOK
      /\ alive => Numbered /\ Answered /\ Placed /\ Blamed /\ Distinct /\ Limited
  BY DEF RegistryInv
<1>1. /\ UNCHANGED <<asked, refused, alive, open, inbox, objects>> /\ ~Apart'
  BY DEF UpdateAssigned, ToPc, Apart
<1>2. \E done, left \in SUBSET Aircraft :
        /\ done \cap left = {} /\ \A a \in done \cup left : pending[a] \in assigned
        /\ active' = [a \in Aircraft |-> IF a \in done THEN pending[a] ELSE active[a]]
        /\ pending' = Keep(pending, Aircraft \ (done \cup left))
        /\ assigned' = assigned \ {pending[a] : a \in done \cup left}
        /\ failed' = failed \cup {pending[a] : a \in left}
        /\ Calls(done, left)
  <2> DEFINE ready == {a \in Aircraft : HasObject(a)}
             Taken(done, left) ==
               /\ active' = [a \in Aircraft |-> IF a \in done THEN pending[a] ELSE active[a]]
               /\ pending' = Keep(pending, Aircraft \ (done \cup left))
               /\ assigned' = assigned \ {pending[a] : a \in done \cup left}
               /\ failed' = failed \cup {pending[a] : a \in left}
               /\ Calls(done, left)
  <2>1. \/ Taken(ready, {})
        \/ \E a \in ready, done \in SUBSET ready : a \notin done /\ Taken(done, {a})
    BY DEF UpdateAssigned
  <2>2. ready \in SUBSET Aircraft /\ \A a \in ready : pending[a] \in assigned
    BY DEF HasObject
  <2> HIDE DEF Taken, ready
  <2>3. \E done, left \in SUBSET ready : done \cap left = {} /\ Taken(done, left)
    <3>1. CASE Taken(ready, {})
      <4>1. ready \in SUBSET ready /\ {} \in SUBSET ready /\ ready \cap {} = {}
        OBVIOUS
      <4> QED
        BY <3>1, <4>1
    <3>2. ASSUME NEW a \in ready, NEW done \in SUBSET ready, a \notin done, Taken(done, {a})
          PROVE  \E d, left \in SUBSET ready : d \cap left = {} /\ Taken(d, left)
      <4>1. {a} \in SUBSET ready /\ done \cap {a} = {}
        BY <3>2
      <4> QED
        BY <3>2, <4>1
    <3> QED
      BY <2>1, <3>1, <3>2
  <2>4. PICK done, left \in SUBSET ready : done \cap left = {} /\ Taken(done, left)
    BY <2>3
  <2>5. done \in SUBSET Aircraft /\ left \in SUBSET Aircraft
        /\ \A a \in done \cup left : pending[a] \in assigned
    BY <2>2
  <2> QED
    BY <2>4, <2>5 DEF Taken
<1>3. PICK done, left \in SUBSET Aircraft :
        /\ done \cap left = {} /\ \A a \in done \cup left : pending[a] \in assigned
        /\ active' = [a \in Aircraft |-> IF a \in done THEN pending[a] ELSE active[a]]
        /\ pending' = Keep(pending, Aircraft \ (done \cup left))
        /\ assigned' = assigned \ {pending[a] : a \in done \cup left}
        /\ failed' = failed \cup {pending[a] : a \in left}
        /\ Calls(done, left)
  BY <1>2
<1> DEFINE D == {pending[a] : a \in done}
           L == {pending[a] : a \in left}
<1>4. /\ \A a \in Aircraft : active'[a] = IF a \in done THEN pending[a] ELSE active[a]
      /\ \A a \in Aircraft : pending'[a] = IF a \in done \cup left THEN 0 ELSE pending[a]
      /\ active' \in [Aircraft -> Nat] /\ pending' \in [Aircraft -> Nat]
  BY <1>0, <1>3 DEF Keep, RegistryTypeOK
<1>5. assigned' = assigned \ (D \cup L) /\ failed' = failed \cup L
  BY <1>3
<1>6. RegistryTypeOK'
  BY <1>0, <1>1, <1>4, <1>5 DEF RegistryTypeOK
<1>7. ASSUME alive PROVE (Numbered /\ Answered /\ Placed /\ Blamed /\ Distinct /\ Limited)'
  <2>0. Numbered /\ Answered /\ Placed /\ Blamed /\ Distinct /\ Limited
    BY <1>0, <1>7
  <2>1. D \cup L \subseteq assigned /\ assigned \subseteq objects \ Owned(active) /\ 0 \notin objects
    BY <1>0, <1>3, <2>0 DEF Placed, Numbered, RegistryTypeOK
  <2>2. \A a \in done \cup left : pending[a] # 0 /\ active[a] = 0
    <3>1. \A a \in done \cup left : pending[a] # 0
      BY <1>3, <2>1
    <3> QED
      BY <2>0, <3>1 DEF Distinct
  <2>3. D \cup L \subseteq Owned(pending)
    BY <2>2 DEF Owned
  <2>4. Owned(active') = Owned(active) \cup D
    <3>1. ASSUME NEW x \in Owned(active') PROVE x \in Owned(active) \cup D
      BY <1>4, <3>1 DEF Owned
    <3>2. ASSUME NEW x \in Owned(active) PROVE x \in Owned(active')
      <4>1. PICK a \in Aircraft : active[a] = x /\ x # 0
        BY DEF Owned
      <4>2. a \notin done
        BY <2>2, <4>1
      <4> QED
        BY <1>4, <4>1, <4>2 DEF Owned
    <3>3. ASSUME NEW x \in D PROVE x \in Owned(active')
      <4>1. PICK a \in done : x = pending[a]
        BY <3>3
      <4>2. x # 0 /\ active'[a] = x /\ a \in Aircraft
        BY <1>4, <2>2, <4>1
      <4> QED
        BY <4>2 DEF Owned
    <3> HIDE DEF D
    <3> QED
      BY <3>1, <3>2, <3>3
  <2>5. Owned(pending') \subseteq Owned(pending) /\ Owned(pending) \subseteq Owned(pending') \cup D \cup L
    BY <1>4 DEF Owned
  <2>6. Distinct'
    <3>1. \A a \in Aircraft : active'[a] = 0 \/ pending'[a] = 0
      BY <1>4, <2>0 DEF Distinct
    <3>2. ASSUME NEW a \in Aircraft, NEW b \in Aircraft, a # b
          PROVE  /\ active'[a] # 0 => active'[a] \notin {active'[b], pending'[b]}
                 /\ pending'[a] # 0 => pending'[a] \notin {active'[b], pending'[b]}
      BY <1>4, <2>0, <2>2, <3>2 DEF Distinct
    <3> QED
      BY <3>1, <3>2 DEF Distinct
  <2>d. D \cap L = {}
    <3>1. \A a \in done, b \in left : a # b /\ a \in Aircraft /\ b \in Aircraft
      BY <1>3
    <3> QED
      BY <2>0, <2>2, <3>1 DEF Distinct
  <2>l. IsFiniteSet(left) /\ IsFiniteSet(L) /\ Cardinality(L) <= Cardinality(left)
    <3>1. IsFiniteSet(left)
      BY BridgeAssumption, FS_Subset
    <3>2. [a \in left |-> pending[a]] \in Surjection(left, L)
      BY DEF Surjection
    <3> HIDE DEF L
    <3> QED
      BY <3>1, <3>2, FS_Surjection
  <2> HIDE DEF D, L
  <2>7. Limited'
    <3> DEFINE S == Owned(active) \cup Owned(pending)
               T == Owned(active') \cup Owned(pending')
    <3>1. IsFiniteSet(S) /\ IsFiniteSet(T) /\ T \in SUBSET S
      BY <2>3, <2>4, <2>5, OwnedFinite, FS_Union
    <3>2. Cardinality(T) <= Cardinality(S) /\ Cardinality(S) \in Nat /\ Cardinality(T) \in Nat
      BY <3>1, FS_Subset, FS_CardinalityType
    <3>3. Cardinality(S) <= MaxAi /\ MaxAi \in Nat
      BY <2>0, BridgeAssumption DEF Limited
    <3>4. Cardinality(T) <= MaxAi
      <4> HIDE DEF S, T
      <4> QED
        BY <3>2, <3>3
    <3> QED
      BY <3>4 DEF Limited
  <2>8. Numbered'
    BY <1>1, <2>0, <2>3, <2>4, <2>5 DEF Numbered
  <2>9. Answered'
    BY <1>1, <2>0 DEF Answered
  <2>10. Placed'
    BY <1>1, <1>5, <2>0, <2>1, <2>4, <2>d DEF Placed
  <2>11. Blamed'
    <3>1. faults \in Nat /\ Calls(done, left)
      BY <1>0, <1>3 DEF RegistryTypeOK
    <3> QED
      BY <1>5, <1>7, <2>0, <2>l, <3>1, BlamedMore
  <2> QED
    BY <2>6, <2>7, <2>8, <2>9, <2>10, <2>11
<1> QED
  BY <1>1, <1>6, <1>7 DEF RegistryInv

(***************************************************************************)
(* Candidates are asked for, each under a new number and while there is    *)
(* room.                                                                   *)
(***************************************************************************)
LEMMA RegistryAsks ==
    ASSUME Known, RegistryInv, Create, faults' \in Nat, faults' >= faults
    PROVE  RegistryInv'
<1>0. /\ RegistryTypeOK
      /\ alive => Numbered /\ Answered /\ Placed /\ Blamed /\ Distinct /\ Limited
  BY DEF RegistryInv
<1>1. UNCHANGED <<active, assigned, refused, alive, inbox, objects, failed>> /\ ~Apart'
  BY DEF Create, ToPc, Apart
<1>2. PICK due \in SUBSET Wanted, sent \in SUBSET Wanted :
        LET tried == {a \in due : Cardinality({b \in sent : b < a}) < Room}
        IN  /\ sent \subseteq tried
            /\ pending' = [a \in Aircraft |->
                              IF a \in sent THEN RequestId(a, tried) ELSE pending[a]]
            /\ asked' = asked + Cardinality(tried)
            /\ \E blind \in SUBSET (tried \ sent) :
                  open' = open \cup {RequestId(a, tried) : a \in sent \cup blind}
  BY DEF Create
<1> DEFINE tried == {a \in due : Cardinality({b \in sent : b < a}) < Room}
           New == {RequestId(a, tried) : a \in sent}
           Fresh == asked + 1 .. asked'
           N == Cardinality(sent)
<1>3. /\ tried \in SUBSET Aircraft /\ sent \in SUBSET tried
      /\ \A a \in sent : active[a] = 0 /\ pending[a] = 0
      /\ \A a \in sent : Cardinality({b \in sent : b < a}) < Room
  BY <1>2 DEF Wanted, Known
<1>b. PICK blind \in SUBSET (tried \ sent) :
        open' = open \cup {RequestId(a, tried) : a \in sent \cup blind}
  BY <1>2
<1>a. /\ asked' = asked + Cardinality(tried)
      /\ pending' = [a \in Aircraft |-> IF a \in sent THEN RequestId(a, tried) ELSE pending[a]]
  BY <1>2
<1> HIDE DEF tried
<1>4. /\ IsFiniteSet(sent) /\ N \in Nat /\ asked \in Nat /\ Cardinality(tried) \in Nat
      /\ \A a \in tried : RequestId(a, tried) \in Fresh
      /\ \A a, b \in tried : a # b => RequestId(a, tried) # RequestId(b, tried)
  <2>1. asked \in Nat
    BY <1>0 DEF RegistryTypeOK
  <2>2. IsFiniteSet(sent) /\ N \in Nat
    BY <1>3, BridgeAssumption, FS_Subset, FS_CardinalityType
  <2> QED
    BY <1>3, <1>a, <2>1, <2>2, RequestsNumbered
<1>5. /\ asked' \in Nat /\ asked <= asked' /\ Fresh \subseteq Nat
      /\ Fresh \subseteq 1 .. asked' /\ Fresh \cap 1 .. asked = {}
      /\ 1 .. asked \subseteq 1 .. asked' /\ 0 \notin Fresh
  BY <1>4, <1>a
<1> HIDE DEF Fresh
<1>6. /\ \A a \in Aircraft :
            pending'[a] = IF a \in sent THEN RequestId(a, tried) ELSE pending[a]
      /\ pending' \in [Aircraft -> Nat]
  BY <1>0, <1>3, <1>4, <1>5, <1>a DEF RegistryTypeOK
<1>7. open \subseteq open' /\ open' \subseteq open \cup Fresh /\ New \subseteq Fresh
  BY <1>3, <1>4, <1>b
<1>8. RegistryTypeOK'
  BY <1>0, <1>1, <1>5, <1>6, <1>7 DEF RegistryTypeOK
<1>9. ASSUME alive PROVE (Numbered /\ Answered /\ Placed /\ Blamed /\ Distinct /\ Limited)'
  <2>0. Numbered /\ Answered /\ Placed /\ Blamed /\ Distinct /\ Limited
    BY <1>0, <1>9
  <2>1. Owned(pending') = Owned(pending) \cup New
    <3>1. ASSUME NEW x \in Owned(pending') PROVE x \in Owned(pending) \cup New
      BY <1>6, <3>1 DEF Owned
    <3>2. ASSUME NEW x \in Owned(pending) PROVE x \in Owned(pending')
      <4>1. PICK a \in Aircraft : pending[a] = x /\ x # 0
        BY DEF Owned
      <4>2. a \notin sent
        BY <1>3, <4>1
      <4> QED
        BY <1>6, <4>1, <4>2 DEF Owned
    <3>3. ASSUME NEW x \in New PROVE x \in Owned(pending')
      <4>1. PICK a \in sent : RequestId(a, tried) = x
        BY <3>3
      <4>2. x # 0 /\ pending'[a] = x /\ a \in Aircraft
        BY <1>3, <1>4, <1>5, <1>6, <4>1
      <4> QED
        BY <4>2 DEF Owned
    <3> QED
      BY <3>1, <3>2, <3>3
  <2> HIDE DEF New
  <2>2. Numbered'
    BY <1>1, <1>5, <1>7, <2>0, <2>1 DEF Numbered
  <2>3. Answered'
    BY <1>1, <1>5, <1>7, <2>0 DEF Answered, Numbered
  <2>4. Placed' /\ Blamed'
    <3>1. Placed'
      BY <1>1, <2>0 DEF Placed
    <3>2. faults \in Nat
      BY <1>0 DEF RegistryTypeOK
    <3> QED
      BY <1>1, <2>0, <3>1, <3>2, BlamedStill
  <2>5. Distinct'
    <3>1. \A a \in Aircraft : active'[a] = 0 \/ pending'[a] = 0
      BY <1>1, <1>3, <1>6, <2>0 DEF Distinct
    <3>n. \A a \in Aircraft : active[a] \notin Fresh /\ pending[a] \notin Fresh
      <4>1. \A a \in Aircraft : /\ active[a] # 0 => active[a] \in Owned(active)
                                /\ pending[a] # 0 => pending[a] \in Owned(pending)
        BY DEF Owned
      <4> QED
        BY <1>5, <2>0, <4>1 DEF Numbered
    <3>2. ASSUME NEW a \in Aircraft, NEW b \in Aircraft, a # b
          PROVE  /\ active'[a] # 0 => active'[a] \notin {active'[b], pending'[b]}
                 /\ pending'[a] # 0 => pending'[a] \notin {active'[b], pending'[b]}
      <4>0. /\ \A c \in sent : c \in tried /\ RequestId(c, tried) \in Fresh
            /\ \A c, d \in sent : c # d => RequestId(c, tried) # RequestId(d, tried)
        BY <1>3, <1>4
      <4>1. CASE a \in sent
        BY <1>1, <1>3, <1>6, <2>0, <3>n, <3>2, <4>0, <4>1 DEF Distinct
      <4>2. CASE a \notin sent
        BY <1>1, <1>3, <1>6, <2>0, <3>n, <3>2, <4>0, <4>2 DEF Distinct
      <4> QED
        BY <4>1, <4>2
    <3> QED
      BY <3>1, <3>2 DEF Distinct
  <2>6. Limited'
    <3> DEFINE A == Owned(active)
               P == Owned(pending)
               S == A \cup P
    <3>1. /\ IsFiniteSet(A) /\ IsFiniteSet(P) /\ Cardinality(A) \in Nat /\ Cardinality(P) \in Nat
          /\ MaxAi \in Nat
      BY OwnedFinite, BridgeAssumption
    <3>2. /\ IsFiniteSet(S) /\ Cardinality(S) \in Nat
          /\ Cardinality(S) <= Cardinality(A) + Cardinality(P)
      <4>1. IsFiniteSet(A \cap P) /\ Cardinality(A \cap P) \in Nat
        BY <3>1, FS_Intersection, FS_CardinalityType
      <4>2. IsFiniteSet(S) /\ Cardinality(S) = Cardinality(A) + Cardinality(P) - Cardinality(A \cap P)
        BY <3>1, FS_Union
      <4> HIDE DEF A, P, S
      <4> QED
        BY <3>1, <4>1, <4>2, FS_CardinalityType
    <3>3. IsFiniteSet(New) /\ Cardinality(New) <= N /\ Cardinality(New) \in Nat
      <4>1. [a \in sent |-> RequestId(a, tried)] \in Surjection(sent, New)
        BY DEF New, Surjection
      <4> HIDE DEF N
      <4> QED
        BY <1>4, <4>1, FS_Surjection, FS_CardinalityType DEF N
    <3>4. Cardinality(S \cup New) <= Cardinality(S) + N
      <4>1. IsFiniteSet(S \cap New) /\ Cardinality(S \cap New) \in Nat
        BY <3>2, FS_Intersection, FS_CardinalityType
      <4>2. Cardinality(S \cup New) = Cardinality(S) + Cardinality(New) - Cardinality(S \cap New)
        BY <3>2, <3>3, FS_Union
      <4> HIDE DEF S, N
      <4> QED
        BY <1>4, <3>2, <3>3, <4>1, <4>2
    <3>5. Owned(active') \cup Owned(pending') = S \cup New
      BY <1>1, <2>1
    <3>6. Cardinality(S) <= MaxAi
      BY <2>0 DEF Limited
    <3>7. CASE sent = {}
      <4>1. New = {}
        BY <3>7 DEF New
      <4>2. S \cup New = S
        BY <4>1
      <4> QED
        BY <3>5, <3>6, <4>2 DEF Limited
    <3>8. CASE sent # {}
      <4>1. Room \in Int /\ Room = MaxAi - Cardinality(A) - Cardinality(P)
        BY <3>1 DEF Room
      <4>2. N <= Room
        <5>1. sent \in SUBSET Aircraft
          BY <1>3
        <5> QED
          BY <1>3, <1>4, <3>8, <4>1, <5>1, RequestsFit
      <4>3. IsFiniteSet(S \cup New) /\ Cardinality(S \cup New) \in Nat
        BY <3>2, <3>3, FS_Union, FS_CardinalityType
      <4>4. Cardinality(S \cup New) <= MaxAi
        <5> HIDE DEF A, P, S, N
        <5> QED
          BY <1>4, <3>1, <3>2, <3>4, <4>1, <4>2, <4>3
      <4> QED
        BY <3>5, <4>4 DEF Limited
    <3> QED
      BY <3>7, <3>8
  <2> QED
    BY <2>2, <2>3, <2>4, <2>5, <2>6
<1> QED
  BY <1>1, <1>8, <1>9 DEF RegistryInv

(***************************************************************************)
(* Every object has its place in every reachable state.                    *)
(***************************************************************************)
THEOREM RegistryInvariant == Spec => []RegistryInv
<1>1. Known /\ RegistryInv /\ [Next]_vars => RegistryInv'
  <2> SUFFICES ASSUME Known, RegistryInv, [Next]_vars PROVE RegistryInv'
    OBVIOUS
  <2> USE DEF bridgeVars, simVars, ghostVars
  <2>f. faults' \in Nat /\ faults' >= faults
    BY FaultsGrow DEF RegistryInv, RegistryTypeOK
  <2>1. ASSUME NEW a \in Aircraft, Upload(a) PROVE RegistryInv'
    BY <2>f, <2>1, RegistryUntouched DEF Upload, Apart
  <2>2. CASE CtrlC \/ SimStart
    BY <2>f, <2>2, RegistryUntouched DEF CtrlC, SimStart, Apart
  <2>3. CASE CheckSelected \/ Select \/ ProcessUser
    <3>1. UNCHANGED <<alive, active, pending, asked, assigned, refused, open, inbox, objects, failed>>
      BY <2>3 DEF CheckSelected, Select, ProcessUser
    <3>2. ~Apart'
      BY <2>3 DEF CheckSelected, Select, ProcessUser, Apply, ToPc, Apart
    <3> QED
      BY <2>f, <3>1, <3>2, RegistryUntouched
  <2>4. CASE ProcessAi
    BY <2>f, <2>4, RegistryUntouched DEF ProcessAi, ToPc, Apart
  <2>5. CASE Teardown
    <3>1. alive' = FALSE /\ Blank'
      BY <2>5 DEF Teardown, Blank, None
    <3>2. None' \in [Aircraft -> Nat]
          /\ NoMail' \in [assigned : SUBSET Nat, refused : SUBSET Nat, quit : BOOLEAN]
      BY DEF None, NoMail
    <3>3. RegistryTypeOK'
      BY <2>f, <3>1, <3>2 DEF Blank, RegistryTypeOK
    <3> QED
      BY <3>1, <3>3 DEF RegistryInv
  <2>6. CASE UNCHANGED vars
    BY <2>f, <2>6, RegistryUntouched DEF vars, Apart
  <2> QED
    BY <2>f, <2>1, <2>2, <2>3, <2>4, <2>5, <2>6, RegistryAnswered, RegistryQuit, RegistryConnected,
       RegistryPumped, RegistryCleaned, RegistryTakesOver, RegistryAsks DEF Next, Update
<1> QED
  BY RegistryInit, KnownInvariant, <1>1, PTL DEF Spec

(***************************************************************************)
(* The registry and the simulator agree on where every object is, and more *)
(* than max_ai_aircraft there are only with objects that nobody claims or  *)
(* that a failed call has left behind.                                     *)
(***************************************************************************)
THEOREM ObjectsAccounted == Spec => []AiAccounted
<1>1. RegistryInv => AiAccounted
  <2> SUFFICES ASSUME RegistryInv, alive PROVE AiAccounted
    BY DEF AiAccounted
  <2>0. Placed /\ Blamed /\ Distinct /\ Limited
    BY DEF RegistryInv
  <2> DEFINE S == Owned(active) \cup Owned(pending)
             T == objects \ (Unclaimed \cup failed)
  <2>1. T \in SUBSET S
    BY <2>0 DEF Placed, Unclaimed
  <2>2. IsFiniteSet(S) /\ Cardinality(S) \in Nat
    BY OwnedFinite, FS_Union, FS_CardinalityType
  <2>3. IsFiniteSet(T) /\ Cardinality(T) <= Cardinality(S) /\ Cardinality(T) \in Nat
    BY <2>1, <2>2, FS_Subset, FS_CardinalityType
  <2>4. Cardinality(S) <= MaxAi /\ MaxAi \in Nat
    BY <2>0, BridgeAssumption DEF Limited
  <2>5. Cardinality(T) <= MaxAi
    <3> HIDE DEF S, T
    <3> QED
      BY <2>2, <2>3, <2>4
  <2> QED
    BY <2>0, <2>5 DEF AiAccounted, Placed, Blamed, Distinct
<1> QED
  BY <1>1, RegistryInvariant, PTL
===============================================================================
