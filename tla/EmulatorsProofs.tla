---------------------------- MODULE EmulatorsProofs ----------------------------
(***************************************************************************)
(* Proofs, for any numbers of devices, calls and ports and any cap, of the *)
(* invariants of Emulators: no emulator outlives its row, and no more run  *)
(* than the cap allows, but for those the histories record.                *)
(***************************************************************************)
EXTENDS Emulators, FiniteSetTheorems, TLAPS

USE DEF CreatePc, LaterPc, Pc

USE DEF At, Goto, Return, Runs, Using, End, Stopped, calls

\* In the initial state there is no device.
LEMMA TypeInit == Init => TypeOK
BY DEF Init, TypeOK

\* Making a device keeps the types.
LEMMA TypeCreate ==
  ASSUME TypeOK, NEW c \in Client,
         \/ \E d \in Device : Request(c, d)
         \/ CreateAvd(c) \/ CreateFails(c) \/ PickPort(c) \/ Spawn(c) \/ InsertRow(c)
  PROVE  TypeOK'
<1> USE DeviceAssumption, PortAssumption DEF TypeOK
<1>1. ASSUME NEW d \in Device, Request(c, d)
      PROVE  TypeOK'
  BY <1>1 DEF Request, InFlight
<1>2. CASE CreateAvd(c) \/ CreateFails(c)
  BY <1>2 DEF CreateAvd, CreateFails
<1>3. CASE PickPort(c)
  BY <1>3 DEF PickPort
<1>4. CASE Spawn(c)
  BY <1>4 DEF Spawn, Launch
<1>5. CASE InsertRow(c)
  BY <1>5 DEF InsertRow
<1> QED BY <1>1, <1>2, <1>3, <1>4, <1>5

\* Calls about a device that has a row keep the types.
LEMMA TypeLater ==
  ASSUME TypeOK, NEW c \in Client,
         \/ Begin(c) \/ Start(c) \/ Restart(c) \/ Stop(c) \/ EmuKill(c) \/ Signal(c)
         \/ Undefine(c) \/ DropAvd(c) \/ DropRow(c)
  PROVE  TypeOK'
<1> USE DeviceAssumption, PortAssumption DEF TypeOK
<1>1. CASE Begin(c) \/ Start(c)
  BY <1>1 DEF Begin, Start
<1>2. CASE Restart(c)
  BY <1>2 DEF Restart, Launch
<1>3. CASE Stop(c)
  <2>1. PortsInUse \subseteq Port
    BY DEF PortsInUse
  <2>2. toKill' \in [Client -> SUBSET Port]
    BY <1>3, <2>1 DEF Stop
  <2>3. /\ pc' \in [Client -> Pc] /\ arg' \in [Client -> Device \cup {NoDevice}]
        /\ port' \in [Client -> Port \cup {NoPort}]
    BY <1>3 DEF Stop
  <2>4. \A k \in Client :
          /\ pc'[k] # "idle" => arg'[k] \in Device
          /\ pc'[k] \in {"spawn", "restart_spawn", "insert"} => port'[k] \in Port
    BY <1>3 DEF Stop
  <2>5. UNCHANGED <<rows, serial, avds, proc, blind, stray>>
    BY <1>3 DEF Stop
  <2> QED BY <2>2, <2>3, <2>4, <2>5
<1>4. CASE EmuKill(c)
  BY <1>4 DEF EmuKill
<1>5. CASE Signal(c) \/ Undefine(c)
  BY <1>5 DEF Signal, Undefine
<1>6. CASE DropAvd(c) \/ DropRow(c)
  BY <1>6 DEF DropAvd, DropRow
<1> QED BY <1>1, <1>2, <1>3, <1>4, <1>5, <1>6

\* The state keeps its type.
THEOREM TypeCorrect == Spec => []TypeOK
<1>1. TypeOK /\ [Next]_vars => TypeOK'
  <2>1. ASSUME TypeOK, NEW d \in Device, Exits(d)
        PROVE  TypeOK'
    BY <2>1 DEF TypeOK, Exits
  <2>2. ASSUME TypeOK, Crash
        PROVE  TypeOK'
    BY <2>2 DEF TypeOK, Crash, InFlight
  <2>3. TypeOK /\ UNCHANGED vars => TypeOK'
    BY DEF TypeOK, vars
  <2> QED BY <2>1, <2>2, <2>3, TypeCreate, TypeLater DEF Next, Call
<1> QED BY TypeInit, <1>1, PTL DEF Spec

-----------------------------------------------------------------------------
(***************************************************************************)
(* A device being made is its request's own: it has no row, no other call  *)
(* is about it, and it does not run before its request launches it.        *)
(***************************************************************************)
OwnDevice ==
  \A c \in Client : pc[c] \in CreatePc =>
    /\ arg[c] \notin rows \cup stray
    /\ \A k \in Client : arg[k] = arg[c] => k = c
    /\ pc[c] # "insert" => ~Runs(arg[c])

\* a device that is deleted was killed before, unless it was started since
Killed ==
  \A c \in Client : pc[c] \in {"drop_avd", "drop_row"} => ~Runs(arg[c]) \/ arg[c] \in stray

Accounted == OwnDevice /\ Killed /\ NoneLeftBehind /\ stray \subseteq blind

\* Making a device disturbs none of this: its id is new.
LEMMA AccountedCreate ==
  ASSUME TypeOK, Accounted, NEW c \in Client,
         \/ \E d \in Device : Request(c, d)
         \/ CreateAvd(c) \/ CreateFails(c) \/ PickPort(c) \/ Spawn(c) \/ InsertRow(c)
  PROVE  Accounted'
<1> USE DeviceAssumption, PortAssumption
    DEF TypeOK, Accounted, OwnDevice, Killed, NoneLeftBehind, InFlight
<1>1. ASSUME NEW d \in Device, Request(c, d)
      PROVE  Accounted'
  BY <1>1 DEF Request
<1>2. CASE CreateAvd(c)
  BY <1>2 DEF CreateAvd
<1>3. CASE CreateFails(c)
  BY <1>3 DEF CreateFails
<1>4. CASE PickPort(c)
  BY <1>4 DEF PickPort
<1>5. CASE Spawn(c)
  BY <1>5 DEF Spawn, Launch
<1>6. CASE InsertRow(c)
  BY <1>6 DEF InsertRow
<1> QED BY <1>1, <1>2, <1>3, <1>4, <1>5, <1>6

\* A call about a device that has a row starts no other, and a start is remembered.
LEMMA AccountedLater ==
  ASSUME TypeOK, Accounted, NEW c \in Client,
         \/ Begin(c) \/ Start(c) \/ Restart(c) \/ Stop(c) \/ EmuKill(c) \/ Signal(c)
         \/ Undefine(c) \/ DropAvd(c) \/ DropRow(c)
  PROVE  Accounted'
<1> USE DeviceAssumption, PortAssumption
    DEF TypeOK, Accounted, OwnDevice, Killed, NoneLeftBehind, InFlight
<1>1. CASE Begin(c)
  BY <1>1 DEF Begin
<1>2. CASE Start(c)
  BY <1>2 DEF Start
<1>3. CASE Restart(c)
  BY <1>3 DEF Restart, Launch
<1>4. CASE Stop(c)
  BY <1>4 DEF Stop
<1>5. CASE EmuKill(c)
  BY <1>5 DEF EmuKill
<1>6. CASE Signal(c)
  BY <1>6 DEF Signal
<1>7. CASE Undefine(c)
  BY <1>7 DEF Undefine
<1>8. CASE DropAvd(c)
  BY <1>8 DEF DropAvd
<1>9. CASE DropRow(c)
  BY <1>9 DEF DropRow
<1> QED BY <1>1, <1>2, <1>3, <1>4, <1>5, <1>6, <1>7, <1>8, <1>9

\* An emulator that exits, or is left behind by a crash, is accounted for.
LEMMA AccountedOther ==
  ASSUME TypeOK, Accounted, (\E d \in Device : Exits(d)) \/ Crash
  PROVE  Accounted'
<1> USE DeviceAssumption DEF TypeOK, Accounted, OwnDevice, Killed, NoneLeftBehind, InFlight
<1>1. ASSUME NEW d \in Device, Exits(d)
      PROVE  Accounted'
  BY <1>1 DEF Exits
<1>2. CASE Crash
  BY <1>2 DEF Crash
<1> QED BY <1>1, <1>2

\* Every emulator that runs without a row is one being made or remembered as a stray.
THEOREM AllAccounted == Spec => []Accounted
<1>1. Init => Accounted
  BY DeviceAssumption DEF Init, Accounted, OwnDevice, Killed, NoneLeftBehind
<1>2. TypeOK /\ Accounted /\ [Next]_vars => Accounted'
  <2>1. TypeOK /\ Accounted /\ Next => Accounted'
    BY AccountedCreate, AccountedLater, AccountedOther DEF Next, Call
  <2>2. Accounted /\ UNCHANGED vars => Accounted'
    BY DEF vars, Accounted, OwnDevice, Killed, NoneLeftBehind, InFlight
  <2> QED BY <2>1, <2>2
<1> QED BY TypeCorrect, <1>1, <1>2, PTL DEF Spec

\* No emulator outlives its row, but a stray one.
THEOREM NoEmulatorLeftBehind == Spec => []NoneLeftBehind
<1>1. Accounted => NoneLeftBehind
  BY DEF Accounted
<1> QED BY AllAccounted, <1>1, PTL

-----------------------------------------------------------------------------
(***************************************************************************)
(* The cap.  What counts against it is the emulators that run or are being *)
(* made, less the blind ones; only a request adds one, and it has seen all *)
(* the others.                                                             *)
(***************************************************************************)
Counted == {d \in Device : Runs(d) \/ d \in InFlight} \ blind

\* A subset of the counted devices is within the cap if they are.
LEMMA FewerCounted ==
  ASSUME CapBounded, Counted' \subseteq Counted
  PROVE  CapBounded'
<1>1. IsFiniteSet(Counted)
  BY DeviceAssumption, FS_Subset DEF Counted
<1>2. /\ Cardinality(Counted') <= Cardinality(Counted)
      /\ Cardinality(Counted') \in Nat /\ Cardinality(Counted) \in Nat
  BY <1>1, FS_Subset, FS_CardinalityType
<1>3. Cardinality(Counted) <= MaxEmulators
  BY DEF CapBounded, Counted
<1>4. Cardinality(Counted') <= MaxEmulators
  BY <1>2, <1>3, CapAssumption
<1> QED BY <1>4 DEF CapBounded, Counted

\* A request adds its device to those it counted: the others became blind.
LEMMA RequestBounded ==
  ASSUME TypeOK, Accounted, CapBounded, NEW c \in Client, NEW d \in Device, Request(c, d)
  PROVE  CapBounded'
<1> DEFINE seen == {e \in rows : Runs(e)}
<1>1. IsFiniteSet(seen) /\ d \notin seen
  BY DeviceAssumption, FS_Subset DEF TypeOK, Request
<1>2. Counted' \subseteq seen \cup {d}
  BY DEF TypeOK, Accounted, NoneLeftBehind, Request, Counted, InFlight
<1>3. /\ IsFiniteSet(seen \cup {d})
      /\ Cardinality(seen \cup {d}) = Cardinality(seen) + 1
  BY <1>1, FS_AddElement
<1>4. Cardinality(seen) < MaxEmulators
  BY DEF Request, UnderCap
<1>5. /\ Cardinality(Counted') <= Cardinality(seen \cup {d})
      /\ Cardinality(Counted') \in Nat /\ Cardinality(seen) \in Nat
  BY <1>1, <1>2, <1>3, FS_Subset, FS_CardinalityType
<1>6. Cardinality(Counted') <= MaxEmulators
  BY <1>3, <1>4, <1>5, CapAssumption
<1> QED BY <1>6 DEF CapBounded, Counted

\* No other step adds to what counts.
LEMMA OthersCountLess ==
  ASSUME TypeOK, Accounted,
         (\E c \in Client : Begin(c) \/ Call(c)) \/ (\E d \in Device : Exits(d)) \/ Crash
  PROVE  Counted' \subseteq Counted
<1> USE DeviceAssumption, PortAssumption DEF TypeOK, Accounted, OwnDevice, Counted, InFlight
<1>1. ASSUME NEW c \in Client,
             Begin(c) \/ CreateAvd(c) \/ Start(c) \/ Stop(c) \/ DropAvd(c) \/ DropRow(c)
      PROVE  Counted' \subseteq Counted
  BY <1>1 DEF Begin, CreateAvd, Start, Stop, DropAvd, DropRow
<1>2. ASSUME NEW c \in Client, CreateFails(c) \/ PickPort(c)
      PROVE  Counted' \subseteq Counted
  BY <1>2 DEF CreateFails, PickPort
<1>3. ASSUME NEW c \in Client, Spawn(c) \/ InsertRow(c) \/ Restart(c)
      PROVE  Counted' \subseteq Counted
  BY <1>3 DEF Spawn, InsertRow, Restart, Launch
<1>4. ASSUME NEW c \in Client, EmuKill(c) \/ Signal(c) \/ Undefine(c)
      PROVE  Counted' \subseteq Counted
  BY <1>4 DEF EmuKill, Signal, Undefine
<1>5. ASSUME NEW d \in Device, Exits(d)
      PROVE  Counted' \subseteq Counted
  BY <1>5 DEF Exits
<1>6. CASE Crash
  BY <1>6 DEF Crash
<1> QED BY <1>1, <1>2, <1>3, <1>4, <1>5, <1>6 DEF Call

\* The emulators that a check of the cap could see never exceed it.
THEOREM CapRespected == Spec => []CapBounded
<1>1. Init => CapBounded
  <2>1. Init => {d \in Device : Runs(d) \/ d \in InFlight} \ blind = {}
    BY DEF Init, InFlight
  <2> QED BY <2>1, FS_EmptySet, CapAssumption DEF CapBounded
<1>2. TypeOK /\ Accounted /\ CapBounded /\ [Next]_vars => CapBounded'
  <2>1. TypeOK /\ Accounted /\ CapBounded /\ Next => CapBounded'
    BY RequestBounded, OthersCountLess, FewerCounted DEF Next
  <2>2. CapBounded /\ UNCHANGED vars => CapBounded'
    BY DEF vars, CapBounded, InFlight
  <2> QED BY <2>1, <2>2
<1> QED BY TypeCorrect, AllAccounted, <1>1, <1>2, PTL DEF Spec

-----------------------------------------------------------------------------
(***************************************************************************)
(* The serials.  docs/Android-Testing.md:47 has a row name the port of the *)
(* device's own emulator, which is not always so (the run that refutes     *)
(* SerialNamesDevice shows it); this is the only step that breaks it.      *)
(***************************************************************************)
Misnamed(d) == d \in rows /\ Runs(d) /\ serial[d] # proc[d]

\* what an emulator holds is its own, and the port its request is about to record
PortsKept ==
  /\ \A d, e \in Device : Runs(d) /\ proc[d] = proc[e] => d = e
  /\ \A c \in Client : pc[c] = "insert" => proc[arg[c]] \in {NoPort, port[c]}

\* No call about another device comes between the launch and the row.
LEMMA PortsKeptCall ==
  ASSUME TypeOK, Accounted, PortsKept, NEW c \in Client,
         (\E d \in Device : Request(c, d)) \/ Begin(c) \/ Call(c)
  PROVE  PortsKept'
<1> USE DeviceAssumption, PortAssumption DEF TypeOK, Accounted, OwnDevice, PortsKept
<1>1. ASSUME NEW d \in Device, Request(c, d)
      PROVE  PortsKept'
  BY <1>1 DEF Request
<1>2. CASE Begin(c) \/ CreateAvd(c) \/ CreateFails(c)
  BY <1>2 DEF Begin, CreateAvd, CreateFails
<1>3. CASE PickPort(c)
  BY <1>3 DEF PickPort
<1>4. CASE Spawn(c) \/ Restart(c)
  <2>1. pc[c] \in {"spawn", "restart_spawn"} /\ arg[c] \in Device /\ port[c] \in Port
    BY <1>4 DEF Spawn, Restart
  <2>2. \A k \in Client : pc[k] = "insert" => arg[k] # arg[c] /\ pc'[k] = "insert" /\ arg'[k] = arg[k]
    BY <1>4, <2>1 DEF Spawn, Restart
  <2>3. CASE UNCHANGED proc
    BY <1>4, <2>1, <2>3 DEF Spawn, Restart, Launch
  <2>4. CASE port[c] \notin PortsInUse /\ proc' = [proc EXCEPT ![arg[c]] = port[c]]
    BY <1>4, <2>1, <2>2, <2>4 DEF Spawn, Restart, PortsInUse
  <2> QED BY <1>4, <2>3, <2>4 DEF Spawn, Restart, Launch
<1>5. CASE InsertRow(c) \/ Start(c) \/ Stop(c)
  BY <1>5 DEF InsertRow, Start, Stop
<1>6. CASE EmuKill(c) \/ Signal(c) \/ Undefine(c)
  BY <1>6 DEF EmuKill, Signal, Undefine
<1>7. CASE DropAvd(c) \/ DropRow(c)
  BY <1>7 DEF DropAvd, DropRow
<1> QED BY <1>1, <1>2, <1>3, <1>4, <1>5, <1>6, <1>7 DEF Call

\* No two emulators hold one console port, whoever launches them and whenever.
THEOREM PortsAreKept == Spec => []PortsKept
<1>1. Init => PortsKept
  BY DEF Init, PortsKept
<1>2. TypeOK /\ Accounted /\ PortsKept /\ [Next]_vars => PortsKept'
  <2>1. ASSUME TypeOK, PortsKept, NEW d \in Device, Exits(d)
        PROVE  PortsKept'
    BY <2>1 DEF TypeOK, PortsKept, Exits
  <2>2. ASSUME PortsKept, Crash
        PROVE  PortsKept'
    BY <2>2 DEF PortsKept, Crash
  <2>3. PortsKept /\ UNCHANGED vars => PortsKept'
    BY DEF PortsKept, vars
  <2> QED BY <2>1, <2>2, <2>3, PortsKeptCall DEF Next
<1> QED BY TypeCorrect, AllAccounted, <1>1, <1>2, PTL DEF Spec

\* The serial that a row names is that of the device's emulator until vm.start or vm.restart
\* brings the device up again: no other step, of this call or another, makes it wrong.
THEOREM OnlyRestartsMisname ==
  Spec => [][\A d \in Device : Misnamed(d)' =>
               Misnamed(d) \/ \E c \in Client : arg[c] = d /\ Restart(c)]_vars
<1> DEFINE ByRestart(d) == \E c \in Client : arg[c] = d /\ Restart(c)
<1>1. ASSUME TypeOK, Accounted, PortsKept, [Next]_vars, NEW d \in Device, Misnamed(d)'
      PROVE  Misnamed(d) \/ ByRestart(d)
  <2> USE DeviceAssumption, PortAssumption DEF TypeOK, Accounted, OwnDevice, Misnamed
  <2>1. ASSUME NEW c \in Client, NEW e \in Device, Request(c, e)
        PROVE  Misnamed(d)
    BY <1>1, <2>1 DEF Request
  <2>2. ASSUME NEW c \in Client,
               \/ Begin(c) \/ CreateAvd(c) \/ CreateFails(c) \/ PickPort(c)
               \/ Start(c) \/ Stop(c) \/ DropAvd(c) \/ DropRow(c)
        PROVE  Misnamed(d)
    BY <1>1, <2>2
    DEF Begin, CreateAvd, CreateFails, PickPort, Start, Stop, DropAvd, DropRow
  <2>3. ASSUME NEW c \in Client, EmuKill(c) \/ Signal(c) \/ Undefine(c)
        PROVE  Misnamed(d)
    BY <1>1, <2>3 DEF EmuKill, Signal, Undefine
  <2>4. ASSUME NEW c \in Client, Spawn(c)
        PROVE  Misnamed(d)
    BY <1>1, <2>4 DEF Spawn, Launch
  <2>5. ASSUME NEW c \in Client, InsertRow(c)
        PROVE  Misnamed(d)
    BY <1>1, <2>5 DEF InsertRow, PortsKept
  <2>6. ASSUME NEW c \in Client, Restart(c)
        PROVE  Misnamed(d) \/ ByRestart(d)
    BY <1>1, <2>6 DEF Restart, Launch
  <2>7. (\E e \in Device : Exits(e)) => Misnamed(d)
    BY <1>1 DEF Exits
  <2>8. Crash \/ UNCHANGED vars => Misnamed(d)
    BY <1>1 DEF Crash, vars
  <2> QED BY <1>1, <2>1, <2>2, <2>3, <2>4, <2>5, <2>6, <2>7, <2>8 DEF Next, Call
<1>2. TypeOK /\ Accounted /\ PortsKept /\ [Next]_vars =>
        [\A d \in Device : Misnamed(d)' => Misnamed(d) \/ ByRestart(d)]_vars
  BY <1>1
<1> QED BY TypeCorrect, AllAccounted, PortsAreKept, <1>2, PTL DEF Spec

=============================================================================
