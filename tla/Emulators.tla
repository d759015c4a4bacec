------------------------------- MODULE Emulators -------------------------------
(***************************************************************************)
(* Android emulators: processes that outlive boxerd and are known by their *)
(* command lines, the AVDs they run, the console ports they hold and the   *)
(* rows that name a port as the serial of the device.                      *)
(*                                                                         *)
(* Everything but the database is done in the thread pool, so that another *)
(* call can come between any two commands.  Requests over the cap are      *)
(* queued and asked again, which is Admission's subject; the state column  *)
(* of a row is VMLifecycle's, as nothing here reads it.                    *)
(***************************************************************************)
EXTENDS Naturals, FiniteSets

CONSTANTS
  Device,        \* AVDs, named for the id of the row
  Client,        \* calls at a time: IPC connections, the queue runner, the lease scan
  Port,          \* even console ports from emulator_console_port_min to _max
  NoDevice, NoPort,
  MaxEmulators,  \* max_concurrent_emulators
  Faults         \* subset of {"crash"}

ASSUME DeviceAssumption == IsFiniteSet(Device) /\ NoDevice \notin Device
ASSUME PortAssumption == Port \subseteq Nat /\ NoPort \notin Port
ASSUME CapAssumption == MaxEmulators \in Nat \ {0}

VARIABLES
  rows,        \* devices with a row of kind android,
  serial,      \* and the console port it names as boxer.android.adb_serial
  avds,        \* devices whose AVD exists
  proc,        \* the console port each device's process holds, NoPort without one
  pc, arg,     \* the command a call is about to run, and the device it is about
  port,        \* the port it picked
  toKill,      \* ports in use when it began a graceful stop
  blind,       \* history: running or about to, and not counted by a later check of the cap
  stray        \* history: devices whose process may have been left behind

calls == <<pc, arg, port, toKill>>
vars  == <<rows, serial, avds, proc, calls, blind, stray>>

CreatePc == {"image", "port", "spawn", "insert"}
LaterPc  == {"start", "restart_port", "restart_spawn", "stop", "kill", "signal",
             "undefine", "drop_avd", "drop_row"}
Pc == {"idle"} \cup CreatePc \cup LaterPc

\* One type invariant for the module.
TypeOK ==
  /\ rows \subseteq Device /\ serial \in [Device -> Port \cup {NoPort}]
  /\ avds \subseteq Device /\ proc \in [Device -> Port \cup {NoPort}]
  /\ pc \in [Client -> Pc] /\ arg \in [Client -> Device \cup {NoDevice}]
  /\ \A c \in Client : pc[c] # "idle" => arg[c] \in Device
  /\ port \in [Client -> Port \cup {NoPort}]
  /\ \A c \in Client : pc[c] \in {"spawn", "restart_spawn", "insert"} => port[c] \in Port
  /\ toKill \in [Client -> SUBSET Port]
  /\ blind \subseteq Device /\ stray \subseteq Device

Init ==
  /\ rows = {} /\ serial = [d \in Device |-> NoPort]
  /\ avds = {} /\ proc = [d \in Device |-> NoPort]
  /\ pc = [c \in Client |-> "idle"] /\ arg = [c \in Client |-> NoDevice]
  /\ port = [c \in Client |-> NoPort] /\ toKill = [c \in Client |-> {}]
  /\ blind = {} /\ stray = {}

-----------------------------------------------------------------------------
At(c, p) == pc[c] = p

Goto(c, p) == pc' = [pc EXCEPT ![c] = p] /\ UNCHANGED <<arg, toKill>>

Return(c) ==
  /\ pc' = [pc EXCEPT ![c] = "idle"] /\ arg' = [arg EXCEPT ![c] = NoDevice]
  /\ port' = [port EXCEPT ![c] = NoPort] /\ toKill' = [toKill EXCEPT ![c] = {}]

\* get_state and _pids_for_avd: a process of that AVD
Runs(d) == proc[d] # NoPort

PortsInUse == {proc[d] : d \in Device} \ {NoPort}

\* devices that a request is making and that have no row yet
InFlight == {d \in Device : \E c \in Client : arg[c] = d /\ pc[c] \in CreatePc}

Using(d) == \E c \in Client : arg[c] = d

End(ds) == proc' = [d \in Device |-> IF d \in ds THEN NoPort ELSE proc[d]]

-----------------------------------------------------------------------------
(***************************************************************************)
(* android.request.                                                        *)
(***************************************************************************)
\* mutant: the cap is compared after the fact
UnderCap_OffByOne == Cardinality({d \in rows : Runs(d)}) <= MaxEmulators

\* the rows of kind android whose emulator runs
UnderCap == Cardinality({d \in rows : Runs(d)}) < MaxEmulators

\* a device with a new id; what others are making is not counted
Request(c, d) ==
  /\ At(c, "idle") /\ UnderCap
  /\ d \notin rows \cup avds /\ ~Runs(d) /\ ~Using(d)
  /\ pc' = [pc EXCEPT ![c] = "image"] /\ arg' = [arg EXCEPT ![c] = d]
  /\ blind' = (blind \cup InFlight) \ {d} /\ stray' = stray \ {d}
  /\ UNCHANGED <<rows, serial, avds, proc, port, toKill>>

\* sdkmanager, then avdmanager
CreateAvd(c) ==
  /\ At(c, "image") /\ avds' = avds \cup {arg[c]} /\ Goto(c, "port")
  /\ UNCHANGED <<rows, serial, proc, port, blind, stray>>

CreateFails(c) ==
  /\ At(c, "image") /\ Return(c)
  /\ blind' = blind \ {arg[c]}
  /\ UNCHANGED <<rows, serial, avds, proc, stray>>

\* mutant: it goes on although no port is free
PickPort_NoneFree(c) ==
  /\ pc[c] \in {"port", "restart_port"}
  /\ LET free == Port \ PortsInUse IN
       \/ \E p \in free : (\A q \in free : p <= q) /\ port' = [port EXCEPT ![c] = p]
       \/ free = {} /\ UNCHANGED port
  /\ Goto(c, IF pc[c] = "port" THEN "spawn" ELSE "restart_spawn")
  /\ UNCHANGED <<rows, serial, avds, proc, blind, stray>>

\* allocate_console_port: the lowest free one
PickPort(c) ==
  /\ pc[c] \in {"port", "restart_port"}
  /\ LET free == Port \ PortsInUse IN
       \/ \E p \in free :
            /\ \A q \in free : p <= q
            /\ port' = [port EXCEPT ![c] = p]
            /\ Goto(c, IF pc[c] = "port" THEN "spawn" ELSE "restart_spawn")
            /\ UNCHANGED blind
       \/ /\ free = {} /\ Return(c)
          /\ blind' = IF pc[c] = "port" THEN blind \ {arg[c]} ELSE blind
  /\ UNCHANGED <<rows, serial, avds, proc, stray>>

\* Popen: an emulator whose port or AVD is taken, or whose AVD is gone, exits
Launch(c) ==
  LET d == arg[c] IN
  \/ /\ port[c] \notin PortsInUse /\ d \in avds /\ ~Runs(d)
     /\ proc' = [proc EXCEPT ![d] = port[c]]
  \/ (port[c] \in PortsInUse \/ d \notin avds \/ Runs(d)) /\ UNCHANGED proc

Spawn(c) ==
  /\ At(c, "spawn") /\ Launch(c) /\ Goto(c, "insert")
  /\ UNCHANGED <<rows, serial, avds, port, blind, stray>>

InsertRow(c) ==
  /\ At(c, "insert")
  /\ rows' = rows \cup {arg[c]} /\ serial' = [serial EXCEPT ![arg[c]] = port[c]]
  /\ Return(c)
  /\ UNCHANGED <<avds, proc, blind, stray>>

-----------------------------------------------------------------------------
(***************************************************************************)
(* vm.start, vm.stop, vm.restart and vm.delete of an android row, and the  *)
(* lease scan, which stops and deletes.                                    *)
(***************************************************************************)
Begin(c) ==
  /\ At(c, "idle")
  /\ \E d \in rows, first \in {"start", "stop", "undefine"} :
       pc' = [pc EXCEPT ![c] = first] /\ arg' = [arg EXCEPT ![c] = d]
  /\ UNCHANGED <<rows, serial, avds, proc, port, toKill, blind, stray>>

\* there is no check of the cap here
Start(c) ==
  /\ At(c, "start")
  /\ IF Runs(arg[c]) THEN Return(c) ELSE Goto(c, "restart_port") /\ UNCHANGED port
  /\ UNCHANGED <<rows, serial, avds, proc, blind, stray>>

\* launch picks a port of its own, and the row keeps the one it has; a process that comes
\* up while the row is being deleted, or after that, is nobody's
Restart(c) ==
  /\ At(c, "restart_spawn") /\ Launch(c) /\ Return(c)
  /\ blind' = blind \cup {arg[c]}
  /\ stray' = IF arg[c] \notin rows \/ \E k \in Client : arg[k] = arg[c] /\ pc[k] \in {"drop_avd", "drop_row"}
                THEN stray \cup {arg[c]} ELSE stray
  /\ UNCHANGED <<rows, serial, avds>>

\* vm.stop is over, vm.restart goes on to start
Stopped(c) == Return(c) \/ (Goto(c, "start") /\ UNCHANGED port)

Stop(c) ==
  /\ At(c, "stop")
  /\ \/ /\ Runs(arg[c]) /\ toKill' = [toKill EXCEPT ![c] = PortsInUse]
        /\ pc' = [pc EXCEPT ![c] = "kill"] /\ UNCHANGED <<arg, port>>
     \/ Runs(arg[c]) /\ Goto(c, "signal") /\ UNCHANGED port
     \/ ~Runs(arg[c]) /\ Stopped(c)
  /\ UNCHANGED <<rows, serial, avds, proc, blind, stray>>

\* emu kill to one port after another, whoever holds it by now
EmuKill(c) ==
  /\ At(c, "kill")
  /\ \/ \E p \in toKill[c] :
          /\ toKill' = [toKill EXCEPT ![c] = @ \ {p}]
          /\ End({d \in Device : proc[d] = p}) \/ UNCHANGED proc
          /\ UNCHANGED <<pc, arg>>
     \/ toKill[c] = {} /\ Goto(c, "signal") /\ UNCHANGED proc
  /\ UNCHANGED <<rows, serial, avds, port, blind, stray>>

\* SIGTERM or SIGKILL to what is left of its own; after SIGTERM it may take its time
Signal(c) ==
  /\ At(c, "signal")
  /\ End({arg[c]}) \/ UNCHANGED proc
  /\ Stopped(c)
  /\ UNCHANGED <<rows, serial, avds, blind, stray>>

\* mutant: undefine asks nicely
Undefine_Graceful(c) ==
  /\ At(c, "undefine")
  /\ End({arg[c]}) \/ UNCHANGED proc
  /\ Goto(c, "drop_avd") /\ UNCHANGED port
  /\ UNCHANGED <<rows, serial, avds, blind, stray>>

\* SIGKILL
Undefine(c) ==
  /\ At(c, "undefine") /\ End({arg[c]}) /\ Goto(c, "drop_avd") /\ UNCHANGED port
  /\ UNCHANGED <<rows, serial, avds, blind, stray>>

\* whose failure is swallowed
DropAvd(c) ==
  /\ At(c, "drop_avd") /\ Goto(c, "drop_row") /\ UNCHANGED port
  /\ avds' = avds \ {arg[c]} \/ UNCHANGED avds
  /\ UNCHANGED <<rows, serial, proc, blind, stray>>

DropRow(c) ==
  /\ At(c, "drop_row") /\ Return(c)
  /\ rows' = rows \ {arg[c]} /\ serial' = [serial EXCEPT ![arg[c]] = NoPort]
  /\ UNCHANGED <<avds, proc, blind, stray>>

-----------------------------------------------------------------------------
(***************************************************************************)
(* The emulators themselves, and boxerd's restarts.                        *)
(***************************************************************************)
Exits(d) ==
  /\ Runs(d) /\ End({d})
  /\ UNCHANGED <<rows, serial, avds, calls, blind, stray>>

\* start_new_session=True: the processes stay
Crash ==
  /\ "crash" \in Faults
  /\ pc' = [c \in Client |-> "idle"] /\ arg' = [c \in Client |-> NoDevice]
  /\ port' = [c \in Client |-> NoPort] /\ toKill' = [c \in Client |-> {}]
  /\ LET orphans == {d \in InFlight : Runs(d)} IN
       blind' = blind \cup orphans /\ stray' = stray \cup orphans
  /\ UNCHANGED <<rows, serial, avds, proc>>

-----------------------------------------------------------------------------
Call(c) ==
  \/ CreateAvd(c) \/ CreateFails(c) \/ PickPort(c) \/ Spawn(c) \/ InsertRow(c)
  \/ Start(c) \/ Restart(c) \/ Stop(c) \/ EmuKill(c) \/ Signal(c)
  \/ Undefine(c) \/ DropAvd(c) \/ DropRow(c)

Next ==
  \/ \E c \in Client : (\E d \in Device : Request(c, d)) \/ Begin(c) \/ Call(c)
  \/ \E d \in Device : Exits(d)
  \/ Crash

Spec == Init /\ [][Next]_vars

-----------------------------------------------------------------------------
(***************************************************************************)
(* Properties.                                                             *)
(***************************************************************************)
\* The emulators that run or are being made are no more than the cap allows, but for those a
\* later check could not count, because they had no row yet or boxerd died over them, and
\* those that vm.start or vm.restart brought back (_h_android_request counts, then awaits
\* three commands before the row is there).
CapBounded ==
  Cardinality({d \in Device : Runs(d) \/ d \in InFlight} \ blind) <= MaxEmulators

\* No emulator outlives its row, except one that was started while its row was being deleted,
\* or was being made when boxerd died (EmulatorOperations.undefine kills, then deletes the
\* AVD; start looks for a process, then launches one).
NoneLeftBehind ==
  \A d \in Device : Runs(d) => d \in rows \/ d \in InFlight \/ d \in stray

-----------------------------------------------------------------------------
(***************************************************************************)
(* What the documentation says, and what the model has, is not the case.   *)
(***************************************************************************)
\* docs/Android-Testing.md:47 "`ip_address`/tags hold the adb serial (`emulator-<port>`)":
\* what the row names is the port of the device's own emulator.  start launches on whatever
\* port is free then and writes no row.
SerialNamesDevice ==
  \A d \in rows : Runs(d) => serial[d] = proc[d]

=============================================================================
