----------------------------- MODULE LeaseManager -----------------------------
(***************************************************************************)
(* The lease scanner and what it decides from: the leases, the cleanup     *)
(* actions that remember a shutdown it asked for, and the activity of the  *)
(* repositories.                                                           *)
(*                                                                         *)
(* Time is what the comparisons with it can say.  Of lease_until: it lies  *)
(* ahead, behind, or so far behind that a stopped VM may be deleted.  Of   *)
(* force_after: it lies ahead or behind.  Any setting of the intervals in  *)
(* boxer.yaml is some pace at which these move on.                         *)
(*                                                                         *)
(* A scan lists the rows once and then awaits many calls for each of them, *)
(* some of minutes; handlers run in between.  How undefine can fail, and   *)
(* what becomes of the storage, is VMLifecycle's subject.                  *)
(***************************************************************************)
EXTENDS Naturals, FiniteSets

CONSTANTS
  VM,          \* VMs made before
  Client,      \* IPC connections
  NoVM,
  Faults       \* subset of {"destroy", "crash"}

ASSUME NoVMAssumption == NoVM \notin VM

VARIABLES
  state,       \* vms.state, "none" without a row
  lease,       \* vms.lease_until against the clock
  action,      \* vm_cleanup_actions.force_after against the clock, "none" without one
  live,        \* what libvirt says of the domain
  busy,        \* VMs whose repository made inactive_call_threshold calls of late
  pc, arg,     \* the call each connection's handler awaits, and the VM it is about
  scanPc,      \* where the scan is,
  scanVm,      \* the VM it is about,
  scanState,   \* effective_state,
  scanLease,   \* and the lease of that VM when the scan listed it
  listed,      \* state and lease of the rows the scan has yet to visit
  due,         \* VMs whose force_after lay behind when the scan began
  renewed      \* history: VMs whose lease was extended during the scan

vars == <<state, lease, action, live, busy, pc, arg, scanPc, scanVm, scanState,
          scanLease, listed, due, renewed>>

rows    == <<state, lease, action>>
clients == <<pc, arg>>
scanArgs == <<scanVm, scanState, scanLease>>
scan    == <<scanPc, scanArgs, listed, due>>

RecordState == {"none", "running", "stopping", "stopped", "deleting", "unknown"}
Lease  == {"valid", "expired", "deletable"}
Action == {"none", "waiting", "due"}
Live   == {"running", "stopped", "unknown"}
HandlerPc == { "idle", "extend", "start", "start_record", "stop", "stop_record",
               "restart", "delete_mark", "delete_domain", "delete_row" }
ScanPc == { "idle", "visit", "sync", "judge", "shutdown", "mark", "ask", "force", "check",
            "retry", "final", "settle", "probe", "drop", "delete", "remove", "clear" }

\* One type invariant for the module.
TypeOK ==
  /\ state \in [VM -> RecordState] /\ lease \in [VM -> Lease]
  /\ action \in [VM -> Action]
  /\ \A v \in VM : state[v] = "none" => action[v] = "none"
  /\ live \in [VM -> Live] /\ busy \subseteq VM
  /\ pc \in [Client -> HandlerPc] /\ arg \in [Client -> VM \cup {NoVM}]
  /\ \A c \in Client : pc[c] # "idle" => arg[c] \in VM
  /\ scanPc \in ScanPc /\ scanVm \in VM \cup {NoVM}
  /\ scanPc \notin {"idle", "visit"} => scanVm \in VM /\ scanState # "none"
  /\ scanState \in RecordState /\ scanLease \in Lease
  /\ listed \in [VM -> [state : RecordState, lease : Lease]]
  /\ due \subseteq VM /\ renewed \subseteq VM

Unlisted == [v \in VM |-> [state |-> "none", lease |-> "valid"]]

Init ==
  /\ state = [v \in VM |-> "running"] /\ lease = [v \in VM |-> "valid"]
  /\ action = [v \in VM |-> "none"]
  /\ live = [v \in VM |-> "running"] /\ busy = {}
  /\ pc = [c \in Client |-> "idle"] /\ arg = [c \in Client |-> NoVM]
  /\ scanPc = "idle" /\ scanVm = NoVM /\ scanState = "none" /\ scanLease = "valid"
  /\ listed = Unlisted /\ due = {}
  /\ renewed = {}

-----------------------------------------------------------------------------
(***************************************************************************)
(* Rows and domains.                                                       *)
(***************************************************************************)
HasRow(v) == state[v] # "none"

UpdateState(v, s) == state' = [state EXCEPT ![v] = IF @ = "none" THEN @ ELSE s]

\* mutant: no ON DELETE CASCADE
DeleteRow_KeepsAction(v) ==
  /\ state' = [state EXCEPT ![v] = "none"]
  /\ UNCHANGED action

\* ON DELETE CASCADE takes the cleanup action along
DeleteRow(v) ==
  /\ state' = [state EXCEPT ![v] = "none"]
  /\ action' = [action EXCEPT ![v] = "none"]

SetAction(v, a) == action' = [action EXCEPT ![v] = a]

StartDomain(v) == live' = [live EXCEPT ![v] = "running"]

\* VMOperations.stop(graceful=False), whose failure is swallowed
DestroyDomain(v) ==
  \/ live' = [live EXCEPT ![v] = IF @ = "running" THEN "stopped" ELSE @]
  \/ "destroy" \in Faults /\ UNCHANGED live

\* VMOperations.undefine
UndefineDomain(v) ==
  \/ live' = [live EXCEPT ![v] = "unknown"]
  \/ "destroy" \in Faults /\ UNCHANGED live

-----------------------------------------------------------------------------
(***************************************************************************)
(* The handlers, from the policy check on.                                 *)
(***************************************************************************)
At(c, p) == pc[c] = p

Goto(c, p) == pc' = [pc EXCEPT ![c] = p] /\ UNCHANGED arg

Return(c) == pc' = [pc EXCEPT ![c] = "idle"] /\ arg' = [arg EXCEPT ![c] = NoVM]

Begin(c) ==
  /\ At(c, "idle")
  /\ \E v \in VM, first \in {"extend", "start", "stop", "restart", "delete_mark"} :
       HasRow(v) /\ pc' = [pc EXCEPT ![c] = first] /\ arg' = [arg EXCEPT ![c] = v]
  /\ UNCHANGED <<rows, live, busy, scan, renewed>>

\* the new lease lies ahead, however old the lease it was computed from
Extend(c) ==
  /\ At(c, "extend")
  /\ IF HasRow(arg[c])
       THEN /\ lease' = [lease EXCEPT ![arg[c]] = "valid"]
            /\ renewed' = IF scanPc = "idle" THEN {} ELSE renewed \cup {arg[c]}
       ELSE UNCHANGED <<lease, renewed>>
  /\ Return(c)
  /\ UNCHANGED <<state, action, live, busy, scan>>

Start(c) ==
  /\ At(c, "start")
  /\ \/ live[arg[c]] # "unknown" /\ StartDomain(arg[c]) /\ Goto(c, "start_record")
     \/ live[arg[c]] = "unknown" /\ Return(c) /\ UNCHANGED live
  /\ UNCHANGED <<rows, busy, scan, renewed>>

\* of vm.stop or vm.restart; a graceful stop leaves it to the guest
Stop(c) ==
  /\ \/ At(c, "stop") /\ Goto(c, "stop_record")
     \/ At(c, "restart") /\ Goto(c, "start")
  /\ DestroyDomain(arg[c]) \/ UNCHANGED live
  /\ UNCHANGED <<rows, busy, scan, renewed>>

Record(c) ==
  /\ \/ At(c, "start_record") /\ UpdateState(arg[c], "running") /\ Return(c)
     \/ At(c, "stop_record") /\ UpdateState(arg[c], "stopped") /\ Return(c)
     \/ At(c, "delete_mark") /\ UpdateState(arg[c], "deleting") /\ Goto(c, "delete_domain")
  /\ UNCHANGED <<lease, action, live, busy, scan, renewed>>

DeleteDomain(c) ==
  /\ At(c, "delete_domain")
  /\ UndefineDomain(arg[c])
  /\ Goto(c, "delete_row")
  /\ UNCHANGED <<rows, busy, scan, renewed>>

DeleteFinish(c) ==
  /\ At(c, "delete_row")
  /\ DeleteRow(arg[c])
  /\ Return(c)
  /\ UNCHANGED <<lease, live, busy, scan, renewed>>

-----------------------------------------------------------------------------
(***************************************************************************)
(* The scanner.                                                            *)
(***************************************************************************)
ScanGoto(p) == scanPc' = p /\ UNCHANGED <<scanArgs, listed, due>>

NoArgs == scanVm' = NoVM /\ scanState' = "none" /\ scanLease' = "valid"

ScanNext == scanPc' = "visit" /\ NoArgs /\ UNCHANGED <<listed, due>>

\* the end of a scan, reached or not
ScanOver == scanPc' = "idle" /\ NoArgs /\ listed' = Unlisted /\ due' = {} /\ renewed' = {}

\* "now" and list_vms; each row is judged by what it says here
ScanBegin ==
  /\ scanPc = "idle"
  /\ scanPc' = "visit"
  /\ listed' = [v \in VM |-> [state |-> state[v], lease |-> lease[v]]]
  /\ due' = {v \in VM : action[v] = "due"}
  /\ UNCHANGED <<rows, live, busy, clients, scanArgs, renewed>>

\* mutant: a lease is read only to delete
Verdict_RunningAnyway(l, s) ==
  CASE s \in {"running", "stopping"} -> "judge"
    [] s \in {"stopped", "unknown"}  -> "probe"
    [] OTHER                         -> "visit"

\* an unexpired lease, an expired one of a running VM, one of a VM that does not run
Verdict(l, s) ==
  IF l = "valid" THEN "clear"
  ELSE CASE s \in {"running", "stopping"} -> "judge"
         [] s \in {"stopped", "unknown"}  -> "probe"
         [] OTHER                         -> "visit"

\* mutant: the row is not brought up to date
ScanVisit_NoSync(v) ==
  LET s == IF live[v] = "unknown" THEN listed[v].state ELSE live[v]
  IN /\ scanPc = "visit" /\ listed[v].state # "none"
     /\ scanPc' = Verdict(listed[v].lease, s)
     /\ scanVm' = v /\ scanState' = s /\ scanLease' = listed[v].lease
     /\ listed' = [listed EXCEPT ![v].state = "none"]
     /\ UNCHANGED <<rows, live, busy, clients, due, renewed>>

\* get_state on the loop; the live state wins unless libvirt does not know the domain
ScanVisit(v) ==
  LET s == IF live[v] = "unknown" THEN listed[v].state ELSE live[v]
  IN /\ scanPc = "visit" /\ listed[v].state # "none"
     /\ scanPc' = IF s = listed[v].state THEN Verdict(listed[v].lease, s) ELSE "sync"
     /\ scanVm' = v /\ scanState' = s /\ scanLease' = listed[v].lease
     /\ listed' = [listed EXCEPT ![v].state = "none"]
     /\ UNCHANGED <<rows, live, busy, clients, due, renewed>>

ScanSync ==
  /\ scanPc = "sync"
  /\ UpdateState(scanVm, scanState)
  /\ ScanGoto(Verdict(scanLease, scanState))
  /\ UNCHANGED <<lease, action, live, busy, clients, renewed>>

\* delete_cleanup_action: of a VM with a valid lease, of one found stopped, of one forced off
ScanDropAction ==
  /\ \/ scanPc \in {"clear", "settle"} /\ ScanNext
     \/ scanPc = "drop" /\ ScanGoto("delete")
  /\ SetAction(scanVm, "none")
  /\ UNCHANGED <<state, lease, live, busy, clients, renewed>>

\* mutant: a shutdown asked for before is forgotten
ScanJudge_AsksAgain ==
  /\ scanPc = "judge"
  /\ IF scanVm \in busy THEN ScanNext ELSE ScanGoto("shutdown")
  /\ UNCHANGED <<rows, live, busy, clients, renewed>>

\* count_project_calls_since and get_cleanup_action
ScanJudge ==
  /\ scanPc = "judge"
  /\ IF scanVm \in busy THEN ScanNext
     ELSE IF action[scanVm] = "none" THEN ScanGoto("shutdown")
     ELSE IF scanVm \in due THEN ScanGoto("force")
     ELSE ScanNext
  /\ UNCHANGED <<rows, live, busy, clients, renewed>>

\* the ACPI request, which the guest may hear or not; a domain that takes none is destroyed
AskShutdown ==
  /\ scanPc = "shutdown"
  /\ DestroyDomain(scanVm) \/ UNCHANGED live
  /\ ScanGoto("mark")
  /\ UNCHANGED <<rows, busy, clients, renewed>>

MarkStopping ==
  /\ scanPc = "mark"
  /\ UpdateState(scanVm, "stopping")
  /\ ScanGoto("ask")
  /\ UNCHANGED <<lease, action, live, busy, clients, renewed>>

\* upsert_cleanup_action: without its VM's row it breaks the foreign key, and
\* _scan_loop, which catches that, waits for the next scan
UpsertAction ==
  /\ scanPc \in {"ask", "retry"}
  /\ IF HasRow(scanVm) THEN SetAction(scanVm, "waiting") /\ ScanNext /\ UNCHANGED renewed
                       ELSE UNCHANGED action /\ ScanOver
  /\ UNCHANGED <<state, lease, live, busy, clients>>

ForceOff ==
  /\ scanPc = "force"
  /\ DestroyDomain(scanVm)
  /\ ScanGoto("check")
  /\ UNCHANGED <<rows, busy, clients, renewed>>

\* a domain that runs, still or again, is left to a later scan
CheckForced ==
  /\ scanPc = "check"
  /\ IF live[scanVm] = "running" THEN ScanGoto("retry")
     ELSE /\ scanPc' = "final" /\ scanState' = live[scanVm]
          /\ UNCHANGED <<scanVm, scanLease, listed, due>>
  /\ UNCHANGED <<rows, live, busy, clients, renewed>>

RecordForced ==
  /\ scanPc = "final"
  /\ UpdateState(scanVm, scanState)
  /\ ScanGoto("settle")
  /\ UNCHANGED <<lease, action, live, busy, clients, renewed>>

ScanProbe ==
  /\ scanPc = "probe"
  /\ ScanGoto(IF action[scanVm] # "none" THEN "drop" ELSE "delete")
  /\ UNCHANGED <<rows, live, busy, clients, renewed>>

\* past the grace period of the listed lease, _auto_delete: undefine without an await
AutoDelete ==
  /\ scanPc = "delete"
  /\ IF scanLease = "deletable"
       THEN UndefineDomain(scanVm) /\ ScanGoto("remove")
       ELSE UNCHANGED live /\ ScanNext
  /\ UNCHANGED <<rows, busy, clients, renewed>>

\* delete_cleanup_action, which the cascade would do too, and delete_vm
AutoRow ==
  /\ scanPc = "remove"
  /\ DeleteRow(scanVm)
  /\ ScanNext
  /\ UNCHANGED <<lease, live, busy, clients, renewed>>

ScanEnd ==
  /\ scanPc = "visit" /\ \A v \in VM : listed[v].state = "none"
  /\ ScanOver
  /\ UNCHANGED <<rows, live, busy, clients>>

-----------------------------------------------------------------------------
(***************************************************************************)
(* The environment.                                                        *)
(***************************************************************************)
LeaseRuns(v) ==
  /\ HasRow(v) /\ lease[v] # "deletable"
  /\ lease' = [lease EXCEPT ![v] = IF @ = "valid" THEN "expired" ELSE "deletable"]
  /\ UNCHANGED <<state, action, live, busy, clients, scan, renewed>>

ForceComesDue(v) ==
  /\ action[v] = "waiting"
  /\ SetAction(v, "due")
  /\ UNCHANGED <<state, lease, live, busy, clients, scan, renewed>>

RepositoryStirs(v) ==
  /\ busy' = IF v \in busy THEN busy \ {v} ELSE busy \cup {v}
  /\ UNCHANGED <<rows, live, clients, scan, renewed>>

GuestPowerOff(v) ==
  /\ live[v] = "running"
  /\ live' = [live EXCEPT ![v] = "stopped"]
  /\ UNCHANGED <<rows, busy, clients, scan, renewed>>

\* leases and actions are in the database, all else is lost
Crash ==
  /\ "crash" \in Faults
  /\ pc' = [c \in Client |-> "idle"] /\ arg' = [c \in Client |-> NoVM]
  /\ ScanOver
  /\ UNCHANGED <<rows, live, busy>>

-----------------------------------------------------------------------------

Handle(c) ==
  Extend(c) \/ Start(c) \/ Stop(c) \/ Record(c) \/ DeleteDomain(c) \/ DeleteFinish(c)

Scan ==
  \/ ScanBegin \/ (\E v \in VM : ScanVisit(v)) \/ ScanSync \/ ScanDropAction \/ ScanJudge
  \/ AskShutdown \/ MarkStopping \/ UpsertAction \/ ForceOff \/ CheckForced \/ RecordForced
  \/ ScanProbe \/ AutoDelete \/ AutoRow \/ ScanEnd

Environment(v) ==
  LeaseRuns(v) \/ ForceComesDue(v) \/ RepositoryStirs(v) \/ GuestPowerOff(v)

Next ==
  \/ \E c \in Client : Begin(c) \/ Handle(c)
  \/ Scan
  \/ \E v \in VM : Environment(v)
  \/ Crash

Spec == Init /\ [][Next]_vars

\* Started handlers and the scanner's loop go on, and time passes.
Fairness ==
  /\ \A c \in Client : WF_vars(Handle(c))
  /\ WF_vars(Scan)
  /\ \A v \in VM : WF_vars(ForceComesDue(v))

FairSpec == Spec /\ Fairness

-----------------------------------------------------------------------------
(***************************************************************************)
(* Properties.                                                             *)
(***************************************************************************)
Deletes(v) == scanVm = v /\ AutoDelete /\ scanPc' = "remove"

Forces(v) == scanVm = v /\ ForceOff

Strikes(v) == Deletes(v) \/ Forces(v) \/ (scanVm = v /\ AskShutdown)

\* A lease is at least as far gone as what the scan read, or was extended since.
AsOld(l, v) ==
  \/ v \in renewed
  \/ (l # "valid" => lease[v] # "valid") /\ (l = "deletable" => lease[v] = "deletable")

\* A snapshot of an expired lease is right, or the extension came later; so is that of
\* an elapsed force_after until the scan is done with its VM, or the row is gone.
SnapshotHolds ==
  /\ \A v \in VM : listed[v].state # "none" => AsOld(listed[v].lease, v)
  /\ scanVm # NoVM => AsOld(scanLease, scanVm)
  /\ \A v \in due :
       listed[v].state # "none" \/ (scanVm = v /\ scanPc \in {"sync", "judge", "force"})
         => action[v] = "due" \/ state[v] = "none"
  /\ scanVm # NoVM => listed[scanVm].state = "none"
  /\ scanPc = "force" => scanVm \in due
  /\ scanPc \notin {"idle", "visit", "sync", "clear"} => scanLease # "valid"
  /\ scanPc = "remove" => scanLease = "deletable"
  /\ scanPc = "idle" => scanVm = NoVM /\ \A v \in VM : listed[v].state = "none"

\* The scanner shuts down, forces off or deletes no VM with a valid lease, deletes none
\* in the grace period of its lease, and forces off none that it did not ask to shut down
\* a force_after ago. The exception is a VM whose lease was extended after the scan
\* listed the rows (LeaseManager._scan: lease_until is read once, minutes of awaits
\* before it is acted upon).
LeaseProtects ==
  [][\A v \in VM :
       /\ Strikes(v) => lease[v] # "valid" \/ v \in renewed
       /\ Deletes(v) => lease[v] = "deletable" \/ v \in renewed
       /\ Forces(v) => action[v] = "due" \/ state[v] = "none"]_vars

\* A VM that nobody starts or extends, of a repository that stays inactive, is deleted in
\* the end, asked, forced or found stopped, if libvirt does not refuse for ever and boxerd
\* stays up (LeaseManager._scan with its cleanup actions, whatever they were left at).
LeftAlone(v) ==
  /\ <>[](lease[v] = "deletable" /\ v \notin busy)
  /\ <>[][~Crash /\ ~(\E c \in Client : arg[c] = v /\ Start(c))
            /\ ~(ForceOff /\ scanVm = v /\ live'[v] = "running")]_vars

StaleVMGoes == \A v \in VM : LeftAlone(v) => <>(state[v] = "none")

\* A VM that powered itself off, or was started by a call whose row was written after the
\* stop, does not keep its place among the running VMs of its project: every scan brings
\* the row up to date (lease_manager.py _scan, first lines of the loop).
StoppedIsFreed ==
  \A v \in VM : <>[](live[v] = "stopped") /\ <>[][~Crash]_vars => <>[](state[v] # "running")

=============================================================================
