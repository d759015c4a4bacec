----------------------------- MODULE VMLifecycle -----------------------------
(***************************************************************************)
(* The life of a Boxer VM as three things the daemon must keep in step:    *)
(* the row in the vms table, the libvirt domain and the VM directory.      *)
(*                                                                         *)
(* boxerd is one asyncio event loop.  A handler runs without interruption  *)
(* between two awaits; an await is a database call (the aiosqlite thread)  *)
(* or a libvirt call (run_in_executor: the thread pool).  An action here   *)
(* is one awaited call, or one stretch of loop code that touches shared    *)
(* state, so every interleaving of handlers, install watchers, the lease   *)
(* scanner and the guests themselves is a behaviour.                       *)
(*                                                                         *)
(* Four history facts are recorded in "excused" when a fault, or a race    *)
(* the code does not exclude, parts the three; the invariants say that     *)
(* nothing else ever does.                                                 *)
(***************************************************************************)
EXTENDS Naturals, FiniteSets

CONSTANTS
  VM,          \* the ids _make_vm_id may hand out
  Client,      \* IPC connections; each serves one request at a time
  NoVM,        \* the target of a handler or scan that has none
  Faults       \* what may go wrong in this instance

FaultKinds ==
  { "prepare",   \* qemu-img, key generation, cloud-init or the network fails
    "define",    \* libvirt refuses defineXML
    "start",     \* libvirt refuses create
    "shutdown",  \* libvirt refuses the ACPI request
    "destroy",   \* libvirt refuses destroy
    "undefine",  \* libvirt refuses undefineFlags
    "storage",   \* rmtree of the VM directory fails
    "database",  \* a database call raises
    "crash" }    \* boxerd stops or is killed, and starts again

ASSUME NoVMAssumption == NoVM \notin VM
ASSUME FaultsAssumption == Faults \subseteq FaultKinds

-----------------------------------------------------------------------------

VARIABLES
  made,        \* ids handed out so far
  record,      \* vms.state of each id, "none" without a row
  install,     \* vms.install_state, "none" for NULL
  origin,      \* vms.origin, "none" without a row
  defined,     \* ids with a persistent libvirt domain
  active,      \* ids whose domain is running
  disk,        \* ids whose VM directory exists
  pc,          \* the call each connection's handler awaits
  arg,         \* the VM the handler is about
  owned,       \* the handler's copy of the row says origin "boxer"
  watch,       \* where the install watcher of each id is
  scanPc,      \* where the lease scanner is,
  scanVm,      \* the VM it is about,
  scanState,   \* the state it takes that VM to be in,
  scanOwned,   \* and whether its copy of the row says origin "boxer"
  listed,      \* states of the rows the running scan has yet to visit
  listedOwned, \* those among them with origin "boxer"
  excused      \* history: <<id, fact>> pairs

rows     == <<record, install, origin>>
domains  == <<defined, active>>
handlers == <<pc, arg, owned>>
scanArgs == <<scanVm, scanState, scanOwned>>
listing  == <<listed, listedOwned>>
scanner  == <<scanPc, scanArgs, listing>>
vars     == <<made, rows, domains, disk, handlers, watch, scanner, excused>>

RecordState == {"none", "running", "stopping", "stopped", "deleting", "unknown"}
InstallState == {"none", "installing", "installed", "failed"}
Origin == {"none", "boxer", "adopted"}

\* A create that has not yet inserted its row is in one of these.
EarlyPc  == {"create_storage", "create_define"}
UnbornPc == EarlyPc \cup {"create_boot", "create_insert", "create_rollback"}

RowPc == {"start_exec", "stop_exec", "restart_stop", "delete_mark", "purge_look"}
HandlerPc ==
  UnbornPc \cup RowPc \cup
  { "idle", "create_watch", "start_record", "stop_record", "restart_start",
    "delete_destroy", "delete_undefine", "delete_storage", "delete_row",
    "adopt_check", "adopt_insert", "purge_row" }
WatchPc == {"off", "poll", "switch", "redefine", "start", "installed", "running", "fail"}
ScanPc == { "idle", "visit", "sync", "judge", "shutdown", "force", "check", "mark",
            "auto_destroy", "auto_undefine", "auto_storage", "auto_row" }
Excuse == {"stray", "litter", "torn", "unwatched"}

\* One type invariant for the module.
TypeOK ==
  /\ made \subseteq VM
  /\ record \in [VM -> RecordState]
  /\ install \in [VM -> InstallState]
  /\ origin \in [VM -> Origin]
  /\ \A v \in VM : (record[v] = "none") <=> (origin[v] = "none")
  /\ defined \subseteq VM /\ active \subseteq VM /\ disk \subseteq VM
  /\ pc \in [Client -> HandlerPc]
  /\ arg \in [Client -> VM \cup {NoVM}]
  /\ owned \in [Client -> BOOLEAN]
  /\ \A c \in Client : pc[c] # "idle" => arg[c] \in made
  /\ watch \in [VM -> WatchPc]
  /\ scanPc \in ScanPc /\ scanVm \in VM \cup {NoVM}
  /\ scanState \in RecordState /\ scanOwned \in BOOLEAN
  /\ scanPc \notin {"idle", "visit"} => scanVm \in VM /\ scanState # "none"
  /\ listed \in [VM -> RecordState]
  /\ listedOwned \subseteq VM
  /\ excused \subseteq VM \X Excuse

-----------------------------------------------------------------------------
(***************************************************************************)
(* Rows.  Every write but the two inserts is an UPDATE or DELETE ... WHERE *)
(* id=?, so on a missing row it does nothing.                              *)
(***************************************************************************)
HasRow(v) == record[v] # "none"

UpdateState(v, s) ==
  record' = [record EXCEPT ![v] = IF @ = "none" THEN @ ELSE s]

UpdateInstall(v, s) ==
  install' = [install EXCEPT ![v] = IF record[v] = "none" THEN @ ELSE s]

InsertRow(v, i, o) ==
  /\ record' = [record EXCEPT ![v] = "running"]
  /\ install' = [install EXCEPT ![v] = i]
  /\ origin' = [origin EXCEPT ![v] = o]

\* mutant: the row is rewritten, not deleted
DeleteRow_KeepsOrigin(v) ==
  /\ record' = [record EXCEPT ![v] = "none"]
  /\ install' = [install EXCEPT ![v] = "none"]
  /\ UNCHANGED origin

DeleteRow(v) ==
  /\ record' = [record EXCEPT ![v] = "none"]
  /\ install' = [install EXCEPT ![v] = "none"]
  /\ origin' = [origin EXCEPT ![v] = "none"]

(***************************************************************************)
(* Domains.  "active" covers every state in which a QEMU process exists.   *)
(* A domain in active but not defined is transient: it is gone as soon as  *)
(* it stops.                                                               *)
(***************************************************************************)
Exists(v) == v \in defined \/ v \in active

LiveState(v) ==
  IF v \in active THEN "running" ELSE IF v \in defined THEN "stopped" ELSE "unknown"

\* VMOperations.start: nothing to do for a running domain; a start needs the disk.
CanStart(v) == v \in active \/ (v \in defined /\ v \in disk)

\* dom.destroy(), whose libvirtError the callers swallow
Destroy(v) ==
  \/ active' = active \ {v}
  \/ "destroy" \in Faults /\ UNCHANGED active

\* The first half of VMOperations.undefine: look the domain up and destroy it ...
Destroyed(v) ==
  Exists(v) /\ active' = active \ {v} /\ UNCHANGED excused

\* ... or give up there, with a libvirtError that no caller ever sees.
NotDestroyed(v) ==
  /\ UNCHANGED active
  /\ \/ ~Exists(v) /\ UNCHANGED excused
     \/ "destroy" \in Faults /\ v \in active /\ excused' = excused \cup {<<v, "stray">>}

\* VMOperations.stop: a missing domain returns at once; a graceful stop only asks the guest.
StopDomain(v, graceful) ==
  IF graceful /\ v \in active
    THEN \/ UNCHANGED active
         \/ "shutdown" \in Faults /\ Destroy(v)
    ELSE Destroy(v)

\* The second half, dom.undefineFlags: a domain found running stays on as a transient one.
Undefine(v) ==
  \/ /\ defined' = defined \ {v}
     /\ excused' = IF v \in active THEN excused \cup {<<v, "stray">>} ELSE excused
  \/ /\ "undefine" \in Faults
     /\ UNCHANGED defined
     /\ excused' = IF Exists(v) THEN excused \cup {<<v, "stray">>} ELSE excused

-----------------------------------------------------------------------------
(***************************************************************************)
(* Handlers.                                                               *)
(***************************************************************************)
At(c, p) == pc[c] = p

Goto(c, p) == /\ pc' = [pc EXCEPT ![c] = p]
              /\ UNCHANGED <<arg, owned>>

Enter(c, p, v, o) == /\ pc' = [pc EXCEPT ![c] = p]
                     /\ arg' = [arg EXCEPT ![c] = v]
                     /\ owned' = [owned EXCEPT ![c] = o]

Return(c) == Enter(c, "idle", NoVM, FALSE)

\* The scanner's _auto_delete calls libvirt on the loop itself: until it is
\* done with undefine and rmtree, no other loop code runs; awaited calls still do.
LoopFree == scanPc \notin {"auto_undefine", "auto_storage"}

Init ==
  /\ made = {}
  /\ record = [v \in VM |-> "none"]
  /\ install = [v \in VM |-> "none"]
  /\ origin = [v \in VM |-> "none"]
  /\ defined = {} /\ active = {} /\ disk = {}
  /\ pc = [c \in Client |-> "idle"]
  /\ arg = [c \in Client |-> NoVM]
  /\ owned = [c \in Client |-> FALSE]
  /\ watch = [v \in VM |-> "off"]
  /\ scanPc = "idle" /\ scanVm = NoVM /\ scanState = "none" /\ scanOwned = FALSE
  /\ listed = [v \in VM |-> "none"] /\ listedOwned = {}
  /\ excused = {}

-----------------------------------------------------------------------------
(***************************************************************************)
(* vm.request and vm.request_installer, once admitted.                     *)
(***************************************************************************)
CreateBegin(c) ==
  /\ LoopFree /\ At(c, "idle")
  /\ \E v \in VM \ made :
       /\ made' = made \cup {v}
       /\ Enter(c, "create_storage", v, TRUE)
  /\ UNCHANGED <<rows, domains, disk, watch, scanner, excused>>

\* the overlay (or blank disk), in a directory of its own
CreateStorage(c) ==
  /\ At(c, "create_storage")
  /\ disk' = disk \cup {arg[c]}
  /\ Goto(c, "create_define")
  /\ UNCHANGED <<made, rows, domains, watch, scanner, excused>>

\* Whatever raises before define_and_start is outside the try: the directory stays.
CreateAbandon(c) ==
  /\ "prepare" \in Faults
  /\ pc[c] \in EarlyPc
  /\ \/ UNCHANGED disk
     \/ disk' = disk \cup {arg[c]}
  /\ excused' = excused \cup {<<arg[c], "litter">>}
  /\ Return(c)
  /\ UNCHANGED <<made, rows, domains, watch, scanner>>

CreateDefine(c) ==
  /\ At(c, "create_define")
  /\ \/ /\ defined' = defined \cup {arg[c]}
        /\ Goto(c, "create_boot")
     \/ /\ "define" \in Faults
        /\ Goto(c, "create_rollback")
        /\ UNCHANGED defined
  /\ UNCHANGED <<made, rows, active, disk, watch, scanner, excused>>

\* dom.create(); when it fails, _discard_failed_define swallows its own errors
CreateBoot(c) ==
  /\ At(c, "create_boot")
  /\ \/ /\ arg[c] \in (defined \cap disk) \ active
        /\ active' = active \cup {arg[c]}
        /\ Goto(c, "create_insert")
        /\ UNCHANGED <<defined, excused>>
     \/ /\ "start" \in Faults \/ arg[c] \notin (defined \cap disk) \ active
        /\ \/ /\ Destroy(arg[c])
              /\ defined' = defined \ {arg[c]}
              /\ excused' = IF arg[c] \in active' THEN excused \cup {<<arg[c], "stray">>} ELSE excused
           \/ /\ "undefine" \in Faults
              /\ Destroy(arg[c])
              /\ excused' = excused \cup {<<arg[c], "stray">>}
              /\ UNCHANGED defined
        /\ Goto(c, "create_rollback")
  /\ UNCHANGED <<made, rows, disk, watch, scanner>>

\* mutant: a failed create keeps its directory
CreateRollback_LeavesDirectory(c) ==
  /\ LoopFree /\ At(c, "create_rollback")
  /\ Return(c)
  /\ UNCHANGED <<made, rows, domains, disk, watch, scanner, excused>>

CreateRollback(c) ==
  /\ LoopFree /\ At(c, "create_rollback")
  /\ \/ disk' = disk \ {arg[c]} /\ UNCHANGED excused
     \/ /\ "storage" \in Faults
        /\ excused' = excused \cup {<<arg[c], "litter">>}
        /\ UNCHANGED disk
  /\ Return(c)
  /\ UNCHANGED <<made, rows, domains, watch, scanner>>

\* insert_vm; an installer then awaits add_event before its watcher is spawned.
\* A row inserted meanwhile by vm.adopt makes the insert raise.
CreateInsert(c) ==
  /\ At(c, "create_insert")
  /\ IF HasRow(arg[c])
       THEN UNCHANGED rows /\ Return(c)
       ELSE \/ InsertRow(arg[c], "none", "boxer") /\ Return(c)
            \/ InsertRow(arg[c], "installing", "boxer") /\ Goto(c, "create_watch")
  /\ UNCHANGED <<made, domains, disk, watch, scanner, excused>>

CreateWatch(c) ==
  /\ LoopFree /\ At(c, "create_watch")
  /\ watch' = [watch EXCEPT ![arg[c]] = "poll"]
  /\ Return(c)
  /\ UNCHANGED <<made, rows, domains, disk, scanner, excused>>

-----------------------------------------------------------------------------
(***************************************************************************)
(* The handlers of an existing row: get_vm and the policy check, then the  *)
(* first awaited call.                                                     *)
(***************************************************************************)
HandlerBegin(c) ==
  /\ LoopFree /\ At(c, "idle")
  /\ \E v \in made, first \in RowPc :
       HasRow(v) /\ Enter(c, first, v, origin[v] = "boxer")
  /\ UNCHANGED <<made, rows, domains, disk, watch, scanner, excused>>

StartExec(c) ==
  /\ pc[c] \in {"start_exec", "restart_start"}
  /\ \/ /\ CanStart(arg[c])
        /\ active' = active \cup {arg[c]}
        /\ Goto(c, "start_record")
     \/ /\ ~CanStart(arg[c]) \/ "start" \in Faults
        /\ Return(c)
        /\ UNCHANGED active
  /\ UNCHANGED <<made, rows, defined, disk, watch, scanner, excused>>

StartRecord(c) ==
  /\ At(c, "start_record")
  /\ UpdateState(arg[c], "running")
  /\ Return(c)
  /\ UNCHANGED <<made, install, origin, domains, disk, watch, scanner, excused>>

StopExec(c) ==
  /\ \/ At(c, "stop_exec") /\ Goto(c, "stop_record")
     \/ At(c, "restart_stop") /\ Goto(c, "restart_start")
  /\ \E graceful \in BOOLEAN : StopDomain(arg[c], graceful)
  /\ UNCHANGED <<made, rows, defined, disk, watch, scanner, excused>>

StopRecord(c) ==
  /\ At(c, "stop_record")
  /\ UpdateState(arg[c], "stopped")
  /\ Return(c)
  /\ UNCHANGED <<made, install, origin, domains, disk, watch, scanner, excused>>

\* mutant: the directory goes first
DeleteMark_StorageFirst(c) ==
  /\ At(c, "delete_mark")
  /\ UpdateState(arg[c], "deleting")
  /\ Goto(c, "delete_storage")
  /\ UNCHANGED <<made, install, origin, domains, disk, watch, scanner, excused>>

DeleteMark(c) ==
  /\ At(c, "delete_mark")
  /\ UpdateState(arg[c], "deleting")
  /\ Goto(c, "delete_destroy")
  /\ UNCHANGED <<made, install, origin, domains, disk, watch, scanner, excused>>

\* mutant: the domain is stopped but never undefined
DeleteDestroy_StopOnly(c) ==
  /\ At(c, "delete_destroy")
  /\ Destroyed(arg[c]) \/ NotDestroyed(arg[c])
  /\ Goto(c, "delete_storage")
  /\ UNCHANGED <<made, rows, defined, disk, watch, scanner>>

DeleteDestroy(c) ==
  /\ At(c, "delete_destroy")
  /\ \/ Destroyed(arg[c]) /\ Goto(c, "delete_undefine")
     \/ NotDestroyed(arg[c]) /\ Goto(c, "delete_storage")
  /\ UNCHANGED <<made, rows, defined, disk, watch, scanner>>

\* mutant: a refused undefine ends the request
DeleteUndefine_Raises(c) ==
  /\ At(c, "delete_undefine")
  /\ Undefine(arg[c])
  /\ IF "undefine" \in Faults THEN Return(c) ELSE Goto(c, "delete_storage")
  /\ UNCHANGED <<made, rows, active, disk, watch, scanner>>

DeleteUndefine(c) ==
  /\ At(c, "delete_undefine")
  /\ Undefine(arg[c])
  /\ Goto(c, "delete_storage")
  /\ UNCHANGED <<made, rows, active, disk, watch, scanner>>

\* only storage Boxer made is removed
DeleteStorage(c) ==
  /\ LoopFree /\ At(c, "delete_storage")
  /\ \/ /\ disk' = IF owned[c] THEN disk \ {arg[c]} ELSE disk
        /\ Goto(c, "delete_row")
     \/ /\ "storage" \in Faults /\ owned[c]
        /\ Return(c)
        /\ UNCHANGED disk
  /\ UNCHANGED <<made, rows, domains, watch, scanner, excused>>

DeleteFinish(c) ==
  /\ At(c, "delete_row")
  /\ DeleteRow(arg[c])
  /\ excused' = IF ~owned[c] /\ arg[c] \in disk THEN excused \cup {<<arg[c], "litter">>} ELSE excused
  /\ Return(c)
  /\ UNCHANGED <<made, domains, disk, watch, scanner>>

-----------------------------------------------------------------------------
(***************************************************************************)
(* vm.adopt and vm.purge_ghost, the repairs that vm.scan suggests.         *)
(***************************************************************************)
AdoptLook(c) ==
  /\ LoopFree /\ At(c, "idle")
  /\ \E v \in made : Exists(v) /\ Enter(c, "adopt_check", v, FALSE)
  /\ UNCHANGED <<made, rows, domains, disk, watch, scanner, excused>>

AdoptCheck(c) ==
  /\ At(c, "adopt_check")
  /\ IF HasRow(arg[c]) THEN Return(c) ELSE Goto(c, "adopt_insert")
  /\ UNCHANGED <<made, rows, domains, disk, watch, scanner, excused>>

\* mutant: the adopted row claims storage that is not the daemon's
AdoptInsert_AsBoxer(c) ==
  /\ At(c, "adopt_insert")
  /\ IF HasRow(arg[c]) THEN UNCHANGED rows ELSE InsertRow(arg[c], "none", "boxer")
  /\ Return(c)
  /\ UNCHANGED <<made, domains, disk, watch, scanner, excused>>

AdoptInsert(c) ==
  /\ At(c, "adopt_insert")
  /\ IF HasRow(arg[c]) THEN UNCHANGED rows ELSE InsertRow(arg[c], "none", "adopted")
  /\ Return(c)
  /\ UNCHANGED <<made, domains, disk, watch, scanner, excused>>

PurgeLook(c) ==
  /\ At(c, "purge_look")
  /\ IF Exists(arg[c]) THEN Return(c) ELSE Goto(c, "purge_row")
  /\ UNCHANGED <<made, rows, domains, disk, watch, scanner, excused>>

\* the record alone: a directory left behind stays
PurgeRow(c) ==
  /\ At(c, "purge_row")
  /\ DeleteRow(arg[c])
  /\ excused' = IF arg[c] \in disk THEN excused \cup {<<arg[c], "litter">>} ELSE excused
  /\ Return(c)
  /\ UNCHANGED <<made, domains, disk, watch, scanner>>

\* A database call that raises ends its handler where it stands.
DatabaseError(c) ==
  /\ "database" \in Faults
  /\ \/ /\ At(c, "create_insert") /\ ~HasRow(arg[c])
        /\ excused' = excused \cup {<<arg[c], "stray">>, <<arg[c], "litter">>}
     \/ /\ At(c, "create_watch")
        /\ excused' = excused \cup {<<arg[c], "unwatched">>}
     \/ /\ At(c, "delete_row")
        /\ excused' = IF owned[c] THEN excused \cup {<<arg[c], "torn">>} ELSE excused
     \/ /\ pc[c] \in {"start_record", "stop_record", "delete_mark",
                      "adopt_check", "adopt_insert", "purge_row"}
        /\ UNCHANGED excused
  /\ Return(c)
  /\ UNCHANGED <<made, rows, domains, disk, watch, scanner>>

-----------------------------------------------------------------------------
(***************************************************************************)
(* The install watcher of an installer VM, a task of its own.              *)
(***************************************************************************)
Watching(v, p) == watch[v] = p

WatchGoto(v, p) == watch' = [watch EXCEPT ![v] = p]

\* mutant: no deadline
WatchPoll_NoDeadline(v) ==
  /\ LoopFree /\ Watching(v, "poll")
  /\ LiveState(v) = "stopped" /\ WatchGoto(v, "switch")
  /\ UNCHANGED <<made, rows, domains, disk, handlers, scanner, excused>>

\* get_state every 15 s until the domain is seen off, or the two hours are up
WatchPoll(v) ==
  /\ LoopFree /\ Watching(v, "poll")
  /\ \/ LiveState(v) = "stopped" /\ WatchGoto(v, "switch")
     \/ LiveState(v) # "stopped" /\ WatchGoto(v, "fail")
  /\ UNCHANGED <<made, rows, domains, disk, handlers, scanner, excused>>

\* switch_boot_to_disk reads the domain XML ...
WatchSwitch(v) ==
  /\ Watching(v, "switch")
  /\ Destroy(v)
  /\ WatchGoto(v, IF v \in defined \/ v \in active' THEN "redefine" ELSE "fail")
  /\ UNCHANGED <<made, rows, defined, disk, handlers, scanner, excused>>

\* ... and defines it again, whether or not it was undefined in between
WatchRedefine(v) ==
  /\ Watching(v, "redefine")
  /\ \/ /\ defined' = defined \cup {v}
        /\ excused' = IF v \in defined THEN excused ELSE excused \cup {<<v, "stray">>}
        /\ WatchGoto(v, "start")
     \/ /\ "define" \in Faults
        /\ WatchGoto(v, "fail")
        /\ UNCHANGED <<defined, excused>>
  /\ UNCHANGED <<made, rows, active, disk, handlers, scanner>>

WatchStart(v) ==
  /\ Watching(v, "start")
  /\ \/ CanStart(v) /\ active' = active \cup {v} /\ WatchGoto(v, "installed")
     \/ /\ ~CanStart(v) \/ "start" \in Faults
        /\ WatchGoto(v, "fail")
        /\ UNCHANGED active
  /\ UNCHANGED <<made, rows, defined, disk, handlers, scanner, excused>>

WatchInstalled(v) ==
  /\ Watching(v, "installed")
  /\ UpdateInstall(v, "installed")
  /\ WatchGoto(v, "running")
  /\ UNCHANGED <<made, record, origin, domains, disk, handlers, scanner, excused>>

WatchRunning(v) ==
  /\ Watching(v, "running")
  /\ UpdateState(v, "running")
  /\ WatchGoto(v, "off")
  /\ UNCHANGED <<made, install, origin, domains, disk, handlers, scanner, excused>>

\* mutant: the watcher gives up without a word
WatchFail_Silent(v) ==
  /\ Watching(v, "fail")
  /\ WatchGoto(v, "off")
  /\ UNCHANGED <<made, rows, domains, disk, handlers, scanner, excused>>

WatchFail(v) ==
  /\ Watching(v, "fail")
  /\ UpdateInstall(v, "failed")
  /\ WatchGoto(v, "off")
  /\ UNCHANGED <<made, record, origin, domains, disk, handlers, scanner, excused>>

WatchDatabaseError(v) ==
  /\ "database" \in Faults
  /\ \/ watch[v] \in {"installed", "running"} /\ WatchGoto(v, "fail") /\ UNCHANGED excused
     \/ /\ Watching(v, "fail")
        /\ WatchGoto(v, "off")
        /\ excused' = excused \cup {<<v, "unwatched">>}
  /\ UNCHANGED <<made, rows, domains, disk, handlers, scanner>>

-----------------------------------------------------------------------------
(***************************************************************************)
(* The lease scanner.  When a lease counts as expired or a repository as   *)
(* inactive is LeaseManager's subject; here either answer is possible.     *)
(***************************************************************************)
ScanGoto(p) == scanPc' = p /\ UNCHANGED scanArgs

ScanEnter(p, v, s, o) == scanPc' = p /\ scanVm' = v /\ scanState' = s /\ scanOwned' = o

\* on to the next listed row
ScanNext == ScanEnter("visit", NoVM, "none", FALSE)

ScanBegin ==
  /\ scanPc = "idle"
  /\ ScanGoto("visit")
  /\ listed' = record
  /\ listedOwned' = {v \in VM : origin[v] = "boxer"}
  /\ UNCHANGED <<made, rows, domains, disk, handlers, watch, excused>>

\* The live state wins over the listed one unless libvirt does not know the domain.
ScanVisit(v) ==
  LET live == LiveState(v)
      state == IF live = "unknown" THEN listed[v] ELSE live
  IN /\ scanPc = "visit" /\ listed[v] # "none"
     /\ ScanEnter(IF state = listed[v] THEN "judge" ELSE "sync", v, state, v \in listedOwned)
     /\ listed' = [listed EXCEPT ![v] = "none"]
     /\ listedOwned' = listedOwned \ {v}
     /\ UNCHANGED <<made, rows, domains, disk, handlers, watch, excused>>

ScanWrite ==
  /\ \/ scanPc = "sync" /\ ScanGoto("judge")
     \/ scanPc = "mark" /\ ScanNext
  /\ UpdateState(scanVm, scanState)
  /\ UNCHANGED <<made, install, origin, domains, disk, handlers, watch, listing, excused>>

\* lease not expired, repository active or grace not over: nothing to do;
\* otherwise stop a running VM, delete one that is not
ScanJudge ==
  /\ scanPc = "judge"
  /\ \/ ScanNext
     \/ scanState \in {"running", "stopping"} /\ (ScanGoto("shutdown") \/ ScanGoto("force"))
     \/ scanState \in {"stopped", "unknown"} /\ ScanGoto("auto_destroy")
  /\ UNCHANGED <<made, rows, domains, disk, handlers, watch, listing, excused>>

ScanShutdown ==
  /\ scanPc = "shutdown"
  /\ StopDomain(scanVm, TRUE)
  /\ ScanEnter("mark", scanVm, "stopping", scanOwned)
  /\ UNCHANGED <<made, rows, defined, disk, handlers, watch, listing, excused>>

ScanForce ==
  /\ scanPc = "force"
  /\ StopDomain(scanVm, FALSE)
  /\ ScanGoto("check")
  /\ UNCHANGED <<made, rows, defined, disk, handlers, watch, listing, excused>>

\* a domain still running keeps its row for a retry
ScanCheck ==
  /\ scanPc = "check"
  /\ \/ LiveState(scanVm) = "running" /\ ScanNext
     \/ /\ LiveState(scanVm) # "running"
        /\ ScanEnter("mark", scanVm, LiveState(scanVm), scanOwned)
  /\ UNCHANGED <<made, rows, domains, disk, handlers, watch, listing, excused>>

\* _auto_delete: undefine on the loop, in two libvirt calls ...
AutoDestroy ==
  /\ scanPc = "auto_destroy"
  /\ \/ Destroyed(scanVm) /\ ScanGoto("auto_undefine")
     \/ NotDestroyed(scanVm) /\ ScanGoto("auto_storage")
  /\ UNCHANGED <<made, rows, defined, disk, handlers, watch, listing>>

AutoUndefine ==
  /\ scanPc = "auto_undefine"
  /\ Undefine(scanVm)
  /\ ScanGoto("auto_storage")
  /\ UNCHANGED <<made, rows, active, disk, handlers, watch, listing>>

\* ... then the directory, in the same stretch of loop code
AutoStorage ==
  /\ scanPc = "auto_storage"
  /\ \/ /\ disk' = IF scanOwned THEN disk \ {scanVm} ELSE disk
        /\ ScanGoto("auto_row")
     \/ "storage" \in Faults /\ scanOwned /\ ScanNext /\ UNCHANGED disk
  /\ UNCHANGED <<made, rows, domains, handlers, watch, listing, excused>>

AutoRow ==
  /\ scanPc = "auto_row"
  /\ DeleteRow(scanVm)
  /\ excused' = IF ~scanOwned /\ scanVm \in disk
                  THEN excused \cup {<<scanVm, "litter">>} ELSE excused
  /\ ScanNext
  /\ UNCHANGED <<made, domains, disk, handlers, watch, listing>>

\* _auto_delete catches whatever it raises and the scan goes on ...
AutoDatabaseError ==
  /\ "database" \in Faults
  /\ scanPc = "auto_row"
  /\ ScanNext
  /\ excused' = IF scanOwned THEN excused \cup {<<scanVm, "torn">>} ELSE excused
  /\ UNCHANGED <<made, rows, domains, disk, handlers, watch, listing>>

\* ... while _scan_loop catches the rest, and the scan is over.
ScanDatabaseError ==
  /\ "database" \in Faults
  /\ scanPc \in {"sync", "judge", "mark"}
  /\ ScanEnter("idle", NoVM, "none", FALSE)
  /\ listed' = [v \in VM |-> "none"] /\ listedOwned' = {}
  /\ UNCHANGED <<made, rows, domains, disk, handlers, watch, excused>>

ScanEnd ==
  /\ scanPc = "visit" /\ \A v \in VM : listed[v] = "none"
  /\ ScanGoto("idle")
  /\ UNCHANGED <<made, rows, domains, disk, handlers, watch, listing, excused>>

-----------------------------------------------------------------------------
(***************************************************************************)
(* The environment.                                                        *)
(***************************************************************************)

\* the guest shuts down: on request, by itself, or as an installer does at its end
GuestPowerOff(v) ==
  /\ v \in active
  /\ active' = active \ {v}
  /\ UNCHANGED <<made, rows, defined, disk, handlers, watch, scanner, excused>>

Unborn(v) == \E c \in Client : arg[c] = v /\ pc[c] \in UnbornPc

\* Every task is lost.  start() recovers none of them: not a half-made VM, not
\* a half-deleted one, not a watcher.
Crash ==
  /\ "crash" \in Faults
  /\ pc' = [c \in Client |-> "idle"]
  /\ arg' = [c \in Client |-> NoVM]
  /\ owned' = [c \in Client |-> FALSE]
  /\ watch' = [v \in VM |-> "off"]
  /\ ScanEnter("idle", NoVM, "none", FALSE)
  /\ listed' = [v \in VM |-> "none"] /\ listedOwned' = {}
  /\ excused' = excused \cup
       {<<v, "stray">> : v \in
          {w \in VM : \E c \in Client : arg[c] = w /\ pc[c] \in {"create_boot", "create_insert"}}} \cup
       {<<v, "litter">> : v \in {w \in VM : Unborn(w)}} \cup
       {<<v, "torn">> : v \in
          {w \in VM : \/ \E c \in Client : arg[c] = w /\ pc[c] = "delete_row" /\ owned[c]
                      \/ scanVm = w /\ scanPc = "auto_row" /\ scanOwned}} \cup
       {<<v, "unwatched">> : v \in
          {w \in VM : \/ watch[w] # "off"
                      \/ \E c \in Client : arg[c] = w /\ pc[c] = "create_watch"}}
  /\ UNCHANGED <<made, rows, domains, disk>>

-----------------------------------------------------------------------------

Create(c) ==
  \/ CreateBegin(c) \/ CreateStorage(c) \/ CreateAbandon(c) \/ CreateDefine(c)
  \/ CreateBoot(c) \/ CreateRollback(c) \/ CreateInsert(c) \/ CreateWatch(c)

Operate(c) ==
  \/ HandlerBegin(c) \/ StartExec(c) \/ StartRecord(c) \/ StopExec(c) \/ StopRecord(c)
  \/ DeleteMark(c) \/ DeleteDestroy(c) \/ DeleteUndefine(c) \/ DeleteStorage(c)
  \/ DeleteFinish(c)

Repair(c) ==
  \/ AdoptLook(c) \/ AdoptCheck(c) \/ AdoptInsert(c) \/ PurgeLook(c) \/ PurgeRow(c)

Watcher(v) ==
  \/ WatchPoll(v) \/ WatchSwitch(v) \/ WatchRedefine(v) \/ WatchStart(v)
  \/ WatchInstalled(v) \/ WatchRunning(v) \/ WatchFail(v) \/ WatchDatabaseError(v)

Scanner ==
  \/ ScanBegin \/ (\E v \in VM : ScanVisit(v)) \/ ScanWrite \/ ScanJudge
  \/ ScanShutdown \/ ScanForce \/ ScanCheck \/ AutoDestroy \/ AutoUndefine
  \/ AutoStorage \/ AutoRow \/ AutoDatabaseError \/ ScanDatabaseError \/ ScanEnd

Next ==
  \/ \E c \in Client : Create(c) \/ Operate(c) \/ Repair(c) \/ DatabaseError(c)
  \/ \E v \in VM : Watcher(v) \/ GuestPowerOff(v)
  \/ Scanner
  \/ Crash

Spec == Init /\ [][Next]_vars

(***************************************************************************)
(* The event loop runs its ready callbacks in turn and the thread pool     *)
(* finishes its calls, so a started task goes on, also past a scanner that *)
(* holds the loop again and again.  Nobody is bound to start one.          *)
(***************************************************************************)
Fairness ==
  /\ \A c \in Client : SF_vars(pc[c] # "idle" /\ (Create(c) \/ Operate(c) \/ Repair(c)))
  /\ \A v \in VM : SF_vars(watch[v] # "off" /\ Watcher(v))
  /\ WF_vars(scanPc # "idle" /\ Scanner)

FairSpec == Spec /\ Fairness

-----------------------------------------------------------------------------
(***************************************************************************)
(* Properties.                                                             *)
(***************************************************************************)
Deleting(v) ==
  \/ \E c \in Client : arg[c] = v /\ pc[c] = "delete_row" /\ owned[c]
  \/ scanVm = v /\ scanPc = "auto_row" /\ scanOwned

\* A domain without a row is one being created, or strayed by a refused libvirt
\* call, a failed or lost insert, a start that slipped into undefine, or a
\* watcher that defined it anew: no order of handlers orphans one otherwise.
OrphanExplained ==
  \A v \in VM :
    Exists(v) /\ ~HasRow(v) =>
      \/ <<v, "stray">> \in excused
      \/ \E c \in Client : arg[c] = v /\ pc[c] \in {"create_boot", "create_insert"}

\* A row of a VM Boxer made has its storage, unless it is about to be deleted
\* or its delete was cut off just before that.
StorageHeld ==
  \A v \in VM :
    origin[v] = "boxer" =>
      v \in disk \/ Deleting(v) \/ <<v, "torn">> \in excused

\* A directory without a row is one being created, or litter: a create that
\* failed before define_and_start, a purge, or a delete of an adopted VM.
LitterExplained ==
  \A v \in VM :
    v \in disk /\ ~HasRow(v) => Unborn(v) \/ <<v, "litter">> \in excused

\* count_installing_vms counts only installs that something will end.
InstallWatched ==
  \A v \in VM :
    install[v] = "installing" =>
      \/ watch[v] \notin {"off", "running"}
      \/ \E c \in Client : arg[c] = v /\ pc[c] = "create_watch"
      \/ <<v, "unwatched">> \in excused

-----------------------------------------------------------------------------
(***************************************************************************)
(* The inductive strengthening of the four invariants.                     *)
(***************************************************************************)
Idle == \A c \in Client : pc[c] = "idle" => arg[c] = NoVM /\ ~owned[c]

\* nothing refers to an id not handed out
Fresh ==
  \A v \in VM \ made :
    /\ ~HasRow(v) /\ ~Exists(v) /\ v \notin disk
    /\ watch[v] = "off" /\ listed[v] = "none" /\ v \notin listedOwned /\ scanVm # v

\* until its domain is defined, only its creator knows an id
EarlyAlone ==
  \A c \in Client : pc[c] \in EarlyPc =>
    /\ ~HasRow(arg[c]) /\ ~Exists(arg[c])
    /\ listed[arg[c]] = "none" /\ scanVm # arg[c]
    /\ \A d \in Client : d # c => arg[d] # arg[c]

\* until its row is inserted, nobody holds a "boxer" row of it: no watcher, no
\* second creator, and no one who would remove its storage
UnbornUnowned ==
  \A c \in Client : pc[c] \in UnbornPc =>
    /\ origin[arg[c]] # "boxer" /\ watch[arg[c]] = "off"
    /\ arg[c] \notin listedOwned
    /\ scanVm = arg[c] => ~scanOwned
    /\ \A d \in Client : d # c /\ arg[d] = arg[c] =>
         ~owned[d] /\ pc[d] \notin UnbornPc \cup {"create_watch"}

UnbornDisk ==
  \A c \in Client :
    pc[c] \in {"create_define", "create_boot", "create_insert"} => arg[c] \in disk

\* what is about to lose its storage or its row has lost its domain, or strayed
GoneFirst ==
  LET Gone(v) == ~Exists(v) \/ <<v, "stray">> \in excused
  IN /\ \A c \in Client :
          pc[c] \in {"create_rollback", "delete_storage", "delete_row", "purge_row"} => Gone(arg[c])
     /\ scanPc \in {"auto_storage", "auto_row"} => Gone(scanVm)

Emptied == \A v \in VM : Deleting(v) => v \notin disk

\* a watcher in its last step has settled the install state
Settled ==
  \A v \in VM :
    /\ watch[v] = "running" => install[v] # "installing"
    /\ ~HasRow(v) => install[v] = "none"

IInv ==
  /\ Idle /\ Fresh /\ EarlyAlone /\ UnbornUnowned /\ UnbornDisk
  /\ GoneFirst /\ Emptied /\ Settled
  /\ OrphanExplained /\ StorageHeld /\ LitterExplained /\ InstallWatched

\* Storage is removed from under no domain but a stray one, whoever removes it.
StorageOutlivesDomain ==
  [][\A v \in disk : v \notin disk' => ~Exists(v) \/ <<v, "stray">> \in excused]_vars

\* where a VM is in its life as Boxer's; a row that was adopted tells nothing of it
LifeOf(v) ==
  IF v \notin made THEN "new"
  ELSE IF origin[v] = "boxer" THEN IF install[v] = "none" THEN "plain" ELSE install[v]
  ELSE IF Unborn(v) THEN "making" ELSE "over"

Biography == [v \in VM |-> LifeOf(v)]

Life == INSTANCE VMLife WITH life <- Biography

\* Nothing that creates, watchers, deletes, the scanner, adoptions and purges do to each other,
\* and no crash, brings back a row that is gone as one of Boxer's, begins an install again
\* that was settled, or makes one of a VM that was to be ready at once.
LivesOnce == Life!Spec

-----------------------------------------------------------------------------
(***************************************************************************)
(* What FairSpec promises while no crash and no failing storage or         *)
(* database call cuts a task off.                                          *)
(***************************************************************************)

\* Every install leaves the count of running installs: it ends, it runs into the
\* deadline of _watch_install, or its VM is deleted.
InstallSettles ==
  \A v \in VM : install[v] = "installing" ~> install[v] # "installing"

\* vm.delete gets rid of the row it marked, whatever libvirt refuses and the scanner
\* writes meanwhile.  (Nobody retries a "deleting" row.)
DeleteCompletes ==
  \A v \in VM : record[v] = "deleting" ~> record[v] = "none"

=============================================================================
