-------------------------- MODULE LeaseManagerProofs --------------------------
(***************************************************************************)
(* Proofs, for any numbers of VMs and connections, that the variables of   *)
(* LeaseManager keep their types and that a valid lease protects its VM    *)
(* from the scanner unless it was extended during the scan.                *)
(***************************************************************************)
EXTENDS LeaseManager, TLAPS

USE DEF RecordState, Lease, Action, Live, HandlerPc, ScanPc

USE DEF At, Goto, Return, HasRow, UpdateState, SetAction, DeleteRow, ScanGoto, ScanNext,
        ScanOver, NoArgs, rows, clients, scanArgs, scan

\* In the initial state no call is under way and no scan.
LEMMA TypeInit == Init => TypeOK
BY DEF Init, TypeOK, Unlisted

\* A row that is brought up to date is a row still.
LEMMA UpdateTypes ==
  ASSUME TypeOK, NEW v \in VM, NEW s \in RecordState \ {"none"}, UpdateState(v, s)
  PROVE  /\ state' \in [VM -> RecordState]
         /\ \A w \in VM : state'[w] = "none" <=> state[w] = "none"
BY DEF TypeOK

\* A handler's steps keep the types.
LEMMA TypeHandle ==
  ASSUME TypeOK, NEW c \in Client, Begin(c) \/ Handle(c)
  PROVE  TypeOK'
<1> USE NoVMAssumption DEF TypeOK
<1>1. CASE Begin(c)
  BY <1>1 DEF Begin
<1>2. CASE Extend(c)
  BY <1>2 DEF Extend
<1>3. CASE Start(c)
  <2>1. arg[c] \in VM
    BY <1>3 DEF Start
  <2>2. CASE StartDomain(arg[c]) /\ Goto(c, "start_record")
    BY <1>3, <2>1, <2>2 DEF Start, StartDomain
  <2>3. CASE Return(c) /\ UNCHANGED live
    BY <1>3, <2>3 DEF Start
  <2> QED BY <1>3, <2>2, <2>3 DEF Start
<1>4. CASE Stop(c)
  BY <1>4 DEF Stop, DestroyDomain
<1>5. CASE Record(c)
  <2>1. arg[c] \in VM
    BY <1>5 DEF Record
  <2>2. PICK s \in {"running", "stopped", "deleting"} : UpdateState(arg[c], s)
    BY <1>5 DEF Record
  <2>3. /\ state' \in [VM -> RecordState]
        /\ \A w \in VM : state'[w] = "none" <=> state[w] = "none"
    BY <2>1, <2>2, UpdateTypes
  <2>4. CASE Return(c)
    BY <1>5, <2>3, <2>4 DEF Record
  <2>5. CASE Goto(c, "delete_domain")
    BY <1>5, <2>1, <2>3, <2>5 DEF Record
  <2> QED BY <1>5, <2>4, <2>5 DEF Record
<1>6. CASE DeleteDomain(c)
  BY <1>6 DEF DeleteDomain, UndefineDomain
<1>7. CASE DeleteFinish(c)
  BY <1>7 DEF DeleteFinish
<1> QED BY <1>1, <1>2, <1>3, <1>4, <1>5, <1>6, <1>7 DEF Handle

\* The scanner's steps keep the types.
LEMMA TypeScan ==
  ASSUME TypeOK, Scan
  PROVE  TypeOK'
<1> USE NoVMAssumption DEF TypeOK
<1>0. \A l \in Lease, s \in RecordState : Verdict(l, s) \in {"visit", "clear", "judge", "probe"}
  BY DEF Verdict
<1>1. CASE ScanBegin
  BY <1>1 DEF ScanBegin
<1>2. ASSUME NEW v \in VM, ScanVisit(v)
      PROVE  TypeOK'
  BY <1>0, <1>2 DEF ScanVisit
<1>3. CASE ScanSync
  <2>1. /\ state' \in [VM -> RecordState]
        /\ \A w \in VM : state'[w] = "none" <=> state[w] = "none"
    BY <1>3, UpdateTypes DEF ScanSync
  <2> QED BY <1>0, <1>3, <2>1 DEF ScanSync
<1>4. CASE ScanDropAction
  BY <1>4 DEF ScanDropAction
<1>5. CASE ScanJudge \/ AskShutdown \/ ScanProbe
  <2>1. CASE ScanJudge \/ ScanProbe
    BY <2>1 DEF ScanJudge, ScanProbe
  <2>2. CASE AskShutdown
    BY <2>2 DEF AskShutdown, DestroyDomain
  <2> QED BY <1>5, <2>1, <2>2
<1>6. CASE MarkStopping \/ RecordForced
  <2>1. /\ state' \in [VM -> RecordState]
        /\ \A w \in VM : state'[w] = "none" <=> state[w] = "none"
    BY <1>6, UpdateTypes DEF MarkStopping, RecordForced
  <2> QED BY <1>6, <2>1 DEF MarkStopping, RecordForced
<1>7. CASE UpsertAction
  <2>1. CASE HasRow(scanVm) /\ SetAction(scanVm, "waiting") /\ ScanNext /\ UNCHANGED renewed
    BY <1>7, <2>1 DEF UpsertAction
  <2>2. CASE UNCHANGED action /\ ScanOver
    BY <1>7, <2>2 DEF UpsertAction, Unlisted
  <2> QED BY <1>7, <2>1, <2>2 DEF UpsertAction
<1>8. CASE ForceOff \/ CheckForced
  <2>1. CASE ForceOff
    BY <2>1 DEF ForceOff, DestroyDomain
  <2>2. CASE CheckForced
    BY <2>2 DEF CheckForced
  <2> QED BY <1>8, <2>1, <2>2
<1>9. CASE AutoDelete \/ AutoRow
  <2>1. CASE AutoDelete
    BY <2>1 DEF AutoDelete, UndefineDomain
  <2>2. CASE AutoRow
    BY <2>2 DEF AutoRow
  <2> QED BY <1>9, <2>1, <2>2
<1>10. CASE ScanEnd
  BY <1>10 DEF ScanEnd, Unlisted
<1> QED BY <1>1, <1>2, <1>3, <1>4, <1>5, <1>6, <1>7, <1>8, <1>9, <1>10 DEF Scan

\* The environment's steps keep the types.
LEMMA TypeOther ==
  ASSUME TypeOK, (\E v \in VM : Environment(v)) \/ Crash
  PROVE  TypeOK'
<1> USE NoVMAssumption DEF TypeOK
<1>1. ASSUME NEW v \in VM, Environment(v)
      PROVE  TypeOK'
  <2>1. CASE LeaseRuns(v)
    BY <2>1 DEF LeaseRuns
  <2>2. CASE ForceComesDue(v)
    BY <2>2 DEF ForceComesDue
  <2>3. CASE RepositoryStirs(v) \/ GuestPowerOff(v)
    BY <2>3 DEF RepositoryStirs, GuestPowerOff
  <2> QED BY <1>1, <2>1, <2>2, <2>3 DEF Environment
<1>2. CASE Crash
  BY <1>2 DEF Crash, Unlisted
<1> QED BY <1>1, <1>2

\* The variables keep their types; a call under way and a scan past the list name a VM.
THEOREM TypeCorrect == Spec => []TypeOK
<1>1. TypeOK /\ [Next]_vars => TypeOK'
  <2>1. TypeOK /\ Next => TypeOK'
    BY TypeHandle, TypeScan, TypeOther DEF Next
  <2>2. TypeOK /\ UNCHANGED vars => TypeOK'
    BY DEF vars, TypeOK
  <2> QED BY <2>1, <2>2
<1> QED BY TypeInit, <1>1, PTL DEF Spec

-----------------------------------------------------------------------------

\* No handler but vm.extend_lease touches a lease, and it says so.
LEMMA SnapshotHandle ==
  ASSUME TypeOK, SnapshotHolds, NEW c \in Client, Begin(c) \/ Handle(c)
  PROVE  SnapshotHolds'
<1> USE NoVMAssumption DEF TypeOK, SnapshotHolds, AsOld
<1>1. CASE Begin(c)
  BY <1>1 DEF Begin
<1>2. CASE Extend(c)
  BY <1>2 DEF Extend
<1>3. CASE Start(c) \/ Stop(c) \/ Record(c) \/ DeleteDomain(c) \/ DeleteFinish(c)
  BY <1>3 DEF Start, Stop, Record, DeleteDomain, DeleteFinish
<1> QED BY <1>1, <1>2, <1>3 DEF Handle

\* The scanner takes the leases it judges by from the rows, and goes on with the expired.
LEMMA SnapshotScan ==
  ASSUME TypeOK, SnapshotHolds, Scan
  PROVE  SnapshotHolds'
<1> USE NoVMAssumption DEF TypeOK, SnapshotHolds, AsOld
<1>0. \A l \in Lease, s \in RecordState :
        /\ Verdict(l, s) \in {"visit", "clear", "judge", "probe"}
        /\ l = "valid" => Verdict(l, s) = "clear"
  BY DEF Verdict
<1>1. CASE ScanBegin
  BY <1>1 DEF ScanBegin
<1>2. ASSUME NEW v \in VM, ScanVisit(v)
      PROVE  SnapshotHolds'
  <2>1. /\ scanVm' = v /\ scanLease' = listed[v].lease /\ listed[v].state # "none"
        /\ listed' = [listed EXCEPT ![v].state = "none"]
        /\ UNCHANGED <<state, lease, action, due, renewed>>
    BY <1>2 DEF ScanVisit
  <2>2. scanPc' \in {"sync", "visit", "clear", "judge", "probe"}
    BY <1>0, <1>2 DEF ScanVisit
  <2>3. scanPc' \notin {"sync", "clear"} => listed[v].lease # "valid"
    BY <1>0, <1>2 DEF ScanVisit
  <2>4. /\ listed'[v].state = "none"
        /\ \A w \in VM \ {v} : listed'[w] = listed[w]
    BY <2>1
  <2> QED BY <2>1, <2>2, <2>3, <2>4
<1>3. CASE ScanSync
  <2>1. /\ scanPc = "sync" /\ scanPc' = Verdict(scanLease, scanState)
        /\ UNCHANGED <<scanVm, scanLease, lease, action, listed, due, renewed>>
    BY <1>3 DEF ScanSync
  <2>2. /\ scanPc' \in {"visit", "clear", "judge", "probe"}
        /\ scanPc' # "clear" => scanLease # "valid"
    BY <1>0, <2>1
  <2>3. \A v \in VM : state'[v] = "none" <=> state[v] = "none"
    BY <1>3 DEF ScanSync
  <2> QED BY <2>1, <2>2, <2>3
<1>4. CASE ScanDropAction \/ ScanJudge \/ AskShutdown \/ MarkStopping
  BY <1>4 DEF ScanDropAction, ScanJudge, AskShutdown, MarkStopping
<1>5. CASE UpsertAction \/ ScanEnd
  BY <1>5 DEF UpsertAction, ScanEnd, Unlisted
<1>6. CASE ForceOff \/ CheckForced \/ RecordForced
  BY <1>6 DEF ForceOff, CheckForced, RecordForced
<1>7. CASE ScanProbe \/ AutoDelete \/ AutoRow
  BY <1>7 DEF ScanProbe, AutoDelete, AutoRow
<1> QED BY <1>1, <1>2, <1>3, <1>4, <1>5, <1>6, <1>7 DEF Scan

\* Time makes no lease valid, and a crash ends the scan.
LEMMA SnapshotOther ==
  ASSUME TypeOK, SnapshotHolds, (\E v \in VM : Environment(v)) \/ Crash
  PROVE  SnapshotHolds'
<1> USE NoVMAssumption DEF TypeOK, SnapshotHolds, AsOld
<1>1. ASSUME NEW v \in VM, Environment(v)
      PROVE  SnapshotHolds'
  BY <1>1 DEF Environment, LeaseRuns, ForceComesDue, RepositoryStirs, GuestPowerOff
<1>2. CASE Crash
  BY <1>2 DEF Crash, Unlisted
<1> QED BY <1>1, <1>2

\* What the scan knows of the leases is right but for extensions made during it.
THEOREM SnapshotsHold == Spec => []SnapshotHolds
<1>1. Init => SnapshotHolds
  BY DEF Init, SnapshotHolds, AsOld, Unlisted
<1>2. TypeOK /\ SnapshotHolds /\ [Next]_vars => SnapshotHolds'
  <2>1. TypeOK /\ SnapshotHolds /\ Next => SnapshotHolds'
    BY SnapshotHandle, SnapshotScan, SnapshotOther DEF Next
  <2>2. SnapshotHolds /\ UNCHANGED vars => SnapshotHolds'
    BY DEF vars, SnapshotHolds, AsOld
  <2> QED BY <2>1, <2>2
<1> QED BY TypeCorrect, <1>1, <1>2, PTL DEF Spec

\* The scanner strikes at no VM whose lease is valid, unless it was extended during the scan.
THEOREM ValidLeasesProtect == Spec => LeaseProtects
<1> DEFINE Protected(v) ==
      /\ Strikes(v) => lease[v] # "valid" \/ v \in renewed
      /\ Deletes(v) => lease[v] = "deletable" \/ v \in renewed
      /\ Forces(v) => action[v] = "due" \/ state[v] = "none"
<1>1. TypeOK /\ SnapshotHolds => \A v \in VM : Protected(v)
  BY NoVMAssumption
  DEF TypeOK, SnapshotHolds, AsOld, Strikes, Deletes, Forces, AskShutdown, ForceOff, AutoDelete
<1>2. TypeOK /\ SnapshotHolds => [\A v \in VM : Protected(v)]_vars
  BY <1>1
<1> QED BY <1>2, TypeCorrect, SnapshotsHold, PTL DEF LeaseProtects

=============================================================================
