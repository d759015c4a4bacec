------------------------ MODULE VMLifecycleProofs ------------------------
(***************************************************************************)
(* Proofs, for any sets of ids and connections and any choice of faults,   *)
(* of what the runs of MCVMLifecycle check on small instances.             *)
(*                                                                         *)
(* One lemma per conjunct of the inductive invariant IInv says that Next   *)
(* preserves it; in each, one step per process of the model, with a case   *)
(* per action where the provers need one.                                  *)
(***************************************************************************)
EXTENDS VMLifecycle, TLAPS

USE DEF rows, domains, handlers, scanner, scanArgs, listing, At, Goto, Enter, Return, Watching,
        WatchGoto, ScanGoto, ScanEnter, ScanNext, Exists, HasRow, EarlyPc, RowPc

\* Every action keeps the type invariant.
LEMMA TypeOKNext ==
  ASSUME TypeOK, Next
  PROVE  TypeOK'
<1> USE DEF TypeOK, RecordState, InstallState, Origin, HandlerPc, UnbornPc, WatchPc, ScanPc,
        Excuse
<1>1. ASSUME NEW c \in Client, Create(c)
      PROVE  TypeOK'
  <2>1. CASE CreateBegin(c)
    BY <2>1 DEF CreateBegin
  <2>2. CASE CreateStorage(c)
    BY <2>2 DEF CreateStorage
  <2>3. CASE CreateAbandon(c)
    BY <2>3 DEF CreateAbandon
  <2>4. CASE CreateDefine(c)
    BY <2>4 DEF CreateDefine
  <2>5. CASE CreateBoot(c)
    BY <2>5 DEF CreateBoot, Destroy
  <2>6. CASE CreateRollback(c)
    BY <2>6 DEF CreateRollback
  <2>7. CASE CreateInsert(c)
    <3>1. CASE UNCHANGED rows /\ Return(c)
      BY <2>7, <3>1 DEF CreateInsert, InsertRow
    <3>2. CASE InsertRow(arg[c], "none", "boxer") /\ Return(c)
      BY <2>7, <3>2 DEF CreateInsert, InsertRow
    <3>3. CASE InsertRow(arg[c], "installing", "boxer") /\ Goto(c, "create_watch")
      BY <2>7, <3>3 DEF CreateInsert, InsertRow
    <3> QED BY <2>7, <3>1, <3>2, <3>3 DEF CreateInsert
  <2>8. CASE CreateWatch(c)
    BY <2>8 DEF CreateWatch
  <2> QED BY <1>1, <2>1, <2>2, <2>3, <2>4, <2>5, <2>6, <2>7, <2>8 DEF Create
<1>2. ASSUME NEW c \in Client, Operate(c)
      PROVE  TypeOK'
  <2>1. CASE HandlerBegin(c)
    BY <2>1 DEF HandlerBegin
  <2>2. CASE StartExec(c)
    <3>1. CASE Goto(c, "start_record")
      BY <2>2, <3>1 DEF StartExec, CanStart
    <3>2. CASE Return(c)
      BY <2>2, <3>2 DEF StartExec, CanStart
    <3> QED BY <2>2, <3>1, <3>2 DEF StartExec
  <2>3. CASE StartRecord(c)
    BY <2>3 DEF StartRecord, UpdateState
  <2>4. CASE StopExec(c)
    BY <2>4 DEF StopExec, StopDomain, Destroy
  <2>5. CASE StopRecord(c)
    BY <2>5 DEF StopRecord, UpdateState
  <2>6. CASE DeleteMark(c)
    BY <2>6 DEF DeleteMark, UpdateState
  <2>7. CASE DeleteDestroy(c)
    BY <2>7 DEF DeleteDestroy, Destroyed, NotDestroyed
  <2>8. CASE DeleteUndefine(c)
    BY <2>8 DEF DeleteUndefine, Undefine
  <2>9. CASE DeleteStorage(c)
    <3>1. CASE Goto(c, "delete_row")
      BY <2>9, <3>1 DEF DeleteStorage
    <3>2. CASE Return(c)
      BY <2>9, <3>2 DEF DeleteStorage
    <3> QED BY <2>9, <3>1, <3>2 DEF DeleteStorage
  <2>10. CASE DeleteFinish(c)
    BY <2>10 DEF DeleteFinish, DeleteRow
  <2> QED BY <1>2, <2>1, <2>2, <2>3, <2>4, <2>5, <2>6, <2>7, <2>8, <2>9, <2>10 DEF Operate
<1>3. ASSUME NEW c \in Client, Repair(c) \/ DatabaseError(c)
      PROVE  TypeOK'
  <2>1. CASE AdoptLook(c)
    BY <2>1 DEF AdoptLook
  <2>2. CASE AdoptCheck(c)
    <3>1. CASE Goto(c, "adopt_insert")
      BY <2>2, <3>1 DEF AdoptCheck
    <3>2. CASE Return(c)
      BY <2>2, <3>2 DEF AdoptCheck
    <3> QED BY <2>2, <3>1, <3>2 DEF AdoptCheck
  <2>3. CASE AdoptInsert(c)
    BY <2>3 DEF AdoptInsert, InsertRow
  <2>4. CASE PurgeLook(c)
    <3>1. CASE Return(c)
      BY <2>4, <3>1 DEF PurgeLook
    <3>2. CASE Goto(c, "purge_row")
      BY <2>4, <3>2 DEF PurgeLook
    <3> QED BY <2>4, <3>1, <3>2 DEF PurgeLook
  <2>5. CASE PurgeRow(c)
    BY <2>5 DEF PurgeRow, DeleteRow
  <2>6. CASE DatabaseError(c)
    BY <2>6 DEF DatabaseError
  <2> QED BY <1>3, <2>1, <2>2, <2>3, <2>4, <2>5, <2>6 DEF Repair
<1>4. ASSUME NEW v \in VM, Watcher(v) \/ GuestPowerOff(v)
      PROVE  TypeOK'
  BY <1>4 DEF WatchPoll, LiveState, WatchSwitch, Destroy, WatchRedefine, WatchStart, CanStart,
  WatchInstalled, UpdateInstall, WatchRunning, UpdateState, WatchFail, WatchDatabaseError,
  GuestPowerOff, Watcher
<1>5. ASSUME Scanner
      PROVE  TypeOK'
  <2>1. CASE ScanBegin
    BY <2>1 DEF ScanBegin
  <2>2. CASE (\E v \in VM : ScanVisit(v))
    BY <2>2 DEF ScanVisit, LiveState
  <2>3. CASE ScanWrite
    BY <2>3 DEF ScanWrite, UpdateState
  <2>4. CASE ScanJudge
    BY <2>4 DEF ScanJudge
  <2>5. CASE ScanShutdown
    BY <2>5 DEF ScanShutdown, StopDomain, Destroy
  <2>6. CASE ScanForce
    BY <2>6 DEF ScanForce, StopDomain, Destroy
  <2>7. CASE ScanCheck
    BY <2>7 DEF ScanCheck, LiveState
  <2>8. CASE AutoDestroy
    BY <2>8 DEF AutoDestroy, Destroyed, NotDestroyed
  <2>9. CASE AutoUndefine
    BY <2>9 DEF AutoUndefine, Undefine
  <2>10. CASE AutoStorage
    BY <2>10 DEF AutoStorage
  <2>11. CASE AutoRow
    <3>1. scanVm \in VM /\ excused' \subseteq VM \X Excuse
      BY <2>11 DEF AutoRow
    <3> QED BY <2>11, <3>1 DEF AutoRow, DeleteRow
  <2>12. CASE AutoDatabaseError
    <3>1. scanVm \in VM /\ excused' \subseteq VM \X Excuse
      BY <2>12 DEF AutoDatabaseError
    <3> QED BY <2>12, <3>1 DEF AutoDatabaseError, DeleteRow
  <2>13. CASE ScanDatabaseError
    BY <2>13 DEF ScanDatabaseError
  <2>14. CASE ScanEnd
    BY <2>14 DEF ScanEnd
  <2> QED BY <1>5, <2>1, <2>2, <2>3, <2>4, <2>5, <2>6, <2>7, <2>8, <2>9, <2>10, <2>11, <2>12, <2>13, <2>14 DEF Scanner
<1>6. ASSUME Crash
      PROVE  TypeOK'
  <2>1. excused' \subseteq VM \X Excuse
    BY <1>6 DEF Crash
  <2> QED BY <1>6, <2>1 DEF Crash
<1> QED BY <1>1, <1>2, <1>3, <1>4, <1>5, <1>6 DEF Next

\* A handler that returned holds no VM and no copy of a row.
LEMMA IdleNext ==
  ASSUME TypeOK, TypeOK', IInv, Next
  PROVE  Idle'
<1> USE DEF TypeOK, IInv, Idle
<1>1. ASSUME NEW c \in Client, Create(c)
      PROVE  Idle'
  BY <1>1 DEF CreateBegin, CreateStorage, CreateAbandon, CreateDefine, CreateBoot, Destroy,
  CreateRollback, CreateInsert, InsertRow, CreateWatch, Create
<1>2. ASSUME NEW c \in Client, Operate(c)
      PROVE  Idle'
  BY <1>2 DEF HandlerBegin, StartExec, CanStart, StartRecord, UpdateState, StopExec,
  StopDomain, Destroy, StopRecord, DeleteMark, DeleteDestroy, Destroyed, NotDestroyed,
  DeleteUndefine, Undefine, DeleteStorage, DeleteFinish, DeleteRow, Operate
<1>3. ASSUME NEW c \in Client, Repair(c) \/ DatabaseError(c)
      PROVE  Idle'
  BY <1>3 DEF AdoptLook, AdoptCheck, AdoptInsert, InsertRow, PurgeLook, PurgeRow, DeleteRow,
  DatabaseError, Repair
<1>4. ASSUME NEW v \in VM, Watcher(v) \/ GuestPowerOff(v)
      PROVE  Idle'
  BY <1>4 DEF WatchPoll, LiveState, WatchSwitch, Destroy, WatchRedefine, WatchStart, CanStart,
  WatchInstalled, UpdateInstall, WatchRunning, UpdateState, WatchFail, WatchDatabaseError,
  GuestPowerOff, Watcher
<1>5. ASSUME Scanner
      PROVE  Idle'
  BY <1>5 DEF ScanBegin, ScanVisit, LiveState, ScanWrite, UpdateState, ScanJudge, ScanShutdown,
  StopDomain, Destroy, ScanForce, ScanCheck, AutoDestroy, Destroyed, NotDestroyed,
  AutoUndefine, Undefine, AutoStorage, AutoRow, DeleteRow, AutoDatabaseError,
  ScanDatabaseError, ScanEnd, Scanner
<1>6. ASSUME Crash
      PROVE  Idle'
  BY <1>6 DEF Crash
<1> QED BY <1>1, <1>2, <1>3, <1>4, <1>5, <1>6 DEF Next

\* Every action leaves the ids not handed out without row, domain, storage or task.
LEMMA FreshNext ==
  ASSUME TypeOK, TypeOK', IInv, Next
  PROVE  Fresh'
<1> USE NoVMAssumption DEF TypeOK, IInv, Fresh, Idle
<1>1. ASSUME NEW c \in Client, Create(c)
      PROVE  Fresh'
  BY <1>1 DEF CreateBegin, CreateStorage, CreateAbandon, CreateDefine, CreateBoot, Destroy,
  CreateRollback, CreateInsert, InsertRow, CreateWatch, Create
<1>2. ASSUME NEW c \in Client, Operate(c)
      PROVE  Fresh'
  BY <1>2 DEF HandlerBegin, StartExec, CanStart, StartRecord, UpdateState, StopExec,
  StopDomain, Destroy, StopRecord, DeleteMark, DeleteDestroy, Destroyed, NotDestroyed,
  DeleteUndefine, Undefine, DeleteStorage, DeleteFinish, DeleteRow, Operate
<1>3. ASSUME NEW c \in Client, Repair(c) \/ DatabaseError(c)
      PROVE  Fresh'
  BY <1>3 DEF AdoptLook, AdoptCheck, AdoptInsert, InsertRow, PurgeLook, PurgeRow, DeleteRow,
  DatabaseError, Repair
<1>4. ASSUME NEW v \in VM, Watcher(v) \/ GuestPowerOff(v)
      PROVE  Fresh'
  BY <1>4 DEF WatchPoll, LiveState, WatchSwitch, Destroy, WatchRedefine, WatchStart, CanStart,
  WatchInstalled, UpdateInstall, WatchRunning, UpdateState, WatchFail, WatchDatabaseError,
  GuestPowerOff, Watcher
<1>5. ASSUME Scanner
      PROVE  Fresh'
  BY <1>5 DEF ScanBegin, ScanVisit, LiveState, ScanWrite, UpdateState, ScanJudge, ScanShutdown,
  StopDomain, Destroy, ScanForce, ScanCheck, AutoDestroy, Destroyed, NotDestroyed,
  AutoUndefine, Undefine, AutoStorage, AutoRow, DeleteRow, AutoDatabaseError,
  ScanDatabaseError, ScanEnd, Scanner
<1>6. ASSUME Crash
      PROVE  Fresh'
  BY <1>6 DEF Crash
<1> QED BY <1>1, <1>2, <1>3, <1>4, <1>5, <1>6 DEF Next

\* Nobody learns an id before its domain is defined.
LEMMA EarlyAloneNext ==
  ASSUME TypeOK, TypeOK', IInv, Next
  PROVE  EarlyAlone'
<1> USE NoVMAssumption DEF TypeOK, IInv, EarlyAlone, Idle, Fresh, UnbornUnowned, UnbornPc
<1>1. ASSUME NEW c \in Client, Create(c)
      PROVE  EarlyAlone'
  BY <1>1 DEF CreateBegin, CreateStorage, CreateAbandon, CreateDefine, CreateBoot, Destroy,
  CreateRollback, CreateInsert, InsertRow, CreateWatch, Create
<1>2. ASSUME NEW c \in Client, Operate(c)
      PROVE  EarlyAlone'
  BY <1>2 DEF HandlerBegin, StartExec, CanStart, StartRecord, UpdateState, StopExec,
  StopDomain, Destroy, StopRecord, DeleteMark, DeleteDestroy, Destroyed, NotDestroyed,
  DeleteUndefine, Undefine, DeleteStorage, DeleteFinish, DeleteRow, Operate
<1>3. ASSUME NEW c \in Client, Repair(c) \/ DatabaseError(c)
      PROVE  EarlyAlone'
  BY <1>3 DEF AdoptLook, AdoptCheck, AdoptInsert, InsertRow, PurgeLook, PurgeRow, DeleteRow,
  DatabaseError, Repair
<1>4. ASSUME NEW v \in VM, Watcher(v) \/ GuestPowerOff(v)
      PROVE  EarlyAlone'
  BY <1>4 DEF WatchPoll, LiveState, WatchSwitch, Destroy, WatchRedefine, WatchStart, CanStart,
  WatchInstalled, UpdateInstall, WatchRunning, UpdateState, WatchFail, WatchDatabaseError,
  GuestPowerOff, Watcher
<1>5. ASSUME Scanner
      PROVE  EarlyAlone'
  <2>1. CASE ScanBegin
    BY <2>1 DEF ScanBegin
  <2>2. CASE (\E v \in VM : ScanVisit(v))
    BY <2>2 DEF ScanVisit, LiveState
  <2>3. CASE ScanWrite
    BY <2>3 DEF ScanWrite, UpdateState
  <2>4. CASE ScanJudge
    BY <2>4 DEF ScanJudge
  <2>5. CASE ScanShutdown
    BY <2>5 DEF ScanShutdown, StopDomain, Destroy
  <2>6. CASE ScanForce
    BY <2>6 DEF ScanForce, StopDomain, Destroy
  <2>7. CASE ScanCheck
    BY <2>7 DEF ScanCheck, LiveState
  <2>8. CASE AutoDestroy
    BY <2>8 DEF AutoDestroy, Destroyed, NotDestroyed
  <2>9. CASE AutoUndefine
    BY <2>9 DEF AutoUndefine, Undefine
  <2>10. CASE AutoStorage
    BY <2>10 DEF AutoStorage
  <2>11. CASE AutoRow
    BY <2>11 DEF AutoRow, DeleteRow
  <2>12. CASE AutoDatabaseError
    BY <2>12 DEF AutoDatabaseError
  <2>13. CASE ScanDatabaseError
    BY <2>13 DEF ScanDatabaseError
  <2>14. CASE ScanEnd
    BY <2>14 DEF ScanEnd
  <2> QED BY <1>5, <2>1, <2>2, <2>3, <2>4, <2>5, <2>6, <2>7, <2>8, <2>9, <2>10, <2>11, <2>12, <2>13, <2>14 DEF Scanner
<1>6. ASSUME Crash
      PROVE  EarlyAlone'
  BY <1>6 DEF Crash
<1> QED BY <1>1, <1>2, <1>3, <1>4, <1>5, <1>6 DEF Next

\* Nobody holds a "boxer" row of a VM whose creator has yet to insert it.
LEMMA UnbornUnownedNext ==
  ASSUME TypeOK, TypeOK', IInv, Next
  PROVE  UnbornUnowned'
<1> USE DEF TypeOK, IInv, UnbornUnowned, EarlyAlone, Fresh, Idle, UnbornPc
<1>1. ASSUME NEW c \in Client, Create(c)
      PROVE  UnbornUnowned'
  <2>1. CASE CreateBegin(c)
    BY <2>1 DEF CreateBegin
  <2>2. CASE CreateStorage(c)
    BY <2>2 DEF CreateStorage
  <2>3. CASE CreateAbandon(c)
    BY <2>3 DEF CreateAbandon
  <2>4. CASE CreateDefine(c)
    BY <2>4 DEF CreateDefine
  <2>5. CASE CreateBoot(c)
    BY <2>5 DEF CreateBoot, Destroy
  <2>6. CASE CreateRollback(c)
    BY <2>6 DEF CreateRollback
  <2>7. CASE CreateInsert(c)
    BY <2>7 DEF CreateInsert, InsertRow
  <2>8. CASE CreateWatch(c)
    BY <2>8 DEF CreateWatch
  <2> QED BY <1>1, <2>1, <2>2, <2>3, <2>4, <2>5, <2>6, <2>7, <2>8 DEF Create
<1>2. ASSUME NEW c \in Client, Operate(c)
      PROVE  UnbornUnowned'
  <2>1. CASE HandlerBegin(c)
    BY <2>1 DEF HandlerBegin
  <2>2. CASE StartExec(c)
    BY <2>2 DEF StartExec, CanStart
  <2>3. CASE StartRecord(c)
    BY <2>3 DEF StartRecord, UpdateState
  <2>4. CASE StopExec(c)
    BY <2>4 DEF StopExec, StopDomain, Destroy
  <2>5. CASE StopRecord(c)
    BY <2>5 DEF StopRecord, UpdateState
  <2>6. CASE DeleteMark(c)
    BY <2>6 DEF DeleteMark, UpdateState
  <2>7. CASE DeleteDestroy(c)
    BY <2>7 DEF DeleteDestroy, Destroyed, NotDestroyed
  <2>8. CASE DeleteUndefine(c)
    BY <2>8 DEF DeleteUndefine, Undefine
  <2>9. CASE DeleteStorage(c)
    BY <2>9 DEF DeleteStorage
  <2>10. CASE DeleteFinish(c)
    BY <2>10 DEF DeleteFinish, DeleteRow
  <2> QED BY <1>2, <2>1, <2>2, <2>3, <2>4, <2>5, <2>6, <2>7, <2>8, <2>9, <2>10 DEF Operate
<1>3. ASSUME NEW c \in Client, Repair(c) \/ DatabaseError(c)
      PROVE  UnbornUnowned'
  <2>1. CASE AdoptLook(c)
    BY <2>1 DEF AdoptLook
  <2>2. CASE AdoptCheck(c)
    BY <2>2 DEF AdoptCheck
  <2>3. CASE AdoptInsert(c)
    BY <2>3 DEF AdoptInsert, InsertRow
  <2>4. CASE PurgeLook(c)
    <3>1. CASE Return(c)
      BY <2>4, <3>1 DEF PurgeLook
    <3>2. CASE Goto(c, "purge_row")
      BY <2>4, <3>2 DEF PurgeLook
    <3> QED BY <2>4, <3>1, <3>2 DEF PurgeLook
  <2>5. CASE PurgeRow(c)
    BY <2>5 DEF PurgeRow, DeleteRow
  <2>6. CASE DatabaseError(c)
    BY <2>6 DEF DatabaseError
  <2> QED BY <1>3, <2>1, <2>2, <2>3, <2>4, <2>5, <2>6 DEF Repair
<1>4. ASSUME NEW v \in VM, Watcher(v) \/ GuestPowerOff(v)
      PROVE  UnbornUnowned'
  BY <1>4 DEF WatchPoll, LiveState, WatchSwitch, Destroy, WatchRedefine, WatchStart, CanStart,
  WatchInstalled, UpdateInstall, WatchRunning, UpdateState, WatchFail, WatchDatabaseError,
  GuestPowerOff, Watcher
<1>5. ASSUME Scanner
      PROVE  UnbornUnowned'
  <2>1. CASE ScanBegin
    BY <2>1 DEF ScanBegin
  <2>2. CASE (\E v \in VM : ScanVisit(v))
    <3>1. PICK v \in VM : ScanVisit(v)
      BY <2>2
    <3>2. scanVm' = v /\ (scanOwned' <=> v \in listedOwned)
      BY <3>1, Zenon DEF ScanVisit
    <3>3. UNCHANGED <<made, rows, handlers, watch>> /\ listedOwned' \subseteq listedOwned
      BY <3>1 DEF ScanVisit
    <3> QED BY <3>2, <3>3
  <2>3. CASE ScanWrite
    BY <2>3 DEF ScanWrite, UpdateState
  <2>4. CASE ScanJudge
    BY <2>4 DEF ScanJudge
  <2>5. CASE ScanShutdown
    BY <2>5 DEF ScanShutdown, StopDomain, Destroy
  <2>6. CASE ScanForce
    BY <2>6 DEF ScanForce, StopDomain, Destroy
  <2>7. CASE ScanCheck
    BY <2>7 DEF ScanCheck, LiveState
  <2>8. CASE AutoDestroy
    BY <2>8 DEF AutoDestroy, Destroyed, NotDestroyed
  <2>9. CASE AutoUndefine
    BY <2>9 DEF AutoUndefine, Undefine
  <2>10. CASE AutoStorage
    BY <2>10 DEF AutoStorage
  <2>11. CASE AutoRow
    BY <2>11 DEF AutoRow, DeleteRow
  <2>12. CASE AutoDatabaseError
    BY <2>12 DEF AutoDatabaseError
  <2>13. CASE ScanDatabaseError
    BY <2>13 DEF ScanDatabaseError
  <2>14. CASE ScanEnd
    BY <2>14 DEF ScanEnd
  <2> QED BY <1>5, <2>1, <2>2, <2>3, <2>4, <2>5, <2>6, <2>7, <2>8, <2>9, <2>10, <2>11, <2>12, <2>13, <2>14 DEF Scanner
<1>6. ASSUME Crash
      PROVE  UnbornUnowned'
  BY <1>6 DEF Crash
<1> QED BY <1>1, <1>2, <1>3, <1>4, <1>5, <1>6 DEF Next

\* A create keeps the storage it is building on.
LEMMA UnbornDiskNext ==
  ASSUME TypeOK, TypeOK', IInv, Next
  PROVE  UnbornDisk'
<1> USE DEF TypeOK, IInv, UnbornDisk, UnbornUnowned, UnbornPc
<1>1. ASSUME NEW c \in Client, Create(c)
      PROVE  UnbornDisk'
  BY <1>1 DEF CreateBegin, CreateStorage, CreateAbandon, CreateDefine, CreateBoot, Destroy,
  CreateRollback, CreateInsert, InsertRow, CreateWatch, Create
<1>2. ASSUME NEW c \in Client, Operate(c)
      PROVE  UnbornDisk'
  BY <1>2 DEF HandlerBegin, StartExec, CanStart, StartRecord, UpdateState, StopExec,
  StopDomain, Destroy, StopRecord, DeleteMark, DeleteDestroy, Destroyed, NotDestroyed,
  DeleteUndefine, Undefine, DeleteStorage, DeleteFinish, DeleteRow, Operate
<1>3. ASSUME NEW c \in Client, Repair(c) \/ DatabaseError(c)
      PROVE  UnbornDisk'
  BY <1>3 DEF AdoptLook, AdoptCheck, AdoptInsert, InsertRow, PurgeLook, PurgeRow, DeleteRow,
  DatabaseError, Repair
<1>4. ASSUME NEW v \in VM, Watcher(v) \/ GuestPowerOff(v)
      PROVE  UnbornDisk'
  BY <1>4 DEF WatchPoll, LiveState, WatchSwitch, Destroy, WatchRedefine, WatchStart, CanStart,
  WatchInstalled, UpdateInstall, WatchRunning, UpdateState, WatchFail, WatchDatabaseError,
  GuestPowerOff, Watcher
<1>5. ASSUME Scanner
      PROVE  UnbornDisk'
  BY <1>5 DEF ScanBegin, ScanVisit, LiveState, ScanWrite, UpdateState, ScanJudge, ScanShutdown,
  StopDomain, Destroy, ScanForce, ScanCheck, AutoDestroy, Destroyed, NotDestroyed,
  AutoUndefine, Undefine, AutoStorage, AutoRow, DeleteRow, AutoDatabaseError,
  ScanDatabaseError, ScanEnd, Scanner
<1>6. ASSUME Crash
      PROVE  UnbornDisk'
  BY <1>6 DEF Crash
<1> QED BY <1>1, <1>2, <1>3, <1>4, <1>5, <1>6 DEF Next

\* Every path to rmtree or to a row delete goes through the undefine of the domain.
LEMMA GoneFirstNext ==
  ASSUME TypeOK, TypeOK', IInv, Next
  PROVE  GoneFirst'
<1> USE DEF TypeOK, IInv, GoneFirst, EarlyAlone
<1>1. ASSUME NEW c \in Client, Create(c)
      PROVE  GoneFirst'
  BY <1>1 DEF CreateBegin, CreateStorage, CreateAbandon, CreateDefine, CreateBoot, Destroy,
  CreateRollback, CreateInsert, InsertRow, CreateWatch, Create
<1>2. ASSUME NEW c \in Client, Operate(c)
      PROVE  GoneFirst'
  BY <1>2 DEF HandlerBegin, StartExec, CanStart, StartRecord, UpdateState, StopExec,
  StopDomain, Destroy, StopRecord, DeleteMark, DeleteDestroy, Destroyed, NotDestroyed,
  DeleteUndefine, Undefine, DeleteStorage, DeleteFinish, DeleteRow, Operate
<1>3. ASSUME NEW c \in Client, Repair(c) \/ DatabaseError(c)
      PROVE  GoneFirst'
  BY <1>3 DEF AdoptLook, AdoptCheck, AdoptInsert, InsertRow, PurgeLook, PurgeRow, DeleteRow,
  DatabaseError, Repair
<1>4. ASSUME NEW v \in VM, Watcher(v) \/ GuestPowerOff(v)
      PROVE  GoneFirst'
  BY <1>4 DEF WatchPoll, LiveState, WatchSwitch, Destroy, WatchRedefine, WatchStart, CanStart,
  WatchInstalled, UpdateInstall, WatchRunning, UpdateState, WatchFail, WatchDatabaseError,
  GuestPowerOff, Watcher
<1>5. ASSUME Scanner
      PROVE  GoneFirst'
  BY <1>5 DEF ScanBegin, ScanVisit, LiveState, ScanWrite, UpdateState, ScanJudge, ScanShutdown,
  StopDomain, Destroy, ScanForce, ScanCheck, AutoDestroy, Destroyed, NotDestroyed,
  AutoUndefine, Undefine, AutoStorage, AutoRow, DeleteRow, AutoDatabaseError,
  ScanDatabaseError, ScanEnd, Scanner
<1>6. ASSUME Crash
      PROVE  GoneFirst'
  BY <1>6 DEF Crash
<1> QED BY <1>1, <1>2, <1>3, <1>4, <1>5, <1>6 DEF Next

\* Between rmtree and the delete of the row nobody makes the directory anew.
LEMMA EmptiedNext ==
  ASSUME TypeOK, TypeOK', IInv, Next
  PROVE  Emptied'
<1> USE DEF TypeOK, IInv, Emptied, EarlyAlone, Deleting
<1>1. ASSUME NEW c \in Client, Create(c)
      PROVE  Emptied'
  BY <1>1 DEF CreateBegin, CreateStorage, CreateAbandon, CreateDefine, CreateBoot, Destroy,
  CreateRollback, CreateInsert, InsertRow, CreateWatch, Create
<1>2. ASSUME NEW c \in Client, Operate(c)
      PROVE  Emptied'
  BY <1>2 DEF HandlerBegin, StartExec, CanStart, StartRecord, UpdateState, StopExec,
  StopDomain, Destroy, StopRecord, DeleteMark, DeleteDestroy, Destroyed, NotDestroyed,
  DeleteUndefine, Undefine, DeleteStorage, DeleteFinish, DeleteRow, Operate
<1>3. ASSUME NEW c \in Client, Repair(c) \/ DatabaseError(c)
      PROVE  Emptied'
  BY <1>3 DEF AdoptLook, AdoptCheck, AdoptInsert, InsertRow, PurgeLook, PurgeRow, DeleteRow,
  DatabaseError, Repair
<1>4. ASSUME NEW v \in VM, Watcher(v) \/ GuestPowerOff(v)
      PROVE  Emptied'
  BY <1>4 DEF WatchPoll, LiveState, WatchSwitch, Destroy, WatchRedefine, WatchStart, CanStart,
  WatchInstalled, UpdateInstall, WatchRunning, UpdateState, WatchFail, WatchDatabaseError,
  GuestPowerOff, Watcher
<1>5. ASSUME Scanner
      PROVE  Emptied'
  BY <1>5 DEF ScanBegin, ScanVisit, LiveState, ScanWrite, UpdateState, ScanJudge, ScanShutdown,
  StopDomain, Destroy, ScanForce, ScanCheck, AutoDestroy, Destroyed, NotDestroyed,
  AutoUndefine, Undefine, AutoStorage, AutoRow, DeleteRow, AutoDatabaseError,
  ScanDatabaseError, ScanEnd, Scanner
<1>6. ASSUME Crash
      PROVE  Emptied'
  BY <1>6 DEF Crash
<1> QED BY <1>1, <1>2, <1>3, <1>4, <1>5, <1>6 DEF Next

\* The watcher settles the install state before its last step, and rows go whole.
LEMMA SettledNext ==
  ASSUME TypeOK, TypeOK', IInv, Next
  PROVE  Settled'
<1> USE DEF TypeOK, IInv, Settled, UnbornUnowned, UnbornPc
<1>1. ASSUME NEW c \in Client, Create(c)
      PROVE  Settled'
  BY <1>1 DEF CreateBegin, CreateStorage, CreateAbandon, CreateDefine, CreateBoot, Destroy,
  CreateRollback, CreateInsert, InsertRow, CreateWatch, Create
<1>2. ASSUME NEW c \in Client, Operate(c)
      PROVE  Settled'
  BY <1>2 DEF HandlerBegin, StartExec, CanStart, StartRecord, UpdateState, StopExec,
  StopDomain, Destroy, StopRecord, DeleteMark, DeleteDestroy, Destroyed, NotDestroyed,
  DeleteUndefine, Undefine, DeleteStorage, DeleteFinish, DeleteRow, Operate
<1>3. ASSUME NEW c \in Client, Repair(c) \/ DatabaseError(c)
      PROVE  Settled'
  BY <1>3 DEF AdoptLook, AdoptCheck, AdoptInsert, InsertRow, PurgeLook, PurgeRow, DeleteRow,
  DatabaseError, Repair
<1>4. ASSUME NEW v \in VM, Watcher(v) \/ GuestPowerOff(v)
      PROVE  Settled'
  BY <1>4 DEF WatchPoll, LiveState, WatchSwitch, Destroy, WatchRedefine, WatchStart, CanStart,
  WatchInstalled, UpdateInstall, WatchRunning, UpdateState, WatchFail, WatchDatabaseError,
  GuestPowerOff, Watcher
<1>5. ASSUME Scanner
      PROVE  Settled'
  BY <1>5 DEF ScanBegin, ScanVisit, LiveState, ScanWrite, UpdateState, ScanJudge, ScanShutdown,
  StopDomain, Destroy, ScanForce, ScanCheck, AutoDestroy, Destroyed, NotDestroyed,
  AutoUndefine, Undefine, AutoStorage, AutoRow, DeleteRow, AutoDatabaseError,
  ScanDatabaseError, ScanEnd, Scanner
<1>6. ASSUME Crash
      PROVE  Settled'
  BY <1>6 DEF Crash
<1> QED BY <1>1, <1>2, <1>3, <1>4, <1>5, <1>6 DEF Next

\* No action orphans a domain without an excuse.
LEMMA OrphanExplainedNext ==
  ASSUME TypeOK, TypeOK', IInv, Next
  PROVE  OrphanExplained'
<1> USE DEF TypeOK, IInv, OrphanExplained, GoneFirst
<1>1. ASSUME NEW c \in Client, Create(c)
      PROVE  OrphanExplained'
  BY <1>1 DEF CreateBegin, CreateStorage, CreateAbandon, CreateDefine, CreateBoot, Destroy,
  CreateRollback, CreateInsert, InsertRow, CreateWatch, Create
<1>2. ASSUME NEW c \in Client, Operate(c)
      PROVE  OrphanExplained'
  BY <1>2 DEF HandlerBegin, StartExec, CanStart, StartRecord, UpdateState, StopExec,
  StopDomain, Destroy, StopRecord, DeleteMark, DeleteDestroy, Destroyed, NotDestroyed,
  DeleteUndefine, Undefine, DeleteStorage, DeleteFinish, DeleteRow, Operate
<1>3. ASSUME NEW c \in Client, Repair(c) \/ DatabaseError(c)
      PROVE  OrphanExplained'
  BY <1>3 DEF AdoptLook, AdoptCheck, AdoptInsert, InsertRow, PurgeLook, PurgeRow, DeleteRow,
  DatabaseError, Repair
<1>4. ASSUME NEW v \in VM, Watcher(v) \/ GuestPowerOff(v)
      PROVE  OrphanExplained'
  BY <1>4 DEF WatchPoll, LiveState, WatchSwitch, Destroy, WatchRedefine, WatchStart, CanStart,
  WatchInstalled, UpdateInstall, WatchRunning, UpdateState, WatchFail, WatchDatabaseError,
  GuestPowerOff, Watcher
<1>5. ASSUME Scanner
      PROVE  OrphanExplained'
  BY <1>5 DEF ScanBegin, ScanVisit, LiveState, ScanWrite, UpdateState, ScanJudge, ScanShutdown,
  StopDomain, Destroy, ScanForce, ScanCheck, AutoDestroy, Destroyed, NotDestroyed,
  AutoUndefine, Undefine, AutoStorage, AutoRow, DeleteRow, AutoDatabaseError,
  ScanDatabaseError, ScanEnd, Scanner
<1>6. ASSUME Crash
      PROVE  OrphanExplained'
  BY <1>6 DEF Crash
<1> QED BY <1>1, <1>2, <1>3, <1>4, <1>5, <1>6 DEF Next

\* No action takes the storage of a row that is to stay.
LEMMA StorageHeldNext ==
  ASSUME TypeOK, TypeOK', IInv, Next
  PROVE  StorageHeld'
<1> USE DEF TypeOK, IInv, StorageHeld, UnbornDisk, UnbornUnowned, UnbornPc, Deleting
<1>1. ASSUME NEW c \in Client, Create(c)
      PROVE  StorageHeld'
  BY <1>1 DEF CreateBegin, CreateStorage, CreateAbandon, CreateDefine, CreateBoot, Destroy,
  CreateRollback, CreateInsert, InsertRow, CreateWatch, Create
<1>2. ASSUME NEW c \in Client, Operate(c)
      PROVE  StorageHeld'
  BY <1>2 DEF HandlerBegin, StartExec, CanStart, StartRecord, UpdateState, StopExec,
  StopDomain, Destroy, StopRecord, DeleteMark, DeleteDestroy, Destroyed, NotDestroyed,
  DeleteUndefine, Undefine, DeleteStorage, DeleteFinish, DeleteRow, Operate
<1>3. ASSUME NEW c \in Client, Repair(c) \/ DatabaseError(c)
      PROVE  StorageHeld'
  BY <1>3 DEF AdoptLook, AdoptCheck, AdoptInsert, InsertRow, PurgeLook, PurgeRow, DeleteRow,
  DatabaseError, Repair
<1>4. ASSUME NEW v \in VM, Watcher(v) \/ GuestPowerOff(v)
      PROVE  StorageHeld'
  BY <1>4 DEF WatchPoll, LiveState, WatchSwitch, Destroy, WatchRedefine, WatchStart, CanStart,
  WatchInstalled, UpdateInstall, WatchRunning, UpdateState, WatchFail, WatchDatabaseError,
  GuestPowerOff, Watcher
<1>5. ASSUME Scanner
      PROVE  StorageHeld'
  BY <1>5 DEF ScanBegin, ScanVisit, LiveState, ScanWrite, UpdateState, ScanJudge, ScanShutdown,
  StopDomain, Destroy, ScanForce, ScanCheck, AutoDestroy, Destroyed, NotDestroyed,
  AutoUndefine, Undefine, AutoStorage, AutoRow, DeleteRow, AutoDatabaseError,
  ScanDatabaseError, ScanEnd, Scanner
<1>6. ASSUME Crash
      PROVE  StorageHeld'
  BY <1>6 DEF Crash
<1> QED BY <1>1, <1>2, <1>3, <1>4, <1>5, <1>6 DEF Next

\* No action leaves a directory without row and without an excuse.
LEMMA LitterExplainedNext ==
  ASSUME TypeOK, TypeOK', IInv, Next
  PROVE  LitterExplained'
<1> USE DEF TypeOK, IInv, LitterExplained, Emptied, Unborn, UnbornPc, Deleting
<1>1. ASSUME NEW c \in Client, Create(c)
      PROVE  LitterExplained'
  BY <1>1 DEF CreateBegin, CreateStorage, CreateAbandon, CreateDefine, CreateBoot, Destroy,
  CreateRollback, CreateInsert, InsertRow, CreateWatch, Create
<1>2. ASSUME NEW c \in Client, Operate(c)
      PROVE  LitterExplained'
  BY <1>2 DEF HandlerBegin, StartExec, CanStart, StartRecord, UpdateState, StopExec,
  StopDomain, Destroy, StopRecord, DeleteMark, DeleteDestroy, Destroyed, NotDestroyed,
  DeleteUndefine, Undefine, DeleteStorage, DeleteFinish, DeleteRow, Operate
<1>3. ASSUME NEW c \in Client, Repair(c) \/ DatabaseError(c)
      PROVE  LitterExplained'
  BY <1>3 DEF AdoptLook, AdoptCheck, AdoptInsert, InsertRow, PurgeLook, PurgeRow, DeleteRow,
  DatabaseError, Repair
<1>4. ASSUME NEW v \in VM, Watcher(v) \/ GuestPowerOff(v)
      PROVE  LitterExplained'
  BY <1>4 DEF WatchPoll, LiveState, WatchSwitch, Destroy, WatchRedefine, WatchStart, CanStart,
  WatchInstalled, UpdateInstall, WatchRunning, UpdateState, WatchFail, WatchDatabaseError,
  GuestPowerOff, Watcher
<1>5. ASSUME Scanner
      PROVE  LitterExplained'
  BY <1>5 DEF ScanBegin, ScanVisit, LiveState, ScanWrite, UpdateState, ScanJudge, ScanShutdown,
  StopDomain, Destroy, ScanForce, ScanCheck, AutoDestroy, Destroyed, NotDestroyed,
  AutoUndefine, Undefine, AutoStorage, AutoRow, DeleteRow, AutoDatabaseError,
  ScanDatabaseError, ScanEnd, Scanner
<1>6. ASSUME Crash
      PROVE  LitterExplained'
  BY <1>6 DEF Crash
<1> QED BY <1>1, <1>2, <1>3, <1>4, <1>5, <1>6 DEF Next

\* No action leaves an install that nothing will end without an excuse.
LEMMA InstallWatchedNext ==
  ASSUME TypeOK, TypeOK', IInv, Next
  PROVE  InstallWatched'
<1> USE DEF TypeOK, IInv, InstallWatched, Settled, UnbornUnowned, UnbornPc
<1>1. ASSUME NEW c \in Client, Create(c)
      PROVE  InstallWatched'
  BY <1>1 DEF CreateBegin, CreateStorage, CreateAbandon, CreateDefine, CreateBoot, Destroy,
  CreateRollback, CreateInsert, InsertRow, CreateWatch, Create
<1>2. ASSUME NEW c \in Client, Operate(c)
      PROVE  InstallWatched'
  BY <1>2 DEF HandlerBegin, StartExec, CanStart, StartRecord, UpdateState, StopExec,
  StopDomain, Destroy, StopRecord, DeleteMark, DeleteDestroy, Destroyed, NotDestroyed,
  DeleteUndefine, Undefine, DeleteStorage, DeleteFinish, DeleteRow, Operate
<1>3. ASSUME NEW c \in Client, Repair(c) \/ DatabaseError(c)
      PROVE  InstallWatched'
  BY <1>3 DEF AdoptLook, AdoptCheck, AdoptInsert, InsertRow, PurgeLook, PurgeRow, DeleteRow,
  DatabaseError, Repair
<1>4. ASSUME NEW v \in VM, Watcher(v) \/ GuestPowerOff(v)
      PROVE  InstallWatched'
  BY <1>4 DEF WatchPoll, LiveState, WatchSwitch, Destroy, WatchRedefine, WatchStart, CanStart,
  WatchInstalled, UpdateInstall, WatchRunning, UpdateState, WatchFail, WatchDatabaseError,
  GuestPowerOff, Watcher
<1>5. ASSUME Scanner
      PROVE  InstallWatched'
  BY <1>5 DEF ScanBegin, ScanVisit, LiveState, ScanWrite, UpdateState, ScanJudge, ScanShutdown,
  StopDomain, Destroy, ScanForce, ScanCheck, AutoDestroy, Destroyed, NotDestroyed,
  AutoUndefine, Undefine, AutoStorage, AutoRow, DeleteRow, AutoDatabaseError,
  ScanDatabaseError, ScanEnd, Scanner
<1>6. ASSUME Crash
      PROVE  InstallWatched'
  BY <1>6 DEF Crash
<1> QED BY <1>1, <1>2, <1>3, <1>4, <1>5, <1>6 DEF Next

-----------------------------------------------------------------------------

\* Nothing exists in the initial state, so everything is in its type.
LEMMA TypeInit == Init => TypeOK
<1> SUFFICES ASSUME Init PROVE TypeOK
  OBVIOUS
<1> USE DEF Init
<1>1. record \in [VM -> RecordState] /\ install \in [VM -> InstallState] /\ origin \in [VM -> Origin]
  BY DEF RecordState, InstallState, Origin
<1>2. pc \in [Client -> HandlerPc] /\ arg \in [Client -> VM \cup {NoVM}] /\ owned \in [Client -> BOOLEAN]
  BY DEF HandlerPc
<1>3. watch \in [VM -> WatchPc] /\ scanPc \in ScanPc /\ listed \in [VM -> RecordState]
  BY DEF WatchPc, ScanPc, RecordState
<1>4. scanState \in RecordState
  BY DEF RecordState
<1> QED BY <1>1, <1>2, <1>3, <1>4 DEF TypeOK

\* ... and no task has started.
LEMMA IInvInit == Init => IInv
<1> SUFFICES ASSUME Init PROVE IInv
  OBVIOUS
<1> USE NoVMAssumption DEF Init
<1>1. Idle /\ Fresh
  BY DEF Idle, Fresh
<1>2. EarlyAlone /\ UnbornUnowned /\ UnbornDisk
  BY DEF EarlyAlone, UnbornUnowned, UnbornDisk, UnbornPc
<1>3. GoneFirst /\ Emptied /\ Settled
  BY DEF GoneFirst, Emptied, Settled, Deleting
<1>4. OrphanExplained /\ StorageHeld /\ LitterExplained /\ InstallWatched
  BY DEF OrphanExplained, StorageHeld, LitterExplained, InstallWatched, Unborn, Deleting
<1> QED BY <1>1, <1>2, <1>3, <1>4 DEF IInv

-----------------------------------------------------------------------------

\* Rows, domains, storage and tasks keep their types, whatever fails: a row has
\* an origin exactly when it has a state, a handler at work names an id handed out.
THEOREM TypeCorrect == Spec => []TypeOK
<1>1. TypeOK /\ [Next]_vars => TypeOK'
  BY TypeOKNext
  DEF vars, TypeOK, RecordState, InstallState, Origin, HandlerPc, UnbornPc, WatchPc, ScanPc, Excuse
<1> QED BY TypeInit, <1>1, PTL DEF Spec

\* The conjuncts stand and fall together: each lemma above uses some of the others.
LEMMA IInvNext ==
  ASSUME TypeOK, TypeOK', IInv, Next
  PROVE  IInv'
BY IdleNext, FreshNext, EarlyAloneNext, UnbornUnownedNext, UnbornDiskNext, GoneFirstNext,
   EmptiedNext, SettledNext, OrphanExplainedNext, StorageHeldNext, LitterExplainedNext,
   InstallWatchedNext
DEF IInv

\* ... and IInv mentions nothing but the variables.
LEMMA IInvStutter ==
  ASSUME IInv, UNCHANGED vars
  PROVE  IInv'
BY DEF vars, IInv, Idle, Fresh, EarlyAlone, UnbornUnowned, UnbornPc, UnbornDisk, GoneFirst, Emptied,
       Settled, OrphanExplained, StorageHeld, LitterExplained, InstallWatched, Deleting, Unborn

\* The inductive invariant holds in every reachable state.
THEOREM InductiveInvariant == Spec => []IInv
<1>1. IInv /\ TypeOK /\ TypeOK' /\ [Next]_vars => IInv'
  BY IInvNext, IInvStutter
<1> QED BY IInvInit, TypeCorrect, <1>1, PTL DEF Spec

\* No interleaving of handlers, watchers, scanner, guests and crashes leaves a
\* domain without a row but the five that OrphanExplained names.
THEOREM OrphansAreExplained == Spec => []OrphanExplained
<1>1. IInv => OrphanExplained
  BY DEF IInv
<1> QED BY InductiveInvariant, <1>1, PTL

\* A row of a VM Boxer made has its storage until its delete is all but done.
THEOREM StorageIsHeld == Spec => []StorageHeld
<1>1. IInv => StorageHeld
  BY DEF IInv
<1> QED BY InductiveInvariant, <1>1, PTL

\* Directories outlive their rows only in the ways LitterExplained names.
THEOREM LitterIsExplained == Spec => []LitterExplained
<1>1. IInv => LitterExplained
  BY DEF IInv
<1> QED BY InductiveInvariant, <1>1, PTL

\* An install nobody watches is one whose watcher a crash or a failed database
\* call took.
THEOREM InstallsAreWatched == Spec => []InstallWatched
<1>1. IInv => InstallWatched
  BY DEF IInv
<1> QED BY InductiveInvariant, <1>1, PTL

\* delete_vm_storage, whoever calls it, comes after the end of the domain.
THEOREM StorageComesLast == Spec => StorageOutlivesDomain
<1>1. TypeOK /\ IInv /\ [Next]_vars =>
        [\A v \in disk : v \notin disk' => ~Exists(v) \/ <<v, "stray">> \in excused]_vars
  <2> SUFFICES ASSUME TypeOK, IInv, Next, NEW v \in disk, v \notin disk'
               PROVE  ~Exists(v) \/ <<v, "stray">> \in excused
    OBVIOUS
  <2> USE DEF TypeOK, IInv, GoneFirst
  <2>1. ASSUME NEW c \in Client, Create(c)
        PROVE  ~Exists(v) \/ <<v, "stray">> \in excused
    BY <2>1 DEF CreateBegin, CreateStorage, CreateAbandon, CreateDefine, CreateBoot,
    CreateRollback, CreateInsert, CreateWatch, Create
  <2>2. ASSUME NEW c \in Client, Operate(c)
        PROVE  ~Exists(v) \/ <<v, "stray">> \in excused
    BY <2>2 DEF HandlerBegin, StartExec, StartRecord, StopExec, StopRecord, DeleteMark,
    DeleteDestroy, DeleteUndefine, DeleteStorage, DeleteFinish, Operate
  <2>3. ASSUME NEW c \in Client, Repair(c) \/ DatabaseError(c)
        PROVE  ~Exists(v) \/ <<v, "stray">> \in excused
    BY <2>3 DEF AdoptLook, AdoptCheck, AdoptInsert, PurgeLook, PurgeRow, DatabaseError, Repair
  <2>4. ASSUME NEW w \in VM, Watcher(w) \/ GuestPowerOff(w)
        PROVE  ~Exists(v) \/ <<v, "stray">> \in excused
    BY <2>4 DEF WatchPoll, WatchSwitch, WatchRedefine, WatchStart, WatchInstalled,
    WatchRunning, WatchFail, WatchDatabaseError, GuestPowerOff, Watcher
  <2>5. ASSUME Scanner
        PROVE  ~Exists(v) \/ <<v, "stray">> \in excused
    BY <2>5 DEF ScanBegin, ScanVisit, ScanWrite, ScanJudge, ScanShutdown, ScanForce, ScanCheck,
    AutoDestroy, AutoUndefine, AutoStorage, AutoRow, AutoDatabaseError, ScanDatabaseError,
    ScanEnd, Scanner
  <2>6. ASSUME Crash
        PROVE  ~Exists(v) \/ <<v, "stray">> \in excused
    BY <2>6 DEF Crash
  <2> QED BY <2>1, <2>2, <2>3, <2>4, <2>5, <2>6 DEF Next
<1> QED BY TypeCorrect, InductiveInvariant, <1>1, PTL DEF Spec, StorageOutlivesDomain

-----------------------------------------------------------------------------
(***************************************************************************)
(* VMLifecycle implements VMLife.  What IInv does not say is how far a     *)
(* watcher is: what it will write next is something the row still lacks.   *)
(***************************************************************************)
LifeInv ==
  /\ \A c \in Client : pc[c] = "create_watch" =>
       /\ watch[arg[c]] = "off"
       /\ origin[arg[c]] = "boxer" => install[arg[c]] = "installing"
       /\ \A d \in Client : d # c /\ arg[d] = arg[c] => pc[d] # "create_watch"
  /\ \A v \in VM : origin[v] = "boxer" =>
       /\ install[v] \in {"none", "failed"} => watch[v] = "off"
       /\ install[v] = "installed" => watch[v] \in {"running", "fail", "off"}

LEMMA LifeInvNext ==
  ASSUME TypeOK, TypeOK', IInv, LifeInv, Next
  PROVE  LifeInv'
<1> USE DEF TypeOK, IInv, LifeInv, UnbornUnowned, Fresh, UnbornPc, EarlyPc
<1>1. ASSUME NEW c \in Client, Create(c)
      PROVE  LifeInv'
  <2>1. CASE CreateBegin(c)
    BY <2>1 DEF CreateBegin, Enter, At, rows
  <2>2. CASE CreateStorage(c) \/ CreateAbandon(c) \/ CreateDefine(c) \/ CreateBoot(c)
             \/ CreateRollback(c)
    BY <2>2 DEF CreateStorage, CreateAbandon, CreateDefine, CreateBoot, CreateRollback, Goto,
    Return, Enter, At, rows
  <2>3. CASE CreateInsert(c)
    BY <2>3 DEF CreateInsert, InsertRow, HasRow, Goto, Return, Enter, At, rows
  <2>4. CASE CreateWatch(c)
    BY <2>4 DEF CreateWatch, Return, Enter, At, rows
  <2> QED BY <1>1, <2>1, <2>2, <2>3, <2>4 DEF Create
<1>2. ASSUME NEW c \in Client, Operate(c)
      PROVE  LifeInv'
  BY <1>2 DEF HandlerBegin, StartExec, StartRecord, StopExec, StopRecord, DeleteMark,
  DeleteDestroy, DeleteUndefine, DeleteStorage, DeleteFinish, DeleteRow, Operate, RowPc,
  UpdateState, Goto, Return, Enter, At, rows
<1>3. ASSUME NEW c \in Client, Repair(c) \/ DatabaseError(c)
      PROVE  LifeInv'
  BY <1>3 DEF AdoptLook, AdoptCheck, AdoptInsert, PurgeLook, PurgeRow, DatabaseError, Repair,
  InsertRow, DeleteRow, HasRow, Goto, Return, Enter, At, rows
<1>4. ASSUME NEW w \in VM, Watcher(w) \/ GuestPowerOff(w)
      PROVE  LifeInv'
  BY <1>4 DEF WatchPoll, WatchSwitch, WatchRedefine, WatchStart, WatchInstalled, WatchRunning,
  WatchFail, WatchDatabaseError, GuestPowerOff, Watcher, Watching, WatchGoto, UpdateState,
  UpdateInstall, handlers, rows
<1>5. CASE Scanner
  <2>1. CASE AutoRow
    BY <2>1 DEF AutoRow, DeleteRow, handlers
  <2>2. CASE ~AutoRow
    <3>1. UNCHANGED <<install, origin, watch, handlers>>
      BY <1>5, <2>2 DEF ScanBegin, ScanVisit, ScanWrite, ScanJudge, ScanShutdown, ScanForce,
      ScanCheck, AutoDestroy, AutoUndefine, AutoStorage, AutoDatabaseError, ScanDatabaseError,
      ScanEnd, Scanner, rows
    <3> QED BY <3>1 DEF handlers
  <2> QED BY <2>1, <2>2
<1>6. CASE Crash
  BY <1>6 DEF Crash, rows
<1> QED BY <1>1, <1>2, <1>3, <1>4, <1>5, <1>6 DEF Next

\* Whether a VM is being made depends on the handlers that hold it.
LEMMA UnbornElsewhere ==
  ASSUME NEW c \in Client, NEW w \in VM,
         \A d \in Client \ {c} : pc'[d] = pc[d] /\ arg'[d] = arg[d],
         pc[c] \in UnbornPc => arg[c] # w, pc'[c] \in UnbornPc => arg'[c] # w
  PROVE  Unborn(w)' = Unborn(w)
BY DEF Unborn, UnbornPc, EarlyPc

\* A step that leaves rows and creators alone leaves every life as it is.
LEMMA SameLife ==
  ASSUME UNCHANGED <<made, install, origin>>, \A v \in VM : Unborn(v)' = Unborn(v)
  PROVE  UNCHANGED Biography
BY DEF Biography, LifeOf

\* A step in the life of one VM.
LEMMA OneLife ==
  ASSUME NEW v \in VM, \A w \in VM \ {v} : LifeOf(w)' = LifeOf(w)
  PROVE  Biography' = [Biography EXCEPT ![v] = LifeOf(v)']
BY DEF Biography

\* A handler that gives up a VM it was making, for whatever reason, or drops out of another
\* call before it wrote anything.
LEMMA GivenUp ==
  ASSUME TypeOK, IInv, NEW c \in Client, Return(c), UNCHANGED <<made, install, origin>>
  PROVE  Life!Next \/ UNCHANGED Biography
<1> USE DEF TypeOK
<1>1. \A d \in Client \ {c} : pc'[d] = pc[d] /\ arg'[d] = arg[d]
  BY DEF Return, Enter
<1>2. pc'[c] \notin UnbornPc
  BY DEF Return, Enter, UnbornPc, EarlyPc
<1>3. CASE pc[c] \notin UnbornPc
  BY <1>1, <1>2, <1>3, UnbornElsewhere, SameLife
<1>4. CASE pc[c] \in UnbornPc
  <2>1. PICK v \in VM : v = arg[c]
    BY <1>4 DEF UnbornPc, EarlyPc
  <2>2. v \in made /\ origin[v] # "boxer" /\ \A d \in Client \ {c} : arg[d] = v => pc[d] \notin UnbornPc
    BY <1>4, <2>1 DEF IInv, UnbornUnowned, UnbornPc, EarlyPc
  <2>3. LifeOf(v) = "making"
    BY <1>4, <2>1, <2>2 DEF LifeOf, Unborn
  <2>4. ~Unborn(v)'
    BY <1>1, <1>2, <2>2 DEF Unborn
  <2>5. LifeOf(v)' = "over"
    BY <2>2, <2>4 DEF LifeOf
  <2>6. \A w \in VM \ {v} : LifeOf(w)' = LifeOf(w)
    BY <1>1, <1>2, <2>1, UnbornElsewhere DEF LifeOf
  <2>7. Life!GiveUp({v})
    BY <2>3, <2>5, <2>6 DEF Life!GiveUp, Biography
  <2> QED BY <2>7 DEF Life!Next
<1> QED BY <1>3, <1>4

\* A handler that writes nothing of a life, and is making no other VM than before.
LEMMA GoesOn ==
  ASSUME NEW c \in Client, UNCHANGED <<made, install, origin>>,
         \A d \in Client \ {c} : pc'[d] = pc[d] /\ arg'[d] = arg[d],
         \/ pc[c] \in UnbornPc /\ pc'[c] \in UnbornPc /\ arg'[c] = arg[c]
         \/ pc[c] \notin UnbornPc /\ pc'[c] \notin UnbornPc
  PROVE  UNCHANGED Biography
BY SameLife DEF Unborn

\* Who drops a row ends a life, or drops one that was only adopted.
LEMMA RowDropped ==
  ASSUME TypeOK, IInv, NEW v \in VM, v \in made, DeleteRow(v), UNCHANGED made,
         \A w \in VM : Unborn(w)' = Unborn(w)
  PROVE  Life!Next \/ UNCHANGED Biography
<1> USE DEF TypeOK
<1>1. \A w \in VM \ {v} : install'[w] = install[w] /\ origin'[w] = origin[w]
  BY DEF DeleteRow
<1>2. \A w \in VM \ {v} : LifeOf(w)' = LifeOf(w)
  BY <1>1 DEF LifeOf
<1>3. origin'[v] = "none"
  BY DEF DeleteRow
<1>4. CASE origin[v] # "boxer"
  <2>1. LifeOf(v)' = LifeOf(v)
    BY <1>3, <1>4 DEF LifeOf
  <2> QED BY <1>2, <2>1 DEF Biography
<1>5. CASE origin[v] = "boxer"
  <2>1. ~Unborn(v)
    BY <1>5 DEF Unborn, IInv, UnbornUnowned
  <2>2. LifeOf(v)' = "over"
    BY <1>3, <2>1 DEF LifeOf
  <2>3. LifeOf(v) \in Life!Recorded
    BY <1>5 DEF LifeOf, Life!Recorded, InstallState
  <2>4. Life!Drop(v)
    BY <1>2, <2>2, <2>3, OneLife DEF Life!Drop, Life!Turn, Biography
  <2> QED BY <2>4 DEF Life!Next
<1> QED BY <1>4, <1>5

LEMMA LivesCreate ==
  ASSUME TypeOK, IInv, NEW c \in Client, Create(c)
  PROVE  Life!Next \/ UNCHANGED Biography
<1> USE DEF TypeOK
<1>1. CASE CreateBegin(c)
  <2>1. PICK v \in VM \ made : made' = made \cup {v} /\ Enter(c, "create_storage", v, TRUE)
    BY <1>1 DEF CreateBegin
  <2>2. UNCHANGED <<install, origin>> /\ pc[c] = "idle"
    BY <1>1 DEF CreateBegin, At, rows
  <2>3. /\ \A d \in Client \ {c} : pc'[d] = pc[d] /\ arg'[d] = arg[d]
        /\ pc'[c] = "create_storage" /\ arg'[c] = v
    BY <2>1 DEF Enter
  <2>4. \A w \in VM \ {v} : LifeOf(w)' = LifeOf(w)
    BY <2>1, <2>2, <2>3, UnbornElsewhere DEF LifeOf, UnbornPc, EarlyPc
  <2>5. LifeOf(v) = "new"
    BY <2>1 DEF LifeOf
  <2>6. origin[v] = "none"
    BY <2>1 DEF IInv, Fresh, HasRow
  <2>7. Unborn(v)'
    BY <2>3 DEF Unborn, UnbornPc, EarlyPc
  <2>8. LifeOf(v)' = "making"
    BY <2>1, <2>2, <2>6, <2>7 DEF LifeOf
  <2>9. Life!Make(v)
    BY <2>4, <2>5, <2>8, OneLife DEF Life!Make, Life!Turn, Biography
  <2> QED BY <2>9 DEF Life!Next
<1>2. CASE CreateStorage(c) \/ CreateDefine(c)
  BY <1>2, GoesOn DEF CreateStorage, CreateDefine, At, Goto, rows, UnbornPc, EarlyPc
<1>3. CASE CreateBoot(c)
  BY <1>3, GoesOn DEF CreateBoot, At, Goto, rows, UnbornPc, EarlyPc
<1>4. CASE CreateAbandon(c) \/ CreateRollback(c)
  BY <1>4, GivenUp DEF CreateAbandon, CreateRollback, rows
<1>5. CASE CreateInsert(c) /\ HasRow(arg[c])
  BY <1>5, GivenUp DEF CreateInsert, rows
<1>6. CASE CreateInsert(c) /\ ~HasRow(arg[c])
  <2>1. PICK v \in VM : v = arg[c]
    BY <1>6 DEF CreateInsert, At
  <2>2. pc[c] = "create_insert" /\ UNCHANGED made
    BY <1>6 DEF CreateInsert, At
  <2>3. v \in made /\ origin[v] # "boxer"
    BY <2>1, <2>2 DEF IInv, UnbornUnowned, UnbornPc
  <2>4. LifeOf(v) = "making"
    BY <2>1, <2>2, <2>3 DEF LifeOf, Unborn, UnbornPc
  <2>5. \/ InsertRow(v, "none", "boxer") /\ Return(c)
        \/ InsertRow(v, "installing", "boxer") /\ Goto(c, "create_watch")
    BY <1>6, <2>1 DEF CreateInsert
  <2>6. /\ \A d \in Client \ {c} : pc'[d] = pc[d] /\ arg'[d] = arg[d]
        /\ pc'[c] \notin UnbornPc
        /\ \A w \in VM \ {v} : install'[w] = install[w] /\ origin'[w] = origin[w]
    BY <2>5 DEF InsertRow, Return, Enter, Goto, UnbornPc, EarlyPc
  <2>7. \A w \in VM \ {v} : LifeOf(w)' = LifeOf(w)
    BY <2>1, <2>2, <2>6, UnbornElsewhere DEF LifeOf
  <2>8. LifeOf(v)' \in {"plain", "installing"}
    BY <2>2, <2>3, <2>5 DEF InsertRow, LifeOf
  <2>9. Life!Record(v)
    BY <2>4, <2>7, <2>8, OneLife DEF Life!Record, Life!Turn, Biography
  <2> QED BY <2>9 DEF Life!Next
<1>7. CASE CreateWatch(c)
  BY <1>7, GivenUp DEF CreateWatch, rows
<1> QED BY <1>1, <1>2, <1>3, <1>4, <1>5, <1>6, <1>7 DEF Create

LEMMA LivesHandle ==
  ASSUME TypeOK, IInv, NEW c \in Client, Operate(c) \/ Repair(c) \/ DatabaseError(c)
  PROVE  Life!Next \/ UNCHANGED Biography
<1> USE DEF TypeOK
<1>1. CASE HandlerBegin(c) \/ AdoptLook(c)
  BY <1>1, GoesOn DEF HandlerBegin, AdoptLook, RowPc, Enter, At, rows, UnbornPc, EarlyPc
<1>2. CASE DeleteFinish(c) \/ PurgeRow(c)
  <2>1. pc[c] \notin {"idle"} \cup UnbornPc /\ DeleteRow(arg[c]) /\ UNCHANGED made /\ Return(c)
    BY <1>2 DEF DeleteFinish, PurgeRow, At, UnbornPc, EarlyPc
  <2>2. arg[c] \in made /\ arg[c] \in VM
    BY <2>1
  <2>3. /\ \A d \in Client \ {c} : pc'[d] = pc[d] /\ arg'[d] = arg[d]
        /\ pc'[c] = "idle"
    BY <2>1 DEF Return, Enter
  <2>4. \A w \in VM : Unborn(w)' = Unborn(w)
    BY <2>1, <2>3, UnbornElsewhere DEF UnbornPc, EarlyPc
  <2> QED BY <2>1, <2>2, <2>4, RowDropped
<1>3. CASE StartExec(c) \/ StopExec(c) \/ DeleteMark(c) \/ DeleteDestroy(c) \/ DeleteUndefine(c)
  BY <1>3, GoesOn DEF StartExec, StopExec, DeleteMark, DeleteDestroy, DeleteUndefine, At, Goto,
  Return, Enter, rows, UnbornPc, EarlyPc
<1>4. CASE StartRecord(c) \/ StopRecord(c)
  BY <1>4, GivenUp DEF StartRecord, StopRecord
<1>5. CASE DeleteStorage(c) \/ AdoptCheck(c) \/ PurgeLook(c)
  BY <1>5, GoesOn DEF DeleteStorage, AdoptCheck, PurgeLook, At, Goto, Return, Enter, rows,
  UnbornPc, EarlyPc
<1>6. CASE AdoptInsert(c)
  <2>1. CASE HasRow(arg[c])
    BY <1>6, <2>1, GivenUp DEF AdoptInsert, rows
  <2>2. CASE ~HasRow(arg[c])
    <3>1. PICK v \in VM : v = arg[c]
      BY <1>6 DEF AdoptInsert, At
    <3>2. /\ pc[c] = "adopt_insert" /\ Return(c) /\ UNCHANGED made
          /\ InsertRow(v, "none", "adopted") /\ origin[v] = "none"
      BY <1>6, <2>2, <3>1 DEF AdoptInsert, At, HasRow
    <3>3. /\ \A d \in Client \ {c} : pc'[d] = pc[d] /\ arg'[d] = arg[d]
          /\ pc'[c] = "idle"
          /\ \A w \in VM \ {v} : install'[w] = install[w] /\ origin'[w] = origin[w]
          /\ origin'[v] = "adopted"
      BY <3>2 DEF Return, Enter, InsertRow
    <3>4. \A w \in VM : Unborn(w)' = Unborn(w)
      BY <3>2, <3>3, UnbornElsewhere DEF UnbornPc, EarlyPc
    <3>5. \A w \in VM : LifeOf(w)' = LifeOf(w)
      BY <3>2, <3>3, <3>4 DEF LifeOf
    <3> QED BY <3>5 DEF Biography
  <2> QED BY <2>1, <2>2
<1>7. CASE DatabaseError(c)
  BY <1>7, GivenUp DEF DatabaseError, rows
<1> QED BY <1>1, <1>2, <1>3, <1>4, <1>5, <1>6, <1>7 DEF Operate, Repair

LEMMA LivesWatcher ==
  ASSUME TypeOK, IInv, LifeInv, NEW v \in VM, Watcher(v) \/ GuestPowerOff(v)
  PROVE  Life!Next \/ UNCHANGED Biography
<1> USE DEF TypeOK
<1>1. CASE UNCHANGED <<made, install, origin, handlers>>
  BY <1>1, SameLife DEF Unborn, handlers
<1>2. CASE WatchInstalled(v) \/ WatchFail(v)
  <2>1. PICK s \in {"installed", "failed"} :
          UpdateInstall(v, s) /\ watch[v] = IF s = "installed" THEN "installed" ELSE "fail"
    BY <1>2 DEF WatchInstalled, WatchFail, Watching
  <2>2. UNCHANGED <<made, origin, handlers>>
    BY <1>2 DEF WatchInstalled, WatchFail
  <2>3. \A w \in VM : Unborn(w)' = Unborn(w)
    BY <2>2 DEF Unborn, handlers
  <2>4. \A w \in VM \ {v} : LifeOf(w)' = LifeOf(w)
    BY <2>1, <2>2, <2>3 DEF LifeOf, UpdateInstall
  <2>5. CASE origin[v] # "boxer"
    <3>1. LifeOf(v)' = LifeOf(v)
      BY <2>2, <2>3, <2>5 DEF LifeOf
    <3> QED BY <2>4, <3>1 DEF Biography
  <2>6. CASE origin[v] = "boxer"
    <3>1. v \in made
      BY <2>6 DEF IInv, Fresh, HasRow
    <3>2. record[v] # "none"
      BY <2>6
    <3>3. install'[v] = s
      BY <2>1, <3>2 DEF UpdateInstall
    <3>4. /\ install[v] \in {"installing", "installed"}
          /\ s = "installed" => install[v] = "installing"
      BY <2>1, <2>6 DEF LifeInv, InstallState
    <3>5. LifeOf(v) = install[v] /\ LifeOf(v)' = s
      BY <2>1, <2>2, <2>6, <3>1, <3>3, <3>4 DEF LifeOf
    <3>6. Life!Settle(v)
      BY <2>1, <2>4, <3>4, <3>5, OneLife DEF Life!Settle, Life!Turn, Biography
    <3> QED BY <3>6 DEF Life!Next
  <2> QED BY <2>5, <2>6
<1>3. Watcher(v) \/ GuestPowerOff(v) =>
        \/ UNCHANGED <<made, install, origin, handlers>>
        \/ WatchInstalled(v) \/ WatchFail(v)
  BY DEF WatchPoll, WatchSwitch, WatchRedefine, WatchStart, WatchRunning, WatchDatabaseError,
  GuestPowerOff, Watcher, rows
<1> QED BY <1>1, <1>2, <1>3

LEMMA LivesScanner ==
  ASSUME TypeOK, IInv, Scanner
  PROVE  Life!Next \/ UNCHANGED Biography
<1>1. CASE UNCHANGED <<made, install, origin, handlers>>
  BY <1>1, SameLife DEF Unborn, handlers
<1>2. CASE AutoRow
  <2>1. scanVm \in VM /\ DeleteRow(scanVm) /\ UNCHANGED <<made, handlers>>
    BY <1>2 DEF AutoRow, TypeOK
  <2>2. scanVm \in made
    BY <1>2, <2>1 DEF AutoRow, IInv, Fresh
  <2>3. \A w \in VM : Unborn(w)' = Unborn(w)
    BY <2>1 DEF Unborn, handlers
  <2> QED BY <2>1, <2>2, <2>3, RowDropped
<1>3. AutoRow \/ UNCHANGED <<made, install, origin, handlers>>
  BY DEF ScanBegin, ScanVisit, ScanWrite, ScanJudge, ScanShutdown, ScanForce, ScanCheck,
  AutoDestroy, AutoUndefine, AutoStorage, AutoDatabaseError, ScanDatabaseError, ScanEnd,
  Scanner, rows
<1> QED BY <1>1, <1>2, <1>3

LEMMA LivesCrash ==
  ASSUME TypeOK, IInv, Crash
  PROVE  Life!Next \/ UNCHANGED Biography
<1> DEFINE S == {v \in VM : LifeOf(v) = "making"}
<1>1. UNCHANGED <<made, install, origin>> /\ \A v \in VM : ~Unborn(v)'
  BY DEF Crash, rows, Unborn, UnbornPc, EarlyPc
<1>2. ASSUME NEW v \in VM
      PROVE  LifeOf(v)' = IF v \in S THEN "over" ELSE LifeOf(v)
  BY <1>1 DEF LifeOf, TypeOK, InstallState
<1>3. Life!GiveUp(S)
  BY <1>2 DEF Life!GiveUp, Biography
<1> QED BY <1>3 DEF Life!Next

\* For any VMs, connections and faults, VMLifecycle implements VMLife: no race or crash makes
\* a VM of Boxer's out of what was given up or deleted, or takes up an install again.
THEOREM VMLifecycleImplementsVMLife == Spec => LivesOnce
<1>1. Init => LifeInv /\ Life!Init
  BY DEF Init, LifeInv, Life!Init, Biography, LifeOf
<1>2. TypeOK /\ TypeOK' /\ IInv /\ LifeInv /\ [Next]_vars => LifeInv'
  <2>1. LifeInv /\ UNCHANGED vars => LifeInv'
    BY DEF LifeInv, vars, rows, handlers
  <2> QED BY <2>1, LifeInvNext
<1>3. TypeOK /\ IInv /\ LifeInv /\ [Next]_vars => [Life!Next]_Biography
  <2>1. UNCHANGED vars => UNCHANGED Biography
    BY SameLife DEF vars, rows, handlers, Unborn
  <2> QED BY <2>1, LivesCreate, LivesHandle, LivesWatcher, LivesScanner, LivesCrash DEF Next
<1> QED BY TypeCorrect, InductiveInvariant, <1>1, <1>2, <1>3, PTL DEF Spec, LivesOnce, Life!Spec

-----------------------------------------------------------------------------
(***************************************************************************)
(* Without crashes and failed database calls.  What "torn" and "unwatched" *)
(* excuse does not happen then, whatever else is refused or raced.         *)
(***************************************************************************)
NoneCutOff == \A x \in excused : x[2] \in {"stray", "litter"}

LEMMA NobodyCutOff ==
  ASSUME "crash" \notin Faults, "database" \notin Faults, Next, NoneCutOff
  PROVE  NoneCutOff'
<1>1. ASSUME NEW u, excused' = excused \cup {<<u, "stray">>} \/ excused' = excused \cup {<<u, "litter">>}
      PROVE  NoneCutOff'
  BY <1>1 DEF NoneCutOff
<1>2. CASE UNCHANGED excused
  BY <1>2 DEF NoneCutOff
<1>3. ASSUME NEW c \in Client, Create(c)
      PROVE  UNCHANGED excused \/ excused' = excused \cup {<<arg[c], "stray">>}
               \/ excused' = excused \cup {<<arg[c], "litter">>}
  BY <1>3 DEF CreateBegin, CreateStorage, CreateAbandon, CreateDefine, CreateBoot,
  CreateRollback, CreateInsert, CreateWatch, Create
<1>4. ASSUME NEW c \in Client, Operate(c) \/ Repair(c)
      PROVE  UNCHANGED excused \/ excused' = excused \cup {<<arg[c], "stray">>}
               \/ excused' = excused \cup {<<arg[c], "litter">>}
  BY <1>4 DEF HandlerBegin, StartExec, StartRecord, StopExec, StopRecord, DeleteMark,
  DeleteDestroy, DeleteUndefine, DeleteStorage, DeleteFinish, Destroyed, NotDestroyed, Undefine,
  AdoptLook, AdoptCheck, AdoptInsert, PurgeLook, PurgeRow, Operate, Repair
<1>5. ASSUME NEW w \in VM, Watcher(w) \/ GuestPowerOff(w)
      PROVE  UNCHANGED excused \/ excused' = excused \cup {<<w, "stray">>}
  BY <1>5 DEF WatchPoll, WatchSwitch, WatchRedefine, WatchStart, WatchInstalled,
  WatchRunning, WatchFail, WatchDatabaseError, GuestPowerOff, Watcher
<1>6. ASSUME Scanner
      PROVE  UNCHANGED excused \/ excused' = excused \cup {<<scanVm, "stray">>}
               \/ excused' = excused \cup {<<scanVm, "litter">>}
  BY <1>6 DEF ScanBegin, ScanVisit, ScanWrite, ScanJudge, ScanShutdown, ScanForce, ScanCheck,
  AutoDestroy, AutoUndefine, AutoStorage, AutoRow, AutoDatabaseError, ScanDatabaseError,
  ScanEnd, Scanner, Destroyed, NotDestroyed, Undefine
<1>7. ~Crash /\ \A c \in Client : ~DatabaseError(c)
  BY DEF Crash, DatabaseError
<1> QED BY <1>1, <1>2, <1>3, <1>4, <1>5, <1>6, <1>7 DEF Next

\* While boxerd stays up and its database calls return, every row of a VM Boxer made has its
\* storage until its delete is about to drop it, and every install that counts as running is
\* being watched or about to be: neither the order of handlers, scanner and watchers nor a
\* refusal of libvirt or of the file system makes an exception.
THEOREM NothingIsCutOff ==
  ASSUME "crash" \notin Faults, "database" \notin Faults
  PROVE  Spec => [](\A v \in VM :
           /\ origin[v] = "boxer" => v \in disk \/ Deleting(v)
           /\ install[v] = "installing" =>
                \/ watch[v] \notin {"off", "running"}
                \/ \E c \in Client : arg[c] = v /\ pc[c] = "create_watch")
<1> DEFINE Kept ==
             \A v \in VM :
               /\ origin[v] = "boxer" => v \in disk \/ Deleting(v)
               /\ install[v] = "installing" =>
                    \/ watch[v] \notin {"off", "running"}
                    \/ \E c \in Client : arg[c] = v /\ pc[c] = "create_watch"
<1>1. Init => NoneCutOff
  BY DEF Init, NoneCutOff
<1>2. NoneCutOff /\ [Next]_vars => NoneCutOff'
  BY NobodyCutOff DEF vars, NoneCutOff
<1>3. IInv /\ NoneCutOff => Kept
  BY DEF IInv, StorageHeld, InstallWatched, NoneCutOff
<1> QED BY InductiveInvariant, <1>1, <1>2, <1>3, PTL DEF Spec

(***************************************************************************)
(* The safety half of DeleteCompletes: a row in state deleting is being    *)
(* deleted.                                                                *)
(***************************************************************************)
DeletePc == {"delete_destroy", "delete_undefine", "delete_storage", "delete_row"}

\* and the scanner, which works on copies of the rows, writes only what libvirt told it
DeletingHeld ==
  /\ \A v \in VM : record[v] = "deleting" => \E c \in Client : arg[c] = v /\ pc[c] \in DeletePc
  /\ scanPc \in {"sync", "mark"} => scanState # "deleting"

\* Whoever else writes the state of a row, nobody but DeleteMark writes this one, and who
\* has marked a row goes on until the row is gone.
LEMMA DeletingHeldNext ==
  ASSUME Faults \cap {"storage", "database", "crash"} = {}, TypeOK, DeletingHeld, Next
  PROVE  DeletingHeld'
<1> USE DEF TypeOK, DeletingHeld, DeletePc
<1>1. ASSUME NEW c \in Client, Create(c)
      PROVE  DeletingHeld'
  BY <1>1 DEF CreateBegin, CreateStorage, CreateAbandon, CreateDefine, CreateBoot, CreateRollback,
  CreateInsert, InsertRow, CreateWatch, Create, Goto, Enter, Return, At, scanner, scanArgs, rows,
  handlers, UnbornPc, EarlyPc
<1>2. ASSUME NEW c \in Client, Operate(c)
      PROVE  DeletingHeld'
  <2>1. CASE DeleteMark(c)
    BY <1>2, <2>1 DEF DeleteMark, UpdateState, Goto, At, scanner, scanArgs
  <2>2. CASE DeleteDestroy(c) \/ DeleteUndefine(c) \/ DeleteStorage(c)
    BY <2>2 DEF DeleteDestroy, DeleteUndefine, DeleteStorage, Goto, At, rows, scanner, scanArgs
  <2>3. CASE DeleteFinish(c)
    BY <2>3 DEF DeleteFinish, DeleteRow, Return, Enter, At, scanner, scanArgs
  <2>4. CASE HandlerBegin(c) \/ StartExec(c) \/ StopExec(c)
    BY <2>4 DEF HandlerBegin, StartExec, StopExec, RowPc, Goto, Return, Enter, At, rows, scanner,
    scanArgs
  <2>5. CASE StartRecord(c) \/ StopRecord(c)
    BY <2>5 DEF StartRecord, StopRecord, UpdateState, Return, Enter, At, scanner, scanArgs
  <2> QED BY <1>2, <2>1, <2>2, <2>3, <2>4, <2>5 DEF Operate
<1>3. ASSUME NEW c \in Client, Repair(c)
      PROVE  DeletingHeld'
  BY <1>3 DEF AdoptLook, AdoptCheck, AdoptInsert, PurgeLook, PurgeRow, Repair, InsertRow,
  DeleteRow, Goto, Return, Enter, At, rows, scanner, scanArgs
<1>4. ASSUME NEW w \in VM, Watcher(w) \/ GuestPowerOff(w)
      PROVE  DeletingHeld'
  BY <1>4 DEF WatchPoll, WatchSwitch, WatchRedefine, WatchStart, WatchInstalled, WatchRunning,
  WatchFail, WatchDatabaseError, GuestPowerOff, Watcher, UpdateState, handlers, rows, scanner,
  scanArgs
<1>5. CASE Scanner
  <2>1. CASE ScanBegin \/ ScanJudge \/ ScanForce \/ ScanEnd
    BY <2>1 DEF ScanBegin, ScanJudge, ScanForce, ScanEnd, StopDomain, Destroy,
    ScanGoto, ScanNext, ScanEnter, rows, handlers, scanArgs
  <2>2. ASSUME NEW v \in VM, ScanVisit(v)
        PROVE  DeletingHeld'
    BY <2>2 DEF ScanVisit, LiveState, ScanEnter, rows, handlers
  <2>3. CASE ScanWrite
    BY <2>3 DEF ScanWrite, UpdateState, ScanGoto, ScanNext, ScanEnter, handlers, scanArgs
  <2>4. CASE ScanShutdown \/ ScanCheck
    BY <2>4 DEF ScanShutdown, ScanCheck, StopDomain, Destroy, LiveState, ScanNext, ScanEnter,
    rows, handlers
  <2>5. CASE AutoDestroy \/ AutoUndefine \/ AutoStorage
    BY <2>5 DEF AutoDestroy, AutoUndefine, AutoStorage, ScanGoto, ScanNext, ScanEnter, rows,
    handlers, scanArgs
  <2>6. CASE AutoRow
    BY <2>6 DEF AutoRow, DeleteRow, ScanNext, ScanEnter, handlers
  <2> QED BY <1>5, <2>1, <2>2, <2>3, <2>4, <2>5, <2>6
          DEF Scanner, AutoDatabaseError, ScanDatabaseError
<1>6. ~Crash /\ \A c \in Client : ~DatabaseError(c)
  BY DEF Crash, DatabaseError
<1> QED BY <1>1, <1>2, <1>3, <1>4, <1>5, <1>6 DEF Next

\* A row in state deleting is being deleted by a call under way: no refusal of libvirt, no
\* scan, no second delete and no other handler of the VM leaves a row marked that nobody is
\* going to delete.
THEOREM DeletesAreCarriedOn ==
  ASSUME Faults \cap {"storage", "database", "crash"} = {}
  PROVE  Spec => []DeletingHeld
<1>1. Init => DeletingHeld
  BY DEF Init, DeletingHeld
<1>2. TypeOK /\ DeletingHeld /\ [Next]_vars => DeletingHeld'
  <2>1. DeletingHeld /\ UNCHANGED vars => DeletingHeld'
    BY DEF DeletingHeld, vars, rows, handlers, scanner, scanArgs
  <2> QED BY <2>1, DeletingHeldNext
<1> QED BY TypeCorrect, <1>1, <1>2, PTL DEF Spec

=============================================================================
