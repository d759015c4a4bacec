------------------------------ MODULE Admission ------------------------------
(***************************************************************************)
(* Admission control: the checks of vm.request and vm.request_installer,   *)
(* the queue in the database and the queue runner that promotes from it.   *)
(*                                                                         *)
(* check_admission first looks at the running domains, without an await,   *)
(* then reads the rows; the VM that the answer lets through is only        *)
(* visible to the next check when its domain runs and its row is in.  What *)
(* is admitted and not yet there is counted by nobody.                     *)
(***************************************************************************)
EXTENDS Naturals, FiniteSets, Sequences, SequencesExt, FiniteSetsExt

CONSTANTS
  Request,     \* requests callers may make; the VM made for one has its name
  Client,      \* IPC connections
  Runner,      \* the queue runner's task
  NoRequest,
  Project,
  ProjectOf,   \* the project of each request
  Installer,   \* those made with vm.request_installer
  Size,        \* what the handler finds a request to need (host share and disk)
  Guess,       \* what the runner takes it to need: 2 CPUs, 2048 MB, 20 GB when unsaid
  HostSize, MaxDisk, MaxRunning, MaxInstalls,
  Faults,      \* subset of {"boot", "crash"}
  MaxRestarts  \* bound on how often boxerd restarts

ASSUME ActorAssumption == Runner \notin Client /\ IsFiniteSet(Client)
ASSUME RequestAssumption ==
  /\ NoRequest \notin Request /\ IsFiniteSet(Request) /\ Installer \subseteq Request
  /\ ProjectOf \in [Request -> Project]
  /\ Size \in [Request -> Nat] /\ Guess \in [Request -> Nat]
ASSUME CapAssumption ==
  /\ HostSize \in Nat /\ MaxDisk \in Nat /\ MaxRunning \in Nat \ {0} /\ MaxInstalls \in Nat \ {0}
  /\ MaxRestarts \in Nat

Actor == Client \cup {Runner}

VARIABLES
  asked,       \* requests made so far
  pc,          \* the call each actor awaits
  req,         \* the request it is about
  row,         \* vms.state of each VM, "none" without a row
  installing,  \* VMs with install_state "installing"
  active,      \* VMs whose domain is running
  queue,       \* requests of the pending queue entries, oldest first
  stuck,       \* requests of entries a crash has left "processing"
  batch,       \* entries the runner's pass has listed and not yet taken up
  created,     \* history: VMs made for each request
  revived,     \* history: VMs whose row says "running" without an admission
  ended,       \* history: requests that failed before their callers, or expired
  restarts     \* how often boxerd has restarted

past == <<ended, restarts>>
vars == <<asked, pc, req, row, installing, active, queue, stuck, batch, created, revived, past>>

PreCheckPc == {"pre_host", "pre_rows", "mark"}
HandlerPc  == {"count", "host", "rows", "boot", "insert", "enqueue"}
ActorPc    == {"idle", "done", "expire"} \cup PreCheckPc \cup HandlerPc

\* One type invariant for the module.
TypeOK ==
  /\ asked \subseteq Request
  /\ pc \in [Actor -> ActorPc]
  /\ req \in [Actor -> Request \cup {NoRequest}]
  /\ \A a \in Actor : pc[a] # "idle" => req[a] \in Request
  /\ \A c \in Client : pc[c] \in {"idle"} \cup HandlerPc
  /\ row \in [Request -> {"none", "running", "stopped"}]
  /\ installing \subseteq Request /\ active \subseteq Request
  /\ queue \in Seq(Request) /\ batch \in Seq(Request)
  /\ stuck \subseteq Request
  /\ created \in [Request -> Nat]
  /\ revived \subseteq Request /\ ended \subseteq Request
  /\ restarts \in Nat

Init ==
  /\ asked = {}
  /\ pc = [a \in Actor |-> "idle"]
  /\ req = [a \in Actor |-> NoRequest]
  /\ row = [r \in Request |-> "none"]
  /\ installing = {} /\ active = {}
  /\ queue = <<>> /\ stuck = {} /\ batch = <<>>
  /\ created = [r \in Request |-> 0]
  /\ revived = {} /\ ended = {}
  /\ restarts = 0

At(a, p) == pc[a] = p

Goto(a, p) == pc' = [pc EXCEPT ![a] = p] /\ UNCHANGED req

Rest(a) == pc' = [pc EXCEPT ![a] = "idle"] /\ req' = [req EXCEPT ![a] = NoRequest]

\* The end of the handler: a client gets its answer, the runner an entry to mark.
Answered(a) == IF a = Runner THEN Goto(a, "done") ELSE Rest(a)

\* mutant: whoever the handler worked for goes on as the runner does
Raised_Marked(a) == Goto(a, "expire")

Raised(a) == IF a = Runner THEN Goto(a, "expire") ELSE Rest(a)

\* vm.request starts with check_admission, vm.request_installer with its own cap
FirstCheck(r) == IF r \in Installer THEN "count" ELSE "host"

-----------------------------------------------------------------------------
(***************************************************************************)
(* The three things the checks look at.                                    *)
(***************************************************************************)
Total(S) == MapThenSumSet(LAMBDA r : Size[r], S)

\* free_ram_gib and free_vcpus, from the domains libvirt reports active
FitsHost(need) == Total(active) + need <= HostSize

Rows(p) == {r \in Request : ProjectOf[r] = p /\ row[r] # "none"}
Running(p) == {r \in Rows(p) : row[r] = "running"}

\* mutant: off by one
FitsProject_OneMore(p, need) ==
  /\ Cardinality(Running(p)) <= MaxRunning
  /\ Total(Rows(p)) + need <= MaxDisk

\* rows marked running and disk of all rows, from one list_vms
FitsProject(p, need) ==
  /\ Cardinality(Running(p)) < MaxRunning
  /\ Total(Rows(p)) + need <= MaxDisk

\* mutant: off by one
InstallSlot_OneMore == Cardinality(installing) <= MaxInstalls

\* count_installing_vms counts over all projects
InstallSlot == Cardinality(installing) < MaxInstalls

-----------------------------------------------------------------------------
(***************************************************************************)
(* The handlers, run by a connection or by the runner.                     *)
(***************************************************************************)
Ask(c) ==
  /\ At(c, "idle")
  /\ \E r \in Request \ asked :
       /\ asked' = asked \cup {r}
       /\ req' = [req EXCEPT ![c] = r]
       /\ pc' = [pc EXCEPT ![c] = FirstCheck(r)]
  /\ UNCHANGED <<row, installing, active, queue, stuck, batch, created, revived, past>>

\* ensure_iso, which fetches the image of a catalog installer, comes first
CheckInstalls(a) ==
  /\ At(a, "count")
  /\ \/ /\ Goto(a, IF InstallSlot THEN "host" ELSE "enqueue")
        /\ UNCHANGED ended
     \/ "boot" \in Faults /\ Raised(a) /\ ended' = ended \cup {req[a]}
  /\ UNCHANGED <<asked, row, installing, active, queue, stuck, batch, created, revived, restarts>>

CheckHost(a) ==
  /\ At(a, "host")
  /\ Goto(a, IF FitsHost(Size[req[a]]) THEN "rows" ELSE "enqueue")
  /\ UNCHANGED <<asked, row, installing, active, queue, stuck, batch, created, revived, past>>

\* mutant: what the runner may not create is refused, not put back
CheckProject_RefusesBack(a) ==
  /\ At(a, "rows")
  /\ IF FitsProject(ProjectOf[req[a]], Size[req[a]]) THEN Goto(a, "boot")
     ELSE IF a = Runner THEN Answered(a) ELSE Goto(a, "enqueue")
  /\ UNCHANGED <<asked, row, installing, active, queue, stuck, batch, created, revived, past>>

CheckProject(a) ==
  /\ At(a, "rows")
  /\ Goto(a, IF FitsProject(ProjectOf[req[a]], Size[req[a]]) THEN "boot" ELSE "enqueue")
  /\ UNCHANGED <<asked, row, installing, active, queue, stuck, batch, created, revived, past>>

\* the image, the disk, define_and_start: minutes, when the image is new
Boot(a) ==
  /\ At(a, "boot")
  /\ \/ active' = active \cup {req[a]} /\ Goto(a, "insert") /\ UNCHANGED ended
     \/ "boot" \in Faults /\ Raised(a) /\ ended' = ended \cup {req[a]} /\ UNCHANGED active
  /\ UNCHANGED <<asked, row, installing, queue, stuck, batch, created, revived, restarts>>

\* an installer booted from a local ISO by hand (test boot) is no install
Insert(a) ==
  /\ At(a, "insert") /\ row[req[a]] = "none"
  /\ row' = [row EXCEPT ![req[a]] = "running"]
  /\ \/ UNCHANGED installing
     \/ req[a] \in Installer /\ installing' = installing \cup {req[a]}
  /\ created' = [created EXCEPT ![req[a]] = @ + 1]
  /\ Answered(a)
  /\ UNCHANGED <<asked, active, queue, stuck, batch, revived, past>>

\* vm.adopt was there first: the INSERT breaks the primary key
InsertRaises(a) ==
  /\ At(a, "insert") /\ row[req[a]] # "none"
  /\ Raised(a) /\ ended' = ended \cup {req[a]}
  /\ UNCHANGED <<asked, row, installing, active, queue, stuck, batch, created, revived, restarts>>

\* also the runner's own handler puts what it may not create back, as a new entry
Enqueue(a) ==
  /\ At(a, "enqueue")
  /\ queue' = Append(queue, req[a])
  /\ Answered(a)
  /\ UNCHANGED <<asked, row, installing, active, stuck, batch, created, revived, past>>

-----------------------------------------------------------------------------
(***************************************************************************)
(* The queue runner.                                                       *)
(***************************************************************************)

\* list_pending_queue: the pass works on this list, whatever becomes of its entries
ListPending ==
  /\ At(Runner, "idle") /\ batch = <<>> /\ queue # <<>>
  /\ batch' = queue
  /\ UNCHANGED <<asked, pc, req, row, installing, active, queue, stuck, created, revived, past>>

\* the next entry, with the runner's own idea of what it needs; refused ones stay pending
PreCheckHost ==
  /\ At(Runner, "idle") /\ batch # <<>>
  /\ batch' = Tail(batch)
  /\ IF FitsHost(Guess[Head(batch)])
       THEN /\ pc' = [pc EXCEPT ![Runner] = "pre_rows"]
            /\ req' = [req EXCEPT ![Runner] = Head(batch)]
       ELSE UNCHANGED <<pc, req>>
  /\ UNCHANGED <<asked, row, installing, active, queue, stuck, created, revived, past>>

\* mutant: the first refusal ends the pass
PreCheckProject_EndsPass ==
  /\ At(Runner, "pre_rows")
  /\ IF FitsProject(ProjectOf[req[Runner]], Guess[req[Runner]])
       THEN Goto(Runner, "mark") /\ UNCHANGED batch
       ELSE Rest(Runner) /\ batch' = <<>>
  /\ UNCHANGED <<asked, row, installing, active, queue, stuck, created, revived, past>>

PreCheckProject ==
  /\ At(Runner, "pre_rows")
  /\ IF FitsProject(ProjectOf[req[Runner]], Guess[req[Runner]])
       THEN Goto(Runner, "mark")
       ELSE Rest(Runner)
  /\ UNCHANGED <<asked, row, installing, active, queue, stuck, batch, created, revived, past>>

\* the request of the entry in state "processing"
Processing == IF pc[Runner] \in HandlerPc \cup {"done", "expire"} THEN {req[Runner]} ELSE {}

Pending(r) == \E i \in DOMAIN queue : queue[i] = r

\* mutant: the entry stays pending while it is worked on
MarkProcessing_Pending ==
  /\ At(Runner, "mark")
  /\ Goto(Runner, FirstCheck(req[Runner]))
  /\ UNCHANGED <<asked, row, installing, active, queue, stuck, batch, created, revived, past>>

\* UPDATE ... WHERE id=?: also of an entry that expired in the meantime
MarkProcessing ==
  /\ At(Runner, "mark")
  /\ \/ \E i \in DOMAIN queue : queue[i] = req[Runner] /\ queue' = RemoveAt(queue, i)
     \/ ~Pending(req[Runner]) /\ UNCHANGED queue
  /\ Goto(Runner, FirstCheck(req[Runner]))
  /\ UNCHANGED <<asked, row, installing, active, stuck, batch, created, revived, past>>

\* "done" when the handler returned, "expired" when it raised
MarkFinished ==
  /\ pc[Runner] \in {"done", "expire"}
  /\ Rest(Runner)
  /\ UNCHANGED <<asked, row, installing, active, queue, stuck, batch, created, revived, past>>

\* the lease scanner's expire_old_queue_entries, on entries pending for two hours:
\* the oldest so many
ExpireOld ==
  /\ \E n \in 1..Len(queue) :
       /\ queue' = SubSeq(queue, n + 1, Len(queue))
       /\ ended' = ended \cup {queue[i] : i \in 1..n}
  /\ UNCHANGED <<asked, pc, req, row, installing, active, stuck, batch, created, revived, restarts>>

-----------------------------------------------------------------------------
(***************************************************************************)
(* What moves the counts besides: the other handlers, the lease scanner    *)
(* and the guests.  VMLifecycle has their steps; here each is one.         *)
(***************************************************************************)

\* a graceful vm.stop records "stopped" while the guest still runs
Stop(r) ==
  /\ row[r] # "none"
  /\ row' = [row EXCEPT ![r] = "stopped"]
  /\ revived' = revived \ {r}
  /\ \/ active' = active \ {r}
     \/ UNCHANGED active
  /\ UNCHANGED <<asked, pc, req, installing, queue, stuck, batch, created, past>>

\* vm.start asks no one, nor does the install watcher
Start(r) ==
  /\ row[r] # "none"
  /\ active' = active \cup {r}
  /\ row' = [row EXCEPT ![r] = "running"]
  /\ revived' = IF row[r] = "running" THEN revived ELSE revived \cup {r}
  /\ UNCHANGED <<asked, pc, req, installing, queue, stuck, batch, created, past>>

\* the lease scanner records what libvirt says
ScanSync(r) ==
  /\ row[r] # "none" /\ (row[r] = "running") # (r \in active)
  /\ row' = [row EXCEPT ![r] = IF r \in active THEN "running" ELSE "stopped"]
  /\ revived' = IF r \in active THEN revived \cup {r} ELSE revived \ {r}
  /\ UNCHANGED <<asked, pc, req, installing, active, queue, stuck, batch, created, past>>

\* vm.adopt: of a domain a crash left, or of one whose row is about to come
Adopt(r) ==
  /\ r \in active /\ row[r] = "none"
  /\ row' = [row EXCEPT ![r] = "running"]
  /\ revived' = revived \cup {r}
  /\ UNCHANGED <<asked, pc, req, installing, active, queue, stuck, batch, created, past>>

GuestPowerOff(r) ==
  /\ r \in active
  /\ active' = active \ {r}
  /\ UNCHANGED <<asked, pc, req, row, installing, queue, stuck, batch, created, revived, past>>

\* the install watcher, for better or worse
InstallEnd(r) ==
  /\ r \in installing
  /\ installing' = installing \ {r}
  /\ UNCHANGED <<asked, pc, req, row, active, queue, stuck, batch, created, revived, past>>

Delete(r) ==
  /\ row[r] # "none"
  /\ row' = [row EXCEPT ![r] = "none"]
  /\ installing' = installing \ {r}
  /\ active' = active \ {r}
  /\ revived' = revived \ {r}
  /\ UNCHANGED <<asked, pc, req, queue, stuck, batch, created, past>>

\* boxerd restarts: the queue table stays, the runner's list and all handlers go
Crash ==
  /\ "crash" \in Faults /\ restarts < MaxRestarts
  /\ restarts' = restarts + 1
  /\ pc' = [a \in Actor |-> "idle"]
  /\ req' = [a \in Actor |-> NoRequest]
  /\ batch' = <<>>
  /\ stuck' = stuck \cup Processing
  /\ ended' = ended \cup {req[c] : c \in {d \in Client : pc[d] # "idle"}}
  /\ UNCHANGED <<asked, row, installing, active, queue, created, revived>>

-----------------------------------------------------------------------------

Handle(a) ==
  \/ CheckInstalls(a) \/ CheckHost(a) \/ CheckProject(a) \/ Boot(a) \/ Insert(a)
  \/ InsertRaises(a) \/ Enqueue(a)

RunQueue ==
  \/ ListPending \/ PreCheckHost \/ PreCheckProject \/ MarkProcessing \/ MarkFinished

Environment(r) ==
  \/ Stop(r) \/ Start(r) \/ ScanSync(r) \/ Adopt(r) \/ GuestPowerOff(r) \/ InstallEnd(r)
  \/ Delete(r)

Next ==
  \/ \E c \in Client : Ask(c)
  \/ \E a \in Actor : Handle(a)
  \/ RunQueue
  \/ ExpireOld
  \/ \E r \in Request : Environment(r)
  \/ Crash

Spec == Init /\ [][Next]_vars

\* Started handlers and the runner's loop go on; nothing else has to happen.
Fairness ==
  /\ \A a \in Actor : WF_vars(Handle(a))
  /\ WF_vars(RunQueue)

FairSpec == Spec /\ Fairness

-----------------------------------------------------------------------------
(***************************************************************************)
(* Properties.                                                             *)
(***************************************************************************)

\* past the check of the rows, not yet among them
Admitted(p) ==
  {a \in Actor : pc[a] \in {"boot", "insert"} /\ ProjectOf[req[a]] = p}

\* The check and the insert are not one step, so the cap on running VMs gives
\* way, but never by more than one VM for each other task that can be between
\* the two: vm.start and the scanner apart, a project runs at most
\* MaxRunning + Cardinality(Client) VMs.
OvershootBounded ==
  \A p \in Project :
    Cardinality(Running(p) \ revived) + Cardinality(Admitted(p))
      <= MaxRunning - 1 + Cardinality(Actor)

\* past the count of the installs, not yet in it
InstallAdmitted ==
  {a \in Actor : req[a] \in Installer /\ pc[a] \in {"host", "rows", "boot", "insert"}}

\* The same for max_concurrent_installs, over all projects.
InstallOvershootBounded ==
  Cardinality(installing) + Cardinality(InstallAdmitted)
    <= MaxInstalls - 1 + Cardinality(Actor)

\* What every request is to its caller.
Held(r) ==
  \/ \E a \in Actor : req[a] = r /\ pc[a] # "expire"
  \/ Pending(r) \/ \E i \in DOMAIN batch : batch[i] = r

Fate ==
  [r \in Request |->
     IF r \notin asked THEN "new"
     ELSE IF created[r] > 0 THEN "served"
     ELSE IF Held(r) THEN "held" ELSE "dropped"]

Life == INSTANCE RequestLife WITH fate <- Fate, vms <- created

\* No order of handlers, runner passes, expiries and restarts serves a request
\* twice, or takes one up again that was served or dropped.
ServedAtMostOnce == Life!Spec

\* A request is kept until its VM is made or its caller can know that it will not
\* be, whatever the runner, the expiry and restarts do to the list it works on:
\* only a restart while the runner has taken up its entry loses it.
NobodyForgotten ==
  \A r \in asked : created[r] > 0 \/ Held(r) \/ r \in ended \/ r \in stuck

Room(r) ==
  LET need == IF Guess[r] > Size[r] THEN Guess[r] ELSE Size[r]
  IN /\ FitsHost(need) /\ FitsProject(ProjectOf[r], need)
     /\ r \in Installer => InstallSlot

\* "promoted when resources free": no request stays in the queue for good while
\* there is room for it, whatever the requests before it wait for, and whatever
\* restarts there were.
PromotedWhenFree ==
  \A r \in Request : []<>~(Pending(r) /\ Room(r))

=============================================================================
