------------------------------- MODULE Reconcile -------------------------------
(***************************************************************************)
(* The database against libvirt: vm.scan, vm.import, vm.adopt and          *)
(* vm.purge_ghost, and "boxer reconcile --fix", which works through the    *)
(* report of one scan, call by call, while others create and delete.       *)
(*                                                                         *)
(* A scan reads the domains in the thread pool and the rows later; each    *)
(* handler looks again, again in two steps.  What the rows say besides     *)
(* their name and origin, and the disks, are left to VMLifecycle.          *)
(***************************************************************************)
EXTENDS FiniteSets

CONSTANTS
  Vm,        \* names Boxer--<project>--<display name>--<id>
  Dashed,    \* those with "--" in the display name
  Foreign,   \* names of other domains
  Device,    \* names of Android devices, which libvirt does not know
  Mine,      \* names of the callers' own project
  Client,    \* IPC connections, the terminal's among them
  ImportId,  \* the ids vm.import makes; every other id is the one in the name
  NoName,
  Faults     \* subset of {"libvirt", "crash"}

Name == Vm \cup Foreign \cup Device
Own  == {"boxer", "adopted", "android"}   \* origin, or kind: the id is the name's

ASSUME NameAssumption ==
  /\ Vm \cap Foreign = {} /\ Vm \cap Device = {} /\ Foreign \cap Device = {}
  /\ Dashed \subseteq Vm /\ Mine \subseteq Name /\ NoName \notin Name
ASSUME IdAssumption == ImportId \cap (Own \cup {"none", "own"}) = {}

VARIABLES
  there,     \* defined domains and running emulators
  row,       \* the row that has each name as its libvirt_name: Own or an imported id
  born,      \* names create calls have used
  used,      \* ids vm.import has used
  pc, obj,   \* what each client's call is about to do, and the name it is about
  id,        \* the id of the row it read
  seen,      \* the domains its scan has listed
  orphans, ghosts,  \* what is left of the report it works through
  doubt      \* history: names its scan got no answer for, or others touched

data    == <<there, row, born, used>>
report  == <<seen, orphans, ghosts>>
vars    == <<data, pc, obj, id, report, doubt>>

FixPc == {"scan_rows", "fix", "adopt_row", "adopt_insert", "purge_look", "purge_row", "purge_blind",
          "fixed"}
Pc    == FixPc \cup {"idle", "insert", "undefine", "drop_row", "import_row", "import_insert"}

Domain == there \ Device

Id(n) == IF row[n] \in Own THEN "own" ELSE row[n]

\* One type invariant for the module.
TypeOK ==
  /\ there \subseteq Name /\ born \subseteq Name /\ used \subseteq ImportId
  /\ row \in [Name -> Own \cup {"none"} \cup ImportId]
  /\ pc \in [Client -> Pc] /\ obj \in [Client -> Name \cup {NoName}]
  /\ \A c \in Client : pc[c] \notin {"idle", "scan_rows", "fix", "fixed"} => obj[c] \in Name
  /\ id \in [Client -> ImportId \cup {"own", "none"}]
  /\ seen \in [Client -> SUBSET Name] /\ orphans \in [Client -> SUBSET (Vm \ Dashed)]
  /\ ghosts \in [Client -> SUBSET (Name \X (ImportId \cup {"own"}))]
  /\ doubt \in [Client -> SUBSET Name]

Init ==
  /\ there = {} /\ born = {} /\ used = {}
  /\ row = [n \in Name |-> "none"]
  /\ pc = [c \in Client |-> "idle"] /\ obj = [c \in Client |-> NoName]
  /\ id = [c \in Client |-> "none"]
  /\ seen = [c \in Client |-> {}] /\ orphans = [c \in Client |-> {}]
  /\ ghosts = [c \in Client |-> {}]
  /\ doubt = [c \in Client |-> {}]

-----------------------------------------------------------------------------
At(c, p) == pc[c] = p

Call(c, p, n, i) ==
  /\ pc' = [pc EXCEPT ![c] = p] /\ obj' = [obj EXCEPT ![c] = n] /\ id' = [id EXCEPT ![c] = i]

Goto(c, p) == pc' = [pc EXCEPT ![c] = p] /\ UNCHANGED <<obj, id>>

\* the handler returns or raises: the terminal goes on with its report
Return(c) == Call(c, IF pc[c] \in FixPc \ {"fixed"} THEN "fix" ELSE "idle", NoName, "none")

\* the calls under way other than c's see n change
Touch(c, n) ==
  doubt' = [b \in Client |-> IF b # c /\ pc[b] \in FixPc THEN doubt[b] \cup {n} ELSE doubt[b]]

\* libvirt did not answer c about n
NoAnswer(c, n) == doubt' = [doubt EXCEPT ![c] = @ \cup {n}]

SetRow(n, r) == row' = [row EXCEPT ![n] = r]

-----------------------------------------------------------------------------
(***************************************************************************)
(* vm.request and vm.delete, android.request and its delete, in short.     *)
(***************************************************************************)
Define(c, n) ==
  /\ At(c, "idle") /\ n \in (Vm \cup Device) \ born
  /\ there' = there \cup {n} /\ born' = born \cup {n}
  /\ Call(c, "insert", n, "own") /\ Touch(c, n)
  /\ UNCHANGED <<row, used, report>>

\* libvirt_name is UNIQUE: the INSERT raises when the domain was adopted or imported
Insert(c) ==
  /\ At(c, "insert")
  /\ IF row[obj[c]] = "none"
       THEN SetRow(obj[c], IF obj[c] \in Device THEN "android" ELSE "boxer")
       ELSE UNCHANGED row
  /\ Return(c) /\ Touch(c, obj[c])
  /\ UNCHANGED <<there, born, used, report>>

Delete(c, n) ==
  /\ At(c, "idle") /\ row[n] # "none"
  /\ Call(c, "undefine", n, Id(n)) /\ Touch(c, n)
  /\ UNCHANGED <<data, report>>

\* undefine keeps its libvirt errors to itself
Undefine(c) ==
  /\ At(c, "undefine")
  /\ \/ there' = there \ {obj[c]}
     \/ "libvirt" \in Faults /\ obj[c] \notin Device /\ UNCHANGED there
  /\ Goto(c, "drop_row") /\ Touch(c, obj[c])
  /\ UNCHANGED <<row, born, used, report>>

DropRow(c) ==
  /\ At(c, "drop_row")
  /\ IF Id(obj[c]) = id[c] THEN SetRow(obj[c], "none") ELSE UNCHANGED row
  /\ Return(c) /\ Touch(c, obj[c])
  /\ UNCHANGED <<there, born, used, report>>

-----------------------------------------------------------------------------
(***************************************************************************)
(* vm.import.                                                              *)
(***************************************************************************)
Import(c, n) ==
  /\ At(c, "idle") /\ n \in Domain
  /\ Call(c, "import_row", n, "none") /\ Touch(c, n)
  /\ UNCHANGED <<data, report>>

ImportRow(c) ==
  /\ At(c, "import_row")
  /\ IF row[obj[c]] = "none" THEN Goto(c, "import_insert") ELSE Return(c)
  /\ UNCHANGED <<data, report, doubt>>

ImportInsert(c) ==
  /\ At(c, "import_insert")
  /\ \E i \in ImportId \ used :
       /\ used' = used \cup {i}
       /\ IF row[obj[c]] = "none" THEN SetRow(obj[c], i) ELSE UNCHANGED row
  /\ Return(c) /\ Touch(c, obj[c])
  /\ UNCHANGED <<there, born, report>>

-----------------------------------------------------------------------------
(***************************************************************************)
(* vm.scan and what reconcile --fix does with its report.  A vm.adopt or a *)
(* vm.purge_ghost by hand is a report of one.                              *)
(***************************************************************************)

\* listAllDomains: domains that fail to show their XML are left out
ListDomains(c) ==
  /\ At(c, "idle")
  /\ \E S \in SUBSET Domain :
       /\ S = Domain \/ "libvirt" \in Faults
       /\ seen' = [seen EXCEPT ![c] = S]
       /\ doubt' = [doubt EXCEPT ![c] = Domain \ S]
  /\ Goto(c, "scan_rows")
  /\ UNCHANGED <<data, orphans, ghosts>>

\* parse_boxer_name, which splits at the first two "--"
Parses(n) == n \in Vm \ Dashed

\* mutant: foreign domains are adopted as well
OrphansIn_AnyName(S) == {n \in S : row[n] = "none"}

OrphansIn(S) == {n \in S : Parses(n) /\ row[n] = "none"}

\* mutant: only Boxer's own VMs are looked at
GhostsIn_BoxerRows(S) == {<<n, Id(n)>> : n \in {m \in Name : row[m] = "boxer" /\ m \notin S}}

\* every row, of whatever kind
GhostsIn(S) == {<<n, Id(n)>> : n \in {m \in Name : row[m] # "none" /\ m \notin S}}

ListRows(c) ==
  /\ At(c, "scan_rows")
  /\ orphans' = [orphans EXCEPT ![c] = OrphansIn(seen[c])]
  /\ ghosts' = [ghosts EXCEPT ![c] = GhostsIn(seen[c])]
  /\ seen' = [seen EXCEPT ![c] = {}]
  /\ Goto(c, "fix")
  /\ UNCHANGED <<data, doubt>>

ByHand(c, n) ==
  /\ At(c, "idle")
  /\ \/ Parses(n) /\ orphans' = [orphans EXCEPT ![c] = {n}] /\ UNCHANGED ghosts
     \/ row[n] # "none" /\ ghosts' = [ghosts EXCEPT ![c] = {<<n, Id(n)>>}] /\ UNCHANGED orphans
  /\ doubt' = [doubt EXCEPT ![c] = Name]
  /\ Goto(c, "fix")
  /\ UNCHANGED <<data, seen>>

\* vm.adopt of the next orphan; it raises when libvirt has no such domain
Adopt(c, n) ==
  /\ At(c, "fix") /\ n \in orphans[c]
  /\ orphans' = [orphans EXCEPT ![c] = @ \ {n}]
  /\ \/ n \in there /\ Call(c, "adopt_row", n, "own") /\ Touch(c, n)
     \/ n \notin there /\ UNCHANGED <<pc, obj, id, doubt>>
     \/ "libvirt" \in Faults /\ NoAnswer(c, n) /\ UNCHANGED <<pc, obj, id>>
  /\ UNCHANGED <<data, seen, ghosts>>

\* get_vm asks for the id in the name, so an imported row is not noticed
AdoptRow(c) ==
  /\ At(c, "adopt_row")
  /\ IF row[obj[c]] \in Own THEN Return(c) ELSE Goto(c, "adopt_insert")
  /\ UNCHANGED <<data, report, doubt>>

AdoptInsert(c) ==
  /\ At(c, "adopt_insert")
  /\ IF row[obj[c]] = "none" THEN SetRow(obj[c], "adopted") ELSE UNCHANGED row
  /\ Return(c) /\ Touch(c, obj[c])
  /\ UNCHANGED <<there, born, used, report>>

\* vm.purge_ghost of the next ghost, when the adoptions are done: get_vm, then the policy
Purge(c, n, i) ==
  /\ At(c, "fix") /\ orphans[c] = {} /\ <<n, i>> \in ghosts[c]
  /\ ghosts' = [ghosts EXCEPT ![c] = @ \ {<<n, i>>}]
  /\ IF Id(n) = i /\ n \in Mine
       THEN Call(c, "purge_look", n, i) /\ Touch(c, n)
       ELSE UNCHANGED <<pc, obj, id, doubt>>
  /\ UNCHANGED <<data, seen, orphans>>

\* mutant: the report is trusted
PurgeLook_Trusting(c) ==
  /\ At(c, "purge_look") /\ Goto(c, "purge_row")
  /\ UNCHANGED <<data, report, doubt>>

\* lookupByName: a name libvirt does not answer for counts as absent
PurgeLook(c) ==
  /\ At(c, "purge_look")
  /\ \/ obj[c] \in Domain /\ Return(c) /\ UNCHANGED doubt
     \/ obj[c] \notin Domain /\ Goto(c, "purge_row") /\ UNCHANGED doubt
     \/ "libvirt" \in Faults /\ Goto(c, "purge_blind") /\ NoAnswer(c, obj[c])
  /\ UNCHANGED <<data, report>>

\* purge_ghost_record
PurgeRow(c) ==
  /\ pc[c] \in {"purge_row", "purge_blind"}
  /\ IF Id(obj[c]) = id[c] THEN SetRow(obj[c], "none") ELSE UNCHANGED row
  /\ Return(c) /\ Touch(c, obj[c])
  /\ UNCHANGED <<there, born, used, report>>

\* both loops are through, and the report has said so
FixDone(c) ==
  /\ At(c, "fix") /\ orphans[c] = {} /\ ghosts[c] = {}
  /\ Goto(c, "fixed")
  /\ UNCHANGED <<data, report, doubt>>

Leave(c) ==
  /\ At(c, "fixed") /\ Return(c)
  /\ doubt' = [doubt EXCEPT ![c] = {}]
  /\ UNCHANGED <<data, report>>

-----------------------------------------------------------------------------
(***************************************************************************)
(* What happens outside boxerd.                                            *)
(***************************************************************************)
Doubtful(n) ==
  doubt' = [b \in Client |-> IF pc[b] \in FixPc THEN doubt[b] \cup {n} ELSE doubt[b]]

\* virsh undefine, an emulator that ends
Vanish(n) ==
  /\ n \in there /\ there' = there \ {n} /\ Doubtful(n)
  /\ UNCHANGED <<row, born, used, pc, obj, id, report>>

\* virsh define of somebody's domain; vm.start of a device
Appear(n) ==
  /\ n \in Foreign \/ (n \in Device /\ row[n] = "android")
  /\ there' = there \cup {n} /\ Doubtful(n)
  /\ UNCHANGED <<row, born, used, pc, obj, id, report>>

\* boxerd restarts: the calls fail, and the terminal goes on with its report
Crash ==
  /\ "crash" \in Faults
  /\ pc' = [c \in Client |-> IF pc[c] \in FixPc \ {"scan_rows", "fixed"} THEN "fix" ELSE "idle"]
  /\ obj' = [c \in Client |-> NoName] /\ id' = [c \in Client |-> "none"]
  /\ seen' = [c \in Client |-> {}]
  /\ doubt' = [c \in Client |->
       IF pc[c] \in FixPc \ {"scan_rows", "fixed"} THEN doubt[c] \cup ({obj[c]} \ {NoName})
       ELSE {}]
  /\ UNCHANGED <<data, orphans, ghosts>>

-----------------------------------------------------------------------------
Others(c) ==
  \/ \E n \in Name : Define(c, n) \/ Delete(c, n) \/ Import(c, n)
  \/ Insert(c) \/ Undefine(c) \/ DropRow(c) \/ ImportRow(c) \/ ImportInsert(c)

Fix(c) ==
  \/ ListDomains(c) \/ ListRows(c) \/ FixDone(c) \/ Leave(c)
  \/ \E n \in Name : ByHand(c, n) \/ Adopt(c, n)
  \/ AdoptRow(c) \/ AdoptInsert(c)
  \/ \E g \in ghosts[c] : Purge(c, g[1], g[2])
  \/ PurgeLook(c) \/ PurgeRow(c)

Next ==
  \/ \E c \in Client : Others(c) \/ Fix(c)
  \/ \E n \in Name : Vanish(n) \/ Appear(n)
  \/ Crash

Spec == Init /\ [][Next]_vars

-----------------------------------------------------------------------------
(***************************************************************************)
(* Properties.                                                             *)
(***************************************************************************)

\* The report is of two moments, and the calls that act on it come later: what
\* looked like a ghost may be a VM that was made in between.  No row that
\* vm.purge_ghost is about to delete after libvirt said its domain was gone is
\* that of a Boxer domain that is there.
OnlyGhostsPurged ==
  \A c \in Client : At(c, "purge_row") /\ Id(obj[c]) = id[c] => obj[c] \notin Vm \cap there

\* When reconcile --fix is through, every domain whose name parses has a row and
\* every row of the caller's has a domain, whatever others did meanwhile to other
\* names: the failure of one adoption or purge does not keep it from the rest.
Reconciled ==
  \A c \in Client : pc[c] = "fixed" =>
    \A n \in (Vm \cup Foreign) \ doubt[c] :
      /\ Parses(n) /\ n \in there => row[n] # "none"
      /\ n \in Mine /\ row[n] # "none" => n \in there

-----------------------------------------------------------------------------
(***************************************************************************)
(* What the code says of itself.                                           *)
(***************************************************************************)

\* boxerd/db.py, purge_ghost_record: "Delete a DB record for a VM whose libvirt
\* domain is confirmed absent."  Of an emulator no domain can be present.
ConfirmedAbsent ==
  \A c \in Client : At(c, "purge_row") /\ Id(obj[c]) = id[c] => obj[c] \notin there

=============================================================================
