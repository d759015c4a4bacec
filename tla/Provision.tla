------------------------------- MODULE Provision -------------------------------
(***************************************************************************)
(* What the VMs of a host share, and how creates and deletes take and      *)
(* release it: the cached base images, digest by digest, the overlays that *)
(* are backed by them, and the NAT network of a repository.  Beside them   *)
(* run image.refresh, image.prewarm and image.prune.                       *)
(*                                                                         *)
(* One template with a checksum manifest, since templates share no files,  *)
(* and one repository, since repositories share no network: that another   *)
(* one holds the same subnet is a fault.  A VM is known by the one create  *)
(* that makes it and the one call, or lease scan, that deletes it; what    *)
(* happens to rows and domains otherwise is VMLifecycle's subject.         *)
(***************************************************************************)
EXTENDS Naturals, FiniteSets

CONSTANTS
  VM,                 \* VMs that may be created
  Refresher,          \* calls of image.refresh and image.prewarm
  Digest,             \* what a file can hash to
  Published,          \* digests of images the distributor signs
  NoDigest,
  SignatureRequired,  \* signature_required of the catalog entry
  Faults              \* subset of {"crash", "forged", "subnet", "probe"}

ASSUME DigestAssumption == Published \subseteq Digest /\ NoDigest \notin Digest
ASSUME AskerAssumption  == VM \cap Refresher = {}
ASSUME SignatureAssumption == SignatureRequired \in BOOLEAN

VARIABLES
  policy,      \* refresh_policy of the entry: "latest" or "manual"
  manifest,    \* the digest the manifest at the mirror names
  blobs,       \* digests with a file under blobs/
  current,     \* the digest metadata.json points to
  overlay,     \* the digest behind each VM's disk.qcow2
  network,     \* the libvirt network of the repository
  pc,          \* what the handler about a VM, or a refresh, awaits
  base,        \* the digest metadata.json named when the call read it, then the one it resolved
  forced,      \* refreshes in progress with force=True
  prunePc,     \* the prune in progress,
  protected,   \* the digests it will spare,
  toVisit,     \* the VM directories it has yet to look into,
  known,       \* and whether it could read every overlay so far
  exposed,     \* history: VMs whose overlay a prune in progress did not see
  moved,       \* history: current was set during a prune
  unseen       \* history: VMs whose row a delete could not see when it listed the rows

images    == <<policy, manifest, blobs, current>>
calls     == <<pc, base, forced>>
prune     == <<prunePc, protected, toVisit, known>>
history   == <<exposed, moved, unseen>>
vars      == <<images, overlay, network, calls, prune, history>>

Asker == VM \cup Refresher

AskPc    == {"idle", "manifest", "download"}
CreatePc == {"overlay", "network", "define", "insert"}
DeletePc == {"undefine", "drop_row", "list", "teardown"}
Pc       == AskPc \cup CreatePc \cup DeletePc \cup {"up", "left"}
Network  == {"none", "defined", "active"}
Known    == Digest \cup {NoDigest}

\* One type invariant for the module.
TypeOK ==
  /\ policy \in {"latest", "manual"} /\ manifest \in Published
  /\ blobs \subseteq Digest /\ current \in Known
  /\ overlay \in [VM -> Known] /\ network \in Network
  /\ pc \in [Asker -> Pc] /\ \A r \in Refresher : pc[r] \in AskPc
  /\ base \in [Asker -> Known] /\ forced \subseteq Refresher
  /\ \A x \in Asker : pc[x] \in {"download", "overlay"} => base[x] \in Digest
  /\ prunePc \in {"idle", "walk"} /\ protected \subseteq Known /\ toVisit \subseteq VM
  /\ known \in BOOLEAN /\ exposed \subseteq VM /\ moved \in BOOLEAN /\ unseen \subseteq VM

Init ==
  /\ policy \in {"latest", "manual"} /\ manifest \in Published
  /\ blobs = {} /\ current = NoDigest
  /\ overlay = [v \in VM |-> NoDigest] /\ network = "none"
  /\ pc = [x \in Asker |-> "idle"] /\ base = [x \in Asker |-> NoDigest]
  /\ forced = {}
  /\ prunePc = "idle" /\ protected = {} /\ toVisit = {} /\ known = TRUE
  /\ exposed = {} /\ moved = FALSE /\ unseen = {}

-----------------------------------------------------------------------------
(***************************************************************************)
(* ensure_image, for a create, a prewarm or a refresh.                     *)
(***************************************************************************)
At(x, p)   == pc[x] = p
Goto(x, p) == pc' = [pc EXCEPT ![x] = p]

\* _current_blob: a pointer to a file that is not there counts for nothing
Cached(d) == d \in blobs

\* metadata.json is rewritten in one go, whatever other calls resolved meanwhile
SetCurrent(d) == current' = d /\ moved' = (prunePc = "walk")

\* mutant: a refresh goes on like a create
Serve_Always(x, d) ==
  /\ Goto(x, "overlay") /\ base' = [base EXCEPT ![x] = d] /\ forced' = forced \ {x}

\* a refresh is over, a create goes on to its overlay
Serve(x, d) ==
  /\ Goto(x, IF x \in VM THEN "overlay" ELSE "idle")
  /\ base' = [base EXCEPT ![x] = IF x \in VM THEN d ELSE NoDigest]
  /\ forced' = forced \ {x}

Fail(x) ==
  /\ Goto(x, "idle") /\ base' = [base EXCEPT ![x] = NoDigest]
  /\ forced' = forced \ {x}

AskBegin(x, force) ==
  /\ At(x, "idle")
  /\ IF policy = "manual" /\ ~force /\ Cached(current)
       THEN Serve(x, current)
       ELSE /\ Goto(x, "manifest") /\ base' = [base EXCEPT ![x] = current]
            /\ forced' = IF force THEN forced \cup {x} ELSE forced
  /\ UNCHANGED <<images, overlay, network, prune, history>>

\* mutant: a signature that cannot be confirmed is only warned about
Resolvable_SignatureOptional ==
  {manifest} \cup IF "forged" \in Faults THEN Digest ELSE {}

\* What a caller takes from the manifest: the signed digest, or, of a manifest that is not
\* the distributor's, whatever it says if no signature is required
Resolvable ==
  {manifest} \cup IF "forged" \in Faults /\ ~SignatureRequired THEN Digest ELSE {}

Resolve(x) ==
  /\ At(x, "manifest")
  /\ \E d \in Resolvable :
       IF Cached(d)
         THEN SetCurrent(d) /\ Serve(x, d)
         ELSE /\ Goto(x, "download") /\ base' = [base EXCEPT ![x] = d]
              /\ UNCHANGED <<current, forced, moved>>
  /\ UNCHANGED <<policy, manifest, blobs, overlay, network, prune, exposed, unseen>>

\* the mirror does not answer: what the metadata named before the attempt will do,
\* if its file is still there
ResolveTimesOut(x) ==
  /\ At(x, "manifest")
  /\ IF x \notin forced /\ Cached(base[x]) THEN Serve(x, base[x]) ELSE Fail(x)
  /\ UNCHANGED <<images, overlay, network, prune, history>>

\* a signature that is required and cannot be confirmed, or no entry for the file
ResolveRefused(x) ==
  /\ At(x, "manifest") /\ Fail(x)
  /\ UNCHANGED <<images, overlay, network, prune, history>>

\* the mirror may serve any file: one with another hash is thrown away
Download(x) ==
  /\ At(x, "download")
  /\ \E actual \in Digest :
       IF actual = base[x]
         THEN blobs' = blobs \cup {actual} /\ SetCurrent(actual) /\ Serve(x, actual)
         ELSE UNCHANGED <<blobs, current, moved>> /\ Fail(x)
  /\ UNCHANGED <<policy, manifest, overlay, network, prune, exposed, unseen>>

Ask(x) == Resolve(x) \/ ResolveTimesOut(x) \/ ResolveRefused(x) \/ Download(x)

-----------------------------------------------------------------------------
(***************************************************************************)
(* The rest of a create.                                                   *)
(***************************************************************************)
\* rows that list_vms of the repository returns
Rows == {v \in VM : pc[v] \in {"up", "undefine", "drop_row"}}

\* VMs that rely on the network and have no row yet
InFlight == {v \in VM : pc[v] \in {"define", "insert"}}

\* qemu-img create opens the backing file
MakeOverlay(v) ==
  /\ At(v, "overlay")
  /\ \/ /\ Cached(base[v])
        /\ overlay' = [overlay EXCEPT ![v] = base[v]]
        /\ exposed' = IF prunePc = "walk" /\ v \notin toVisit THEN exposed \cup {v} ELSE exposed
        /\ Goto(v, "network")
     \/ Goto(v, "idle") /\ UNCHANGED <<overlay, exposed>>
  /\ base' = [base EXCEPT ![v] = NoDigest]
  /\ UNCHANGED <<images, network, forced, prune, moved, unseen>>

\* keys and seed, then ensure_project_network; what fails here leaves the overlay behind
EnsureNetwork(v) ==
  /\ At(v, "network")
  /\ \/ /\ network' = "active" /\ Goto(v, "define")
        /\ unseen' = IF \E w \in VM : At(w, "teardown") THEN unseen \cup {v} ELSE unseen
     \/ UNCHANGED <<network, unseen>> /\ Goto(v, "left")
     \/ /\ "subnet" \in Faults
        /\ network # "active" /\ network' = "defined"
        /\ Goto(v, "left") /\ UNCHANGED unseen
  /\ UNCHANGED <<images, overlay, base, forced, prune, exposed, moved>>

\* whatever fails here takes the storage with it
DefineAndStart(v) ==
  /\ At(v, "define")
  /\ \/ network = "active" /\ Goto(v, "insert") /\ UNCHANGED <<overlay, exposed, unseen>>
     \/ /\ overlay' = [overlay EXCEPT ![v] = NoDigest]
        /\ Goto(v, "idle") /\ exposed' = exposed \ {v} /\ unseen' = unseen \ {v}
  /\ UNCHANGED <<images, network, base, forced, prune, moved>>

InsertRow(v) ==
  /\ At(v, "insert") /\ Goto(v, "up")
  /\ UNCHANGED <<images, overlay, network, base, forced, prune, history>>

Create(v) == MakeOverlay(v) \/ EnsureNetwork(v) \/ DefineAndStart(v) \/ InsertRow(v)

-----------------------------------------------------------------------------
(***************************************************************************)
(* vm.delete, and the lease scan, which leaves the network alone.          *)
(***************************************************************************)
DeleteBegin(v) ==
  /\ At(v, "up") /\ Goto(v, "undefine")
  /\ UNCHANGED <<images, overlay, network, base, forced, prune, history>>

DeleteStorage(v) ==
  /\ At(v, "undefine")
  /\ overlay' = [overlay EXCEPT ![v] = NoDigest] /\ exposed' = exposed \ {v}
  /\ Goto(v, "drop_row")
  /\ UNCHANGED <<images, network, base, forced, prune, moved, unseen>>

DeleteRow(v) ==
  /\ At(v, "drop_row")
  /\ unseen' = unseen \ {v}
  /\ Goto(v, "list") \/ Goto(v, "idle")
  /\ UNCHANGED <<images, overlay, network, base, forced, prune, exposed, moved>>

\* mutant: no lease on the network, so no VM on it
ListRows_LeasesOnly(v) ==
  /\ At(v, "list")
  /\ \/ Goto(v, "idle") /\ UNCHANGED unseen
     \/ unseen' = unseen \cup InFlight /\ Goto(v, "teardown")
  /\ UNCHANGED <<images, overlay, network, base, forced, prune, exposed, moved>>

\* has_active_vms goes by the DHCP leases: none yet of a VM that boots, and some
\* for a while of a VM that is gone
ListRows(v) ==
  /\ At(v, "list")
  /\ \/ Goto(v, "idle") /\ UNCHANGED unseen
     \/ Rows = {} /\ unseen' = unseen \cup InFlight /\ Goto(v, "teardown")
  /\ UNCHANGED <<images, overlay, network, base, forced, prune, exposed, moved>>

Teardown(v) ==
  /\ At(v, "teardown")
  /\ network' = "none" /\ Goto(v, "idle")
  /\ UNCHANGED <<images, overlay, base, forced, prune, history>>

Delete(v) == DeleteStorage(v) \/ DeleteRow(v) \/ ListRows(v) \/ Teardown(v)

-----------------------------------------------------------------------------
(***************************************************************************)
(* image.prune: the current blobs at once, then, in a thread, the overlays *)
(* one by one, and in the end the removal without another await.           *)
(***************************************************************************)
PruneBegin ==
  /\ prunePc = "idle" /\ prunePc' = "walk"
  /\ protected' = {current} \cap blobs /\ toVisit' = VM /\ known' = TRUE
  /\ UNCHANGED <<images, overlay, network, calls, history>>

\* mutant: an overlay that qemu-img cannot read is passed over
PruneVisit_IgnoresUnreadable(v) ==
  /\ prunePc = "walk" /\ v \in toVisit
  /\ toVisit' = toVisit \ {v}
  /\ \/ protected' = protected \cup ({overlay[v]} \ {NoDigest}) /\ UNCHANGED known
     \/ "probe" \in Faults /\ UNCHANGED <<protected, known>>
  /\ UNCHANGED <<images, overlay, network, calls, prunePc, history>>

\* qemu-img info cannot read, say, the disk of a running VM
PruneVisit(v) ==
  /\ prunePc = "walk" /\ v \in toVisit
  /\ toVisit' = toVisit \ {v}
  /\ \/ protected' = protected \cup ({overlay[v]} \ {NoDigest}) /\ UNCHANGED known
     \/ /\ "probe" \in Faults /\ overlay[v] # NoDigest
        /\ known' = FALSE /\ UNCHANGED protected
  /\ UNCHANGED <<images, overlay, network, calls, prunePc, history>>

\* mutant: what the metadata names is no reason to keep a file
PruneUnlink_DropsCurrent ==
  /\ prunePc = "walk" /\ toVisit = {} /\ prunePc' = "idle"
  /\ \E recent \in SUBSET blobs :
       blobs' = IF known THEN (blobs \cap {overlay[v] : v \in VM}) \cup recent ELSE blobs
  /\ protected' = {} /\ known' = TRUE /\ UNCHANGED toVisit
  /\ UNCHANGED <<policy, manifest, current, overlay, network, calls, history>>

\* older_than_seconds spares what is recent, dry_run everything
PruneUnlink ==
  /\ prunePc = "walk" /\ toVisit = {} /\ prunePc' = "idle"
  /\ \E recent \in SUBSET blobs :
       blobs' = IF known THEN blobs \cap (protected \cup recent) ELSE blobs
  /\ protected' = {} /\ known' = TRUE /\ UNCHANGED toVisit
  /\ UNCHANGED <<policy, manifest, current, overlay, network, calls, history>>

Prune == PruneBegin \/ (\E v \in VM : PruneVisit(v)) \/ PruneUnlink

-----------------------------------------------------------------------------
(***************************************************************************)
(* The mirror and boxerd's restarts.                                       *)
(***************************************************************************)
Publish ==
  /\ \E d \in Published \ {manifest} : manifest' = d
  /\ UNCHANGED <<policy, blobs, current, overlay, network, calls, prune, history>>

\* Files, rows and networks stay; a VM that was being made leaves its directory
Crash ==
  /\ "crash" \in Faults
  /\ pc' = [x \in Asker |->
              IF x \in Rows THEN "up"
              ELSE IF x \in VM /\ (overlay[x] # NoDigest \/ pc[x] = "left") THEN "left" ELSE "idle"]
  /\ unseen' = unseen \cap Rows
  /\ prunePc' = "idle" /\ protected' = {} /\ toVisit' = {} /\ known' = TRUE
  /\ base' = [x \in Asker |-> NoDigest] /\ forced' = {}
  /\ UNCHANGED <<images, overlay, network, exposed, moved>>

-----------------------------------------------------------------------------
Next ==
  \/ \E v \in VM : AskBegin(v, FALSE) \/ Create(v) \/ DeleteBegin(v) \/ Delete(v)
  \/ \E r \in Refresher, force \in BOOLEAN : AskBegin(r, force)
  \/ \E x \in Asker : Ask(x)
  \/ Prune \/ Publish \/ Crash

Spec == Init /\ [][Next]_vars

-----------------------------------------------------------------------------
(***************************************************************************)
(* Properties.                                                             *)
(***************************************************************************)
\* Nothing backs a disk but what the distributor signed, if the entry requires a signature:
\* whatever the mirror serves, and whichever call the file was fetched for
\* (ImageManager._ensure_artifact and _verify_manifest_signature fail closed).
OnlyPublished ==
  SignatureRequired => \A v \in VM : overlay[v] # NoDigest => overlay[v] \in Published

\* A prune removes no file that backs a disk, unless the disk was made after it had looked
\* into the VM's directory (ImageManager.prune unlinks from what a thread collected).
OverlayBacked ==
  \A v \in VM : overlay[v] # NoDigest => overlay[v] \in blobs \/ v \in exposed

\* What metadata.json points to is there, unless a prune was in progress when the pointer
\* was last set (ImageManager.prune takes the current blobs before it awaits the overlays).
CurrentCached == current = NoDigest \/ current \in blobs \/ moved

\* A VM has its network from the moment it is defined on, unless it had no row yet when a
\* delete that ended by removing the network listed the rows (vm.delete, list_vms and
\* teardown, against ensure_project_network in _create_vm long before insert_vm).
NetworkKept == \A v \in InFlight \cup Rows : network = "active" \/ v \in unseen

=============================================================================
