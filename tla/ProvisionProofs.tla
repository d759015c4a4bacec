---------------------------- MODULE ProvisionProofs ----------------------------
(***************************************************************************)
(* Proofs, for any numbers of VMs, calls and digests, of the invariants of *)
(* Provision: what backs a disk was signed and is not pruned, and a VM     *)
(* keeps its network, but for the windows the histories record.            *)
(***************************************************************************)
EXTENDS Provision, TLAPS

USE DEF AskPc, CreatePc, DeletePc, Pc, Network, Known, Asker

USE DEF At, Goto, Cached, SetCurrent, Serve, Fail, images, calls, prune, history

\* In the initial state no call is under way and nothing is cached.
LEMMA TypeInit == Init => TypeOK
BY DigestAssumption DEF Init, TypeOK

\* Resolving and fetching an image keep the types.
LEMMA TypeAsk ==
  ASSUME TypeOK, NEW x \in Asker,
         AskBegin(x, FALSE) \/ (x \in Refresher /\ AskBegin(x, TRUE)) \/ Ask(x)
  PROVE  TypeOK'
<1> USE DigestAssumption, AskerAssumption DEF TypeOK
<1>0. ASSUME NEW d, SetCurrent(d)
      PROVE  moved' \in BOOLEAN
  BY <1>0
<1>1. CASE AskBegin(x, FALSE) \/ (x \in Refresher /\ AskBegin(x, TRUE))
  BY <1>1 DEF AskBegin
<1>2. CASE Resolve(x)
  <2>1. Resolvable \subseteq Digest
    BY DEF Resolvable
  <2>2. moved' \in BOOLEAN
    BY <1>0, <1>2 DEF Resolve
  <2> QED BY <1>2, <2>1, <2>2 DEF Resolve
<1>3. CASE ResolveTimesOut(x) \/ ResolveRefused(x)
  BY <1>3 DEF ResolveTimesOut, ResolveRefused
<1>4. CASE Download(x)
  <2>1. moved' \in BOOLEAN
    BY <1>0, <1>4 DEF Download
  <2> QED BY <1>4, <2>1 DEF Download
<1> QED BY <1>1, <1>2, <1>3, <1>4 DEF Ask

\* The rest of a create and a delete keep the types.
LEMMA TypeVM ==
  ASSUME TypeOK, NEW v \in VM, Create(v) \/ DeleteBegin(v) \/ Delete(v)
  PROVE  TypeOK'
<1> USE DigestAssumption, AskerAssumption DEF TypeOK
<1>1. CASE MakeOverlay(v)
  BY <1>1 DEF MakeOverlay
<1>2. CASE EnsureNetwork(v)
  BY <1>2 DEF EnsureNetwork
<1>3. CASE DefineAndStart(v) \/ InsertRow(v)
  BY <1>3 DEF DefineAndStart, InsertRow
<1>4. CASE DeleteBegin(v) \/ DeleteStorage(v) \/ DeleteRow(v)
  BY <1>4 DEF DeleteBegin, DeleteStorage, DeleteRow
<1>5. CASE ListRows(v) \/ Teardown(v)
  BY <1>5 DEF ListRows, Teardown, InFlight
<1> QED BY <1>1, <1>2, <1>3, <1>4, <1>5 DEF Create, Delete

\* A prune, a new image at the mirror and a crash keep the types.
LEMMA TypeOther ==
  ASSUME TypeOK, Prune \/ Publish \/ Crash
  PROVE  TypeOK'
<1> USE DigestAssumption, AskerAssumption DEF TypeOK
<1>1. CASE PruneBegin \/ PruneUnlink
  BY <1>1 DEF PruneBegin, PruneUnlink
<1>2. ASSUME NEW v \in VM, PruneVisit(v)
      PROVE  TypeOK'
  BY <1>2 DEF PruneVisit
<1>3. CASE Publish
  BY <1>3 DEF Publish
<1>4. CASE Crash
  BY <1>4 DEF Crash, Rows
<1> QED BY <1>1, <1>2, <1>3, <1>4 DEF Prune

\* The state keeps its type.
THEOREM TypeCorrect == Spec => []TypeOK
<1>1. TypeOK /\ [Next]_vars => TypeOK'
  <2>1. TypeOK /\ Next => TypeOK'
    BY TypeAsk, TypeVM, TypeOther DEF Next
  <2>2. TypeOK /\ UNCHANGED vars => TypeOK'
    BY DEF TypeOK, vars
  <2> QED BY <2>1, <2>2
<1> QED BY TypeInit, <1>1, PTL DEF Spec

-----------------------------------------------------------------------------
(***************************************************************************)
(* Only published images back a disk: nor is anything else in the cache,   *)
(* or being fetched.                                                       *)
(***************************************************************************)
Signed ==
  /\ SignatureRequired =>
       /\ blobs \subseteq Published
       /\ \A x \in Asker : pc[x] = "download" => base[x] \in Published
  /\ OnlyPublished

\* A file enters the cache under the digest a signed manifest named.
LEMMA SignedStep ==
  ASSUME TypeOK, Signed, Next
  PROVE  Signed'
<1> USE DigestAssumption, SignatureAssumption DEF TypeOK, Signed, OnlyPublished
<1>1. ASSUME NEW x \in Asker, NEW force \in BOOLEAN, AskBegin(x, force)
      PROVE  Signed'
  BY <1>1 DEF AskBegin
<1>2. ASSUME NEW x \in Asker, Ask(x)
      PROVE  Signed'
  <2>1. SignatureRequired => Resolvable \subseteq Published
    BY DEF Resolvable
  <2>2. CASE Resolve(x)
    BY <2>1, <2>2 DEF Resolve
  <2>3. CASE ResolveTimesOut(x) \/ ResolveRefused(x)
    BY <2>3 DEF ResolveTimesOut, ResolveRefused
  <2>4. CASE Download(x)
    BY <2>4 DEF Download
  <2> QED BY <1>2, <2>2, <2>3, <2>4 DEF Ask
<1>3. ASSUME NEW v \in VM, Create(v)
      PROVE  Signed'
  BY <1>3 DEF Create, MakeOverlay, EnsureNetwork, DefineAndStart, InsertRow
<1>4. ASSUME NEW v \in VM, DeleteBegin(v) \/ Delete(v)
      PROVE  Signed'
  BY <1>4 DEF DeleteBegin, Delete, DeleteStorage, DeleteRow, ListRows, Teardown
<1>5. CASE Prune
  BY <1>5 DEF Prune, PruneBegin, PruneVisit, PruneUnlink
<1>6. CASE Publish \/ Crash
  BY <1>6 DEF Publish, Crash, Rows
<1> HIDE DEF TypeOK, Signed, OnlyPublished
<1> QED BY <1>1, <1>2, <1>3, <1>4, <1>5, <1>6 DEF Next

\* With a signature required, only published images back the disks of VMs.
THEOREM PublishedOnly == Spec => []OnlyPublished
<1>1. Init => Signed
  BY DEF Init, Signed, OnlyPublished
<1>2. TypeOK /\ Signed /\ [Next]_vars => Signed'
  <2>1. Signed /\ UNCHANGED vars => Signed'
    BY DEF vars, Signed, OnlyPublished
  <2> QED BY <2>1, SignedStep
<1>3. Signed => OnlyPublished
  BY DEF Signed
<1> QED BY TypeCorrect, <1>1, <1>2, <1>3, PTL DEF Spec

-----------------------------------------------------------------------------
(***************************************************************************)
(* A prune spares what backs a disk: of the disks it passed, the base is   *)
(* on its list, or it knows that it does not know.                         *)
(***************************************************************************)
PruneSees ==
  prunePc = "walk" /\ known =>
    \A v \in VM : overlay[v] # NoDigest =>
       v \in exposed \/ v \in toVisit \/ overlay[v] \in protected

Backed == OverlayBacked /\ PruneSees

\* A call about an image adds files and leaves the disks alone.
LEMMA BackedAsk ==
  ASSUME TypeOK, Backed, NEW x \in Asker,
         AskBegin(x, FALSE) \/ AskBegin(x, TRUE) \/ Ask(x)
  PROVE  Backed'
BY DEF TypeOK, Backed, OverlayBacked, PruneSees, AskBegin, Ask, Resolve, ResolveTimesOut,
       ResolveRefused, Download

\* A new disk has its base, and a prune that passed is remembered.
LEMMA BackedVM ==
  ASSUME TypeOK, Backed, NEW v \in VM, Create(v) \/ DeleteBegin(v) \/ Delete(v)
  PROVE  Backed'
<1> USE DEF TypeOK, Backed, OverlayBacked, PruneSees
<1>1. CASE MakeOverlay(v)
  BY <1>1 DEF MakeOverlay
<1>2. CASE DefineAndStart(v)
  BY <1>2 DEF DefineAndStart
<1>3. CASE EnsureNetwork(v) \/ InsertRow(v)
  BY <1>3 DEF EnsureNetwork, InsertRow
<1>4. CASE DeleteStorage(v)
  BY <1>4 DEF DeleteStorage
<1>5. CASE DeleteBegin(v) \/ DeleteRow(v) \/ ListRows(v) \/ Teardown(v)
  BY <1>5 DEF DeleteBegin, DeleteRow, ListRows, Teardown
<1> QED BY <1>1, <1>2, <1>3, <1>4, <1>5 DEF Create, Delete

\* A prune removes only what it knows to be unused.
LEMMA BackedOther ==
  ASSUME TypeOK, Backed, Prune \/ Publish \/ Crash
  PROVE  Backed'
<1> USE DEF TypeOK, Backed, OverlayBacked, PruneSees
<1>1. CASE PruneBegin
  BY <1>1 DEF PruneBegin
<1>2. ASSUME NEW v \in VM, PruneVisit(v)
      PROVE  Backed'
  BY <1>2 DEF PruneVisit
<1>3. CASE PruneUnlink
  BY <1>3 DEF PruneUnlink
<1>4. CASE Publish \/ Crash
  BY <1>4 DEF Publish, Crash
<1> QED BY <1>1, <1>2, <1>3, <1>4 DEF Prune

\* No disk loses its base to a prune, but one that was made behind its back.
THEOREM DisksKeepTheirBase == Spec => []OverlayBacked
<1>1. Init => Backed
  BY DEF Init, Backed, OverlayBacked, PruneSees
<1>2. TypeOK /\ Backed /\ [Next]_vars => Backed'
  <2>1. TypeOK /\ Backed /\ Next => Backed'
    BY BackedAsk, BackedVM, BackedOther DEF Next, Asker
  <2>2. Backed /\ UNCHANGED vars => Backed'
    BY DEF vars, Backed, OverlayBacked, PruneSees
  <2> QED BY <2>1, <2>2
<1>3. Backed => OverlayBacked
  BY DEF Backed
<1> QED BY TypeCorrect, <1>1, <1>2, <1>3, PTL DEF Spec

-----------------------------------------------------------------------------
(***************************************************************************)
(* What the metadata points to is there.                                   *)
(***************************************************************************)
PointerKept ==
  /\ CurrentCached
  /\ prunePc = "walk" /\ ~moved /\ current # NoDigest => current \in protected

\* The pointer moves to files that are there, and a prune spares the one it began with.
LEMMA PointerStep ==
  ASSUME TypeOK, PointerKept, Next
  PROVE  PointerKept'
<1> USE DigestAssumption DEF TypeOK, PointerKept, CurrentCached
<1>1. ASSUME NEW x \in Asker, NEW force \in BOOLEAN, AskBegin(x, force)
      PROVE  PointerKept'
  BY <1>1 DEF AskBegin
<1>2. ASSUME NEW x \in Asker, Ask(x)
      PROVE  PointerKept'
  <2>0. ASSUME NEW d, SetCurrent(d)
        PROVE  moved' <=> prunePc = "walk"
    BY <2>0
  <2>1. CASE Resolve(x)
    BY <2>0, <2>1 DEF Resolve
  <2>2. CASE ResolveTimesOut(x) \/ ResolveRefused(x)
    BY <2>2 DEF ResolveTimesOut, ResolveRefused
  <2>3. CASE Download(x)
    BY <2>0, <2>3 DEF Download
  <2> QED BY <1>2, <2>1, <2>2, <2>3 DEF Ask
<1>3. ASSUME NEW v \in VM, Create(v) \/ DeleteBegin(v) \/ Delete(v)
      PROVE  PointerKept'
  BY <1>3 DEF Create, MakeOverlay, EnsureNetwork, DefineAndStart, InsertRow,
              DeleteBegin, Delete, DeleteStorage, DeleteRow, ListRows, Teardown
<1>4. CASE Prune
  BY <1>4 DEF Prune, PruneBegin, PruneVisit, PruneUnlink
<1>5. CASE Publish \/ Crash
  BY <1>5 DEF Publish, Crash
<1> HIDE DEF TypeOK, PointerKept, CurrentCached
<1> QED BY <1>1, <1>2, <1>3, <1>4, <1>5 DEF Next

\* metadata.json names a file that is there, unless it was written during a prune.
THEOREM PointerNamesAFile == Spec => []CurrentCached
<1>1. Init => PointerKept
  BY DEF Init, PointerKept, CurrentCached
<1>2. TypeOK /\ PointerKept /\ [Next]_vars => PointerKept'
  <2>1. PointerKept /\ UNCHANGED vars => PointerKept'
    BY DEF vars, PointerKept, CurrentCached
  <2> QED BY <2>1, PointerStep
<1>3. PointerKept => CurrentCached
  BY DEF PointerKept
<1> QED BY TypeCorrect, <1>1, <1>2, <1>3, PTL DEF Spec

-----------------------------------------------------------------------------
(***************************************************************************)
(* A VM keeps its network: while a delete is about to remove it, every VM  *)
(* that relies on it is one the delete could not see.                      *)
(***************************************************************************)
Attached ==
  /\ NetworkKept
  /\ (\E w \in VM : pc[w] = "teardown") => \A v \in InFlight \cup Rows : v \in unseen

\* A call about an image changes nothing about the VMs that have a network.
LEMMA AttachedAsk ==
  ASSUME TypeOK, Attached, NEW x \in Asker,
         AskBegin(x, FALSE) \/ AskBegin(x, TRUE) \/ Ask(x)
  PROVE  Attached'
<1> USE DEF TypeOK, Attached, NetworkKept, InFlight, Rows
<1>1. CASE AskBegin(x, FALSE) \/ AskBegin(x, TRUE)
  BY <1>1 DEF AskBegin
<1>2. CASE Ask(x)
  BY <1>2 DEF Ask, Resolve, ResolveTimesOut, ResolveRefused, Download
<1> QED BY <1>1, <1>2

\* A create brings the network up, and its row is seen, or was not and is remembered.
LEMMA AttachedVM ==
  ASSUME TypeOK, Attached, NEW v \in VM, Create(v) \/ DeleteBegin(v) \/ Delete(v)
  PROVE  Attached'
<1> USE DEF TypeOK, Attached, NetworkKept, InFlight, Rows
<1>1. CASE MakeOverlay(v)
  BY <1>1 DEF MakeOverlay
<1>2. CASE EnsureNetwork(v)
  BY <1>2 DEF EnsureNetwork
<1>3. CASE DefineAndStart(v)
  BY <1>3 DEF DefineAndStart
<1>4. CASE InsertRow(v) \/ DeleteBegin(v) \/ DeleteStorage(v)
  BY <1>4 DEF InsertRow, DeleteBegin, DeleteStorage
<1>5. CASE DeleteRow(v)
  BY <1>5 DEF DeleteRow
<1>6. CASE ListRows(v)
  BY <1>6 DEF ListRows
<1>7. CASE Teardown(v)
  BY <1>7 DEF Teardown
<1> QED BY <1>1, <1>2, <1>3, <1>4, <1>5, <1>6, <1>7 DEF Create, Delete

\* A prune does not touch networks, and after a crash the rows are what they were.
LEMMA AttachedOther ==
  ASSUME TypeOK, Attached, Prune \/ Publish \/ Crash
  PROVE  Attached'
<1> USE DEF TypeOK, Attached, NetworkKept, InFlight, Rows
<1>1. CASE Prune
  BY <1>1 DEF Prune, PruneBegin, PruneVisit, PruneUnlink
<1>2. CASE Publish
  BY <1>2 DEF Publish
<1>3. CASE Crash
  BY <1>3 DEF Crash
<1> QED BY <1>1, <1>2, <1>3

\* A VM keeps its network, unless a delete could not see its row.
THEOREM VMsKeepTheirNetwork == Spec => []NetworkKept
<1>1. Init => Attached
  BY DEF Init, Attached, NetworkKept, InFlight, Rows
<1>2. TypeOK /\ Attached /\ [Next]_vars => Attached'
  <2>1. TypeOK /\ Attached /\ Next => Attached'
    BY AttachedAsk, AttachedVM, AttachedOther DEF Next, Asker
  <2>2. Attached /\ UNCHANGED vars => Attached'
    BY DEF vars, Attached, NetworkKept, InFlight, Rows
  <2> QED BY <2>1, <2>2
<1>3. Attached => NetworkKept
  BY DEF Attached
<1> QED BY TypeCorrect, <1>1, <1>2, <1>3, PTL DEF Spec

=============================================================================
