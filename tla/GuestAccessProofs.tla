-------------------------- MODULE GuestAccessProofs --------------------------
(***************************************************************************)
(* Proofs of the safety properties of GuestAccess, for any numbers of VMs, *)
(* calls and addresses.                                                    *)
(***************************************************************************)
EXTENDS GuestAccess, TLAPS

USE DEF Key, address, files, calls, Goto, Return, HasKey, AtWork, Stray, Answering

\* In the initial state there is nothing.
LEMMA TypeInit == Init => TypeOK
BY DEF Init, TypeOK

\* What happens to VMs keeps the types.
LEMMA TypeVM ==
  ASSUME TypeOK, NEW v \in VM,
         \/ \E withKey \in BOOLEAN : Create(v, withKey)
         \/ Lease(v) \/ Expire(v) \/ Look(v) \/ FindIp(v) \/ Delete(v)
         \/ \E a \in Addr : StoreIp(v, a)
  PROVE  TypeOK'
<1> USE DEF TypeOK
<1>1. ASSUME NEW withKey \in BOOLEAN, Create(v, withKey)
      PROVE  TypeOK'
  BY <1>1 DEF Create
<1>2. CASE Lease(v) \/ Expire(v)
  BY <1>2 DEF Lease, Expire
<1>3. CASE Look(v)
  BY <1>3 DEF Look
<1>4. CASE FindIp(v)
  <2>1. AddressOf(v) \subseteq Addr
    BY DEF AddressOf
  <2>2. found' \subseteq VM \X Addr
    BY <1>4, <2>1 DEF FindIp
  <2> QED BY <1>4, <2>2 DEF FindIp
<1>5. CASE Delete(v)
  BY <1>5 DEF Delete
<1>6. ASSUME NEW a \in Addr, StoreIp(v, a)
      PROVE  TypeOK'
  BY <1>6 DEF StoreIp
<1> QED BY <1>1, <1>2, <1>3, <1>4, <1>5, <1>6

\* Calls keep the types.
LEMMA TypeCall ==
  ASSUME TypeOK, NEW c \in Call, (\E v \in VM : SshAccess(c, v) \/ Command(c, v)) \/ Step(c)
  PROVE  TypeOK'
<1> USE KeyAssumption, NoneAssumption DEF TypeOK
<1>1. ASSUME NEW v \in VM, SshAccess(c, v)
      PROVE  TypeOK'
  BY <1>1 DEF SshAccess
<1>2. ASSUME NEW v \in VM, Command(c, v)
      PROVE  TypeOK'
  BY <1>2 DEF Command
<1>3. CASE KeygenChecks(c)
  <2>1. CASE priv[target[c]] = NoKey
    BY <1>3, <2>1 DEF KeygenChecks
  <2>2. CASE priv[target[c]] # NoKey
    BY <1>3, <2>2 DEF KeygenChecks
  <2> QED BY <2>1, <2>2
<1>4. CASE KeygenFails(c)
  BY <1>4 DEF KeygenFails
<1>5. CASE KeygenWrites(c)
  BY <1>5 DEF KeygenWrites
<1>6. CASE Read(c)
  BY <1>6 DEF Read
<1>7. CASE Install(c)
  BY <1>7 DEF Install
<1>8. CASE InstallFails(c)
  BY <1>8 DEF InstallFails
<1>9. CASE Connect(c)
  BY <1>9 DEF Connect
<1>10. CASE ConnectFails(c)
  BY <1>10 DEF ConnectFails
<1> QED BY <1>1, <1>2, <1>3, <1>4, <1>5, <1>6, <1>7, <1>8, <1>9, <1>10 DEF Step

\* The state keeps its type.
THEOREM TypeCorrect == Spec => []TypeOK
<1>1. TypeOK /\ [Next]_vars => TypeOK'
  <2>1. ASSUME TypeOK, Crash
        PROVE  TypeOK'
    BY <2>1 DEF TypeOK, Crash
  <2>2. TypeOK /\ UNCHANGED vars => TypeOK'
    BY DEF TypeOK, vars
  <2> QED BY <2>1, <2>2, TypeVM, TypeCall DEF Next
<1> QED BY TypeInit, <1>1, PTL DEF Spec

-----------------------------------------------------------------------------
(***************************************************************************)
(* Addresses: the row, what is on its way to it, and the calls name only   *)
(* addresses the VM has had.                                               *)
(***************************************************************************)
AddressInv ==
  /\ \A v \in VM : ip[v] \in held[v] \cup {NoAddr} /\ dhcp[v] \in held[v] \cup {NoAddr}
  /\ \A v \in VM, a \in Addr : <<v, a>> \in found => a \in held[v]
  /\ \A c \in Call : addr[c] # NoAddr => addr[c] \in held[target[c]]
  /\ RightGuest

\* What happens to VMs keeps the addresses right.
LEMMA AddressVM ==
  ASSUME TypeOK, AddressInv, NEW v \in VM,
         \/ \E withKey \in BOOLEAN : Create(v, withKey)
         \/ Lease(v) \/ Expire(v) \/ Look(v) \/ FindIp(v) \/ Delete(v)
         \/ \E a \in Addr : StoreIp(v, a)
  PROVE  AddressInv'
<1> USE NoneAssumption DEF TypeOK, AddressInv, RightGuest
<1>1. CASE Lease(v)
  <2>1. PICK a \in Addr : held' = [held EXCEPT ![v] = @ \cup {a}] /\ dhcp' = [dhcp EXCEPT ![v] = a]
    BY <1>1 DEF Lease
  <2>2. \A w \in VM : held[w] \subseteq held'[w]
    BY <2>1
  <2>3. UNCHANGED <<ip, found, addr, target, strayed>>
    BY <1>1 DEF Lease
  <2>4. \A w \in VM : dhcp'[w] \in held'[w] \cup {NoAddr}
    BY <2>1
  <2>5. \A c \in Call : addr'[c] # NoAddr => addr'[c] \in held'[target'[c]]
    BY <2>1, <2>2, <2>3
  <2>6. RightGuest'
    BY <2>2, <2>3
  <2> QED BY <2>2, <2>3, <2>4, <2>5, <2>6
<1>2. CASE FindIp(v)
  BY <1>2 DEF FindIp, AddressOf
<1>3. CASE Expire(v) \/ Look(v) \/ Delete(v)
  BY <1>3 DEF Expire, Look, Delete
<1>4. ASSUME NEW a \in Addr, StoreIp(v, a)
      PROVE  AddressInv'
  BY <1>4 DEF StoreIp
<1>5. ASSUME NEW withKey \in BOOLEAN, Create(v, withKey)
      PROVE  AddressInv'
  BY <1>5 DEF Create
<1> QED BY <1>1, <1>2, <1>3, <1>4, <1>5

\* Calls keep the addresses right.
LEMMA AddressCall ==
  ASSUME TypeOK, AddressInv, NEW c \in Call,
         (\E v \in VM : SshAccess(c, v) \/ Command(c, v)) \/ Step(c)
  PROVE  AddressInv'
<1> USE NoneAssumption DEF TypeOK, AddressInv, RightGuest
<1>1. ASSUME UNCHANGED <<address, target, strayed>>, UNCHANGED addr \/ addr' = [addr EXCEPT ![c] = NoAddr]
      PROVE  AddressInv'
  BY <1>1
<1>2. ASSUME NEW v \in VM, SshAccess(c, v) \/ Command(c, v)
      PROVE  AddressInv'
  <2>1. /\ target' = [target EXCEPT ![c] = v]
        /\ addr' = [addr EXCEPT ![c] = ip[v]] \/ addr' = [addr EXCEPT ![c] = NoAddr]
        /\ UNCHANGED <<address, strayed>>
    BY <1>2 DEF SshAccess, Command
  <2> QED BY <2>1
<1>3. CASE KeygenChecks(c) \/ KeygenFails(c)
  BY <1>1, <1>3 DEF KeygenChecks, KeygenFails
<1>4. CASE KeygenWrites(c) \/ Read(c)
  BY <1>1, <1>4 DEF KeygenWrites, Read
<1>5. CASE InstallFails(c) \/ ConnectFails(c)
  BY <1>1, <1>5 DEF InstallFails, ConnectFails
<1>6. CASE Install(c) \/ Connect(c)
  <2>1. UNCHANGED <<address, target>> /\ addr' = [addr EXCEPT ![c] = NoAddr]
    BY <1>6 DEF Install, Connect
  <2>2. target[c] \in VM /\ addr[c] \in held[target[c]]
    BY <1>6 DEF Install, Connect
  <2>3. strayed' \subseteq strayed \cup {<<target[c], addr[c]>>}
    BY <1>6 DEF Install, Connect
  <2>4. RightGuest'
    BY <2>1, <2>2, <2>3
  <2> QED BY <2>1, <2>4
<1> QED BY <1>2, <1>3, <1>4, <1>5, <1>6 DEF Step

\* What is done for a VM is done in its guest, or at an address it has lost.
THEOREM GuestsMeantOnly == Spec => []RightGuest
<1>1. Init => AddressInv
  BY DEF Init, AddressInv, RightGuest
<1>2. TypeOK /\ AddressInv /\ [Next]_vars => AddressInv'
  <2>1. ASSUME TypeOK, AddressInv, Crash
        PROVE  AddressInv'
    BY <2>1 DEF TypeOK, AddressInv, RightGuest, Crash
  <2>2. AddressInv /\ UNCHANGED vars => AddressInv'
    BY DEF AddressInv, RightGuest, vars
  <2> QED BY <2>1, <2>2, AddressVM, AddressCall DEF Next
<1>3. AddressInv => RightGuest
  BY DEF AddressInv
<1> QED BY <1>1, <1>2, <1>3, TypeCorrect, PTL DEF Spec

-----------------------------------------------------------------------------
(***************************************************************************)
(* No half key pair: whoever has written the first file is about to write  *)
(* the second, and what one removes the other one's second file completes. *)
(***************************************************************************)
\* Every step of a call keeps the pairs whole.
LEMMA HalfCall ==
  ASSUME TypeOK, NoHalfKey, NEW c \in Call,
         (\E v \in VM : SshAccess(c, v) \/ Command(c, v)) \/ Step(c)
  PROVE  NoHalfKey'
<1> USE KeyAssumption DEF TypeOK, NoHalfKey
<1>1. ASSUME UNCHANGED <<priv, pub, halved>>, pc[c] # "pub",
             \A k \in Call \ {c} : pc'[k] = pc[k] /\ target'[k] = target[k]
      PROVE  NoHalfKey'
  BY <1>1
<1>2. ASSUME NEW v \in VM, SshAccess(c, v) \/ Command(c, v)
      PROVE  NoHalfKey'
  BY <1>1, <1>2 DEF SshAccess, Command
<1>3. CASE KeygenChecks(c) \/ Read(c) \/ ConnectFails(c)
  BY <1>1, <1>3 DEF KeygenChecks, Read, ConnectFails
<1>4. CASE Install(c) \/ Connect(c)
  BY <1>1, <1>4 DEF Install, Connect
<1>5. CASE KeygenFails(c)
  <2>1. UNCHANGED <<priv, pub, target>> /\ \A k \in Call \ {c} : pc'[k] = pc[k]
    BY <1>5 DEF KeygenFails
  <2>2. halved \subseteq halved' /\ (pc[c] = "pub" => target[c] \in halved')
    BY <1>5 DEF KeygenFails
  <2> QED BY <2>1, <2>2
<1>6. CASE KeygenWrites(c)
  <2>1. target[c] \in VM /\ UNCHANGED <<halved, target>> /\ \A k \in Call \ {c} : pc'[k] = pc[k]
    BY <1>6 DEF KeygenWrites
  <2>2. \/ priv' = [priv EXCEPT ![target[c]] = c] /\ pub' = pub /\ pc'[c] = "pub" /\ pc[c] = "priv"
        \/ pub' = [pub EXCEPT ![target[c]] = c] /\ priv' = priv
    BY <1>6 DEF KeygenWrites
  <2>3. \A v \in VM \ {target[c]} : priv'[v] = priv[v] /\ pub'[v] = pub[v]
    BY <2>1, <2>2
  <2>4. c # NoKey
    OBVIOUS
  <2>5. ASSUME NEW v \in VM, priv'[v] # NoKey, pub'[v] = NoKey
        PROVE  v \in halved' \/ \E k \in Call : pc'[k] = "pub" /\ target'[k] = v
    <3>1. CASE v = target[c]
      BY <2>1, <2>2, <2>4, <2>5, <3>1
    <3>2. CASE v # target[c]
      BY <2>1, <2>3, <2>5, <3>2
    <3> QED BY <3>1, <3>2
  <2> QED BY <2>5
<1>7. CASE InstallFails(c)
  BY <1>7 DEF InstallFails
<1> QED BY <1>2, <1>3, <1>4, <1>5, <1>6, <1>7 DEF Step

\* No private key is left alone, but where a generation broke off.
THEOREM PairsWhole == Spec => []NoHalfKey
<1>1. Init => NoHalfKey
  BY DEF Init, NoHalfKey
<1>2. TypeOK /\ NoHalfKey /\ [Next]_vars => NoHalfKey'
  <2> SUFFICES ASSUME TypeOK, NoHalfKey, [Next]_vars
               PROVE  NoHalfKey'
    OBVIOUS
  <2>1. ASSUME UNCHANGED <<priv, pub, halved, pc, target>>
        PROVE  NoHalfKey'
    BY <2>1 DEF NoHalfKey
  <2>2. ASSUME NEW v \in VM,
               \/ \E withKey \in BOOLEAN : Create(v, withKey)
               \/ Lease(v) \/ Expire(v) \/ Look(v) \/ FindIp(v) \/ Delete(v)
               \/ \E a \in Addr : StoreIp(v, a)
        PROVE  NoHalfKey'
    <3>1. ASSUME NEW withKey \in BOOLEAN, Create(v, withKey)
          PROVE  NoHalfKey'
      BY <3>1, KeyAssumption DEF TypeOK, NoHalfKey, Create
    <3>2. CASE Delete(v)
      BY <3>2 DEF TypeOK, NoHalfKey, Delete
    <3>3. CASE Lease(v) \/ Expire(v) \/ Look(v) \/ FindIp(v) \/ \E a \in Addr : StoreIp(v, a)
      BY <2>1, <3>3 DEF Lease, Expire, Look, FindIp, StoreIp
    <3> QED BY <2>2, <3>1, <3>2, <3>3
  <2>3. CASE Crash
    BY <2>3 DEF TypeOK, NoHalfKey, Crash
  <2>4. CASE UNCHANGED vars
    BY <2>1, <2>4 DEF vars
  <2> QED BY <2>2, <2>3, <2>4, HalfCall DEF Next
<1> QED BY <1>1, <1>2, TypeCorrect, PTL DEF Spec

-----------------------------------------------------------------------------
(***************************************************************************)
(* Keys: a key in the directory is the guest's, or in doubt, or its maker  *)
(* is still at work, and has read it if it is about to install it.         *)
(***************************************************************************)
FileOf(v) ==
  \/ priv[v] = NoKey
  \/ priv[v] \in authorized[v]
  \/ priv[v] \in doubtful
  \/ /\ priv[v] \in Call /\ pc[priv[v]] \in {"pub", "read", "install"}
     /\ pc[priv[v]] = "install" => gotPriv[priv[v]] = priv[v]

MakerOf(v) ==
  priv[v] \in Call =>
    /\ pc[priv[v]] \in {"pub", "read", "install", "done"} /\ target[priv[v]] = v
    /\ pc[priv[v]] \in {"read", "install"} => pub[v] # NoKey

KeyInv ==
  /\ \A v \in VM : FileOf(v) /\ MakerOf(v)
  /\ \A v \in VM : vm[v] = "none" => \A c \in Call : target[c] # v
  /\ \A c \in Call : pc[c] # "done" => handed[c] = NoKey
  /\ \A c \in Call : pc[c] = "idle" => target[c] = NoVM
  /\ \A c \in Call : pc[c] = "install" => gotPriv[c] = gotPub[c] \/ gotPriv[c] \in doubtful
  /\ KeyAccepted

\* What happens to VMs keeps the keys in order.
LEMMA KeyVM ==
  ASSUME TypeOK, KeyInv, NEW v \in VM,
         \/ \E withKey \in BOOLEAN : Create(v, withKey)
         \/ Lease(v) \/ Expire(v) \/ Look(v) \/ FindIp(v) \/ Delete(v)
         \/ \E a \in Addr : StoreIp(v, a)
  PROVE  KeyInv'
<1> USE KeyAssumption, NoneAssumption DEF TypeOK, KeyInv, KeyAccepted, FileOf, MakerOf
<1>1. ASSUME UNCHANGED <<vm, priv, pub, authorized, pc, target, gotPriv, gotPub, handed, doubtful>>
      PROVE  KeyInv'
  BY <1>1
<1>2. ASSUME NEW withKey \in BOOLEAN, Create(v, withKey)
      PROVE  KeyInv'
  <2>1. /\ vm[v] = "none" /\ vm' = [vm EXCEPT ![v] = "up"]
        /\ UNCHANGED <<pc, target, gotPriv, gotPub, handed, doubtful>>
    BY <1>2 DEF Create
  <2>2. \A c \in Call : target[c] # v
    BY <2>1
  <2>3. \A w \in VM \ {v} : priv'[w] = priv[w] /\ pub'[w] = pub[w] /\ authorized'[w] = authorized[w]
    BY <1>2 DEF Create
  <2>4. \/ priv'[v] = v /\ authorized'[v] = {v}
        \/ priv'[v] = priv[v] /\ pub'[v] = pub[v] /\ authorized'[v] = authorized[v]
    BY <1>2 DEF Create
  <2>5. v \notin Call
    OBVIOUS
  <2>6. \A w \in VM : FileOf(w)' /\ MakerOf(w)'
    BY <2>1, <2>3, <2>4, <2>5
  <2>7. KeyAccepted'
    BY <2>1, <2>2, <2>3
  <2> QED BY <2>1, <2>6, <2>7
<1>3. CASE Delete(v)
  BY <1>3 DEF Delete
<1>4. CASE Lease(v) \/ Expire(v) \/ Look(v) \/ FindIp(v) \/ \E a \in Addr : StoreIp(v, a)
  BY <1>1, <1>4 DEF Lease, Expire, Look, FindIp, StoreIp
<1> QED BY <1>2, <1>3, <1>4

\* Beginning a call keeps the keys in order: a key that is handed out at once is the
\* guest's, or in doubt from now on.
LEMMA KeyBegin ==
  ASSUME TypeOK, KeyInv, NEW c \in Call, NEW v \in VM, SshAccess(c, v) \/ Command(c, v)
  PROVE  KeyInv'
<1> USE KeyAssumption, NoneAssumption DEF TypeOK, KeyInv, KeyAccepted, FileOf, MakerOf
<1>1. /\ pc[c] = "idle" /\ vm[v] = "up" /\ target' = [target EXCEPT ![c] = v]
      /\ pc'[c] \in {"keygen", "connect", "done"}
      /\ \A k \in Call \ {c} : pc'[k] = pc[k] /\ gotPriv'[k] = gotPriv[k]
                              /\ gotPub'[k] = gotPub[k] /\ handed'[k] = handed[k]
      /\ doubtful \subseteq doubtful' /\ UNCHANGED <<vm, files, authorized>>
  BY DEF SshAccess, Command
<1>2. \A w \in VM : priv[w] # c
  BY <1>1
<1>3. \A w \in VM : FileOf(w)' /\ MakerOf(w)'
  BY <1>1, <1>2
<1>4. handed'[c] = NoKey \/ handed'[c] \in authorized[v] \/ handed'[c] \in doubtful'
  <2>1. CASE handed'[c] = priv[v] /\ priv[v] # NoKey /\ SshAccess(c, v)
    BY <2>1 DEF SshAccess
  <2>2. CASE handed'[c] = NoKey
    BY <2>2
  <2> QED BY <2>1, <2>2 DEF SshAccess, Command
<1>5. pc'[c] # "done" => handed'[c] = NoKey
  BY DEF SshAccess, Command
<1> QED BY <1>1, <1>3, <1>4, <1>5

\* Generating a key pair keeps the keys in order.
LEMMA KeyGenerate ==
  ASSUME TypeOK, KeyInv, NEW c \in Call, KeygenChecks(c) \/ KeygenFails(c) \/ KeygenWrites(c)
  PROVE  KeyInv'
<1> USE KeyAssumption, NoneAssumption DEF TypeOK, KeyInv, KeyAccepted, FileOf, MakerOf
<1>1. CASE KeygenChecks(c)
  BY <1>1 DEF KeygenChecks
<1>2. CASE KeygenFails(c)
  <2>1. /\ pc'[c] = "done" /\ handed'[c] = NoKey /\ doubtful \subseteq doubtful'
        /\ pc[c] \in {"priv", "pub"} /\ (pc[c] = "pub" => c \in doubtful')
        /\ \A k \in Call \ {c} : pc'[k] = pc[k] /\ gotPriv'[k] = gotPriv[k]
                                /\ gotPub'[k] = gotPub[k] /\ handed'[k] = handed[k]
        /\ UNCHANGED <<vm, priv, pub, authorized, target>>
    BY <1>2 DEF KeygenFails
  <2>2. \A w \in VM : FileOf(w)' /\ MakerOf(w)'
    BY <2>1
  <2> QED BY <2>1, <2>2
<1>3. CASE KeygenWrites(c) /\ pc[c] = "priv"
  <2> DEFINE v == target[c]
  <2>1. /\ v \in VM /\ priv' = [priv EXCEPT ![v] = c] /\ pc' = [pc EXCEPT ![c] = "pub"]
        /\ UNCHANGED <<vm, pub, authorized, target, gotPriv, gotPub, handed, doubtful>>
    BY <1>3 DEF KeygenWrites
  <2>2. \A w \in VM : priv[w] # c
    BY <1>3
  <2>3. FileOf(v)' /\ MakerOf(v)'
    BY <2>1
  <2>4. ASSUME NEW w \in VM \ {v}
        PROVE  FileOf(w)' /\ MakerOf(w)'
    BY <2>1, <2>2
  <2> QED BY <1>3, <2>1, <2>3, <2>4
<1>4. CASE KeygenWrites(c) /\ pc[c] = "pub"
  <2> DEFINE v == target[c]
  <2>1. /\ v \in VM /\ pub' = [pub EXCEPT ![v] = c] /\ pc' = [pc EXCEPT ![c] = "read"]
        /\ UNCHANGED <<vm, priv, authorized, target, gotPriv, gotPub, handed, doubtful>>
    BY <1>4 DEF KeygenWrites
  <2>2. ASSUME NEW w \in VM
        PROVE  FileOf(w)' /\ MakerOf(w)'
    <3>1. FileOf(w)'
      BY <2>1
    <3>2. pub'[w] # NoKey \/ pub'[w] = pub[w]
      BY <2>1
    <3>3. priv[w] = c => w = v
      OBVIOUS
    <3> QED BY <2>1, <3>1, <3>2, <3>3
  <2> QED BY <1>4, <2>1, <2>2
<1> QED BY <1>1, <1>2, <1>3, <1>4 DEF KeygenWrites

\* Reading a key pair, and installing it, keep the keys in order.
LEMMA KeyInstall ==
  ASSUME TypeOK, KeyInv, NEW c \in Call, Read(c) \/ Install(c) \/ InstallFails(c)
  PROVE  KeyInv'
<1> USE KeyAssumption, NoneAssumption DEF TypeOK, KeyInv, KeyAccepted, FileOf, MakerOf
<1> DEFINE v == target[c]
<1>1. CASE Read(c) /\ ~HasKey(v)
  <2>1. /\ pc[c] = "read" /\ pc'[c] = "done" /\ handed'[c] = NoKey
        /\ \A k \in Call \ {c} : pc'[k] = pc[k] /\ gotPriv'[k] = gotPriv[k]
                                /\ gotPub'[k] = gotPub[k] /\ handed'[k] = handed[k]
        /\ UNCHANGED <<vm, priv, pub, authorized, target, doubtful>>
    BY <1>1 DEF Read
  <2>2. \A w \in VM : priv[w] # c
    BY <1>1, <2>1
  <2>3. \A w \in VM : FileOf(w)' /\ MakerOf(w)'
    BY <2>1, <2>2
  <2> QED BY <2>1, <2>3
<1>2. CASE Read(c) /\ HasKey(v)
  <2>1. /\ pc[c] = "read" /\ pc' = [pc EXCEPT ![c] = "install"]
        /\ gotPriv' = [gotPriv EXCEPT ![c] = priv[v]] /\ gotPub' = [gotPub EXCEPT ![c] = pub[v]]
        /\ doubtful \subseteq doubtful' /\ (priv[v] # pub[v] => priv[v] \in doubtful')
        /\ UNCHANGED <<vm, priv, pub, authorized, target, handed>>
    BY <1>2 DEF Read
  <2>2. \A w \in VM : priv[w] = c => w = v
    OBVIOUS
  <2>3. \A w \in VM : FileOf(w)' /\ MakerOf(w)'
    BY <2>1, <2>2
  <2> QED BY <2>1, <2>3
<1>3. CASE Install(c)
  <2>1. PICK w \in VM :
          \/ /\ authorized' = [authorized EXCEPT ![w] = @ \cup {gotPub[c]}]
             /\ doubtful' = IF w # v THEN doubtful \cup {gotPriv[c]} ELSE doubtful
          \/ doubtful' = doubtful \cup {gotPriv[c]} /\ UNCHANGED authorized
    BY <1>3 DEF Install
  <2>2. /\ pc[c] = "install" /\ pc'[c] = "done" /\ handed'[c] = gotPriv[c]
        /\ \A k \in Call \ {c} : pc'[k] = pc[k] /\ gotPriv'[k] = gotPriv[k]
                                /\ gotPub'[k] = gotPub[k] /\ handed'[k] = handed[k]
        /\ UNCHANGED <<vm, priv, pub, target>>
    BY <1>3 DEF Install
  <2>3. v \in VM /\ doubtful \subseteq doubtful' /\ \A u \in VM : authorized[u] \subseteq authorized'[u]
    BY <2>1, <2>2
  <2>4. gotPriv[c] \in authorized'[v] \/ gotPriv[c] \in doubtful'
    BY <2>1, <2>2
  <2>5. ASSUME NEW u \in VM
        PROVE  FileOf(u)' /\ MakerOf(u)'
    BY <2>2, <2>3, <2>4
  <2> QED BY <2>2, <2>3, <2>4, <2>5
<1>4. CASE InstallFails(c)
  <2>1. /\ pc[c] = "install" /\ pc'[c] = "done" /\ handed'[c] = NoKey /\ v \in VM
        /\ \A k \in Call \ {c} : pc'[k] = pc[k] /\ gotPriv'[k] = gotPriv[k]
                                /\ gotPub'[k] = gotPub[k] /\ handed'[k] = handed[k]
        /\ priv' = [priv EXCEPT ![v] = NoKey] /\ pub' = [pub EXCEPT ![v] = NoKey]
        /\ UNCHANGED <<vm, authorized, target, doubtful>>
    BY <1>4 DEF InstallFails
  <2>2. ASSUME NEW w \in VM
        PROVE  FileOf(w)' /\ MakerOf(w)'
    BY <2>1
  <2> QED BY <2>1, <2>2
<1> QED BY <1>1, <1>2, <1>3, <1>4

\* The guest lets in whoever was handed a key that is not in doubt.
THEOREM HandedKeysWork == Spec => []KeyAccepted
<1>1. Init => KeyInv
  BY KeyAssumption, NoneAssumption DEF Init, KeyInv, KeyAccepted, FileOf, MakerOf
<1>2. TypeOK /\ KeyInv /\ [Next]_vars => KeyInv'
  <2> SUFFICES ASSUME TypeOK, KeyInv, [Next]_vars
               PROVE  KeyInv'
    OBVIOUS
  <2>1. ASSUME NEW c \in Call, Connect(c) \/ ConnectFails(c)
        PROVE  KeyInv'
    BY <2>1, KeyAssumption
    DEF TypeOK, KeyInv, KeyAccepted, FileOf, MakerOf, Connect, ConnectFails
  <2>2. CASE Crash
    <3>1. /\ pc' = [c \in Call |-> IF pc[c] = "idle" THEN "idle" ELSE "done"]
          /\ doubtful' = doubtful \cup {c \in Call : AtWork(c)}
          /\ UNCHANGED <<vm, priv, pub, authorized, target, handed>>
      BY <2>2 DEF Crash
    <3>2. \A v \in VM : FileOf(v)' /\ MakerOf(v)'
      BY <3>1, KeyAssumption DEF TypeOK, KeyInv, FileOf, MakerOf
    <3>3. KeyAccepted'
      BY <3>1 DEF KeyInv, KeyAccepted
    <3> QED BY <3>1, <3>2, <3>3 DEF TypeOK, KeyInv
  <2>3. CASE UNCHANGED vars
    BY <2>3 DEF vars, KeyInv, KeyAccepted, FileOf, MakerOf
  <2> HIDE DEF AtWork
  <2> QED BY <2>1, <2>2, <2>3, KeyVM, KeyBegin, KeyGenerate, KeyInstall DEF Next, Step
<1>3. KeyInv => KeyAccepted
  BY DEF KeyInv
<1> QED BY <1>1, <1>2, <1>3, TypeCorrect, PTL DEF Spec

-----------------------------------------------------------------------------
(***************************************************************************)
(* Half pairs without failures of ssh-keygen and restarts: a generation    *)
(* breaks off only as the directory has gone, and the half with it.        *)
(***************************************************************************)
HalvedGone ==
  /\ \A v \in halved : vm[v] = "gone"
  /\ \A v \in VM : vm[v] # "up" => priv[v] = NoKey

LEMMA HalvedGoneStep ==
  ASSUME Faults \cap {"crash", "keygen"} = {}, TypeOK, HalvedGone, [Next]_vars
  PROVE  HalvedGone'
<1> USE DEF TypeOK, HalvedGone
<1>1. ASSUME NEW v \in VM,
             \/ \E withKey \in BOOLEAN : Create(v, withKey)
             \/ Lease(v) \/ Expire(v) \/ Look(v) \/ FindIp(v) \/ Delete(v)
      PROVE  HalvedGone'
  BY <1>1 DEF Create, Lease, Expire, Look, FindIp, Delete, files
<1>2. ASSUME NEW v \in VM, NEW a \in Addr, StoreIp(v, a)
      PROVE  HalvedGone'
  BY <1>2 DEF StoreIp, files
<1>3. ASSUME NEW c \in Call, NEW v \in VM, SshAccess(c, v) \/ Command(c, v)
      PROVE  HalvedGone'
  BY <1>3 DEF SshAccess, Command, files
<1>4. ASSUME NEW c \in Call, Step(c)
      PROVE  HalvedGone'
  <2>1. CASE KeygenFails(c)
    BY <2>1 DEF KeygenFails
  <2>2. CASE KeygenWrites(c)
    BY <2>2 DEF KeygenWrites, Goto
  <2>3. CASE InstallFails(c)
    BY <2>3 DEF InstallFails
  <2>4. CASE KeygenChecks(c) \/ Read(c) \/ Install(c) \/ Connect(c) \/ ConnectFails(c)
    BY <2>4 DEF KeygenChecks, Read, Install, Connect, ConnectFails, files
  <2> QED BY <1>4, <2>1, <2>2, <2>3, <2>4 DEF Step
<1>5. ~Crash
  BY DEF Crash
<1>6. CASE UNCHANGED vars
  BY <1>6 DEF vars, files
<1> QED BY <1>1, <1>2, <1>3, <1>4, <1>5, <1>6 DEF Next

\* While ssh-keygen writes what it can and boxerd stays up, a private key without its public
\* half is one whose generation is under way: neither a cleanup by another call nor the
\* delete of the VM leaves a half behind.
THEOREM HalvesUnderWay ==
  ASSUME Faults \cap {"crash", "keygen"} = {}
  PROVE  Spec => [](\A v \in VM : priv[v] # NoKey /\ pub[v] = NoKey =>
                      \E c \in Call : pc[c] = "pub" /\ target[c] = v)
<1>1. Init => HalvedGone
  BY DEF Init, HalvedGone
<1>2. TypeOK /\ HalvedGone /\ [Next]_vars => HalvedGone'
  BY HalvedGoneStep
<1>3. HalvedGone /\ NoHalfKey =>
        \A v \in VM : priv[v] # NoKey /\ pub[v] = NoKey =>
          \E c \in Call : pc[c] = "pub" /\ target[c] = v
  BY DEF HalvedGone, NoHalfKey
<1> QED BY PairsWhole, TypeCorrect, <1>1, <1>2, <1>3, PTL DEF Spec

=============================================================================
