----------------------------- MODULE GuestAccess -----------------------------
(***************************************************************************)
(* How boxerd gets into guests: the address a row names and the address    *)
(* the VM has, the ephemeral key pair in the directory of a VM, and the    *)
(* keys a guest lets in.                                                   *)
(*                                                                         *)
(* ssh-keygen runs in the thread pool and writes one file after the other; *)
(* commands go to whatever guest answers at the address, as host keys are  *)
(* not checked.  The VMs are those of one repository, on one network.      *)
(***************************************************************************)
EXTENDS FiniteSets

CONSTANTS
  VM, Call,      \* each call is made once
  Addr,          \* what dnsmasq leases on the network
  NoAddr, NoKey, NoVM,
  BoxerKey,      \* boxer_ssh_privkey_path exists, and every seed names its public half
  Faults         \* subset of {"crash", "keygen", "guest"}

ASSUME KeyAssumption  == VM \cap Call = {} /\ NoKey \notin VM \cup Call
ASSUME NoneAssumption == NoAddr \notin Addr /\ NoVM \notin VM
ASSUME BoxerKeyAssumption == BoxerKey \in BOOLEAN

VARIABLES
  vm,          \* the row of each VM: "none" yet, "up" or "gone"
  ip,          \* ip_address of the row
  dhcp,        \* the address the VM has
  looking,     \* VMs whose address a task or a call polls for
  found,       \* addresses found and not yet written to the row
  priv, pub,   \* the keys in ephemeral_ed25519 and ephemeral_ed25519.pub
  authorized,  \* keys each guest lets in
  pc, target, addr,      \* of a call: what it awaits, its VM, the address it read
  gotPriv, gotPub,       \* and the key material it read
  handed,      \* the private key a finished ssh_access returned
  doubtful,    \* history: keys that were out before their installation was certain
  halved,      \* history: VMs whose key generation broke off after the first file
  held,        \* history: addresses each VM has had
  strayed      \* history: VMs and addresses for which another guest answered

address == <<ip, dhcp, looking, found, held>>
files   == <<priv, pub, halved>>
calls   == <<pc, target, addr, gotPriv, gotPub, handed>>
vars    == <<vm, address, files, authorized, calls, doubtful, strayed>>

\* a key is known by the call, or the create, that generates it
Key == Call \cup VM

\* One type invariant for the module.
TypeOK ==
  /\ vm \in [VM -> {"none", "up", "gone"}]
  /\ ip \in [VM -> Addr \cup {NoAddr}] /\ dhcp \in [VM -> Addr \cup {NoAddr}]
  /\ looking \subseteq VM /\ found \subseteq VM \X Addr
  /\ priv \in [VM -> Key \cup {NoKey}] /\ pub \in [VM -> Key \cup {NoKey}]
  /\ authorized \in [VM -> SUBSET Key]
  /\ pc \in [Call -> {"idle", "keygen", "priv", "pub", "read", "install", "connect", "done"}]
  /\ target \in [Call -> VM \cup {NoVM}]
  /\ \A c \in Call : pc[c] \notin {"idle", "done"} => target[c] \in VM /\ addr[c] \in Addr
  /\ addr \in [Call -> Addr \cup {NoAddr}]
  /\ gotPriv \in [Call -> Key \cup {NoKey}] /\ gotPub \in [Call -> Key \cup {NoKey}]
  /\ \A c \in Call : pc[c] = "install" => gotPriv[c] \in Key /\ gotPub[c] \in Key
  /\ handed \in [Call -> Key \cup {NoKey}]
  /\ \A c \in Call : handed[c] # NoKey => target[c] \in VM
  /\ doubtful \subseteq Key /\ halved \subseteq VM
  /\ held \in [VM -> SUBSET Addr] /\ strayed \subseteq VM \X Addr

Init ==
  /\ vm = [v \in VM |-> "none"]
  /\ ip = [v \in VM |-> NoAddr] /\ dhcp = [v \in VM |-> NoAddr]
  /\ looking = {} /\ found = {}
  /\ priv = [v \in VM |-> NoKey] /\ pub = [v \in VM |-> NoKey]
  /\ authorized = [v \in VM |-> {}]
  /\ pc = [c \in Call |-> "idle"] /\ target = [c \in Call |-> NoVM]
  /\ addr = [c \in Call |-> NoAddr]
  /\ gotPriv = [c \in Call |-> NoKey] /\ gotPub = [c \in Call |-> NoKey]
  /\ handed = [c \in Call |-> NoKey]
  /\ doubtful = {} /\ halved = {} /\ held = [v \in VM |-> {}] /\ strayed = {}

-----------------------------------------------------------------------------
(***************************************************************************)
(* VMs and their addresses.                                                *)
(***************************************************************************)
\* with ssh_access a key pair is made before the seed, which authorizes it
Create(v, withKey) ==
  /\ vm[v] = "none" /\ vm' = [vm EXCEPT ![v] = "up"]
  /\ looking' = looking \cup {v}
  /\ IF withKey
       THEN /\ priv' = [priv EXCEPT ![v] = v] /\ pub' = [pub EXCEPT ![v] = v]
            /\ authorized' = [authorized EXCEPT ![v] = {v}]
       ELSE UNCHANGED <<priv, pub, authorized>>
  /\ UNCHANGED <<ip, dhcp, found, held, halved, calls, doubtful, strayed>>

\* dnsmasq, when the guest boots or asks again
Lease(v) ==
  /\ vm[v] = "up" /\ dhcp[v] = NoAddr
  /\ \E a \in Addr \ {dhcp[w] : w \in VM} :
       dhcp' = [dhcp EXCEPT ![v] = a] /\ held' = [held EXCEPT ![v] = @ \cup {a}]
  /\ UNCHANGED <<vm, ip, looking, found, files, authorized, calls, doubtful, strayed>>

\* the lease of a guest that was shut down, or lost its network, runs out
Expire(v) ==
  /\ dhcp[v] # NoAddr /\ dhcp' = [dhcp EXCEPT ![v] = NoAddr]
  /\ UNCHANGED <<vm, ip, looking, found, held, files, authorized, calls, doubtful, strayed>>

\* vm.start, vm.restart and the end of an install look for the address, and so do vm.get
\* and the lease scan if the row has none
Look(v) ==
  /\ vm[v] = "up" /\ looking' = looking \cup {v}
  /\ UNCHANGED <<vm, ip, dhcp, found, held, files, authorized, calls, doubtful, strayed>>

\* mutant: a lease of the network, whosever it is
AddressOf_AnyLease(v) == {dhcp[w] : w \in VM} \ {NoAddr}

\* get_ip_via_guest_agent: the guest agent of the domain, or the lease of its MAC
AddressOf(v) == {dhcp[v]} \ {NoAddr}

FindIp(v) ==
  /\ v \in looking
  /\ \/ \E a \in AddressOf(v) : found' = found \cup {<<v, a>>}
     \/ UNCHANGED found \* timed out
  /\ looking' = looking \ {v}
  /\ UNCHANGED <<vm, ip, dhcp, held, files, authorized, calls, doubtful, strayed>>

\* update_vm_ip: WHERE id=?
StoreIp(v, a) ==
  /\ <<v, a>> \in found /\ found' = found \ {<<v, a>>}
  /\ ip' = IF vm[v] = "up" THEN [ip EXCEPT ![v] = a] ELSE ip
  /\ UNCHANGED <<vm, dhcp, looking, held, files, authorized, calls, doubtful, strayed>>

\* vm.delete and the lease scan take the directory along
Delete(v) ==
  /\ vm[v] = "up" /\ vm' = [vm EXCEPT ![v] = "gone"]
  /\ priv' = [priv EXCEPT ![v] = NoKey] /\ pub' = [pub EXCEPT ![v] = NoKey]
  /\ ip' = [ip EXCEPT ![v] = NoAddr] /\ dhcp' = [dhcp EXCEPT ![v] = NoAddr]
  /\ UNCHANGED <<looking, found, held, halved, authorized, calls, doubtful, strayed>>

-----------------------------------------------------------------------------
(***************************************************************************)
(* vm.ssh_access.                                                          *)
(***************************************************************************)
Goto(c, p) ==
  /\ pc' = [pc EXCEPT ![c] = p]
  /\ UNCHANGED <<addr, gotPriv, gotPub, handed>>

\* the call is over, with a private key for its caller, or without
Return(c, k) ==
  /\ pc' = [pc EXCEPT ![c] = "done"] /\ handed' = [handed EXCEPT ![c] = k]
  /\ addr' = [addr EXCEPT ![c] = NoAddr]
  /\ gotPriv' = [gotPriv EXCEPT ![c] = NoKey] /\ gotPub' = [gotPub EXCEPT ![c] = NoKey]

HasKey(v) == priv[v] # NoKey /\ pub[v] # NoKey

AtWork(k) == pc[k] \in {"priv", "pub", "read", "install"}

\* Who finds a key pair gets it at once, also if another call has yet to install it;
\* without create=True the others get an error
SshAccess(c, v) ==
  /\ pc[c] = "idle" /\ vm[v] = "up" /\ target' = [target EXCEPT ![c] = v]
  /\ \/ /\ HasKey(v) /\ Return(c, priv[v])
        /\ doubtful' = IF \E k \in Call : k = priv[v] /\ AtWork(k)
                         THEN doubtful \cup {priv[v]} ELSE doubtful
     \/ /\ ~HasKey(v) /\ ip[v] # NoAddr
        /\ pc' = [pc EXCEPT ![c] = "keygen"] /\ addr' = [addr EXCEPT ![c] = ip[v]]
        /\ UNCHANGED <<gotPriv, gotPub, handed, doubtful>>
     \/ ~HasKey(v) /\ Return(c, NoKey) /\ UNCHANGED doubtful
  /\ UNCHANGED <<vm, address, files, authorized, strayed>>

\* ssh-keygen asks before it overwrites, and nobody answers
KeygenChecks(c) ==
  /\ pc[c] = "keygen"
  /\ IF priv[target[c]] = NoKey THEN Goto(c, "priv") ELSE Return(c, NoKey)
  /\ UNCHANGED <<vm, address, files, authorized, target, doubtful, strayed>>

\* it cannot write, as the directory is gone, or for another reason
KeygenFails(c) ==
  /\ pc[c] \in {"priv", "pub"} /\ (vm[target[c]] = "gone" \/ "keygen" \in Faults)
  /\ Return(c, NoKey)
  /\ IF pc[c] = "pub"
       THEN doubtful' = doubtful \cup {c} /\ halved' = halved \cup {target[c]}
       ELSE UNCHANGED <<doubtful, halved>>
  /\ UNCHANGED <<vm, address, priv, pub, authorized, target, strayed>>

KeygenWrites(c) ==
  LET v == target[c] IN
  /\ pc[c] \in {"priv", "pub"} /\ vm[v] = "up"
  /\ \/ pc[c] = "priv" /\ priv' = [priv EXCEPT ![v] = c] /\ UNCHANGED pub /\ Goto(c, "pub")
     \/ pc[c] = "pub" /\ pub' = [pub EXCEPT ![v] = c] /\ UNCHANGED priv /\ Goto(c, "read")
  /\ UNCHANGED <<vm, address, halved, authorized, target, doubtful, strayed>>

\* mutant: what is not there is read as empty
Read_Unchecked(c) ==
  LET v == target[c] IN
  /\ pc[c] = "read"
  /\ gotPriv' = [gotPriv EXCEPT ![c] = priv[v]] /\ gotPub' = [gotPub EXCEPT ![c] = pub[v]]
  /\ pc' = [pc EXCEPT ![c] = "install"]
  /\ UNCHANGED <<vm, address, files, authorized, target, addr, handed, doubtful, strayed>>

\* two generations at a time may leave the private key of one and the public of the other
Read(c) ==
  LET v == target[c] IN
  /\ pc[c] = "read"
  /\ IF HasKey(v)
       THEN /\ gotPriv' = [gotPriv EXCEPT ![c] = priv[v]]
            /\ gotPub' = [gotPub EXCEPT ![c] = pub[v]]
            /\ doubtful' = IF priv[v] # pub[v] THEN doubtful \cup {priv[v]} ELSE doubtful
            /\ pc' = [pc EXCEPT ![c] = "install"] /\ UNCHANGED <<addr, handed>>
       ELSE Return(c, NoKey) /\ UNCHANGED doubtful
  /\ UNCHANGED <<vm, address, files, authorized, target, strayed>>

\* the guests that answer at the address a call has read
Answering(c) == {w \in VM : dhcp[w] = addr[c]}

Stray(c, w) ==
  strayed' = IF w # target[c] THEN strayed \cup {<<target[c], addr[c]>>} ELSE strayed

\* The exit status of the command is not looked at
Install(c) ==
  /\ pc[c] = "install" /\ BoxerKey
  /\ \E w \in Answering(c) :
       /\ Stray(c, w)
       /\ \/ /\ authorized' = [authorized EXCEPT ![w] = @ \cup {gotPub[c]}]
             /\ doubtful' = IF w # target[c] THEN doubtful \cup {gotPriv[c]} ELSE doubtful
          \/ /\ "guest" \in Faults
             /\ doubtful' = doubtful \cup {gotPriv[c]} /\ UNCHANGED authorized
  /\ Return(c, gotPriv[c])
  /\ UNCHANGED <<vm, address, files, target>>

\* mutant: the private key is left behind
InstallFails_KeepsPrivate(c) ==
  /\ pc[c] = "install" /\ Return(c, NoKey)
  /\ pub' = [pub EXCEPT ![target[c]] = NoKey]
  /\ UNCHANGED <<vm, address, priv, halved, authorized, target, doubtful, strayed>>

\* mutant: a failure is reported, and that is all
InstallFails_KeepsFiles(c) ==
  /\ pc[c] = "install" /\ Return(c, NoKey)
  /\ UNCHANGED <<vm, address, files, authorized, target, doubtful, strayed>>

\* no key of boxer's, no answer, a timeout: the files go, whoever's they are by now
InstallFails(c) ==
  /\ pc[c] = "install" /\ Return(c, NoKey)
  /\ priv' = [priv EXCEPT ![target[c]] = NoKey] /\ pub' = [pub EXCEPT ![target[c]] = NoKey]
  /\ UNCHANGED <<vm, address, halved, authorized, target, doubtful, strayed>>

-----------------------------------------------------------------------------
(***************************************************************************)
(* vm.exec, vm.push_files, vm.pull and guest.*: _guest_target, _connect,   *)
(* and a command.                                                          *)
(***************************************************************************)
\* what it knows of the key is its path
Command(c, v) ==
  /\ pc[c] = "idle" /\ vm[v] = "up" /\ ip[v] # NoAddr
  /\ target' = [target EXCEPT ![c] = v] /\ addr' = [addr EXCEPT ![c] = ip[v]]
  /\ gotPriv' = [gotPriv EXCEPT ![c] = IF HasKey(v) THEN priv[v] ELSE NoKey]
  /\ pc' = [pc EXCEPT ![c] = "connect"]
  /\ UNCHANGED <<vm, address, files, authorized, gotPub, handed, doubtful, strayed>>

\* Boxer's own key opens every guest, the ephemeral one, as the file is when the call
\* connects, those that know it
LetsIn(w, c) == BoxerKey \/ (gotPriv[c] # NoKey /\ priv[target[c]] \in authorized[w])

\* until the deadline of wait_ssh_seconds, with the address the call began with
Connect(c) ==
  /\ pc[c] = "connect" /\ Return(c, NoKey)
  /\ \E w \in Answering(c) : LetsIn(w, c) /\ Stray(c, w)
  /\ UNCHANGED <<vm, address, files, authorized, target, doubtful>>

ConnectFails(c) ==
  /\ pc[c] = "connect" /\ Return(c, NoKey)
  /\ UNCHANGED <<vm, address, files, authorized, target, doubtful, strayed>>

\* The files stay, with whatever boxerd and its ssh-keygen had done by then
Crash ==
  /\ "crash" \in Faults
  /\ pc' = [c \in Call |-> IF pc[c] = "idle" THEN "idle" ELSE "done"]
  /\ doubtful' = doubtful \cup {c \in Call : AtWork(c)}
  /\ halved' = halved \cup {target[c] : c \in {k \in Call : pc[k] = "pub"}}
  /\ looking' = {} /\ found' = {} /\ addr' = [c \in Call |-> NoAddr]
  /\ gotPriv' = [c \in Call |-> NoKey] /\ gotPub' = [c \in Call |-> NoKey]
  /\ UNCHANGED <<vm, ip, dhcp, held, priv, pub, authorized, target, handed, strayed>>

-----------------------------------------------------------------------------
Step(c) ==
  \/ KeygenChecks(c) \/ KeygenFails(c) \/ KeygenWrites(c) \/ Read(c)
  \/ Install(c) \/ InstallFails(c) \/ Connect(c) \/ ConnectFails(c)

Next ==
  \/ \E v \in VM : (\E withKey \in BOOLEAN : Create(v, withKey))
                   \/ Lease(v) \/ Expire(v) \/ Look(v) \/ FindIp(v) \/ Delete(v)
  \/ \E v \in VM, a \in Addr : StoreIp(v, a)
  \/ \E c \in Call : (\E v \in VM : SshAccess(c, v) \/ Command(c, v)) \/ Step(c)
  \/ Crash

Spec == Init /\ [][Next]_vars

-----------------------------------------------------------------------------
(***************************************************************************)
(* Properties.                                                             *)
(***************************************************************************)
\* The guest lets in whoever was handed a key, unless the key was handed out while the call
\* that made it was still at work, or boxerd died then, or two generations were mixed up, or
\* the command did not do in the guest what it should (_h_vm_ssh_access reads has_key long
\* before the key is installed, and the files stay behind a crash).
KeyAccepted ==
  \A c \in Call : handed[c] # NoKey =>
    handed[c] \in authorized[target[c]] \/ handed[c] \in doubtful

\* No private key is left alone in the directory, where it would make every later
\* ssh-keygen refuse, but by a generation that broke off (ensure_keypair, and the cleanup
\* of a failed installation by another call meanwhile).
NoHalfKey ==
  \A v \in VM : priv[v] # NoKey /\ pub[v] = NoKey =>
    v \in halved \/ \E c \in Call : pc[c] = "pub" /\ target[c] = v

\* A command for a VM, or its key, gets into another guest only at an address the VM itself
\* once had and lost (ip_address is a copy, and calls go on with the copy they read).
RightGuest == \A s \in strayed : s[2] \in held[s[1]]

=============================================================================
