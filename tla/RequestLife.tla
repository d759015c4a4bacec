----------------------------- MODULE RequestLife -----------------------------
(***************************************************************************)
(* What a caller of vm.request and vm.request_installer may rely on: a     *)
(* request is held, on its handler or in the queue, until it is served     *)
(* with one VM or dropped, and that is the end of it.                      *)
(***************************************************************************)
EXTENDS Naturals

CONSTANT Request

VARIABLES
  fate,   \* "new", "held", "served" or "dropped"
  vms     \* how many VMs were made for the request

Init ==
  /\ fate = [r \in Request |-> "new"]
  /\ vms = [r \in Request |-> 0]

Become(r, from, to) ==
  fate[r] = from /\ fate' = [fate EXCEPT ![r] = to]

Take(r) == Become(r, "new", "held") /\ UNCHANGED vms

Serve(r) == Become(r, "held", "served") /\ vms' = [vms EXCEPT ![r] = @ + 1]

\* a crash, like the end of a scan, may drop several at once
Drop(R) ==
  /\ \A r \in R : fate[r] = "held"
  /\ fate' = [r \in Request |-> IF r \in R THEN "dropped" ELSE fate[r]]
  /\ UNCHANGED vms

Next ==
  \/ \E r \in Request : Take(r) \/ Serve(r)
  \/ \E R \in SUBSET Request : Drop(R)

Spec == Init /\ [][Next]_<<fate, vms>>

=============================================================================
