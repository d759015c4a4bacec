--------------------------- MODULE MCGuestAccess ---------------------------
(* Small instances of GuestAccess; the configuration gives the sets. *)
EXTENDS GuestAccess, TLC

CONSTANTS v1, v2, c1, c2, c3, a1, a2

\* VMs, calls and addresses are alike
Symmetry == Permutations(VM) \cup Permutations(Call) \cup Permutations(Addr)

=============================================================================
