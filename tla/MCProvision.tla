---------------------------- MODULE MCProvision ----------------------------
(* Small instances of Provision; the configurations give the sets. *)
EXTENDS Provision, TLC

CONSTANTS v1, v2, r1, d1, d2, bad

\* nothing tells the VMs apart, nor the published digests
Symmetry == Permutations({v1, v2}) \cup Permutations({d1, d2})

=============================================================================
