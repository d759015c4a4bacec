----------------------------- MODULE MCReconcile -----------------------------
(* Small instances of Reconcile; the configurations give the sets. *)
EXTENDS Reconcile, TLC

CONSTANTS v1, v2, f1, d1, i1, c1, c2

\* nothing tells the calls apart
Symmetry == Permutations(Client)

=============================================================================
