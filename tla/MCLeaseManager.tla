--------------------------- MODULE MCLeaseManager ---------------------------
(* Small instances of LeaseManager; the configurations give the sets. *)
EXTENDS LeaseManager

CONSTANTS v1, v2, c1, c2

=============================================================================
