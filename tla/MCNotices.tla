------------------------------ MODULE MCNotices ------------------------------
(* Small instances of Notices; the configuration gives the sets. *)
EXTENDS Notices

CONSTANTS c1, c2, w1, w2, e1

=============================================================================
