---------------------------- MODULE MCEmulators ----------------------------
(* Small instances of Emulators; the configurations give the sets. *)
EXTENDS Emulators, TLC

CONSTANTS a1, a2, a3, c1, c2

\* nothing tells the devices apart, nor the calls
Symmetry == Permutations(Device) \cup Permutations(Client)

=============================================================================
