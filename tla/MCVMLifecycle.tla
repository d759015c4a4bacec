--------------------------- MODULE MCVMLifecycle ---------------------------
EXTENDS VMLifecycle, TLC

MCSymmetry == Permutations(Client) \cup Permutations(VM)
=============================================================================
