----------------------------- MODULE MCAdmission -----------------------------
(***************************************************************************)
(* Three requests.  r1 says nothing of its size, so the runner guesses     *)
(* less than the catalog's default; r2 is as large, and says so.           *)
(***************************************************************************)
EXTENDS Admission

CONSTANTS r1, r2, p1

MCSize  == [r \in Request |-> IF r \in {r1, r2} THEN 2 ELSE 1]
MCGuess == [r \in Request |-> IF r = r2 THEN 2 ELSE 1]

OneProject == [r \in Request |-> p1]

=============================================================================
