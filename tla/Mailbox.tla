------------------------------- MODULE Mailbox -------------------------------
(***************************************************************************)
(* What a repository may rely on for its notices: they wait in the order   *)
(* they were made, are taken from the front, a few at a time, and none is  *)
(* told before it was taken; what was taken does not come back.            *)
(***************************************************************************)
EXTENDS Naturals, FiniteSets

CONSTANT Limit

VARIABLES
  made,      \* notices so far, numbered
  waiting,   \* those that nobody has taken
  told       \* those that have been told

Init == made = 0 /\ waiting = {} /\ told = {}

Post == made' = made + 1 /\ waiting' = waiting \cup {made + 1} /\ UNCHANGED told

\* the oldest ones; whoever takes them may still lose them
Take(S) ==
  /\ S \subseteq waiting /\ Cardinality(S) <= Limit
  /\ \A n \in S, m \in waiting \ S : n < m
  /\ waiting' = waiting \ S
  /\ UNCHANGED <<made, told>>

\* perhaps again
Tell(S) ==
  /\ S \subseteq (1..made) \ waiting
  /\ told' = told \cup S
  /\ UNCHANGED <<made, waiting>>

Next ==
  \/ Post
  \/ \E S \in SUBSET waiting : Take(S)
  \/ \E S \in SUBSET (1..made) : Tell(S)

Spec == Init /\ [][Next]_<<made, waiting, told>>

=============================================================================
