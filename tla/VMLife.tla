------------------------------- MODULE VMLife -------------------------------
(***************************************************************************)
(* The life of a VM that Boxer makes, as its row tells it: it is made      *)
(* once, recorded once, installs once if at all, and when its row is gone  *)
(* it is over for good.                                                    *)
(***************************************************************************)
CONSTANT VM

VARIABLE life

Stage == {"new", "making", "plain", "installing", "installed", "failed", "over"}
Recorded == {"plain", "installing", "installed", "failed"}

Init == life = [v \in VM |-> "new"]

Turn(v, from, to) ==
  /\ life[v] \in from
  /\ life' = [life EXCEPT ![v] = to]

Make(v) == Turn(v, {"new"}, "making")

\* with a system installed from an ISO, or ready to run
Record(v) == Turn(v, {"making"}, "installing") \/ Turn(v, {"making"}, "plain")

\* an install that is done may still turn out a failure, but none begins again
Settle(v) == Turn(v, {"installing"}, "installed") \/ Turn(v, {"installing", "installed"}, "failed")

\* VMs that were being made are given up, several at once when boxerd dies
GiveUp(S) ==
  /\ \A v \in S : life[v] = "making"
  /\ life' = [v \in VM |-> IF v \in S THEN "over" ELSE life[v]]

Drop(v) == Turn(v, Recorded, "over")

Next ==
  \/ \E v \in VM : Make(v) \/ Record(v) \/ Settle(v) \/ Drop(v)
  \/ \E S \in SUBSET VM : GiveUp(S)

Spec == Init /\ [][Next]_life

=============================================================================
