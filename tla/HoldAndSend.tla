---------------------------- MODULE HoldAndSend ----------------------------
(***************************************************************************)
(* What grouping promises, apart from how it is done: a held signal goes   *)
(* out exactly once, together with signals of its own group only, in a     *)
(* batch of at most MaxGroupSize, and it does go out.                      *)
(***************************************************************************)
EXTENDS Naturals, FiniteSets

CONSTANTS Members, GroupOf, MaxGroupSize

VARIABLE where   \* "out", "held" or "sent", for each signal

Init == where = [m \in Members |-> "out"]

Hold(m) ==
  /\ where[m] = "out"
  /\ where' = [where EXCEPT ![m] = "held"]

Send(B) ==
  /\ B # {}
  /\ \A m \in B : where[m] = "held"
  /\ \A m, n \in B : GroupOf[m] = GroupOf[n]
  /\ Cardinality(B) <= MaxGroupSize
  /\ where' = [m \in Members |-> IF m \in B THEN "sent" ELSE where[m]]

Next ==
  \/ \E m \in Members : Hold(m)
  \/ \E B \in SUBSET Members : Send(B)

SendOf(m) == \E B \in SUBSET Members : m \in B /\ Send(B)

Safety == Init /\ [][Next]_where
Spec == Safety /\ \A m \in Members : WF_where(SendOf(m))
=============================================================================
