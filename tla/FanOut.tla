------------------------------- MODULE FanOut -------------------------------
(***************************************************************************)
(* What a delivery promises, apart from retries, providers and stores:     *)
(* each target is reached at most once, and the result is given once and   *)
(* says how many of the targets were reached by then.                      *)
(***************************************************************************)
CONSTANT Targets

VARIABLES reached, result

Init == reached = {} /\ result = "none"

Reach(t) ==
  /\ result = "none"
  /\ t \notin reached
  /\ reached' = reached \union {t}
  /\ UNCHANGED result

(* The result of a plan whose targets in R were reached.                   *)
StatusOf(R) ==
  IF Targets = {} THEN "skipped"
  ELSE IF R = Targets THEN "delivered"
  ELSE IF R = {} THEN "failed" ELSE "partial"

Conclude ==
  /\ result = "none"
  /\ result' = StatusOf(reached)
  /\ UNCHANGED reached

Next == (\E t \in Targets : Reach(t)) \/ Conclude

Spec == Init /\ [][Next]_<<reached, result>>
=============================================================================
