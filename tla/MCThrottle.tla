----------------------------- MODULE MCThrottle -----------------------------
(* Throttle with four sends by as many processes: two share a key, so that *)
(* one can duplicate the other, and with the keys of the other two there   *)
(* are more keys than the rate limit lets through at once.  Windows are a  *)
(* few clock units long, so that a row can be pruned while an older stamp  *)
(* is still to commit.                                                     *)
EXTENDS Throttle, TLC

CONSTANTS s1, s2, s3, s4, k1, k2, k3

MCSends == {s1, s2, s3, s4}
MCKeys == {k1, k2, k3}
MCKeyOf == (s1 :> k1) @@ (s2 :> k1) @@ (s3 :> k2) @@ (s4 :> k3)

(* No state holds a key: what matters is which sends share one.            *)
Symmetry ==
  {p \in Permutations(MCSends) :
     \A s, t \in MCSends : MCKeyOf[p[s]] = MCKeyOf[p[t]] <=> MCKeyOf[s] = MCKeyOf[t]}
=============================================================================
