----------------------------- MODULE MCDispatch -----------------------------
(* Two routes that send at once and two that group, one of each pair with  *)
(* a dedup window of its own and one grouped route without.                *)
EXTENDS Dispatch
=============================================================================
