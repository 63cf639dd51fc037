----------------------------- MODULE MCDelivery -----------------------------
(* Two targets: a failover chain of two providers with one the pipeline    *)
(* does not know between them, and a provider on its own.                  *)
EXTENDS Delivery

CONSTANTS slack, email, gone, pager

TwoTargets == << <<slack, gone, email>>, <<pager>> >>
=============================================================================
