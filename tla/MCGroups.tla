------------------------------ MODULE MCGroups ------------------------------
(* Three signals of one key, a direct signal, and a flusher that races the *)
(* timers and the filling signals.  With groups of three, a signal can     *)
(* open, another join and a third fill, and a flush can make room for a    *)
(* younger group under an older one's timer.                               *)
EXTENDS Groups

CONSTANT k1

MCGroupOf == [m \in Members |-> k1]
=============================================================================
