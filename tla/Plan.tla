-------------------------------- MODULE Plan --------------------------------
(***************************************************************************)
(* How the routes decide where a trigger goes (plan_with, routing.rs): one *)
(* pass over them, and within a route over its providers.  What a route    *)
(* matches on is not modelled, only whether it does.  `admit` is the       *)
(* route's history (Throttle); here it may answer either way.              *)
(***************************************************************************)
EXTENDS Naturals, Sequences

CONSTANTS
  Names,        \* provider names
  Console,      \* the one that is always configured
  Routes,       \* the routes a config can have
  MaxRoutes     \* bound on how many it has

(* A route: its providers, its mode, whether it matches the signal, whether*)
(* it groups, and whether its history is asked about (gates_signals).  The *)
(* config is refused if one lists no providers (config.rs:573).            *)
ASSUME PlanAssumption ==
  /\ Console \in Names
  /\ Routes \subseteq [providers : Seq(Names) \ {<<>>}, fanout : BOOLEAN, matches : BOOLEAN,
                       grouped : BOOLEAN, gated : BOOLEAN]
  /\ MaxRoutes \in Nat

VARIABLES
  routes,      \* the config's routes
  i, j,        \* the route at hand, and how many of its providers are done
  targets,     \* the plan so far
  failover,    \* which target the failover routes share, 0 if none yet
  suppressed,  \* routes that were turned down
  grouped,     \* routes that hold the signal for a digest
  fallback,    \* whether the signal went to the console for want of a route
  done

vars == <<routes, i, j, targets, failover, suppressed, grouped, fallback, done>>

RangeOf(s) == {s[k] : k \in DOMAIN s}
Placed == UNION {RangeOf(targets[k]) : k \in DOMAIN targets}

Init ==
  /\ \E n \in 0 .. MaxRoutes : routes \in [1 .. n -> Routes]
  /\ i = 1 /\ j = 0
  /\ targets = <<>>
  /\ failover = 0
  /\ suppressed = {} /\ grouped = {}
  /\ fallback = FALSE
  /\ done = FALSE

Here == i <= Len(routes)

NextRoute == i' = i + 1 /\ j' = 0

PassBy ==
  /\ Here /\ ~routes[i].matches
  /\ NextRoute
  /\ UNCHANGED <<routes, targets, failover, suppressed, grouped, fallback, done>>

TurnDown ==
  /\ Here /\ routes[i].matches /\ routes[i].gated /\ j = 0
  /\ suppressed' = suppressed \union {i}
  /\ NextRoute
  /\ UNCHANGED <<routes, targets, failover, grouped, fallback, done>>

HoldForDigest ==
  /\ Here /\ routes[i].matches /\ routes[i].grouped
  /\ grouped' = grouped \union {i}
  /\ NextRoute
  /\ UNCHANGED <<routes, targets, failover, suppressed, fallback, done>>

(* Mutant of Place: a later failover route starts a target of its own, as  *)
(* if `failover` were not remembered.                                      *)
PlaceApart(n, fanout) ==
  \/ /\ fanout \/ failover = 0 \/ j = 0
     /\ targets' = Append(targets, <<n>>)
     /\ failover' = IF fanout THEN failover ELSE Len(targets) + 1
  \/ /\ ~fanout /\ failover # 0 /\ j # 0
     /\ targets' = [t \in DOMAIN targets |->
                      IF t = failover THEN Append(targets[t], n) ELSE targets[t]]
     /\ UNCHANGED failover

(* Where a provider not in the plan yet goes: a target of its own, or the  *)
(* one that every failover route shares.                                   *)
Place(n, fanout) ==
  \/ /\ fanout
     /\ targets' = Append(targets, <<n>>)
     /\ UNCHANGED failover
  \/ /\ ~fanout /\ failover = 0
     /\ targets' = Append(targets, <<n>>)
     /\ failover' = Len(targets) + 1
  \/ /\ ~fanout /\ failover # 0
     /\ targets' = [t \in DOMAIN targets |->
                      IF t = failover THEN Append(targets[t], n) ELSE targets[t]]
     /\ UNCHANGED failover

(* Mutant of TakeProvider: only the target at hand is searched for the     *)
(* name.                                                                   *)
TakeProviderLocal ==
  /\ Here /\ routes[i].matches /\ ~routes[i].grouped
  /\ j < Len(routes[i].providers)
  /\ LET n == routes[i].providers[j + 1] IN
     IF targets # <<>> /\ n \in RangeOf(targets[Len(targets)])
     THEN UNCHANGED <<targets, failover>>
     ELSE Place(n, routes[i].fanout)
  /\ j' = j + 1
  /\ UNCHANGED <<routes, i, suppressed, grouped, fallback, done>>

TakeProvider ==
  /\ Here /\ routes[i].matches /\ ~routes[i].grouped
  /\ j < Len(routes[i].providers)
  /\ LET n == routes[i].providers[j + 1] IN
     IF n \in Placed
     THEN UNCHANGED <<targets, failover>>
     ELSE Place(n, routes[i].fanout)
  /\ j' = j + 1
  /\ UNCHANGED <<routes, i, suppressed, grouped, fallback, done>>

RouteTaken ==
  /\ Here /\ routes[i].matches /\ ~routes[i].grouped
  /\ j = Len(routes[i].providers)
  /\ NextRoute
  /\ UNCHANGED <<routes, targets, failover, suppressed, grouped, fallback, done>>

(* Mutant of Finish: an empty plan falls back whatever the reason.         *)
FinishAlways ==
  /\ ~Here /\ ~done
  /\ done' = TRUE
  /\ fallback' = (targets = <<>>)
  /\ targets' = IF fallback' THEN << <<Console>> >> ELSE targets
  /\ UNCHANGED <<routes, i, j, failover, suppressed, grouped>>

(* The console takes a signal no route matched.                            *)
Finish ==
  /\ ~Here /\ ~done
  /\ done' = TRUE
  /\ fallback' = (targets = <<>> /\ suppressed = {} /\ grouped = {})
  /\ targets' = IF fallback' THEN << <<Console>> >> ELSE targets
  /\ UNCHANGED <<routes, i, j, failover, suppressed, grouped>>

Next ==
  PassBy \/ TurnDown \/ HoldForDigest \/ TakeProvider \/ RouteTaken \/ Finish

Spec == Init /\ [][Next]_vars

-----------------------------------------------------------------------------

(* Types of the state.                                                     *)
TypeOK ==
  /\ routes \in Seq(Routes)
  /\ i \in 1 .. Len(routes) + 1
  /\ j \in Nat /\ (Here => j <= Len(routes[i].providers))
  /\ targets \in Seq(Seq(Names))
  /\ failover \in 0 .. Len(targets)
  /\ suppressed \subseteq 1 .. Len(routes) /\ grouped \subseteq 1 .. Len(routes)
  /\ fallback \in BOOLEAN /\ done \in BOOLEAN

(* The plan of a finished pass, as the documentation of `plan` has it.     *)
Taken == {r \in DOMAIN routes :
            routes[r].matches /\ ~routes[r].grouped /\ r \notin suppressed}
Slots == UNION {{<<r, k>> : k \in DOMAIN routes[r].providers} : r \in Taken}
NameAt(s) == routes[s[1]].providers[s[2]]
Before(s, t) == s[1] < t[1] \/ (s[1] = t[1] /\ s[2] < t[2])
Firsts == {s \in Slots : \A t \in Slots : Before(t, s) => NameAt(t) # NameAt(s)}
Chained == {s \in Firsts : ~routes[s[1]].fanout}
Single(s) == routes[s[1]].fanout \/ \A t \in Chained : ~Before(t, s)

InOrder(chain, slots) ==
  /\ RangeOf(chain) = {NameAt(s) : s \in slots}
  /\ \A s, t \in slots : Before(s, t) =>
       \E a, b \in DOMAIN chain : a < b /\ chain[a] = NameAt(s) /\ chain[b] = NameAt(t)

(* Each provider counts where the routes name it first, and nowhere else:  *)
(* however routes overlap, none gets the signal twice.  A fan-out route's  *)
(* are targets of their own, all the failover routes' are one target, and  *)
(* targets stand in the order of their first providers.                    *)
PlanIsAsDocumented ==
  /\ \A s, t \in DOMAIN targets : \A a \in DOMAIN targets[s], b \in DOMAIN targets[t] :
       targets[s][a] = targets[t][b] => s = t /\ a = b
  /\ done /\ ~fallback =>
       LET Heads == {s \in Firsts : Single(s)} IN
       /\ InOrder([t \in DOMAIN targets |-> targets[t][1]], Heads)
       /\ \A t \in DOMAIN targets :
            \/ \E s \in Firsts \ Chained : targets[t] = <<NameAt(s)>>
            \/ InOrder(targets[t], Chained)

(* A signal never disappears: without a target, some matching route turned *)
(* it down or holds it; and the console stands in for routes that do not   *)
(* match, never for ones that turned the signal down.  Said of states of   *)
(* the right types.                                                        *)
NeverSilent ==
  /\ TypeOK
  /\ done =>
       /\ targets = <<>> => \E r \in suppressed \union grouped : routes[r].matches
       /\ fallback <=> \A r \in DOMAIN routes : ~routes[r].matches
=============================================================================
