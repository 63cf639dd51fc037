------------------------------ MODULE Lifecycle ------------------------------
(***************************************************************************)
(* One alert's life: the signals that trigger, acknowledge and resolve one *)
(* dedup key, sent by threads and processes that share the alert book      *)
(* (lifecycle.rs), and where each of them goes (prepare and lifecycle_plan *)
(* in lib.rs).                                                             *)
(*                                                                         *)
(* The book is read when a signal is planned and written after it was      *)
(* delivered; calls may overlap in between.  How one provider is retried   *)
(* is Delivery's subject: here it accepts the signal, accepts it while its *)
(* answer is lost, or does not get it.                                     *)
(***************************************************************************)
EXTENDS Naturals, FiniteSets

CONSTANTS
  Signals,     \* the signals sent for the key, one call each
  Providers,   \* every provider that was ever configured
  Known,       \* those the present pipeline has
  ByKey,       \* those that resolve by key on their own side
  Routed,      \* where the routes send a trigger
  OnRoutes     \* the providers of routes matching apart from severity

ASSUME LifecycleAssumption ==
  /\ Known \subseteq Providers /\ ByKey \subseteq Providers
  /\ Routed \subseteq OnRoutes /\ OnRoutes \subseteq Known

VARIABLES
  row,         \* the book's state of the alert for each provider
  action,      \* each signal's action, once it is sent
  stage,       \* where each call is
  targets,     \* the providers each signal is sent to
  left,        \* those of them still to be tried
  got,         \* those that accepted it, until the book is told
  alerted,     \* what the providers know: those that ever accepted a trigger
  holds,       \* and those holding an alert that is not resolved
  overlapped,  \* history: whether calls overlapped
  broken       \* history: whether an answer was lost, the book failed or a call died

vars == <<row, action, stage, targets, left, got, alerted, holds, overlapped, broken>>

Lifecycles == {"acknowledge", "resolve"}
UnderWay == {s \in Signals : stage[s] \in {"sending", "recording"}}

(* Alerts of providers that a reload has removed may be in the book.       *)
Init ==
  /\ \E old \in SUBSET (Providers \ Known) :
       /\ row = [p \in Providers |-> IF p \in old THEN "open" ELSE "absent"]
       /\ alerted = old
       /\ holds = old
  /\ action = [s \in Signals |-> "none"]
  /\ stage = [s \in Signals |-> "new"]
  /\ targets = [s \in Signals |-> {}]
  /\ left = [s \in Signals |-> {}]
  /\ got = [s \in Signals |-> {}]
  /\ overlapped = FALSE
  /\ broken = FALSE

(* open_alerts: the providers with an alert that is not resolved.          *)
OpenAlerts == {p \in Providers : row[p] \in {"open", "acknowledged"}}

(* Mutant of LifecyclePlan: with no record, every provider on the routes.  *)
LifecyclePlanAll(open) ==
  IF open \cap Known # {} THEN open \cap Known ELSE OnRoutes

(* lifecycle_plan.                                                         *)
LifecyclePlan(open) ==
  IF open \cap Known # {} THEN open \cap Known ELSE OnRoutes \cap ByKey

(* A signal with no target is settled at once and leaves the book alone.   *)
Send(s, a, T) ==
  /\ stage[s] = "new"
  /\ action' = [action EXCEPT ![s] = a]
  /\ stage' = [stage EXCEPT ![s] = IF T = {} THEN "done" ELSE "sending"]
  /\ targets' = [targets EXCEPT ![s] = T]
  /\ left' = [left EXCEPT ![s] = T]
  /\ overlapped' = (overlapped \/ UnderWay # {})
  /\ UNCHANGED <<row, got, alerted, holds>>

(* A trigger goes where the routes send it, or is held back by them.       *)
SendTrigger(s) ==
  /\ \E T \in {Routed, {}} : Send(s, "trigger", T)
  /\ UNCHANGED broken

(* An acknowledge or resolve goes where its alert is.  An error reading    *)
(* the book counts as no record.                                           *)
SendLifecycle(s) ==
  \E a \in Lifecycles :
    \/ Send(s, a, LifecyclePlan(OpenAlerts)) /\ UNCHANGED broken
    \/ Send(s, a, LifecyclePlan({})) /\ broken' = TRUE

(* External: what a provider knows after it accepted signal s.             *)
Learns(s, p) ==
  /\ alerted' = IF action[s] = "trigger" THEN alerted \union {p} ELSE alerted
  /\ holds' = CASE action[s] = "trigger" -> holds \union {p}
                [] action[s] = "acknowledge" -> holds
                [] action[s] = "resolve" -> holds \ {p}

(* One target's delivery is over: the provider accepted the signal; or the *)
(* delivery failed, was cut off, or got no answer, when the provider may   *)
(* have accepted it all the same.                                          *)
TargetEnds(s, p) ==
  /\ stage[s] = "sending"
  /\ p \in left[s]
  /\ left' = [left EXCEPT ![s] = @ \ {p}]
  /\ \/ got' = [got EXCEPT ![s] = @ \union {p}] /\ Learns(s, p) /\ UNCHANGED broken
     \/ Learns(s, p) /\ broken' = TRUE /\ UNCHANGED got
     \/ UNCHANGED <<got, alerted, holds, broken>>
  /\ UNCHANGED <<row, action, stage, targets, overlapped>>

DeliveryEnds(s) ==
  /\ stage[s] = "sending"
  /\ left[s] = {}
  /\ stage' = [stage EXCEPT ![s] = "recording"]
  /\ UNCHANGED <<row, action, targets, left, got, alerted, holds, overlapped, broken>>

(* The row record leaves for a provider that got the signal: a trigger     *)
(* inserts or reopens it, the others only update one.                      *)
StateAfter(s, p) ==
  CASE action[s] = "trigger" -> "open"
    [] action[s] \in Lifecycles /\ row[p] = "absent" -> "absent"
    [] action[s] = "acknowledge" /\ row[p] # "absent" -> "acknowledged"
    [] action[s] = "resolve" /\ row[p] # "absent" -> "resolved"

(* Mutant of Records: every target's row is written, whoever delivered.    *)
RecordsTargets(s, p) ==
  /\ stage[s] = "recording"
  /\ p \in got[s]
  /\ got' = [got EXCEPT ![s] = @ \ {p}]
  /\ row' = [q \in Providers |-> IF q \in targets[s] THEN StateAfter(s, q) ELSE row[q]]
  /\ UNCHANGED <<action, stage, targets, left, alerted, holds, overlapped, broken>>

(* record: one statement for each provider that got the signal; a write    *)
(* that fails is ignored.                                                  *)
Records(s, p) ==
  /\ stage[s] = "recording"
  /\ p \in got[s]
  /\ got' = [got EXCEPT ![s] = @ \ {p}]
  /\ \/ row' = [row EXCEPT ![p] = StateAfter(s, p)] /\ UNCHANGED broken
     \/ broken' = TRUE /\ UNCHANGED row
  /\ UNCHANGED <<action, stage, targets, left, alerted, holds, overlapped>>

Completes(s) ==
  /\ stage[s] = "recording"
  /\ got[s] = {}
  /\ stage' = [stage EXCEPT ![s] = "done"]
  /\ UNCHANGED <<row, action, targets, left, got, alerted, holds, overlapped, broken>>

(* The process of a call exits.                                            *)
Dies(s) ==
  /\ s \in UnderWay
  /\ stage' = [stage EXCEPT ![s] = "died"]
  /\ left' = [left EXCEPT ![s] = {}]
  /\ got' = [got EXCEPT ![s] = {}]
  /\ broken' = TRUE
  /\ UNCHANGED <<row, action, targets, alerted, holds, overlapped>>

Next ==
  \E s \in Signals :
    \/ SendTrigger(s) \/ SendLifecycle(s)
    \/ DeliveryEnds(s) \/ Completes(s) \/ Dies(s)
    \/ \E p \in Providers : TargetEnds(s, p) \/ Records(s, p)

Spec == Init /\ [][Next]_vars

-----------------------------------------------------------------------------

(* Types of the state.                                                     *)
TypeOK ==
  /\ row \in [Providers -> {"absent", "open", "acknowledged", "resolved"}]
  /\ action \in [Signals -> {"none", "trigger"} \union Lifecycles]
  /\ stage \in [Signals -> {"new", "sending", "recording", "done", "died"}]
  /\ targets \in [Signals -> SUBSET Known]
  /\ left \in [Signals -> SUBSET Known]
  /\ got \in [Signals -> SUBSET Known]
  /\ holds \subseteq alerted /\ alerted \subseteq Providers
  /\ overlapped \in BOOLEAN /\ broken \in BOOLEAN

(* A message provider is never sent an acknowledge or resolve of an alert  *)
(* it did not get, however calls overlap, fail or die: no "resolved" for   *)
(* alerts that never fired.                                                *)
NothingOutOfTheBlue ==
  \A s \in Signals :
    action[s] \in Lifecycles => targets[s] \subseteq alerted \union ByKey

(* As long as calls do not overlap and nothing breaks, the book forgets    *)
(* nobody who holds an unresolved alert; and whom it names besides resolve *)
(* by key, where an acknowledge came after the resolve.  Said of states of *)
(* the right types.                                                        *)
BookIsRight ==
  /\ TypeOK
  /\ ~overlapped /\ ~broken /\ UnderWay = {} =>
       /\ holds \subseteq OpenAlerts
       /\ \A p \in OpenAlerts \ holds : p \in ByKey /\ row[p] = "acknowledged"

Planned(s, a) == stage[s] = "new" /\ stage'[s] # "new" /\ action'[s] \in a

(* Likewise, an acknowledge or resolve goes to every present provider that *)
(* holds the alert, also to one an earlier resolve failed to reach, and to *)
(* no message provider besides.                                            *)
GoesToHolders ==
  [][\A s \in Signals : Planned(s, Lifecycles) /\ ~overlapped' /\ ~broken' =>
       /\ holds \cap Known \subseteq targets'[s]
       /\ targets'[s] \subseteq holds \union ByKey]_vars
=============================================================================
