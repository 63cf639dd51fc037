----------------------------- MODULE AlertProofs -----------------------------
(***************************************************************************)
(* The alert book, for any signals, providers, callers and configs: how    *)
(* calls and answers may overlap (module Lifecycle), and what a sequence   *)
(* of calls makes the services and people see (module Requests).           *)
(*                                                                         *)
(* Lifecycle's inductive invariant is TypeOK /\ Calls /\ NamesTheAlerted   *)
(* /\ Undisturbed, and the property NothingOutOfTheBlue itself.  Two facts *)
(* carry it.  The book names only providers that accepted a trigger,       *)
(* because a row is only ever inserted for one that did.  And while        *)
(* nothing is disturbed, at most one call is under way and the book is     *)
(* right about every provider but those that have accepted its trigger or  *)
(* resolve and are not recorded yet.                                       *)
(*                                                                         *)
(* Requests' is RequestInv.  A key that opened an incident has a row, and  *)
(* the incident's id is as much of the key as the service reads, so that   *)
(* without a clash an incident is its own key's; Slack's row refers to its *)
(* own key's message; what is sent, held or digested says something.       *)
(***************************************************************************)
EXTENDS Lifecycle, Requests, FiniteSetTheorems, TLAPS


(* A call's providers, and that nothing is known of one not sent.          *)
Calls ==
  \A s \in Signals :
    /\ got[s] \subseteq targets[s] /\ left[s] \subseteq targets[s]
    /\ stage[s] \in {"new", "done", "died"} => got[s] = {}
    /\ stage[s] = "new" <=> action[s] = "none"

(* Whom the book names got a trigger.                                      *)
NamesTheAlerted ==
  /\ \A p \in Providers : row[p] # "absent" => p \in alerted
  /\ \A s \in Signals : action[s] = "trigger" => got[s] \subseteq alerted

(* The book is right about p.                                              *)
RightAbout(p) ==
  /\ p \in holds => row[p] \in {"open", "acknowledged"}
  /\ row[p] \in {"open", "acknowledged"} /\ p \notin holds =>
       p \in ByKey /\ row[p] = "acknowledged"

Undisturbed ==
  ~overlapped /\ ~broken =>
    /\ \A s, t \in UnderWay : s = t
    /\ \A s \in UnderWay : action[s] = "acknowledge" => targets[s] \subseteq holds \union ByKey
    /\ \A s \in Signals : \A p \in got[s] :
         /\ action[s] = "trigger" => p \in holds
         /\ action[s] = "resolve" => p \notin holds
    /\ \A p \in Providers :
         (\A s \in Signals : p \in got[s] => action[s] = "acknowledge") => RightAbout(p)

IInv == TypeOK /\ Calls /\ NamesTheAlerted /\ NothingOutOfTheBlue /\ Undisturbed

(* What record leaves.                                                     *)
LEMMA StatesAfter ==
  ASSUME TypeOK, NEW s \in Signals, NEW p \in Providers, action[s] # "none"
  PROVE  /\ StateAfter(s, p) \in {"absent", "open", "acknowledged", "resolved"}
         /\ action[s] = "trigger" => StateAfter(s, p) = "open"
         /\ action[s] # "trigger" /\ row[p] = "absent" => StateAfter(s, p) = "absent"
         /\ action[s] = "acknowledge" /\ row[p] # "absent" => StateAfter(s, p) = "acknowledged"
         /\ action[s] = "resolve" /\ row[p] # "absent" => StateAfter(s, p) = "resolved"
  <1>1. action[s] \in {"trigger", "acknowledge", "resolve"}
    BY DEF TypeOK, Lifecycles
  <1>2. CASE action[s] = "trigger"
    BY <1>2 DEF StateAfter, Lifecycles
  <1>3. CASE action[s] = "acknowledge"
    BY <1>3 DEF StateAfter, Lifecycles
  <1>4. CASE action[s] = "resolve"
    BY <1>4 DEF StateAfter, Lifecycles
  <1> QED
    BY <1>1, <1>2, <1>3, <1>4

(* What a provider knows after it accepted a signal.                       *)
LEMMA WhatIsLearnt ==
  ASSUME TypeOK, NEW s \in Signals, NEW p \in Providers, action[s] # "none", Learns(s, p)
  PROVE  /\ action[s] = "trigger" =>
              alerted' = alerted \union {p} /\ holds' = holds \union {p}
         /\ action[s] = "acknowledge" => alerted' = alerted /\ holds' = holds
         /\ action[s] = "resolve" => alerted' = alerted /\ holds' = holds \ {p}
         /\ action[s] \in {"trigger", "acknowledge", "resolve"}
  <1>1. action[s] \in {"trigger", "acknowledge", "resolve"}
    BY DEF TypeOK, Lifecycles
  <1>2. CASE action[s] = "trigger"
    BY <1>2 DEF Learns
  <1>3. CASE action[s] = "acknowledge"
    BY <1>3 DEF Learns
  <1>4. CASE action[s] = "resolve"
    BY <1>4 DEF Learns
  <1> QED
    BY <1>1, <1>2, <1>3, <1>4

(* A plan stays with the present providers.                                *)
LEMMA PlanKnown ==
  ASSUME NEW holders \in SUBSET Providers
  PROVE  /\ LifecyclePlan(holders) \subseteq Known
         /\ LifecyclePlan(holders) \subseteq holders \union ByKey
         /\ holders \cap Known \subseteq LifecyclePlan(holders)
  BY LifecycleAssumption DEF LifecyclePlan

LEMMA InitInv == Init => IInv
  <1> SUFFICES ASSUME Init PROVE IInv
    OBVIOUS
  <1> USE LifecycleAssumption
  <1>1. PICK old \in SUBSET (Providers \ Known) :
          /\ row = [p \in Providers |-> IF p \in old THEN "open" ELSE "absent"]
          /\ alerted = old /\ holds = old
    BY DEF Init
  <1>2. TypeOK
    BY <1>1 DEF Init, TypeOK
  <1>3. Calls
    BY DEF Init, Calls
  <1>4. NamesTheAlerted /\ NothingOutOfTheBlue
    BY <1>1 DEF Init, NamesTheAlerted, NothingOutOfTheBlue, Lifecycles
  <1>5. Undisturbed
    BY <1>1 DEF Init, Undisturbed, UnderWay, RightAbout
  <1> QED
    BY <1>2, <1>3, <1>4, <1>5 DEF IInv

(* How a call begins, whatever it is.                                      *)
LEMMA Begins ==
  ASSUME IInv, NEW s \in Signals, NEW a \in {"trigger"} \union Lifecycles,
         NEW T \in SUBSET Known, Send(s, a, T),
         broken' \in BOOLEAN, broken => broken',
         a \in Lifecycles => T \subseteq alerted \union ByKey,
         ~overlapped' /\ ~broken' /\ a = "acknowledge" => T \subseteq holds \union ByKey
  PROVE  IInv'
  <1> USE LifecycleAssumption DEF Send
  <1>1. TypeOK'
    BY DEF IInv, TypeOK
  <1>2. Calls'
    BY DEF IInv, TypeOK, Calls, Lifecycles
  <1>3. NamesTheAlerted'
    BY DEF IInv, TypeOK, Calls, NamesTheAlerted
  <1>4. NothingOutOfTheBlue'
    BY DEF IInv, TypeOK, NothingOutOfTheBlue, Lifecycles
  <1>5. Undisturbed'
    <2> SUFFICES ASSUME ~overlapped', ~broken'
                 PROVE  /\ (\A q, t \in UnderWay : q = t)'
                        /\ (\A t \in UnderWay : action[t] = "acknowledge" =>
                              targets[t] \subseteq holds \union ByKey)'
                        /\ (\A q \in Signals : \A p \in got[q] :
                              /\ action[q] = "trigger" => p \in holds
                              /\ action[q] = "resolve" => p \notin holds)'
                        /\ (\A p \in Providers :
                              (\A q \in Signals : p \in got[q] => action[q] = "acknowledge")
                                => RightAbout(p))'
      BY DEF Undisturbed
    <2>1. ~overlapped /\ ~broken /\ UnderWay = {}
      BY DEF IInv, TypeOK
    <2>2. \A t \in Signals : got[t] = {} /\ got'[t] = {}
      BY <2>1 DEF IInv, TypeOK, Calls, UnderWay
    <2>3. \A p \in Providers : RightAbout(p)
      BY <2>1, <2>2 DEF IInv, Undisturbed
    <2>4. \A t \in UnderWay' : t = s
      BY <2>1 DEF IInv, TypeOK, UnderWay
    <2>5. \A p \in Providers : RightAbout(p)'
      BY <2>3 DEF RightAbout
    <2> QED
      BY <2>2, <2>4, <2>5 DEF IInv, TypeOK
  <1> QED
    BY <1>1, <1>2, <1>3, <1>4, <1>5 DEF IInv

(* An acknowledge or resolve of undisturbed calls goes to the holders.     *)
LEMMA PlansHolders ==
  ASSUME IInv, ~overlapped, ~broken, UnderWay = {}
  PROVE  /\ holds \cap Known \subseteq LifecyclePlan(OpenAlerts)
         /\ LifecyclePlan(OpenAlerts) \subseteq holds \union ByKey
  <1>1. \A t \in Signals : got[t] = {}
    BY DEF IInv, TypeOK, Calls, UnderWay
  <1>2. \A p \in Providers : RightAbout(p)
    BY <1>1 DEF IInv, Undisturbed
  <1>3. holds \subseteq OpenAlerts /\ OpenAlerts \subseteq holds \union ByKey
    BY <1>2 DEF RightAbout, OpenAlerts, IInv, TypeOK
  <1> QED
    BY <1>3, PlanKnown DEF OpenAlerts

LEMMA SendStep ==
  ASSUME IInv, NEW s \in Signals, SendTrigger(s) \/ SendLifecycle(s)
  PROVE  IInv'
  <1>1. CASE SendTrigger(s)
    BY <1>1, Begins, LifecycleAssumption DEF SendTrigger, IInv, TypeOK, Lifecycles
  <1>2. CASE SendLifecycle(s)
    <2>1. PICK a \in Lifecycles :
            \/ Send(s, a, LifecyclePlan(OpenAlerts)) /\ UNCHANGED broken
            \/ Send(s, a, LifecyclePlan({})) /\ broken' = TRUE
      BY <1>2 DEF SendLifecycle
    <2>2. CASE Send(s, a, LifecyclePlan(OpenAlerts)) /\ UNCHANGED broken
      <3>1. OpenAlerts \subseteq alerted /\ OpenAlerts \in SUBSET Providers
        BY DEF OpenAlerts, IInv, NamesTheAlerted
      <3>2. LifecyclePlan(OpenAlerts) \subseteq alerted \union ByKey
        BY <3>1, PlanKnown
      <3>3. ~overlapped' => ~overlapped /\ UnderWay = {}
        BY <2>2 DEF Send, IInv, TypeOK
      <3>4. ~overlapped' /\ ~broken' => LifecyclePlan(OpenAlerts) \subseteq holds \union ByKey
        BY <2>2, <3>3, PlansHolders
      <3> QED
        BY <2>2, <3>1, <3>2, <3>4, PlanKnown, Begins DEF IInv, TypeOK
    <2>3. CASE Send(s, a, LifecyclePlan({})) /\ broken' = TRUE
      <3>1. LifecyclePlan({}) \subseteq Known /\ LifecyclePlan({}) \subseteq ByKey
        BY PlanKnown
      <3> QED
        BY <2>3, <3>1, Begins
    <2> QED
      BY <2>1, <2>2, <2>3
  <1> QED
    BY <1>1, <1>2

LEMMA TargetStep ==
  ASSUME IInv, NEW s \in Signals, NEW p \in Providers, TargetEnds(s, p)
  PROVE  IInv'
  <1> USE LifecycleAssumption
  <1>1. action[s] # "none" /\ p \in targets[s] /\ p \in Known /\ s \in UnderWay
    BY DEF TargetEnds, IInv, TypeOK, Calls, UnderWay
  <1>2. TypeOK
    BY DEF IInv
  <1>3. /\ UNCHANGED <<row, action, stage, targets, overlapped>>
        /\ left' = [left EXCEPT ![s] = @ \ {p}]
    BY DEF TargetEnds
  <1>4. CASE got' = [got EXCEPT ![s] = @ \union {p}] /\ Learns(s, p) /\ UNCHANGED broken
    <2>1. /\ action[s] = "trigger" => alerted' = alerted \union {p} /\ holds' = holds \union {p}
          /\ action[s] = "acknowledge" => alerted' = alerted /\ holds' = holds
          /\ action[s] = "resolve" => alerted' = alerted /\ holds' = holds \ {p}
          /\ action[s] \in {"trigger", "acknowledge", "resolve"}
      BY <1>1, <1>2, <1>4, WhatIsLearnt
    <2>2. TypeOK'
      BY <1>1, <1>2, <1>3, <1>4, <2>1 DEF TypeOK
    <2>3. Calls'
      BY <1>1, <1>3, <1>4 DEF TargetEnds, IInv, TypeOK, Calls
    <2>4. NamesTheAlerted'
      BY <1>3, <1>4, <2>1 DEF IInv, TypeOK, NamesTheAlerted
    <2>5. NothingOutOfTheBlue'
      BY <1>3, <2>1 DEF IInv, NothingOutOfTheBlue
    <2>6. Undisturbed'
      <3> SUFFICES ASSUME ~overlapped, ~broken PROVE Undisturbed'
        BY <1>3, <1>4 DEF Undisturbed, IInv, TypeOK
      <3>1. \A t \in UnderWay : t = s
        BY <1>1 DEF IInv, Undisturbed
      <3>2. \A t \in Signals : t # s => got[t] = {} /\ got'[t] = {}
        BY <3>1, <1>4 DEF IInv, TypeOK, Calls, UnderWay
      <3>3. UnderWay' = UnderWay
        BY <1>3 DEF UnderWay
      <3>4. ASSUME NEW q \in Providers,
                   \A t \in Signals : q \in got'[t] => action'[t] = "acknowledge"
            PROVE  RightAbout(q)'
        <4>1. RightAbout(q)
          BY <1>3, <1>4, <3>4 DEF IInv, TypeOK, Undisturbed
        <4>2. CASE action[s] = "acknowledge"
          BY <1>3, <2>1, <4>1, <4>2 DEF RightAbout
        <4>3. CASE action[s] # "acknowledge"
          <5>1. q # p
            BY <1>3, <1>4, <3>4, <4>3 DEF IInv, TypeOK
          <5> QED
            BY <5>1, <1>3, <2>1, <4>1 DEF RightAbout
        <4> QED
          BY <4>2, <4>3
      <3>5. \A t \in Signals : \A q \in got'[t] :
              /\ action'[t] = "trigger" => q \in holds'
              /\ action'[t] = "resolve" => q \notin holds'
        <4> SUFFICES ASSUME NEW q \in got'[s]
                     PROVE  /\ action'[s] = "trigger" => q \in holds'
                            /\ action'[s] = "resolve" => q \notin holds'
          BY <3>2
        <4> QED
          BY <1>3, <1>4, <2>1 DEF IInv, TypeOK, Undisturbed
      <3>6. \A t \in UnderWay' : action'[t] = "acknowledge" =>
              targets'[t] \subseteq holds' \union ByKey
        BY <1>3, <2>1, <3>1, <3>3 DEF IInv, Undisturbed
      <3> QED
        BY <3>1, <3>3, <3>4, <3>5, <3>6 DEF Undisturbed
    <2> QED
      BY <2>2, <2>3, <2>4, <2>5, <2>6 DEF IInv
  <1>5. CASE Learns(s, p) /\ broken' = TRUE /\ UNCHANGED got
    <2>1. /\ action[s] = "trigger" => alerted' = alerted \union {p} /\ holds' = holds \union {p}
          /\ action[s] = "acknowledge" => alerted' = alerted /\ holds' = holds
          /\ action[s] = "resolve" => alerted' = alerted /\ holds' = holds \ {p}
          /\ action[s] \in {"trigger", "acknowledge", "resolve"}
      BY <1>1, <1>2, <1>5, WhatIsLearnt
    <2>2. TypeOK'
      BY <1>1, <1>2, <1>3, <1>5, <2>1 DEF TypeOK
    <2>3. Calls'
      BY <1>1, <1>3, <1>5 DEF IInv, TypeOK, Calls
    <2>4. NamesTheAlerted' /\ NothingOutOfTheBlue'
      BY <1>3, <1>5, <2>1 DEF IInv, TypeOK, NamesTheAlerted, NothingOutOfTheBlue
    <2> QED
      BY <1>5, <2>2, <2>3, <2>4 DEF IInv, Undisturbed
  <1>6. CASE UNCHANGED <<got, alerted, holds, broken>>
    <2>1. TypeOK' /\ Calls'
      BY <1>2, <1>3, <1>6 DEF IInv, TypeOK, Calls
    <2>2. NamesTheAlerted' /\ NothingOutOfTheBlue'
      BY <1>3, <1>6 DEF IInv, NamesTheAlerted, NothingOutOfTheBlue
    <2>3. Undisturbed'
      BY <1>3, <1>6 DEF IInv, Undisturbed, UnderWay, RightAbout
    <2> QED
      BY <2>1, <2>2, <2>3 DEF IInv
  <1> QED
    BY <1>4, <1>5, <1>6 DEF TargetEnds

LEMMA RecordStep ==
  ASSUME IInv, NEW s \in Signals, NEW p \in Providers, Records(s, p)
  PROVE  IInv'
  <1>1. /\ action[s] # "none" /\ p \in targets[s] /\ s \in UnderWay /\ p \in got[s]
        /\ got' = [got EXCEPT ![s] = @ \ {p}]
        /\ UNCHANGED <<action, stage, targets, left, alerted, holds, overlapped>>
    BY DEF Records, IInv, TypeOK, Calls, UnderWay
  <1>2. TypeOK
    BY DEF IInv
  <1>3. action[s] \in {"trigger", "acknowledge", "resolve"}
    BY <1>1, <1>2 DEF TypeOK, Lifecycles
  <1>4. CASE row' = [row EXCEPT ![p] = StateAfter(s, p)] /\ UNCHANGED broken
    <2>1. /\ row'[p] \in {"absent", "open", "acknowledged", "resolved"}
          /\ action[s] = "trigger" => row'[p] = "open"
          /\ action[s] # "trigger" /\ row[p] = "absent" => row'[p] = "absent"
          /\ action[s] = "acknowledge" /\ row[p] # "absent" => row'[p] = "acknowledged"
          /\ action[s] = "resolve" /\ row[p] # "absent" => row'[p] = "resolved"
          /\ \A q \in Providers : q # p => row'[q] = row[q]
      BY <1>1, <1>2, <1>4, StatesAfter DEF TypeOK
    <2>2. TypeOK'
      BY <1>1, <1>2, <1>4, StatesAfter DEF TypeOK
    <2>3. Calls'
      BY <1>1 DEF IInv, TypeOK, Calls
    <2>4. NamesTheAlerted' /\ NothingOutOfTheBlue'
      BY <1>1, <1>3, <2>1 DEF IInv, TypeOK, NamesTheAlerted, NothingOutOfTheBlue
    <2>5. Undisturbed'
      <3> SUFFICES ASSUME ~overlapped, ~broken PROVE Undisturbed'
        BY <1>1, <1>4 DEF Undisturbed
      <3>1. \A t \in UnderWay : t = s
        BY <1>1 DEF IInv, Undisturbed
      <3>2. \A t \in Signals : t # s => got[t] = {} /\ got'[t] = {}
        BY <3>1, <1>1 DEF IInv, TypeOK, Calls, UnderWay
      <3>3. UnderWay' = UnderWay
        BY <1>1 DEF UnderWay
      <3>4. ASSUME NEW q \in Providers,
                   \A t \in Signals : q \in got'[t] => action'[t] = "acknowledge"
            PROVE  RightAbout(q)'
        <4>1. CASE q # p
          <5>1. \A t \in Signals : q \in got[t] => action[t] = "acknowledge"
            BY <1>1, <3>4, <4>1 DEF IInv, TypeOK
          <5> QED
            BY <5>1, <1>1, <2>1, <4>1 DEF IInv, Undisturbed, RightAbout
        <4>2. CASE q = p /\ action[s] = "trigger"
          BY <1>1, <2>1, <4>2 DEF IInv, Undisturbed, RightAbout
        <4>3. CASE q = p /\ action[s] = "resolve"
          BY <1>1, <1>2, <2>1, <4>3 DEF IInv, TypeOK, Undisturbed, RightAbout
        <4>4. CASE q = p /\ action[s] = "acknowledge"
          <5>1. RightAbout(p)
            BY <1>1, <3>2, <4>4 DEF IInv, Undisturbed
          <5>2. p \in holds \union ByKey
            BY <1>1, <4>4 DEF IInv, Undisturbed
          <5> QED
            BY <5>1, <5>2, <1>1, <1>2, <2>1, <4>4 DEF RightAbout, TypeOK
        <4> QED
          BY <1>3, <4>1, <4>2, <4>3, <4>4
      <3>5. \A t \in Signals : \A q \in got'[t] : q \in got[t]
        BY <1>1 DEF IInv, TypeOK
      <3> QED
        BY <1>1, <3>1, <3>3, <3>4, <3>5 DEF IInv, Undisturbed
    <2> QED
      BY <2>2, <2>3, <2>4, <2>5 DEF IInv
  <1>5. CASE broken' = TRUE /\ UNCHANGED row
    BY <1>1, <1>5 DEF IInv, TypeOK, Calls, NamesTheAlerted, NothingOutOfTheBlue, Undisturbed
  <1> QED
    BY <1>4, <1>5 DEF Records

(* The other steps change only where a call is.                            *)
LEMMA StageStep ==
  ASSUME IInv, NEW s \in Signals, DeliveryEnds(s) \/ Completes(s) \/ Dies(s)
  PROVE  IInv'
  <1>1. CASE DeliveryEnds(s)
    BY <1>1 DEF DeliveryEnds, IInv, TypeOK, Calls, NamesTheAlerted, NothingOutOfTheBlue,
                Undisturbed, UnderWay, RightAbout
  <1>2. CASE Completes(s)
    BY <1>2 DEF Completes, IInv, TypeOK, Calls, NamesTheAlerted, NothingOutOfTheBlue,
                Undisturbed, UnderWay, RightAbout
  <1>3. CASE Dies(s)
    BY <1>3 DEF Dies, IInv, TypeOK, Calls, NamesTheAlerted, NothingOutOfTheBlue,
                Undisturbed, UnderWay
  <1> QED
    BY <1>1, <1>2, <1>3

LEMMA InvStep == IInv /\ [Next]_vars => IInv'
  <1> SUFFICES ASSUME IInv, [Next]_vars PROVE IInv'
    OBVIOUS
  <1>1. CASE Next
    BY <1>1, SendStep, TargetStep, RecordStep, StageStep DEF Next
  <1>2. CASE UNCHANGED vars
    BY <1>2 DEF vars, IInv, TypeOK, Calls, NamesTheAlerted, NothingOutOfTheBlue,
                Undisturbed, UnderWay, RightAbout
  <1> QED
    BY <1>1, <1>2

LEMMA Invariant == Spec => []IInv
  BY InitInv, InvStep, PTL DEF Spec

(* No message provider hears of the end of an alert it never got           *)
(* (lifecycle_plan, lib.rs), whatever overlaps, fails or dies.             *)
THEOREM OutOfTheBlue == Spec => []NothingOutOfTheBlue
  BY Invariant, PTL DEF IInv

(* Once calls that did not overlap are over, the book names whoever holds  *)
(* the alert (AlertBook::record, lifecycle.rs).                            *)
THEOREM BookRight == Spec => []BookIsRight
  <1>1. IInv => BookIsRight
    <2> SUFFICES ASSUME IInv, ~overlapped, ~broken, UnderWay = {}
                 PROVE  /\ holds \subseteq OpenAlerts
                        /\ \A p \in OpenAlerts \ holds : p \in ByKey /\ row[p] = "acknowledged"
      BY DEF BookIsRight, IInv
    <2>1. \A t \in Signals : got[t] = {}
      BY DEF IInv, TypeOK, Calls, UnderWay
    <2>2. \A p \in Providers : RightAbout(p)
      BY <2>1 DEF IInv, Undisturbed
    <2> QED
      BY <2>2 DEF RightAbout, OpenAlerts, IInv, TypeOK
  <1> QED
    BY Invariant, <1>1, PTL

(* An acknowledge or a resolve reaches every present provider that holds   *)
(* the alert (open_alerts and lifecycle_plan), if calls do not overlap.    *)
THEOREM ReachesHolders == Spec => GoesToHolders
  <1>1. IInv /\ [Next]_vars =>
          [\A s \in Signals : Planned(s, Lifecycles) /\ ~overlapped' /\ ~broken' =>
             /\ holds \cap Known \subseteq targets'[s]
             /\ targets'[s] \subseteq holds \union ByKey]_vars
    <2> SUFFICES ASSUME IInv, Next, NEW s \in Signals,
                        Planned(s, Lifecycles), ~overlapped', ~broken'
                 PROVE  /\ holds \cap Known \subseteq targets'[s]
                        /\ targets'[s] \subseteq holds \union ByKey
      OBVIOUS
    <2>1. SendLifecycle(s)
      <3>1. ASSUME NEW t \in Signals, SendTrigger(t) PROVE FALSE
        BY <3>1 DEF SendTrigger, Send, Planned, IInv, TypeOK, Lifecycles
      <3>2. ASSUME NEW t \in Signals, SendLifecycle(t) PROVE t = s
        BY <3>2 DEF SendLifecycle, Send, Planned, IInv, TypeOK
      <3>3. ASSUME NEW t \in Signals, DeliveryEnds(t) \/ Completes(t) \/ Dies(t) PROVE FALSE
        BY <3>3 DEF DeliveryEnds, Completes, Dies, UnderWay, Planned, IInv, TypeOK
      <3>4. ASSUME NEW t \in Signals, NEW p \in Providers, TargetEnds(t, p) \/ Records(t, p)
            PROVE  FALSE
        BY <3>4 DEF TargetEnds, Records, Planned, IInv, TypeOK
      <3> QED
        <4>1. PICK t \in Signals :
                \/ SendTrigger(t) \/ SendLifecycle(t)
                \/ DeliveryEnds(t) \/ Completes(t) \/ Dies(t)
                \/ \E p \in Providers : TargetEnds(t, p) \/ Records(t, p)
          BY DEF Next
        <4>2. SendLifecycle(t)
          BY <4>1, <3>1, <3>3, <3>4
        <4>3. t = s
          BY <4>2, <3>2
        <4> QED
          BY <4>2, <4>3
    <2>2. PICK a \in Lifecycles :
            Send(s, a, LifecyclePlan(OpenAlerts)) /\ UNCHANGED broken
      BY <2>1 DEF SendLifecycle
    <2>3. targets'[s] = LifecyclePlan(OpenAlerts)
      BY <2>2 DEF Send, IInv, TypeOK
    <2>4. ~overlapped /\ ~broken /\ UnderWay = {}
      BY <2>2 DEF Send, IInv, TypeOK
    <2> QED
      BY <2>3, <2>4, PlansHolders
  <1> QED
    BY Invariant, <1>1, PTL DEF Spec, GoesToHolders


-----------------------------------------------------------------------------
(* Texts                                                                   *)

(* The strings, with those that the core writes itself.                    *)
Letters == STRING \union {"|", "+", "opssignal", "digest", "members"}
                  \union {"Acknowledged", "Resolved"} \union Range(Severities) \union Actions
Writing == Seq(Letters)

LEMMA TextsAreWriting == Texts \subseteq Writing
  <1>1. STRING \subseteq Letters
    BY DEF Letters
  <1>2. ASSUME NEW S, NEW T, S \subseteq T PROVE Seq(S) \subseteq Seq(T)
    BY <1>2
  <1> QED
    BY <1>1, <1>2 DEF Texts, Writing

(* A text and another, joined.                                             *)
LEMMA Joined ==
  ASSUME NEW a \in Writing, NEW b \in Writing
  PROVE  /\ a \o b \in Writing /\ Len(a \o b) = Len(a) + Len(b)
         /\ Len(a) \in Nat /\ Len(b) \in Nat
         /\ DOMAIN a = 1 .. Len(a) /\ DOMAIN b = 1 .. Len(b)
         /\ DOMAIN (a \o b) = 1 .. Len(a) + Len(b)
         /\ \A k \in 1 .. Len(a) : (a \o b)[k] = a[k]
         /\ \A k \in 1 .. Len(b) : (a \o b)[Len(a) + k] = b[k]
  BY DEF Writing

(* What is not empty has a first element.                                  *)
LEMMA FirstOf ==
  ASSUME NEW S, NEW s \in Seq(S), s # <<>>
  PROVE  s[1] \in S /\ 1 \in DOMAIN s /\ Len(s) \in Nat /\ Len(s) >= 1
  OBVIOUS

(* Something joined to anything is something.                              *)
LEMMA NotBlank ==
  ASSUME NEW a \in Writing, NEW b \in Writing, ~IsBlank(a) \/ ~IsBlank(b)
  PROVE  a \o b \in Writing /\ ~IsBlank(a \o b)
  <1>1. /\ a \o b \in Writing /\ Len(a) \in Nat /\ Len(b) \in Nat
        /\ DOMAIN a = 1 .. Len(a) /\ DOMAIN b = 1 .. Len(b)
        /\ DOMAIN (a \o b) = 1 .. Len(a) + Len(b)
        /\ \A k \in 1 .. Len(a) : (a \o b)[k] = a[k]
        /\ \A k \in 1 .. Len(b) : (a \o b)[Len(a) + k] = b[k]
    BY Joined
  <1>2. CASE ~IsBlank(a)
    <2>1. PICK k \in 1 .. Len(a) : a[k] # " "
      BY <1>1, <1>2 DEF IsBlank
    <2>2. k \in 1 .. Len(a) + Len(b)
      BY <1>1
    <2>3. (a \o b)[k] # " "
      BY <1>1, <2>1
    <2> QED
      BY <1>1, <2>2, <2>3 DEF IsBlank
  <1>3. CASE ~IsBlank(b)
    <2>1. PICK k \in 1 .. Len(b) : b[k] # " "
      BY <1>1, <1>3 DEF IsBlank
    <2>2. Len(a) + k \in 1 .. Len(a) + Len(b)
      BY <1>1
    <2>3. (a \o b)[Len(a) + k] # " "
      BY <1>1, <2>1
    <2> QED
      BY <1>1, <2>2, <2>3 DEF IsBlank
  <1> QED
    BY <1>2, <1>3

LEMMA Regrouped ==
  ASSUME NEW a \in Writing, NEW b \in Writing, NEW c \in Writing
  PROVE  (a \o b) \o c = a \o (b \o c)
  BY DEF Writing

(* Texts are told apart by their characters.                               *)
LEMMA Spelled ==
  ASSUME NEW a \in Writing, NEW b \in Writing, Len(a) = Len(b),
         \A k \in 1 .. Len(a) : a[k] = b[k]
  PROVE  a = b
  <1>1. /\ a = [k \in 1 .. Len(a) |-> a[k]] /\ b = [k \in 1 .. Len(b) |-> b[k]]
    BY DEF Writing
  <1> QED
    BY <1>1

LEMMA TheBar == <<"|">> \in Writing /\ Len(<<"|">>) = 1 /\ <<"|">>[1] = "|"
  BY DEF Writing, Letters

(* A text, a bar and another text.                                         *)
Barred(u, v) == (u \o <<"|">>) \o v

(* Character by character.                                                 *)
LEMMA BarredText ==
  ASSUME NEW u \in Writing, NEW v \in Writing
  PROVE  /\ Barred(u, v) \in Writing
         /\ Len(Barred(u, v)) = Len(u) + 1 + Len(v)
         /\ \A k \in 1 .. Len(u) : Barred(u, v)[k] = u[k]
         /\ Barred(u, v)[Len(u) + 1] = "|"
         /\ \A k \in 1 .. Len(v) : Barred(u, v)[Len(u) + 1 + k] = v[k]
  <1> DEFINE bar == <<"|">>
  <1>1. bar \in Writing /\ Len(bar) = 1 /\ bar[1] = "|"
    BY TheBar
  <1> HIDE DEF bar
  <1>2. /\ u \o bar \in Writing /\ Len(u \o bar) = Len(u) + Len(bar) /\ Len(u) \in Nat
        /\ Len(v) \in Nat
        /\ \A k \in 1 .. Len(u) : (u \o bar)[k] = u[k]
        /\ \A k \in 1 .. Len(bar) : (u \o bar)[Len(u) + k] = bar[k]
    <2>1. Len(v) \in Nat
      BY DEF Writing
    <2> QED
      BY <1>1, <2>1, Joined
  <1>3. Len(u \o bar) = Len(u) + 1 /\ (u \o bar)[Len(u) + 1] = "|"
    BY <1>1, <1>2
  <1>4. PICK w \in Writing : w = u \o bar
    BY <1>2
  <1>5. PICK whole : whole = w \o v
    OBVIOUS
  <1>6. /\ whole \in Writing /\ Len(whole) = Len(w) + Len(v)
        /\ \A k \in 1 .. Len(w) : whole[k] = w[k]
        /\ \A k \in 1 .. Len(v) : whole[Len(w) + k] = v[k]
    BY ONLY w \in Writing, v \in Writing, <1>5, Joined
  <1>7. \A k \in 1 .. Len(u) : whole[k] = u[k]
    BY <1>2, <1>3, <1>4, <1>6
  <1>8. whole[Len(u) + 1] = "|"
    BY <1>2, <1>3, <1>4, <1>6
  <1>9. \A k \in 1 .. Len(v) : whole[Len(u) + 1 + k] = v[k]
    BY <1>2, <1>3, <1>4, <1>6
  <1>10. whole = Barred(u, v) /\ Len(whole) = Len(u) + 1 + Len(v)
    BY <1>2, <1>3, <1>4, <1>5, <1>6 DEF Barred, bar
  <1> QED
    BY <1>6, <1>7, <1>8, <1>9, <1>10

(* What stands before the first bar is told by the whole.                  *)
LEMMA BeforeTheBar ==
  ASSUME NEW a \in Writing, NEW b \in Writing, NEW x \in Writing, NEW y \in Writing,
         "|" \notin Range(a), "|" \notin Range(b), Barred(a, x) = Barred(b, y)
  PROVE  a = b /\ x = y
  <1>2. PICK whole : whole = Barred(a, x) /\ whole = Barred(b, y)
    OBVIOUS
  <1>3. DOMAIN a = 1 .. Len(a) /\ DOMAIN b = 1 .. Len(b)
    BY DEF Writing
  <1>4. Len(a) \in Nat /\ Len(b) \in Nat /\ Len(x) \in Nat /\ Len(y) \in Nat
    BY DEF Writing
  <1>5. /\ Len(whole) = Len(a) + 1 + Len(x)
        /\ \A k \in 1 .. Len(a) : whole[k] = a[k]
        /\ whole[Len(a) + 1] = "|"
        /\ \A k \in 1 .. Len(x) : whole[Len(a) + 1 + k] = x[k]
    <2>1. /\ Len(Barred(a, x)) = Len(a) + 1 + Len(x)
          /\ \A k \in 1 .. Len(a) : Barred(a, x)[k] = a[k]
          /\ Barred(a, x)[Len(a) + 1] = "|"
          /\ \A k \in 1 .. Len(x) : Barred(a, x)[Len(a) + 1 + k] = x[k]
      BY ONLY a \in Writing, x \in Writing, BarredText
    <2> QED
      BY <1>2, <2>1
  <1>6. /\ Len(whole) = Len(b) + 1 + Len(y)
        /\ \A k \in 1 .. Len(b) : whole[k] = b[k]
        /\ whole[Len(b) + 1] = "|"
        /\ \A k \in 1 .. Len(y) : whole[Len(b) + 1 + k] = y[k]
    <2>1. /\ Len(Barred(b, y)) = Len(b) + 1 + Len(y)
          /\ \A k \in 1 .. Len(b) : Barred(b, y)[k] = b[k]
          /\ Barred(b, y)[Len(b) + 1] = "|"
          /\ \A k \in 1 .. Len(y) : Barred(b, y)[Len(b) + 1 + k] = y[k]
      BY ONLY b \in Writing, y \in Writing, BarredText
    <2> QED
      BY <1>2, <2>1
  <1>7. \A k \in 1 .. Len(a) : a[k] # "|"
    BY <1>3 DEF Range
  <1>8. \A k \in 1 .. Len(b) : b[k] # "|"
    BY <1>3 DEF Range
  <1>9. ~(Len(a) < Len(b))
    <2> SUFFICES ASSUME Len(a) < Len(b) PROVE FALSE
      OBVIOUS
    <2>1. Len(a) + 1 \in 1 .. Len(b)
      BY <1>4
    <2>2. whole[Len(a) + 1] = b[Len(a) + 1] /\ b[Len(a) + 1] # "|"
      BY <2>1, <1>6, <1>8
    <2> QED
      BY <2>2, <1>5
  <1>10. ~(Len(b) < Len(a))
    <2> SUFFICES ASSUME Len(b) < Len(a) PROVE FALSE
      OBVIOUS
    <2>1. Len(b) + 1 \in 1 .. Len(a)
      BY <1>4
    <2>2. whole[Len(b) + 1] = a[Len(b) + 1] /\ a[Len(b) + 1] # "|"
      BY <2>1, <1>5, <1>7
    <2> QED
      BY <2>2, <1>6
  <1>11. Len(a) = Len(b)
    BY <1>4, <1>9, <1>10
  <1>12. Len(x) = Len(y)
    BY <1>4, <1>5, <1>6, <1>11
  <1>13. \A k \in 1 .. Len(a) : a[k] = b[k]
    BY <1>5, <1>6, <1>11
  <1>14. \A k \in 1 .. Len(x) : x[k] = y[k]
    BY <1>5, <1>6, <1>11, <1>12
  <1> QED
    BY <1>11, <1>12, <1>13, <1>14, Spelled

-----------------------------------------------------------------------------
(* The invariant                                                           *)

(* The members a group can have, and the groups that are held and sent.    *)
Groupable ==
  {FromInput(in) : in \in {x \in Inputs : x.action = "trigger" /\ Validate(x) /\ Matches(Rule, x)}}
Groupings ==
  {g \in Seq(Groupable) :
     \A i \in DOMAIN g : GroupValues(By, g[i]) = GroupValues(By, g[1])}
DigestOf(g) == IF Len(g) = 1 THEN g[1] ELSE Digest(g, GroupValues(By, g[1]))
SentGroups == {[members |-> g, digest |-> DigestOf(g)] : g \in Groupings \ {<<>>}}

CallsKept ==
  /\ setup \in Setups
  /\ calls \in Seq(Inputs) /\ Len(calls) <= MaxCalls
  /\ held \in Groupings /\ Len(held) <= Len(calls)
  /\ digests \in Seq(SentGroups)

AllKeys ==
  [text : Writing, hash : Writing,
   group : {<<>>} \union {<<GroupValues(By, m)>> : m \in Groupable}]

(* What is sent: fields that say something, however they are cut.          *)
Sendable(s) ==
  /\ s.source \in Writing /\ s.event_type \in Writing /\ s.title \in Writing
  /\ HasFields(s)
  /\ s.message \in Seq(Writing)
  /\ s.severity \in Range(Severities) /\ s.action \in Actions
  /\ s.action = "trigger" => Shows(s.title)
  /\ KeyOf(s) \in AllKeys

SentKept == sent = <<>> \/ (sent = <<sent[1]>> /\ Sendable(sent[1]))

(* A row, and Slack's message that it refers to.                           *)
RowRight(r) ==
  /\ r = [key |-> r.key, provider |-> r.provider, state |-> r.state, title |-> r.title,
          ref |-> r.ref]
  /\ r.provider \in Keeping /\ r.state \in Actions
  /\ r.title \in Writing /\ ~IsBlank(r.title)
  /\ r.ref # <<>> =>
       /\ r.provider = "slack" /\ setup.bot
       /\ r.ref = <<r.ref[1]>> /\ r.ref[1] \in DOMAIN posts
       /\ posts[r.ref[1]] = [key |-> r.key, shows |-> r.state]

BookKept ==
  /\ posts \in Seq([key : AllKeys, shows : Actions])
  /\ \A r \in rows : RowRight(r)
  /\ \A r, q \in rows : r.key = q.key /\ r.provider = q.provider => r = q

HasRow(k, p) == \E r \in rows : r.key = k /\ r.provider = p
RowIn(k, p, states) == \E r \in rows : r.key = k /\ r.provider = p /\ r.state \in states
Raised(k, p) == \E i \in open[p] : k \in i.raised

(* The incidents of a service: their ids are the keys as far as it reads   *)
(* them, and every key that raised one has a row.                          *)
IncidentsKept(p) ==
  /\ \A i, j \in open[p] : i.id = j.id => i = j
  /\ \A i \in open[p] : \A k \in i.raised :
       CutKey(k, Limit[p]) = i.id /\ HasRow(k, p)
BookAgrees(p) ==
  ~Clash(p) =>
    /\ \A i \in open[p] : \A k \in i.raised : RowIn(k, p, {"trigger", "acknowledge"})
    /\ \A r \in rows : r.provider = p /\ r.state = "trigger" => Raised(r.key, p)

OpenKept ==
  /\ open = [p \in Paging |-> open[p]]
  /\ \A p \in Paging : IncidentsKept(p) /\ BookAgrees(p)

RequestInv == CallsKept /\ SentKept /\ BookKept /\ OpenKept

-----------------------------------------------------------------------------
(* Keys                                                                    *)

LEMMA InputShape ==
  ASSUME NEW in \in Inputs
  PROVE  /\ DOMAIN in = Optional \union {"source", "event_type", "title", "severity", "action",
                                        "dedup_key", "metadata"}
         /\ in.source \in Writing /\ in.event_type \in Writing /\ in.title \in Writing
         /\ in.message \in Seq(Writing) /\ in.environment \in Seq(Writing)
         /\ in.severity \in Range(Severities) /\ in.action \in Actions
         /\ in.dedup_key \in Seq([text : Texts, hash : {<<>>}, group : {<<>>}])
         /\ Len(in.dedup_key) <= 1
         /\ Shows(in.title)
  <1>1. /\ DOMAIN in = Optional \union {"source", "event_type", "title", "severity", "action",
                                       "dedup_key", "metadata"}
        /\ \A f \in {"source", "event_type", "title"} : in[f] \in Texts
        /\ \A f \in Optional : in[f] \in Seq(Texts) /\ Len(in[f]) <= 1
        /\ in.severity \in Range(Severities) /\ in.action \in Actions
        /\ in.dedup_key \in Seq([text : Texts, hash : {<<>>}, group : {<<>>}])
        /\ Len(in.dedup_key) <= 1
        /\ Shows(in.title)
    BY RequestAssumption
  <1>2. in.source \in Texts /\ in.event_type \in Texts /\ in.title \in Texts
    BY <1>1
  <1>3. in.message \in Seq(Texts) /\ in.environment \in Seq(Texts)
    BY <1>1 DEF Optional
  <1>4. Seq(Texts) \subseteq Seq(Writing)
    BY TextsAreWriting
  <1> QED
    BY <1>1, <1>2, <1>3, <1>4, TextsAreWriting

(* An option that is given, or what stands for it.                         *)
LEMMA OrWriting ==
  ASSUME NEW option \in Seq(Writing), NEW default \in Writing
  PROVE  Or(option, default) \in Writing
  BY DEF Or

LEMMA NothingWritten == <<>> \in Writing
  BY DEF Writing

(* What stands before a barred text can be read as joined to its head.     *)
Before(p, x, v) == ((p \o x) \o <<"|">>) \o v

LEMMA ReadTogether ==
  ASSUME NEW p \in Writing, NEW x \in Writing, NEW v \in Writing
  PROVE  Before(p, x, v) = p \o Barred(x, v)
  <1>1. PICK bar \in Writing : bar = <<"|">>
    BY TheBar
  <1>2. (p \o x) \o bar = p \o (x \o bar)
    BY ONLY p \in Writing, x \in Writing, bar \in Writing, Regrouped
  <1>3. PICK w \in Writing : w = x \o bar
    BY Joined
  <1>4. (p \o w) \o v = p \o (w \o v)
    BY ONLY p \in Writing, w \in Writing, v \in Writing, Regrouped, SMTT(40)
  <1> QED
    BY <1>1, <1>2, <1>3, <1>4 DEF Before, Barred

(* The text that compute_dedup_key hashes.                                 *)
Hashed(x, y, z, v) == x \o <<"|">> \o y \o <<"|">> \o z \o <<"|">> \o v

LEMMA KeyJoined ==
  ASSUME NEW x \in Writing, NEW y \in Writing, NEW z \in Writing, NEW v \in Writing
  PROVE  Hashed(x, y, z, v) = Barred(x, Barred(y, Barred(z, v)))
  <1>1. PICK bar \in Writing : bar = <<"|">>
    BY TheBar
  <1>2. PICK p \in Writing : p = x \o bar
    BY Joined
  <1>3. PICK q \in Writing : q = p \o y
    BY <1>2, Joined
  <1>4. PICK r \in Writing : r = q \o bar
    BY <1>3, Joined
  <1>5. Before(r, z, v) = r \o Barred(z, v)
    BY ONLY r \in Writing, z \in Writing, v \in Writing, ReadTogether
  <1>6. PICK e \in Writing : e = Barred(z, v)
    BY ONLY z \in Writing, v \in Writing, BarredText
  <1>7. Before(p, y, e) = p \o Barred(y, e)
    BY ONLY p \in Writing, y \in Writing, e \in Writing, ReadTogether, ZenonT(60)
  <1>8. Hashed(x, y, z, v) = r \o e
    BY <1>1, <1>2, <1>3, <1>4, <1>5, <1>6 DEF Before, Hashed
  <1>9. r \o e = Barred(x, Barred(y, e))
    BY <1>1, <1>2, <1>3, <1>4, <1>7 DEF Before, Barred
  <1> QED
    BY <1>6, <1>8, <1>9

(* The hashed fields tell the calls apart that leave the key to the core.  *)
LEMMA HashTellsApart ==
  ASSUME NEW a \in Inputs, NEW b \in Inputs,
         a.dedup_key = <<>>, b.dedup_key = <<>>, NoBar(a), NoBar(b)
  PROVE  EffectiveDedupKey(a) = EffectiveDedupKey(b) <=> Same(a, b)
  <1> DEFINE env(in) == Or(in.environment, <<>>)
             hash(in) == Barred(in.source, Barred(in.event_type, Barred(in.title, env(in))))
  <1>1. ASSUME NEW in \in {a, b}
        PROVE  /\ in.source \in Writing /\ in.event_type \in Writing /\ in.title \in Writing
               /\ env(in) \in Writing
               /\ EffectiveDedupKey(in) = [text |-> <<>>, hash |-> hash(in), group |-> <<>>]
    <2>1. /\ in.source \in Writing /\ in.event_type \in Writing /\ in.title \in Writing
          /\ env(in) \in Writing
      BY InputShape, OrWriting, NothingWritten
    <2>2. PICK x, y, z, v \in Writing :
            x = in.source /\ y = in.event_type /\ z = in.title /\ v = env(in)
      BY <2>1
    <2>3. Hashed(x, y, z, v) = Barred(x, Barred(y, Barred(z, v)))
      BY ONLY x \in Writing, y \in Writing, z \in Writing, v \in Writing, KeyJoined
    <2> QED
      BY <2>1, <2>2, <2>3 DEF EffectiveDedupKey, ComputeDedupKey, Key, Hashed
  <1>2. ASSUME NEW in \in {a, b}
        PROVE  /\ Barred(in.title, env(in)) \in Writing
               /\ Barred(in.event_type, Barred(in.title, env(in))) \in Writing
    <2> HIDE DEF env
    <2>1. Barred(in.title, env(in)) \in Writing
      BY <1>1, BarredText
    <2> QED
      BY <1>1, <2>1, BarredText
  <1>3. Same(a, b) <=> /\ a.source = b.source /\ a.event_type = b.event_type
                       /\ a.title = b.title /\ env(a) = env(b)
    BY DEF Same
  <1> HIDE DEF env
  <1>4. ASSUME hash(a) = hash(b) PROVE Same(a, b)
    <2>1. /\ "|" \notin Range(a.source) /\ "|" \notin Range(b.source)
          /\ "|" \notin Range(a.event_type) /\ "|" \notin Range(b.event_type)
          /\ "|" \notin Range(a.title) /\ "|" \notin Range(b.title)
      BY DEF NoBar
    <2>2. PICK ta, tb \in Writing : ta = Barred(a.title, env(a)) /\ tb = Barred(b.title, env(b))
      BY <1>2
    <2>3. PICK va, vb \in Writing : va = Barred(a.event_type, ta) /\ vb = Barred(b.event_type, tb)
      BY <1>2, <2>2
    <2>4. Barred(a.source, va) = Barred(b.source, vb)
      BY <1>4, <2>2, <2>3
    <2>5. a.source = b.source /\ va = vb
      BY <1>1, <2>1, <2>4, BeforeTheBar
    <2>6. a.event_type = b.event_type /\ ta = tb
      <3>1. Barred(a.event_type, ta) = Barred(b.event_type, tb)
        BY <2>3, <2>5
      <3> QED
        BY <1>1, <2>1, <3>1, BeforeTheBar
    <2>7. a.title = b.title /\ env(a) = env(b)
      <3>1. Barred(a.title, env(a)) = Barred(b.title, env(b))
        BY <2>2, <2>6
      <3> QED
        BY <1>1, <2>1, <3>1, BeforeTheBar
    <2> QED
      BY <1>3, <2>5, <2>6, <2>7
  <1>5. Same(a, b) => hash(a) = hash(b)
    BY <1>3
  <1>6. EffectiveDedupKey(a) = EffectiveDedupKey(b) <=> hash(a) = hash(b)
    <2> HIDE DEF hash
    <2> QED
      BY <1>1
  <1> QED
    BY <1>4, <1>5, <1>6

-----------------------------------------------------------------------------
(* Signals and digests                                                     *)

Severity5 == {"info", "success", "warning", "error", "critical"}

LEMMA Ranks ==
  /\ Range(Severities) = Severity5
  /\ Rank("info") = 1 /\ Rank("success") = 2 /\ Rank("warning") = 3
  /\ Rank("error") = 4 /\ Rank("critical") = 5
  <1>1. DOMAIN Severities = {1, 2, 3, 4, 5}
    BY DEF Severities
  <1>2. /\ Severities[1] = "info" /\ Severities[2] = "success" /\ Severities[3] = "warning"
        /\ Severities[4] = "error" /\ Severities[5] = "critical"
    BY DEF Severities
  <1>3. Range(Severities) = Severity5
    BY <1>1, <1>2 DEF Range, Severity5
  <1>4. ASSUME NEW n \in {1, 2, 3, 4, 5} PROVE Rank(Severities[n]) = n
    <2>1. \A i \in {1, 2, 3, 4, 5} : Severities[i] = Severities[n] <=> i = n
      BY <1>2
    <2> QED
      BY <1>1, <2>1 DEF Rank
  <1> QED
    BY <1>2, <1>3, <1>4

LEMMA FromInputKeeps ==
  ASSUME NEW in \in Inputs
  PROVE  /\ \A f \in DOMAIN in \ {"dedup_key"} : FromInput(in)[f] = in[f]
         /\ FromInput(in).dedup_key = <<EffectiveDedupKey(in)>>
         /\ KeyOf(FromInput(in)) = EffectiveDedupKey(in)
  <1>1. "dedup_key" \in DOMAIN in
    BY InputShape
  <1> QED
    BY <1>1 DEF FromInput, KeyOf

LEMMA GivenKeyIsAKey ==
  ASSUME NEW in \in Inputs
  PROVE  EffectiveDedupKey(in) \in AllKeys
  <1>1. CASE in.dedup_key # <<>>
    <2>1. in.dedup_key[1] \in [text : Texts, hash : {<<>>}, group : {<<>>}]
      BY <1>1, InputShape, FirstOf
    <2>2. PICK t \in Texts : in.dedup_key[1] = [text |-> t, hash |-> <<>>, group |-> <<>>]
      BY <2>1
    <2> QED
      BY <1>1, <2>2, TextsAreWriting, NothingWritten DEF EffectiveDedupKey, AllKeys
  <1>2. CASE in.dedup_key = <<>>
    <2>1. PICK x, y, z, v \in Writing :
            /\ x = in.source /\ y = in.event_type /\ z = in.title
            /\ v = Or(in.environment, <<>>)
      BY InputShape, OrWriting, NothingWritten
    <2>2. PICK h \in Writing : h = Barred(x, Barred(y, Barred(z, v)))
      <3>1. PICK e \in Writing : e = Barred(z, v)
        BY ONLY z \in Writing, v \in Writing, BarredText
      <3>2. PICK d \in Writing : d = Barred(y, e)
        BY ONLY y \in Writing, e \in Writing, BarredText
      <3>3. Barred(x, d) \in Writing
        BY ONLY x \in Writing, d \in Writing, BarredText
      <3> QED
        BY <3>1, <3>2, <3>3
    <2>3. h = Hashed(x, y, z, v)
      BY <2>2, KeyJoined
    <2>4. EffectiveDedupKey(in) = [text |-> <<>>, hash |-> h, group |-> <<>>]
      BY <1>2, <2>1, <2>3 DEF EffectiveDedupKey, ComputeDedupKey, Key, Hashed
    <2> QED
      BY <2>4, NothingWritten DEF AllKeys
  <1> QED
    BY <1>1, <1>2

(* A member of a group is a signal to send, that the route matches.        *)
LEMMA GroupableShape ==
  ASSUME NEW m \in Groupable
  PROVE  /\ m.action = "trigger" /\ Sendable(m) /\ Matches(Rule, m)
         /\ m.severity \in Severity5 /\ m.environment \in Seq(Writing)
  <1>1. PICK in \in Inputs : /\ in.action = "trigger" /\ Validate(in) /\ Matches(Rule, in)
                             /\ m = FromInput(in)
    BY DEF Groupable
  <1>2. /\ m.source = in.source /\ m.event_type = in.event_type /\ m.title = in.title
        /\ m.message = in.message /\ m.severity = in.severity /\ m.action = in.action
        /\ m.environment = in.environment
        /\ KeyOf(m) = EffectiveDedupKey(in)
    <2>1. {"source", "event_type", "title", "message", "severity", "action", "environment"}
            \subseteq DOMAIN in \ {"dedup_key"}
      BY InputShape DEF Optional
    <2>2. \A f \in {"source", "event_type", "title", "message", "severity", "action",
                    "environment"} : m[f] = in[f]
      BY <1>1, <2>1, FromInputKeeps
    <2> QED
      BY <1>1, <2>2, FromInputKeeps
  <1>3. HasFields(in)
    BY <1>1 DEF Validate, IsLifecycle
  <1>4. Sendable(m)
    BY <1>2, <1>3, InputShape, GivenKeyIsAKey DEF Sendable, HasFields
  <1>5. Matches(Rule, m)
    BY <1>1, <1>2 DEF Matches, MatchesAnySeverity
  <1> QED
    BY <1>1, <1>2, <1>4, <1>5, InputShape, Ranks

(* Of some severities there is a worst.                                    *)
LEMMA Highest ==
  ASSUME NEW R \in SUBSET {1, 2, 3, 4, 5}, R # {}
  PROVE  \E r \in R : \A q \in R : q <= r
  <1>1. CASE 5 \in R
    BY <1>1
  <1>2. CASE 5 \notin R /\ 4 \in R
    BY <1>2
  <1>3. CASE 5 \notin R /\ 4 \notin R /\ 3 \in R
    BY <1>3
  <1>4. CASE 5 \notin R /\ 4 \notin R /\ 3 \notin R /\ 2 \in R
    BY <1>4
  <1>5. CASE 5 \notin R /\ 4 \notin R /\ 3 \notin R /\ 2 \notin R
    <2>1. R = {1}
      BY <1>5
    <2> QED
      BY <2>1
  <1> QED
    BY <1>1, <1>2, <1>3, <1>4, <1>5

LEMMA WorstIsWorst ==
  ASSUME NEW g \in Seq(Groupable), g # <<>>
  PROVE  /\ \E i \in DOMAIN g : Worst(g) = g[i].severity
         /\ \A i \in DOMAIN g : Rank(g[i].severity) <= Rank(Worst(g))
  <1> DEFINE ranks == {Rank(g[i].severity) : i \in DOMAIN g}
             top == CHOOSE r \in ranks : \A q \in ranks : q <= r
  <1>1. \A i \in DOMAIN g : /\ g[i] \in Groupable
                            /\ g[i].severity \in Severity5
                            /\ Rank(g[i].severity) \in {1, 2, 3, 4, 5}
                            /\ Severities[Rank(g[i].severity)] = g[i].severity
    <2>1. \A i \in DOMAIN g : g[i] \in Groupable /\ g[i].severity \in Severity5
      BY GroupableShape
    <2>2. /\ Severities[1] = "info" /\ Severities[2] = "success" /\ Severities[3] = "warning"
          /\ Severities[4] = "error" /\ Severities[5] = "critical"
      BY DEF Severities
    <2>3. \A x \in Severity5 : Rank(x) \in {1, 2, 3, 4, 5} /\ Severities[Rank(x)] = x
      BY <2>2, Ranks DEF Severity5
    <2> QED
      BY <2>1, <2>3
  <1>2. ranks \in SUBSET {1, 2, 3, 4, 5} /\ ranks # {}
    <2>1. 1 \in DOMAIN g
      BY FirstOf
    <2> QED
      BY <1>1, <2>1
  <1>3. top \in ranks /\ \A q \in ranks : q <= top
    <2> HIDE DEF ranks
    <2> QED
      BY <1>2, Highest
  <1>4. Worst(g) = Severities[top]
    BY DEF Worst
  <1>5. PICK i \in DOMAIN g : top = Rank(g[i].severity)
    BY <1>3
  <1>6. Worst(g) = g[i].severity
    BY <1>1, <1>4, <1>5
  <1> QED
    BY <1>3, <1>5, <1>6

(* The lines of a digest's message.                                        *)
Lines(g) == [i \in DOMAIN g |-> g[i].severity]

LEMMA DigestShape ==
  ASSUME NEW g, NEW values, NEW d, d = Digest(g, values)
  PROVE  /\ d.source = CommonText(g, "source", <<"opssignal">>)
         /\ d.event_type = CommonText(g, "event_type", <<"digest">>)
         /\ d.severity = Worst(g) /\ d.action = "trigger"
         /\ d.title = g[1].title \o <<"+">>
         /\ d.message = <<Lines(g)>>
         /\ d.dedup_key = <<Key(<<>>, <<>>, <<values>>)>>
  <1> DEFINE own == [message |-> <<[i \in DOMAIN g |-> g[i].severity]>>,
              source |-> CommonText(g, "source", <<"opssignal">>),
              event_type |-> CommonText(g, "event_type", <<"digest">>),
              severity |-> Worst(g),
              title |-> g[1].title \o <<"+">>,
              metadata |-> [digest |-> <<"members">>],
              dedup_key |-> <<Key(<<>>, <<>>, <<values>>)>>,
              action |-> "trigger"]
  <1>1. Digest(g, values) = [f \in Optional \union DOMAIN own |->
                               IF f \in DOMAIN own THEN own[f] ELSE Common(g, f)]
    BY DEF Digest
  <1>2. DOMAIN own = {"message", "source", "event_type", "severity", "title", "metadata",
                      "dedup_key", "action"}
    OBVIOUS
  <1>3. \A f \in DOMAIN own : Digest(g, values)[f] = own[f]
    <2> HIDE DEF own
    <2> QED
      BY <1>1
  <1> QED
    BY <1>2, <1>3 DEF Lines

LEMMA DigestCommon ==
  ASSUME NEW g, NEW values, NEW d, d = Digest(g, values), NEW f \in Optional \ {"message"}
  PROVE  d[f] = Common(g, f)
  BY DEF Digest, Optional

(* What a text shows, however it is cut.                                   *)
LEMMA CutText ==
  ASSUME NEW text \in Writing, NEW most \in Nat \ {0}
  PROVE  ~IsBlank(Truncate(text, most)) <=>
           \E k \in 1 .. Len(text) : k <= most /\ text[k] # " "
  <1>1. Len(text) \in Nat
    BY DEF Writing
  <1>2. PICK n \in Nat : /\ n = IF Len(text) < most THEN Len(text) ELSE most
                         /\ \A k \in Nat : k <= n <=> k <= Len(text) /\ k <= most
    BY <1>1
  <1>3. Truncate(text, most) = [k \in 1 .. n |-> text[k]]
    <2>1. Truncate(text, most) = SubSeq(text, 1, n)
      BY <1>2 DEF Truncate
    <2>2. SubSeq(text, 1, n) = [k \in 1 .. n |-> text[k]]
      BY <1>1, <1>2 DEF Writing
    <2> QED
      BY <2>1, <2>2
  <1>4. \A k : k \in 1 .. n <=> k \in 1 .. Len(text) /\ k <= most
    BY <1>1, <1>2
  <1> QED
    BY <1>3, <1>4 DEF IsBlank

LEMMA StillShows ==
  ASSUME NEW a \in Writing, NEW b \in Writing, ~IsBlank(a), Shows(a)
  PROVE  Shows(a \o b)
  <1>1. ASSUME NEW most \in Nat \ {0}, ~IsBlank(Truncate(a, most))
        PROVE  ~IsBlank(Truncate(a \o b, most))
    <2>1. PICK k \in 1 .. Len(a) : k <= most /\ a[k] # " "
      BY <1>1, CutText
    <2>2. /\ a \o b \in Writing /\ k \in 1 .. Len(a \o b) /\ (a \o b)[k] = a[k]
      <3>1. /\ a \o b \in Writing /\ Len(a \o b) = Len(a) + Len(b)
            /\ Len(a) \in Nat /\ Len(b) \in Nat
            /\ \A i \in 1 .. Len(a) : (a \o b)[i] = a[i]
        BY Joined
      <3> QED
        BY <3>1
    <2> QED
      BY <2>1, <2>2, CutText
  <1>2. MaxSummary \in Nat \ {0} /\ MaxMessage \in Nat \ {0}
    BY RequestAssumption
  <1> QED
    BY <1>1, <1>2 DEF Shows

(* Both paging services rank a severity alike, and success with info.      *)
Loud(severity) == IF severity = "success" THEN 1 ELSE Rank(severity)

LEMMA Louder ==
  ASSUME NEW x \in Severity5, NEW y \in Severity5, Rank(x) <= Rank(y)
  PROVE  Loud(x) <= Loud(y)
  BY Ranks DEF Severity5, Loud

LEMMA UrgencyOf ==
  ASSUME NEW s, s.action = "trigger", s.severity \in Severity5
  PROVE  \A p \in Paging : Urgency(s)[p] = Loud(s.severity)
  <1>1. Rank(PagerDuty(s, <<>>).urgency) = Loud(s.severity)
    BY Ranks DEF PagerDuty, IsLifecycle, Loud
  <1>2. Opsgenie(s, <<>>).priority = PriorityFor(s.severity)
    BY DEF Opsgenie, IsLifecycle
  <1>3. 6 - PriorityFor(s.severity) = Loud(s.severity)
    <2>1. /\ PriorityFor("critical") = 1 /\ PriorityFor("error") = 2
          /\ PriorityFor("warning") = 3 /\ PriorityFor("info") = 5
          /\ PriorityFor("success") = 5
      BY DEF PriorityFor
    <2> QED
      BY <2>1, Ranks DEF Severity5, Loud
  <1> QED
    BY <1>1, <1>2, <1>3 DEF Urgency, Paging

LEMMA FieldOf ==
  ASSUME NEW s, NEW field
  PROVE  /\ field[1] = "severity" => FieldValue(s, field) = <<<<s.severity>>>>
         /\ field[1] \in {"source", "event_type", "title"} =>
              FieldValue(s, field) = <<s[field[1]]>>
         /\ field[1] \in Optional => FieldValue(s, field) = s[field[1]]
  <1>1. ASSUME field[1] = "severity" PROVE FieldValue(s, field) = <<<<s.severity>>>>
    BY <1>1 DEF FieldValue, Optional
  <1>2. ASSUME field[1] \in {"source", "event_type", "title"}
        PROVE  FieldValue(s, field) = <<s[field[1]]>>
    BY <1>2 DEF FieldValue, Optional
  <1>3. ASSUME field[1] \in Optional PROVE FieldValue(s, field) = s[field[1]]
    BY <1>3 DEF FieldValue, Optional
  <1> QED
    BY <1>1, <1>2, <1>3

(* A text of one piece.                                                    *)
LEMMA OnePiece ==
  ASSUME NEW c \in Letters, c # " "
  PROVE  <<c>> \in Writing /\ ~IsBlank(<<c>>)
  <1>1. PICK text : text = <<c>>
    OBVIOUS
  <1>2. text \in Writing /\ text[1] = c /\ 1 \in DOMAIN text
    BY ONLY c \in Letters, <1>1 DEF Writing
  <1> QED
    BY <1>1, <1>2 DEF IsBlank

(* What a group is sent as.                                                *)
LEMMA DigestSendable ==
  ASSUME NEW g \in Groupings, g # <<>>
  PROVE  Sendable(DigestOf(g)) /\ DigestOf(g).action = "trigger"
  <1>1. g \in Seq(Groupable) /\ g[1] \in Groupable /\ 1 \in DOMAIN g
    BY FirstOf DEF Groupings
  <1>2. CASE Len(g) = 1
    BY <1>1, <1>2, GroupableShape DEF DigestOf
  <1>3. CASE Len(g) # 1
    <2> DEFINE values == GroupValues(By, g[1])
    <2>0. DigestOf(g) = Digest(g, values)
      BY <1>3 DEF DigestOf
    <2> HIDE DEF values
    <2>1. PICK d : d = Digest(g, values)
      OBVIOUS
    <2>2. /\ d.source = CommonText(g, "source", <<"opssignal">>)
          /\ d.event_type = CommonText(g, "event_type", <<"digest">>)
          /\ d.severity = Worst(g) /\ d.action = "trigger"
          /\ d.title = g[1].title \o <<"+">>
          /\ d.message = <<Lines(g)>>
          /\ d.dedup_key = <<Key(<<>>, <<>>, <<values>>)>>
      BY ONLY <2>1, DigestShape, ZenonT(60)
    <2>3. Sendable(g[1]) /\ g[1].action = "trigger"
      BY <1>1, GroupableShape
    <2>4. d.source \in Writing /\ ~IsBlank(d.source)
      <3>1. <<"opssignal">> \in Writing /\ ~IsBlank(<<"opssignal">>)
        BY OnePiece DEF Letters
      <3> QED
        BY <2>2, <2>3, <3>1 DEF CommonText, Sendable, HasFields
    <2>5. d.event_type \in Writing /\ ~IsBlank(d.event_type)
      <3>1. <<"digest">> \in Writing /\ ~IsBlank(<<"digest">>)
        BY OnePiece DEF Letters
      <3> QED
        BY <2>2, <2>3, <3>1 DEF CommonText, Sendable, HasFields
    <2>6. d.title \in Writing /\ ~IsBlank(d.title) /\ Shows(d.title)
      <3>1. <<"+">> \in Writing
        BY DEF Writing, Letters
      <3>2. g[1].title \in Writing /\ ~IsBlank(g[1].title) /\ Shows(g[1].title)
        BY <2>3 DEF Sendable, HasFields
      <3> QED
        BY <2>2, <3>1, <3>2, NotBlank, StillShows
    <2>7. d.severity \in Range(Severities)
      <3>1. \A i \in DOMAIN g : g[i] \in Groupable
        BY <1>1
      <3> QED
        BY <1>1, <2>2, <3>1, WorstIsWorst, GroupableShape, Ranks
    <2>8. d.message \in Seq(Writing)
      <3>1. \A i \in DOMAIN g : g[i].severity \in Letters
        BY <1>1, GroupableShape, Ranks DEF Letters
      <3>2. DOMAIN g = 1 .. Len(g) /\ Len(g) \in Nat
        BY <1>1
      <3>3. [i \in DOMAIN g |-> g[i].severity] \in Writing
        BY <3>1, <3>2 DEF Writing
      <3> QED
        BY <2>2, <3>3 DEF Lines
    <2>9. KeyOf(d) \in AllKeys
      <3>1. KeyOf(d) = [text |-> <<>>, hash |-> <<>>, group |-> <<GroupValues(By, g[1])>>]
        BY <2>2 DEF KeyOf, Key, values
      <3> QED
        BY <1>1, <3>1, NothingWritten DEF AllKeys
    <2>10. "trigger" \in Actions
      BY DEF Actions
    <2> QED
      BY <2>0, <2>1, <2>2, <2>4, <2>5, <2>6, <2>7, <2>8, <2>9, <2>10 DEF Sendable, HasFields
  <1> QED
    BY <1>2, <1>3

LEMMA DigestAgrees ==
  ASSUME NEW g \in Groupings, g # <<>>
  PROVE  /\ \A i \in DOMAIN g : \A p \in Paging :
              Urgency(DigestOf(g))[p] >= Urgency(g[i])[p]
         /\ Matches(Rule, DigestOf(g))
         /\ \A b \in DOMAIN By :
              By[b][1] \notin {"metadata", "title", "dedup_key"} =>
                FieldValue(DigestOf(g), By[b]) = FieldValue(g[1], By[b])
  <1>1. /\ g \in Seq(Groupable) /\ 1 \in DOMAIN g
        /\ \A i \in DOMAIN g : g[i] \in Groupable
        /\ \A i \in DOMAIN g : GroupValues(By, g[i]) = GroupValues(By, g[1])
    BY FirstOf DEF Groupings
  <1>2. \A i \in DOMAIN g :
          /\ g[i].action = "trigger" /\ g[i].severity \in Severity5 /\ Matches(Rule, g[i])
          /\ \A p \in Paging : Urgency(g[i])[p] = Loud(g[i].severity)
    BY <1>1, GroupableShape, UrgencyOf
  <1>3. \A x \in Severity5 : Loud(x) \in Nat
    BY Ranks DEF Severity5, Loud
  <1>4. CASE Len(g) = 1
    <2>1. DigestOf(g) = g[1]
      BY <1>4 DEF DigestOf
    <2>2. DOMAIN g = {1}
      BY <1>1, <1>4
    <2> QED
      BY <1>1, <1>2, <1>3, <2>1, <2>2
  <1>5. CASE Len(g) # 1
    <2> DEFINE values == GroupValues(By, g[1])
    <2>0. DigestOf(g) = Digest(g, values)
      BY <1>5 DEF DigestOf
    <2> HIDE DEF values
    <2>1. PICK d : d = Digest(g, values)
      OBVIOUS
    <2>2. /\ d.source = CommonText(g, "source", <<"opssignal">>)
          /\ d.event_type = CommonText(g, "event_type", <<"digest">>)
          /\ d.severity = Worst(g) /\ d.action = "trigger"
          /\ d.title = g[1].title \o <<"+">>
          /\ d.message = <<Lines(g)>>
          /\ d.dedup_key = <<Key(<<>>, <<>>, <<values>>)>>
      BY ONLY <2>1, DigestShape, ZenonT(60)
    <2>8. \A f \in Optional \ {"message"} : d[f] = Common(g, f)
      BY ONLY <2>1, DigestCommon, Zenon
    <2>3. /\ \E i \in DOMAIN g : d.severity = g[i].severity
          /\ \A i \in DOMAIN g : Rank(g[i].severity) <= Rank(d.severity)
      BY <1>1, <2>2, WorstIsWorst
    <2>4. d.severity \in Severity5
      BY <1>2, <2>3
    <2>5. ASSUME NEW i \in DOMAIN g, NEW p \in Paging
          PROVE  Urgency(d)[p] >= Urgency(g[i])[p]
      <3>1. Loud(g[i].severity) <= Loud(d.severity)
        BY <1>2, <2>3, <2>4, Louder
      <3>2. Urgency(d)[p] = Loud(d.severity)
        BY <2>2, <2>4, UrgencyOf
      <3> QED
        BY <1>2, <1>3, <2>4, <3>1, <3>2
    <2>6. Matches(Rule, d)
      <3>1. Rule.severity # {} => d.severity \in Rule.severity
        BY <1>2, <2>3 DEF Matches
      <3>2. Rule.environment # <<>> => d.environment = Rule.environment
        <4>1. d.environment = Common(g, "environment")
          BY <2>8 DEF Optional
        <4> QED
          BY <1>1, <1>2, <4>1 DEF Matches, MatchesAnySeverity, Common
      <3>3. Rule.source # <<>> => d.source = Rule.source[1]
        BY <1>1, <1>2, <2>2 DEF Matches, MatchesAnySeverity, CommonText
      <3> QED
        BY <3>1, <3>2, <3>3 DEF Matches, MatchesAnySeverity
    <2>7. ASSUME NEW b \in DOMAIN By, By[b][1] \notin {"metadata", "title", "dedup_key"}
          PROVE  FieldValue(d, By[b]) = FieldValue(g[1], By[b])
      <3>1. \A i \in DOMAIN g : FieldValue(g[i], By[b]) = FieldValue(g[1], By[b])
        <4>1. ASSUME NEW i \in DOMAIN g
              PROVE  FieldValue(g[i], By[b]) = FieldValue(g[1], By[b])
          <5>1. /\ GroupValues(By, g[i])[b] = FieldValue(g[i], By[b])
                /\ GroupValues(By, g[1])[b] = FieldValue(g[1], By[b])
            BY <2>7 DEF GroupValues
          <5> QED
            BY <1>1, <4>1, <5>1
        <4> QED
          BY <4>1
      <3>2. PICK field : field = By[b]
        OBVIOUS
      <3>3. CASE field[1] = "severity"
        <4>1. \A i \in DOMAIN g : g[i].severity = g[1].severity
          BY <3>1, <3>2, <3>3, FieldOf
        <4> QED
          BY <2>3, <3>2, <3>3, <4>1, FieldOf
      <3>4. CASE field[1] = "source"
        <4>1. \A i \in DOMAIN g : g[i].source = g[1].source
          BY <3>1, <3>2, <3>4, FieldOf
        <4>2. d.source = g[1].source
          BY <2>2, <4>1 DEF CommonText
        <4> QED
          BY <3>2, <3>4, <4>2, FieldOf
      <3>5. CASE field[1] = "event_type"
        <4>1. \A i \in DOMAIN g : g[i].event_type = g[1].event_type
          BY <3>1, <3>2, <3>5, FieldOf
        <4>2. d.event_type = g[1].event_type
          BY <2>2, <4>1 DEF CommonText
        <4> QED
          BY <3>2, <3>5, <4>2, FieldOf
      <3>6. CASE field[1] \in Optional \ {"message"}
        <4>1. \A i \in DOMAIN g : g[i][field[1]] = g[1][field[1]]
          BY <3>1, <3>2, <3>6, FieldOf
        <4>2. d[field[1]] = g[1][field[1]]
          BY <2>8, <3>6, <4>1 DEF Common
        <4> QED
          BY <3>2, <3>6, <4>2, FieldOf
      <3>7. By[b][1] \in GroupFields \union {"metadata"}
        BY <2>7, RequestAssumption
      <3> QED
        BY <2>7, <3>2, <3>3, <3>4, <3>5, <3>6, <3>7 DEF GroupFields
    <2> QED
      BY <2>0, <2>1, <2>5, <2>6, <2>7
  <1> QED
    BY <1>4, <1>5

-----------------------------------------------------------------------------
(* The book                                                                *)

NewRow(s, p, ref) ==
  [key |-> KeyOf(s), provider |-> p, state |-> "trigger", title |-> s.title,
   ref |-> IF p = "slack" THEN ref ELSE <<>>]
Turned(r, a) ==
  [key |-> r.key, provider |-> r.provider, state |-> a, title |-> r.title, ref |-> r.ref]

Touched(r, s, takers) == r.key = KeyOf(s) /\ r.provider \in takers

(* record, row by row.                                                     *)
LEMMA RowsAfter ==
  ASSUME BookKept, NEW s, NEW takers, NEW ref, NEW after, after = Recorded(s, takers, ref)
  PROVE  /\ \A r \in rows : ~Touched(r, s, takers) => r \in after
         /\ s.action = "trigger" => \A p \in takers : NewRow(s, p, ref) \in after
         /\ s.action # "trigger" =>
              \A r \in rows : Touched(r, s, takers) => Turned(r, s.action) \in after
         /\ \A r \in after :
              \/ r \in rows /\ ~Touched(r, s, takers)
              \/ s.action = "trigger" /\ \E p \in takers : r = NewRow(s, p, ref)
              \/ s.action # "trigger" /\ \E q \in rows : Touched(q, s, takers)
                                                         /\ r = Turned(q, s.action)
  <1> DEFINE mine == {r \in RowsOf(KeyOf(s)) : r.provider \in takers}
             news == IF s.action = "trigger"
                     THEN {NewRow(s, p, ref) : p \in takers}
                     ELSE {[r EXCEPT !.state = s.action] : r \in mine}
  <1>1. after = (rows \ mine) \union news
    BY DEF Recorded, NewRow
  <1>2. \A r : r \in mine <=> r \in rows /\ Touched(r, s, takers)
    BY DEF RowsOf, Touched
  <1>3. ASSUME NEW r \in rows PROVE [r EXCEPT !.state = s.action] = Turned(r, s.action)
    <2>1. r = [key |-> r.key, provider |-> r.provider, state |-> r.state, title |-> r.title,
               ref |-> r.ref]
      BY DEF BookKept, RowRight
    <2>2. PICK a, b, c, d, e :
            /\ r = [key |-> a, provider |-> b, state |-> c, title |-> d, ref |-> e]
            /\ a = r.key /\ b = r.provider /\ d = r.title /\ e = r.ref
      BY <2>1
    <2>3. [r EXCEPT !.state = s.action]
            = [key |-> a, provider |-> b, state |-> s.action, title |-> d, ref |-> e]
      BY ONLY <2>2
    <2> QED
      BY <2>2, <2>3 DEF Turned
  <1>4. CASE s.action = "trigger"
    <2>1. news = {NewRow(s, p, ref) : p \in takers}
      BY <1>4
    <2> HIDE DEF mine, news
    <2> QED
      BY <1>1, <1>2, <1>4, <2>1
  <1>5. CASE s.action # "trigger"
    <2>1. \A r : r \in news <=> \E q \in mine : r = Turned(q, s.action)
      <3> DEFINE turned(q) == [q EXCEPT !.state = s.action]
      <3>1. news = {turned(q) : q \in mine}
        BY <1>5
      <3>2. \A q \in mine : turned(q) = Turned(q, s.action)
        BY <1>2, <1>3
      <3> HIDE DEF mine, news, turned
      <3> QED
        BY <3>1, <3>2
    <2> HIDE DEF mine, news
    <2> QED
      BY <1>1, <1>2, <1>5, <2>1
  <1> QED
    BY <1>4, <1>5

(* What Slack's messages become.                                           *)
PostSet == [key : AllKeys, shows : Actions]

LEMMA PostsAfter ==
  ASSUME posts \in Seq(PostSet), NEW s, KeyOf(s) \in AllKeys, s.action \in Actions,
         setup.bot \in BOOLEAN,
         NEW ref, ref # <<>> => ref[1] \in DOMAIN posts, NEW post, post = Post(s, ref)
  PROVE  /\ post.posts \in Seq(PostSet)
         /\ \A n \in DOMAIN posts :
              /\ n \in DOMAIN post.posts
              /\ IF setup.bot /\ IsLifecycle(s.action) /\ ref # <<>> /\ n = ref[1]
                 THEN post.posts[n] = [key |-> posts[n].key, shows |-> s.action]
                 ELSE post.posts[n] = posts[n]
         /\ ~IsLifecycle(s.action) =>
              \/ ~setup.bot /\ post.ref = <<>>
              \/ /\ setup.bot /\ post.ref = <<Len(posts) + 1>>
                 /\ Len(posts) + 1 \in DOMAIN post.posts
                 /\ post.posts[Len(posts) + 1] = [key |-> KeyOf(s), shows |-> s.action]
  <1> DEFINE new == [key |-> KeyOf(s), shows |-> s.action]
  <1>1. new \in PostSet
    BY DEF PostSet
  <1>2. CASE setup.bot /\ IsLifecycle(s.action) /\ ref # <<>>
    <2>1. post.posts = [posts EXCEPT ![ref[1]].shows = s.action]
      BY <1>2 DEF Post
    <2>2. PICK n \in DOMAIN posts : n = ref[1]
      BY <1>2
    <2>3. posts[n] \in PostSet
      OBVIOUS
    <2>4. PICK k \in AllKeys, a \in Actions : posts[n] = [key |-> k, shows |-> a]
      BY <2>3 DEF PostSet
    <2>5. PICK turned : turned = [key |-> k, shows |-> s.action]
      OBVIOUS
    <2>6. turned \in PostSet
      BY <2>5 DEF PostSet
    <2>7. [posts[n] EXCEPT !.shows = s.action] = turned
      BY <2>4, <2>5
    <2>8. post.posts = [posts EXCEPT ![n] = turned]
      BY <2>1, <2>2, <2>7
    <2>9. /\ post.posts \in Seq(PostSet) /\ DOMAIN post.posts = DOMAIN posts
          /\ \A m \in DOMAIN posts : post.posts[m] = IF m = n THEN turned ELSE posts[m]
      BY <2>6, <2>8
    <2>10. turned = [key |-> posts[n].key, shows |-> s.action]
      BY <2>4, <2>5
    <2> QED
      BY <1>2, <2>2, <2>9, <2>10
  <1>3. CASE ~(setup.bot /\ IsLifecycle(s.action) /\ ref # <<>>)
    <2>1. post = [posts |-> Append(posts, new),
                  ref |-> IF setup.bot THEN <<Len(posts) + 1>> ELSE <<>>]
      BY <1>3 DEF Post
    <2>2. post.posts = Append(posts, new) /\ (setup.bot => post.ref = <<Len(posts) + 1>>)
          /\ (~setup.bot => post.ref = <<>>)
      BY <2>1
    <2> HIDE DEF new
    <2>3. /\ Append(posts, new) \in Seq(PostSet)
          /\ Len(posts) \in Nat /\ DOMAIN posts = 1 .. Len(posts)
          /\ DOMAIN Append(posts, new) = 1 .. Len(posts) + 1
          /\ \A n \in 1 .. Len(posts) : Append(posts, new)[n] = posts[n]
          /\ Append(posts, new)[Len(posts) + 1] = new
      BY <1>1
    <2>4. \A n \in DOMAIN posts : n \in DOMAIN post.posts /\ post.posts[n] = posts[n]
      BY <2>2, <2>3
    <2>5. Len(posts) + 1 \in DOMAIN post.posts /\ post.posts[Len(posts) + 1] = new
      BY <2>2, <2>3
    <2> QED
      BY <1>3, <2>2, <2>3, <2>4, <2>5 DEF new
  <1> QED
    BY <1>2, <1>3

(* The reference that a call brings: none, or that of the alert's own row. *)
RefRight(s, takers, ref) ==
  /\ s.action = "trigger" => ref = <<>>
  /\ s.action # "trigger" /\ "slack" \in takers =>
       \E r \in rows : r.key = KeyOf(s) /\ r.provider = "slack" /\ r.ref = ref
  /\ ref # <<>> => ref[1] \in DOMAIN posts

(* A delivery leaves the book in order.                                    *)
LEMMA BookStep ==
  ASSUME BookKept, setup.bot \in BOOLEAN, setup' = setup,
         NEW s, NEW takers, NEW ref, Sendable(s), takers \subseteq Keeping,
         RefRight(s, takers, ref), Deliver(s, takers, ref)
  PROVE  BookKept'
  <1>1. posts \in Seq(PostSet) /\ (\A r \in rows : RowRight(r))
        /\ \A r, q \in rows : r.key = q.key /\ r.provider = q.provider => r = q
    BY DEF BookKept, PostSet
  <1>2. PICK post : post = Post(s, ref)
    OBVIOUS
  <1>3. /\ posts' = (IF "slack" \in takers THEN post.posts ELSE posts)
        /\ rows' = Recorded(s, takers, post.ref)
    BY <1>2 DEF Deliver
  <1>4. /\ KeyOf(s) \in AllKeys /\ s.action \in Actions /\ s.title \in Writing
        /\ ~IsBlank(s.title)
    BY DEF Sendable, HasFields
  <1>5. /\ post.posts \in Seq(PostSet)
        /\ \A n \in DOMAIN posts :
              /\ n \in DOMAIN post.posts
              /\ IF setup.bot /\ IsLifecycle(s.action) /\ ref # <<>> /\ n = ref[1]
                 THEN post.posts[n] = [key |-> posts[n].key, shows |-> s.action]
                 ELSE post.posts[n] = posts[n]
        /\ ~IsLifecycle(s.action) =>
              \/ ~setup.bot /\ post.ref = <<>>
              \/ /\ setup.bot /\ post.ref = <<Len(posts) + 1>>
                 /\ Len(posts) + 1 \in DOMAIN post.posts
                 /\ post.posts[Len(posts) + 1] = [key |-> KeyOf(s), shows |-> s.action]
    <2>1. ref # <<>> => ref[1] \in DOMAIN posts
      BY DEF RefRight
    <2> QED
      BY <1>1, <1>2, <1>4, <2>1, PostsAfter
  <1>6. /\ \A r \in rows : ~Touched(r, s, takers) => r \in rows'
        /\ \A r \in rows' :
              \/ r \in rows /\ ~Touched(r, s, takers)
              \/ s.action = "trigger" /\ \E p \in takers : r = NewRow(s, p, post.ref)
              \/ s.action # "trigger" /\ \E q \in rows : Touched(q, s, takers)
                                                         /\ r = Turned(q, s.action)
    BY <1>3, RowsAfter
  <1>7. ASSUME NEW r \in rows, ~Touched(r, s, takers) PROVE RowRight(r)'
    <2>1. RowRight(r)
      BY <1>1
    <2>2. CASE r.ref = <<>>
      BY <2>1, <2>2 DEF RowRight
    <2>3. CASE r.ref # <<>>
      <3>1. PICK n \in DOMAIN posts : n = r.ref[1] /\ posts[n] = [key |-> r.key, shows |-> r.state]
        BY <2>1, <2>3 DEF RowRight
      <3>2. n \in DOMAIN posts' /\ posts'[n] = posts[n]
        <4>1. CASE "slack" \notin takers
          BY <1>3, <4>1
        <4>2. CASE "slack" \in takers /\ (~IsLifecycle(s.action) \/ ref = <<>>)
          BY <1>3, <1>5, <4>2
        <4>3. CASE "slack" \in takers /\ IsLifecycle(s.action) /\ ref # <<>>
          <5>1. PICK q \in rows : q.key = KeyOf(s) /\ q.provider = "slack" /\ q.ref = ref
            BY <4>3 DEF RefRight, IsLifecycle
          <5>2. RowRight(q) /\ posts[ref[1]] = [key |-> q.key, shows |-> q.state]
            BY <1>1, <4>3, <5>1 DEF RowRight
          <5>3. r.provider = "slack"
            BY <2>1, <2>3 DEF RowRight
          <5>4. r.key # KeyOf(s)
            BY <1>7, <4>3, <5>3 DEF Touched
          <5>5. n # ref[1]
            BY <3>1, <5>1, <5>2, <5>4
          <5> QED
            BY <1>3, <1>5, <4>3, <5>5
        <4> QED
          BY <4>1, <4>2, <4>3
      <3> QED
        BY <2>1, <3>1, <3>2 DEF RowRight
    <2> QED
      BY <2>2, <2>3
  <1>8. ASSUME s.action = "trigger", NEW p \in takers
        PROVE  RowRight(NewRow(s, p, post.ref))'
    <2>1. PICK r : r = NewRow(s, p, post.ref)
      OBVIOUS
    <2>2. /\ r = [key |-> KeyOf(s), provider |-> p, state |-> "trigger", title |-> s.title,
                  ref |-> IF p = "slack" THEN post.ref ELSE <<>>]
      BY <2>1 DEF NewRow
    <2>3. /\ r.key = KeyOf(s) /\ r.provider = p /\ r.state = "trigger" /\ r.title = s.title
          /\ r.ref = (IF p = "slack" THEN post.ref ELSE <<>>)
          /\ r = [key |-> r.key, provider |-> r.provider, state |-> r.state, title |-> r.title,
                  ref |-> r.ref]
      BY ONLY <2>2
    <2>4. ~IsLifecycle(s.action)
      BY <1>8 DEF IsLifecycle
    <2>5. r.ref # <<>> =>
            /\ r.provider = "slack" /\ setup.bot /\ r.ref = <<Len(posts) + 1>>
            /\ Len(posts) + 1 \in DOMAIN posts'
            /\ posts'[Len(posts) + 1] = [key |-> r.key, shows |-> r.state]
      BY <1>3, <1>5, <1>8, <2>3, <2>4
    <2>6. r.ref # <<>> => r.ref[1] = Len(posts) + 1
      BY <2>5
    <2>7. RowRight(r)'
      BY <1>4, <1>8, <2>3, <2>5, <2>6 DEF RowRight, Actions
    <2> QED
      BY <2>1, <2>7
  <1>9. ASSUME s.action # "trigger", NEW q \in rows, Touched(q, s, takers)
        PROVE  RowRight(Turned(q, s.action))'
    <2>1. PICK r : r = Turned(q, s.action)
      OBVIOUS
    <2>2. r = [key |-> q.key, provider |-> q.provider, state |-> s.action, title |-> q.title,
               ref |-> q.ref]
      BY <2>1 DEF Turned
    <2>3. /\ r.key = q.key /\ r.provider = q.provider /\ r.state = s.action
          /\ r.title = q.title /\ r.ref = q.ref
          /\ r = [key |-> r.key, provider |-> r.provider, state |-> r.state, title |-> r.title,
                  ref |-> r.ref]
      BY ONLY <2>2
    <2>4. RowRight(q)
      BY <1>1
    <2>5. q.ref # <<>> =>
            /\ q.ref[1] \in DOMAIN posts'
            /\ posts'[q.ref[1]] = [key |-> q.key, shows |-> s.action]
      <3>1. SUFFICES ASSUME q.ref # <<>>
                     PROVE  /\ q.ref[1] \in DOMAIN posts'
                            /\ posts'[q.ref[1]] = [key |-> q.key, shows |-> s.action]
        OBVIOUS
      <3>2. /\ q.provider = "slack" /\ setup.bot /\ q.ref[1] \in DOMAIN posts
            /\ posts[q.ref[1]] = [key |-> q.key, shows |-> q.state]
        BY <2>4, <3>1 DEF RowRight
      <3>3. "slack" \in takers /\ q.key = KeyOf(s)
        BY <1>9, <3>2 DEF Touched
      <3>4. ref = q.ref
        BY <1>1, <1>9, <3>2, <3>3 DEF RefRight
      <3>5. posts' = post.posts /\ IsLifecycle(s.action)
        BY <1>3, <1>9, <3>3 DEF IsLifecycle
      <3>6. posts[q.ref[1]].key = q.key
        BY <3>2
      <3> QED
        BY <1>5, <3>1, <3>2, <3>4, <3>5, <3>6
    <2>6. RowRight(r)'
      BY <1>4, <2>3, <2>4, <2>5 DEF RowRight
    <2> QED
      BY <2>1, <2>6
  <1>10. \A r \in rows' : RowRight(r)'
    BY <1>6, <1>7, <1>8, <1>9
  <1>11. posts' \in Seq(PostSet)
    BY <1>1, <1>3, <1>5
  <1>12. ASSUME NEW r \in rows', NEW q \in rows', r.key = q.key, r.provider = q.provider
         PROVE  r = q
    <2>1. \A x : \/ ~(x \in rows /\ ~Touched(x, s, takers))
                 \/ \A p \in takers : ~(x.key = KeyOf(s) /\ x.provider = p)
      BY DEF Touched
    <2>2. CASE s.action = "trigger"
      <3>1. \A p : /\ NewRow(s, p, post.ref).key = KeyOf(s)
                   /\ NewRow(s, p, post.ref).provider = p
        BY DEF NewRow
      <3> QED
        BY <1>1, <1>6, <1>12, <2>1, <2>2, <3>1
    <2>3. CASE s.action # "trigger"
      <3>1. \A x : /\ Turned(x, s.action).key = x.key
                   /\ Turned(x, s.action).provider = x.provider
        BY DEF Turned
      <3> QED
        BY <1>1, <1>6, <1>12, <2>3, <3>1 DEF Touched
    <2> QED
      BY <2>2, <2>3
  <1> QED
    BY <1>10, <1>11, <1>12 DEF BookKept, PostSet

-----------------------------------------------------------------------------
(* What is open at the services                                            *)

(* What a delivery does to the rows of one key and provider.               *)
LEMMA RowsChange ==
  ASSUME BookKept, NEW s, NEW takers, NEW ref, Deliver(s, takers, ref), takers \subseteq Keeping
  PROVE  /\ \A k, p : HasRow(k, p) => HasRow(k, p)'
         /\ \A k, p : ~(k = KeyOf(s) /\ p \in takers) =>
              \A states : RowIn(k, p, states) <=> RowIn(k, p, states)'
         /\ \A p \in takers : s.action = "trigger" => RowIn(KeyOf(s), p, {"trigger"})'
         /\ \A p \in takers : s.action # "trigger" =>
              /\ HasRow(KeyOf(s), p) => RowIn(KeyOf(s), p, {s.action})'
              /\ ~RowIn(KeyOf(s), p, {"trigger"})'
         /\ \A r \in rows' : r.key = KeyOf(s) \/ \E q \in rows : q.key = r.key
  <1>1. PICK post : post = Post(s, ref)
    OBVIOUS
  <1>2. rows' = Recorded(s, takers, post.ref)
    BY <1>1 DEF Deliver
  <1>3. /\ \A r \in rows : ~Touched(r, s, takers) => r \in rows'
        /\ s.action = "trigger" => \A p \in takers : NewRow(s, p, post.ref) \in rows'
        /\ s.action # "trigger" =>
             \A r \in rows : Touched(r, s, takers) => Turned(r, s.action) \in rows'
        /\ \A r \in rows' :
              \/ r \in rows /\ ~Touched(r, s, takers)
              \/ s.action = "trigger" /\ \E p \in takers : r = NewRow(s, p, post.ref)
              \/ s.action # "trigger" /\ \E q \in rows : Touched(q, s, takers)
                                                         /\ r = Turned(q, s.action)
    BY <1>2, RowsAfter
  <1>4. \A p : /\ NewRow(s, p, post.ref).key = KeyOf(s)
               /\ NewRow(s, p, post.ref).provider = p
               /\ NewRow(s, p, post.ref).state = "trigger"
    BY DEF NewRow
  <1>5. \A r : /\ Turned(r, s.action).key = r.key
               /\ Turned(r, s.action).provider = r.provider
               /\ Turned(r, s.action).state = s.action
    BY DEF Turned
  <1>6. ASSUME NEW k, NEW p, ~(k = KeyOf(s) /\ p \in takers), NEW states
        PROVE  RowIn(k, p, states) <=> RowIn(k, p, states)'
    <2>1. ASSUME NEW r \in rows, r.key = k, r.provider = p PROVE r \in rows'
      BY <1>3, <1>6, <2>1 DEF Touched
    <2>2. ASSUME NEW r \in rows', r.key = k, r.provider = p PROVE r \in rows
      BY <1>3, <1>4, <1>5, <1>6, <2>2 DEF Touched
    <2> QED
      BY <2>1, <2>2 DEF RowIn
  <1>7. ASSUME NEW p \in takers, s.action = "trigger"
        PROVE  RowIn(KeyOf(s), p, {"trigger"})'
    BY <1>3, <1>4, <1>7 DEF RowIn
  <1>8. ASSUME NEW p \in takers, s.action # "trigger", HasRow(KeyOf(s), p)
        PROVE  RowIn(KeyOf(s), p, {s.action})'
    BY <1>3, <1>5, <1>8 DEF RowIn, HasRow, Touched
  <1>9. ASSUME NEW p \in takers, s.action # "trigger"
        PROVE  ~RowIn(KeyOf(s), p, {"trigger"})'
    BY <1>3, <1>5, <1>9 DEF RowIn, Touched
  <1>10. ASSUME NEW r \in rows'
         PROVE  r.key = KeyOf(s) \/ \E q \in rows : q.key = r.key
    BY <1>3, <1>4, <1>5
  <1>11. ASSUME NEW k, NEW p, HasRow(k, p) PROVE HasRow(k, p)'
    <2>1. CASE k = KeyOf(s) /\ p \in takers
      <3>1. CASE s.action = "trigger"
        BY <1>7, <2>1, <3>1 DEF RowIn, HasRow
      <3>2. CASE s.action # "trigger"
        BY <1>8, <1>11, <2>1, <3>2 DEF RowIn, HasRow
      <3> QED
        BY <3>1, <3>2
    <2>2. CASE ~(k = KeyOf(s) /\ p \in takers)
      <3>1. PICK r \in rows : r.key = k /\ r.provider = p
        BY <1>11 DEF HasRow
      <3>2. RowIn(k, p, {r.state})
        BY <3>1 DEF RowIn
      <3>3. RowIn(k, p, {r.state})'
        BY <1>6, <2>2, <3>2
      <3> QED
        BY <3>3 DEF RowIn, HasRow
    <2> QED
      BY <2>1, <2>2
  <1> QED
    BY <1>6, <1>7, <1>8, <1>9, <1>10, <1>11

LEMMA RequestKey ==
  ASSUME NEW p \in Paging, NEW s
  PROVE  RequestTo(p, s).key = CutKey(KeyOf(s), Limit[p])
  <1>1. CASE p = "pagerduty"
    BY <1>1 DEF RequestTo, PagerDuty, Limit
  <1>2. CASE p = "opsgenie"
    BY <1>2 DEF RequestTo, Opsgenie, Limit
  <1> QED
    BY <1>1, <1>2 DEF Paging

(* What a request does to the incidents of a service.                      *)
LEMMA IncidentsAfter ==
  ASSUME NEW p \in Paging, NEW s, s.action \in Actions,
         NEW id, id = CutKey(KeyOf(s), Limit[p]), NEW after, after = Incidents(p, s)
  PROVE  /\ s.action = "trigger" =>
              \E new : /\ \A i : i \in after <=> (i \in open[p] /\ i.id # id) \/ i = new
                       /\ new.id = id
                       /\ \A k : k \in new.raised <=>
                            \/ k = KeyOf(s)
                            \/ \E i \in open[p] : i.id = id /\ k \in i.raised
         /\ s.action = "acknowledge" => after = open[p]
         /\ s.action = "resolve" => \A i : i \in after <=> i \in open[p] /\ i.id # id
  <1>1. id = RequestTo(p, s).key
    BY RequestKey
  <1>2. CASE s.action = "trigger"
    <2> DEFINE same == {i \in open[p] : i.id = id}
               raised == {KeyOf(s)} \union UNION {i.raised : i \in same}
    <2>1. PICK new : new = [id |-> id, raised |-> raised]
      OBVIOUS
    <2>2. after = (open[p] \ same) \union {new}
      BY <1>1, <1>2, <2>1 DEF Incidents
    <2>3. new.id = id /\ new.raised = raised
      BY <2>1
    <2>4. \A k : k \in raised <=> k = KeyOf(s) \/ \E i \in open[p] : i.id = id /\ k \in i.raised
      <3>1. ASSUME NEW k, k \in raised, k # KeyOf(s)
            PROVE  \E i \in open[p] : i.id = id /\ k \in i.raised
        <4>1. PICK i \in same : k \in i.raised
          BY <3>1
        <4> QED
          BY <4>1, Zenon
      <3>2. ASSUME NEW k, NEW i \in open[p], i.id = id, k \in i.raised
            PROVE  k \in raised
        <4>1. i \in same
          BY <3>2, Zenon
        <4>2. k \in UNION {j.raised : j \in same}
          BY <3>2, <4>1, Zenon
        <4> QED
          BY <4>2, Zenon
      <3>3. KeyOf(s) \in raised
        OBVIOUS
      <3> HIDE DEF raised
      <3> QED
        BY <3>1, <3>2, <3>3
    <2> HIDE DEF raised
    <2>5. \A i : i \in after <=> (i \in open[p] /\ i.id # id) \/ i = new
      BY <1>1, <2>2
    <2> QED
      BY <1>2, <2>3, <2>4, <2>5
  <1>3. CASE s.action = "acknowledge"
    BY <1>3 DEF Incidents
  <1>4. CASE s.action = "resolve"
    BY <1>1, <1>4 DEF Incidents
  <1> QED
    BY <1>2, <1>3, <1>4 DEF Actions

CallKeys == {EffectiveDedupKey(calls[i]) : i \in DOMAIN calls}

(* Keys are not forgotten.                                                 *)
LEMMA KeysStay ==
  ASSUME \A k, p : HasRow(k, p) => HasRow(k, p)', CallKeys \subseteq CallKeys'
  PROVE  /\ KeysUsed \subseteq KeysUsed'
         /\ \A p : Clash(p) => Clash(p)'
  <1>1. \A r \in rows : \E q \in rows' : q.key = r.key
    <2>1. ASSUME NEW r \in rows PROVE \E q \in rows' : q.key = r.key
      <3>1. HasRow(r.key, r.provider)
        BY DEF HasRow
      <3>2. HasRow(r.key, r.provider)'
        <4>1. PICK k, p : k = r.key /\ p = r.provider
          OBVIOUS
        <4>2. HasRow(k, p)'
          BY <3>1, <4>1
        <4> QED
          BY <4>1, <4>2 DEF HasRow
      <3> QED
        BY <3>2 DEF HasRow
    <2> QED
      BY <2>1
  <1>2. KeysUsed \subseteq KeysUsed'
    <2>1. \A k \in {r.key : r \in rows} : k \in {r.key : r \in rows'}
      BY <1>1
    <2>2. KeysUsed = {r.key : r \in rows} \union CallKeys
      BY DEF KeysUsed, CallKeys
    <2>3. KeysUsed' = {r.key : r \in rows'} \union CallKeys'
      BY DEF KeysUsed, CallKeys
    <2> QED
      BY <2>1, <2>2, <2>3
  <1> QED
    BY <1>2 DEF Clash

(* A delivery leaves a service and the book of one mind.                   *)
LEMMA OpenStep ==
  ASSUME BookKept, OpenKept, CallKeys \subseteq CallKeys',
         NEW s, NEW takers, NEW ref, s.action \in Actions, takers \subseteq Keeping,
         s.action # "trigger" => KeyOf(s) \in KeysUsed',
         Deliver(s, takers, ref)
  PROVE  OpenKept'
  <1>1. /\ \A k, p : HasRow(k, p) => HasRow(k, p)'
        /\ \A k, p : ~(k = KeyOf(s) /\ p \in takers) =>
              \A states : RowIn(k, p, states) <=> RowIn(k, p, states)'
        /\ \A p \in takers : s.action = "trigger" => RowIn(KeyOf(s), p, {"trigger"})'
        /\ \A p \in takers : s.action # "trigger" =>
              /\ HasRow(KeyOf(s), p) => RowIn(KeyOf(s), p, {s.action})'
              /\ ~RowIn(KeyOf(s), p, {"trigger"})'
    BY RowsChange
  <1>2. KeysUsed \subseteq KeysUsed' /\ \A p : Clash(p) => Clash(p)'
    BY <1>1, KeysStay
  <1>3. /\ open = [p \in Paging |-> open[p]]
        /\ \A p \in Paging : IncidentsKept(p) /\ BookAgrees(p)
    BY DEF OpenKept
  <1>4. open' = [p \in Paging |-> IF p \in takers THEN Incidents(p, s) ELSE open[p]]
    BY DEF Deliver
  <1>5. ASSUME NEW p \in Paging PROVE IncidentsKept(p)' /\ BookAgrees(p)'
    <2> DEFINE cut(k) == CutKey(k, Limit[p])
    <2>1. /\ \A i, j \in open[p] : i.id = j.id => i = j
          /\ \A i \in open[p] : \A k \in i.raised : cut(k) = i.id /\ HasRow(k, p)
      BY <1>3 DEF IncidentsKept
    <2>2. ~Clash(p)' =>
            /\ \A i \in open[p] : \A k \in i.raised : RowIn(k, p, {"trigger", "acknowledge"})
            /\ \A k : RowIn(k, p, {"trigger"}) => Raised(k, p)
      BY <1>2, <1>3 DEF BookAgrees, RowIn
    <2>3. ASSUME NEW after, after = open'[p],
                 \A i, j \in after : i.id = j.id => i = j,
                 \A i \in after : \A k \in i.raised : cut(k) = i.id /\ HasRow(k, p)',
                 ~Clash(p)' =>
                   /\ \A i \in after : \A k \in i.raised :
                        RowIn(k, p, {"trigger", "acknowledge"})'
                   /\ \A k : RowIn(k, p, {"trigger"})' => \E i \in after : k \in i.raised
          PROVE  IncidentsKept(p)' /\ BookAgrees(p)'
      <3>1. IncidentsKept(p)'
        BY <2>3 DEF IncidentsKept
      <3>2. ASSUME NEW r \in rows', r.provider = p, r.state = "trigger", ~Clash(p)'
            PROVE  Raised(r.key, p)'
        <4>1. PICK k : k = r.key
          OBVIOUS
        <4>2. RowIn(k, p, {"trigger"})'
          BY <3>2, <4>1 DEF RowIn
        <4>3. \E i \in after : k \in i.raised
          BY <2>3, <3>2, <4>2
        <4> QED
          BY <2>3, <4>1, <4>3 DEF Raised
      <3> QED
        BY <2>3, <3>1, <3>2 DEF BookAgrees
    <2>4. PICK after : after = open'[p]
      OBVIOUS
    <2>5. CASE p \notin takers
      <3>1. after = open[p]
        BY <1>4, <2>4, <2>5
      <3>2. \A k, states : RowIn(k, p, states) <=> RowIn(k, p, states)'
        BY <1>1, <2>5
      <3> HIDE DEF cut
      <3> QED
        BY <1>1, <2>1, <2>2, <2>3, <2>4, <3>1, <3>2 DEF Raised
    <2>6. CASE p \in takers
      <3>1. after = Incidents(p, s)
        BY <1>4, <2>4, <2>6
      <3>2. PICK key, id : key = KeyOf(s) /\ id = cut(key)
        OBVIOUS
      <3>3. CASE s.action = "trigger"
        <4>1. PICK new :
                /\ \A i : i \in after <=> (i \in open[p] /\ i.id # id) \/ i = new
                /\ new.id = id
                /\ \A k : k \in new.raised <=>
                     k = key \/ \E i \in open[p] : i.id = id /\ k \in i.raised
          BY <3>1, <3>2, <3>3, IncidentsAfter
        <4>2. RowIn(key, p, {"trigger"})'
          BY <1>1, <2>6, <3>2, <3>3
        <4>3. HasRow(key, p)' /\ RowIn(key, p, {"trigger", "acknowledge"})'
          BY <4>2 DEF RowIn, HasRow
        <4> HIDE DEF cut
        <4>4. \A i, j \in after : i.id = j.id => i = j
          BY <2>1, <4>1
        <4>5. \A i \in after : \A k \in i.raised : cut(k) = i.id /\ HasRow(k, p)'
          <5>1. \A i \in open[p] : \A k \in i.raised : cut(k) = i.id /\ HasRow(k, p)'
            BY <1>1, <2>1
          <5> QED
            BY <3>2, <4>1, <4>3, <5>1
        <4>6. ASSUME ~Clash(p)'
              PROVE  /\ \A i \in after : \A k \in i.raised :
                          RowIn(k, p, {"trigger", "acknowledge"})'
                     /\ \A k : RowIn(k, p, {"trigger"})' => \E i \in after : k \in i.raised
          <5>1. \A i \in open[p] : \A k \in i.raised : RowIn(k, p, {"trigger", "acknowledge"})'
            BY <1>1, <2>2, <3>2, <4>3, <4>6
          <5>2. \A i \in after : \A k \in i.raised : RowIn(k, p, {"trigger", "acknowledge"})'
            BY <4>1, <4>3, <5>1
          <5>3. ASSUME NEW k, RowIn(k, p, {"trigger"})' PROVE \E i \in after : k \in i.raised
            <6>1. CASE k = key
              BY <4>1, <6>1
            <6>2. CASE k # key
              <7>1. RowIn(k, p, {"trigger"})
                BY <1>1, <3>2, <5>3, <6>2
              <7>2. PICK i \in open[p] : k \in i.raised
                BY <2>2, <4>6, <7>1 DEF Raised
              <7> QED
                BY <4>1, <7>2
            <6> QED
              BY <6>1, <6>2
          <5> QED
            BY <5>2, <5>3
        <4> QED
          BY <2>3, <2>4, <4>4, <4>5, <4>6
      <3>4. CASE s.action = "acknowledge"
        <4>1. after = open[p]
          BY <3>1, <3>4, IncidentsAfter
        <4>2. ~RowIn(key, p, {"trigger"})'
          BY <1>1, <2>6, <3>2, <3>4
        <4> HIDE DEF cut
        <4>3. \A i \in after : \A k \in i.raised : cut(k) = i.id /\ HasRow(k, p)'
          BY <1>1, <2>1, <4>1
        <4>4. ASSUME ~Clash(p)'
              PROVE  /\ \A i \in after : \A k \in i.raised :
                          RowIn(k, p, {"trigger", "acknowledge"})'
                     /\ \A k : RowIn(k, p, {"trigger"})' => \E i \in after : k \in i.raised
          <5>1. HasRow(key, p) => RowIn(key, p, {"trigger", "acknowledge"})'
            <6>1. HasRow(key, p) => RowIn(key, p, {"acknowledge"})'
              BY <1>1, <2>6, <3>2, <3>4
            <6> QED
              BY <6>1 DEF RowIn
          <5>2. \A i \in after : \A k \in i.raised : RowIn(k, p, {"trigger", "acknowledge"})'
            BY <1>1, <2>1, <2>2, <3>2, <4>1, <4>4, <5>1
          <5>3. \A k : RowIn(k, p, {"trigger"})' => \E i \in after : k \in i.raised
            BY <1>1, <2>2, <3>2, <4>1, <4>2, <4>4 DEF Raised
          <5> QED
            BY <5>2, <5>3
        <4> QED
          BY <2>1, <2>3, <2>4, <4>1, <4>3, <4>4
      <3>5. CASE s.action = "resolve"
        <4>1. \A i : i \in after <=> i \in open[p] /\ i.id # id
          BY <3>1, <3>2, <3>5, IncidentsAfter
        <4>2. ~RowIn(key, p, {"trigger"})'
          BY <1>1, <2>6, <3>2, <3>5
        <4> HIDE DEF cut
        <4>3. \A i \in after : \A k \in i.raised : cut(k) = i.id /\ HasRow(k, p)' /\ k # key
          BY <1>1, <2>1, <3>2, <4>1
        <4>4. ASSUME ~Clash(p)'
              PROVE  /\ \A i \in after : \A k \in i.raised :
                          RowIn(k, p, {"trigger", "acknowledge"})'
                     /\ \A k : RowIn(k, p, {"trigger"})' => \E i \in after : k \in i.raised
          <5>1. \A i \in after : \A k \in i.raised : RowIn(k, p, {"trigger", "acknowledge"})'
            BY <1>1, <2>2, <3>2, <4>1, <4>3, <4>4
          <5>2. ASSUME NEW k, RowIn(k, p, {"trigger"})' PROVE \E i \in after : k \in i.raised
            <6>1. k # key
              BY <4>2, <5>2
            <6>2. RowIn(k, p, {"trigger"})
              BY <1>1, <3>2, <5>2, <6>1
            <6>3. PICK i \in open[p] : k \in i.raised
              BY <2>2, <4>4, <6>2 DEF Raised
            <6>4. k \in KeysUsed' /\ key \in KeysUsed'
              <7>1. k \in KeysUsed
                BY <6>2 DEF RowIn, KeysUsed
              <7> QED
                BY <1>2, <3>2, <3>5, <7>1
            <6>5. cut(k) # cut(key)
              BY <4>4, <6>1, <6>4 DEF Clash, cut
            <6> QED
              BY <2>1, <3>2, <4>1, <6>3, <6>5
          <5> QED
            BY <5>1, <5>2
        <4>5. \A i, j \in after : i.id = j.id => i = j
          BY <2>1, <4>1
        <4> QED
          BY <2>3, <2>4, <4>3, <4>4, <4>5
      <3> QED
        BY <3>3, <3>4, <3>5 DEF Actions
    <2> QED
      BY <2>5, <2>6
  <1>6. open' = [p \in Paging |-> open'[p]]
    BY <1>4
  <1> QED
    BY <1>5, <1>6 DEF OpenKept

-----------------------------------------------------------------------------
(* What people read                                                        *)

LEMMA RenderedShows ==
  ASSUME NEW u \in Setups, NEW part
  PROVE  \/ Rendered(u.templates, part) = <<>>
         \/ \E text \in Writing : /\ Rendered(u.templates, part) = <<text>>
                                  /\ text = u.templates[part].text
                                  /\ ~IsBlank(text) /\ Shows(text)
  <1>1. \A q \in DOMAIN u.templates : u.templates[q].ok =>
          u.templates[q].text \in Texts /\ Shows(u.templates[q].text)
    BY RequestAssumption
  <1> QED
    BY <1>1, TextsAreWriting DEF Rendered

(* What stands in for a template says something, and so does the message.  *)
LEMMA OrShows ==
  ASSUME NEW u \in Setups, NEW part, NEW default, ~IsBlank(default)
  PROVE  ~IsBlank(Or(Rendered(u.templates, part), default))
  <1>1. CASE Rendered(u.templates, part) = <<>>
    BY <1>1 DEF Or
  <1>2. CASE Rendered(u.templates, part) # <<>>
    <2>1. PICK text : Rendered(u.templates, part) = <<text>> /\ ~IsBlank(text)
      BY <1>2, RenderedShows
    <2>2. Or(<<text>>, default) = text
      BY DEF Or
    <2> QED
      BY <2>1, <2>2
  <1> QED
    BY <1>1, <1>2

(* A summary says something, however a service cuts it.                    *)
LEMMA CutShows ==
  ASSUME NEW u \in Setups, NEW part, NEW title, ~IsBlank(title), Shows(title)
  PROVE  /\ ~IsBlank(Truncate(Or(Rendered(u.templates, part), title), MaxSummary))
         /\ ~IsBlank(Truncate(Or(Rendered(u.templates, part), title), MaxMessage))
  <1>1. CASE Rendered(u.templates, part) = <<>>
    <2>1. Or(Rendered(u.templates, part), title) = title
      BY <1>1 DEF Or
    <2> QED
      BY <2>1 DEF Shows
  <1>2. CASE Rendered(u.templates, part) # <<>>
    <2>1. PICK text : Rendered(u.templates, part) = <<text>> /\ ~IsBlank(text) /\ Shows(text)
      BY <1>2, RenderedShows
    <2>2. Or(<<text>>, title) = text
      BY DEF Or
    <2>3. Or(Rendered(u.templates, part), title) = text
      BY <2>1, <2>2
    <2> QED
      BY <2>1, <2>3 DEF Shows
  <1> QED
    BY <1>1, <1>2

(* The label, or what stands for it.                                       *)
LEMMA LabelWriting ==
  ASSUME NEW a \in Actions, NEW default \in Writing
  PROVE  Or(Label(a), default) \in Writing
  <1>1. CASE a = "trigger"
    BY <1>1 DEF Label, Or
  <1>2. CASE a = "acknowledge"
    <2>1. Label(a) = <<<<"Acknowledged">>>>
      BY <1>2 DEF Label
    <2>2. Or(Label(a), default) = <<"Acknowledged">>
      BY <2>1 DEF Or
    <2>3. "Acknowledged" \in Letters
      BY DEF Letters
    <2> QED
      BY <2>2, <2>3, OnePiece
  <1>3. CASE a = "resolve"
    <2>1. Label(a) = <<<<"Resolved">>>>
      BY <1>3 DEF Label
    <2>2. Or(Label(a), default) = <<"Resolved">>
      BY <2>1 DEF Or
    <2>3. "Resolved" \in Letters
      BY DEF Letters
    <2> QED
      BY <2>2, <2>3, OnePiece
  <1> QED
    BY <1>1, <1>2, <1>3 DEF Actions

LEMMA SaysSomething ==
  ASSUME NEW u \in Setups, NEW s, Sendable(s)
  PROVE  LET t == u.templates IN
         /\ ~IsLifecycle(s.action) =>
              ~IsBlank(PagerDuty(s, t).text) /\ ~IsBlank(Opsgenie(s, t).text)
         /\ ~IsBlank(SlackText(s, t)) /\ ~IsBlank(TeamsTitle(s, t))
         /\ ~IsBlank(EmailSubject(s, t, u.prefix)) /\ ~IsBlank(EmailBody(s, t))
         /\ ~IsBlank(ConsoleLine(s, t))
         /\ WebhookBody(s, t).json /\ ~IsBlank(WebhookBody(s, t).says)
         /\ HasFields(s)
  <1> DEFINE t == u.templates
  <1>1. /\ s.source \in Writing /\ s.title \in Writing /\ ~IsBlank(s.title) /\ HasFields(s)
        /\ s.message \in Seq(Writing) /\ s.action \in Actions
        /\ ~IsBlank(s.source)
    BY DEF Sendable, HasFields
  <1>2. /\ s.severity \in Letters /\ <<s.severity>> \in Writing
    <2>1. s.severity \in Letters
      BY DEF Sendable, Letters
    <2> QED
      BY <2>1 DEF Writing
  <1>3. Or(s.message, <<>>) \in Writing
    BY <1>1, OrWriting, NothingWritten
  <1>4. PICK body \in Writing : body = s.title \o Or(s.message, <<>>) /\ ~IsBlank(body)
    BY <1>1, <1>3, NotBlank
  <1>5. PICK head \in Writing : head = Or(Label(s.action), <<>>) \o s.title /\ ~IsBlank(head)
    <2>1. Or(Label(s.action), <<>>) \in Writing
      BY <1>1, LabelWriting, NothingWritten
    <2> QED
      BY <1>1, <2>1, NotBlank
  <1>6. PICK line \in Writing :
          line = Or(Label(s.action), <<s.severity>>) \o s.title /\ ~IsBlank(line)
    <2>1. Or(Label(s.action), <<s.severity>>) \in Writing
      BY <1>1, <1>2, LabelWriting
    <2> QED
      BY <1>1, <2>1, NotBlank
  <1>7. ASSUME ~IsLifecycle(s.action)
        PROVE  ~IsBlank(PagerDuty(s, t).text) /\ ~IsBlank(Opsgenie(s, t).text)
    <2>1. Shows(s.title)
      BY <1>7 DEF Sendable, IsLifecycle
    <2>2. PagerDuty(s, t).text = Truncate(Or(Rendered(t, "summary"), s.title), MaxSummary)
      BY <1>7 DEF PagerDuty
    <2>3. Opsgenie(s, t).text = Truncate(Or(Rendered(t, "message"), s.title), MaxMessage)
      BY <1>7 DEF Opsgenie
    <2> QED
      BY <1>1, <2>1, <2>2, <2>3, CutShows
  <1>8. ~IsBlank(SlackText(s, t))
    <2>1. ~IsBlank(head \o Or(s.message, <<>>))
      BY <1>3, <1>5, NotBlank
    <2> QED
      BY <1>5, <2>1, OrShows DEF SlackText
  <1>9. ~IsBlank(TeamsTitle(s, t))
    BY <1>5, OrShows DEF TeamsTitle
  <1>10. ~IsBlank(EmailSubject(s, t, u.prefix))
    <2>1. u.prefix \in Writing
      BY RequestAssumption, TextsAreWriting
    <2>2. PICK subject : subject = Or(Rendered(t, "subject"), line)
      OBVIOUS
    <2>3. ~IsBlank(subject)
      BY <1>6, <2>2, OrShows
    <2>4. subject \in Writing
      <3>1. CASE Rendered(t, "subject") = <<>>
        BY <2>2, <3>1 DEF Or
      <3>2. CASE Rendered(t, "subject") # <<>>
        <4>1. PICK text \in Writing : Rendered(t, "subject") = <<text>>
          BY <3>2, RenderedShows
        <4>2. Or(<<text>>, line) = text
          BY DEF Or
        <4> QED
          BY <2>2, <4>1, <4>2
      <3> QED
        BY <3>1, <3>2
    <2>5. ~IsBlank(u.prefix \o subject)
      BY <2>1, <2>3, <2>4, NotBlank
    <2> QED
      BY <1>6, <2>2, <2>5 DEF EmailSubject
  <1>11. ~IsBlank(EmailBody(s, t))
    BY <1>4, OrShows DEF EmailBody
  <1>12. ~IsBlank(ConsoleLine(s, t))
    <2>1. PICK label \in Writing : label = Or(Label(s.action), <<s.severity>>)
      BY <1>1, <1>2, LabelWriting
    <2>2. PICK origin \in Writing : origin = s.source \o label /\ ~IsBlank(origin)
      BY <1>1, <2>1, NotBlank
    <2>3. ~IsBlank(origin \o s.title)
      BY <1>1, <2>2, NotBlank
    <2> QED
      BY <2>1, <2>2, <2>3, OrShows DEF ConsoleLine
  <1>13. WebhookBody(s, t).json /\ ~IsBlank(WebhookBody(s, t).says)
    <2>1. CASE Rendered(t, "json") # <<>> /\ t["json"].json
      <3>1. ~IsBlank(t["json"].text)
        BY <2>1, RenderedShows
      <3>2. WebhookBody(s, t) = [json |-> TRUE, says |-> t["json"].text]
        BY <2>1 DEF WebhookBody
      <3> QED
        BY <3>1, <3>2
    <2>2. CASE ~(Rendered(t, "json") # <<>> /\ t["json"].json)
      <3>1. WebhookBody(s, t) = [json |-> TRUE, says |-> s.title]
        BY <2>2 DEF WebhookBody
      <3> QED
        BY <1>1, <3>1
    <2> QED
      BY <2>1, <2>2
  <1> QED
    BY <1>1, <1>7, <1>8, <1>9, <1>10, <1>11, <1>12, <1>13

-----------------------------------------------------------------------------
(* The calls                                                               *)

(* A signal that is raised.                                                *)
LEMMA RaisedShape ==
  ASSUME NEW in \in Inputs, in.action = "trigger", Validate(in)
  PROVE  Sendable(FromInput(in)) /\ FromInput(in).action = "trigger"
  <1>1. PICK m : m = FromInput(in)
    OBVIOUS
  <1>2. /\ m.source = in.source /\ m.event_type = in.event_type /\ m.title = in.title
        /\ m.message = in.message /\ m.severity = in.severity /\ m.action = in.action
        /\ KeyOf(m) = EffectiveDedupKey(in)
    <2>1. {"source", "event_type", "title", "message", "severity", "action"}
            \subseteq DOMAIN in \ {"dedup_key"}
      BY InputShape DEF Optional
    <2>2. \A f \in {"source", "event_type", "title", "message", "severity", "action"} :
            m[f] = in[f]
      BY <1>1, <2>1, FromInputKeeps
    <2> QED
      BY <1>1, <2>2, FromInputKeeps
  <1>3. HasFields(in)
    BY DEF Validate, IsLifecycle
  <1>4. Sendable(m)
    BY <1>2, <1>3, InputShape, GivenKeyIsAKey DEF Sendable, HasFields
  <1> QED
    BY <1>1, <1>2, <1>4

(* An acknowledge or a resolve, with what the book knows of its alert.     *)
LEMMA FollowShape ==
  ASSUME NEW in \in Inputs, IsLifecycle(in.action), Validate(in),
         NEW known, known = <<>> \/ \E title \in Writing : known = <<title>> /\ ~IsBlank(title),
         NEW s, s = FromInput(FillLifecycleDefaults(in, known))
  PROVE  Sendable(s) /\ KeyOf(s) = EffectiveDedupKey(in) /\ s.action = in.action
  <1>1. PICK filled : filled = FillLifecycleDefaults(in, known)
    OBVIOUS
  <1>2. {"source", "event_type", "title", "message", "severity", "action", "environment",
         "dedup_key"} \subseteq DOMAIN in
    BY InputShape DEF Optional
  <1>3. /\ in.source \in Writing /\ in.event_type \in Writing /\ in.title \in Writing
        /\ in.message \in Seq(Writing)
        /\ in.severity \in Range(Severities) /\ in.action \in Actions
    BY InputShape
  <1>4. /\ filled.source = (IF IsBlank(in.source) THEN <<"opssignal">> ELSE in.source)
        /\ filled.event_type = (IF IsBlank(in.event_type) THEN <<in.action>> ELSE in.event_type)
        /\ filled.title = (IF IsBlank(in.title)
                           THEN Or(known, EffectiveDedupKey(in).text) ELSE in.title)
        /\ \A f \in {"message", "severity", "action", "environment", "dedup_key"} :
             filled[f] = in[f]
        /\ DOMAIN filled = DOMAIN in
    BY <1>1, <1>2 DEF FillLifecycleDefaults
  <1>5. EffectiveDedupKey(filled) = EffectiveDedupKey(in)
    <2>1. CASE in.dedup_key # <<>>
      BY <1>4, <2>1 DEF EffectiveDedupKey
    <2>2. CASE in.dedup_key = <<>>
      <3>1. ~IsBlank(in.source) /\ ~IsBlank(in.event_type) /\ ~IsBlank(in.title)
        BY <2>2 DEF Validate, HasFields
      <3>2. /\ filled.source = in.source /\ filled.event_type = in.event_type
            /\ filled.title = in.title /\ filled.environment = in.environment
            /\ filled.dedup_key = in.dedup_key
        BY <1>4, <3>1
      <3> QED
        BY <3>2 DEF EffectiveDedupKey, ComputeDedupKey
    <2> QED
      BY <2>1, <2>2
  <1>6. /\ \A f \in DOMAIN in \ {"dedup_key"} : s[f] = filled[f]
        /\ KeyOf(s) = EffectiveDedupKey(in)
    BY <1>1, <1>2, <1>4, <1>5 DEF FromInput, KeyOf
  <1>7. /\ s.source = filled.source /\ s.event_type = filled.event_type
        /\ s.title = filled.title /\ s.message = in.message /\ s.severity = in.severity
        /\ s.action = in.action
    BY <1>2, <1>4, <1>6
  <1>8. s.source \in Writing /\ ~IsBlank(s.source)
    <2>1. <<"opssignal">> \in Writing /\ ~IsBlank(<<"opssignal">>)
      BY OnePiece DEF Letters
    <2> QED
      BY <1>3, <1>4, <1>7, <2>1
  <1>9. s.event_type \in Writing /\ ~IsBlank(s.event_type)
    <2>1. in.action \in Letters /\ in.action # " "
      BY <1>3 DEF Letters, Actions
    <2>2. <<in.action>> \in Writing /\ ~IsBlank(<<in.action>>)
      BY <2>1, OnePiece
    <2> QED
      BY <1>3, <1>4, <1>7, <2>2
  <1>10. s.title \in Writing /\ ~IsBlank(s.title)
    <2>1. CASE ~IsBlank(in.title)
      BY <1>3, <1>4, <1>7, <2>1
    <2>2. CASE IsBlank(in.title)
      <3>1. in.dedup_key # <<>> /\ ~IsBlank(in.dedup_key[1].text)
        BY <2>2 DEF Validate, HasFields
      <3>2. in.dedup_key[1].text \in Writing
        <4>1. in.dedup_key[1] \in [text : Texts, hash : {<<>>}, group : {<<>>}]
          BY <3>1, InputShape, FirstOf
        <4> QED
          BY <4>1, TextsAreWriting
      <3>3. EffectiveDedupKey(in).text = in.dedup_key[1].text
        BY <3>1 DEF EffectiveDedupKey
      <3>4. s.title = Or(known, in.dedup_key[1].text)
        BY <1>4, <1>7, <2>2, <3>3
      <3>5. CASE known = <<>>
        BY <3>1, <3>2, <3>4, <3>5 DEF Or
      <3>6. CASE known # <<>>
        <4>1. PICK title \in Writing : known = <<title>> /\ ~IsBlank(title)
          BY <3>6
        <4>2. Or(<<title>>, in.dedup_key[1].text) = title
          BY DEF Or
        <4> QED
          BY <3>4, <4>1, <4>2
      <3> QED
        BY <3>5, <3>6
    <2> QED
      BY <2>1, <2>2
  <1>11. KeyOf(s) \in AllKeys
    BY <1>6, GivenKeyIsAKey
  <1>12. Sendable(s)
    BY <1>3, <1>7, <1>8, <1>9, <1>10, <1>11 DEF Sendable, HasFields, IsLifecycle
  <1> QED
    BY <1>6, <1>7, <1>12

LEMMA CallMade ==
  ASSUME CallsKept, NEW in \in Inputs, Takes(in)
  PROVE  /\ calls' \in Seq(Inputs) /\ Len(calls') = Len(calls) + 1 /\ Len(calls') <= MaxCalls
         /\ CallKeys \subseteq CallKeys' /\ EffectiveDedupKey(in) \in CallKeys'
  <1>1. calls \in Seq(Inputs) /\ Len(calls) \in Nat /\ MaxCalls \in Nat
    BY RequestAssumption DEF CallsKept
  <1>2. calls' = Append(calls, in) /\ Len(calls) < MaxCalls
    BY DEF Takes
  <1>3. /\ calls' \in Seq(Inputs) /\ Len(calls') = Len(calls) + 1
        /\ DOMAIN calls = 1 .. Len(calls) /\ DOMAIN calls' = 1 .. Len(calls) + 1
        /\ \A i \in 1 .. Len(calls) : calls'[i] = calls[i]
        /\ calls'[Len(calls) + 1] = in
    BY <1>1, <1>2
  <1>4. \A i \in DOMAIN calls : i \in DOMAIN calls' /\ calls'[i] = calls[i]
    BY <1>1, <1>3
  <1>5. Len(calls) + 1 \in DOMAIN calls'
    BY <1>1, <1>3
  <1>6. CallKeys \subseteq CallKeys' /\ EffectiveDedupKey(in) \in CallKeys'
    BY <1>3, <1>4, <1>5 DEF CallKeys
  <1> QED
    BY <1>1, <1>2, <1>3, <1>6

LEMMA SentStep ==
  ASSUME NEW s, NEW takers, NEW ref, Sendable(s), Deliver(s, takers, ref)
  PROVE  SentKept'
  <1>1. sent' = <<s>>
    BY DEF Deliver
  <1>2. sent'[1] = s
    BY <1>1
  <1> QED
    BY <1>1, <1>2 DEF SentKept

LEMMA SetupKnown ==
  ASSUME CallsKept
  PROVE  setup.bot \in BOOLEAN
  BY RequestAssumption DEF CallsKept

LEMMA RequestInitInv == RequestInit => RequestInv
  <1> SUFFICES ASSUME RequestInit PROVE RequestInv
    OBVIOUS
  <1>1. CallsKept
    <2>1. held \in Groupings
      BY DEF RequestInit, Groupings
    <2>2. Len(calls) = 0 /\ Len(held) = 0 /\ calls \in Seq(Inputs)
          /\ digests \in Seq(SentGroups)
      BY DEF RequestInit
    <2> QED
      BY <2>1, <2>2, RequestAssumption DEF CallsKept, RequestInit
  <1>2. SentKept
    BY DEF RequestInit, SentKept
  <1>3. BookKept
    <2>1. posts \in Seq([key : AllKeys, shows : Actions])
      BY DEF RequestInit
    <2> QED
      BY <2>1 DEF RequestInit, BookKept
  <1>4. OpenKept
    BY DEF RequestInit, OpenKept, IncidentsKept, BookAgrees
  <1> QED
    BY <1>1, <1>2, <1>3, <1>4 DEF RequestInv

LEMMA RaiseStep ==
  ASSUME RequestInv, NEW in \in Inputs, NEW down, Raise(in, down)
  PROVE  RequestInv'
  <1>1. /\ in.action = "trigger" /\ Takes(in) /\ Validate(in)
        /\ Deliver(FromInput(in), Keeping \ down, <<>>)
        /\ UNCHANGED <<setup, held, digests>>
    BY DEF Raise, Takes
  <1>2. /\ calls' \in Seq(Inputs) /\ Len(calls') = Len(calls) + 1 /\ Len(calls') <= MaxCalls
        /\ CallKeys \subseteq CallKeys'
    BY <1>1, CallMade DEF RequestInv
  <1>3. PICK s, takers : s = FromInput(in) /\ takers = Keeping \ down
    OBVIOUS
  <1>4. /\ Sendable(s) /\ s.action = "trigger" /\ s.action \in Actions
        /\ takers \subseteq Keeping /\ Deliver(s, takers, <<>>)
    BY <1>1, <1>3, RaisedShape DEF Actions
  <1>5. RefRight(s, takers, <<>>)
    BY <1>4 DEF RefRight
  <1>6. CallsKept'
    <2>1. Len(calls) \in Nat /\ Len(held) \in Nat
      BY DEF RequestInv, CallsKept, Groupings
    <2> QED
      BY <1>1, <1>2, <2>1 DEF RequestInv, CallsKept, Groupings
  <1>7. BookKept'
    BY <1>1, <1>4, <1>5, BookStep, SetupKnown DEF RequestInv
  <1>8. OpenKept'
    BY <1>2, <1>4, OpenStep DEF RequestInv
  <1>9. SentKept'
    BY <1>4, SentStep
  <1> QED
    BY <1>6, <1>7, <1>8, <1>9 DEF RequestInv

LEMMA HoldStep ==
  ASSUME RequestInv, NEW in \in Inputs, Hold(in)
  PROVE  RequestInv'
  <1>1. /\ in.action = "trigger" /\ Takes(in) /\ Validate(in) /\ Matches(Rule, in)
        /\ held # <<>> => GroupValues(By, FromInput(in)) = GroupValues(By, held[1])
        /\ held' = Append(held, FromInput(in))
        /\ UNCHANGED <<setup, digests, sent, rows, open, posts>>
    BY DEF Hold, Takes
  <1>2. /\ calls' \in Seq(Inputs) /\ Len(calls') = Len(calls) + 1 /\ Len(calls') <= MaxCalls
        /\ CallKeys \subseteq CallKeys'
    BY <1>1, CallMade DEF RequestInv
  <1>3. held' \in Groupings /\ Len(held') <= Len(calls')
    <2>1. /\ held \in Seq(Groupable) /\ Len(held) \in Nat /\ Len(held) <= Len(calls)
          /\ Len(calls) \in Nat
          /\ \A i \in DOMAIN held : GroupValues(By, held[i]) = GroupValues(By, held[1])
      BY DEF RequestInv, CallsKept, Groupings
    <2>2. PICK m \in Groupable : m = FromInput(in)
      BY <1>1 DEF Groupable
    <2>3. /\ held' \in Seq(Groupable) /\ Len(held') = Len(held) + 1
          /\ DOMAIN held' = 1 .. Len(held) + 1 /\ DOMAIN held = 1 .. Len(held)
          /\ \A i \in 1 .. Len(held) : held'[i] = held[i]
          /\ held'[Len(held) + 1] = m
      BY <1>1, <2>1, <2>2
    <2>4. CASE held = <<>>
      <3>1. Len(held) = 0
        BY <2>4
      <3>2. DOMAIN held' = {1}
        BY <2>3, <3>1
      <3> QED
        BY <1>2, <2>1, <2>3, <3>2 DEF Groupings
    <2>5. CASE held # <<>>
      <3>1. 1 \in DOMAIN held
        BY <2>1, <2>5, FirstOf
      <3>2. held'[1] = held[1]
        BY <2>3, <3>1
      <3>3. \A i \in DOMAIN held' : GroupValues(By, held'[i]) = GroupValues(By, held'[1])
        <4>1. ASSUME NEW i \in DOMAIN held'
              PROVE  GroupValues(By, held'[i]) = GroupValues(By, held'[1])
          <5>1. CASE i \in DOMAIN held
            BY <2>1, <2>3, <3>2, <5>1
          <5>2. CASE i = Len(held) + 1
            BY <1>1, <2>2, <2>3, <2>5, <3>2, <5>2
          <5> QED
            BY <2>1, <2>3, <5>1, <5>2
        <4> QED
          BY <4>1
      <3> QED
        BY <1>2, <2>1, <2>3, <3>3 DEF Groupings
    <2> QED
      BY <2>4, <2>5
  <1>4. CallsKept'
    BY <1>1, <1>2, <1>3 DEF RequestInv, CallsKept
  <1>5. SentKept' /\ BookKept'
    BY <1>1 DEF RequestInv, SentKept, BookKept, RowRight
  <1>6. OpenKept'
    <2>1. \A k, p : HasRow(k, p) => HasRow(k, p)'
      BY <1>1 DEF HasRow
    <2>2. \A p : Clash(p) => Clash(p)'
      BY <1>2, <2>1, KeysStay
    <2>3. \A p \in Paging : IncidentsKept(p)'
      BY <1>1 DEF RequestInv, OpenKept, IncidentsKept, HasRow
    <2>4. \A p \in Paging : BookAgrees(p)'
      <3>1. ASSUME NEW p \in Paging, ~Clash(p)'
            PROVE  /\ \A i \in open'[p] : \A k \in i.raised :
                        RowIn(k, p, {"trigger", "acknowledge"})'
                   /\ \A r \in rows' : r.provider = p /\ r.state = "trigger" =>
                        Raised(r.key, p)'
        BY <1>1, <2>2, <3>1 DEF RequestInv, OpenKept, BookAgrees, RowIn, Raised
      <3> QED
        BY <3>1 DEF BookAgrees
    <2> QED
      BY <1>1, <2>3, <2>4 DEF RequestInv, OpenKept
  <1> QED
    BY <1>4, <1>5, <1>6 DEF RequestInv

LEMMA CloseStep ==
  ASSUME RequestInv, NEW down, CloseGroup(down)
  PROVE  RequestInv'
  <1>1. /\ held # <<>> /\ held \in Groupings
        /\ Deliver(DigestOf(held), Keeping \ down, <<>>)
        /\ digests' = Append(digests, [members |-> held, digest |-> DigestOf(held)])
        /\ held' = <<>> /\ UNCHANGED <<setup, calls>>
    BY DEF CloseGroup, DigestOf, RequestInv, CallsKept
  <1>2. PICK s, takers : s = DigestOf(held) /\ takers = Keeping \ down
    OBVIOUS
  <1>3. /\ Sendable(s) /\ s.action = "trigger" /\ s.action \in Actions
        /\ takers \subseteq Keeping /\ Deliver(s, takers, <<>>)
    BY <1>1, <1>2, DigestSendable DEF Actions
  <1>4. RefRight(s, takers, <<>>)
    BY <1>3 DEF RefRight
  <1>5. CallsKept'
    <2>1. held' \in Groupings /\ Len(held') = 0
      BY <1>1 DEF Groupings
    <2>2. Len(calls) \in Nat
      BY DEF RequestInv, CallsKept
    <2>3. PICK group \in SentGroups : group = [members |-> held, digest |-> DigestOf(held)]
      BY <1>1 DEF SentGroups
    <2>4. digests' \in Seq(SentGroups)
      <3>1. digests \in Seq(SentGroups) /\ digests' = Append(digests, group)
        BY <1>1, <2>3 DEF RequestInv, CallsKept
      <3> QED
        BY <3>1
    <2> QED
      BY <1>1, <2>1, <2>2, <2>4 DEF RequestInv, CallsKept
  <1>6. BookKept'
    BY <1>1, <1>3, <1>4, BookStep, SetupKnown DEF RequestInv
  <1>7. CallKeys \subseteq CallKeys'
    BY <1>1 DEF CallKeys
  <1>8. OpenKept'
    BY <1>3, <1>7, OpenStep DEF RequestInv
  <1>9. SentKept'
    BY <1>3, SentStep
  <1> QED
    BY <1>5, <1>6, <1>8, <1>9 DEF RequestInv

LEMMA FollowStep ==
  ASSUME RequestInv, NEW in \in Inputs, NEW down, Follow(in, down)
  PROVE  RequestInv'
  <1> DEFINE rowsNow == Unresolved(EffectiveDedupKey(in))
             titles == {r.title : r \in rowsNow}
             refs == {r.ref : r \in {q \in rowsNow : q.provider = "slack"}} \ {<<>>}
             holders == {r.provider : r \in rowsNow}
             takers == (IF holders = {} THEN Paging ELSE holders) \ down
             ref == IF refs = {} THEN <<>> ELSE CHOOSE x \in refs : TRUE
  <1>1. PICK known \in (IF titles = {} THEN {<<>>} ELSE {<<x>> : x \in titles}) :
          Deliver(FromInput(FillLifecycleDefaults(in, known)), takers, ref)
    BY DEF Follow
  <1>2. /\ IsLifecycle(in.action) /\ Takes(in) /\ Validate(in)
        /\ UNCHANGED <<setup, held, digests>>
    BY DEF Follow, Takes
  <1>3. /\ calls' \in Seq(Inputs) /\ Len(calls') = Len(calls) + 1 /\ Len(calls') <= MaxCalls
        /\ CallKeys \subseteq CallKeys' /\ EffectiveDedupKey(in) \in CallKeys'
    BY <1>2, CallMade DEF RequestInv
  <1>4. \A r : r \in rowsNow => r \in rows /\ r.key = EffectiveDedupKey(in) /\ RowRight(r)
    BY DEF Unresolved, RowsOf, RequestInv, BookKept
  <1>5. PICK s : s = FromInput(FillLifecycleDefaults(in, known))
    OBVIOUS
  <1>6. Sendable(s) /\ KeyOf(s) = EffectiveDedupKey(in) /\ s.action = in.action
    <2>1. known = <<>> \/ \E title \in Writing : known = <<title>> /\ ~IsBlank(title)
      <3>1. \A x \in titles : x \in Writing /\ ~IsBlank(x)
        BY <1>4, ZenonT(60) DEF RowRight
      <3> HIDE DEF titles
      <3> QED
        BY <1>1, <3>1
    <2> QED
      BY <1>2, <1>5, <2>1, FollowShape
  <1>7. takers \subseteq Keeping
    <2>1. \A x \in holders : x \in Keeping
      BY <1>4 DEF RowRight
    <2> HIDE DEF holders
    <2> QED
      BY <2>1 DEF Keeping
  <1>8. RefRight(s, takers, ref)
    <2>1. \A x \in refs : x[1] \in DOMAIN posts
      BY <1>4 DEF RowRight
    <2>2. ref # <<>> => ref \in refs
      <3> HIDE DEF refs
      <3> QED
        OBVIOUS
    <2>3. ASSUME "slack" \in takers
          PROVE  \E r \in rows : r.key = KeyOf(s) /\ r.provider = "slack" /\ r.ref = ref
      <3>1. "slack" \notin Paging
        BY DEF Paging
      <3>2. PICK r \in rowsNow : r.provider = "slack"
        BY <2>3, <3>1
      <3>3. \A q \in rowsNow : q.provider = "slack" => q = r
        BY <1>4, <3>2 DEF RequestInv, BookKept
      <3>4. \A x : x \in refs <=> x = r.ref /\ x # <<>>
        BY <3>2, <3>3
      <3>5. ref = r.ref
        <4> HIDE DEF refs
        <4> QED
          BY <3>4
      <3> QED
        BY <1>4, <1>6, <3>2, <3>5
    <2>4. s.action # "trigger"
      BY <1>2, <1>6 DEF IsLifecycle
    <2> HIDE DEF refs, takers, ref
    <2> QED
      BY <2>1, <2>2, <2>3, <2>4 DEF RefRight
  <1> HIDE DEF takers, ref
  <1>9. CallsKept'
    <2>1. Len(calls) \in Nat /\ Len(held) \in Nat
      BY DEF RequestInv, CallsKept, Groupings
    <2> QED
      BY <1>2, <1>3, <2>1 DEF RequestInv, CallsKept, Groupings
  <1>10. Deliver(s, takers, ref)
    BY <1>1, <1>5
  <1>11. BookKept'
    BY <1>2, <1>6, <1>7, <1>8, <1>10, BookStep, SetupKnown DEF RequestInv
  <1>12. OpenKept'
    <2>1. KeyOf(s) \in KeysUsed'
      BY <1>3, <1>6 DEF KeysUsed, CallKeys
    <2>2. s.action \in Actions
      BY <1>6 DEF Sendable
    <2> QED
      BY <1>3, <1>7, <1>10, <2>1, <2>2, OpenStep DEF RequestInv
  <1>13. SentKept'
    BY <1>6, <1>10, SentStep
  <1> QED
    BY <1>9, <1>11, <1>12, <1>13 DEF RequestInv

LEMMA RequestStay ==
  ASSUME RequestInv, UNCHANGED requestVars
  PROVE  RequestInv'
  <1>1. CallsKept' /\ SentKept' /\ BookKept'
    BY DEF RequestInv, requestVars, CallsKept, SentKept, BookKept, RowRight
  <1>2. OpenKept'
    BY DEF RequestInv, requestVars, OpenKept, IncidentsKept, BookAgrees, HasRow, RowIn, Raised,
           Clash, KeysUsed
  <1> QED
    BY <1>1, <1>2 DEF RequestInv

LEMMA RequestInvStep == RequestInv /\ [RequestNext]_requestVars => RequestInv'
  <1> SUFFICES ASSUME RequestInv, [RequestNext]_requestVars PROVE RequestInv'
    OBVIOUS
  <1>1. CASE \E in \in Inputs, down \in Outages : Raise(in, down)
    BY <1>1, RaiseStep
  <1>2. CASE \E in \in Inputs, down \in Outages : Follow(in, down)
    BY <1>2, FollowStep
  <1>3. CASE \E in \in Inputs : Hold(in)
    BY <1>3, HoldStep
  <1>4. CASE \E down \in Outages : CloseGroup(down)
    BY <1>4, CloseStep
  <1>5. CASE UNCHANGED requestVars
    BY <1>5, RequestStay
  <1> QED
    BY <1>1, <1>2, <1>3, <1>4, <1>5 DEF RequestNext, Rest

LEMMA RequestInvariant == RequestSpec => []RequestInv
  BY RequestInitInv, RequestInvStep, PTL DEF RequestSpec

-----------------------------------------------------------------------------
(* The properties                                                          *)

LEMMA RequestTypes == RequestInv => RequestTypeOK
  <1> SUFFICES ASSUME RequestInv PROVE RequestTypeOK
    OBVIOUS
  <1>1. setup \in Setups /\ Range(calls) \subseteq Inputs /\ Len(calls) <= MaxCalls
    <2>1. calls \in Seq(Inputs)
      BY DEF RequestInv, CallsKept
    <2>2. Range(calls) \subseteq Inputs
      BY <2>1 DEF Range
    <2> QED
      BY <2>2 DEF RequestInv, CallsKept
  <1>2. Len(held) <= MaxCalls
    <2>1. Len(calls) \in Nat /\ Len(held) \in Nat /\ MaxCalls \in Nat
      BY RequestAssumption DEF RequestInv, CallsKept, Groupings
    <2> QED
      BY <2>1 DEF RequestInv, CallsKept
  <1>3. Len(sent) <= 1
    <2>1. CASE sent = <<>>
      BY <2>1
    <2>2. CASE sent # <<>>
      <3>1. PICK s : sent = <<s>>
        BY <2>2 DEF RequestInv, SentKept
      <3> QED
        BY <3>1
    <2> QED
      BY <2>1, <2>2
  <1>4. \A r \in rows : r.provider \in Keeping /\ Range(r.ref) \subseteq DOMAIN posts
    <2>1. ASSUME NEW r \in rows
          PROVE  r.provider \in Keeping /\ Range(r.ref) \subseteq DOMAIN posts
      <3>1. RowRight(r)
        BY DEF RequestInv, BookKept
      <3>2. CASE r.ref = <<>>
        <4>1. Range(<<>>) = {}
          BY DEF Range
        <4> QED
          BY <3>1, <3>2, <4>1 DEF RowRight
      <3>3. CASE r.ref # <<>>
        <4>1. PICK n \in DOMAIN posts : r.ref = <<n>>
          BY <3>1, <3>3 DEF RowRight
        <4>2. Range(<<n>>) = {n}
          BY DEF Range
        <4> QED
          BY <3>1, <4>1, <4>2 DEF RowRight
      <3> QED
        BY <3>2, <3>3
    <2> QED
      BY <2>1
  <1>5. \A r, q \in rows : r.key = q.key /\ r.provider = q.provider => r = q
    BY DEF RequestInv, BookKept
  <1>6. \A p \in Paging : \A i, j \in open[p] : i.id = j.id => i = j
    BY DEF RequestInv, OpenKept, IncidentsKept
  <1> QED
    BY <1>1, <1>2, <1>3, <1>4, <1>5, <1>6 DEF RequestTypeOK

(* The book knows what is open at the services that page (alerts.rs,       *)
(* record and holders; pagerduty.rs and opsgenie.rs, the cut keys).        *)
THEOREM BookKnows == RequestSpec => []BookKnowsWhatIsOpen
  <1>1. RequestInv => BookKnowsWhatIsOpen
    <2> SUFFICES ASSUME RequestInv PROVE BookKnowsWhatIsOpen
      OBVIOUS
    <2>1. ASSUME NEW p \in Paging, ~Clash(p)
          PROVE  /\ UNION {i.raised : i \in open[p]} \subseteq
                      {r.key : r \in {q \in rows : q.provider = p
                                                   /\ q.state \in {"trigger", "acknowledge"}}}
                 /\ {r.key : r \in {q \in rows : q.provider = p /\ q.state \in {"trigger"}}}
                      \subseteq UNION {i.raised : i \in open[p]}
      <3>1. /\ \A i \in open[p] : \A k \in i.raised : RowIn(k, p, {"trigger", "acknowledge"})
            /\ \A r \in rows : r.provider = p /\ r.state = "trigger" => Raised(r.key, p)
        BY <2>1 DEF RequestInv, OpenKept, BookAgrees
      <3> QED
        BY <3>1 DEF RowIn, Raised
    <2> QED
      BY <2>1, RequestTypes DEF BookKnowsWhatIsOpen
  <1> QED
    BY <1>1, RequestInvariant, PTL

(* The message that the book refers to shows what became of its alert      *)
(* (slack.rs, send_with_ref), and every message says something             *)
(* (template.rs, render).                                                  *)
THEOREM MessagesTrue == RequestSpec => []MessagesSayWhatIs
  <1>1. RequestInv => MessagesSayWhatIs
    <2> SUFFICES ASSUME RequestInv PROVE MessagesSayWhatIs
      OBVIOUS
    <2>1. \A r \in rows :
            r.provider = "slack" /\ r.ref # <<>> =>
              posts[r.ref[1]] = [key |-> r.key, shows |-> r.state]
      BY DEF RequestInv, BookKept, RowRight
    <2>2. ASSUME NEW s \in Range(sent) PROVE Sendable(s)
      <3>1. CASE sent = <<>>
        <4>1. Range(<<>>) = {}
          BY DEF Range
        <4> QED
          BY <2>2, <3>1, <4>1
      <3>2. CASE sent # <<>>
        <4>1. PICK m : sent = <<m>> /\ Sendable(m)
          BY <3>2 DEF RequestInv, SentKept
        <4>2. Range(<<m>>) = {m}
          BY DEF Range
        <4> QED
          BY <2>2, <4>1, <4>2
      <3> QED
        BY <3>1, <3>2
    <2>3. setup \in Setups
      BY DEF RequestInv, CallsKept
    <2> QED
      BY <2>1, <2>2, <2>3, SaysSomething DEF MessagesSayWhatIs
  <1> QED
    BY <1>1, RequestInvariant, PTL

(* Two calls that leave the key to the core mean one alert exactly if      *)
(* their fields agree (signal.rs, compute_dedup_key).                      *)
THEOREM KeysTell == RequestSpec => []KeyTellsApart
  <1>1. RequestInv => KeyTellsApart
    <2> SUFFICES ASSUME RequestInv PROVE KeyTellsApart
      OBVIOUS
    <2>1. \A i \in DOMAIN calls : calls[i] \in Inputs
      BY DEF RequestInv, CallsKept
    <2> QED
      BY <2>1, HashTellsApart DEF KeyTellsApart
  <1> QED
    BY <1>1, RequestInvariant, PTL

(* A digest is as urgent as the worst of its members, matches the route    *)
(* they were held on and carries the values they were grouped by           *)
(* (group.rs, digest).                                                     *)
THEOREM DigestSpeaks == RequestSpec => []DigestSpeaksForAll
  <1>1. RequestInv => DigestSpeaksForAll
    <2> SUFFICES ASSUME RequestInv, NEW n \in DOMAIN digests
                 PROVE  LET digest == digests[n].digest
                            members == digests[n].members
                        IN /\ \A i \in DOMAIN members : \A p \in Paging :
                                Urgency(digest)[p] >= Urgency(members[i])[p]
                           /\ Matches(Rule, digest)
                           /\ \A b \in DOMAIN By :
                                By[b][1] \notin {"metadata", "title", "dedup_key"} =>
                                  FieldValue(digest, By[b]) = FieldValue(members[1], By[b])
      BY DEF DigestSpeaksForAll
    <2>1. digests[n] \in SentGroups
      BY DEF RequestInv, CallsKept
    <2>2. PICK g \in Groupings \ {<<>>} :
            digests[n] = [members |-> g, digest |-> DigestOf(g)]
      BY <2>1 DEF SentGroups
    <2>3. digests[n].members = g /\ digests[n].digest = DigestOf(g)
      BY <2>2
    <2> QED
      BY <2>2, <2>3, DigestAgrees
  <1> QED
    BY <1>1, RequestInvariant, PTL
=============================================================================
