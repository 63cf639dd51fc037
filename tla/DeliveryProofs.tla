--------------------------- MODULE DeliveryProofs ---------------------------
(***************************************************************************)
(* What a delivery does is what it reports and what it leaves stored, for  *)
(* every plan of any number of targets and providers.                      *)
(*                                                                         *)
(* The inductive invariant is IInv.  Walk ties a target's place in its     *)
(* chain to what the tracker says of every provider of the chain: before   *)
(* the place all have failed, behind it nobody was tried.  So the last     *)
(* provider tried is the one at the place, and the only one that can have  *)
(* delivered, which is why summarize may look at it alone.  Recorded says  *)
(* that the tracker, the store and the services agree about who was tried, *)
(* and Told what the result, the history and the saved rows say once there *)
(* is a result.                                                            *)
(***************************************************************************)
EXTENDS Delivery, WellFoundedInduction, TLAPS

Untried ==
  stage \in {"new", "recorded"} => \A t \in Targets : pos[t] = 0 /\ phase[t] = "waiting"

Trying ==
  \A t \in Targets : phase[t] \in {"calling", "accepted", "backoff"} =>
    pos[t] \in DOMAIN Chains[t] /\ At(t) \in Known /\ said[At(t)] = "pending"

Behind ==
  \A t \in Targets : \A i \in DOMAIN Chains[t] :
    /\ i > pos[t] => said[Chains[t][i]] = "none"
    /\ i < pos[t] /\ Chains[t][i] \in Known =>
         said[Chains[t][i]] = "failed" /\ tries[Chains[t][i]] = MaxAttempts
    /\ i < pos[t] /\ Chains[t][i] \notin Known => said[Chains[t][i]] = "none"

Retrying == \A t \in Targets : phase[t] = "backoff" => tries[At(t)] < MaxAttempts

Walk == Untried /\ Trying /\ Behind /\ Retrying

Planned == UNION {{Chains[t][i] : i \in DOMAIN Chains[t]} : t \in Targets}

Recorded ==
  /\ Deliveries \subseteq Planned
  /\ has \union astray \subseteq Deliveries
  /\ \A p \in Providers : said[p] = "none" => rows[p] = "none"
  /\ sinkOk => \A p \in Deliveries : rows[p] # "none"

Told ==
  /\ stage \in {"new", "recorded", "delivering"} => result = "none"
  /\ result # "none" => result = Promise!StatusOf(Reached)
  /\ ~kept => result = "failed"
  /\ stage = "saved" => head = result /\ \A p \in Providers : rows[p] = said[p]

IInv == TypeOK /\ Walk /\ Recorded /\ Told

-----------------------------------------------------------------------------

LessThan == {ss \in Nat \X Nat : ss[1] < ss[2]}

(* A set of naturals that is not empty has a least member.                 *)
LEMMA LeastMember ==
  ASSUME NEW S, S \subseteq Nat, S # {}
  PROVE  \E m \in S : \A n \in S : m <= n
  <1>1. IsWellFoundedOn(LessThan, Nat)
    BY NatLessThanWellFounded DEF OpToRel, LessThan
  <1>2. PICK m \in S : \A n \in S : <<n, m>> \notin LessThan
    BY <1>1, WFMin
  <1>3. ASSUME NEW n \in S PROVE m <= n
    <2>1. n < m => <<n, m>> \in LessThan
      BY DEF LessThan
    <2> QED
      BY <1>2, <2>1
  <1> QED
    BY <1>3

(* The next usable provider is the first known one after the place.        *)
LEMMA NextIsFirst ==
  ASSUME NEW t \in Targets, NEW i \in Nat
  PROVE  /\ Usable(t, i) = {} => NextUsable(t, i) = Len(Chains[t]) + 1
         /\ Usable(t, i) # {} =>
              /\ NextUsable(t, i) \in Usable(t, i)
              /\ \A l \in Usable(t, i) : NextUsable(t, i) <= l
  <1>1. CASE Usable(t, i) = {}
    BY <1>1 DEF NextUsable
  <1>2. CASE Usable(t, i) # {}
    <2>1. Usable(t, i) \subseteq Nat
      BY DeliveryAssumption DEF Usable, Targets
    <2>2. \E j \in Usable(t, i) : \A l \in Usable(t, i) : j <= l
      BY <1>2, <2>1, LeastMember
    <2> QED
      BY <1>2, <2>2 DEF NextUsable
  <1> QED
    BY <1>1, <1>2

(* So a place moves forward, over unknown providers only, to a known one   *)
(* or past the end.                                                        *)
LEMMA NextPlace ==
  ASSUME NEW t \in Targets, NEW i \in Nat, i <= Len(Chains[t])
  PROVE  LET n == NextUsable(t, i) IN
         /\ n \in Nat /\ i < n /\ n <= Len(Chains[t]) + 1
         /\ Usable(t, i) # {} => n \in DOMAIN Chains[t] /\ Chains[t][n] \in Known
         /\ Usable(t, i) = {} => n = Len(Chains[t]) + 1
         /\ \A j \in DOMAIN Chains[t] : i < j /\ j < n => Chains[t][j] \notin Known
  <1> DEFINE n == NextUsable(t, i)
  <1>1. Len(Chains[t]) \in Nat /\ DOMAIN Chains[t] = 1 .. Len(Chains[t])
    BY DeliveryAssumption DEF Targets
  <1>2. \A j \in DOMAIN Chains[t] : i < j /\ Chains[t][j] \in Known => j \in Usable(t, i)
    BY <1>1 DEF Usable
  <1>3. \A j \in Usable(t, i) : j \in DOMAIN Chains[t] /\ i < j /\ Chains[t][j] \in Known
    BY <1>1 DEF Usable
  <1> HIDE DEF n
  <1>4. CASE Usable(t, i) = {}
    <2>1. n = Len(Chains[t]) + 1
      BY <1>4, NextIsFirst DEF n
    <2> QED
      BY <1>1, <1>2, <1>4, <2>1 DEF n
  <1>5. CASE Usable(t, i) # {}
    <2>1. n \in Usable(t, i) /\ \A l \in Usable(t, i) : n <= l
      BY <1>5, NextIsFirst DEF n
    <2>2. n \in DOMAIN Chains[t] /\ i < n /\ Chains[t][n] \in Known
      BY <1>3, <2>1
    <2>3. ASSUME NEW j \in DOMAIN Chains[t], i < j, j < n PROVE Chains[t][j] \notin Known
      BY <1>1, <1>2, <2>1, <2>2, <2>3
    <2> QED
      BY <1>1, <1>5, <2>2, <2>3 DEF n
  <1> QED
    BY <1>4, <1>5

LEMMA InitInv == Init => IInv
  <1> SUFFICES ASSUME Init PROVE IInv
    OBVIOUS
  <1> USE DeliveryAssumption DEF Init
  <1>1. TypeOK
    BY DEF TypeOK, Targets
  <1>2. Walk
    BY DEF Walk, Untried, Trying, Behind, Retrying, Targets
  <1>3. Recorded
    BY DEF Recorded, Deliveries
  <1>4. Told
    BY DEF Told
  <1> QED
    BY <1>1, <1>2, <1>3, <1>4 DEF IInv

(* Who is called next is at its target's new place, and nobody else is.    *)
LEMMA CalledAreAtPlace ==
  ASSUME TypeOK, NEW T \in SUBSET Targets, \A t \in T : pos[t] <= Len(Chains[t]),
         Advance(T), NEW t \in Targets, NEW i \in DOMAIN Chains[t]
  PROVE  Chains[t][i] \in Called(T, pos) <=> t \in T /\ Usable(t, pos[t]) # {} /\ i = pos'[t]
  <1>1. \A u \in T : pos[u] \in Nat /\ pos'[u] = NextUsable(u, pos[u])
    BY DEF TypeOK, Advance
  <1>2. ASSUME NEW u \in T, Usable(u, pos[u]) # {} PROVE NextUsable(u, pos[u]) \in DOMAIN Chains[u]
    BY <1>1, <1>2, NextPlace
  <1>3. ASSUME Chains[t][i] \in Called(T, pos)
        PROVE  t \in T /\ Usable(t, pos[t]) # {} /\ i = pos'[t]
    <2>1. PICK u \in T : Usable(u, pos[u]) # {} /\ Chains[t][i] = Chains[u][NextUsable(u, pos[u])]
      BY <1>3 DEF Called
    <2>2. u = t /\ i = NextUsable(u, pos[u])
      BY <1>2, <2>1, DeliveryAssumption DEF Targets
    <2> QED
      BY <1>1, <2>1, <2>2
  <1>4. ASSUME t \in T, Usable(t, pos[t]) # {}, i = pos'[t] PROVE Chains[t][i] \in Called(T, pos)
    BY <1>1, <1>4 DEF Called
  <1> QED
    BY <1>3, <1>4

LEMMA CalledAreProviders ==
  ASSUME TypeOK, NEW T \in SUBSET Targets, \A t \in T : pos[t] <= Len(Chains[t])
  PROVE  Called(T, pos) \subseteq Providers /\ Called(T, pos) \subseteq Planned
  <1>1. ASSUME NEW u \in T, Usable(u, pos[u]) # {} PROVE NextUsable(u, pos[u]) \in DOMAIN Chains[u]
    BY <1>1, NextPlace DEF TypeOK
  <1>2. ASSUME NEW u \in Targets, NEW i \in DOMAIN Chains[u] PROVE Chains[u][i] \in Providers
    <2>1. Chains[u] \in Seq(Providers)
      BY DeliveryAssumption DEF Targets
    <2> QED
      BY <2>1
  <1>3. ASSUME NEW p \in Called(T, pos) PROVE p \in Providers /\ p \in Planned
    <2>1. PICK u \in T : Usable(u, pos[u]) # {} /\ p = Chains[u][NextUsable(u, pos[u])]
      BY DEF Called
    <2>2. NextUsable(u, pos[u]) \in DOMAIN Chains[u]
      BY <1>1, <2>1
    <2> QED
      BY <1>2, <2>1, <2>2 DEF Planned
  <1> QED
    BY <1>3

(* Targets that move on from a provider that has used up its attempts (or  *)
(* begin) keep their walk: the place they leave is one more that failed.   *)
LEMMA MovesOn ==
  ASSUME TypeOK, Walk, NEW T \in SUBSET Targets, NEW Gone \in SUBSET Providers, Advance(T),
         \A t \in T : pos[t] <= Len(Chains[t]),
         \A t \in T : pos[t] \in DOMAIN Chains[t] =>
           At(t) \in Gone /\ At(t) \in Known /\ tries[At(t)] = MaxAttempts,
         \A p \in Gone : \E t \in T : pos[t] \in DOMAIN Chains[t] /\ p = At(t),
         \A p \in Providers :
           said'[p] = IF p \in Gone THEN "failed"
                      ELSE IF p \in Called(T, pos) THEN "pending" ELSE said[p],
         stage' = "delivering"
  PROVE  Walk'
  <1> DEFINE C == Called(T, pos)
  <1>1. ASSUME NEW t \in Targets PROVE pos[t] \in Nat /\ pos'[t] \in Nat /\ (t \notin T => pos'[t] = pos[t])
    BY <1>1, NextPlace DEF TypeOK, Advance
  <1>2. ASSUME NEW t \in Targets, NEW i \in DOMAIN Chains[t]
        PROVE  i \in Nat /\ Chains[t][i] \in Providers
    <2>1. Chains[t] \in Seq(Providers)
      BY DeliveryAssumption DEF Targets
    <2> QED
      BY <2>1
  <1>3. ASSUME NEW t \in Targets, NEW i \in DOMAIN Chains[t]
        PROVE  Chains[t][i] \in Gone <=> t \in T /\ i = pos[t]
    BY <1>3, DeliveryAssumption DEF Targets, At
  <1>4. ASSUME NEW t \in Targets, NEW i \in DOMAIN Chains[t]
        PROVE  Chains[t][i] \in C <=> t \in T /\ Usable(t, pos[t]) # {} /\ i = pos'[t]
    BY <1>4, CalledAreAtPlace
  <1>5. ASSUME NEW t \in T
        PROVE  /\ pos[t] < pos'[t]
               /\ Usable(t, pos[t]) # {} => pos'[t] \in DOMAIN Chains[t] /\ Chains[t][pos'[t]] \in Known
               /\ Usable(t, pos[t]) = {} => pos'[t] = Len(Chains[t]) + 1
               /\ \A j \in DOMAIN Chains[t] : pos[t] < j /\ j < pos'[t] => Chains[t][j] \notin Known
    BY <1>1, <1>5, NextPlace DEF Advance
  <1>6. ASSUME NEW p \in Providers
        PROVE  tries'[p] = IF p \in C THEN 1 ELSE tries[p]
    BY <1>6 DEF Advance
  <1>7. ASSUME NEW t \in Targets
        PROVE  phase'[t] = IF t \notin T THEN phase[t]
                           ELSE IF Usable(t, pos[t]) = {} THEN "over" ELSE "calling"
    BY <1>7 DEF Advance
  <1>8. ASSUME NEW p \in Providers
        PROVE  said'[p] = IF p \in Gone THEN "failed" ELSE IF p \in C THEN "pending" ELSE said[p]
    BY <1>8
  <1> HIDE DEF C
  <1>9. Trying'
    <2> SUFFICES ASSUME NEW t \in Targets, phase'[t] \in {"calling", "accepted", "backoff"}
                 PROVE  /\ pos'[t] \in DOMAIN Chains[t] /\ At(t)' \in Known
                        /\ said'[At(t)'] = "pending"
      BY DEF Trying
    <2>1. At(t)' = Chains[t][pos'[t]]
      BY DEF At
    <2>2. CASE t \in T
      <3>1. Usable(t, pos[t]) # {}
        BY <1>7, <2>2
      <3>2. pos'[t] \in DOMAIN Chains[t] /\ At(t)' \in Known /\ pos[t] < pos'[t]
        <4>1. pos'[t] \in DOMAIN Chains[t] /\ Chains[t][pos'[t]] \in Known /\ pos[t] < pos'[t]
          BY <1>5, <2>2, <3>1
        <4> QED
          BY <2>1, <4>1
      <3>3. At(t)' \in C /\ At(t)' \notin Gone /\ At(t)' \in Providers
        <4>1. PICK i \in DOMAIN Chains[t] : i = pos'[t] /\ i # pos[t]
          BY <1>1, <3>2
        <4>2. Chains[t][i] \in C
          BY <1>4, <2>2, <3>1, <4>1
        <4>3. Chains[t][i] \notin Gone /\ Chains[t][i] \in Providers
          BY <1>2, <1>3, <4>1
        <4> QED
          BY <2>1, <4>1, <4>2, <4>3
      <3> QED
        BY <1>8, <3>2, <3>3
    <2>3. CASE t \notin T
      <3>1. pos[t] \in DOMAIN Chains[t] /\ At(t) \in Known /\ said[At(t)] = "pending"
        BY <1>7, <2>3 DEF Walk, Trying
      <3>2. At(t)' = At(t) /\ At(t) \notin Gone /\ At(t) \notin C /\ At(t) \in Providers
        BY <1>1, <1>2, <1>3, <1>4, <2>1, <2>3, <3>1 DEF At
      <3> QED
        BY <1>1, <1>8, <2>3, <3>1, <3>2 DEF At
    <2> QED
      BY <2>2, <2>3
  <1>10. Behind'
    <2> SUFFICES ASSUME NEW t \in Targets, NEW i \in DOMAIN Chains[t]
                 PROVE  /\ i > pos'[t] => said'[Chains[t][i]] = "none"
                        /\ i < pos'[t] /\ Chains[t][i] \in Known =>
                             said'[Chains[t][i]] = "failed" /\ tries'[Chains[t][i]] = MaxAttempts
                        /\ i < pos'[t] /\ Chains[t][i] \notin Known => said'[Chains[t][i]] = "none"
      BY DEF Behind
    <2> DEFINE p == Chains[t][i]
    <2>1. p \in Providers /\ i \in Nat /\ pos[t] \in Nat /\ pos'[t] \in Nat
      BY <1>1, <1>2
    <2>2. /\ i > pos[t] => said[p] = "none"
          /\ i < pos[t] /\ p \in Known => said[p] = "failed" /\ tries[p] = MaxAttempts
          /\ i < pos[t] /\ p \notin Known => said[p] = "none"
      BY DEF Walk, Behind
    <2>3. p \in Gone <=> t \in T /\ i = pos[t]
      BY <1>3
    <2>4. p \in C <=> t \in T /\ Usable(t, pos[t]) # {} /\ i = pos'[t]
      BY <1>4
    <2>5. said'[p] = IF p \in Gone THEN "failed" ELSE IF p \in C THEN "pending" ELSE said[p]
      BY <1>8, <2>1
    <2>6. tries'[p] = IF p \in C THEN 1 ELSE tries[p]
      BY <1>6, <2>1
    <2>7. t \in T /\ i = pos[t] => p \in Known /\ tries[p] = MaxAttempts
      BY DEF At
    <2>8. t \in T => pos[t] < pos'[t] /\ (pos[t] < i /\ i < pos'[t] => p \notin Known)
      BY <1>5
    <2> HIDE DEF p
    <2>9. CASE t \in T
      <3>1. i > pos'[t] => p \notin Gone /\ p \notin C /\ i > pos[t]
        BY <2>1, <2>3, <2>4, <2>8, <2>9
      <3>2. i < pos'[t] => p \notin C /\ (i < pos[t] \/ i = pos[t] \/ p \notin Known)
        BY <2>1, <2>4, <2>8, <2>9
      <3>3. i < pos'[t] /\ i > pos[t] => p \notin Known /\ p \notin Gone /\ said[p] = "none"
        BY <2>1, <2>2, <2>3, <2>8, <2>9
      <3>4. i = pos[t] => p \in Gone /\ p \in Known /\ tries[p] = MaxAttempts
        BY <2>3, <2>7, <2>9
      <3>5. i < pos[t] => p \notin Gone
        BY <2>1, <2>3
      <3> QED
        BY <2>1, <2>2, <2>5, <2>6, <3>1, <3>2, <3>3, <3>4, <3>5 DEF p
    <2>10. CASE t \notin T
      <3>1. pos'[t] = pos[t] /\ p \notin Gone /\ p \notin C
        BY <1>1, <2>3, <2>4, <2>10
      <3> QED
        BY <2>2, <2>5, <2>6, <3>1 DEF p
    <2> QED
      BY <2>9, <2>10 DEF p
  <1>11. Retrying'
    <2> SUFFICES ASSUME NEW t \in Targets, phase'[t] = "backoff"
                 PROVE  tries'[At(t)'] < MaxAttempts
      BY DEF Retrying
    <2>1. t \notin T /\ phase[t] = "backoff"
      BY <1>7
    <2>2. pos[t] \in DOMAIN Chains[t] /\ tries[At(t)] < MaxAttempts
      BY <2>1 DEF Walk, Trying, Retrying
    <2>3. At(t)' = At(t) /\ At(t) \in Providers /\ At(t) \notin C
      BY <1>1, <1>2, <1>4, <2>1, <2>2 DEF At
    <2> QED
      BY <1>6, <2>2, <2>3
  <1> QED
    BY <1>9, <1>10, <1>11 DEF Walk, Untried

-----------------------------------------------------------------------------

Says == {"none", "pending", "delivered", "failed"}

(* What a report writes is in memory, and in the sink unless it failed.    *)
LEMMA Reported ==
  ASSUME TypeOK, NEW D \in SUBSET Providers, NEW news \in [D -> Says \ {"none"}], Report(news)
  PROVE  /\ said' \in [Providers -> Says] /\ rows' \in [Providers -> Says] /\ sinkOk' \in BOOLEAN
         /\ \A p \in Providers : said'[p] = IF p \in D THEN news[p] ELSE said[p]
         /\ Deliveries' = Deliveries \union D
         /\ \A p \in Providers : rows'[p] = rows[p] \/ (p \in D /\ rows'[p] = news[p])
         /\ sinkOk' => sinkOk /\ \A p \in D : rows'[p] = news[p]
  <1>1. DOMAIN news = D /\ \A p \in D : news[p] \in Says \ {"none"}
    OBVIOUS
  <1>2. PICK lost \in SUBSET D :
          /\ rows' = [p \in Providers |-> IF p \in D \ lost THEN news[p] ELSE rows[p]]
          /\ sinkOk' = (sinkOk /\ lost = {})
    BY <1>1 DEF Report
  <1>3. said' = [p \in Providers |-> IF p \in D THEN news[p] ELSE said[p]]
    BY <1>1 DEF Report
  <1>4. said' \in [Providers -> Says]
    BY <1>1, <1>3 DEF TypeOK, Says
  <1>5. rows' \in [Providers -> Says] /\ sinkOk' \in BOOLEAN
    BY <1>1, <1>2 DEF TypeOK, Says
  <1>6. Deliveries' = Deliveries \union D
    BY <1>1, <1>3 DEF Deliveries, Says
  <1> QED
    BY <1>1, <1>2, <1>3, <1>4, <1>5, <1>6

LEMMA RecordedAfterReport ==
  ASSUME IInv, NEW D \in SUBSET Providers, D \subseteq Planned,
         NEW news \in [D -> Says \ {"none"}], Report(news),
         has' \union astray' \subseteq Deliveries \union D
  PROVE  Recorded'
  <1> USE Reported DEF IInv, Recorded
  <1>1. (Deliveries \subseteq Planned)'
    <2>1. Planned' = Planned
      BY DEF Planned, Targets
    <2> QED
      BY <2>1
  <1>2. (has \union astray \subseteq Deliveries)'
    OBVIOUS
  <1>3. ASSUME NEW p \in Providers, said'[p] = "none" PROVE rows'[p] = "none"
    BY <1>3, ZenonT(60) DEF Says
  <1>4. ASSUME sinkOk', NEW p \in Deliveries' PROVE rows'[p] # "none"
    <2>1. CASE p \in D
      BY <1>4, <2>1 DEF Says
    <2>2. CASE p \notin D
      BY <1>4, <2>2 DEF Deliveries, Says
    <2> QED
      BY <2>1, <2>2
  <1> QED
    BY <1>1, <1>2, <1>3, <1>4

(* The provider a target is busy with.                                     *)
LEMMA Busy ==
  ASSUME IInv, NEW t \in Targets, phase[t] \in {"calling", "accepted", "backoff"}
  PROVE  /\ pos[t] \in DOMAIN Chains[t] /\ pos[t] <= Len(Chains[t])
         /\ At(t) \in Providers /\ At(t) \in Known /\ At(t) \in Planned
         /\ said[At(t)] = "pending" /\ At(t) \in Deliveries
         /\ tries[At(t)] \in 0 .. MaxAttempts
  <1>1. Chains[t] \in Seq(Providers)
    BY DeliveryAssumption DEF Targets
  <1>2. pos[t] \in DOMAIN Chains[t] /\ At(t) \in Known /\ said[At(t)] = "pending"
    BY DEF IInv, Walk, Trying
  <1>3. At(t) \in Providers /\ pos[t] <= Len(Chains[t])
    BY <1>1, <1>2 DEF At
  <1> QED
    BY <1>2, <1>3 DEF IInv, TypeOK, Planned, At, Deliveries

LEMMA AdvanceTypes ==
  ASSUME TypeOK, NEW T \in SUBSET Targets, \A t \in T : pos[t] <= Len(Chains[t]), Advance(T)
  PROVE  /\ pos' \in [Targets -> Nat] /\ \A t \in Targets : pos'[t] <= Len(Chains[t]) + 1
         /\ phase' \in [Targets -> {"waiting", "calling", "accepted", "backoff", "over"}]
         /\ tries' \in [Providers -> 0 .. MaxAttempts]
  <1>1. ASSUME NEW t \in T
        PROVE  NextUsable(t, pos[t]) \in Nat /\ NextUsable(t, pos[t]) <= Len(Chains[t]) + 1
    BY <1>1, NextPlace DEF TypeOK
  <1>2. pos' \in [Targets -> Nat] /\ \A t \in Targets : pos'[t] <= Len(Chains[t]) + 1
    BY <1>1 DEF Advance, TypeOK
  <1>3. phase' \in [Targets -> {"waiting", "calling", "accepted", "backoff", "over"}]
    BY DEF Advance, TypeOK
  <1>4. tries' \in [Providers -> 0 .. MaxAttempts]
    BY DeliveryAssumption DEF Advance, TypeOK
  <1> QED
    BY <1>2, <1>3, <1>4

-----------------------------------------------------------------------------

(* One step after another; first the ones that report.                     *)
LEMMA BeginStep == IInv /\ Begin => IInv'
  <1> SUFFICES ASSUME IInv, Begin PROVE IInv'
    OBVIOUS
  <1> DEFINE C == Called(Targets, pos)
             news == [p \in C |-> "pending"]
  <1>1. \A t \in Targets : pos[t] = 0 /\ pos[t] \notin DOMAIN Chains[t] /\ pos[t] <= Len(Chains[t])
    <2>1. \A t \in Targets : pos[t] = 0
      BY DEF IInv, Walk, Untried, Begin
    <2>2. \A t \in Targets : Chains[t] \in Seq(Providers)
      BY DeliveryAssumption DEF Targets
    <2> QED
      BY <2>1, <2>2
  <1>2. C \subseteq Providers /\ C \subseteq Planned
    BY <1>1, CalledAreProviders DEF IInv
  <1>3. news \in [C -> Says \ {"none"}] /\ Report(news)
    BY DEF Begin, Says
  <1>4. Advance(Targets) /\ stage' = "delivering"
    BY DEF Begin
  <1> HIDE DEF C, news
  <1>5. TypeOK'
    BY <1>1, <1>2, <1>3, <1>4, Reported, AdvanceTypes DEF IInv, TypeOK, Begin, Says
  <1>6. Walk'
    <2> DEFINE Gone == {}
    <2>1. ASSUME NEW p \in Providers
          PROVE  said'[p] = IF p \in Gone THEN "failed"
                            ELSE IF p \in Called(Targets, pos) THEN "pending" ELSE said[p]
      BY <1>2, <1>3, Reported, ZenonT(60) DEF IInv, news, C
    <2>2. Gone \in SUBSET Providers /\ \A p : p \notin Gone
      OBVIOUS
    <2> HIDE DEF Gone
    <2> QED
      BY <1>1, <1>4, <2>1, <2>2, MovesOn DEF IInv
  <1>7. Recorded'
    <2>1. has' \union astray' \subseteq Deliveries \union C
      BY DEF Begin, IInv, Recorded
    <2> QED
      BY <1>2, <1>3, <2>1, RecordedAfterReport
  <1>8. Told'
    BY DEF IInv, Told, Begin
  <1> QED
    BY <1>5, <1>6, <1>7, <1>8 DEF IInv

LEMMA SucceedsStep == ASSUME IInv, NEW t \in Targets, AttemptSucceeds(t) PROVE IInv'
  <1> DEFINE D == {At(t)}
             news == [p \in D |-> "delivered"]
  <1> USE DEF IInv
  <1>1. /\ pos[t] \in DOMAIN Chains[t] /\ At(t) \in Providers /\ At(t) \in Known /\ At(t) \in Planned
        /\ said[At(t)] = "pending" /\ At(t) \in Deliveries
    BY Busy DEF AttemptSucceeds
  <1>2. news \in [D -> Says \ {"none"}] /\ Report(news) /\ D \subseteq Providers /\ D \subseteq Planned
    BY <1>1 DEF AttemptSucceeds, Says
  <1>3. \A p \in Providers : said'[p] = IF p = At(t) THEN "delivered" ELSE said[p]
    <2>1. \A p : (p \in D <=> p = At(t)) /\ (p \in D => news[p] = "delivered")
      OBVIOUS
    <2> HIDE DEF D, news
    <2>2. \A p \in Providers : said'[p] = IF p \in D THEN news[p] ELSE said[p]
      BY <1>2, Reported
    <2> QED
      BY <2>1, <2>2
  <1>4. phase' = [phase EXCEPT ![t] = "over"] /\ stage' = stage /\ stage = "delivering"
        /\ UNCHANGED <<pos, tries, result, kept, head, has, astray, blocking>>
    BY DEF AttemptSucceeds
  <1>5. TypeOK'
    BY <1>2, <1>4, Reported DEF TypeOK, Says
  <1> HIDE DEF D, news
  <1>6. ASSUME NEW u \in Targets, NEW i \in DOMAIN Chains[u]
        PROVE  /\ Chains[u][i] \in Providers /\ i \in Nat
               /\ Chains[u][i] = At(t) => u = t /\ i = pos[t]
    <2>1. Chains[u] \in Seq(Providers)
      BY DeliveryAssumption DEF Targets
    <2>2. Chains[u][i] = At(t) => u = t /\ i = pos[t]
      BY <1>1, DeliveryAssumption DEF At, Targets
    <2> QED
      BY <2>1, <2>2
  <1>7. Walk'
    <2>1. Untried'
      BY <1>4 DEF Untried
    <2>2. Trying'
      <3> SUFFICES ASSUME NEW u \in Targets, phase'[u] \in {"calling", "accepted", "backoff"}
                   PROVE  pos[u] \in DOMAIN Chains[u] /\ At(u) \in Known /\ said'[At(u)] = "pending"
        BY <1>4 DEF Trying, At
      <3>1. u # t /\ phase[u] = phase'[u]
        BY <1>4 DEF TypeOK
      <3>2. pos[u] \in DOMAIN Chains[u] /\ At(u) \in Known /\ At(u) \in Providers /\ said[At(u)] = "pending"
        BY <3>1, Busy
      <3>3. At(u) # At(t)
        BY <1>6, <3>1, <3>2 DEF At
      <3> QED
        BY <1>3, <3>2, <3>3
    <2>3. Behind'
      <3> SUFFICES ASSUME NEW u \in Targets, NEW i \in DOMAIN Chains[u]
                   PROVE  \/ said'[Chains[u][i]] = said[Chains[u][i]]
                          \/ u = t /\ i = pos[t]
        BY <1>1, <1>4, <1>6 DEF Behind, Walk, TypeOK, At
      <3> QED
        BY <1>3, <1>6
    <2>4. Retrying'
      BY <1>4 DEF Walk, Retrying, At, TypeOK
    <2> QED
      BY <2>1, <2>2, <2>3, <2>4 DEF Walk
  <1>8. Recorded'
    <2>1. has' \union astray' \subseteq Deliveries \union D
      BY <1>4 DEF Recorded
    <2> QED
      BY <1>2, <2>1, RecordedAfterReport
  <1>9. Told'
    BY <1>4 DEF Told
  <1> QED
    BY <1>5, <1>7, <1>8, <1>9

LEMMA GivesUpStep == ASSUME IInv, NEW t \in Targets, ProviderGivesUp(t) PROVE IInv'
  <1> DEFINE C == Called({t}, pos)
             D == {At(t)} \union C
             news == [p \in D |-> IF p = At(t) THEN "failed" ELSE "pending"]
  <1> USE DEF IInv
  <1>1. /\ pos[t] \in DOMAIN Chains[t] /\ pos[t] <= Len(Chains[t])
        /\ At(t) \in Providers /\ At(t) \in Known /\ At(t) \in Planned
        /\ said[At(t)] = "pending" /\ At(t) \in Deliveries /\ tries[At(t)] = MaxAttempts
    BY Busy, DeliveryAssumption DEF ProviderGivesUp, Errs
  <1>2. C \subseteq Providers /\ C \subseteq Planned
    BY <1>1, CalledAreProviders
  <1>3. D \subseteq Providers /\ D \subseteq Planned /\ news \in [D -> Says \ {"none"}]
    BY <1>1, <1>2 DEF Says
  <1>4. Report(news) /\ Advance({t}) /\ stage = "delivering"
        /\ UNCHANGED <<blocking, stage, result, kept, head, has>>
    BY DEF ProviderGivesUp, Errs
  <1>5. astray' \subseteq astray \union {At(t)}
    BY DEF ProviderGivesUp, Errs
  <1>6. ASSUME NEW p \in Providers
        PROVE  said'[p] = IF p \in {At(t)} THEN "failed" ELSE IF p \in C THEN "pending" ELSE said[p]
    <2>1. /\ p \in D <=> p = At(t) \/ p \in C
          /\ p \in D => news[p] = IF p = At(t) THEN "failed" ELSE "pending"
      OBVIOUS
    <2> HIDE DEF C, D, news
    <2>2. said'[p] = IF p \in D THEN news[p] ELSE said[p]
      BY <1>3, <1>4, <1>6, Reported
    <2> QED
      BY <2>1, <2>2
  <1> HIDE DEF D, news
  <1>7. TypeOK'
    <2>1. /\ pos' \in [Targets -> Nat] /\ \A u \in Targets : pos'[u] <= Len(Chains[u]) + 1
          /\ phase' \in [Targets -> {"waiting", "calling", "accepted", "backoff", "over"}]
          /\ tries' \in [Providers -> 0 .. MaxAttempts]
      BY <1>1, <1>4, AdvanceTypes
    <2>2. said' \in [Providers -> Says] /\ rows' \in [Providers -> Says] /\ sinkOk' \in BOOLEAN
      BY <1>3, <1>4, Reported
    <2> QED
      BY <1>1, <1>4, <1>5, <2>1, <2>2 DEF TypeOK, Says
  <1>8. Walk'
    BY <1>1, <1>4, <1>6, MovesOn
  <1>9. Recorded'
    <2>1. has' \union astray' \subseteq Deliveries \union D
      BY <1>4, <1>5 DEF Recorded, D
    <2> QED
      BY <1>3, <1>4, <2>1, RecordedAfterReport
  <1>10. Told'
    BY <1>4 DEF Told
  <1> QED
    BY <1>7, <1>8, <1>9, <1>10

(* The steps that report nothing.                                          *)
LEMMA RetryStep ==
  ASSUME IInv, NEW t \in Targets, AttemptFails(t) \/ BackoffEnds(t) \/ Accepts(t)
  PROVE  IInv'
  <1> USE DEF IInv
  <1>1. /\ pos[t] \in DOMAIN Chains[t] /\ At(t) \in Providers /\ At(t) \in Known
        /\ said[At(t)] = "pending" /\ At(t) \in Deliveries /\ tries[At(t)] \in 0 .. MaxAttempts
    BY Busy DEF AttemptFails, BackoffEnds, Accepts, Errs
  <1>2. /\ UNCHANGED <<blocking, stage, pos, said, result, kept, head, rows, sinkOk>>
        /\ stage = "delivering"
        /\ phase' = [phase EXCEPT ![t] = phase'[t]]
        /\ phase'[t] \in {"calling", "accepted", "backoff"}
        /\ has' \union astray' \subseteq has \union astray \union {At(t)}
    BY DEF AttemptFails, BackoffEnds, Accepts, Errs, TypeOK
  <1>3. /\ \A p \in Providers : p # At(t) => tries'[p] = tries[p]
        /\ tries' \in [Providers -> 0 .. MaxAttempts]
        /\ phase'[t] = "backoff" => tries'[At(t)] < MaxAttempts
    <2>1. CASE BackoffEnds(t)
      BY <1>1, <2>1, DeliveryAssumption, SMTT(40) DEF BackoffEnds, TypeOK, Walk, Retrying
    <2>2. CASE AttemptFails(t) \/ Accepts(t)
      BY <1>1, <2>2 DEF AttemptFails, Accepts, TypeOK
    <2> QED
      BY <2>1, <2>2
  <1>4. ASSUME NEW u \in Targets, NEW i \in DOMAIN Chains[u]
        PROVE  /\ Chains[u][i] \in Providers /\ i \in Nat
               /\ Chains[u][i] = At(t) => u = t /\ i = pos[t]
    <2>1. Chains[u] \in Seq(Providers)
      BY DeliveryAssumption DEF Targets
    <2>2. Chains[u][i] = At(t) => u = t /\ i = pos[t]
      BY <1>1, DeliveryAssumption DEF At, Targets
    <2> QED
      BY <2>1, <2>2
  <1>5. TypeOK'
    BY <1>1, <1>2, <1>3, ZenonT(60) DEF TypeOK, Recorded, Deliveries
  <1>6. Walk'
    <2>1. Untried' /\ Trying'
      BY <1>1, <1>2 DEF Walk, Untried, Trying, At, TypeOK
    <2>2. Behind'
      <3> SUFFICES ASSUME NEW u \in Targets, NEW i \in DOMAIN Chains[u]
                   PROVE  tries'[Chains[u][i]] = tries[Chains[u][i]] \/ (u = t /\ i = pos[t])
        BY <1>1, <1>2, <1>4, SMTT(40) DEF Walk, Behind, TypeOK
      <3> QED
        BY <1>3, <1>4
    <2>3. Retrying'
      <3> SUFFICES ASSUME NEW u \in Targets, phase'[u] = "backoff" PROVE tries'[At(u)] < MaxAttempts
        BY <1>2 DEF Retrying, At
      <3>1. CASE u = t
        BY <1>3, <3>1
      <3>2. CASE u # t
        <4>1. phase[u] = "backoff" /\ pos[u] \in DOMAIN Chains[u] /\ tries[At(u)] < MaxAttempts
          BY <1>2, <3>2 DEF TypeOK, Walk, Trying, Retrying
        <4>2. At(u) \in Providers /\ At(u) # At(t)
          BY <1>4, <3>2, <4>1 DEF At
        <4> QED
          BY <1>3, <4>1, <4>2
      <3> QED
        BY <3>1, <3>2
    <2> QED
      BY <2>1, <2>2, <2>3 DEF Walk
  <1>7. Recorded'
    BY <1>1, <1>2 DEF Recorded, Deliveries, Planned, Targets
  <1>8. Told'
    BY <1>2 DEF Told
  <1> QED
    BY <1>5, <1>6, <1>7, <1>8

-----------------------------------------------------------------------------

(* Looking at the provider tried last, summarize counts the targets that   *)
(* were reached, when nobody is tried behind a place or delivers before it.*)
LEMMA SummaryIsTrue ==
  ASSUME NEW out, NEW place \in [Targets -> Nat],
         \A t \in Targets : \A i \in DOMAIN Chains[t] :
           /\ i > place[t] => out[Chains[t][i]] = "none"
           /\ i < place[t] => out[Chains[t][i]] # "delivered"
  PROVE  Summary(out) = Promise!StatusOf({t \in Targets :
           \E i \in DOMAIN Chains[t] : out[Chains[t][i]] = "delivered"})
  <1> DEFINE R == {t \in Targets : \E i \in DOMAIN Chains[t] : out[Chains[t][i]] = "delivered"}
             W == {t \in Targets : Delivers(Chains[t], out)}
  <1>1. ASSUME NEW t \in Targets, NEW i \in DOMAIN Chains[t], out[Chains[t][i]] = "delivered"
        PROVE  Delivers(Chains[t], out)
    <2>1. \A j \in DOMAIN Chains[t] : j \in Nat
      BY DeliveryAssumption DEF Targets
    <2>2. i = place[t]
      BY <1>1, <2>1
    <2> QED
      BY <1>1, <2>1, <2>2 DEF Delivers
  <1>2. W = R
    BY <1>1 DEF Delivers
  <1> QED
    BY <1>2 DEF Summary, Promise!StatusOf

LEMMA NothingAfterPlace ==
  ASSUME IInv, NEW t \in Targets, NEW i \in DOMAIN Chains[t]
  PROVE  /\ Chains[t][i] \in Providers
         /\ i > pos[t] => said[Chains[t][i]] = "none"
         /\ i < pos[t] => said[Chains[t][i]] \in {"none", "failed"}
  <1>1. Chains[t] \in Seq(Providers)
    BY DeliveryAssumption DEF Targets
  <1> QED
    BY <1>1 DEF IInv, Walk, Behind

LEMMA ConcludesStep == IInv /\ Concludes => IInv'
  <1> SUFFICES ASSUME IInv, Concludes PROVE IInv'
    OBVIOUS
  <1> USE DEF IInv, Concludes
  <1>1. Summary(said) = Promise!StatusOf(Reached)
    <2>1. \A t \in Targets : \A i \in DOMAIN Chains[t] :
            /\ i > pos[t] => said[Chains[t][i]] = "none"
            /\ i < pos[t] => said[Chains[t][i]] # "delivered"
      BY NothingAfterPlace
    <2> QED
      BY <2>1, SummaryIsTrue DEF TypeOK, Reached
  <1>2. Reached' = Reached
    BY DEF Reached, Targets
  <1>3. TypeOK'
    BY DEF TypeOK, Summary
  <1>4. Walk'
    BY DEF Walk, Untried, Trying, Behind, Retrying, At
  <1>5. Recorded'
    BY DEF Recorded, Deliveries, Planned, Targets
  <1>6. Told'
    BY <1>1, <1>2 DEF Told, Promise!StatusOf
  <1> QED
    BY <1>3, <1>4, <1>5, <1>6

LEMMA TimesOutStep == IInv /\ TimesOut => IInv' /\ Reached' = Reached
  <1> SUFFICES ASSUME IInv, TimesOut PROVE IInv' /\ Reached' = Reached
    OBVIOUS
  <1> USE DEF IInv
  <1>1. /\ stage' = "concluded" /\ result' = Summary(said') /\ stage = "delivering"
        /\ phase' = [t \in Targets |-> "over"] /\ astray' = astray \union Abandoned
        /\ UNCHANGED <<blocking, pos, tries, kept, head, rows, sinkOk, has>>
        /\ said' = CutOff
    BY DEF TimesOut
  <1>2. ASSUME NEW p \in Providers
        PROVE  said'[p] = IF said[p] = "pending" THEN "failed" ELSE said[p]
    BY <1>1 DEF CutOff
  <1>3. Abandoned \subseteq Providers /\ Abandoned \subseteq Deliveries
    BY Busy DEF Abandoned
  <1>4. Deliveries' = Deliveries
    BY <1>2 DEF Deliveries
  <1>5. Reached' = Reached
    BY <1>2, NothingAfterPlace DEF Reached, Targets
  <1>6. TypeOK'
    BY <1>1, <1>3 DEF TypeOK, CutOff, Summary
  <1>7. Walk'
    BY <1>1, <1>2, NothingAfterPlace DEF Walk, Untried, Trying, Behind, Retrying
  <1>8. Recorded'
    <2>1. Planned' = Planned
      BY DEF Planned, Targets
    <2> QED
      BY <1>1, <1>2, <1>3, <1>4, <2>1 DEF Recorded, TypeOK
  <1>9. Told'
    <2>1. \A t \in Targets : \A i \in DOMAIN Chains[t] :
            /\ i > pos[t] => said'[Chains[t][i]] = "none"
            /\ i < pos[t] => said'[Chains[t][i]] # "delivered"
      BY <1>2, NothingAfterPlace
    <2>2. Summary(said') = Promise!StatusOf(Reached')
      BY <2>1, SummaryIsTrue DEF TypeOK, Reached
    <2> QED
      BY <1>1, <1>5, <2>2 DEF Told
  <1> QED
    BY <1>5, <1>6, <1>7, <1>8, <1>9

LEMMA QuietStep == IInv /\ (Record \/ Settles \/ \E p \in Providers : ArrivesLate(p)) => IInv'
  <1> SUFFICES ASSUME IInv, Record \/ Settles \/ \E p \in Providers : ArrivesLate(p)
               PROVE  IInv'
    OBVIOUS
  <1> USE DEF IInv
  <1>1. /\ UNCHANGED <<pos, phase, tries, said, result, rows>>
        /\ stage' \in {"new", "recorded"} => stage \in {"new", "recorded"}
        /\ has' \union astray' \subseteq has \union astray
        /\ sinkOk' => sinkOk
        /\ stage' = "delivering" => stage = "delivering"
        /\ stage' = "saved" => stage = "saved" /\ head' = head
        /\ ~kept' => ~kept \/ result = "failed"
        /\ stage' \in {"new", "recorded", "delivering"} =>
             stage \in {"new", "recorded", "delivering"}
    <2>1. CASE Record
      BY <2>1 DEF Record
    <2>2. CASE Settles
      BY <2>2 DEF Settles
    <2>3. CASE \E p \in Providers : ArrivesLate(p)
      BY <2>3 DEF ArrivesLate
    <2> QED
      BY <2>1, <2>2, <2>3
  <1>2. TypeOK'
    <2>1. CASE Record
      BY <2>1 DEF TypeOK, Record
    <2>2. CASE Settles
      BY <2>2 DEF TypeOK, Settles
    <2>3. CASE \E p \in Providers : ArrivesLate(p)
      BY <2>3 DEF TypeOK, ArrivesLate
    <2> QED
      BY <2>1, <2>2, <2>3
  <1>3. Walk'
    BY <1>1 DEF Walk, Untried, Trying, Behind, Retrying, At
  <1>4. Recorded'
    BY <1>1 DEF Recorded, Deliveries, Planned, Targets
  <1>5. Told'
    <2>1. Promise!StatusOf(Reached)' = Promise!StatusOf(Reached)
      BY <1>1 DEF Promise!StatusOf, Reached, Targets
    <2> QED
      BY <1>1, <2>1 DEF Told
  <1> QED
    BY <1>2, <1>3, <1>4, <1>5

(* What complete writes is what was reported, and nobody else's row.       *)
LEMMA StoreStep == IInv /\ (Saves \/ Crash) => IInv'
  <1> SUFFICES ASSUME IInv, Saves \/ Crash PROVE IInv'
    OBVIOUS
  <1> USE DEF IInv
  <1>1. /\ UNCHANGED <<blocking, pos, phase, tries, said, result, kept, has>>
        /\ stage' \in {"saved", "unsaved", "crashed"}
        /\ astray' \subseteq astray \union Abandoned
        /\ sinkOk' = sinkOk \/ sinkOk' = FALSE
    BY DEF Saves, Crash
  <1>2. \/ UNCHANGED <<head, rows>> /\ stage' # "saved"
        \/ \E S \in Beginnings : Write(S) /\ (stage' = "saved" => S = Deliveries)
    BY DEF Saves, Crash
  <1>3. Abandoned \subseteq Providers /\ Abandoned \subseteq Deliveries
    BY Busy DEF Abandoned
  <1>4. /\ rows' \in [Providers -> Says] /\ head' \in {head, result}
        /\ \A p \in Providers : rows'[p] = rows[p] \/ (p \in Deliveries /\ rows'[p] = said[p])
        /\ stage' = "saved" =>
             head' = result /\ \A p \in Providers : p \in Deliveries => rows'[p] = said[p]
    <2>1. CASE UNCHANGED <<head, rows>> /\ stage' # "saved"
      BY <2>1 DEF TypeOK, Says
    <2>2. CASE \E S \in Beginnings : Write(S) /\ (stage' = "saved" => S = Deliveries)
      <3>1. PICK S \in Beginnings : Write(S) /\ (stage' = "saved" => S = Deliveries)
        BY <2>2
      <3>2. S \subseteq Deliveries
        BY DEF Beginnings
      <3> QED
        BY <3>1, <3>2 DEF Write, TypeOK, Says
    <2> QED
      BY <1>2, <2>1, <2>2
  <1>5. TypeOK'
    BY <1>1, <1>3, <1>4 DEF TypeOK, Says
  <1>6. Walk'
    BY <1>1 DEF Walk, Untried, Trying, Behind, Retrying, At
  <1>7. Recorded'
    <2>1. Deliveries' = Deliveries /\ Planned' = Planned
      BY <1>1 DEF Deliveries, Planned, Targets
    <2>2. \A p \in Providers : said'[p] = "none" => rows'[p] = "none"
      BY <1>1, <1>4 DEF Recorded, Deliveries
    <2>3. sinkOk' => \A p \in Deliveries : rows'[p] # "none"
      BY <1>1, <1>4 DEF Recorded, Deliveries, TypeOK
    <2> QED
      BY <1>1, <1>3, <2>1, <2>2, <2>3 DEF Recorded
  <1>8. Told'
    <2>1. Promise!StatusOf(Reached)' = Promise!StatusOf(Reached)
      BY <1>1 DEF Promise!StatusOf, Reached, Targets
    <2>2. stage' = "saved" => head' = result' /\ \A p \in Providers : rows'[p] = said'[p]
      BY <1>1, <1>4 DEF Recorded, Deliveries
    <2> QED
      BY <1>1, <2>1, <2>2 DEF Told
  <1> QED
    BY <1>5, <1>6, <1>7, <1>8

LEMMA NextInv == IInv /\ [Next]_vars => IInv'
  <1> SUFFICES ASSUME IInv, [Next]_vars PROVE IInv'
    OBVIOUS
  <1>1. CASE Begin
    BY <1>1, BeginStep
  <1>2. CASE Record \/ Settles \/ \E p \in Providers : ArrivesLate(p)
    BY <1>2, QuietStep
  <1>3. CASE Concludes
    BY <1>3, ConcludesStep
  <1>4. CASE TimesOut
    BY <1>4, TimesOutStep
  <1>5. CASE Saves \/ Crash
    BY <1>5, StoreStep
  <1>6. ASSUME NEW t \in Targets, Accepts(t) \/ TargetStep(t) PROVE IInv'
    BY <1>6, SucceedsStep, GivesUpStep, RetryStep DEF TargetStep
  <1>7. CASE UNCHANGED vars
    <2>1. Promise!StatusOf(Reached)' = Promise!StatusOf(Reached)
      BY <1>7 DEF vars, Promise!StatusOf, Reached, Targets
    <2> QED
      BY <1>7, <2>1 DEF vars, IInv, TypeOK, Walk, Untried, Trying, Behind, Retrying, At, Recorded,
                        Deliveries, Planned, Targets, Told
  <1> QED
    BY <1>1, <1>2, <1>3, <1>4, <1>5, <1>6, <1>7 DEF Next

LEMMA Invariance == Safety => []IInv
  BY InitInv, NextInv, PTL DEF Safety

-----------------------------------------------------------------------------

(* A target falls back only from a provider that used up its attempts, and *)
(* tries nobody after one that delivered (deliver_chain).                  *)
THEOREM FallsBackLast == Safety => []FallbackIsLast
  <1>1. IInv => FallbackIsLast
    <2> SUFFICES ASSUME IInv, NEW t \in Targets, NEW i \in DOMAIN Chains[t], NEW j \in DOMAIN Chains[t],
                        i < j, said[Chains[t][j]] # "none", Chains[t][i] \in Known
                 PROVE  said[Chains[t][i]] = "failed" /\ tries[Chains[t][i]] = MaxAttempts
      BY DEF FallbackIsLast
    <2>1. i \in Nat /\ j \in Nat /\ pos[t] \in Nat
      BY DeliveryAssumption, SMTT(40) DEF Targets, IInv, TypeOK
    <2>2. ~(j > pos[t])
      BY NothingAfterPlace
    <2> QED
      BY <2>1, <2>2 DEF IInv, Walk, Behind
  <1> QED
    BY <1>1, Invariance, PTL

(* Whoever has the signal or may still get it is on record, whatever the   *)
(* moment of a timeout or an exit, unless the sink failed (report, which   *)
(* writes "pending" before the request goes out).                          *)
THEOREM OnRecord == Safety => []NobodyUnrecorded
  <1>1. IInv => NobodyUnrecorded
    BY DEF IInv, Recorded, NobodyUnrecorded
  <1> QED
    BY <1>1, Invariance, PTL

(* A saved delivery is stored as it was reported, and the history is given *)
(* back only for one nobody is known to have accepted (settle, complete).  *)
THEOREM StoredAsReported == Safety => []RecordsAreTrue
  <1>1. IInv => RecordsAreTrue
    <2> SUFFICES ASSUME IInv PROVE RecordsAreTrue
      OBVIOUS
    <2>1. ASSUME ~kept, NEW p \in Providers, said[p] = "delivered" PROVE FALSE
      <3>1. p \in Planned
        BY <2>1 DEF IInv, Recorded, Deliveries
      <3>2. Reached # {}
        BY <2>1, <3>1 DEF Planned, Reached
      <3> QED
        BY <2>1, <3>2 DEF IInv, Told, Promise!StatusOf
    <2> QED
      BY <2>1 DEF IInv, Told, RecordsAreTrue
  <1> QED
    BY <1>1, Invariance, PTL

(* A step reaches one more target before there is a result, or gives the   *)
(* result of the targets reached, or neither.                              *)
LEMMA PromiseStep == IInv /\ [Next]_vars => [Promise!Next]_<<Reached, result>>
  <1> SUFFICES ASSUME IInv, [Next]_vars, ~(Reached' = Reached /\ result' = result)
               PROVE  Promise!Next
    OBVIOUS
  <1>1. CASE UNCHANGED said /\ UNCHANGED result
    BY <1>1 DEF Reached, Targets
  <1>2. CASE Concludes
    <2>1. Reached' = Reached
      BY <1>2 DEF Concludes, Reached, Targets
    <2>2. result = "none" /\ result' = Promise!StatusOf(Reached')
      <3>1. IInv'
        BY <1>2, ConcludesStep
      <3>2. result' # "none"
        BY <1>2 DEF Concludes, Summary
      <3> QED
        BY <1>2, <3>1, <3>2 DEF IInv, Told, Concludes
    <2> QED
      BY <2>1, <2>2 DEF Promise!Next, Promise!Conclude
  <1>3. CASE TimesOut
    <2>1. IInv' /\ Reached' = Reached
      BY <1>3, TimesOutStep
    <2>2. result' # "none" /\ result = "none"
      BY <1>3 DEF TimesOut, Summary, IInv, Told
    <2> QED
      BY <2>1, <2>2 DEF Promise!Next, Promise!Conclude, IInv, Told
  <1>4. ASSUME NEW t \in Targets, AttemptSucceeds(t) PROVE Promise!Next
    <2>1. /\ pos[t] \in DOMAIN Chains[t] /\ At(t) \in Providers /\ said[At(t)] = "pending"
      BY <1>4, Busy DEF AttemptSucceeds
    <2>2. result = "none" /\ result' = result
      BY <1>4 DEF AttemptSucceeds, IInv, Told
    <2>3. ASSUME NEW p \in Providers
          PROVE  said'[p] = IF p = At(t) THEN "delivered" ELSE said[p]
      BY <1>4 DEF AttemptSucceeds, Report
    <2>4. ASSUME NEW u \in Targets, NEW i \in DOMAIN Chains[u]
          PROVE  Chains[u][i] \in Providers /\ (Chains[u][i] = At(t) => u = t)
      BY <2>1, NothingAfterPlace, DeliveryAssumption DEF At, Targets
    <2>5. Reached' = Reached \union {t}
      <3>1. ASSUME NEW u \in Targets, u # t PROVE u \in Reached' <=> u \in Reached
        BY <2>3, <2>4, <3>1 DEF Reached, Targets
      <3>2. t \in Reached'
        BY <2>1, <2>3 DEF Reached, Targets, At
      <3>3. Reached \subseteq Targets /\ Reached' \subseteq Targets
        BY DEF Reached, Targets
      <3> QED
        BY <3>1, <3>2, <3>3
    <2>6. t \notin Reached
      <3> SUFFICES ASSUME NEW i \in DOMAIN Chains[t], said[Chains[t][i]] = "delivered" PROVE FALSE
        BY DEF Reached
      <3>1. i \in Nat /\ pos[t] \in Nat
        BY DeliveryAssumption DEF Targets, IInv, TypeOK
      <3>2. i = pos[t]
        BY <3>1, NothingAfterPlace
      <3> QED
        BY <2>1, <3>2 DEF At
    <2> QED
      BY <2>2, <2>5, <2>6 DEF Promise!Next, Promise!Reach
  <1>5. CASE Begin
    <2>1. ASSUME NEW p \in Providers PROVE said'[p] \in {said[p], "pending"}
      BY <1>5 DEF Begin, Report
    <2>2. \A p \in Providers : said[p] = "none"
      <3>1. ASSUME NEW t \in Targets, NEW i \in DOMAIN Chains[t] PROVE said[Chains[t][i]] = "none"
        <4>1. i > pos[t]
          BY <1>5, DeliveryAssumption DEF Begin, IInv, Walk, Untried, Targets
        <4> QED
          BY <4>1, NothingAfterPlace
      <3> QED
        BY <3>1 DEF IInv, Recorded, Planned, Deliveries
    <2>3. Reached' = Reached
      BY <2>1, <2>2, NothingAfterPlace DEF Reached, Targets
    <2> QED
      BY <1>5, <2>3 DEF Begin
  <1>6. ASSUME NEW t \in Targets, ProviderGivesUp(t) PROVE Promise!Next
    <2>1. /\ pos[t] \in DOMAIN Chains[t] /\ At(t) \in Providers /\ said[At(t)] = "pending"
          /\ pos[t] <= Len(Chains[t])
      BY <1>6, Busy DEF ProviderGivesUp, Errs
    <2>2. ASSUME NEW p \in Providers
          PROVE  said'[p] = IF p = At(t) THEN "failed" ELSE
                            IF p \in Called({t}, pos) THEN "pending" ELSE said[p]
      BY <1>6 DEF ProviderGivesUp, Report
    <2>3. ASSUME NEW p \in Called({t}, pos) PROVE said[p] = "none"
      <3>1. Usable(t, pos[t]) # {} /\ p = Chains[t][NextUsable(t, pos[t])]
        BY <2>3 DEF Called
      <3>2. NextUsable(t, pos[t]) > pos[t] /\ NextUsable(t, pos[t]) \in DOMAIN Chains[t]
        BY <2>1, <3>1, NextPlace DEF IInv, TypeOK
      <3> QED
        BY <3>1, <3>2, NothingAfterPlace
    <2>4. \A p \in Providers : said'[p] = "delivered" <=> said[p] = "delivered"
      BY <2>1, <2>2, <2>3
    <2>5. Reached' = Reached
      BY <2>4, NothingAfterPlace DEF Reached, Targets
    <2> QED
      BY <1>6, <2>5 DEF ProviderGivesUp
  <1> QED
    BY <1>1, <1>2, <1>3, <1>4, <1>5, <1>6
    DEF Next, vars, TargetStep, Record, Settles, Saves, Crash, ArrivesLate, Accepts, AttemptFails,
        BackoffEnds

(* Through retries, fallbacks, timeouts and exits, a delivery does what    *)
(* FanOut says: it reaches each target once, before it gives a result, and *)
(* the result counts the targets reached (deliver, summarize).             *)
THEOREM Implements == Safety => KeepsPromise
  <1>1. Init => Promise!Init
    BY NothingAfterPlace, InitInv DEF Init, Promise!Init, Reached
  <1>2. IInv /\ [Next]_vars => [Promise!Next]_<<Reached, result>>
    BY PromiseStep
  <1> QED
    BY <1>1, <1>2, Invariance, PTL DEF Safety, KeepsPromise, Promise!Spec
=============================================================================
