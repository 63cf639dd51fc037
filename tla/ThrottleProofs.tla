--------------------------- MODULE ThrottleProofs ---------------------------
(***************************************************************************)
(* The limits of module Throttle hold for every set of sends, every window *)
(* and every commit delay shorter than the history kept.                   *)
(*                                                                         *)
(* The inductive invariant is TypeOK /\ History /\ DedupGap /\ RateCap.    *)
(* History is what ties the table to the sends: a live send whose row is   *)
(* gone is at least Keep old, so no send stamped within MaxLag of now can  *)
(* be closer to it than Keep - MaxLag.                                     *)
(***************************************************************************)
EXTENDS Throttle, FiniteSetTheorems, TLAPS

IInv == TypeOK /\ History /\ DedupGap /\ RateCap

(* Keep is at least each window the route sets.                            *)
LEMMA KeepBounds ==
  /\ Keep \in Nat
  /\ HasDedup => DedupWindow <= Keep
  /\ HasRate => RatePer <= Keep
  BY RouteAssumption DEF Keep

(* The table and its counts are finite.                                    *)
LEMMA LiveFinite ==
  ASSUME NEW S, S \subseteq Sends
  PROVE  IsFiniteSet(S) /\ Cardinality(S) \in Nat
  BY RouteAssumption, FS_Subset, FS_CardinalityType

(* A smaller set of live sends keeps every window within the limit.        *)
LEMMA SmallerCount ==
  ASSUME NEW S, NEW T, T \subseteq Sends, S \subseteq T,
         Cardinality(T) <= RateMax
  PROVE  Cardinality(S) <= RateMax
  <1>1. S \subseteq Sends
    OBVIOUS
  <1>2. Cardinality(S) <= Cardinality(T)
    BY LiveFinite, FS_Subset
  <1> QED
    BY <1>1, <1>2, LiveFinite, RouteAssumption

LEMMA InitInv == Init => IInv
  <1> SUFFICES ASSUME Init PROVE IInv
    OBVIOUS
  <1>1. Live = {}
    BY DEF Init, Live
  <1>2. TypeOK
    BY RouteAssumption DEF Init, TypeOK, Statuses
  <1>3. History
    BY <1>1 DEF Init, History
  <1>4. DedupGap
    BY <1>1 DEF DedupGap
  <1>5. RateCap
    <2>1. \A t : LiveWithin(t, RatePer - MaxLag) = {}
      BY <1>1 DEF LiveWithin
    <2> QED
      BY <2>1, FS_EmptySet, RouteAssumption DEF RateCap
  <1> QED
    BY <1>2, <1>3, <1>4, <1>5 DEF IInv

LEMMA TypeStep == TypeOK /\ [Next]_vars => TypeOK'
  <1> SUFFICES ASSUME TypeOK, [Next]_vars PROVE TypeOK'
    OBVIOUS
  <1> USE RouteAssumption DEF TypeOK, Statuses
  <1>1. CASE Tick
    BY <1>1 DEF Tick
  <1>2. ASSUME NEW s \in Sends, Stamp(s) PROVE TypeOK'
    BY <1>2 DEF Stamp
  <1>3. ASSUME NEW s \in Sends, RefuseDuplicate(s) \/ RefuseLimited(s) PROVE TypeOK'
    BY <1>3 DEF RefuseDuplicate, RefuseLimited
  <1>4. ASSUME NEW s \in Sends, Admit(s) PROVE TypeOK'
    BY <1>4 DEF Admit, Pruned
  <1>5. ASSUME NEW s \in Sends, LetThrough(s) \/ Deliver(s) \/ ReleaseError(s) \/ Crash(s)
        PROVE TypeOK'
    BY <1>5 DEF LetThrough, Deliver, ReleaseError, Crash
  <1>6. ASSUME NEW s \in Sends, Release(s) PROVE TypeOK'
    BY <1>6 DEF Release
  <1>7. CASE UNCHANGED vars
    BY <1>7 DEF vars
  <1> QED
    BY <1>1, <1>2, <1>3, <1>4, <1>5, <1>6, <1>7 DEF Next

(* Steps that admit nothing: every send live afterwards was live before,   *)
(* with the same time, so both limits carry over.                          *)
LEMMA LimitsKept ==
  ASSUME TypeOK, DedupGap, RateCap, Live' \subseteq Live,
         \A s \in Live : at'[s] = at[s]
  PROVE  DedupGap' /\ RateCap'
  <1>1. DedupGap'
    BY DEF DedupGap
  <1>2. RateCap'
    <2> SUFFICES ASSUME HasRate, NEW t \in 0..MaxTime
                 PROVE  Cardinality(LiveWithin(t, RatePer - MaxLag)') <= RateMax
      BY DEF RateCap
    <2>1. LiveWithin(t, RatePer - MaxLag)' \subseteq LiveWithin(t, RatePer - MaxLag)
      BY DEF LiveWithin
    <2>2. LiveWithin(t, RatePer - MaxLag) \subseteq Sends
      BY DEF LiveWithin, Live
    <2>3. Cardinality(LiveWithin(t, RatePer - MaxLag)) <= RateMax
      BY DEF RateCap
    <2> HIDE DEF LiveWithin
    <2> QED
      BY <2>1, <2>2, <2>3, SmallerCount
  <1> QED
    BY <1>1, <1>2

(* Admitting a send: the guards bound it against each live send whose row  *)
(* is still there, and History against those whose row is gone.            *)
LEMMA AdmitStep ==
  ASSUME IInv, NEW s \in Sends, Admit(s), TypeOK'
  PROVE  IInv'
  <1> USE RouteAssumption, LagAssumption, KeepBounds
  <1>1. /\ Live' = Live \union {s} /\ s \notin Live
        /\ at' = at /\ clock' = clock /\ rows' = Pruned(rows \union {s}, at[s])
        /\ clock - at[s] <= MaxLag /\ at[s] <= clock
        /\ at \in [Sends -> 0..MaxTime] /\ clock \in 0..MaxTime
        /\ rows \subseteq Live
    BY DEF Admit, InTime, Live, IInv, TypeOK, History, Statuses
  <1>2. \A u \in Live : u \in Sends /\ at[u] \in 0..MaxTime
    BY <1>1 DEF Live
  <1>3. \A u \in Live \ rows : at[u] <= at[s] + MaxLag - Keep
    BY <1>1, <1>2 DEF IInv, History
  <1>4. History'
    <2>1. ASSUME NEW u \in Live', u \notin rows'
          PROVE  at[u] <= clock - Keep
      <3>1. CASE u \in rows \union {s}
        <4>1. ~(at[u] > at[s] - Keep)
          BY <1>1, <2>1, <3>1 DEF Pruned
        <4> QED
          BY <4>1, <1>1, <1>2, <3>1
      <3>2. CASE u \notin rows \union {s}
        BY <2>1, <3>2, <1>1 DEF IInv, History
      <3> QED
        BY <3>1, <3>2
    <2>2. rows' \subseteq Live'
      BY <1>1 DEF Pruned
    <2>3. \A u \in Sends : at'[u] <= clock'
      BY <1>1 DEF IInv, History
    <2> QED
      BY <2>1, <2>2, <2>3, <1>1 DEF History
  <1>5. DedupGap'
    <2>1. ASSUME HasDedup, NEW u \in Live, KeyOf[u] = KeyOf[s]
          PROVE  at[u] < at[s] /\ at[s] - at[u] >= DedupWindow - MaxLag
      <3>1. CASE u \in rows
        <4>1. ~(at[s] - at[u] < DedupWindow)
          BY <2>1, <3>1 DEF Admit, IsDuplicate, SameKey
        <4> QED
          BY <4>1, <1>1, <1>2
      <3>2. CASE u \notin rows
        BY <2>1, <3>2, <1>1, <1>2, <1>3
      <3> QED
        BY <3>1, <3>2
    <2>2. ASSUME HasDedup, NEW x \in Live \union {s}, NEW y \in Live \union {s},
                 x # y, KeyOf[x] = KeyOf[y], at[y] <= at[x]
          PROVE  at[x] - at[y] >= DedupWindow - MaxLag
      <3>1. CASE x \in Live /\ y \in Live
        BY <2>2, <3>1 DEF IInv, DedupGap
      <3>2. CASE x = s /\ y \in Live
        BY <2>2, <3>2, <2>1
      <3>3. CASE y = s /\ x \in Live
        BY <2>2, <3>3, <2>1, <1>1, <1>2
      <3> QED
        BY <2>2, <3>1, <3>2, <3>3
    <2> QED
      BY <2>2, <1>1 DEF DedupGap
  <1>6. RateCap'
    <2> SUFFICES ASSUME HasRate, NEW t \in 0..MaxTime
                 PROVE  Cardinality(LiveWithin(t, RatePer - MaxLag)') <= RateMax
      BY DEF RateCap
    <2> DEFINE W == LiveWithin(t, RatePer - MaxLag)
    <2>1. W \subseteq Sends /\ Cardinality(W) <= RateMax
      BY DEF IInv, RateCap, LiveWithin, Live
    <2>2. CASE ~(t - (RatePer - MaxLag) < at[s] /\ at[s] <= t)
      <3>1. W' \subseteq W
        BY <1>1, <2>2 DEF LiveWithin
      <3> HIDE DEF W
      <3>2. Cardinality(W') <= RateMax
        BY <3>1, <2>1, SmallerCount
      <3> QED
        BY <3>2 DEF W
    <2>3. CASE t - (RatePer - MaxLag) < at[s] /\ at[s] <= t
      <3>1. W' = W \union {s} /\ s \notin W
        BY <1>1, <2>3 DEF LiveWithin
      <3>2. W \subseteq Counted(s)
        <4> SUFFICES ASSUME NEW u \in W
                     PROVE  u \in rows /\ at[u] > at[s] - RatePer
          BY DEF Counted
        <4>1. u \in Live /\ t - (RatePer - MaxLag) < at[u] /\ at[u] \in Int
          BY <1>2 DEF LiveWithin
        <4>2. at[u] > at[s] + MaxLag - RatePer
          BY <4>1, <2>3, <1>1
        <4>3. u \in rows
          BY <4>1, <4>2, <1>1, <1>3
        <4> QED
          BY <4>2, <4>3, <1>1, <4>1
      <3>3. Counted(s) \subseteq Sends
        BY DEF Counted, IInv, TypeOK
      <3>4. ~(Cardinality(Counted(s)) >= RateMax)
        BY DEF Admit, IsLimited
      <3> HIDE DEF W
      <3>5. Cardinality(W) <= Cardinality(Counted(s))
        BY <3>2, <3>3, LiveFinite, FS_Subset
      <3>6. Cardinality(W') = Cardinality(W) + 1
        BY <3>1, <2>1, LiveFinite, FS_AddElement
      <3>7. Cardinality(W') <= RateMax
        BY <3>4, <3>5, <3>6, <2>1, <3>3, LiveFinite
      <3> QED
        BY <3>7 DEF W
    <2> QED
      BY <2>2, <2>3
  <1> QED
    BY <1>4, <1>5, <1>6 DEF IInv

(* Every step keeps the inductive invariant.                               *)
LEMMA InvStep == IInv /\ [Next]_vars => IInv'
  <1> SUFFICES ASSUME IInv, [Next]_vars PROVE IInv'
    OBVIOUS
  <1> USE RouteAssumption, KeepBounds
  <1>1. TypeOK /\ TypeOK'
    BY TypeStep DEF IInv
  <1>2. /\ at \in [Sends -> 0..MaxTime] /\ at' \in [Sends -> 0..MaxTime]
        /\ clock \in 0..MaxTime /\ clock' \in 0..MaxTime
        /\ status \in [Sends -> Statuses] /\ rows \subseteq Sends
    BY <1>1 DEF TypeOK
  <1>3. ASSUME Live' \subseteq Live, \A s \in Live : at'[s] = at[s], History'
        PROVE  IInv'
    BY <1>1, <1>3, LimitsKept DEF IInv
  <1>4. CASE Tick
    <2>1. Live' = Live /\ at' = at /\ rows' = rows /\ clock' = clock + 1
      BY <1>4 DEF Tick, Live
    <2>2. History'
      BY <2>1, <1>2 DEF IInv, History, Live
    <2> QED
      BY <2>1, <2>2, <1>3
  <1>5. ASSUME NEW s \in Sends, Stamp(s) PROVE IInv'
    <2>1. Live' = Live /\ s \notin Live /\ rows' = rows /\ clock' = clock
      BY <1>5, <1>2 DEF Stamp, Live
    <2>2. at' = [at EXCEPT ![s] = clock]
      BY <1>5 DEF Stamp
    <2>3. \A u \in Live : at'[u] = at[u]
      BY <2>1, <2>2, <1>2 DEF Live
    <2>4. History'
      BY <2>1, <2>2, <2>3, <1>2 DEF IInv, History, Live
    <2> QED
      BY <2>1, <2>3, <2>4, <1>3
  <1>6. ASSUME NEW s \in Sends,
               \/ RefuseDuplicate(s) \/ RefuseLimited(s) \/ LetThrough(s)
               \/ Deliver(s) \/ ReleaseError(s) \/ Crash(s)
        PROVE  IInv'
    <2>1. Live' = Live /\ at' = at /\ rows' = rows /\ clock' = clock
      BY <1>6, <1>2 DEF RefuseDuplicate, RefuseLimited, LetThrough, Deliver,
                        ReleaseError, Crash, InTime, Live, Statuses
    <2>2. History'
      BY <2>1 DEF IInv, History
    <2> QED
      BY <2>1, <2>2, <1>3
  <1>7. ASSUME NEW s \in Sends, Admit(s) PROVE IInv'
    BY <1>1, <1>7, AdmitStep
  <1>8. ASSUME NEW s \in Sends, Release(s) PROVE IInv'
    <2>1. Live' = Live \ {s} /\ at' = at /\ rows' = rows \ {s} /\ clock' = clock
      BY <1>8, <1>2 DEF Release, Live, Statuses
    <2>2. History'
      BY <2>1 DEF IInv, History
    <2> QED
      BY <2>1, <2>2, <1>3
  <1>9. CASE UNCHANGED vars
    <2>1. Live' = Live /\ at' = at /\ rows' = rows /\ clock' = clock
      BY <1>9 DEF vars, Live
    <2>2. History'
      BY <2>1 DEF IInv, History
    <2> QED
      BY <2>1, <2>2, <1>3
  <1> QED
    BY <1>4, <1>5, <1>6, <1>7, <1>8, <1>9 DEF Next

LEMMA Invariance == Spec => []IInv
  BY InitInv, InvStep, PTL DEF Spec

(* Type correctness of the throttle's state.                               *)
THEOREM TypeCorrect == Spec => []TypeOK
  <1>1. IInv => TypeOK
    BY DEF IInv
  <1> QED
    BY <1>1, Invariance, PTL

(* Two live sends of one dedup key are a window apart, less the delay a    *)
(* commit may have had: `dedup` at most once per window (try_admit).       *)
THEOREM DedupHolds == Spec => []DedupGap
  <1>1. IInv => DedupGap
    BY DEF IInv
  <1> QED
    BY <1>1, Invariance, PTL

(* No sliding window holds more than `max` live sends, less the delay a    *)
(* commit may have had: the route's `rate_limit` (try_admit).              *)
THEOREM RateHolds == Spec => []RateCap
  <1>1. IInv => RateCap
    BY DEF IInv
  <1> QED
    BY <1>1, Invariance, PTL

(* When sends commit at the time they read, the limits are exactly the     *)
(* documented ones: the delay between the two is the only way past them.   *)
THEOREM ExactWithoutLag ==
  ASSUME MaxLag = 0
  PROVE  Spec => []DocumentedLimits
  <1>1. IInv => DocumentedLimits
    BY RouteAssumption DEF IInv, DedupGap, RateCap, DocumentedLimits
  <1> QED
    BY <1>1, Invariance, PTL

(* A duplicate or a send over the limit is turned down only on account of  *)
(* live sends: a released one never suppresses another.                    *)
THEOREM SuppressionJustified == Spec => SuppressionHasCause
  <1>1. ASSUME IInv, [Next]_vars, NEW s \in Sends, status[s] = "stamped",
               status'[s] = "duplicate"
        PROVE  \E u \in Live : KeyOf[u] = KeyOf[s] /\ at[s] - at[u] < DedupWindow
    <2>1. RefuseDuplicate(s)
      BY <1>1 DEF Next, vars, IInv, TypeOK, Tick, Stamp, RefuseDuplicate, RefuseLimited,
                  Admit, LetThrough, Deliver, Release, ReleaseError, Crash, InTime
    <2> QED
      BY <1>1, <2>1 DEF RefuseDuplicate, IsDuplicate, SameKey, IInv, History
  <1>2. ASSUME IInv, [Next]_vars, NEW s \in Sends, status[s] = "stamped",
               status'[s] = "limited"
        PROVE  Cardinality({u \in Live : at[u] > at[s] - RatePer}) >= RateMax
    <2>1. RefuseLimited(s)
      BY <1>2 DEF Next, vars, IInv, TypeOK, Tick, Stamp, RefuseDuplicate, RefuseLimited,
                  Admit, LetThrough, Deliver, Release, ReleaseError, Crash, InTime
    <2> DEFINE L == {u \in Live : at[u] > at[s] - RatePer}
    <2>2. Counted(s) \subseteq L /\ L \subseteq Sends
      BY <1>2 DEF Counted, IInv, History, Live
    <2>3. Cardinality(Counted(s)) >= RateMax
      BY <2>1 DEF RefuseLimited, IsLimited
    <2> HIDE DEF L
    <2>4. Cardinality(Counted(s)) <= Cardinality(L)
      BY <2>2, LiveFinite, FS_Subset
    <2>5. Cardinality(L) >= RateMax
      BY <2>2, <2>3, <2>4, LiveFinite, RouteAssumption
    <2> QED
      BY <2>5 DEF L
  <1>3. IInv /\ [Next]_vars =>
          [\A s \in Sends :
             /\ (status[s] = "stamped" /\ status'[s] = "duplicate") =>
                  \E u \in Live : KeyOf[u] = KeyOf[s] /\ at[s] - at[u] < DedupWindow
             /\ (status[s] = "stamped" /\ status'[s] = "limited") =>
                  Cardinality({u \in Live : at[u] > at[s] - RatePer}) >= RateMax]_vars
    BY <1>1, <1>2
  <1> QED
    BY <1>3, Invariance, PTL DEF Spec, SuppressionHasCause

=============================================================================
