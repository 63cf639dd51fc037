---------------------------- MODULE GroupsProofs ----------------------------
(***************************************************************************)
(* Grouping keeps its promise for every number of signals, keys, direct    *)
(* deliveries and flushers.                                                *)
(*                                                                         *)
(* The inductive invariant is IInv.  Placed says where a member can be and *)
(* what an open group and a closed one look like; it carries exactly-once. *)
(* CountIsExact is what makes a flush trustworthy: with Accounted (what a  *)
(* flush owes is finished or still counted) a count of zero means that all *)
(* of it is finished.                                                      *)
(***************************************************************************)
EXTENDS Groups, FiniteSetTheorems, FunctionTheorems, TLAPS

OpenShape ==
  \A k \in Keys :
    /\ open[k].seq = 0 <=> open[k].members = {}
    /\ Cardinality(open[k].members) < MaxGroupSize
    /\ \A m \in open[k].members : GroupOf[m] = k /\ m \notin arriving /\ sent[m] = 0

ClosedShape ==
  /\ \A B \in sending :
       /\ B # {} /\ Cardinality(B) <= MaxGroupSize
       /\ \A m \in B : m \notin arriving /\ sent[m] = 0 /\ ~Awaited(m)
       /\ \A m, n \in B : GroupOf[m] = GroupOf[n]
  /\ \A B, C \in sending : B # C => B \cap C = {}

Somewhere ==
  \A m \in Members :
    /\ sent[m] \in {0, 1}
    /\ m \in arriving => sent[m] = 0
    /\ m \in arriving \/ sent[m] = 1 \/ Awaited(m) \/ \E B \in sending : m \in B

Placed == OpenShape /\ ClosedShape /\ Somewhere

(* What a flush in progress owes is finished, or counted as in flight.     *)
Accounted ==
  \A f \in Flushers : flush[f] \in {"checking", "asleep", "late"} =>
    \A x \in owed[f] :
      \/ Finished(x)
      \/ x \in Members /\ \E B \in sending : x \in B
      \/ x \in Directs /\ direct[x] = "sending"

IInv ==
  /\ TypeOK /\ Placed /\ CountIsExact /\ OpenHasTimer
  /\ NoMissedWakeup /\ Accounted /\ FlushKeepsItsWord

-----------------------------------------------------------------------------
(* Finite sets.                                                            *)

LEMMA MembersFinite ==
  ASSUME NEW B, B \subseteq Members
  PROVE  IsFiniteSet(B) /\ Cardinality(B) \in Nat
  BY GroupAssumption, FS_Subset, FS_CardinalityType

LEMMA SendingFinite ==
  ASSUME NEW S, S \subseteq SUBSET Members
  PROVE  IsFiniteSet(S) /\ Cardinality(S) \in Nat
  BY GroupAssumption, FS_SUBSET, FS_Subset, FS_CardinalityType

LEMMA DirectsFinite ==
  ASSUME NEW D, D \subseteq Directs
  PROVE  IsFiniteSet(D) /\ Cardinality(D) \in Nat
  BY GroupAssumption, FS_Subset, FS_CardinalityType

(* Closing open groups adds as many batches as there were groups.          *)
LEMMA ClosingCounts ==
  ASSUME TypeOK, Placed, NEW KS, KS \subseteq OpenKeys
  PROVE  /\ Batches(KS) \subseteq SUBSET Members
         /\ Cardinality(KS) \in Nat
         /\ Cardinality(sending \union Batches(KS)) =
              Cardinality(sending) + Cardinality(KS)
  <1> DEFINE g == [k \in KS |-> open[k].members]
  <1>1. Batches(KS) \subseteq SUBSET Members /\ sending \subseteq SUBSET Members
    BY DEF TypeOK, Batches, OpenKeys
  <1>2. \A k \in KS : open[k].members # {} /\ k \in Keys
    BY DEF Placed, OpenShape, OpenKeys, IsOpen
  <1>3. g \in Bijection(KS, Batches(KS))
    <2>1. g \in [KS -> Batches(KS)]
      BY DEF Batches
    <2>2. \A j, k \in KS : g[j] = g[k] => j = k
      BY <1>2 DEF Placed, OpenShape
    <2>3. \A b \in Batches(KS) : \E k \in KS : g[k] = b
      BY DEF Batches
    <2> HIDE DEF g
    <2> QED
      BY <2>1, <2>2, <2>3 DEF Bijection, Injection, Surjection, IsInjective
  <1>4. g \in Injection(KS, Batches(KS)) /\ g \in Surjection(KS, Batches(KS))
    BY <1>3 DEF Bijection
  <1>5. IsFiniteSet(Batches(KS))
    BY <1>1, SendingFinite
  <1> HIDE DEF g
  <1>6. IsFiniteSet(KS) /\ Cardinality(KS) = Cardinality(Batches(KS))
    BY <1>4, <1>5, FS_Injection
  <1>7. sending \cap Batches(KS) = {}
    <2> SUFFICES ASSUME NEW k \in KS, open[k].members \in sending
                 PROVE  FALSE
      BY DEF Batches
    <2>1. PICK m \in open[k].members : TRUE
      BY <1>2
    <2>2. m \in Members /\ GroupOf[m] = k /\ Awaited(m)
      BY <1>2, <2>1 DEF TypeOK, Placed, OpenShape, Awaited
    <2> QED
      BY <2>1, <2>2 DEF Placed, ClosedShape
  <1>8. Cardinality(sending \cap Batches(KS)) = 0
    BY <1>7, FS_EmptySet
  <1>9. IsFiniteSet(sending) /\ Cardinality(sending) \in Nat
    BY <1>1, SendingFinite
  <1>10. Cardinality(sending \union Batches(KS)) =
           Cardinality(sending) + Cardinality(Batches(KS)) - 0
    BY <1>5, <1>8, <1>9, FS_Union
  <1>11. Cardinality(Batches(KS)) \in Nat
    BY <1>5, FS_CardinalityType
  <1> QED
    BY <1>1, <1>6, <1>9, <1>10, <1>11

(* Closing open groups moves their members from the map to the batches.    *)
LEMMA ClosingPlaces ==
  ASSUME TypeOK, Placed, NEW KS, KS \subseteq OpenKeys,
         open' = [k \in Keys |-> IF k \in KS THEN NoGroup ELSE open[k]],
         sending' = sending \union Batches(KS),
         arriving' = arriving, sent' = sent
  PROVE  Placed'
  <1> USE GroupAssumption
  <1>1. \A k \in Keys : open'[k].members = IF k \in KS THEN {} ELSE open[k].members
    BY DEF NoGroup
  <1>2. \A k \in Keys : open'[k].seq = IF k \in KS THEN 0 ELSE open[k].seq
    BY DEF NoGroup
  <1>3. \A m \in Members : GroupOf[m] \in Keys
    OBVIOUS
  <1>4. \A k \in KS :
          /\ k \in Keys /\ open[k].members # {} /\ open[k].members \subseteq Members
          /\ Cardinality(open[k].members) <= MaxGroupSize
          /\ \A m \in open[k].members :
               GroupOf[m] = k /\ m \notin arriving /\ sent[m] = 0 /\ ~Awaited(m)'
    <2> SUFFICES ASSUME NEW k \in KS
                 PROVE  /\ k \in Keys /\ open[k].members # {} /\ open[k].members \subseteq Members
                        /\ Cardinality(open[k].members) <= MaxGroupSize
                        /\ \A m \in open[k].members :
                             GroupOf[m] = k /\ m \notin arriving /\ sent[m] = 0 /\ ~Awaited(m)'
      OBVIOUS
    <2>1. k \in Keys /\ open[k].members # {} /\ open[k].members \subseteq Members
      BY DEF OpenKeys, IsOpen, Placed, OpenShape, TypeOK
    <2>2. Cardinality(open[k].members) <= MaxGroupSize
      BY <2>1, MembersFinite DEF Placed, OpenShape
    <2> QED
      BY <1>1, <2>1, <2>2 DEF Placed, OpenShape, Awaited
  <1>5. OpenShape'
    <2>1. Cardinality({}) = 0
      BY FS_EmptySet
    <2>2. \A k \in Keys : Cardinality(open'[k].members) < MaxGroupSize
      BY <1>1, <2>1 DEF Placed, OpenShape
    <2> QED
      BY <1>1, <1>2, <2>2 DEF Placed, OpenShape
  <1>6. ClosedShape'
    <2>1. ASSUME NEW B \in sending'
          PROVE  /\ B # {} /\ Cardinality(B) <= MaxGroupSize
                 /\ \A m \in B : m \notin arriving' /\ sent'[m] = 0 /\ ~Awaited(m)'
                 /\ \A m, n \in B : GroupOf[m] = GroupOf[n]
      <3>1. CASE B \in sending
        <4>1. \A m \in B : m \in Members
          BY <3>1 DEF TypeOK
        <4> QED
          BY <3>1, <4>1, <1>1, <1>3 DEF Placed, ClosedShape, Awaited
      <3>2. CASE B \in Batches(KS)
        BY <3>2, <1>4 DEF Batches
      <3> QED
        BY <2>1, <3>1, <3>2
    <2>2. ASSUME NEW B \in sending', NEW C \in sending', B # C
          PROVE  B \cap C = {}
      <3>1. CASE B \in sending /\ C \in sending
        BY <2>2, <3>1 DEF Placed, ClosedShape
      <3>2. ASSUME NEW X \in sending, NEW k \in KS
            PROVE  X \cap open[k].members = {}
        BY <3>2, <1>4 DEF Placed, ClosedShape, Awaited
      <3>3. ASSUME NEW j \in KS, NEW k \in KS, open[j].members # open[k].members
            PROVE  open[j].members \cap open[k].members = {}
        BY <3>3, <1>4
      <3> QED
        BY <2>2, <3>1, <3>2, <3>3 DEF Batches
    <2> QED
      BY <2>1, <2>2 DEF ClosedShape
  <1>7. Somewhere'
    <2> SUFFICES ASSUME NEW m \in Members, ~Awaited(m)', Awaited(m)
                 PROVE  \E B \in sending' : m \in B
      BY DEF Placed, Somewhere
    <2>1. GroupOf[m] \in KS
      BY <1>1, <1>3 DEF Awaited
    <2> QED
      BY <2>1 DEF Awaited, Batches
  <1> QED
    BY <1>5, <1>6, <1>7 DEF Placed

-----------------------------------------------------------------------------
(* The initial state.                                                      *)

LEMMA InitInv == Init => IInv
  <1> SUFFICES ASSUME Init PROVE IInv
    OBVIOUS
  <1> USE GroupAssumption
  <1>1. TypeOK
    BY DEF Init, TypeOK, NoGroup, FlushStates
  <1>2. Placed
    <2>1. OpenShape
      <3>1. \A k \in Keys : open[k].seq = 0 /\ open[k].members = {}
        BY DEF Init, NoGroup
      <3>2. Cardinality({}) = 0
        BY FS_EmptySet
      <3>3. \A k \in Keys : Cardinality(open[k].members) = 0
        BY <3>1, <3>2
      <3> QED
        BY <3>1, <3>3 DEF OpenShape
    <2>2. ClosedShape /\ Somewhere
      BY DEF Init, ClosedShape, Somewhere
    <2> QED
      BY <2>1, <2>2 DEF Placed
  <1>3. CountIsExact
    <2>1. {d \in Directs : direct[d] = "sending"} = {}
      BY DEF Init
    <2> QED
      BY <2>1, FS_EmptySet DEF Init, CountIsExact
  <1>4. OpenHasTimer
    BY DEF Init, OpenHasTimer, OpenKeys, IsOpen, NoGroup
  <1>5. NoMissedWakeup /\ Accounted /\ FlushKeepsItsWord
    BY DEF Init, NoMissedWakeup, Accounted, FlushKeepsItsWord
  <1> QED
    BY <1>1, <1>2, <1>3, <1>4, <1>5 DEF IInv

LEMMA TypeStep == TypeOK /\ Placed /\ CountIsExact /\ [Next]_vars => TypeOK'
  <1> SUFFICES ASSUME TypeOK, Placed, CountIsExact, [Next]_vars PROVE TypeOK'
    OBVIOUS
  <1> USE GroupAssumption DEF TypeOK, NoGroup, FlushStates
  <1>1. ASSUME NEW m \in Members, AddOpens(m) PROVE TypeOK'
    BY <1>1 DEF AddOpens
  <1>2. ASSUME NEW m \in Members, AddJoins(m) PROVE TypeOK'
    BY <1>2 DEF AddJoins
  <1>3. ASSUME NEW m \in Members, AddFills(m) PROVE TypeOK'
    BY <1>3 DEF AddFills
  <1>4. ASSUME NEW t \in timers, TimerFires(t[1], t[2]) PROVE TypeOK'
    <2>1. PICK k \in Keys, q \in Nat \ {0} : t = <<k, q>> /\ TimerFires(k, q)
      BY <1>4
    <2>2. timers' \subseteq timers
      BY <2>1 DEF TimerFires
    <2>3. CASE open[k].seq = q
      <3>1. open' = [open EXCEPT ![k] = [seq |-> 0, members |-> {}]] /\ sending' = sending \union {open[k].members}
        BY <2>1, <2>3 DEF TimerFires
      <3>2. open' \in [Keys -> [seq : Nat, members : SUBSET Members]]
        BY <3>1
      <3>3. inFlight' \in Nat
        BY <2>1, <2>3 DEF TimerFires
      <3>4. sending' \subseteq SUBSET Members
        BY <3>1
      <3> QED
        BY <2>1, <2>2, <3>2, <3>3, <3>4 DEF TimerFires
    <2>4. CASE open[k].seq # q
      BY <2>1, <2>2, <2>4 DEF TimerFires
    <2> QED
      BY <2>3, <2>4
  <1>5. ASSUME TakeAll
        PROVE  /\ sending' \subseteq SUBSET Members /\ inFlight' \in Nat
               /\ open' \in [Keys -> [seq : Nat, members : SUBSET Members]]
    <2>1. Batches(OpenKeys) \subseteq SUBSET Members /\ Cardinality(OpenKeys) \in Nat
      BY ClosingCounts
    <2> QED
      BY <1>5, <2>1 DEF TakeAll
  <1>6. ASSUME FlushGroups PROVE TypeOK'
    BY <1>6, <1>5 DEF FlushGroups
  <1>7. ASSUME NEW f \in Flushers, FlushTakes(f) PROVE TypeOK'
    <2>1. UnderWay \subseteq Members \union Directs
      BY DEF UnderWay, Held, Batches, OpenKeys
    <2> QED
      BY <1>7, <1>5, <2>1 DEF FlushTakes
  <1>8. ASSUME NEW f \in Flushers, FlushChecks(f) \/ FlushDeadline(f) PROVE TypeOK'
    BY <1>8 DEF FlushChecks, FlushDeadline
  <1>9. ASSUME NEW d \in Directs, DirectStarts(d) PROVE TypeOK'
    BY <1>9 DEF DirectStarts
  <1>10. ASSUME DropGuard, inFlight > 0
         PROVE  inFlight' \in Nat /\ flush' \in [Flushers -> FlushStates]
    BY <1>10 DEF DropGuard
  <1>11. ASSUME NEW d \in Directs, DirectEnds(d) PROVE TypeOK'
    <2>1. inFlight > 0
      <3> DEFINE D == {e \in Directs : direct[e] = "sending"}
      <3>1. D # {} /\ D \subseteq Directs
        BY <1>11 DEF DirectEnds
      <3>2. inFlight = Cardinality(sending) + Cardinality(D)
        BY DEF CountIsExact
      <3> HIDE DEF D
      <3>3. Cardinality(D) > 0
        BY <3>1, DirectsFinite, FS_EmptySet
      <3> QED
        BY <3>2, <3>3, <3>1, DirectsFinite, SendingFinite
    <2> QED
      BY <1>11, <1>10, <2>1 DEF DirectEnds
  <1>12. ASSUME NEW B \in sending, SendEnds(B) PROVE TypeOK'
    <2>1. inFlight > 0
      <3> DEFINE D == {e \in Directs : direct[e] = "sending"}
      <3>1. inFlight = Cardinality(sending) + Cardinality(D) /\ D \subseteq Directs
        BY DEF CountIsExact
      <3> HIDE DEF D
      <3>2. Cardinality(sending) > 0
        BY SendingFinite, FS_EmptySet
      <3> QED
        BY <3>1, <3>2, DirectsFinite, SendingFinite
    <2> QED
      BY <1>12, <1>10, <2>1 DEF SendEnds
  <1>13. CASE UNCHANGED vars
    BY <1>13 DEF vars
  <1> QED
    BY <1>1, <1>2, <1>3, <1>4, <1>6, <1>7, <1>8, <1>9, <1>11, <1>12, <1>13 DEF Next

-----------------------------------------------------------------------------
(* One step at a time.                                                     *)

(* A timer that finds its group closes that one group.                     *)
LEMMA TimerCloses ==
  ASSUME TypeOK, NEW k \in Keys, NEW q \in Nat, TimerFires(k, q), <<k, q>> \in timers,
         open[k].seq = q, q # 0
  PROVE  /\ {k} \subseteq OpenKeys
         /\ open' = [j \in Keys |-> IF j \in {k} THEN NoGroup ELSE open[j]]
         /\ sending' = sending \union Batches({k})
         /\ inFlight' = inFlight + 1
  <1>1. open' = [open EXCEPT ![k] = NoGroup] /\ sending' = sending \union {open[k].members}
        /\ inFlight' = inFlight + 1
    BY DEF TimerFires
  <1>2. open' = [j \in Keys |-> IF j \in {k} THEN NoGroup ELSE open[j]]
    BY <1>1 DEF TypeOK
  <1>3. Batches({k}) = {open[k].members}
    BY DEF Batches
  <1> QED
    BY <1>1, <1>2, <1>3 DEF OpenKeys, IsOpen

(* A member being added is in no group yet.                                *)
LEMMA Newcomer ==
  ASSUME TypeOK, Placed, NEW m \in arriving
  PROVE  /\ m \in Members /\ sent[m] = 0 /\ GroupOf[m] \in Keys
         /\ \A k \in Keys : m \notin open[k].members
         /\ \A B \in sending : m \notin B
  BY GroupAssumption DEF TypeOK, Placed, OpenShape, ClosedShape, Somewhere

LEMMA AddingPlaces ==
  ASSUME TypeOK, Placed, NEW m \in arriving, NEW q \in Nat, q # 0,
         NEW G, G = open[GroupOf[m]].members \union {m}, Cardinality(G) < MaxGroupSize,
         open' = [open EXCEPT ![GroupOf[m]] = [seq |-> q, members |-> G]],
         arriving' = arriving \ {m}, sending' = sending, sent' = sent
  PROVE  Placed'
  <1> USE GroupAssumption, Newcomer
  <1> DEFINE k == GroupOf[m]
  <1>1. k \in Keys /\ m \in Members
    OBVIOUS
  <1>2. \A j \in Keys : open'[j].members = (IF j = k THEN G ELSE open[j].members)
                      /\ open'[j].seq = (IF j = k THEN q ELSE open[j].seq)
    BY <1>1 DEF TypeOK
  <1>3. \A n \in Members : GroupOf[n] \in Keys
    OBVIOUS
  <1>4. OpenShape'
    BY <1>1, <1>2 DEF Placed, OpenShape
  <1>5. \A n \in Members : Awaited(n)' <=> (Awaited(n) \/ n = m)
    BY <1>2, <1>3 DEF Awaited, Placed, OpenShape
  <1>6. ClosedShape'
    <2>1. \A B \in sending : \A n \in B : n \in Members /\ n # m
      BY DEF TypeOK
    <2> QED
      BY <1>5, <2>1 DEF Placed, ClosedShape
  <1>7. Somewhere'
    BY <1>5 DEF Placed, Somewhere
  <1> QED
    BY <1>4, <1>6, <1>7 DEF Placed

LEMMA FillingPlaces ==
  ASSUME TypeOK, Placed, NEW m \in arriving, AddFills(m)
  PROVE  /\ Placed'
         /\ Cardinality(sending') = Cardinality(sending) + 1
  <1> USE GroupAssumption, Newcomer
  <1> DEFINE k == GroupOf[m]
             G == open[k].members \union {m}
  <1>1. /\ k \in Keys /\ m \in Members
        /\ open' = [open EXCEPT ![k] = NoGroup] /\ sending' = sending \union {G}
        /\ arriving' = arriving \ {m} /\ sent' = sent
    BY DEF AddFills
  <1>2. \A j \in Keys : open'[j].members = (IF j = k THEN {} ELSE open[j].members)
                      /\ open'[j].seq = (IF j = k THEN 0 ELSE open[j].seq)
    BY <1>1 DEF TypeOK, NoGroup
  <1>3. \A n \in Members : GroupOf[n] \in Keys
    OBVIOUS
  <1>4. open[k].members \subseteq Members /\ \A n \in open[k].members : GroupOf[n] = k
    BY <1>1 DEF TypeOK, Placed, OpenShape
  <1>5. OpenShape'
    <2>1. Cardinality({}) = 0
      BY FS_EmptySet
    <2>2. \A j \in Keys : Cardinality(open'[j].members) < MaxGroupSize
      BY <1>2, <2>1 DEF Placed, OpenShape
    <2> QED
      BY <1>1, <1>2, <2>2 DEF Placed, OpenShape
  <1>6. \A n \in Members : Awaited(n)' <=> (Awaited(n) /\ n \notin G)
    BY <1>2, <1>3, <1>4 DEF Awaited, Placed, OpenShape
  <1>7. Cardinality(G) <= MaxGroupSize
    <2>1. Cardinality(open[k].members) < MaxGroupSize /\ m \notin open[k].members
      BY <1>1 DEF Placed, OpenShape
    <2>2. IsFiniteSet(open[k].members) /\ Cardinality(open[k].members) \in Nat
      BY <1>4, MembersFinite
    <2>3. Cardinality(G) = Cardinality(open[k].members) + 1
      BY <2>1, <2>2, FS_AddElement
    <2> QED
      BY <2>1, <2>2, <2>3
  <1>8. \A B \in sending : B \cap G = {} /\ B \subseteq Members
    BY <1>4 DEF TypeOK, Placed, ClosedShape, Awaited
  <1>9. ClosedShape'
    <2>1. ASSUME NEW B \in sending
          PROVE  \A n \in B : n \notin arriving' /\ sent'[n] = 0 /\ ~Awaited(n)'
      BY <1>1, <1>6, <1>8 DEF Placed, ClosedShape
    <2>2. \A n \in G : n \notin arriving' /\ sent'[n] = 0 /\ ~Awaited(n)' /\ GroupOf[n] = k
      BY <1>1, <1>4, <1>6 DEF Placed, OpenShape
    <2>3. G # {}
      OBVIOUS
    <2> HIDE DEF G, k
    <2> QED
      BY <1>1, <1>7, <1>8, <2>1, <2>2, <2>3 DEF Placed, ClosedShape
  <1>10. Somewhere'
    <2>1. ASSUME NEW n \in Members
          PROVE  n \in arriving' \/ sent'[n] = 1 \/ Awaited(n)' \/ \E B \in sending' : n \in B
      <3>1. CASE n \in G
        BY <1>1, <3>1
      <3>2. CASE n \notin G
        <4>1. n # m
          BY <3>2
        <4> HIDE DEF G
        <4> QED
          BY <1>1, <1>6, <3>2, <4>1 DEF Placed, Somewhere
      <3> QED
        BY <3>1, <3>2
    <2> QED
      BY <2>1, <1>1 DEF Placed, Somewhere
  <1>11. Cardinality(sending') = Cardinality(sending) + 1
    <2>1. G \notin sending
      BY <1>8
    <2>2. IsFiniteSet(sending)
      BY SendingFinite DEF TypeOK
    <2> HIDE DEF G
    <2> QED
      BY <1>1, <2>1, <2>2, FS_AddElement
  <1> QED
    BY <1>5, <1>9, <1>10, <1>11 DEF Placed

LEMMA EndingPlaces ==
  ASSUME TypeOK, Placed, NEW B \in sending, SendEnds(B)
  PROVE  /\ Placed'
         /\ Cardinality(sending') = Cardinality(sending) - 1
         /\ \A m \in B : sent'[m] = 1
         /\ \A m \in Members \ B : sent'[m] = sent[m]
  <1> USE GroupAssumption
  <1>1. /\ sending' = sending \ {B} /\ arriving' = arriving /\ open' = open
        /\ B \subseteq Members
    BY DEF SendEnds, TypeOK
  <1>2. /\ \A m \in B : sent'[m] = 1
        /\ \A m \in Members \ B : sent'[m] = sent[m]
    BY <1>1 DEF SendEnds, Placed, ClosedShape
  <1>3. \A m \in Members : Awaited(m)' <=> Awaited(m)
    BY <1>1 DEF Awaited
  <1>4. OpenShape'
    <2>1. ASSUME NEW k \in Keys, NEW m \in open[k].members
          PROVE  sent'[m] = 0
      BY <1>2 DEF TypeOK, Placed, OpenShape, ClosedShape, Awaited
    <2> QED
      BY <1>1, <2>1 DEF Placed, OpenShape
  <1>5. ClosedShape'
    <2>1. \A C \in sending' : C \in sending /\ C \cap B = {} /\ C \subseteq Members
      BY <1>1 DEF Placed, ClosedShape, TypeOK
    <2>2. \A C \in sending' : \A m \in C : sent'[m] = 0
      BY <2>1, <1>2 DEF Placed, ClosedShape
    <2> QED
      BY <1>1, <1>3, <2>1, <2>2 DEF Placed, ClosedShape
  <1>6. Somewhere'
    BY <1>1, <1>2, <1>3 DEF Placed, Somewhere, ClosedShape
  <1>7. Cardinality(sending') = Cardinality(sending) - 1
    <2>1. IsFiniteSet(sending)
      BY SendingFinite DEF TypeOK
    <2> QED
      BY <1>1, <2>1, FS_RemoveElement
  <1> QED
    BY <1>2, <1>4, <1>5, <1>6, <1>7 DEF Placed

Busy == {d \in Directs : direct[d] = "sending"}

(* Where each step leaves the members, and how it moves the count.         *)
LEMMA PlacesAndCount ==
  TypeOK /\ Placed /\ CountIsExact /\ [Next]_vars => Placed' /\ CountIsExact'
  <1> SUFFICES ASSUME TypeOK, Placed, CountIsExact, [Next]_vars
               PROVE  Placed' /\ CountIsExact'
    OBVIOUS
  <1> USE GroupAssumption
  <1>1. /\ inFlight = Cardinality(sending) + Cardinality(Busy) /\ inFlight \in Nat
        /\ Cardinality(sending) \in Nat /\ IsFiniteSet(Busy) /\ Cardinality(Busy) \in Nat
    BY SendingFinite, DirectsFinite DEF CountIsExact, Busy, TypeOK
  <1>2. ASSUME inFlight' = Cardinality(sending') + Cardinality(Busy')
        PROVE  CountIsExact'
    BY <1>2 DEF CountIsExact, Busy
  <1>3. ASSUME UNCHANGED <<arriving, open, sending, sent>>
        PROVE  Placed'
    BY <1>3 DEF Placed, OpenShape, ClosedShape, Somewhere, Awaited
  <1>4. ASSUME UNCHANGED direct
        PROVE  Busy' = Busy
    BY <1>4 DEF Busy
  <1>5. ASSUME NEW m \in Members, AddOpens(m) PROVE Placed' /\ CountIsExact'
    <2>1. m \in arriving /\ ~IsOpen(GroupOf[m]) /\ GroupOf[m] \in Keys
      BY <1>5 DEF AddOpens
    <2>2. open[GroupOf[m]].members = {}
      BY <2>1 DEF Placed, OpenShape, IsOpen
    <2>3. {m} = open[GroupOf[m]].members \union {m} /\ Cardinality({m}) < MaxGroupSize
      <3>1. Cardinality({m}) = 1
        BY FS_Singleton
      <3> QED
        BY <2>2, <3>1
    <2>4. nextSeq + 1 \in Nat /\ nextSeq + 1 # 0
      BY DEF TypeOK
    <2>5. /\ open' = [open EXCEPT ![GroupOf[m]] = [seq |-> nextSeq + 1, members |-> {m}]]
          /\ arriving' = arriving \ {m} /\ sending' = sending /\ sent' = sent
          /\ direct' = direct /\ inFlight' = inFlight
      BY <1>5 DEF AddOpens
    <2>6. Placed'
      BY <2>1, <2>3, <2>4, <2>5, AddingPlaces
    <2> QED
      BY <2>5, <2>6, <1>1, <1>2, <1>4
  <1>6. ASSUME NEW m \in Members, AddJoins(m) PROVE Placed' /\ CountIsExact'
    <2> DEFINE k == GroupOf[m]
               G == open[k].members \union {m}
    <2>1. m \in arriving /\ k \in Keys /\ open[k].seq # 0 /\ open[k].seq \in Nat
          /\ open[k].members \subseteq Members
          /\ Cardinality(open[k].members) + 1 < MaxGroupSize
      BY <1>6 DEF AddJoins, IsOpen, TypeOK
    <2>2. m \notin open[k].members
      BY <2>1, Newcomer
    <2>3. Cardinality(G) < MaxGroupSize
      <3>1. IsFiniteSet(open[k].members) /\ Cardinality(open[k].members) \in Nat
        BY <2>1, MembersFinite
      <3>2. Cardinality(G) = Cardinality(open[k].members) + 1
        BY <2>2, <3>1, FS_AddElement
      <3> QED
        BY <2>1, <3>2
    <2>4. /\ open' = [open EXCEPT ![k] = [seq |-> open[k].seq, members |-> G]]
          /\ arriving' = arriving \ {m} /\ sending' = sending /\ sent' = sent
          /\ direct' = direct /\ inFlight' = inFlight
      BY <1>6 DEF AddJoins
    <2>5. Placed'
      BY <2>1, <2>3, <2>4, AddingPlaces
    <2> QED
      BY <2>4, <2>5, <1>1, <1>2, <1>4
  <1>7. ASSUME NEW m \in Members, AddFills(m) PROVE Placed' /\ CountIsExact'
    <2>1. m \in arriving /\ inFlight' = inFlight + 1 /\ direct' = direct
      BY <1>7 DEF AddFills
    <2>2. Placed' /\ Cardinality(sending') = Cardinality(sending) + 1
      BY <1>7, <2>1, FillingPlaces
    <2> QED
      BY <2>1, <2>2, <1>1, <1>2, <1>4
  <1>8. ASSUME NEW KS, KS \subseteq OpenKeys,
               open' = [j \in Keys |-> IF j \in KS THEN NoGroup ELSE open[j]],
               sending' = sending \union Batches(KS),
               inFlight' = inFlight + Cardinality(KS),
               arriving' = arriving, sent' = sent, direct' = direct
        PROVE  Placed' /\ CountIsExact'
    <2>1. Placed'
      BY <1>8, ClosingPlaces
    <2>2. Cardinality(sending') = Cardinality(sending) + Cardinality(KS)
          /\ Cardinality(KS) \in Nat
      BY <1>8, ClosingCounts
    <2> QED
      BY <2>1, <2>2, <1>1, <1>2, <1>4, <1>8
  <1>9. ASSUME NEW t \in timers, TimerFires(t[1], t[2]) PROVE Placed' /\ CountIsExact'
    <2>1. PICK k \in Keys, q \in Nat \ {0} : t = <<k, q>> /\ TimerFires(k, q)
      BY <1>9 DEF TypeOK
    <2>2. arriving' = arriving /\ sent' = sent /\ direct' = direct
      BY <2>1 DEF TimerFires
    <2>3. CASE open[k].seq = q
      <3>1. <<k, q>> \in timers
        BY <2>1
      <3>2. /\ {k} \subseteq OpenKeys /\ inFlight' = inFlight + Cardinality({k})
            /\ open' = [j \in Keys |-> IF j \in {k} THEN NoGroup ELSE open[j]]
            /\ sending' = sending \union Batches({k})
        BY <2>1, <2>3, <3>1, TimerCloses, FS_Singleton
      <3> QED
        BY <3>2, <2>2, <1>8
    <2>4. CASE open[k].seq # q
      <3>1. UNCHANGED <<open, sending, inFlight>>
        BY <2>1, <2>4 DEF TimerFires
      <3> QED
        BY <3>1, <2>2, <1>1, <1>2, <1>3, <1>4
    <2> QED
      BY <2>3, <2>4
  <1>10. ASSUME TakeAll, arriving' = arriving, sent' = sent, direct' = direct
         PROVE  Placed' /\ CountIsExact'
    <2>1. open' = [j \in Keys |-> IF j \in OpenKeys THEN NoGroup ELSE open[j]]
      <3>1. \A j \in Keys \ OpenKeys : open[j] = NoGroup
        BY DEF OpenKeys, IsOpen, NoGroup, TypeOK, Placed, OpenShape
      <3> QED
        BY <1>10, <3>1 DEF TakeAll
    <2> QED
      BY <2>1, <1>8, <1>10 DEF TakeAll
  <1>11. ASSUME FlushGroups PROVE Placed' /\ CountIsExact'
    BY <1>11, <1>10 DEF FlushGroups
  <1>12. ASSUME NEW f \in Flushers, FlushTakes(f) PROVE Placed' /\ CountIsExact'
    BY <1>12, <1>10 DEF FlushTakes
  <1>13. ASSUME NEW f \in Flushers, FlushChecks(f) \/ FlushDeadline(f)
         PROVE  Placed' /\ CountIsExact'
    <2>1. UNCHANGED <<arriving, open, sending, sent, direct, inFlight>>
      BY <1>13 DEF FlushChecks, FlushDeadline
    <2> QED
      BY <2>1, <1>1, <1>2, <1>3, <1>4
  <1>14. ASSUME NEW d \in Directs, DirectStarts(d) PROVE Placed' /\ CountIsExact'
    <2>1. UNCHANGED <<arriving, open, sending, sent>> /\ inFlight' = inFlight + 1
      BY <1>14 DEF DirectStarts
    <2>2. Busy' = Busy \union {d} /\ d \notin Busy
      BY <1>14 DEF DirectStarts, Busy, TypeOK
    <2>3. Cardinality(Busy') = Cardinality(Busy) + 1
      BY <2>2, <1>1, FS_AddElement
    <2> QED
      BY <2>1, <2>3, <1>1, <1>2, <1>3
  <1>15. ASSUME NEW d \in Directs, DirectEnds(d) PROVE Placed' /\ CountIsExact'
    <2>1. UNCHANGED <<arriving, open, sending, sent>> /\ inFlight' = inFlight - 1
      BY <1>15 DEF DirectEnds, DropGuard
    <2>2. Busy' = Busy \ {d} /\ d \in Busy
      BY <1>15 DEF DirectEnds, Busy, TypeOK
    <2>3. Cardinality(Busy') = Cardinality(Busy) - 1
      BY <2>2, <1>1, FS_RemoveElement
    <2> QED
      BY <2>1, <2>3, <1>1, <1>2, <1>3
  <1>16. ASSUME NEW B \in sending, SendEnds(B) PROVE Placed' /\ CountIsExact'
    <2>1. direct' = direct /\ inFlight' = inFlight - 1
      BY <1>16 DEF SendEnds, DropGuard
    <2> QED
      BY <2>1, <1>16, EndingPlaces, <1>1, <1>2, <1>4
  <1>17. CASE UNCHANGED vars
    BY <1>17, <1>1, <1>2, <1>3, <1>4 DEF vars
  <1> QED
    BY <1>5, <1>6, <1>7, <1>9, <1>11, <1>12, <1>13, <1>14, <1>15, <1>16, <1>17 DEF Next

(* An open group's timer stays: it goes off only to close its group.       *)
LEMMA TimersStep == TypeOK /\ OpenHasTimer /\ [Next]_vars => OpenHasTimer'
  <1> SUFFICES ASSUME TypeOK, OpenHasTimer, [Next]_vars PROVE OpenHasTimer'
    OBVIOUS
  <1> USE GroupAssumption DEF OpenHasTimer, OpenKeys, IsOpen, NoGroup, TypeOK
  <1>1. ASSUME NEW m \in Members, AddOpens(m) PROVE OpenHasTimer'
    BY <1>1 DEF AddOpens
  <1>2. ASSUME NEW m \in Members, AddJoins(m) PROVE OpenHasTimer'
    <2>1. \A k \in Keys : open'[k].seq = open[k].seq
      BY <1>2 DEF AddJoins
    <2> QED
      BY <1>2, <2>1 DEF AddJoins
  <1>3. ASSUME NEW m \in Members, AddFills(m) PROVE OpenHasTimer'
    BY <1>3 DEF AddFills
  <1>4. ASSUME NEW t \in timers, TimerFires(t[1], t[2]) PROVE OpenHasTimer'
    <2>1. PICK k \in Keys, q \in Nat \ {0} : t = <<k, q>> /\ TimerFires(k, q)
      BY <1>4
    <2>2. CASE open[k].seq = q
      <3>1. timers' = timers \ {<<k, q>>} /\ open' = [open EXCEPT ![k] = [seq |-> 0, members |-> {}]]
        BY <2>1, <2>2 DEF TimerFires
      <3> QED
        BY <3>1
    <2>3. CASE open[k].seq # q
      <3>1. timers' = timers \ {<<k, q>>} /\ open' = open
        BY <2>1, <2>3 DEF TimerFires
      <3> QED
        BY <3>1, <2>3
    <2> QED
      BY <2>2, <2>3
  <1>5. ASSUME TakeAll, timers' = timers PROVE OpenHasTimer'
    BY <1>5 DEF TakeAll
  <1>6. CASE FlushGroups \/ \E f \in Flushers : FlushTakes(f)
    BY <1>5, <1>6 DEF FlushGroups, FlushTakes
  <1>7. ASSUME UNCHANGED <<open, timers>> PROVE OpenHasTimer'
    BY <1>7
  <1>8. CASE \/ \E f \in Flushers : FlushChecks(f) \/ FlushDeadline(f)
             \/ \E d \in Directs : DirectStarts(d) \/ DirectEnds(d)
             \/ \E B \in sending : SendEnds(B)
             \/ UNCHANGED vars
    BY <1>7, <1>8 DEF FlushChecks, FlushDeadline, DirectStarts, DirectEnds, SendEnds, vars
  <1> QED
    BY <1>1, <1>2, <1>3, <1>4, <1>6, <1>8 DEF Next

(* What a flush owes stays finished or counted, so a flush that sees a     *)
(* count of zero owes nothing; and the last guard wakes every sleeper.     *)
LEMMA FlushStep == IInv /\ TypeOK' /\ [Next]_vars =>
                     NoMissedWakeup' /\ Accounted' /\ FlushKeepsItsWord'
  <1> SUFFICES ASSUME IInv, TypeOK', [Next]_vars
               PROVE  NoMissedWakeup' /\ Accounted' /\ FlushKeepsItsWord'
    OBVIOUS
  <1> USE GroupAssumption
  <1> DEFINE Going(x) == \/ x \in Members /\ \E B \in sending : x \in B
                         \/ x \in Directs /\ direct[x] = "sending"
  <1>0. TypeOK /\ NoMissedWakeup /\ Accounted /\ FlushKeepsItsWord
    BY DEF IInv
  <1>1. ASSUME \A x : Going(x) => Going(x)' \/ Finished(x)',
               \A x : Finished(x) => Finished(x)',
               NEW f \in Flushers, owed'[f] = owed[f],
               flush[f] \in {"checking", "asleep", "late"}
        PROVE  \A x \in owed'[f] : Finished(x)' \/ Going(x)'
    BY <1>0, <1>1 DEF Accounted
  <1>2. ASSUME \A x : Going(x) => Going(x)' \/ Finished(x)',
               \A x : Finished(x) => Finished(x)',
               owed' = owed, inFlight' >= inFlight, flush' = flush
        PROVE  NoMissedWakeup' /\ Accounted' /\ FlushKeepsItsWord'
    <2>1. NoMissedWakeup'
      BY <1>0, <1>2 DEF NoMissedWakeup, TypeOK
    <2>2. Accounted'
      BY <1>1, <1>2 DEF Accounted
    <2>3. FlushKeepsItsWord'
      BY <1>0, <1>2 DEF FlushKeepsItsWord
    <2> QED
      BY <2>1, <2>2, <2>3
  <1>3. ASSUME sending \subseteq sending', direct' = direct, sent' = sent
        PROVE  (\A x : Going(x) => Going(x)') /\ (\A x : Finished(x) => Finished(x)')
    BY <1>3 DEF Finished
  <1>4. ASSUME NEW m \in Members, AddOpens(m) \/ AddJoins(m) \/ AddFills(m)
        PROVE  NoMissedWakeup' /\ Accounted' /\ FlushKeepsItsWord'
    <2>1. sending \subseteq sending' /\ direct' = direct /\ sent' = sent
          /\ owed' = owed /\ flush' = flush /\ inFlight' >= inFlight
      BY <1>0, <1>4 DEF AddOpens, AddJoins, AddFills, TypeOK
    <2> QED
      BY <2>1, <1>2, <1>3
  <1>5. ASSUME NEW t \in timers, TimerFires(t[1], t[2])
        PROVE  NoMissedWakeup' /\ Accounted' /\ FlushKeepsItsWord'
    <2>1. sending \subseteq sending' /\ direct' = direct /\ sent' = sent
          /\ owed' = owed /\ flush' = flush /\ inFlight' >= inFlight
      BY <1>0, <1>5 DEF TimerFires, TypeOK
    <2> QED
      BY <2>1, <1>2, <1>3
  <1>6. ASSUME TakeAll
        PROVE  sending \subseteq sending' /\ inFlight' >= inFlight
    <2>1. Cardinality(OpenKeys) \in Nat
      BY ClosingCounts DEF IInv
    <2> QED
      BY <1>0, <1>6, <2>1 DEF TakeAll, TypeOK
  <1>7. ASSUME FlushGroups
        PROVE  NoMissedWakeup' /\ Accounted' /\ FlushKeepsItsWord'
    <2>1. direct' = direct /\ sent' = sent /\ owed' = owed /\ flush' = flush /\ TakeAll
      BY <1>7 DEF FlushGroups
    <2> QED
      BY <2>1, <1>2, <1>3, <1>6
  <1>8. ASSUME NEW f \in Flushers, FlushTakes(f)
        PROVE  NoMissedWakeup' /\ Accounted' /\ FlushKeepsItsWord'
    <2>1. /\ direct' = direct /\ sent' = sent /\ TakeAll
          /\ owed' = [owed EXCEPT ![f] = UnderWay]
          /\ flush' = [flush EXCEPT ![f] = "checking"]
          /\ sending \subseteq sending' /\ inFlight' >= inFlight
      BY <1>8, <1>6 DEF FlushTakes
    <2>2. \A x \in UnderWay : Going(x)'
      BY <1>0, <2>1 DEF UnderWay, Held, TakeAll, TypeOK, Batches, OpenKeys
    <2>3. NoMissedWakeup'
      BY <1>0, <2>1 DEF NoMissedWakeup, TypeOK
    <2>4. Accounted'
      <3> SUFFICES ASSUME NEW g \in Flushers, flush'[g] \in {"checking", "asleep", "late"}
                   PROVE  \A x \in owed'[g] : Finished(x)' \/ Going(x)'
        BY DEF Accounted
      <3>1. CASE g = f
        BY <1>0, <2>1, <2>2, <3>1 DEF TypeOK
      <3>2. CASE g # f
        BY <1>0, <2>1, <3>2, <1>1, <1>3 DEF TypeOK
      <3> QED
        BY <3>1, <3>2
    <2>5. FlushKeepsItsWord'
      <3>1. \A g \in Flushers : flush'[g] = "flushed" => g # f /\ flush[g] = "flushed"
        BY <1>0, <2>1 DEF TypeOK
      <3>2. \A g \in Flushers : g # f => owed'[g] = owed[g]
        BY <1>0, <2>1 DEF TypeOK
      <3> QED
        BY <1>0, <2>1, <3>1, <3>2, <1>3 DEF FlushKeepsItsWord
    <2> QED
      BY <2>3, <2>4, <2>5
  <1>9. inFlight = 0 => \A x : ~Going(x)
    <2> SUFFICES ASSUME inFlight = 0 PROVE \A x : ~Going(x)
      OBVIOUS
    <2>1. /\ Cardinality(sending) + Cardinality(Busy) = 0
          /\ IsFiniteSet(sending) /\ Cardinality(sending) \in Nat
          /\ IsFiniteSet(Busy) /\ Cardinality(Busy) \in Nat
      BY SendingFinite, DirectsFinite DEF IInv, CountIsExact, Busy, TypeOK
    <2>2. Cardinality(sending) = 0 /\ Cardinality(Busy) = 0
      BY <2>1
    <2>3. sending = {} /\ Busy = {}
      BY <2>1, <2>2, FS_EmptySet
    <2> QED
      BY <2>3 DEF Busy
  <1>10. ASSUME NEW f \in Flushers, FlushChecks(f)
         PROVE  NoMissedWakeup' /\ Accounted' /\ FlushKeepsItsWord'
    <2>1. /\ UNCHANGED <<sending, direct, sent, inFlight, owed>>
          /\ flush[f] \in {"checking", "late"}
          /\ \A g \in Flushers : g # f => flush'[g] = flush[g]
          /\ flush'[f] = "flushed" => inFlight = 0
          /\ flush'[f] = "asleep" => inFlight > 0
      BY <1>0, <1>10 DEF FlushChecks, TypeOK
    <2>2. NoMissedWakeup'
      BY <1>0, <2>1 DEF NoMissedWakeup
    <2>3. \A g \in Flushers : flush'[g] \in {"checking", "asleep", "late"} =>
            flush[g] \in {"checking", "asleep", "late"}
      BY <2>1
    <2>4. Accounted'
      BY <1>0, <2>1, <2>3, <1>1, <1>3 DEF Accounted
    <2>5. FlushKeepsItsWord'
      BY <1>0, <2>1, <1>3, <1>9 DEF FlushKeepsItsWord, Accounted
    <2> QED
      BY <2>2, <2>4, <2>5
  <1>11. ASSUME NEW f \in Flushers, FlushDeadline(f)
         PROVE  NoMissedWakeup' /\ Accounted' /\ FlushKeepsItsWord'
    <2>1. /\ UNCHANGED <<sending, direct, sent, inFlight, owed>>
          /\ flush[f] \in {"checking", "asleep"} /\ flush'[f] = "late"
          /\ \A g \in Flushers : g # f => flush'[g] = flush[g]
      BY <1>0, <1>11 DEF FlushDeadline, TypeOK
    <2>2. NoMissedWakeup'
      BY <1>0, <2>1 DEF NoMissedWakeup
    <2>3. \A g \in Flushers : flush'[g] \in {"checking", "asleep", "late"} =>
            flush[g] \in {"checking", "asleep", "late"}
      BY <2>1
    <2>4. Accounted'
      BY <1>0, <2>1, <2>3, <1>1, <1>3 DEF Accounted
    <2>5. FlushKeepsItsWord'
      BY <1>0, <2>1, <1>3 DEF FlushKeepsItsWord
    <2> QED
      BY <2>2, <2>4, <2>5
  <1>12. ASSUME NEW d \in Directs, DirectStarts(d)
         PROVE  NoMissedWakeup' /\ Accounted' /\ FlushKeepsItsWord'
    <2>1. /\ direct' = [direct EXCEPT ![d] = "sending"] /\ direct[d] = "idle"
          /\ UNCHANGED <<sending, sent, owed, flush>> /\ inFlight' >= inFlight
      BY <1>0, <1>12 DEF DirectStarts, TypeOK
    <2>2. (\A x : Going(x) => Going(x)') /\ (\A x : Finished(x) => Finished(x)')
      BY <1>0, <2>1 DEF Finished, TypeOK
    <2> QED
      BY <2>1, <2>2, <1>2
  <1>13. ASSUME DropGuard, owed' = owed,
                \A x : Going(x) => Going(x)' \/ Finished(x)',
                \A x : Finished(x) => Finished(x)'
         PROVE  NoMissedWakeup' /\ Accounted' /\ FlushKeepsItsWord'
    <2>1. \A g \in Flushers :
            flush'[g] = IF inFlight' = 0 /\ flush[g] = "asleep" THEN "checking" ELSE flush[g]
      BY <1>13 DEF DropGuard
    <2>2. NoMissedWakeup'
      BY <2>1 DEF NoMissedWakeup, TypeOK
    <2>3. \A g \in Flushers : flush'[g] \in {"checking", "asleep", "late"} =>
            flush[g] \in {"checking", "asleep", "late"}
      BY <2>1
    <2>4. Accounted'
      BY <1>13, <2>3, <1>1 DEF Accounted
    <2>5. FlushKeepsItsWord'
      BY <1>0, <1>13, <2>1 DEF FlushKeepsItsWord
    <2> QED
      BY <2>2, <2>4, <2>5
  <1>14. ASSUME NEW d \in Directs, DirectEnds(d)
         PROVE  NoMissedWakeup' /\ Accounted' /\ FlushKeepsItsWord'
    <2>1. /\ direct' = [direct EXCEPT ![d] = "done"] /\ direct[d] = "sending"
          /\ UNCHANGED <<sending, sent, owed>> /\ DropGuard
      BY <1>14 DEF DirectEnds
    <2>2. (\A x : Going(x) => Going(x)' \/ Finished(x)') /\ (\A x : Finished(x) => Finished(x)')
      BY <1>0, <2>1 DEF Finished, TypeOK
    <2> QED
      BY <2>1, <2>2, <1>13
  <1>15. ASSUME NEW B \in sending, SendEnds(B)
         PROVE  NoMissedWakeup' /\ Accounted' /\ FlushKeepsItsWord'
    <2>1. /\ sending' = sending \ {B}
          /\ UNCHANGED <<direct, owed>> /\ DropGuard
      BY <1>15 DEF SendEnds
    <2>2. /\ \A m \in B : sent'[m] = 1
          /\ \A m \in Members \ B : sent'[m] = sent[m]
      BY <1>15, EndingPlaces DEF IInv
    <2>3. (\A x : Going(x) => Going(x)' \/ Finished(x)') /\ (\A x : Finished(x) => Finished(x)')
      BY <1>0, <2>1, <2>2 DEF Finished, TypeOK
    <2> QED
      BY <2>1, <2>3, <1>13
  <1>16. CASE UNCHANGED vars
    BY <1>16, <1>0, <1>2, <1>3 DEF vars, TypeOK
  <1> QED
    BY <1>4, <1>5, <1>7, <1>8, <1>10, <1>11, <1>12, <1>14, <1>15, <1>16 DEF Next

LEMMA InvStep == IInv /\ [Next]_vars => IInv'
  <1> SUFFICES ASSUME IInv, [Next]_vars PROVE IInv'
    OBVIOUS
  <1>1. TypeOK'
    BY TypeStep DEF IInv
  <1> QED
    BY <1>1, PlacesAndCount, TimersStep, FlushStep DEF IInv

LEMMA Invariance == Safety => []IInv
  BY InitInv, InvStep, PTL DEF Safety

-----------------------------------------------------------------------------
(* The state of groups, timers and flushes is well formed in every step of *)
(* add, take, take_all and wait.                                           *)
THEOREM TypeCorrect == Safety => []TypeOK
  BY Invariance, PTL DEF IInv

LEMMA PlacedMeansOnePlace == TypeOK /\ Placed => MemberInOnePlace
  <1> SUFFICES ASSUME TypeOK, Placed, NEW m \in Members
               PROVE  \/ m \in arriving /\ ~Awaited(m) /\ InBatch(m) = {} /\ sent[m] = 0
                      \/ m \notin arriving /\ Awaited(m) /\ InBatch(m) = {} /\ sent[m] = 0
                      \/ /\ m \notin arriving /\ ~Awaited(m)
                         /\ Cardinality(InBatch(m)) = 1 /\ sent[m] = 0
                      \/ m \notin arriving /\ ~Awaited(m) /\ InBatch(m) = {} /\ sent[m] = 1
    BY DEF MemberInOnePlace
  <1> USE GroupAssumption
  <1>1. CASE m \in arriving
    BY <1>1, Newcomer DEF Awaited, InBatch
  <1>2. CASE Awaited(m)
    BY <1>2 DEF Awaited, InBatch, Placed, OpenShape, ClosedShape
  <1>3. CASE \E B \in sending : m \in B
    <2>1. PICK B \in sending : m \in B
      BY <1>3
    <2>2. InBatch(m) = {B}
      BY <2>1 DEF InBatch, Placed, ClosedShape
    <2>3. Cardinality(InBatch(m)) = 1
      BY <2>2, FS_Singleton
    <2> QED
      BY <2>1, <2>3 DEF Placed, ClosedShape
  <1>4. CASE m \notin arriving /\ ~Awaited(m) /\ InBatch(m) = {}
    BY <1>4 DEF InBatch, Placed, Somewhere
  <1> QED
    BY <1>1, <1>2, <1>3, <1>4 DEF InBatch

(* No signal is lost between arriving and its send, and none is sent       *)
(* twice, whoever closes its group.                                        *)
THEOREM ExactlyOnce == Safety => []MemberInOnePlace
  <1>1. IInv => MemberInOnePlace
    BY PlacedMeansOnePlace DEF IInv
  <1> QED
    BY <1>1, Invariance, PTL

(* The in-flight count is the number of deliveries under way.              *)
THEOREM CountCorrect == Safety => []CountIsExact
  BY Invariance, PTL DEF IInv

(* An open group always has the timer that will close it.                  *)
THEOREM TimerBehindGroup == Safety => []OpenHasTimer
  BY Invariance, PTL DEF IInv

(* No flusher sleeps through the end of the last delivery.                 *)
THEOREM WakeupReaches == Safety => []NoMissedWakeup
  BY Invariance, PTL DEF IInv

(* When flush returns true, all that was held or under way at the call has *)
(* finished.                                                               *)
THEOREM FlushIsTrue == Safety => []FlushKeepsItsWord
  BY Invariance, PTL DEF IInv

LEMMA WaitStep ==
  TypeOK /\ [Next]_vars =>
    [\A k \in OpenKeys : open'[k].seq # open[k].seq =>
       \/ arriving' # arriving /\ Cardinality(open[k].members) + 1 >= MaxGroupSize
       \/ <<k, open[k].seq>> \in timers \ timers'
       \/ timers' = timers /\ \A j \in Keys : open'[j] = NoGroup]_vars
  <1> DEFINE Honoured ==
        \A k \in OpenKeys : open'[k].seq # open[k].seq =>
          \/ arriving' # arriving /\ Cardinality(open[k].members) + 1 >= MaxGroupSize
          \/ <<k, open[k].seq>> \in timers \ timers'
          \/ timers' = timers /\ \A j \in Keys : open'[j] = NoGroup
  <1> SUFFICES ASSUME TypeOK, Next PROVE Honoured
    OBVIOUS
  <1> USE GroupAssumption DEF OpenKeys, IsOpen
  <1>1. ASSUME NEW m \in Members, AddOpens(m) PROVE Honoured
    BY <1>1 DEF AddOpens, TypeOK
  <1>2. ASSUME NEW m \in Members, AddJoins(m) PROVE Honoured
    BY <1>2 DEF AddJoins, TypeOK
  <1>3. ASSUME NEW m \in Members, AddFills(m) PROVE Honoured
    BY <1>3 DEF AddFills, TypeOK
  <1>4. ASSUME NEW t \in timers, TimerFires(t[1], t[2]) PROVE Honoured
    <2>1. PICK j \in Keys, q \in Nat \ {0} : t = <<j, q>> /\ TimerFires(j, q)
      BY <1>4 DEF TypeOK
    <2>2. <<j, q>> \in timers /\ timers' = timers \ {<<j, q>>}
      BY <2>1 DEF TimerFires
    <2>3. \A k \in Keys : open'[k].seq # open[k].seq => k = j /\ open[k].seq = q
      BY <2>1 DEF TimerFires, TypeOK
    <2> QED
      BY <2>2, <2>3
  <1>5. CASE FlushGroups \/ \E f \in Flushers : FlushTakes(f)
    BY <1>5 DEF FlushGroups, FlushTakes, TakeAll
  <1>6. ASSUME open' = open PROVE Honoured
    BY <1>6
  <1>7. CASE \/ \E f \in Flushers : FlushChecks(f) \/ FlushDeadline(f)
             \/ \E d \in Directs : DirectStarts(d) \/ DirectEnds(d)
             \/ \E B \in sending : SendEnds(B)
    BY <1>6, <1>7 DEF FlushChecks, FlushDeadline, DirectStarts, DirectEnds, SendEnds
  <1> QED
    BY <1>1, <1>2, <1>3, <1>4, <1>5, <1>7 DEF Next

(* A group is cut short by nothing but a flush.                            *)
THEOREM WaitHonoured == Safety => GroupWaitHonoured
  <1>1. IInv => TypeOK
    BY DEF IInv
  <1> QED
    BY <1>1, WaitStep, Invariance, PTL DEF Safety, GroupWaitHonoured

-----------------------------------------------------------------------------
(* The groups implement HoldAndSend's safety part.                         *)

LEMMA ArrivingHolds ==
  ASSUME TypeOK, Placed, NEW m \in arriving, arriving' = arriving \ {m}, sent' = sent
  PROVE  Promise!Hold(m)
  <1>1. m \in Members /\ sent[m] = 0
    BY Newcomer
  <1>2. Where[m] = "out"
    BY <1>1 DEF Where
  <1>3. \A n \in Members : Where'[n] = IF n = m THEN "held" ELSE Where[n]
    BY <1>1 DEF Where
  <1>4. Where' = [Where EXCEPT ![m] = "held"]
    BY <1>3 DEF Where
  <1> QED
    BY <1>2, <1>4 DEF Promise!Hold

LEMMA BatchSends ==
  ASSUME TypeOK, Placed, NEW B \in sending, SendEnds(B)
  PROVE  B \subseteq Members /\ Promise!Send(B)
  <1>1. B \subseteq Members
    BY DEF TypeOK
  <1>2. /\ B # {} /\ Cardinality(B) <= MaxGroupSize
        /\ \A m, n \in B : GroupOf[m] = GroupOf[n]
        /\ \A m \in B : m \notin arriving /\ sent[m] = 0
    BY DEF Placed, ClosedShape
  <1>3. \A m \in B : Where[m] = "held"
    BY <1>1, <1>2 DEF Where
  <1>4. arriving' = arriving
    BY DEF SendEnds
  <1>5. (\A m \in B : sent'[m] = 1) /\ (\A m \in Members \ B : sent'[m] = sent[m])
    BY EndingPlaces
  <1>6. \A m \in Members : Where'[m] = IF m \in B THEN "sent" ELSE Where[m]
    <2>1. ASSUME NEW m \in B PROVE Where'[m] = "sent"
      <3>1. m \in Members /\ m \notin arriving' /\ sent'[m] = 1
        BY <1>1, <1>2, <1>4, <1>5
      <3> QED
        BY <3>1, 1 # 0 DEF Where
    <2>2. \A m \in Members \ B : Where'[m] = Where[m]
      BY <1>4, <1>5 DEF Where
    <2> QED
      BY <1>1, <2>1, <2>2
  <1>7. Where' = [m \in Members |-> IF m \in B THEN "sent" ELSE Where[m]]
    BY <1>6 DEF Where
  <1>8. Promise!Cardinality(B) = Cardinality(B)
    BY DEF Promise!Cardinality, Cardinality
  <1> QED
    BY <1>1, <1>2, <1>3, <1>7, <1>8 DEF Promise!Send

LEMMA PromiseStep == TypeOK /\ Placed /\ [Next]_vars => [Promise!Next]_Where
  <1> SUFFICES ASSUME TypeOK, Placed, [Next]_vars
               PROVE  Promise!Next \/ Where' = Where
    OBVIOUS
  <1>1. ASSUME NEW m \in Members, AddOpens(m) \/ AddJoins(m) \/ AddFills(m)
        PROVE  Promise!Next
    <2>1. m \in arriving /\ arriving' = arriving \ {m} /\ sent' = sent
      BY <1>1 DEF AddOpens, AddJoins, AddFills
    <2> QED
      BY <2>1, ArrivingHolds DEF Promise!Next
  <1>2. ASSUME NEW B \in sending, SendEnds(B) PROVE Promise!Next
    BY <1>2, BatchSends DEF Promise!Next
  <1>3. ASSUME arriving' = arriving, sent' = sent PROVE Where' = Where
    BY <1>3 DEF Where
  <1>4. CASE \/ \E t \in timers : TimerFires(t[1], t[2])
             \/ FlushGroups
             \/ \E f \in Flushers : FlushTakes(f) \/ FlushChecks(f) \/ FlushDeadline(f)
             \/ \E d \in Directs : DirectStarts(d) \/ DirectEnds(d)
             \/ UNCHANGED vars
    BY <1>3, <1>4 DEF TimerFires, FlushGroups, FlushTakes, FlushChecks, FlushDeadline,
                      DirectStarts, DirectEnds, vars
  <1> QED
    BY <1>1, <1>2, <1>4 DEF Next

(* Grouping, with all its races, does what HoldAndSend says: one send for  *)
(* each held signal, with signals of its own group, within the cap.        *)
THEOREM Implements == Safety => Promise!Safety
  <1>1. Init => Promise!Init
    BY DEF Init, Promise!Init, Where
  <1>2. IInv /\ [Next]_vars => [Promise!Next]_Where
    BY PromiseStep DEF IInv
  <1> QED
    BY <1>1, <1>2, Invariance, PTL DEF Safety, Promise!Safety
=============================================================================
