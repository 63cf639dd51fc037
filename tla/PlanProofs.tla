----------------------------- MODULE PlanProofs -----------------------------
(***************************************************************************)
(* The plan is the documented one, and no signal is lost, for any number   *)
(* of routes and providers and whatever the histories answer.              *)
(*                                                                         *)
(* The documentation speaks of the finished plan; the invariant says the   *)
(* same of the plan so far and of the slots seen so far (SoFar), a slot    *)
(* being a place of a provider in a route.  A step adds a slot behind all  *)
(* the others (Latest), so that the firsts among them stay the firsts, the *)
(* heads the heads, and the order of either goes on at its end.            *)
(***************************************************************************)
EXTENDS Plan, TLAPS

SlotSet(R) == {s \in Nat \X Nat : s[1] \in DOMAIN R /\ s[2] \in DOMAIN R[s[1]].providers}

(* NameAt, InOrder, Firsts, Chained and the heads of the targets, of the   *)
(* routes R and of any set S of slots.                                     *)
NameIn(R, s) == R[s[1]].providers[s[2]]
FirstsIn(R, S) == {s \in S : \A t \in S : Before(t, s) => NameIn(R, t) # NameIn(R, s)}
ChainedIn(R, S) == {s \in FirstsIn(R, S) : ~R[s[1]].fanout}
HeadsIn(R, S) ==
  {s \in FirstsIn(R, S) : R[s[1]].fanout \/ \A t \in ChainedIn(R, S) : ~Before(t, s)}

Ordered(R, chain, S) ==
  /\ RangeOf(chain) = {NameIn(R, s) : s \in S}
  /\ \A s, t \in S : Before(s, t) =>
       \E a, b \in DOMAIN chain : a < b /\ chain[a] = NameIn(R, s) /\ chain[b] = NameIn(R, t)

PlacedIn(list) == UNION {RangeOf(list[k]) : k \in DOMAIN list}
HeadsOf(list) == [t \in DOMAIN list |-> list[t][1]]

(* Targets, none of them empty, that name no provider twice.               *)
Targets(list) ==
  /\ list \in Seq(Seq(Names))
  /\ \A t \in DOMAIN list : list[t] # <<>>
  /\ \A s, t \in DOMAIN list : \A a \in DOMAIN list[s], b \in DOMAIN list[t] :
       list[s][a] = list[t][b] => s = t /\ a = b

(* The targets so far are the documented ones for the slots so far.        *)
SoFar(R, list, shared, S) ==
  /\ \A s \in S : NameIn(R, s) \in PlacedIn(list)
  /\ PlacedIn(list) \subseteq {NameIn(R, s) : s \in FirstsIn(R, S)}
  /\ Ordered(R, HeadsOf(list), HeadsIn(R, S))
  /\ shared = 0 => ChainedIn(R, S) = {}
  /\ shared # 0 => Ordered(R, list[shared], ChainedIn(R, S)) /\ ChainedIn(R, S) # {}
  /\ \A t \in DOMAIN list : t # shared =>
       \E s \in FirstsIn(R, S) \ ChainedIn(R, S) : list[t] = <<NameIn(R, s)>>

(* The slots that the pass is done with.                                   *)
SlotsSeen ==
  {s \in SlotSet(routes) : (s[1] < i /\ s[1] \in Taken) \/ (s[1] = i /\ s[2] <= j)}

(* What the pass knows of the routes behind it.                            *)
Behind ==
  /\ \A r \in suppressed \union grouped : r < i /\ routes[r].matches
  /\ \A r \in grouped : routes[r].grouped
  /\ \A r \in DOMAIN routes : r < i /\ routes[r].matches =>
       r \in suppressed \union grouped \/ (targets # <<>> /\ ~fallback)
  /\ j > 0 => Here /\ routes[i].matches /\ ~routes[i].grouped /\ targets # <<>>
  /\ targets # <<>> /\ ~fallback => \E r \in DOMAIN routes : routes[r].matches

(* What the end of the pass decided.                                       *)
AtEnd ==
  /\ done => ~Here
  /\ done /\ targets = <<>> => suppressed \union grouped # {}
  /\ fallback => done /\ suppressed = {} /\ grouped = {} /\ targets = << <<Console>> >>

IInv ==
  /\ TypeOK
  /\ Targets(targets)
  /\ Behind
  /\ AtEnd
  /\ ~fallback => SoFar(routes, targets, failover, SlotsSeen)

-----------------------------------------------------------------------------
(* Slots and their order                                                   *)

LEMMA RouteTypes ==
  ASSUME NEW R \in Seq(Routes), NEW r \in DOMAIN R
  PROVE  /\ R[r].providers \in Seq(Names) /\ R[r].providers # <<>>
         /\ R[r].fanout \in BOOLEAN /\ R[r].matches \in BOOLEAN /\ R[r].grouped \in BOOLEAN
         /\ Len(R[r].providers) \in Nat /\ Len(R[r].providers) >= 1
         /\ DOMAIN R[r].providers = 1 .. Len(R[r].providers)
  <1>1. R[r] \in Routes
    OBVIOUS
  <1>2. /\ R[r].providers \in Seq(Names) /\ R[r].providers # <<>>
        /\ R[r].fanout \in BOOLEAN /\ R[r].matches \in BOOLEAN /\ R[r].grouped \in BOOLEAN
    BY <1>1, PlanAssumption
  <1> QED
    BY <1>2

LEMMA SlotNames ==
  ASSUME NEW R \in Seq(Routes), NEW s \in SlotSet(R)
  PROVE  NameIn(R, s) \in Names
  <1>1. s[1] \in DOMAIN R /\ s[2] \in DOMAIN R[s[1]].providers
    BY DEF SlotSet
  <1>2. R[s[1]].providers \in Seq(Names)
    BY <1>1, RouteTypes
  <1> QED
    BY <1>1, <1>2 DEF NameIn

(* u comes behind every slot of S.                                         *)
Latest(S, u) == \A s \in S : Before(s, u) /\ ~Before(u, s)

LEMMA NotItself == ASSUME NEW u \in Nat \X Nat PROVE ~Before(u, u)
  BY DEF Before

LEMMA RangeGrows ==
  ASSUME NEW T, NEW chain \in Seq(T), NEW x \in T
  PROVE  /\ Append(chain, x) \in Seq(T) /\ RangeOf(Append(chain, x)) = RangeOf(chain) \union {x}
         /\ DOMAIN Append(chain, x) = DOMAIN chain \union {Len(chain) + 1}
         /\ \A k \in DOMAIN chain : Append(chain, x)[k] = chain[k] /\ k \in Nat /\ k < Len(chain) + 1
         /\ Append(chain, x)[Len(chain) + 1] = x /\ Append(chain, x) # <<>>
         /\ Len(chain) + 1 \notin DOMAIN chain
  <1>1. /\ Append(chain, x) \in Seq(T) /\ Len(Append(chain, x)) = Len(chain) + 1 /\ Len(chain) \in Nat
        /\ \A k \in 1 .. Len(chain) : Append(chain, x)[k] = chain[k]
        /\ Append(chain, x)[Len(chain) + 1] = x /\ Append(chain, x) # <<>>
    OBVIOUS
  <1>2. DOMAIN chain = 1 .. Len(chain) /\ DOMAIN Append(chain, x) = 1 .. Len(chain) + 1
    BY <1>1
  <1>3. DOMAIN Append(chain, x) = DOMAIN chain \union {Len(chain) + 1}
    BY <1>1, <1>2
  <1>4. RangeOf(Append(chain, x)) = RangeOf(chain) \union {x}
    BY <1>1, <1>2, <1>3 DEF RangeOf
  <1> QED
    BY <1>1, <1>2, <1>3, <1>4

(* A list in the order of its slots stays so with one more at its end.     *)
LEMMA OrderGrows ==
  ASSUME NEW R, NEW S, NEW u \in Nat \X Nat, Latest(S, u), NameIn(R, u) \in Names,
         NEW chain \in Seq(Names), Ordered(R, chain, S)
  PROVE  Ordered(R, Append(chain, NameIn(R, u)), S \union {u})
  <1> DEFINE n == NameIn(R, u)
             longer == Append(chain, n)
  <1>1. /\ RangeOf(longer) = RangeOf(chain) \union {n}
        /\ DOMAIN longer = DOMAIN chain \union {Len(chain) + 1}
        /\ \A k \in DOMAIN chain : longer[k] = chain[k] /\ k \in Nat /\ k < Len(chain) + 1
        /\ longer[Len(chain) + 1] = n
    BY RangeGrows
  <1>2. RangeOf(chain) = {NameIn(R, s) : s \in S}
    BY DEF Ordered
  <1> HIDE DEF longer
  <1>3. RangeOf(longer) = {NameIn(R, s) : s \in S \union {u}}
    BY <1>1, <1>2
  <1>4. ASSUME NEW s \in S \union {u}, NEW t \in S \union {u}, Before(s, t)
        PROVE  \E a, b \in DOMAIN longer : a < b /\ longer[a] = NameIn(R, s) /\ longer[b] = NameIn(R, t)
    <2>1. s \in S
      BY <1>4, NotItself DEF Latest
    <2>2. CASE t \in S
      BY <1>1, <1>4, <2>1, <2>2 DEF Ordered
    <2>3. CASE t = u
      <3>1. PICK a \in DOMAIN chain : chain[a] = NameIn(R, s)
        BY <1>2, <2>1 DEF RangeOf
      <3> QED
        BY <1>1, <2>3, <3>1
    <2> QED
      BY <2>2, <2>3
  <1>5. Ordered(R, longer, S \union {u})
    BY <1>3, <1>4 DEF Ordered
  <1> QED
    BY <1>5 DEF longer

(* One more slot, behind the others, of a provider that came up before.    *)
LEMMA KnownName ==
  ASSUME NEW R, NEW S, NEW u \in Nat \X Nat, Latest(S, u),
         NEW k \in S, NameIn(R, k) = NameIn(R, u)
  PROVE  /\ FirstsIn(R, S \union {u}) = FirstsIn(R, S)
         /\ ChainedIn(R, S \union {u}) = ChainedIn(R, S)
         /\ HeadsIn(R, S \union {u}) = HeadsIn(R, S)
  <1>1. u \notin S /\ ~Before(u, u) /\ \A s \in S : Before(s, u) /\ ~Before(u, s)
    BY NotItself DEF Latest
  <1>2. FirstsIn(R, S \union {u}) = FirstsIn(R, S)
    BY <1>1 DEF FirstsIn
  <1> QED
    BY <1>2 DEF ChainedIn, HeadsIn

(* Of a new one: it is a first, and a head unless one was chained before.  *)
Grown(R, S, u) ==
  /\ FirstsIn(R, S \union {u}) = FirstsIn(R, S) \union {u}
  /\ R[u[1]].fanout =>
       /\ ChainedIn(R, S \union {u}) = ChainedIn(R, S)
       /\ HeadsIn(R, S \union {u}) = HeadsIn(R, S) \union {u}
  /\ ~R[u[1]].fanout =>
       /\ ChainedIn(R, S \union {u}) = ChainedIn(R, S) \union {u}
       /\ HeadsIn(R, S \union {u}) =
            IF ChainedIn(R, S) = {} THEN HeadsIn(R, S) \union {u} ELSE HeadsIn(R, S)

LEMMA NewName ==
  ASSUME NEW R, NEW S, NEW u \in Nat \X Nat, Latest(S, u),
         \A s \in S : NameIn(R, s) # NameIn(R, u)
  PROVE  Grown(R, S, u)
  <1> DEFINE T == S \union {u}
  <1>1. u \notin S /\ ~Before(u, u) /\ \A s \in S : Before(s, u) /\ ~Before(u, s)
    BY NotItself DEF Latest
  <1>2. FirstsIn(R, T) = FirstsIn(R, S) \union {u}
    BY <1>1 DEF FirstsIn
  <1>3. FirstsIn(R, S) \subseteq S /\ ChainedIn(R, S) \subseteq S
    BY DEF FirstsIn, ChainedIn
  <1>4. ASSUME R[u[1]].fanout
        PROVE  /\ ChainedIn(R, T) = ChainedIn(R, S)
               /\ HeadsIn(R, T) = HeadsIn(R, S) \union {u}
    <2>1. ChainedIn(R, T) = ChainedIn(R, S)
      BY <1>2, <1>4 DEF ChainedIn
    <2>2. HeadsIn(R, T) = HeadsIn(R, S) \union {u}
      BY <1>2, <1>4, <2>1 DEF HeadsIn
    <2> QED
      BY <2>1, <2>2
  <1>5. ASSUME ~R[u[1]].fanout
        PROVE  /\ ChainedIn(R, T) = ChainedIn(R, S) \union {u}
               /\ HeadsIn(R, T) =
                    IF ChainedIn(R, S) = {} THEN HeadsIn(R, S) \union {u} ELSE HeadsIn(R, S)
    <2>1. ChainedIn(R, T) = ChainedIn(R, S) \union {u}
      BY <1>2, <1>5 DEF ChainedIn
    <2>2. \A s \in FirstsIn(R, S) : s \in HeadsIn(R, T) <=> s \in HeadsIn(R, S)
      BY <1>1, <1>2, <1>3, <2>1 DEF HeadsIn
    <2>3. u \in HeadsIn(R, T) <=> ChainedIn(R, S) = {}
      BY <1>1, <1>2, <1>3, <1>5, <2>1 DEF HeadsIn
    <2>4. HeadsIn(R, T) \subseteq FirstsIn(R, S) \union {u} /\ HeadsIn(R, S) \subseteq FirstsIn(R, S)
      BY <1>2 DEF HeadsIn
    <2> QED
      BY <1>1, <1>3, <2>1, <2>2, <2>3, <2>4
  <1> QED
    BY <1>2, <1>4, <1>5 DEF Grown

-----------------------------------------------------------------------------
(* Targets                                                                 *)

LEMMA HeadsAreNames ==
  ASSUME NEW list, Targets(list)
  PROVE  /\ HeadsOf(list) \in Seq(Names) /\ Len(HeadsOf(list)) = Len(list)
         /\ DOMAIN HeadsOf(list) = DOMAIN list
         /\ \A t \in DOMAIN list : HeadsOf(list)[t] = list[t][1]
  <1>1. /\ list \in Seq(Seq(Names)) /\ Len(list) \in Nat /\ DOMAIN list = 1 .. Len(list)
        /\ \A t \in DOMAIN list : list[t] \in Seq(Names) /\ list[t] # <<>>
    BY DEF Targets
  <1>2. \A t \in DOMAIN list : list[t][1] \in Names
    BY <1>1
  <1>3. HeadsOf(list) \in [1 .. Len(list) -> Names]
    BY <1>1, <1>2 DEF HeadsOf
  <1> QED
    BY <1>1, <1>3 DEF HeadsOf

LEMMA IsSequence ==
  ASSUME NEW T, NEW n \in Nat, NEW f \in [1 .. n -> T]
  PROVE  f \in Seq(T) /\ Len(f) = n
  OBVIOUS

LEMMA SameSequence ==
  ASSUME NEW T, NEW s \in Seq(T), NEW t \in Seq(T), DOMAIN s = DOMAIN t,
         \A k \in DOMAIN s : s[k] = t[k]
  PROVE  s = t
  OBVIOUS

LEMMA SingleTarget ==
  ASSUME NEW n \in Names
  PROVE  /\ <<n>> \in Seq(Names) /\ <<n>> # <<>> /\ RangeOf(<<n>>) = {n} /\ <<n>>[1] = n
         /\ DOMAIN <<n>> = {1}
  BY DEF RangeOf

(* A target of its own for a provider that has none.                       *)
LEMMA OwnTarget ==
  ASSUME NEW list, Targets(list), NEW n \in Names, n \notin PlacedIn(list)
  PROVE  LET longer == Append(list, <<n>>) IN
         /\ Targets(longer) /\ PlacedIn(longer) = PlacedIn(list) \union {n}
         /\ HeadsOf(longer) = Append(HeadsOf(list), n)
         /\ DOMAIN longer = DOMAIN list \union {Len(list) + 1}
         /\ Len(list) + 1 \notin DOMAIN list
         /\ \A k \in DOMAIN list : longer[k] = list[k]
         /\ longer[Len(list) + 1] = <<n>>
  <1> DEFINE longer == Append(list, <<n>>)
             last == Len(list) + 1
  <1>1. list \in Seq(Seq(Names)) /\ Len(list) \in Nat /\ DOMAIN list = 1 .. Len(list)
    BY DEF Targets
  <1>2. <<n>> \in Seq(Names) /\ <<n>> # <<>> /\ RangeOf(<<n>>) = {n} /\ <<n>>[1] = n /\ DOMAIN <<n>> = {1}
    BY SingleTarget
  <1> DEFINE single == <<n>>
  <1>3. /\ longer \in Seq(Seq(Names)) /\ DOMAIN longer = DOMAIN list \union {last}
        /\ \A k \in DOMAIN list : longer[k] = list[k]
        /\ longer[last] = single /\ last \notin DOMAIN list
    BY <1>1, <1>2, RangeGrows
  <1>4. \A k \in DOMAIN list : n \notin RangeOf(list[k])
    BY DEF PlacedIn
  <1> HIDE DEF longer, last, single
  <1>5. single \in Seq(Names) /\ single # <<>> /\ RangeOf(single) = {n} /\ single[1] = n /\ DOMAIN single = {1}
    BY <1>2 DEF single
  <1>6. PlacedIn(longer) = PlacedIn(list) \union {n}
    BY <1>3, <1>5 DEF PlacedIn
  <1>7. Targets(longer)
    <2>1. \A t \in DOMAIN longer : longer[t] # <<>>
      BY <1>3, <1>5 DEF Targets
    <2>2. ASSUME NEW s \in DOMAIN longer, NEW t \in DOMAIN longer,
                 NEW a \in DOMAIN longer[s], NEW b \in DOMAIN longer[t],
                 longer[s][a] = longer[t][b]
          PROVE  s = t /\ a = b
      <3>1. CASE s \in DOMAIN list /\ t \in DOMAIN list
        BY <1>3, <2>2, <3>1 DEF Targets
      <3>2. CASE s = last /\ t = last
        BY <1>3, <1>5, <2>2, <3>2
      <3>3. CASE s \in DOMAIN list /\ t = last
        BY <1>3, <1>4, <1>5, <2>2, <3>3 DEF RangeOf
      <3>4. CASE s = last /\ t \in DOMAIN list
        BY <1>3, <1>4, <1>5, <2>2, <3>4 DEF RangeOf
      <3> QED
        BY <1>3, <3>1, <3>2, <3>3, <3>4
    <2> QED
      BY <1>3, <2>1, <2>2 DEF Targets
  <1>8. HeadsOf(longer) = Append(HeadsOf(list), n)
    <2>1. HeadsOf(list) \in Seq(Names) /\ Len(HeadsOf(list)) = Len(list)
          /\ DOMAIN HeadsOf(list) = DOMAIN list
          /\ \A t \in DOMAIN list : HeadsOf(list)[t] = list[t][1]
      BY HeadsAreNames
    <2>2. HeadsOf(longer) \in Seq(Names) /\ Len(HeadsOf(longer)) = Len(longer)
          /\ DOMAIN HeadsOf(longer) = DOMAIN longer
          /\ \A t \in DOMAIN longer : HeadsOf(longer)[t] = longer[t][1]
      BY <1>7, HeadsAreNames
    <2> DEFINE heads == HeadsOf(list)
               more == HeadsOf(longer)
    <2> HIDE DEF heads, more
    <2>3. /\ Append(heads, n) \in Seq(Names)
          /\ DOMAIN Append(heads, n) = DOMAIN heads \union {Len(heads) + 1}
          /\ \A k \in DOMAIN heads : Append(heads, n)[k] = heads[k]
          /\ Append(heads, n)[Len(heads) + 1] = n
      BY <2>1, RangeGrows DEF heads
    <2>4. DOMAIN more = DOMAIN Append(heads, n)
      BY <1>3, <2>1, <2>2, <2>3 DEF heads, more, last
    <2>5. ASSUME NEW k \in DOMAIN more PROVE more[k] = Append(heads, n)[k]
      <3>1. k \in DOMAIN longer /\ more[k] = longer[k][1]
        BY <2>2 DEF more
      <3>2. CASE k \in DOMAIN list
        BY <1>3, <2>1, <2>3, <3>1, <3>2 DEF heads
      <3>3. CASE k = last
        <4>1. more[k] = n /\ last = Len(heads) + 1
          BY <1>3, <1>5, <2>1, <3>1, <3>3 DEF heads, last
        <4> QED
          BY <2>3, <3>3, <4>1
      <3> QED
        BY <1>3, <3>1, <3>2, <3>3
    <2>6. more \in Seq(Names)
      BY <2>2 DEF more
    <2>7. more = Append(heads, n)
      BY <2>3, <2>4, <2>5, <2>6, SameSequence
    <2> QED
      BY <2>7 DEF heads, more
  <1> QED
    BY <1>3, <1>6, <1>7, <1>8 DEF longer, single, last

AddedTo(list, at, n) == [t \in DOMAIN list |-> IF t = at THEN Append(list[t], n) ELSE list[t]]

(* A place at the end of the shared target for a provider that has none.   *)
LEMMA SharedTarget ==
  ASSUME NEW list, Targets(list), NEW n \in Names, n \notin PlacedIn(list), NEW at \in DOMAIN list
  PROVE  LET fuller == AddedTo(list, at, n) IN
         /\ Targets(fuller) /\ PlacedIn(fuller) = PlacedIn(list) \union {n}
         /\ HeadsOf(fuller) = HeadsOf(list)
         /\ DOMAIN fuller = DOMAIN list /\ fuller[at] = Append(list[at], n)
         /\ \A t \in DOMAIN list \ {at} : fuller[t] = list[t]
  <1> DEFINE fuller == AddedTo(list, at, n)
             chain == list[at]
             more == Append(chain, n)
             last == Len(chain) + 1
  <1>1. /\ list \in Seq(Seq(Names)) /\ Len(list) \in Nat /\ DOMAIN list = 1 .. Len(list)
        /\ \A t \in DOMAIN list : list[t] \in Seq(Names) /\ list[t] # <<>>
        /\ chain \in Seq(Names) /\ chain # <<>>
    BY DEF Targets
  <1>2. /\ more \in Seq(Names) /\ RangeOf(more) = RangeOf(chain) \union {n}
        /\ DOMAIN more = DOMAIN chain \union {last}
        /\ \A k \in DOMAIN chain : more[k] = chain[k]
        /\ more[last] = n /\ more # <<>> /\ last \notin DOMAIN chain
    BY <1>1, RangeGrows
  <1>3. 1 \in DOMAIN chain
    BY <1>1
  <1>4. /\ DOMAIN fuller = DOMAIN list /\ fuller[at] = more
        /\ \A t \in DOMAIN list \ {at} : fuller[t] = list[t]
    BY DEF AddedTo
  <1>5. fuller \in Seq(Seq(Names))
    <2>1. fuller \in [1 .. Len(list) -> Seq(Names)]
      BY <1>1, <1>2 DEF AddedTo
    <2> QED
      BY <1>1, <2>1, IsSequence
  <1>6. \A k \in DOMAIN list : n \notin RangeOf(list[k])
    BY DEF PlacedIn
  <1> HIDE DEF fuller, chain, more, last
  <1>7. PlacedIn(fuller) = PlacedIn(list) \union {n}
    BY <1>2, <1>4 DEF PlacedIn, chain
  <1>8. Targets(fuller)
    <2>1. \A t \in DOMAIN fuller : fuller[t] # <<>>
      BY <1>1, <1>2, <1>4
    <2>2. ASSUME NEW s \in DOMAIN fuller, NEW t \in DOMAIN fuller,
                 NEW a \in DOMAIN fuller[s], NEW b \in DOMAIN fuller[t],
                 fuller[s][a] = fuller[t][b]
          PROVE  s = t /\ a = b
      <3>1. \A x \in DOMAIN list : \A c \in DOMAIN fuller[x] :
              \/ c \in DOMAIN list[x] /\ fuller[x][c] = list[x][c] /\ fuller[x][c] # n
              \/ x = at /\ c = last /\ fuller[x][c] = n
        BY <1>2, <1>4, <1>6 DEF RangeOf, chain
      <3>2. s \in DOMAIN list /\ t \in DOMAIN list
        BY <1>4
      <3> QED
        BY <2>2, <3>1, <3>2 DEF Targets
    <2> QED
      BY <1>5, <2>1, <2>2 DEF Targets
  <1>9. HeadsOf(fuller) = HeadsOf(list)
    <2>1. \A t \in DOMAIN list : fuller[t][1] = list[t][1]
      BY <1>2, <1>3, <1>4 DEF chain
    <2> QED
      BY <1>4, <2>1 DEF HeadsOf
  <1> QED
    BY <1>4, <1>7, <1>8, <1>9 DEF fuller, more, chain

-----------------------------------------------------------------------------
(* A slot that the pass is done with                                       *)

(* A provider that has a target keeps the one it has.                      *)
LEMMA SeenAgain ==
  ASSUME NEW R, NEW list, NEW shared, NEW S, NEW u \in Nat \X Nat, Latest(S, u),
         SoFar(R, list, shared, S), NameIn(R, u) \in PlacedIn(list)
  PROVE  SoFar(R, list, shared, S \union {u})
  <1> DEFINE T == S \union {u}
  <1>1. PICK k \in S : NameIn(R, k) = NameIn(R, u)
    BY DEF SoFar, FirstsIn
  <1>2. /\ FirstsIn(R, T) = FirstsIn(R, S) /\ ChainedIn(R, T) = ChainedIn(R, S)
        /\ HeadsIn(R, T) = HeadsIn(R, S)
    BY <1>1, KnownName
  <1>3. \A s \in T : NameIn(R, s) \in PlacedIn(list)
    BY DEF SoFar
  <1> HIDE DEF T
  <1>4. SoFar(R, list, shared, T)
    BY <1>2, <1>3 DEF SoFar
  <1> QED
    BY <1>4 DEF T

(* One that has none is new.                                               *)
LEMMA NotSeen ==
  ASSUME NEW R, NEW list, NEW shared, NEW S, NEW u,
         SoFar(R, list, shared, S), NameIn(R, u) \notin PlacedIn(list)
  PROVE  \A s \in S : NameIn(R, s) # NameIn(R, u)
  BY DEF SoFar

LEMMA GetsOwn ==
  ASSUME NEW R, NEW S, NEW u \in Nat \X Nat, Latest(S, u), NameIn(R, u) \in Names,
         NEW list, Targets(list), NEW shared \in 0 .. Len(list), SoFar(R, list, shared, S),
         NameIn(R, u) \notin PlacedIn(list), R[u[1]].fanout \in BOOLEAN,
         R[u[1]].fanout \/ shared = 0
  PROVE  SoFar(R, Append(list, <<NameIn(R, u)>>),
               IF R[u[1]].fanout THEN shared ELSE Len(list) + 1, S \union {u})
  <1> DEFINE n == NameIn(R, u)
             T == S \union {u}
             longer == Append(list, <<n>>)
             nowShared == IF R[u[1]].fanout THEN shared ELSE Len(list) + 1
             last == Len(list) + 1
  <1>1. \A s \in S : NameIn(R, s) # n
    BY NotSeen
  <1>2. /\ FirstsIn(R, T) = FirstsIn(R, S) \union {u}
        /\ R[u[1]].fanout => /\ ChainedIn(R, T) = ChainedIn(R, S)
                             /\ HeadsIn(R, T) = HeadsIn(R, S) \union {u}
        /\ ~R[u[1]].fanout => /\ ChainedIn(R, T) = ChainedIn(R, S) \union {u}
                              /\ HeadsIn(R, T) = IF ChainedIn(R, S) = {}
                                                 THEN HeadsIn(R, S) \union {u} ELSE HeadsIn(R, S)
    <2>1. Grown(R, S, u)
      BY <1>1, NewName
    <2> QED
      BY <2>1 DEF Grown
  <1>3. PlacedIn(longer) = PlacedIn(list) \union {n} /\ HeadsOf(longer) = Append(HeadsOf(list), n)
    BY OwnTarget
  <1>4. /\ list \in Seq(Seq(Names)) /\ Len(list) \in Nat /\ DOMAIN list = 1 .. Len(list)
        /\ HeadsOf(list) \in Seq(Names)
    BY HeadsAreNames DEF Targets
  <1>5. <<n>> \in Seq(Names) /\ RangeOf(<<n>>) = {n}
    BY SingleTarget
  <1>6. /\ DOMAIN longer = DOMAIN list \union {last} /\ last \notin DOMAIN list
        /\ \A k \in DOMAIN list : longer[k] = list[k]
        /\ longer[last] = <<n>>
    BY OwnTarget
  <1>7. u \notin S /\ ~Before(u, u) /\ FirstsIn(R, S) \subseteq S
    BY NotItself DEF Latest, FirstsIn
  <1>8. shared = 0 => ChainedIn(R, S) = {}
    BY DEF SoFar
  <1>9. Ordered(R, HeadsOf(longer), HeadsIn(R, T))
    <2>1. HeadsIn(R, T) = HeadsIn(R, S) \union {u}
      BY <1>2, <1>8
    <2>2. Latest(HeadsIn(R, S), u)
      BY <1>7 DEF Latest, HeadsIn
    <2>3. Ordered(R, HeadsOf(list), HeadsIn(R, S))
      BY DEF SoFar
    <2> HIDE DEF T, longer
    <2> QED
      BY <1>3, <1>4, <2>1, <2>2, <2>3, OrderGrows
  <1> HIDE DEF T, longer, last
  <1>10. \A s \in T : NameIn(R, s) \in PlacedIn(longer)
    BY <1>3 DEF SoFar, T
  <1>11. PlacedIn(longer) \subseteq {NameIn(R, s) : s \in FirstsIn(R, T)}
    BY <1>2, <1>3 DEF SoFar
  <1>12. CASE R[u[1]].fanout
    <2>1. ChainedIn(R, T) = ChainedIn(R, S) /\ nowShared = shared
      BY <1>2, <1>12
    <2>2. shared # 0 => Ordered(R, longer[shared], ChainedIn(R, T)) /\ ChainedIn(R, T) # {}
      <3>1. shared # 0 => shared \in DOMAIN list
        BY <1>4
      <3> QED
        BY <1>6, <2>1, <3>1 DEF SoFar
    <2>3. u \notin ChainedIn(R, S)
      BY <1>7 DEF ChainedIn
    <2>4. ASSUME NEW t \in DOMAIN longer, t # shared
          PROVE  \E s \in FirstsIn(R, T) \ ChainedIn(R, T) : longer[t] = <<NameIn(R, s)>>
      <3>1. CASE t \in DOMAIN list
        BY <1>2, <1>6, <2>1, <2>4, <3>1 DEF SoFar
      <3>2. CASE t = last
        BY <1>2, <1>6, <2>1, <2>3, <3>2
      <3> QED
        BY <1>6, <3>1, <3>2
    <2> HIDE DEF nowShared
    <2>5. SoFar(R, longer, nowShared, T)
      BY <1>8, <1>9, <1>10, <1>11, <2>1, <2>2, <2>4 DEF SoFar
    <2> QED
      BY <2>5 DEF T, longer, nowShared
  <1>13. CASE ~R[u[1]].fanout
    <2>1. nowShared = last /\ ChainedIn(R, S) = {} /\ ChainedIn(R, T) = {u} /\ last # 0
      BY <1>2, <1>4, <1>8, <1>13 DEF last
    <2>2. Ordered(R, longer[last], ChainedIn(R, T))
      BY <1>5, <1>6, <1>7, <2>1 DEF Ordered
    <2>3. ASSUME NEW t \in DOMAIN longer, t # last
          PROVE  \E s \in FirstsIn(R, T) \ ChainedIn(R, T) : longer[t] = <<NameIn(R, s)>>
      <3>1. t \in DOMAIN list /\ t # shared /\ longer[t] = list[t]
        BY <1>4, <1>6, <1>13, <2>3
      <3>2. PICK s \in FirstsIn(R, S) : list[t] = <<NameIn(R, s)>>
        BY <3>1 DEF SoFar
      <3>3. s \in FirstsIn(R, T) \ ChainedIn(R, T)
        BY <1>2, <1>7, <2>1, <3>2
      <3> QED
        BY <3>1, <3>2, <3>3
    <2> HIDE DEF nowShared
    <2>4. SoFar(R, longer, nowShared, T)
      BY <1>9, <1>10, <1>11, <2>1, <2>2, <2>3 DEF SoFar
    <2> QED
      BY <2>4 DEF T, longer, nowShared
  <1> QED
    BY <1>12, <1>13

LEMMA JoinsShared ==
  ASSUME NEW R, NEW S, NEW u \in Nat \X Nat, Latest(S, u), NameIn(R, u) \in Names,
         NEW list, Targets(list), NEW shared \in DOMAIN list, SoFar(R, list, shared, S),
         NameIn(R, u) \notin PlacedIn(list), ~R[u[1]].fanout
  PROVE  SoFar(R, AddedTo(list, shared, NameIn(R, u)), shared, S \union {u})
  <1> DEFINE n == NameIn(R, u)
             T == S \union {u}
             fuller == AddedTo(list, shared, n)
  <1>1. \A s \in S : NameIn(R, s) # n
    BY NotSeen
  <1>2. shared # 0 /\ ChainedIn(R, S) # {} /\ Ordered(R, list[shared], ChainedIn(R, S))
        /\ list[shared] \in Seq(Names)
    BY DEF SoFar, Targets
  <1>3. /\ FirstsIn(R, T) = FirstsIn(R, S) \union {u}
        /\ ChainedIn(R, T) = ChainedIn(R, S) \union {u}
        /\ HeadsIn(R, T) = HeadsIn(R, S)
    <2>1. Grown(R, S, u)
      BY <1>1, NewName
    <2> QED
      BY <1>2, <2>1 DEF Grown
  <1>4. /\ PlacedIn(fuller) = PlacedIn(list) \union {n} /\ HeadsOf(fuller) = HeadsOf(list)
        /\ DOMAIN fuller = DOMAIN list /\ fuller[shared] = Append(list[shared], n)
        /\ \A t \in DOMAIN list \ {shared} : fuller[t] = list[t]
    BY SharedTarget
  <1>5. u \notin S /\ FirstsIn(R, S) \subseteq S /\ ChainedIn(R, S) \subseteq S
    BY NotItself DEF Latest, FirstsIn, ChainedIn
  <1>6. Latest(ChainedIn(R, S), u)
    BY <1>5 DEF Latest
  <1> HIDE DEF T, fuller
  <1>7. Ordered(R, fuller[shared], ChainedIn(R, T))
    BY <1>2, <1>3, <1>4, <1>6, OrderGrows
  <1>8. \A s \in T : NameIn(R, s) \in PlacedIn(fuller)
    BY <1>4 DEF SoFar, T
  <1>9. PlacedIn(fuller) \subseteq {NameIn(R, s) : s \in FirstsIn(R, T)}
    BY <1>3, <1>4 DEF SoFar
  <1>10. ASSUME NEW t \in DOMAIN fuller, t # shared
         PROVE  \E s \in FirstsIn(R, T) \ ChainedIn(R, T) : fuller[t] = <<NameIn(R, s)>>
    <2>1. PICK s \in FirstsIn(R, S) \ ChainedIn(R, S) : list[t] = <<NameIn(R, s)>>
      BY <1>4, <1>10 DEF SoFar
    <2> QED
      BY <1>3, <1>4, <1>5, <1>10, <2>1
  <1>11. Ordered(R, HeadsOf(fuller), HeadsIn(R, T))
    BY <1>3, <1>4 DEF SoFar
  <1>12. SoFar(R, fuller, shared, T)
    BY <1>2, <1>3, <1>7, <1>8, <1>9, <1>10, <1>11 DEF SoFar
  <1> QED
    BY <1>12 DEF T, fuller

-----------------------------------------------------------------------------
(* The steps of the pass                                                   *)

LEMMA Bounds ==
  ASSUME TypeOK
  PROVE  /\ routes \in Seq(Routes) /\ Len(routes) \in Nat /\ DOMAIN routes = 1 .. Len(routes)
         /\ i \in Nat /\ i >= 1 /\ i <= Len(routes) + 1 /\ j \in Nat
         /\ Here <=> i \in DOMAIN routes
  BY DEF TypeOK, Here

LEMMA InitInv == Init => IInv
  <1> SUFFICES ASSUME Init PROVE IInv
    OBVIOUS
  <1>1. PICK n \in 0 .. MaxRoutes : routes \in [1 .. n -> Routes]
    BY DEF Init
  <1>2. n \in Nat /\ routes \in Seq(Routes) /\ Len(routes) = n /\ DOMAIN routes = 1 .. n
    <2>1. n \in Nat
      BY PlanAssumption
    <2> QED
      BY <1>1, <2>1, IsSequence
  <1>3. Here => 0 <= Len(routes[i].providers)
    <2>1. Here => i \in DOMAIN routes
      BY <1>2 DEF Init, Here
    <2> QED
      BY <1>2, <2>1, RouteTypes
  <1>4. TypeOK
    <2>1. targets = <<>> /\ <<>> \in Seq(Seq(Names)) /\ Len(<<>>) = 0
      BY DEF Init
    <2>2. failover \in 0 .. Len(targets) /\ i \in 1 .. Len(routes) + 1 /\ j \in Nat
      BY <1>2, <2>1 DEF Init
    <2>3. j <= Len(routes[i].providers) <=> 0 <= Len(routes[i].providers)
      BY DEF Init
    <2> QED
      BY <1>2, <1>3, <2>1, <2>2, <2>3 DEF Init, TypeOK
  <1>5. Targets(targets) /\ PlacedIn(targets) = {}
    BY DEF Init, Targets, PlacedIn
  <1>6. Behind /\ AtEnd
    BY <1>2 DEF Init, Behind, AtEnd
  <1>7. SlotsSeen = {}
    <2>1. ASSUME NEW s \in SlotSet(routes) PROVE ~(s[1] < i) /\ ~(s[2] <= j)
      <3>1. s[1] \in DOMAIN routes /\ s[2] \in DOMAIN routes[s[1]].providers
        BY DEF SlotSet
      <3>2. s[2] \in 1 .. Len(routes[s[1]].providers)
        BY <1>2, <3>1, RouteTypes
      <3> QED
        BY <1>2, <3>1, <3>2 DEF Init
    <2> QED
      BY <2>1 DEF SlotsSeen
  <1>8. SoFar(routes, targets, failover, {})
    <2>1. /\ FirstsIn(routes, {}) = {} /\ ChainedIn(routes, {}) = {} /\ HeadsIn(routes, {}) = {}
      BY DEF FirstsIn, ChainedIn, HeadsIn
    <2>2. DOMAIN targets = {} /\ DOMAIN HeadsOf(targets) = {}
      BY DEF Init, HeadsOf
    <2> QED
      BY <1>5, <2>1, <2>2 DEF SoFar, Ordered, RangeOf, Init
  <1> QED
    BY <1>4, <1>5, <1>6, <1>7, <1>8 DEF IInv

(* A route that is left, taken or not, adds no slot.                       *)
LEMMA SameSlots ==
  ASSUME TypeOK, Behind, PassBy \/ TurnDown \/ HoldForDigest \/ RouteTaken
  PROVE  SlotsSeen' = SlotsSeen
  <1>1. routes' = routes /\ i' = i + 1 /\ j' = 0 /\ i \in DOMAIN routes /\ i \in Nat
    BY Bounds DEF PassBy, TurnDown, HoldForDigest, RouteTaken, NextRoute
  <1>2. ASSUME NEW s \in SlotSet(routes)
        PROVE  /\ s[1] \in Nat /\ s[2] \in Nat /\ s[1] \in DOMAIN routes
               /\ s[2] >= 1 /\ s[2] <= Len(routes[s[1]].providers)
    <2>1. s[1] \in DOMAIN routes /\ s[2] \in DOMAIN routes[s[1]].providers
          /\ s[1] \in Nat /\ s[2] \in Nat
      BY DEF SlotSet
    <2>2. s[2] \in 1 .. Len(routes[s[1]].providers)
      BY <2>1, Bounds, RouteTypes
    <2> QED
      BY <2>1, <2>2, Bounds, RouteTypes
  <1>3. \A r \in DOMAIN routes : r # i => (r \in Taken' <=> r \in Taken)
    BY DEF Taken, PassBy, TurnDown, HoldForDigest, RouteTaken
  <1>4. CASE RouteTaken
    <2>1. i \in Taken /\ i \in Taken' /\ j = Len(routes[i].providers)
      BY <1>1, <1>4 DEF RouteTaken, Taken, Behind
    <2>2. ASSUME NEW s \in SlotSet(routes)
          PROVE  (s[1] < i /\ s[1] \in Taken) \/ (s[1] = i /\ s[2] <= j) <=>
                   (s[1] < i' /\ s[1] \in Taken') \/ (s[1] = i' /\ s[2] <= j')
      BY <1>1, <1>2, <1>3, <2>1
    <2> QED
      BY <1>1, <2>2 DEF SlotsSeen
  <1>5. CASE PassBy \/ TurnDown \/ HoldForDigest
    <2>1. j = 0
      BY <1>5, Bounds DEF PassBy, TurnDown, HoldForDigest, Behind
    <2>2. i \notin Taken'
      BY <1>5 DEF PassBy, TurnDown, HoldForDigest, Taken
    <2>3. ASSUME NEW s \in SlotSet(routes)
          PROVE  (s[1] < i /\ s[1] \in Taken) \/ (s[1] = i /\ s[2] <= j) <=>
                   (s[1] < i' /\ s[1] \in Taken') \/ (s[1] = i' /\ s[2] <= j')
      BY <1>1, <1>2, <1>3, <2>1, <2>2
    <2> QED
      BY <1>1, <2>3 DEF SlotsSeen
  <1> QED
    BY <1>4, <1>5

LEMMA OnLeave ==
  ASSUME IInv, PassBy \/ TurnDown \/ HoldForDigest \/ RouteTaken
  PROVE  IInv'
  <1>1. TypeOK /\ Behind /\ AtEnd /\ Targets(targets)
    BY DEF IInv
  <1>2. /\ i \in Nat /\ i >= 1 /\ i <= Len(routes) /\ Len(routes) \in Nat
        /\ routes \in Seq(Routes) /\ DOMAIN routes = 1 .. Len(routes) /\ i \in DOMAIN routes
    BY <1>1, Bounds DEF PassBy, TurnDown, HoldForDigest, RouteTaken
  <1>3. /\ routes' = routes /\ targets' = targets /\ failover' = failover
        /\ fallback' = fallback /\ done' = done /\ i' = i + 1 /\ j' = 0 /\ ~done /\ ~fallback
    BY <1>1 DEF AtEnd, PassBy, TurnDown, HoldForDigest, RouteTaken, NextRoute
  <1>4. SlotsSeen' = SlotsSeen
    BY <1>1, SameSlots
  <1>5. suppressed' \subseteq suppressed \union {i} /\ grouped' \subseteq grouped \union {i}
        /\ suppressed \subseteq suppressed' /\ grouped \subseteq grouped'
    BY DEF PassBy, TurnDown, HoldForDigest, RouteTaken
  <1>6. TypeOK'
    <2>1. Here' => j' <= Len(routes'[i'].providers)
      <3>1. Here' => i' \in DOMAIN routes
        BY <1>2, <1>3 DEF Here
      <3> QED
        BY <1>2, <1>3, <3>1, RouteTypes
    <2> QED
      BY <1>1, <1>2, <1>3, <1>5, <2>1 DEF TypeOK
  <1>7. Behind'
    <2>1. ASSUME NEW r \in suppressed' \union grouped' PROVE r < i + 1 /\ routes[r].matches
      <3>1. CASE r \in suppressed \union grouped
        <4>1. r \in DOMAIN routes /\ r < i /\ routes[r].matches
          BY <1>1, <1>2, <3>1 DEF Behind, TypeOK
        <4> QED
          BY <1>2, <4>1
      <3>2. CASE r \notin suppressed \union grouped
        <4>1. r = i /\ (TurnDown \/ HoldForDigest)
          BY <3>2 DEF PassBy, TurnDown, HoldForDigest, RouteTaken
        <4> QED
          BY <1>2, <4>1 DEF TurnDown, HoldForDigest
      <3> QED
        BY <3>1, <3>2
    <2>2. \A r \in grouped' : routes'[r].grouped
      BY <1>1, <1>3 DEF Behind, PassBy, TurnDown, HoldForDigest, RouteTaken
    <2>3. RouteTaken => targets # <<>>
      <3>1. Len(routes[i].providers) >= 1 /\ Len(routes[i].providers) \in Nat
        BY <1>2, RouteTypes
      <3> QED
        BY <1>1, <3>1 DEF RouteTaken, Behind
    <2>4. routes[i].matches => i \in suppressed' \union grouped' \/ targets # <<>>
      BY <2>3 DEF PassBy, TurnDown, HoldForDigest, RouteTaken
    <2>5. ASSUME NEW r \in DOMAIN routes, r < i + 1, routes[r].matches
          PROVE  r \in suppressed' \union grouped' \/ targets # <<>>
      BY <1>1, <1>2, <1>5, <2>4, <2>5 DEF Behind
    <2> QED
      BY <1>1, <1>3, <2>1, <2>2, <2>5 DEF Behind
  <1>8. AtEnd'
    BY <1>3 DEF AtEnd
  <1>9. Targets(targets') /\ SoFar(routes', targets', failover', SlotsSeen')
    BY <1>1, <1>3, <1>4 DEF IInv
  <1> QED
    BY <1>6, <1>7, <1>8, <1>9 DEF IInv

(* The next provider is a slot behind all the others.                      *)
LEMMA OneMoreSlot ==
  ASSUME TypeOK, Behind, TakeProvider
  PROVE  /\ <<i, j + 1>> \in SlotSet(routes)
         /\ Latest(SlotsSeen, <<i, j + 1>>)
         /\ SlotsSeen' = SlotsSeen \union {<<i, j + 1>>}
  <1> DEFINE u == <<i, j + 1>>
  <1>1. /\ i \in Nat /\ j \in Nat /\ i \in DOMAIN routes /\ routes \in Seq(Routes)
        /\ j < Len(routes[i].providers)
        /\ routes' = routes /\ i' = i /\ j' = j + 1 /\ suppressed' = suppressed
    BY Bounds DEF TakeProvider
  <1>2. j + 1 \in DOMAIN routes[i].providers
    BY <1>1, RouteTypes
  <1>3. u \in SlotSet(routes) /\ u[1] = i /\ u[2] = j + 1
    BY <1>1, <1>2 DEF SlotSet
  <1>4. Taken' = Taken
    BY <1>1 DEF Taken
  <1>5. \A s \in SlotSet(routes) : s[1] \in Nat /\ s[2] \in Nat /\ s = <<s[1], s[2]>>
    BY DEF SlotSet
  <1>6. Latest(SlotsSeen, u)
    BY <1>1, <1>3, <1>5 DEF Latest, SlotsSeen, Before
  <1>7. ASSUME NEW s \in SlotSet(routes)
        PROVE  s \in SlotsSeen' <=> s \in SlotsSeen \union {u}
    <2>1. s[1] \in Nat /\ s[2] \in Nat /\ s = <<s[1], s[2]>>
      BY <1>5
    <2>2. s = u <=> s[1] = i /\ s[2] = j + 1
      BY <1>3, <2>1
    <2>3. s \in SlotsSeen' <=> (s[1] < i /\ s[1] \in Taken) \/ (s[1] = i /\ s[2] <= j + 1)
      BY <1>1, <1>4 DEF SlotsSeen
    <2>4. s \in SlotsSeen <=> (s[1] < i /\ s[1] \in Taken) \/ (s[1] = i /\ s[2] <= j)
      BY DEF SlotsSeen
    <2> QED
      BY <1>1, <2>1, <2>2, <2>3, <2>4
  <1>8. SlotsSeen' \subseteq SlotSet(routes) /\ SlotsSeen \union {u} \subseteq SlotSet(routes)
    BY <1>1, <1>3 DEF SlotsSeen
  <1> QED
    BY <1>3, <1>6, <1>7, <1>8

(* Whatever becomes of the provider, the plan is the documented one for    *)
(* one slot more.                                                          *)
LEMMA TakenAsDocumented ==
  ASSUME IInv, TakeProvider
  PROVE  /\ Targets(targets') /\ targets' # <<>> /\ failover' \in 0 .. Len(targets')
         /\ SoFar(routes', targets', failover', SlotsSeen')
  <1> DEFINE u == <<i, j + 1>>
             n == NameIn(routes, u)
             fanout == routes[i].fanout
  <1>1. TypeOK /\ Behind /\ AtEnd /\ Targets(targets)
    BY DEF IInv
  <1>2. ~fallback
    BY <1>1 DEF AtEnd, TakeProvider
  <1>3. SoFar(routes, targets, failover, SlotsSeen)
    BY <1>2 DEF IInv
  <1>4. /\ u \in SlotSet(routes) /\ Latest(SlotsSeen, u) /\ u \in Nat \X Nat
        /\ SlotsSeen' = SlotsSeen \union {u}
    BY <1>1, OneMoreSlot DEF SlotSet
  <1>5. n \in Names
    BY <1>1, <1>4, Bounds, SlotNames
  <1>6. routes' = routes /\ i \in DOMAIN routes /\ fanout \in BOOLEAN
    BY <1>1, Bounds, RouteTypes DEF TakeProvider
  <1>7. u[1] = i /\ n = routes[i].providers[j + 1]
    BY DEF NameIn
  <1>8. Placed = PlacedIn(targets)
    BY DEF Placed, PlacedIn
  <1>9. /\ targets \in Seq(Seq(Names)) /\ Len(targets) \in Nat /\ DOMAIN targets = 1 .. Len(targets)
        /\ failover \in 0 .. Len(targets)
    BY <1>1 DEF TypeOK
  <1> HIDE DEF u, n, fanout
  <1>10. CASE n \in PlacedIn(targets)
    <2>1. targets' = targets /\ failover' = failover
      BY <1>7, <1>8, <1>10 DEF TakeProvider
    <2>2. targets # <<>>
      BY <1>10 DEF PlacedIn
    <2>3. SoFar(routes, targets, failover, SlotsSeen \union {u})
      BY <1>3, <1>4, <1>10, SeenAgain DEF n
    <2> QED
      BY <1>1, <1>4, <1>6, <1>9, <2>1, <2>2, <2>3
  <1>11. CASE n \notin PlacedIn(targets)
    <2>1. Place(n, fanout)
      BY <1>7, <1>8, <1>11 DEF TakeProvider, fanout
    <2>2. CASE fanout \/ failover = 0
      <3>1. targets' = Append(targets, <<n>>)
            /\ failover' = IF routes[u[1]].fanout THEN failover ELSE Len(targets) + 1
        BY <1>7, <2>1, <2>2 DEF Place, fanout
      <3>2. Targets(Append(targets, <<n>>))
        BY <1>1, <1>5, <1>11, OwnTarget
      <3>3. SoFar(routes, Append(targets, <<n>>),
                  IF routes[u[1]].fanout THEN failover ELSE Len(targets) + 1, SlotsSeen \union {u})
        BY <1>1, <1>3, <1>4, <1>5, <1>6, <1>7, <1>9, <1>11, <2>2, GetsOwn DEF n, fanout
      <3>4. <<n>> \in Seq(Names)
        BY <1>5
      <3>5. Len(targets') = Len(targets) + 1 /\ targets' # <<>>
        BY <1>9, <3>1, <3>4
      <3>6. failover' \in 0 .. Len(targets')
        BY <1>9, <3>1, <3>5
      <3> QED
        BY <1>4, <1>6, <3>1, <3>2, <3>3, <3>5, <3>6
    <2>3. CASE ~fanout /\ failover # 0
      <3>1. targets' = AddedTo(targets, failover, n) /\ failover' = failover
        BY <2>1, <2>3 DEF Place, AddedTo
      <3>2. failover \in DOMAIN targets
        BY <1>9, <2>3
      <3>3. Targets(targets') /\ DOMAIN targets' = DOMAIN targets
        BY <1>1, <1>5, <1>11, <3>1, <3>2, SharedTarget
      <3>4. SoFar(routes, AddedTo(targets, failover, n), failover, SlotsSeen \union {u})
        BY <1>1, <1>3, <1>4, <1>5, <1>7, <1>11, <2>3, <3>2, JoinsShared DEF n, fanout
      <3>5. Len(targets') = Len(targets)
        <4>1. targets' \in Seq(Seq(Names))
          BY <3>3 DEF Targets
        <4>2. Len(targets') \in Nat /\ DOMAIN targets' = 1 .. Len(targets')
          BY <4>1
        <4> QED
          BY <1>9, <3>3, <4>2
      <3>6. targets' # <<>>
        BY <1>9, <3>2, <3>3
      <3> QED
        BY <1>4, <1>6, <1>9, <3>1, <3>3, <3>4, <3>5, <3>6
    <2> QED
      BY <1>6, <2>2, <2>3
  <1> QED
    BY <1>10, <1>11

LEMMA OnTake == ASSUME IInv, TakeProvider PROVE IInv'
  <1>1. TypeOK /\ Behind /\ AtEnd
    BY DEF IInv
  <1>2. /\ i \in Nat /\ j \in Nat /\ Here /\ i \in DOMAIN routes /\ routes \in Seq(Routes)
        /\ Len(routes[i].providers) \in Nat
    BY <1>1, Bounds, RouteTypes DEF TakeProvider
  <1>3. /\ routes' = routes /\ i' = i /\ j' = j + 1 /\ suppressed' = suppressed
        /\ grouped' = grouped /\ fallback' = fallback /\ done' = done
        /\ routes[i].matches /\ ~routes[i].grouped /\ j < Len(routes[i].providers)
    BY DEF TakeProvider
  <1>4. ~done /\ ~fallback
    BY <1>1, <1>2 DEF AtEnd
  <1>5. /\ Targets(targets') /\ targets' # <<>> /\ failover' \in 0 .. Len(targets')
        /\ SoFar(routes', targets', failover', SlotsSeen')
    BY TakenAsDocumented
  <1>6. Here'
    BY <1>2, <1>3 DEF Here
  <1>7. TypeOK'
    <2>1. j' \in Nat /\ j' <= Len(routes'[i'].providers)
      BY <1>2, <1>3
    <2>2. targets' \in Seq(Seq(Names))
      BY <1>5 DEF Targets
    <2> QED
      BY <1>1, <1>3, <1>5, <2>1, <2>2 DEF TypeOK
  <1>8. Behind'
    BY <1>1, <1>2, <1>3, <1>4, <1>5, <1>6 DEF Behind
  <1>9. AtEnd'
    BY <1>3, <1>4 DEF AtEnd
  <1> QED
    BY <1>5, <1>7, <1>8, <1>9 DEF IInv

LEMMA OnFinish == ASSUME IInv, Finish PROVE IInv'
  <1>1. TypeOK /\ Behind /\ AtEnd /\ Targets(targets)
    BY DEF IInv
  <1>2. /\ routes' = routes /\ i' = i /\ j' = j /\ suppressed' = suppressed /\ grouped' = grouped
        /\ failover' = failover /\ done' /\ done' \in BOOLEAN /\ ~Here /\ ~Here' /\ ~done /\ ~fallback
    BY <1>1 DEF Finish, AtEnd, Here
  <1>3. SoFar(routes, targets, failover, SlotsSeen)
    BY <1>2 DEF IInv
  <1>4. SlotsSeen' = SlotsSeen
    BY <1>2 DEF SlotsSeen, Taken
  <1>5. j = 0
    BY <1>1, <1>2, Bounds DEF Behind
  <1>6. CASE fallback'
    <2>1. targets = <<>> /\ suppressed = {} /\ grouped = {} /\ targets' = << <<Console>> >>
      BY <1>6 DEF Finish
    <2>2. Console \in Names /\ <<>> \in Seq(Seq(Names)) /\ Len(<<>>) = 0
      BY PlanAssumption
    <2>3. Targets(Append(<<>>, <<Console>>))
      <3>1. Targets(<<>>) /\ Console \notin PlacedIn(<<>>)
        BY <1>1, <2>1 DEF PlacedIn
      <3> QED
        BY <2>2, <3>1, OwnTarget
    <2>4. <<Console>> \in Seq(Names)
      BY <2>2
    <2>5. Append(<<>>, <<Console>>) = << <<Console>> >> /\ Len(<< <<Console>> >>) = 1
      BY <2>4
    <2>6. Targets(targets')
      BY <2>1, <2>3, <2>5
    <2>7. failover' \in 0 .. Len(targets')
      BY <1>1, <1>2, <2>1, <2>2, <2>5 DEF TypeOK
    <2>8. TypeOK'
      BY <1>1, <1>2, <1>6, <2>6, <2>7 DEF TypeOK, Targets, Finish
    <2>9. targets' # <<>>
      BY <2>1
    <2>10. Behind'
      BY <1>1, <1>2, <1>5, <1>6, <2>1 DEF Behind
    <2>11. AtEnd'
      BY <1>2, <1>6, <2>1, <2>9 DEF AtEnd
    <2> QED
      BY <1>6, <2>6, <2>8, <2>10, <2>11 DEF IInv
  <1>7. CASE ~fallback'
    <2>1. targets' = targets /\ fallback' \in BOOLEAN
          /\ (targets = <<>> => suppressed \union grouped # {})
      BY <1>7 DEF Finish
    <2>2. TypeOK'
      BY <1>1, <1>2, <2>1 DEF TypeOK
    <2>3. Behind'
      BY <1>1, <1>2, <1>5, <1>7, <2>1 DEF Behind
    <2>4. AtEnd'
      BY <1>2, <1>7, <2>1 DEF AtEnd
    <2> QED
      BY <1>1, <1>2, <1>3, <1>4, <2>1, <2>2, <2>3, <2>4 DEF IInv
  <1> QED
    BY <1>6, <1>7

LEMMA NextInv == IInv /\ [Next]_vars => IInv'
  <1> SUFFICES ASSUME IInv, [Next]_vars PROVE IInv'
    OBVIOUS
  <1>1. CASE PassBy \/ TurnDown \/ HoldForDigest \/ RouteTaken
    BY <1>1, OnLeave
  <1>2. CASE TakeProvider
    BY <1>2, OnTake
  <1>3. CASE Finish
    BY <1>3, OnFinish
  <1>4. CASE UNCHANGED vars
    BY <1>4 DEF vars, IInv, TypeOK, Here, Behind, AtEnd, SlotsSeen, Taken
  <1> QED
    BY <1>1, <1>2, <1>3, <1>4 DEF Next

LEMMA Invariance == Spec => []IInv
  BY InitInv, NextInv, PTL DEF Spec

-----------------------------------------------------------------------------
(* What the plan promises                                                  *)

(* However the routes overlap and whatever their histories answer, the     *)
(* finished plan of plan_with names each provider once, where the routes   *)
(* name it first, with one target for all the failover routes.             *)
THEOREM AsDocumented == Spec => []PlanIsAsDocumented
  <1>1. ASSUME IInv PROVE PlanIsAsDocumented
    <2>1. TypeOK /\ Behind /\ AtEnd /\ Targets(targets)
      BY <1>1 DEF IInv
    <2>2. ASSUME done, ~fallback
          PROVE  LET Heads == {s \in Firsts : Single(s)} IN
                 /\ InOrder([t \in DOMAIN targets |-> targets[t][1]], Heads)
                 /\ \A t \in DOMAIN targets :
                      \/ \E s \in Firsts \ Chained : targets[t] = <<NameAt(s)>>
                      \/ InOrder(targets[t], Chained)
      <3>1. SoFar(routes, targets, failover, SlotsSeen)
        BY <1>1, <2>2 DEF IInv
      <3>2. \A r \in DOMAIN routes : r < i /\ r # i /\ r \in Nat
        BY <2>1, <2>2, Bounds DEF AtEnd, Here, TypeOK
      <3>3. i \notin DOMAIN routes
        BY <3>2
      <3>4. ASSUME NEW r \in Taken PROVE r \in DOMAIN routes /\ DOMAIN routes[r].providers \subseteq Nat
        BY <2>1, Bounds, RouteTypes DEF Taken
      <3>5. SlotsSeen = Slots
        <4>1. SlotsSeen = {s \in SlotSet(routes) : s[1] \in Taken}
          BY <3>2, <3>3 DEF SlotsSeen, SlotSet
        <4>2. {s \in SlotSet(routes) : s[1] \in Taken} \subseteq Slots
          BY DEF SlotSet, Slots
        <4>3. ASSUME NEW s \in Slots PROVE s \in SlotSet(routes) /\ s[1] \in Taken
          <5>1. PICK r \in Taken : \E k \in DOMAIN routes[r].providers : s = <<r, k>>
            BY DEF Slots
          <5> QED
            BY <3>2, <3>4, <5>1 DEF SlotSet
        <4> QED
          BY <4>1, <4>2, <4>3
      <3>6. /\ Firsts = FirstsIn(routes, Slots) /\ Chained = ChainedIn(routes, Slots)
            /\ {s \in Firsts : Single(s)} = HeadsIn(routes, Slots)
        <4>1. Firsts = FirstsIn(routes, Slots)
          BY DEF Firsts, FirstsIn, NameAt, NameIn
        <4>2. Chained = ChainedIn(routes, Slots)
          BY <4>1 DEF Chained, ChainedIn
        <4> QED
          BY <4>1, <4>2 DEF HeadsIn, Single
      <3>7. \A chain, S : Ordered(routes, chain, S) => InOrder(chain, S)
        BY DEF Ordered, InOrder, NameIn, NameAt
      <3>8. InOrder(HeadsOf(targets), HeadsIn(routes, Slots))
        BY <3>1, <3>5, <3>7 DEF SoFar
      <3>9. ASSUME NEW t \in DOMAIN targets
            PROVE  \/ \E s \in Firsts \ Chained : targets[t] = <<NameAt(s)>>
                   \/ InOrder(targets[t], Chained)
        <4>1. CASE t # failover
          BY <3>1, <3>5, <3>6, <4>1 DEF SoFar, NameAt, NameIn
        <4>2. CASE t = failover
          <5>1. failover # 0
            BY <2>1, <4>2 DEF TypeOK
          <5> QED
            BY <3>1, <3>5, <3>6, <3>7, <4>2, <5>1 DEF SoFar
        <4> QED
          BY <4>1, <4>2
      <3> QED
        BY <3>6, <3>8, <3>9 DEF HeadsOf
    <2>3. \A s, t \in DOMAIN targets : \A a \in DOMAIN targets[s], b \in DOMAIN targets[t] :
            targets[s][a] = targets[t][b] => s = t /\ a = b
      BY <2>1 DEF Targets
    <2> QED
      BY <2>2, <2>3 DEF PlanIsAsDocumented
  <1> QED
    BY <1>1, Invariance, PTL

(* A signal without a target was turned down or is held by a route that    *)
(* matches it, and the console takes exactly the signals that no route     *)
(* matches (the fallback of plan_with).                                    *)
THEOREM NeverLost == Spec => []NeverSilent
  <1>1. ASSUME IInv PROVE NeverSilent
    <2>1. TypeOK /\ Behind /\ AtEnd
      BY <1>1 DEF IInv
    <2>2. ASSUME done, targets = <<>> PROVE \E r \in suppressed \union grouped : routes[r].matches
      BY <2>1, <2>2 DEF Behind, AtEnd
    <2>3. ASSUME done PROVE fallback <=> \A r \in DOMAIN routes : ~routes[r].matches
      <3>1. \A r \in DOMAIN routes : r < i
        BY <2>1, <2>3, Bounds DEF AtEnd, Here
      <3>2. CASE fallback
        BY <2>1, <3>1, <3>2 DEF Behind, AtEnd
      <3>3. CASE ~fallback /\ targets # <<>>
        BY <2>1, <3>3 DEF Behind
      <3>4. CASE ~fallback /\ targets = <<>>
        BY <2>1, <2>2, <2>3, <3>4 DEF TypeOK, Behind
      <3> QED
        BY <3>2, <3>3, <3>4
    <2> QED
      BY <2>1, <2>2, <2>3 DEF NeverSilent
  <1> QED
    BY <1>1, Invariance, PTL
=============================================================================
