---------------------------- MODULE ConfigProofs ----------------------------
(***************************************************************************)
(* How a configuration comes about, for any files, names and limits.       *)
(*                                                                         *)
(* First the walk, the merge and the check of one load (ConfigBuild).  The *)
(* walk's invariant is WalkInv.  Its core is Behind: an entry struck from  *)
(* a list is the text of a finished file, or of the one right above on the *)
(* stack.  Hence a file that leaves the stack has its parents behind it.   *)
(* The recursions of the model are reasoned about by Upwards, an induction *)
(* over sets of numbers.                                                   *)
(*                                                                         *)
(* Then the cached copies (ConfigLoad): they fit together, and stand       *)
(* between a start and the default, for any number of files and processes  *)
(* and any notion of which contents fit.                                   *)
(***************************************************************************)
EXTENDS ConfigLoad, ConfigBuild, FiniteSetTheorems, WellFoundedInduction, TLAPS

(* Induction, which the library states for a predicate, here for a set:    *)
(* the spans 0 .. x of a set of numbers have a smallest one.               *)
LEMMA Least ==
  ASSUME NEW T, T \subseteq Nat, T # {}
  PROVE  \E x \in T : \A y \in T : x <= y
<1> DEFINE Spans == {0 .. x : x \in T}
<1>1. Spans \subseteq FiniteSubsetsOf(Nat)
  <2>1. SUFFICES ASSUME NEW x \in T PROVE 0 .. x \in FiniteSubsetsOf(Nat)
    OBVIOUS
  <2>2. x \in Int /\ 0 \in Int /\ 0 .. x \subseteq Nat
    OBVIOUS
  <2>3. IsFiniteSet(0 .. x)
    BY <2>2, FS_Interval
  <2> QED BY <2>2, <2>3 DEF FiniteSubsetsOf
<1>2. Spans # {}
  OBVIOUS
<1>3. PICK s \in Spans : \A r \in Spans : ~(<<r, s>> \in StrictSubsetOrdering(Nat))
  <2>1. IsWellFoundedOn(StrictSubsetOrdering(Nat), FiniteSubsetsOf(Nat))
    BY FS_StrictSubsetOrderingWellFounded, Zenon
  <2> HIDE DEF Spans
  <2> QED BY <1>1, <1>2, <2>1, WFMin, Zenon
<1>4. PICK x \in T : s = 0 .. x
  OBVIOUS
<1>5. \A y \in T : x <= y
  <2>1. SUFFICES ASSUME NEW y \in T, y < x PROVE FALSE
    OBVIOUS
  <2>2. 0 .. y \in Spans /\ 0 .. y \in SUBSET Nat /\ 0 .. x \in SUBSET Nat
    OBVIOUS
  <2>3. 0 .. y \subseteq 0 .. x /\ x \in 0 .. x /\ x \notin 0 .. y
    BY <2>1
  <2>4. <<0 .. y, 0 .. x>> \in StrictSubsetOrdering(Nat)
    BY <2>2, <2>3 DEF StrictSubsetOrdering
  <2> QED BY <1>3, <1>4, <2>2, <2>4
<1> QED BY <1>5

(* What holds of 0 and goes on from n to n + 1 holds up to N.              *)
LEMMA Upwards ==
  ASSUME NEW M \in Nat, NEW S, 0 \in S, \A n \in 0 .. M : n \in S /\ n < M => n + 1 \in S
  PROVE  0 .. M \subseteq S
<1> DEFINE T == (0 .. M) \ S
<1>1. SUFFICES ASSUME T # {} PROVE FALSE
  OBVIOUS
<1>2. PICK x \in T : \A y \in T : x <= y
  <2>1. T \subseteq Nat /\ T # {}
    BY <1>1
  <2> HIDE DEF T
  <2> QED BY <2>1, Least
<1>3. x \in 0 .. M /\ x # 0 /\ x - 1 \in 0 .. M /\ x - 1 < x /\ x - 1 < M /\ (x - 1) + 1 = x
  OBVIOUS
<1>4. x - 1 \notin T
  BY <1>2, <1>3
<1> QED BY <1>3, <1>4

-----------------------------------------------------------------------------

(* A recursion over 0 .. L whose steps stay in A defines what it says.     *)
Climb(L, start, step) ==
  CHOOSE out : out = [n \in 0 .. L |-> IF n = 0 THEN start ELSE step[<<n, out[n - 1]>>]]

IsClimb(out, L, A, start, step) ==
  /\ out \in [0 .. L -> A]
  /\ out[0] = start
  /\ \A n \in 1 .. L : out[n] = step[<<n, out[n - 1]>>]

LEMMA Climbs ==
  ASSUME NEW L \in Nat, NEW A, NEW start \in A, NEW step \in [(1 .. L) \X A -> A]
  PROVE  IsClimb(Climb(L, start, step), L, A, start, step)
<1> DEFINE Is(out, M) == /\ out \in [0 .. M -> A]
                         /\ out[0] = start
                         /\ \A n \in 1 .. M : out[n] = step[<<n, out[n - 1]>>]
           S == {M \in 0 .. L : \E out : Is(out, M)}
<1>1. 0 \in S
  <2>1. Is([n \in 0 .. 0 |-> start], 0)
    OBVIOUS
  <2>2. \E out : Is(out, 0)
    BY <2>1
  <2> QED BY <2>2
<1>2. ASSUME NEW M \in 0 .. L, M \in S, M < L
      PROVE  M + 1 \in S
  <2>1. PICK out : Is(out, M)
    BY <1>2
  <2> DEFINE more == [n \in 0 .. M + 1 |-> IF n = M + 1 THEN step[<<M + 1, out[M]>>] ELSE out[n]]
  <2>2. Is(more, M + 1)
    <3>1. /\ M \in Nat /\ M + 1 # 0 /\ 0 \in 0 .. M + 1 /\ 0 \in 0 .. M
          /\ M + 1 \in 1 .. L /\ M \in 0 .. M
      BY <1>2
    <3>2. more[0] = start
      BY <2>1, <3>1
    <3>3. ASSUME NEW n \in 1 .. M + 1
          PROVE  more[n] = step[<<n, more[n - 1]>>]
      BY <2>1, <3>1
    <3>4. step[<<M + 1, out[M]>>] \in A
      <4>1. out[M] \in A
        BY <2>1, <3>1
      <4> QED BY <3>1, <4>1
    <3>5. more \in [0 .. M + 1 -> A]
      BY <2>1, <3>1, <3>4
    <3> QED BY <3>2, <3>3, <3>5
  <2>3. \E x : Is(x, M + 1)
    <3> HIDE DEF Is, more
    <3> QED BY <2>2
  <2>4. M + 1 \in 0 .. L
    BY <1>2
  <2> HIDE DEF Is
  <2> QED BY <2>3, <2>4
<1>3. L \in S
  <2>1. L \in 0 .. L
    OBVIOUS
  <2> HIDE DEF S
  <2> QED BY <1>1, <1>2, <2>1, Upwards
<1>4. PICK out : Is(out, L)
  BY <1>3
<1> DEFINE By(f) == [n \in 0 .. L |-> IF n = 0 THEN start ELSE step[<<n, f[n - 1]>>]]
           climb == Climb(L, start, step)
<1>5. out = By(out)
  BY <1>4
<1>6. climb = By(climb)
  BY <1>5 DEF Climb
<1>7. /\ DOMAIN climb = 0 .. L /\ climb[0] = start
      /\ \A n \in 1 .. L : climb[n] = step[<<n, climb[n - 1]>>]
  <2> HIDE DEF climb
  <2>1. /\ DOMAIN By(climb) = 0 .. L /\ By(climb)[0] = start
        /\ \A n \in 1 .. L : By(climb)[n] = step[<<n, climb[n - 1]>>]
    OBVIOUS
  <2> QED BY <1>6, <2>1
<1>8. 0 .. L \subseteq {n \in 0 .. L : climb[n] \in A}
  <2> HIDE DEF climb
  <2> DEFINE good == {n \in 0 .. L : climb[n] \in A}
  <2>1. 0 \in good
    BY <1>7
  <2>2. ASSUME NEW n \in 0 .. L, n \in good, n < L
        PROVE  n + 1 \in good
    <3>1. n + 1 \in 1 .. L /\ (n + 1) - 1 = n /\ n + 1 \in 0 .. L
      BY <2>2
    <3>2. climb[n + 1] = step[<<n + 1, climb[n]>>]
      BY <1>7, <3>1
    <3>3. <<n + 1, climb[n]>> \in (1 .. L) \X A
      BY <2>2, <3>1
    <3> QED BY <3>1, <3>2, <3>3
  <2> HIDE DEF good
  <2>3. 0 .. L \subseteq good
    BY <2>1, <2>2, Upwards
  <2> QED BY <2>3 DEF good
<1>9. climb = [n \in 0 .. L |-> climb[n]]
  <2> HIDE DEF climb
  <2>1. By(climb) = [n \in 0 .. L |-> By(climb)[n]]
    OBVIOUS
  <2> HIDE DEF By
  <2> QED BY <1>6, <2>1
<1> HIDE DEF climb
<1>10. climb \in [0 .. L -> A]
  BY <1>8, <1>9
<1> QED BY <1>7, <1>10 DEF climb, IsClimb

(* Two that take the same steps are the same.                              *)
LEMMA SameClimb ==
  ASSUME NEW L \in Nat, NEW x, NEW y, x[0] = y[0],
         \A n \in 1 .. L : x[n - 1] = y[n - 1] => x[n] = y[n]
  PROVE  \A n \in 0 .. L : x[n] = y[n]
<1> DEFINE S == {n \in 0 .. L : x[n] = y[n]}
<1>1. 0 \in S
  OBVIOUS
<1>2. ASSUME NEW n \in 0 .. L, n \in S, n < L
      PROVE  n + 1 \in S
  <2>1. n + 1 \in 1 .. L /\ (n + 1) - 1 = n /\ n + 1 \in 0 .. L
    BY <1>2
  <2> QED BY <1>2, <2>1
<1> HIDE DEF S
<1>3. 0 .. L \subseteq S
  BY <1>1, <1>2, Upwards
<1> QED BY <1>3 DEF S

-----------------------------------------------------------------------------
(* The names of sources: what a relative entry makes of them.              *)

(* Sequences of A stay such at either end.                                 *)
LEMMA Appended ==
  ASSUME NEW A, NEW s \in Seq(A), NEW x \in A
  PROVE  /\ Append(s, x) \in Seq(A)
         /\ s # <<>> => Front(s) \in Seq(A) /\ Last(s) \in A
  BY DEF Front, Last

LEMMA FoldNames ==
  ASSUME NEW out \in Seq(STRING), NEW seg \in STRING
  PROVE  Fold(out, seg) \in Seq(STRING)
  BY Appended DEF Fold

(* Folded is the recursion it says: one Fold for every segment.            *)
LEMMA FoldedSteps ==
  ASSUME NEW start \in Seq(STRING), NEW segs \in Seq(STRING)
  PROVE  \E out \in [0 .. Len(segs) -> Seq(STRING)] :
           /\ out[0] = start
           /\ \A n \in 1 .. Len(segs) : out[n] = Fold(out[n - 1], segs[n])
           /\ Folded(start, segs) = out[Len(segs)]
<1> DEFINE L == Len(segs)
           A == Seq(STRING)
           step == [p \in (1 .. L) \X A |-> Fold(p[2], segs[p[1]])]
           climb == Climb(L, start, step)
           By(f) == [n \in 0 .. L |-> IF n = 0 THEN start ELSE Fold(f[n - 1], segs[n])]
           out == CHOOSE f : f = By(f)
<1>1. L \in Nat /\ start \in A
  OBVIOUS
<1>2. step \in [(1 .. L) \X A -> A]
  <2>1. ASSUME NEW p \in (1 .. L) \X A
        PROVE  Fold(p[2], segs[p[1]]) \in A
    <3>1. p[1] \in 1 .. L /\ p[2] \in Seq(STRING)
      OBVIOUS
    <3>2. segs[p[1]] \in STRING
      BY <3>1
    <3> QED BY <3>1, <3>2, FoldNames
  <2> QED BY <2>1
<1>3. /\ climb \in [0 .. L -> A] /\ climb[0] = start
      /\ \A n \in 1 .. L : climb[n] = step[<<n, climb[n - 1]>>]
  <2> HIDE DEF L, A, step
  <2>1. IsClimb(climb, L, A, start, step)
    BY <1>1, <1>2, Climbs
  <2> HIDE DEF climb
  <2> QED BY <2>1 DEF IsClimb
<1>4. \A n \in 1 .. L : climb[n] = Fold(climb[n - 1], segs[n])
  <2> SUFFICES ASSUME NEW n \in 1 .. L PROVE climb[n] = Fold(climb[n - 1], segs[n])
    OBVIOUS
  <2> HIDE DEF climb
  <2>1. n - 1 \in 0 .. L
    BY <1>1
  <2>2. <<n, climb[n - 1]>> \in (1 .. L) \X A
    BY <1>3, <2>1
  <2> QED BY <1>3, <2>2
<1>5. climb = By(climb)
  <2> HIDE DEF climb
  <2> QED BY <1>1, <1>3, <1>4
<1>6. out = By(out)
  <2> HIDE DEF climb, By
  <2> QED BY <1>5
<1>7. /\ DOMAIN out = 0 .. L /\ out = [n \in 0 .. L |-> out[n]] /\ out[0] = start
      /\ \A n \in 1 .. L : out[n] = Fold(out[n - 1], segs[n])
  <2> HIDE DEF out
  <2> QED BY <1>1, <1>6
<1>8. \A n \in 0 .. L : out[n] = climb[n]
  <2> HIDE DEF out, climb, L, A, step, By
  <2>1. \A n \in 1 .. L : out[n - 1] = climb[n - 1] => out[n] = climb[n]
    BY <1>4, <1>7
  <2>2. out[0] = climb[0]
    BY <1>3, <1>7
  <2> QED BY <1>1, <2>1, <2>2, SameClimb
<1>9. out \in [0 .. L -> Seq(STRING)]
  <2> HIDE DEF out, climb, L
  <2> QED BY <1>3, <1>7, <1>8
<1>10. Folded(start, segs) = out[L]
  BY DEF Folded
<1> HIDE DEF out
<1> QED BY <1>7, <1>9, <1>10

LEMMA FoldedNames ==
  ASSUME NEW start \in Seq(STRING), NEW segs \in Seq(STRING)
  PROVE  Folded(start, segs) \in Seq(STRING)
<1>1. Len(segs) \in 0 .. Len(segs)
  OBVIOUS
<1> QED BY <1>1, FoldedSteps

(* One of A, or nothing at all; a path of such, and whether it is one.     *)
OrNone(A, seg) == seg \in A \/ seg = ""
Paths(A) == [ok : BOOLEAN, parts : Seq(A)]

LEMMA NoneIsSeq ==
  ASSUME NEW A
  PROVE  <<>> \in Seq(A)
  OBVIOUS

LEMMA APath ==
  ASSUME NEW A, NEW ok \in BOOLEAN, NEW parts \in Seq(A)
  PROVE  [ok |-> ok, parts |-> parts] \in Paths(A)
  BY DEF Paths

LEMMA PathParts ==
  ASSUME NEW A, NEW at \in Paths(A)
  PROVE  at.ok \in BOOLEAN /\ at.parts \in Seq(A) /\ at = [ok |-> at.ok, parts |-> at.parts]
  BY DEF Paths

LEMMA Descends ==
  ASSUME NEW A, NEW at \in Paths(A), NEW seg, OrNone(A, seg)
  PROVE  Descend(at, seg) \in Paths(A)
<1>0. at.ok \in BOOLEAN /\ at.parts \in Seq(A) /\ at = [ok |-> at.ok, parts |-> at.parts]
  BY PathParts
<1>1. CASE seg \in {"", "."}
  BY <1>1 DEF Descend
<1>2. CASE seg = ".."
  <2>1. at.parts # <<>> => Front(at.parts) \in Seq(A)
    BY <1>0, Appended
  <2> DEFINE up == IF at.parts = <<>> THEN <<>> ELSE Front(at.parts)
             still == at.ok /\ at.parts # <<>>
  <2>2. up \in Seq(A) /\ still \in BOOLEAN
    BY <2>1, NoneIsSeq
  <2>3. Descend(at, seg) = [ok |-> still, parts |-> up]
    BY <1>2 DEF Descend
  <2> HIDE DEF up, still
  <2> QED BY <2>2, <2>3, APath
<1>3. CASE seg \notin {"", ".", ".."}
  <2>1. seg \in A
    BY <1>3 DEF OrNone
  <2>2. Append(at.parts, seg) \in Seq(A)
    BY <1>0, <2>1, Appended
  <2>3. Descend(at, seg) = [ok |-> at.ok, parts |-> Append(at.parts, seg)]
    BY <1>0, <1>3 DEF Descend
  <2> QED BY <1>0, <2>2, <2>3, APath
<1> QED BY <1>1, <1>2, <1>3

(* A key next to one without empty parts has none either.                  *)
LEMMA JoinKeyNames ==
  ASSUME NEW A, NEW path \in Seq(A), path # <<>>, NEW C, NEW segs \in Seq(C),
         \A seg \in C : OrNone(A, seg)
  PROVE  JoinKey(path, segs) \in Seq(A)
<1> DEFINE L == Len(segs)
           B == Paths(A)
           start == [ok |-> TRUE, parts |-> Front(path)]
           step == [p \in (1 .. L) \X B |-> Descend(p[2], segs[p[1]])]
           climb == Climb(L, start, step)
           By(f) == [n \in 0 .. L |-> IF n = 0 THEN start ELSE Descend(f[n - 1], segs[n])]
           at == CHOOSE f : f = By(f)
<1>1. L \in Nat /\ start \in B
  <2>1. Front(path) \in Seq(A) /\ TRUE \in BOOLEAN
    BY Appended
  <2>2. start \in B
    BY <2>1, APath
  <2> QED BY <2>2
<1>2. step \in [(1 .. L) \X B -> B]
  <2>1. ASSUME NEW p \in (1 .. L) \X B
        PROVE  Descend(p[2], segs[p[1]]) \in B
    <3> HIDE DEF B
    <3>1. p[1] \in 1 .. L /\ p[2] \in B
      OBVIOUS
    <3>2. segs[p[1]] \in C
      BY <3>1
    <3>3. OrNone(A, segs[p[1]])
      BY <3>2
    <3> QED BY <3>1, <3>3, Descends DEF B
  <2> QED BY <2>1
<1> HIDE DEF start, B
<1>3. /\ climb \in [0 .. L -> B] /\ climb[0] = start
      /\ \A n \in 1 .. L : climb[n] = step[<<n, climb[n - 1]>>]
  <2> HIDE DEF L, step
  <2>1. IsClimb(climb, L, B, start, step)
    BY <1>1, <1>2, Climbs
  <2> HIDE DEF climb
  <2> QED BY <2>1 DEF IsClimb
<1>4. \A n \in 1 .. L : climb[n] = Descend(climb[n - 1], segs[n])
  <2> SUFFICES ASSUME NEW n \in 1 .. L PROVE climb[n] = Descend(climb[n - 1], segs[n])
    OBVIOUS
  <2> HIDE DEF climb
  <2>1. n - 1 \in 0 .. L
    BY <1>1
  <2>2. <<n, climb[n - 1]>> \in (1 .. L) \X B
    BY <1>3, <2>1
  <2> QED BY <1>3, <2>2
<1>5. climb = By(climb)
  <2> HIDE DEF climb
  <2> QED BY <1>1, <1>3, <1>4
<1>6. at = By(at)
  <2> HIDE DEF climb, By
  <2> QED BY <1>5
<1>7. /\ at[0] = start
      /\ \A n \in 1 .. L : at[n] = Descend(at[n - 1], segs[n])
  <2> HIDE DEF at
  <2> QED BY <1>1, <1>6
<1>8. \A n \in 0 .. L : at[n] = climb[n]
  <2> HIDE DEF at, climb, L, step, By
  <2>1. \A n \in 1 .. L : at[n - 1] = climb[n - 1] => at[n] = climb[n]
    BY <1>4, <1>7
  <2>2. at[0] = climb[0]
    BY <1>3, <1>7
  <2>3. L \in Nat
    BY <1>1
  <2> QED BY <2>1, <2>2, <2>3, SameClimb, ZenonT(60)
<1>9. at[L] \in B
  <2> HIDE DEF at, climb
  <2>1. L \in 0 .. L
    BY <1>1
  <2> QED BY <1>3, <1>8, <2>1
<1>10. JoinKey(path, segs) = IF at[L].ok THEN at[L].parts ELSE <<>>
  BY DEF JoinKey, start
<1> HIDE DEF at, L
<1>11. at[L].parts \in Seq(A) /\ <<>> \in Seq(A)
  BY <1>9, PathParts, NoneIsSeq DEF B
<1> QED BY <1>10, <1>11

LEMMA Parted ==
  ASSUME NEW A, NEW s \in Seq(A)
  PROVE  /\ Front(s) \in Seq(A)
         /\ \A n \in Nat \ {0} : SubSeq(s, n, Len(s)) \in Seq(A) /\ SubSeq(s, n, Len(s) - 1) \in Seq(A)
         /\ \A n \in Nat : SubSeq(s, 1, n) \in Seq(A) \/ n > Len(s)
         /\ s # <<>> => Head(s) \in A /\ Tail(s) \in Seq(A) /\ <<Head(s)>> \in Seq(A)
         /\ \A r \in Seq(A) : s \o r \in Seq(A)
<1>1. Front(s) \in Seq(A)
  <2>1. CASE s = <<>>
    BY <2>1 DEF Front
  <2>2. CASE s # <<>>
    BY <2>2 DEF Front
  <2> QED BY <2>1, <2>2
<1>2. ASSUME NEW n \in Nat \ {0}
      PROVE  SubSeq(s, n, Len(s)) \in Seq(A) /\ SubSeq(s, n, Len(s) - 1) \in Seq(A)
  OBVIOUS
<1>3. ASSUME NEW n \in Nat, n <= Len(s)
      PROVE  SubSeq(s, 1, n) \in Seq(A)
  BY <1>3
<1> QED BY <1>1, <1>2, <1>3

LEMMA NormalizeNames ==
  ASSUME NEW segs \in Seq(STRING)
  PROVE  Normalize(segs) \in Seq(STRING)
<1>1. CASE Len(segs) > 1 /\ Head(segs) = ""
  <2>0. segs # <<>> => <<Head(segs)>> \in Seq(STRING) /\ Tail(segs) \in Seq(STRING)
    BY Parted
  <2>1. <<Head(segs)>> \in Seq(STRING) /\ Tail(segs) \in Seq(STRING)
    <3>1. Len(segs) > 1
      BY <1>1
    <3>2. segs # <<>>
      BY <3>1
    <3> QED BY <2>0, <3>2
  <2>2. Normalize(segs) = Folded(<<Head(segs)>>, Tail(segs))
    BY <1>1 DEF Normalize
  <2> QED BY <2>1, <2>2, FoldedNames
<1>2. CASE ~(Len(segs) > 1 /\ Head(segs) = "")
  <2>1. <<>> \in Seq(STRING)
    OBVIOUS
  <2>2. Normalize(segs) = Folded(<<>>, segs)
    BY <1>2 DEF Normalize
  <2> QED BY <2>1, <2>2, FoldedNames
<1> QED BY <1>1, <1>2

LEMMA JoinUrlNames ==
  ASSUME NEW path \in Seq(STRING), path # <<>>, NEW segs \in Seq(STRING)
  PROVE  JoinUrl(path, segs) \in Seq(STRING) /\ JoinUrl(path, segs) # <<>>
<1>1. CASE segs = <<"">>
  BY <1>1 DEF JoinUrl
<1>2. CASE segs # <<"">>
  <2> DEFINE within == SubSeq(path, 2, Len(path) - 1) \o segs
  <2>1. within \in Seq(STRING) /\ <<Head(path)>> \in Seq(STRING)
    BY Parted
  <2>2. <<>> \in Seq(STRING)
    OBVIOUS
  <2> HIDE DEF within
  <2>3. Folded(<<>>, within) \in Seq(STRING)
    BY <2>1, <2>2, FoldedNames
  <2>4. JoinUrl(path, segs) = <<Head(path)>> \o Folded(<<>>, within)
    BY <1>2 DEF JoinUrl, within
  <2>5. ASSUME NEW A, NEW a, <<a>> \in Seq(A), NEW r \in Seq(A)
        PROVE  <<a>> \o r \in Seq(A) /\ <<a>> \o r # <<>>
    BY <2>5
  <2> QED BY <2>1, <2>3, <2>4, <2>5
<1> QED BY <1>1, <1>2

(* A source with its parts; a remote one has a path.                       *)
Entire(s) ==
  /\ s = Source(s.kind, s.place, s.path, s.tail, s.params)
  /\ s.kind \in {"file"} \union Kinds
  /\ s.place \in Seq(STRING) /\ s.path \in Seq(STRING) /\ s.tail \in Seq(Pairs)
  /\ s.params \in Seq(Seq(STRING))
  /\ IsRemote(s) => s.path # <<>>

LEMMA ReferenceParts ==
  ASSUME NEW t \in References
  PROVE  t.segs \in Seq(STRING) /\ t.segs # <<>> /\ t.query \in Seq(Pairs) /\ t.scheme \in STRING
  BY DEF References

LEMMA MadeWhole ==
  ASSUME NEW kind \in {"file"} \union Kinds, NEW place \in Seq(STRING), NEW path \in Seq(STRING),
         NEW tail \in Seq(Pairs), NEW params \in Seq(Seq(STRING)), kind # "file" => path # <<>>
  PROVE  Entire(Source(kind, place, path, tail, params))
  BY DEF Entire, Source, IsRemote

LEMMA MovedWhole ==
  ASSUME NEW s, Entire(s), NEW path \in Seq(STRING), NEW tail \in Seq(Pairs),
         IsRemote(s) => path # <<>>
  PROVE  Entire(Moved(s, path, tail)) /\ Moved(s, path, tail).kind = s.kind
<1>1. s.kind # "file" => path # <<>>
  BY DEF IsRemote
<1>2. /\ s.kind \in {"file"} \union Kinds /\ s.place \in Seq(STRING)
      /\ s.params \in Seq(Seq(STRING))
  BY DEF Entire
<1>3. Entire(Source(s.kind, s.place, path, tail, s.params))
  BY <1>1, <1>2, MadeWhole
<1>4. Source(s.kind, s.place, path, tail, s.params).kind = s.kind
  BY DEF Source
<1> QED BY <1>3, <1>4 DEF Moved

LEMMA Reset ==
  ASSUME NEW A, NEW q \in Seq(A), NEW a \in A
  PROVE  [q EXCEPT ![1] = a] \in Seq(A)
<1> DEFINE r == [q EXCEPT ![1] = a]
<1>1. DOMAIN r = 1 .. Len(q) /\ Len(q) \in Nat /\ r = [i \in DOMAIN r |-> r[i]]
  OBVIOUS
<1>2. \A i \in 1 .. Len(q) : r[i] \in A
  OBVIOUS
<1> HIDE DEF r
<1>3. r \in Seq(A)
  BY <1>1, <1>2
<1> QED BY <1>3 DEF r

LEMMA ItemMoved ==
  ASSUME NEW s, Entire(s), NEW path \in Seq(STRING), NEW tail \in Seq(Pairs), path # <<>>
  PROVE  /\ Entire([Moved(s, path, tail) EXCEPT !.params[1] = <<>>])
         /\ [Moved(s, path, tail) EXCEPT !.params[1] = <<>>].kind = s.kind
<1> DEFINE params == [s.params EXCEPT ![1] = <<>>]
           r == [Moved(s, path, tail) EXCEPT !.params[1] = <<>>]
<1>1. params \in Seq(Seq(STRING))
  <2>1. s.params \in Seq(Seq(STRING)) /\ <<>> \in Seq(STRING)
    BY DEF Entire
  <2> QED BY <2>1, Reset
<1>2. r = Source(s.kind, s.place, path, tail, params)
  BY DEF Moved, Source
<1> HIDE DEF params, r
<1>3. r.kind = s.kind
  BY <1>2 DEF Source
<1>4. /\ s.kind \in {"file"} \union Kinds /\ s.place \in Seq(STRING)
  BY DEF Entire
<1>5. Entire(Source(s.kind, s.place, path, tail, params))
  BY <1>1, <1>4, MadeWhole
<1>6. Entire(r) /\ r.kind = s.kind
  BY <1>2, <1>3, <1>5
<1> QED BY <1>6 DEF r

(* The neighbour of a source has all its parts.                            *)
LEMMA BesideWhole ==
  ASSUME NEW s, Entire(s), NEW t \in References, Beside(s, t) # NotOne
  PROVE  Entire(Beside(s, t)) /\ Beside(s, t).kind = s.kind
<1>0. /\ t.segs \in Seq(STRING) /\ t.segs # <<>> /\ t.query \in Seq(Pairs)
      /\ s.path \in Seq(STRING) /\ (IsRemote(s) => s.path # <<>>) /\ s.tail \in Seq(Pairs)
  BY ReferenceParts DEF Entire
<1>1. CASE s.kind = "file"
  <2>1. Normalize(Front(s.path) \o t.segs) \in Seq(STRING)
    <3>1. Front(s.path) \o t.segs \in Seq(STRING)
      BY <1>0, Parted
    <3> QED BY <3>1, NormalizeNames
  <2>2. Beside(s, t) = Moved(s, Normalize(Front(s.path) \o t.segs), t.query)
    BY <1>1 DEF Beside
  <2>3. ~IsRemote(s)
    BY <1>1, Zenon DEF IsRemote
  <2> QED BY <1>0, <2>1, <2>2, <2>3, MovedWhole
<1>2. CASE s.kind \in {"http", "https"}
  <2>1. IsRemote(s)
    BY <1>2 DEF IsRemote
  <2>2. JoinUrl(s.path, t.segs) \in Seq(STRING) /\ JoinUrl(s.path, t.segs) # <<>>
    BY <1>0, <2>1, JoinUrlNames
  <2>3. Beside(s, t) = Moved(s, JoinUrl(s.path, t.segs), t.query)
    BY <1>2 DEF Beside
  <2> QED BY <1>0, <2>2, <2>3, MovedWhole
<1>3. CASE s.kind = "appconfig"
  <2>1. Beside(s, t) = Moved(s, t.segs, t.query)
    BY <1>3 DEF Beside
  <2> QED BY <1>0, <2>1, MovedWhole
<1>4. CASE s.kind = "dynamodb"
  <2>1. Beside(s, t) = Moved(s, t.segs, s.tail)
    BY <1>4 DEF Beside
  <2> QED BY <1>0, <2>1, MovedWhole
<1>5. CASE s.kind = "cosmos"
  <2>1. Beside(s, t) = [Moved(s, t.segs, s.tail) EXCEPT !.params[1] = <<>>]
    BY <1>5 DEF Beside
  <2> QED BY <1>0, <2>1, ItemMoved
<1>6. CASE s.kind \notin {"file", "http", "https", "appconfig", "dynamodb", "cosmos"}
  <2>1. IsRemote(s)
    BY <1>6 DEF IsRemote
  <2>2. \A seg \in STRING : OrNone(STRING, seg)
    BY DEF OrNone
  <2>3. JoinKey(s.path, t.segs) \in Seq(STRING)
    BY <1>0, <2>1, <2>2, JoinKeyNames
  <2>4. Beside(s, t) = Moved(s, JoinKey(s.path, t.segs), t.query) /\ JoinKey(s.path, t.segs) # <<>>
    BY <1>6 DEF Beside
  <2> QED BY <1>0, <2>3, <2>4, MovedWhole
<1> QED BY <1>1, <1>2, <1>3, <1>4, <1>5, <1>6

LEMMA ParamsCount ==
  ASSUME NEW kind
  PROVE  \E n \in 0 .. 2 : DOMAIN ParamsOf(kind) = 1 .. n
<1>1. CASE kind \notin DOMAIN Params
  <2>1. ParamsOf(kind) = <<>>
    BY <1>1 DEF ParamsOf
  <2> QED BY <2>1
<1>2. CASE kind \in DOMAIN Params
  <2>1. kind \in {"azappconfig", "dynamodb", "firestore", "cosmos"}
    BY <1>2 DEF Params
  <2>2. CASE kind = "azappconfig"
    <3>1. ParamsOf(kind) = <<"label">>
      BY <1>2, <2>2 DEF Params, ParamsOf
    <3>2. DOMAIN ParamsOf(kind) = 1 .. 1
      BY <3>1
    <3> QED BY <3>2
  <2>3. CASE kind = "dynamodb"
    <3>1. ParamsOf(kind) = <<"key", "value">>
      BY <1>2, <2>3 DEF Params, ParamsOf
    <3>2. DOMAIN ParamsOf(kind) = 1 .. 2
      BY <3>1
    <3> QED BY <3>2
  <2>4. CASE kind = "firestore"
    <3>1. ParamsOf(kind) = <<"database", "field">>
      BY <1>2, <2>4 DEF Params, ParamsOf
    <3>2. DOMAIN ParamsOf(kind) = 1 .. 2
      BY <3>1
    <3> QED BY <3>2
  <2>5. CASE kind = "cosmos"
    <3>1. ParamsOf(kind) = <<"pk", "field">>
      BY <1>2, <2>5 DEF Params, ParamsOf
    <3>2. DOMAIN ParamsOf(kind) = 1 .. 2
      BY <3>1
    <3> QED BY <3>2
  <2> QED BY <2>1, <2>2, <2>3, <2>4, <2>5
<1> QED BY <1>1, <1>2

LEMMA ValueRead ==
  ASSUME NEW query \in Seq(Pairs), NEW name
  PROVE  ValueOf(query, name) \in Seq(STRING)
<1>1. CASE \E i \in DOMAIN query : query[i].name = name
  <2>1. PICK p \in Range(query) : p.name = name
    BY <1>1 DEF Range
  <2> DEFINE q == CHOOSE x \in Range(query) : x.name = name
  <2>2. q \in Range(query)
    BY <2>1
  <2> HIDE DEF q
  <2>3. q \in Pairs
    BY <2>2 DEF Range
  <2>4. q.value \in Seq(STRING)
    BY <2>3 DEF Pairs
  <2> QED BY <1>1, <2>4 DEF ValueOf, q
<1>2. CASE ~\E i \in DOMAIN query : query[i].name = name
  BY <1>2 DEF ValueOf
<1> QED BY <1>1, <1>2

LEMMA ParamsRead ==
  ASSUME NEW query \in Seq(Pairs), NEW kind
  PROVE  ParamsIn(query, kind) \in Seq(Seq(STRING))
<1> DEFINE value(i) == ValueOf(query, ParamsOf(kind)[i])
<1>1. PICK n \in 0 .. 2 : DOMAIN ParamsOf(kind) = 1 .. n
  BY ParamsCount
<1>2. \A i \in 1 .. n : value(i) \in Seq(STRING)
  BY ValueRead
<1>3. ParamsIn(query, kind) = [i \in 1 .. n |-> value(i)]
  BY <1>1 DEF ParamsIn
<1> HIDE DEF value
<1>4. [i \in 1 .. n |-> value(i)] \in Seq(Seq(STRING))
  BY <1>2
<1> QED BY <1>3, <1>4

LEMMA PlaceFits ==
  ASSUME NEW kind, NEW segs \in Seq(STRING), segs # <<>>, NEW query, GoodShape(kind, segs, query)
  PROVE  PlaceLen(kind) \in 0 .. 3 /\ PlaceLen(kind) < Len(segs) /\ kind \in Kinds
<1> DEFINE L == Len(segs)
<1>1. kind \in {"http", "https"} \union DOMAIN CloudOf /\ kind \in Kinds
  BY DEF GoodShape, Kinds, CloudOf
<1>2. L \in Nat /\ L > 0
  OBVIOUS
<1>3. kind \in {"s3", "gs", "az", "azappconfig", "firestore"} => L > 1 /\ PlaceLen(kind) = 1
  BY DEF GoodShape, PlaceLen
<1>4. kind = "dynamodb" => L = 2 /\ PlaceLen(kind) = 1
  BY DEF GoodShape, PlaceLen
<1>5. kind = "appconfig" => L = 3 /\ PlaceLen(kind) = 2
  BY DEF GoodShape, PlaceLen
<1>6. kind = "cosmos" => L = 4 /\ PlaceLen(kind) = 3
  BY DEF GoodShape, PlaceLen
<1>7. kind \in {"http", "https"} => PlaceLen(kind) = 0
  BY DEF PlaceLen
<1>8. kind \in {"http", "https", "s3", "gs", "az", "azappconfig", "firestore", "dynamodb",
                "appconfig", "cosmos"}
  BY <1>1 DEF CloudOf
<1> HIDE DEF L
<1>9. PlaceLen(kind) \in 0 .. 3 /\ PlaceLen(kind) < L
  BY <1>2, <1>3, <1>4, <1>5, <1>6, <1>7, <1>8
<1> QED BY <1>1, <1>9 DEF L

(* What is parsed has all its parts.                                       *)
LEMMA ParseWhole ==
  ASSUME NEW t \in References, Parse(t) # NotOne
  PROVE  Entire(Parse(t))
<1>0. t.segs \in Seq(STRING) /\ t.segs # <<>> /\ t.query \in Seq(Pairs)
  BY ReferenceParts
<1>1. CASE t.scheme = ""
  <2>1. Parse(t) = Source("file", <<>>, t.segs, t.query, <<>>)
    BY <1>1 DEF Parse
  <2>2. <<>> \in Seq(STRING) /\ <<>> \in Seq(Seq(STRING)) /\ "file" \in {"file"} \union Kinds
    OBVIOUS
  <2> QED BY <1>0, <2>1, <2>2, MadeWhole
<1>2. CASE t.scheme # ""
  <2> DEFINE n == PlaceLen(t.scheme)
             tail == IF ParamsOf(t.scheme) # <<>> THEN <<>> ELSE t.query
             place == SubSeq(t.segs, 1, n)
             path == SubSeq(t.segs, n + 1, Len(t.segs))
             params == ParamsIn(t.query, t.scheme)
  <2>1. GoodShape(t.scheme, t.segs, t.query)
    BY <1>2 DEF Parse
  <2>2. Parse(t) = Source(t.scheme, place, path, tail, params)
    BY <1>2, <2>1 DEF Parse
  <2>3. n \in 0 .. 3 /\ n < Len(t.segs) /\ t.scheme \in {"file"} \union Kinds
    BY <1>0, <2>1, PlaceFits
  <2>4. tail \in Seq(Pairs)
    BY <1>0
  <2>5. params \in Seq(Seq(STRING))
    BY <1>0, ParamsRead
  <2>6. place \in Seq(STRING) /\ path \in Seq(STRING) /\ path # <<>>
    <3> HIDE DEF n
    <3>1. ASSUME NEW A, NEW q \in Seq(A), NEW m \in 0 .. 3, m < Len(q)
          PROVE  /\ SubSeq(q, 1, m) \in Seq(A) /\ SubSeq(q, m + 1, Len(q)) \in Seq(A)
                 /\ SubSeq(q, m + 1, Len(q)) # <<>>
      <4>1. SubSeq(q, 1, m) \in Seq(A) /\ SubSeq(q, m + 1, Len(q)) \in Seq(A)
        BY <3>1
      <4>2. Len(SubSeq(q, m + 1, Len(q))) = Len(q) - m
        BY <3>1
      <4>3. Len(SubSeq(q, m + 1, Len(q))) > 0
        BY <3>1, <4>2
      <4>4. ASSUME NEW p \in Seq(A), Len(p) > 0
            PROVE  p # <<>>
        BY <4>4
      <4> QED BY <4>1, <4>3, <4>4
    <3> QED BY <1>0, <2>3, <3>1
  <2> HIDE DEF tail, place, path, params
  <2> QED BY <2>2, <2>3, <2>4, <2>5, <2>6, MadeWhole
<1> QED BY <1>1, <1>2

(* What the parts of a source of each kind keep to.                        *)
Filled(q) == \A i \in DOMAIN q : q[i] # ""
Shaped(s) ==
  IsRemote(s) =>
    /\ Len(s.place) = PlaceLen(s.kind) /\ DOMAIN s.params = DOMAIN ParamsOf(s.kind)
    /\ s.kind \in {"s3", "gs", "az", "azappconfig"} => s.place[1] # ""
    /\ s.kind \in {"appconfig", "dynamodb", "cosmos"} =>
         Filled(s.place) /\ Filled(s.path) /\ Len(s.path) = 1
    /\ s.kind = "firestore" => Filled(s.place) /\ Filled(s.path) /\ Len(s.path) % 2 = 0
    /\ s.kind = "http" => s.path[1] \in Loopback

LEMMA Split ==
  ASSUME NEW A, NEW q \in Seq(A), NEW m \in 0 .. 3, m < Len(q)
  PROVE  /\ SubSeq(q, 1, m) \in Seq(A) /\ Len(SubSeq(q, 1, m)) = m
         /\ DOMAIN SubSeq(q, 1, m) = 1 .. m
         /\ \A i \in 1 .. m : SubSeq(q, 1, m)[i] = q[i] /\ i \in DOMAIN q
         /\ SubSeq(q, m + 1, Len(q)) \in Seq(A) /\ Len(SubSeq(q, m + 1, Len(q))) = Len(q) - m
         /\ DOMAIN SubSeq(q, m + 1, Len(q)) = 1 .. Len(q) - m
         /\ \A i \in 1 .. Len(q) - m : SubSeq(q, m + 1, Len(q))[i] = q[m + i] /\ m + i \in DOMAIN q
  OBVIOUS

(* What is parsed keeps to the parts of its kind (GoodShape).              *)
LEMMA ParseShaped ==
  ASSUME NEW t \in References, Parse(t) # NotOne
  PROVE  Shaped(Parse(t))
<1>0. t.segs \in Seq(STRING) /\ t.segs # <<>> /\ t.query \in Seq(Pairs)
  BY ReferenceParts
<1>1. CASE t.scheme = ""
  <2>1. Parse(t).kind = "file"
    BY <1>1 DEF Parse, Source
  <2> QED BY <2>1 DEF Shaped, IsRemote
<1>2. CASE t.scheme # ""
  <2> DEFINE kind == t.scheme
             segs == t.segs
             n == PlaceLen(kind)
             tail == IF ParamsOf(kind) # <<>> THEN <<>> ELSE t.query
             place == SubSeq(segs, 1, n)
             path == SubSeq(segs, n + 1, Len(segs))
             params == ParamsIn(t.query, kind)
  <2>1. GoodShape(kind, segs, t.query)
    BY <1>2 DEF Parse
  <2>2. Parse(t) = Source(kind, place, path, tail, params)
    BY <1>2, <2>1 DEF Parse
  <2>3. n \in 0 .. 3 /\ n < Len(segs) /\ kind \in Kinds
    BY <1>0, <2>1, PlaceFits
  <2>4. DOMAIN params = DOMAIN ParamsOf(kind)
    BY DEF ParamsIn
  <2>5. /\ Len(place) = n /\ DOMAIN place = 1 .. n
        /\ \A i \in 1 .. n : place[i] = segs[i] /\ i \in DOMAIN segs
        /\ Len(path) = Len(segs) - n /\ DOMAIN path = 1 .. Len(segs) - n
        /\ \A i \in 1 .. Len(segs) - n : path[i] = segs[n + i] /\ n + i \in DOMAIN segs
    <3> HIDE DEF n, segs
    <3>1. segs \in Seq(STRING)
      BY <1>0 DEF segs
    <3>2. n \in 0 .. 3 /\ n < Len(segs)
      BY <2>3
    <3>3. ASSUME NEW q \in Seq(STRING), NEW m \in 0 .. 3, m < Len(q)
          PROVE  /\ Len(SubSeq(q, 1, m)) = m /\ DOMAIN SubSeq(q, 1, m) = 1 .. m
                 /\ \A i \in 1 .. m : SubSeq(q, 1, m)[i] = q[i] /\ i \in DOMAIN q
                 /\ Len(SubSeq(q, m + 1, Len(q))) = Len(q) - m
                 /\ DOMAIN SubSeq(q, m + 1, Len(q)) = 1 .. Len(q) - m
                 /\ \A i \in 1 .. Len(q) - m :
                      SubSeq(q, m + 1, Len(q))[i] = q[m + i] /\ m + i \in DOMAIN q
      BY <3>3, Split
    <3> QED BY <3>1, <3>2, <3>3
  <2> HIDE DEF place, path, params, tail
  <2>6. kind \in {"s3", "gs", "az", "azappconfig"} => n = 1 /\ segs[1] # ""
    BY <2>1 DEF GoodShape, PlaceLen
  <2>7. kind \in {"appconfig", "dynamodb", "cosmos"} =>
          (\A i \in DOMAIN segs : segs[i] # "") /\ Len(segs) - n = 1
    <3>1. ASSUME kind = "appconfig"
          PROVE  (\A i \in DOMAIN segs : segs[i] # "") /\ Len(segs) - n = 1
      <4>1. (\A i \in DOMAIN segs : segs[i] # "") /\ Len(segs) = 3 /\ n = 2
        BY <2>1, <3>1 DEF GoodShape, PlaceLen
      <4>2. 3 - 2 = 1
        OBVIOUS
      <4> HIDE DEF segs, n
      <4> QED BY <4>1, <4>2
    <3>2. ASSUME kind = "dynamodb"
          PROVE  (\A i \in DOMAIN segs : segs[i] # "") /\ Len(segs) - n = 1
      <4>1. (\A i \in DOMAIN segs : segs[i] # "") /\ Len(segs) = 2 /\ n = 1
        BY <2>1, <3>2 DEF GoodShape, PlaceLen
      <4>2. 2 - 1 = 1
        OBVIOUS
      <4> HIDE DEF segs, n
      <4> QED BY <4>1, <4>2
    <3>3. ASSUME kind = "cosmos"
          PROVE  (\A i \in DOMAIN segs : segs[i] # "") /\ Len(segs) - n = 1
      <4>1. (\A i \in DOMAIN segs : segs[i] # "") /\ Len(segs) = 4 /\ n = 3
        BY <2>1, <3>3 DEF GoodShape, PlaceLen
      <4>2. 4 - 3 = 1
        OBVIOUS
      <4> HIDE DEF segs, n
      <4> QED BY <4>1, <4>2
    <3> HIDE DEF kind, segs, n
    <3> QED BY <3>1, <3>2, <3>3, Zenon
  <2>8. kind = "firestore" =>
          (\A i \in DOMAIN segs : segs[i] # "") /\ n = 1 /\ Len(segs) % 2 = 1
    BY <2>1 DEF GoodShape, PlaceLen
  <2>9. kind = "http" => n = 0 /\ segs[1] \in Loopback
    BY <2>1 DEF GoodShape, PlaceLen
  <2> HIDE DEF n
  <2>10. kind \in {"s3", "gs", "az", "azappconfig"} => place[1] # ""
    <3>1. n = 1 => place[1] = segs[1]
      BY <2>5
    <3> QED BY <2>6, <3>1
  <2>11. (\A i \in DOMAIN segs : segs[i] # "") => Filled(place) /\ Filled(path)
    BY <2>5 DEF Filled
  <2>12. kind = "firestore" => Len(path) % 2 = 0
    <3>1. ASSUME NEW k \in Nat, k % 2 = 1
          PROVE  (k - 1) % 2 = 0
      BY <3>1
    <3>2. Len(segs) \in Nat
      BY <1>0
    <3> QED BY <2>5, <2>8, <3>1, <3>2
  <2>13. kind = "http" => path[1] \in Loopback
    BY <2>3, <2>5, <2>9
  <2>14. /\ Parse(t).kind = kind /\ Parse(t).place = place /\ Parse(t).path = path
         /\ Parse(t).params = params
    BY <2>2 DEF Source
  <2>15. Len(path) = Len(segs) - n /\ Len(place) = n
    BY <2>5
  <2> QED BY <2>4, <2>7, <2>8, <2>10, <2>11, <2>12, <2>13, <2>14, <2>15 DEF Shaped, n
<1> QED BY <1>1, <1>2

LEMMA MovedShaped ==
  ASSUME NEW s, Shaped(s), IsRemote(s), NEW path, NEW tail,
         s.kind \in {"appconfig", "dynamodb", "cosmos"} => Filled(path) /\ Len(path) = 1,
         s.kind = "firestore" => Filled(path) /\ Len(path) % 2 = 0,
         s.kind = "http" => path[1] \in Loopback
  PROVE  Shaped(Moved(s, path, tail))
<1> DEFINE r == Moved(s, path, tail)
<1>1. r.kind = s.kind /\ r.place = s.place /\ r.path = path /\ r.params = s.params
  BY DEF Moved, Source
<1> HIDE DEF r
<1>2. Shaped(r)
  BY <1>1 DEF Shaped
<1> QED BY <1>2 DEF r

LEMMA ItemShaped ==
  ASSUME NEW s, Shaped(s), s.kind = "cosmos", NEW path, NEW tail, Filled(path), Len(path) = 1
  PROVE  Shaped([Moved(s, path, tail) EXCEPT !.params[1] = <<>>])
<1> DEFINE r == [Moved(s, path, tail) EXCEPT !.params[1] = <<>>]
           params == [s.params EXCEPT ![1] = <<>>]
<1>1. r.kind = s.kind /\ r.place = s.place /\ r.path = path /\ r.params = params
  BY DEF Moved, Source
<1>2. DOMAIN params = DOMAIN s.params
  OBVIOUS
<1>3. IsRemote(s)
  BY DEF IsRemote
<1> HIDE DEF r, params
<1>4. Shaped(r)
  BY <1>1, <1>2, <1>3 DEF Shaped
<1> QED BY <1>4 DEF r

LEMMA JoinKeyFilled ==
  ASSUME NEW path \in Seq(STRING), path # <<>>, Filled(path), NEW segs \in Seq(STRING)
  PROVE  Filled(JoinKey(path, segs))
<1> DEFINE A == STRING \ {""}
<1>1. path \in Seq(A)
  <2>1. \A i \in DOMAIN path : path[i] \in A
    <3>1. \A i \in DOMAIN path : path[i] # ""
      BY DEF Filled
    <3>2. ASSUME NEW B, NEW q \in Seq(B)
          PROVE  \A i \in DOMAIN q : q[i] \in B
      OBVIOUS
    <3>3. \A i \in DOMAIN path : path[i] \in STRING
      BY <3>2
    <3> QED BY <3>1, <3>3
  <2>2. ASSUME NEW B, NEW C, NEW q \in Seq(B), \A i \in DOMAIN q : q[i] \in C
        PROVE  q \in Seq(C)
    BY <2>2
  <2> HIDE DEF A
  <2> QED BY <2>1, <2>2
<1>2. \A seg \in STRING : OrNone(A, seg)
  BY DEF OrNone
<1> HIDE DEF A
<1>3. JoinKey(path, segs) \in Seq(A)
  BY <1>1, <1>2, JoinKeyNames
<1>4. \A i \in DOMAIN JoinKey(path, segs) : JoinKey(path, segs)[i] \in A
  BY <1>3
<1> QED BY <1>4 DEF A, Filled

LEMMA FlatFilled ==
  ASSUME NEW t \in References, IsFlat(t)
  PROVE  Filled(t.segs) /\ Len(t.segs) = 1
<1>1. t.segs \in Seq(STRING) /\ Len(t.segs) = 1 /\ t.segs # <<"">>
  BY ReferenceParts DEF IsFlat
<1>2. t.segs = <<t.segs[1]>> /\ DOMAIN t.segs = {1}
  <2>1. ASSUME NEW A, NEW q \in Seq(A), Len(q) = 1
        PROVE  q = <<q[1]>> /\ DOMAIN q = {1}
    BY <2>1
  <2> QED BY <1>1, <2>1
<1>3. t.segs[1] # ""
  BY <1>1, <1>2
<1> QED BY <1>1, <1>2, <1>3 DEF Filled

(* A relative URL stays on its host.                                       *)
LEMMA JoinUrlHost ==
  ASSUME NEW path \in Seq(STRING), path # <<>>, NEW segs \in Seq(STRING)
  PROVE  JoinUrl(path, segs)[1] = path[1]
<1>1. CASE segs = <<"">>
  BY <1>1 DEF JoinUrl
<1>2. CASE segs # <<"">>
  <2> DEFINE within == SubSeq(path, 2, Len(path) - 1) \o segs
             rest == Folded(<<>>, within)
  <2>1. within \in Seq(STRING) /\ <<Head(path)>> \in Seq(STRING)
    BY Parted
  <2>2. <<>> \in Seq(STRING)
    OBVIOUS
  <2>3. rest \in Seq(STRING)
    <3> HIDE DEF within
    <3> QED BY <2>1, <2>2, FoldedNames
  <2>4. JoinUrl(path, segs) = <<Head(path)>> \o rest
    BY <1>2 DEF JoinUrl
  <2> HIDE DEF within, rest
  <2>5. ASSUME NEW A, NEW a, <<a>> \in Seq(A), NEW r \in Seq(A)
        PROVE  (<<a>> \o r)[1] = a
    BY <2>5
  <2>6. Head(path) = path[1]
    OBVIOUS
  <2> QED BY <2>1, <2>3, <2>4, <2>5, <2>6
<1> QED BY <1>1, <1>2

(* The neighbour of a source keeps to the parts of the kind.               *)
LEMMA BesideShaped ==
  ASSUME NEW s, Entire(s), Shaped(s), NEW t \in References, Beside(s, t) # NotOne
  PROVE  Shaped(Beside(s, t))
<1>0. /\ t.segs \in Seq(STRING) /\ s.path \in Seq(STRING) /\ (IsRemote(s) => s.path # <<>>)
  BY ReferenceParts DEF Entire
<1>1. CASE s.kind = "file"
  <2>1. ~IsRemote(Beside(s, t))
    BY <1>1, BesideWhole DEF IsRemote
  <2> QED BY <2>1 DEF Shaped
<1>2. CASE s.kind \in {"http", "https"}
  <2>1. IsRemote(s)
    BY <1>2 DEF IsRemote
  <2>2. Beside(s, t) = Moved(s, JoinUrl(s.path, t.segs), t.query)
    BY <1>2 DEF Beside
  <2>3. s.kind = "http" => JoinUrl(s.path, t.segs)[1] \in Loopback
    <3>1. JoinUrl(s.path, t.segs)[1] = s.path[1]
      BY <1>0, <2>1, JoinUrlHost
    <3> QED BY <2>1, <3>1 DEF Shaped
  <2>4. s.kind \notin {"appconfig", "dynamodb", "cosmos", "firestore"}
    BY <1>2

  <2> QED BY <2>1, <2>2, <2>3, <2>4, MovedShaped
<1>3. CASE s.kind = "appconfig"
  <2>1. Beside(s, t) = Moved(s, t.segs, t.query) /\ IsFlat(t)
    BY <1>3 DEF Beside
  <2>2. IsRemote(s) /\ s.kind # "firestore" /\ s.kind # "http"
    BY <1>3 DEF IsRemote
  <2> QED BY <2>1, <2>2, FlatFilled, MovedShaped
<1>4. CASE s.kind = "dynamodb"
  <2>1. Beside(s, t) = Moved(s, t.segs, s.tail) /\ IsFlat(t)
    BY <1>4 DEF Beside
  <2>2. IsRemote(s) /\ s.kind # "firestore" /\ s.kind # "http"
    BY <1>4 DEF IsRemote
  <2> QED BY <2>1, <2>2, FlatFilled, MovedShaped
<1>5. CASE s.kind = "cosmos"
  <2>1. Beside(s, t) = [Moved(s, t.segs, s.tail) EXCEPT !.params[1] = <<>>] /\ IsFlat(t)
    BY <1>5 DEF Beside
  <2>2. Filled(t.segs) /\ Len(t.segs) = 1
    BY <2>1, FlatFilled
  <2> QED BY <1>5, <2>1, <2>2, ItemShaped
<1>6. CASE s.kind \notin {"file", "http", "https", "appconfig", "dynamodb", "cosmos"}
  <2> DEFINE path == JoinKey(s.path, t.segs)
  <2>1. IsRemote(s) /\ s.kind \notin {"http", "appconfig", "dynamodb", "cosmos"}
    BY <1>6 DEF IsRemote
  <2>2. /\ Beside(s, t) = Moved(s, path, t.query)
        /\ s.kind = "firestore" => Len(path) % 2 # 1
    BY <1>6 DEF Beside
  <2>3. s.kind = "firestore" => Filled(path)
    BY <1>0, <2>1, JoinKeyFilled DEF Shaped
  <2>4. s.kind = "firestore" => Len(path) % 2 = 0
    <3>1. \A seg \in STRING : OrNone(STRING, seg)
      BY DEF OrNone
    <3>2. path \in Seq(STRING)
      BY <1>0, <2>1, <3>1, JoinKeyNames
    <3>3. Len(path) \in Nat
      BY <3>2
    <3>4. ASSUME NEW k \in Nat, k % 2 # 1
          PROVE  k % 2 = 0
      BY <3>4
    <3> HIDE DEF path
    <3> QED BY <2>2, <3>3, <3>4
  <2> HIDE DEF path
  <2> QED BY <2>1, <2>2, <2>3, <2>4, MovedShaped
<1> QED BY <1>1, <1>2, <1>3, <1>4, <1>5, <1>6

(* Whatever an entry names is a source with all its parts.                 *)
LEMMA JoinWhole ==
  ASSUME NEW s, Entire(s), Shaped(s), NEW t \in References, Join(s, t) # NotOne
  PROVE  /\ Entire(Join(s, t)) /\ Shaped(Join(s, t))
         /\ IsRemote(s) => IsRemote(Join(s, t))
<1> DEFINE joined == IF IsAbsolute(t) THEN Parse(t) ELSE Beside(s, t)
<1>1. joined # NotOne /\ Join(s, t) = joined /\ (IsRemote(s) => IsRemote(joined))
  BY DEF Join
<1>2. Entire(joined) /\ Shaped(joined)
  BY <1>1, ParseWhole, ParseShaped, BesideWhole, BesideShaped
<1> HIDE DEF joined
<1> QED BY <1>1, <1>2

-----------------------------------------------------------------------------
(* The walk.                                                               *)

Sourced == {s \in Named : Entire(s) /\ Shaped(s)}
Frames == [source : Sourced, left : Seq(References)]

(* A file of a world, what it extends, and the texts of its parents.       *)
In(w, s) ==
  /\ s # NotOne /\ Opened(s) \in DOMAIN w.files
  /\ WellFormed(w.files[Opened(s)])
Ext(w, s) == w.files[Opened(s)].extends
ParentTexts(w, s) == [n \in DOMAIN Ext(w, s) |-> Display(Join(s, Ext(w, s)[n]))]

(* Of a list some entries are left, and the texts of the others are done.  *)
Consumed(left, list, texts, done) ==
  /\ Len(left) <= Len(list)
  /\ \A m \in 1 .. Len(left) : left[m] = list[Len(list) - Len(left) + m]
  /\ \A n \in 1 .. Len(list) - Len(left) : texts[n] \in done

(* The text of the file that stands on a place of the stack, if one does.  *)
Above(frames, i) == {Display(frames[j].source) : j \in {i} \intersect DOMAIN frames}

WalkTypes ==
  /\ world \in Worlds
  /\ todo \in Seq(Sourced) /\ stack \in Seq(Frames) /\ order \in Seq(Sourced)
  /\ \A i \in DOMAIN order : In(world, order[i])
  /\ \A i \in DOMAIN stack : In(world, stack[i].source) /\ Supported(stack[i].source, world.clouds)
  /\ walk.end \in {"running", "done", "failed"}
  /\ walk.end = "done" => stack = <<>> /\ todo = <<>>

Once ==
  /\ seen = {Display(order[i]) : i \in DOMAIN order}
  /\ IsFiniteSet(seen) /\ Cardinality(seen) = Len(order)
  /\ \A i, j \in DOMAIN order : Display(order[i]) = Display(order[j]) => i = j
  /\ \A i, j \in DOMAIN stack : Display(stack[i].source) = Display(stack[j].source) => i = j
  /\ \A i \in DOMAIN stack : Display(stack[i].source) \notin seen

Within ==
  /\ Len(stack) <= MaxDepth
  /\ Len(order) + Len(stack) <= MaxFiles + MaxDepth - 1

Behind ==
  /\ \A i \in DOMAIN stack :
       Consumed(stack[i].left, Ext(world, stack[i].source), ParentTexts(world, stack[i].source),
                seen \union Above(stack, i + 1))
  /\ Consumed(todo, RootsOf(world), [n \in DOMAIN RootsOf(world) |-> Display(RootsOf(world)[n])],
              seen \union Above(stack, 1))
  /\ \A i \in DOMAIN order : \A n \in DOMAIN Ext(world, order[i]) :
       \E j \in 1 .. i - 1 : Display(order[j]) = ParentTexts(world, order[i])[n]

WalkInv == WalkTypes /\ Once /\ Within /\ Behind /\ RemoteStaysRemote

LEMMA BuildEnds ==
  ASSUME NEW file, NEW on
  PROVE  Build(file, on) \in {"text", "fatal", "soft", "ok"}
  BY DEF Build, Resolve, Ok

(* What the checks of visit say of a file that is loaded, and of one that  *)
(* is skipped.                                                             *)
LEMMA VerdictOk ==
  ASSUME NEW s, Verdict(s) = Ok
  PROVE  /\ s # NotOne /\ ~OnStack(s) /\ Display(s) \notin seen
         /\ ~(Len(stack) >= MaxDepth) /\ ~(Cardinality(seen) >= MaxFiles)
         /\ Supported(s, world.clouds) /\ In(world, s)
<1>1. /\ s # NotOne /\ ~OnStack(s) /\ Display(s) \notin seen
      /\ ~(Len(stack) >= MaxDepth) /\ ~(Cardinality(seen) >= MaxFiles)
      /\ Supported(s, world.clouds) /\ Outcome(s) = Ok
  BY DEF Verdict, Ok
<1>2. Exists(s) /\ Build(Holds(s), world) = Ok
  BY <1>1 DEF Outcome, Ok
<1>3. WellFormed(Holds(s))
  BY <1>2 DEF Build, Ok
<1> QED BY <1>1, <1>2, <1>3 DEF Exists, In, Holds

LEMMA VerdictSkip ==
  ASSUME NEW s, Verdict(s) = "skip"
  PROVE  s # NotOne /\ ~OnStack(s) /\ Display(s) \in seen
<1>1. Outcome(s) # "skip"
  BY BuildEnds DEF Outcome
<1> QED BY <1>1 DEF Verdict

LEMMA SourcedWhole ==
  ASSUME NEW s, Entire(s), Shaped(s)
  PROVE  s \in Sourced
<1>1. s \in Named
  BY DEF Entire, Named, Source
<1> QED BY <1>1 DEF Sourced

LEMMA RootsSourced ==
  ASSUME NEW w \in Worlds
  PROVE  RootsOf(w) \in Seq(Sourced)
<1>1. w.roots \in Seq({t \in References : Parse(t) # NotOne})
  BY ChainAssumption
<1>2. ASSUME NEW n \in DOMAIN w.roots
      PROVE  Parse(w.roots[n]) \in Sourced
  <2> DEFINE t == w.roots[n]
  <2>1. t \in References /\ Parse(t) # NotOne
    BY <1>1
  <2> HIDE DEF t
  <2>2. Parse(t) \in Sourced
    BY <2>1, ParseWhole, ParseShaped, SourcedWhole
  <2> QED BY <2>2 DEF t
<1>3. ASSUME NEW A, NEW q \in Seq(A), NEW B, NEW f, f = [n \in DOMAIN q |-> f[n]],
             \A n \in DOMAIN q : f[n] \in B
      PROVE  f \in Seq(B)
  <2>1. Len(q) \in Nat /\ DOMAIN q = 1 .. Len(q)
    OBVIOUS
  <2>2. f \in [1 .. Len(q) -> B]
    BY <1>3, <2>1
  <2> QED BY <2>1, <2>2
<1> DEFINE f == RootsOf(w)
<1>4. f = [n \in DOMAIN w.roots |-> f[n]] /\ \A n \in DOMAIN w.roots : f[n] \in Sourced
  BY <1>2 DEF RootsOf
<1> HIDE DEF f
<1>5. f \in Seq(Sourced)
  BY <1>1, <1>3, <1>4
<1> QED BY <1>5 DEF f

LEMMA ExtReferences ==
  ASSUME NEW w \in Worlds, NEW s, In(w, s)
  PROVE  Ext(w, s) \in Seq(References)
  BY ChainAssumption DEF In, Ext

-----------------------------------------------------------------------------

(* A list is consumed entry by entry, against more and more that is done.  *)
LEMMA ConsumedMore ==
  ASSUME NEW left, NEW list, NEW texts, NEW done, NEW more,
         Consumed(left, list, texts, done), done \subseteq more
  PROVE  Consumed(left, list, texts, more)
  BY DEF Consumed

LEMMA ConsumedNone ==
  ASSUME NEW X, NEW list \in Seq(X), NEW texts, NEW done
  PROVE  Consumed(list, list, texts, done)
  BY DEF Consumed

LEMMA ConsumedAll ==
  ASSUME NEW X, NEW list \in Seq(X), NEW texts, NEW done, Consumed(<<>>, list, texts, done)
  PROVE  \A n \in DOMAIN list : texts[n] \in done
  BY DEF Consumed

LEMMA ConsumedNext ==
  ASSUME NEW X, NEW list \in Seq(X), NEW left \in Seq(X), left # <<>>, NEW texts,
         NEW done, Consumed(left, list, texts, done)
  PROVE  \E k \in DOMAIN list :
           /\ list[k] = Head(left)
           /\ Consumed(Tail(left), list, texts, done \union {texts[k]})
<1> DEFINE k == Len(list) - Len(left) + 1
           rest == Tail(left)
<1>1. /\ Len(left) \in Nat /\ Len(list) \in Nat /\ Len(left) > 0 /\ Len(left) <= Len(list)
      /\ \A m \in 1 .. Len(left) : left[m] = list[Len(list) - Len(left) + m]
      /\ \A n \in 1 .. Len(list) - Len(left) : texts[n] \in done
  BY DEF Consumed
<1>2. /\ Len(rest) = Len(left) - 1 /\ Head(left) = left[1]
      /\ \A m \in 1 .. Len(left) - 1 : rest[m] = left[m + 1]
  BY <1>1
<1>3. k \in DOMAIN list /\ list[k] = Head(left)
  BY <1>1, <1>2
<1> HIDE DEF rest
<1>4. \A m \in 1 .. Len(rest) : rest[m] = list[Len(list) - Len(rest) + m]
  <2> SUFFICES ASSUME NEW m \in 1 .. Len(rest)
               PROVE  rest[m] = list[Len(list) - Len(rest) + m]
    OBVIOUS
  <2>1. m + 1 \in 1 .. Len(left) /\ m \in 1 .. Len(left) - 1
    BY <1>1, <1>2
  <2>2. rest[m] = list[Len(list) - Len(left) + (m + 1)]
    BY <1>1, <1>2, <2>1
  <2>3. Len(list) - Len(left) + (m + 1) = Len(list) - Len(rest) + m
    BY <1>1, <1>2
  <2> QED BY <2>2, <2>3
<1>5. \A n \in 1 .. Len(list) - Len(rest) : texts[n] \in done \union {texts[k]}
  <2> SUFFICES ASSUME NEW n \in 1 .. Len(list) - Len(rest)
               PROVE  texts[n] \in done \union {texts[k]}
    OBVIOUS
  <2>0. Len(list) - Len(rest) = k /\ k \in Nat /\ k - 1 = Len(list) - Len(left)
    BY <1>1, <1>2
  <2>1. n \in 1 .. Len(list) - Len(left) \/ n = k
    <3> HIDE DEF k
    <3>1. n \in 1 .. k
      BY <2>0
    <3>2. n \in 1 .. k - 1 \/ n = k
      BY <2>0, <3>1
    <3> QED BY <2>0, <3>2
  <2> QED BY <1>1, <2>1
<1>6. Len(rest) <= Len(list)
  BY <1>1, <1>2
<1>7. Consumed(rest, list, texts, done \union {texts[k]})
  BY <1>4, <1>5, <1>6 DEF Consumed
<1> QED BY <1>3, <1>7 DEF rest

-----------------------------------------------------------------------------
(* What Skip and Enter have in common: the file that comes next is struck  *)
(* from the list that names it.                                            *)

Base == IF stack = <<>> THEN <<>> ELSE Drop(stack)
Rest == IF stack = <<>> THEN Tail(todo) ELSE todo

LEMMA UpcomingWhole ==
  ASSUME WalkTypes, More, Upcoming # NotOne
  PROVE  /\ Upcoming \in Sourced
         /\ stack # <<>> => (IsRemote(Top.source) => IsRemote(Upcoming))
<1>1. CASE stack = <<>>
  <2>1. Upcoming = Head(todo) /\ todo # <<>> /\ todo \in Seq(Sourced)
    BY <1>1 DEF Upcoming, More, WalkTypes
  <2>2. Head(todo) \in Sourced
    BY <2>1, Parted
  <2> QED BY <1>1, <2>1, <2>2
<1>2. CASE stack # <<>>
  <2>1. Top \in Frames
    <3>1. Last(stack) \in Frames
      BY <1>2, Appended DEF WalkTypes
    <3> QED BY <3>1 DEF Top, Last
  <2>2. Top.left # <<>> /\ Upcoming = Join(Top.source, Head(Top.left))
    BY <1>2 DEF More, Upcoming
  <2>3. Entire(Top.source) /\ Shaped(Top.source) /\ Top.left \in Seq(References)
    BY <2>1 DEF Frames, Sourced
  <2>4. Head(Top.left) \in References
    BY <2>2, <2>3, Parted
  <2>5. Entire(Upcoming) /\ Shaped(Upcoming) /\ (IsRemote(Top.source) => IsRemote(Upcoming))
    BY <2>2, <2>3, <2>4, JoinWhole
  <2> QED BY <2>5, SourcedWhole
<1> QED BY <1>1, <1>2

LEMMA BaseFrames ==
  ASSUME WalkTypes, More
  PROVE  /\ Base \in Seq(Frames) /\ Len(Base) = Len(stack) /\ DOMAIN Base = DOMAIN stack
         /\ \A i \in DOMAIN stack : Base[i].source = stack[i].source
         /\ \A i \in DOMAIN stack : i # Len(stack) => Base[i].left = stack[i].left
         /\ stack # <<>> => Base[Len(stack)].left = Tail(stack[Len(stack)].left)
         /\ Rest \in Seq(Sourced)
<1>1. CASE stack = <<>>
  <2>1. Base = <<>> /\ Rest = Tail(todo) /\ todo # <<>> /\ todo \in Seq(Sourced)
    BY <1>1 DEF Base, Rest, More, WalkTypes
  <2>2. Tail(todo) \in Seq(Sourced)
    BY <2>1, Parted
  <2> QED BY <1>1, <2>1, <2>2
<1>2. CASE stack # <<>>
  <2> DEFINE L == Len(stack)
             frame == [stack[L] EXCEPT !.left = Tail(@)]
             base == [stack EXCEPT ![L] = frame]
  <2>1. Base = base /\ Rest = todo /\ todo \in Seq(Sourced) /\ stack \in Seq(Frames)
    BY <1>2 DEF Base, Rest, WalkTypes, Drop
  <2>2. L \in DOMAIN stack /\ stack[L].left # <<>> /\ stack[L] \in Frames
    BY <1>2, <2>1 DEF More, Top
  <2>3. stack[L].left \in Seq(References) /\ Tail(stack[L].left) \in Seq(References)
    <3>1. stack[L].left \in Seq(References)
      BY <2>2 DEF Frames
    <3> QED BY <2>2, <3>1, Parted
  <2>4. /\ frame \in Frames /\ frame.source = stack[L].source
        /\ frame.left = Tail(stack[L].left)
    BY <2>2, <2>3 DEF Frames
  <2> HIDE DEF frame
  <2>5. /\ base \in Seq(Frames) /\ Len(base) = L /\ DOMAIN base = DOMAIN stack
        /\ \A i \in DOMAIN stack : base[i] = IF i = L THEN frame ELSE stack[i]
    BY <2>1, <2>2, <2>4
  <2> HIDE DEF base, L
  <2>6. \A i \in DOMAIN stack : base[i].source = stack[i].source
    BY <2>4, <2>5
  <2>7. \A i \in DOMAIN stack : i # L => base[i].left = stack[i].left
    BY <2>5
  <2>8. base[L].left = Tail(stack[L].left)
    BY <2>2, <2>4, <2>5
  <2> QED BY <2>1, <2>5, <2>6, <2>7, <2>8 DEF L
<1> QED BY <1>1, <1>2

(* The text of what comes next, for the list it is struck from.            *)
Now(i) == IF i = Len(stack) THEN {Display(Upcoming)} ELSE {}

LEMMA BaseBehind ==
  ASSUME WalkTypes, Behind, More
  PROVE  /\ \A i \in DOMAIN stack :
              Consumed(Base[i].left, Ext(world, stack[i].source), ParentTexts(world, stack[i].source),
                       seen \union Above(stack, i + 1) \union Now(i))
         /\ Consumed(Rest, RootsOf(world), [n \in DOMAIN RootsOf(world) |-> Display(RootsOf(world)[n])],
                     seen \union Above(stack, 1) \union Now(0))
<1>1. ASSUME NEW i \in DOMAIN stack
      PROVE  Consumed(Base[i].left, Ext(world, stack[i].source), ParentTexts(world, stack[i].source),
                      seen \union Above(stack, i + 1) \union Now(i))
  <2> DEFINE done == seen \union Above(stack, i + 1)
             list == Ext(world, stack[i].source)
             texts == ParentTexts(world, stack[i].source)
             left == stack[i].left
  <2>1. Consumed(left, list, texts, done)
    BY DEF Behind
  <2>2. CASE i # Len(stack)
    <3>1. Base[i].left = left
      BY <2>2, BaseFrames
    <3>2. done \subseteq done \union Now(i)
      OBVIOUS
    <3> HIDE DEF done, list, texts, left
    <3>3. Consumed(left, list, texts, done \union Now(i))
      BY <2>1, <3>2, ConsumedMore
    <3>4. Consumed(Base[i].left, list, texts, done \union Now(i))
      BY <3>1, <3>3
    <3> QED BY <3>4 DEF done, list, texts
  <2>3. CASE i = Len(stack)
    <3>1. stack # <<>> /\ stack[i] = Top /\ stack[i] \in Frames
      BY <2>3 DEF WalkTypes, Top
    <3>2. Base[i].left = Tail(left) /\ left # <<>> /\ Upcoming = Join(stack[i].source, Head(left))
      BY <2>3, <3>1, BaseFrames DEF More, Upcoming
    <3>3. left \in Seq(References) /\ list \in Seq(References)
      BY <3>1, ExtReferences DEF Frames, WalkTypes
    <3> HIDE DEF done, list, texts, left
    <3>4. PICK k \in DOMAIN list : /\ list[k] = Head(left)
                                   /\ Consumed(Tail(left), list, texts, done \union {texts[k]})
      BY <2>1, <3>2, <3>3, ConsumedNext
    <3>5. texts[k] = Display(Upcoming)
      BY <3>2, <3>4 DEF texts, ParentTexts, list
    <3>6. Consumed(Base[i].left, list, texts, done \union Now(i))
      BY <2>3, <3>2, <3>4, <3>5 DEF Now
    <3> QED BY <3>6 DEF done, list, texts
  <2> QED BY <2>2, <2>3
<1>2. Consumed(Rest, RootsOf(world), [n \in DOMAIN RootsOf(world) |-> Display(RootsOf(world)[n])],
               seen \union Above(stack, 1) \union Now(0))
  <2> DEFINE done == seen \union Above(stack, 1)
             texts == [n \in DOMAIN RootsOf(world) |-> Display(RootsOf(world)[n])]
  <2>1. Consumed(todo, RootsOf(world), texts, done)
    BY DEF Behind
  <2>2. todo \in Seq(Sourced) /\ RootsOf(world) \in Seq(Sourced) /\ stack \in Seq(Frames)
    BY RootsSourced DEF WalkTypes
  <2>3. CASE stack # <<>>
    <3>1. Rest = todo
      BY <2>3 DEF Rest
    <3>2. done \subseteq done \union Now(0)
      OBVIOUS
    <3> HIDE DEF done, texts
    <3>3. Consumed(Rest, RootsOf(world), texts, done \union Now(0))
      BY <2>1, <3>1, <3>2, ConsumedMore
    <3> QED BY <3>3 DEF done, texts
  <2>4. CASE stack = <<>>
    <3>1. Rest = Tail(todo) /\ todo # <<>> /\ Upcoming = Head(todo) /\ Len(stack) = 0
      BY <2>4 DEF Rest, More, Upcoming
    <3> HIDE DEF done, texts
    <3>2. PICK k \in DOMAIN RootsOf(world) :
            /\ RootsOf(world)[k] = Head(todo)
            /\ Consumed(Tail(todo), RootsOf(world), texts, done \union {texts[k]})
      BY <2>1, <2>2, <3>1, ConsumedNext
    <3>3. texts[k] = Display(Upcoming)
      BY <3>1, <3>2 DEF texts
    <3>4. Consumed(Rest, RootsOf(world), texts, done \union Now(0))
      BY <3>1, <3>2, <3>3 DEF Now
    <3> QED BY <3>4 DEF done, texts
  <2> QED BY <2>3, <2>4
<1> QED BY <1>1, <1>2

LEMMA AboveSame ==
  ASSUME NEW f, NEW g, NEW i, DOMAIN f = DOMAIN g, \A j \in DOMAIN f : f[j].source = g[j].source
  PROVE  Above(f, i) = Above(g, i)
  BY DEF Above

(* The steps of the walk, one by one.                                      *)
LEMMA SkipKeeps ==
  ASSUME WalkInv, Skip
  PROVE  WalkInv'
<1>1. /\ walk = Running /\ More /\ Verdict(Upcoming) = "skip"
      /\ stack' = Base /\ todo' = Rest
      /\ UNCHANGED <<world, seen, order, walk>>
  BY DEF Skip, Advance, Base, Rest
<1>2. Display(Upcoming) \in seen
  BY <1>1, VerdictSkip
<1> USE DEF WalkInv
<1>3. /\ Base \in Seq(Frames) /\ Len(Base) = Len(stack) /\ DOMAIN Base = DOMAIN stack
      /\ \A i \in DOMAIN stack : Base[i].source = stack[i].source
      /\ Rest \in Seq(Sourced)
  BY <1>1, BaseFrames
<1> DEFINE roots == [n \in DOMAIN RootsOf(world) |-> Display(RootsOf(world)[n])]
<1>4. /\ \A i \in DOMAIN stack :
           Consumed(Base[i].left, Ext(world, stack[i].source), ParentTexts(world, stack[i].source),
                    seen \union Above(stack, i + 1) \union Now(i))
      /\ Consumed(Rest, RootsOf(world), roots, seen \union Above(stack, 1) \union Now(0))
  BY <1>1, BaseBehind
<1>5. \A i : Now(i) \subseteq seen
  BY <1>2 DEF Now
<1> HIDE DEF roots
<1>6. \A i : Above(Base, i) = Above(stack, i)
  BY <1>3, AboveSame
<1>7. WalkTypes'
  <2>1. (\A i \in DOMAIN stack : In(world, stack[i].source) /\ Supported(stack[i].source, world.clouds))'
    BY <1>1, <1>3 DEF WalkTypes
  <2>2. walk.end # "done"
    BY <1>1 DEF Running
  <2> QED BY <1>1, <1>3, <2>1, <2>2 DEF WalkTypes
<1>8. Once'
  BY <1>1, <1>3 DEF Once
<1>9. Within'
  BY <1>1, <1>3 DEF Within
<1>10. Behind'
  <2>1. ASSUME NEW i \in DOMAIN stack
        PROVE  Consumed(Base[i].left, Ext(world, Base[i].source), ParentTexts(world, Base[i].source),
                        seen \union Above(Base, i + 1))
    <3>1. seen \union Above(stack, i + 1) \union Now(i) = seen \union Above(Base, i + 1)
      BY <1>5, <1>6
    <3> QED BY <1>3, <1>4, <3>1
  <2>2. Consumed(Rest, RootsOf(world), roots, seen \union Above(Base, 1))
    <3>1. seen \union Above(stack, 1) \union Now(0) = seen \union Above(Base, 1)
      BY <1>5, <1>6
    <3> QED BY <1>4, <3>1
  <2> QED BY <1>1, <1>3, <2>1, <2>2 DEF Behind, roots
<1>11. RemoteStaysRemote'
  BY <1>1, <1>3 DEF RemoteStaysRemote
<1> QED BY <1>7, <1>8, <1>9, <1>10, <1>11

LEMMA LeaveKeeps ==
  ASSUME WalkInv, Leave
  PROVE  WalkInv'
<1> DEFINE L == Len(stack)
           top == stack[L].source
           text == Display(top)
           K == Len(order)
<1> USE DEF WalkInv
<1>1. /\ walk = Running /\ stack # <<>> /\ stack[L].left = <<>>
      /\ stack' = Front(stack) /\ seen' = seen \union {text} /\ order' = Append(order, top)
      /\ UNCHANGED <<world, todo, walk>>
  BY DEF Leave, Top
<1>2. stack \in Seq(Frames) /\ order \in Seq(Sourced) /\ world \in Worlds /\ todo \in Seq(Sourced)
  BY DEF WalkTypes
<1>3. L \in DOMAIN stack /\ L \in Nat /\ L > 0 /\ K \in Nat /\ DOMAIN stack = 1 .. L /\ DOMAIN order = 1 .. K
  BY <1>1, <1>2
<1>4. stack[L] \in Frames /\ top \in Sourced
  <2>1. stack[L] \in Frames
    BY <1>2, <1>3
  <2> QED BY <2>1 DEF Frames
<1>5. /\ stack' \in Seq(Frames) /\ Len(stack') = L - 1 /\ DOMAIN stack' = 1 .. L - 1
      /\ \A i \in 1 .. L - 1 : stack'[i] = stack[i]
  <2>1. Front(stack) \in Seq(Frames)
    BY <1>2, Parted
  <2>2. /\ Len(Front(stack)) = L - 1 /\ DOMAIN Front(stack) = 1 .. L - 1
        /\ \A i \in 1 .. L - 1 : Front(stack)[i] = stack[i]
    BY <1>1, <1>2, <1>3 DEF Front
  <2> QED BY <1>1, <2>1, <2>2
<1>6. /\ order' \in Seq(Sourced) /\ Len(order') = K + 1 /\ DOMAIN order' = 1 .. K + 1
      /\ \A i \in 1 .. K : order'[i] = order[i]
      /\ order'[K + 1] = top
  BY <1>1, <1>2, <1>3, <1>4
<1>7. text \notin seen /\ (\A i \in 1 .. L - 1 : Display(stack[i].source) # text)
  BY <1>3 DEF Once
<1> HIDE DEF top, text, L, K
<1>8. WalkTypes'
  <2>1. (\A i \in DOMAIN stack : In(world, stack[i].source) /\ Supported(stack[i].source, world.clouds))'
    BY <1>1, <1>3, <1>5 DEF WalkTypes
  <2>2. In(world, top)
    BY <1>3 DEF WalkTypes, top
  <2>3. (\A i \in DOMAIN order : In(world, order[i]))'
    BY <1>1, <1>3, <1>6, <2>2 DEF WalkTypes
  <2>4. walk.end # "done"
    BY <1>1 DEF Running
  <2> QED BY <1>1, <1>2, <1>5, <1>6, <2>1, <2>3, <2>4 DEF WalkTypes
<1>9. Once'
  <2>1. (seen = {Display(order[i]) : i \in DOMAIN order})'
    <3>1. {Display(order'[i]) : i \in 1 .. K + 1} = {Display(order[i]) : i \in 1 .. K} \union {text}
      BY <1>3, <1>6 DEF text
    <3> QED BY <1>1, <1>3, <1>6, <3>1 DEF Once
  <2>2. (IsFiniteSet(seen) /\ Cardinality(seen) = Len(order))'
    <3>1. IsFiniteSet(seen) /\ Cardinality(seen) = K
      BY DEF Once, K
    <3>2. IsFiniteSet(seen \union {text}) /\ Cardinality(seen \union {text}) = K + 1
      BY <1>7, <3>1, FS_AddElement
    <3> QED BY <1>1, <1>6, <3>2
  <2>3. (\A i, j \in DOMAIN order : Display(order[i]) = Display(order[j]) => i = j)'
    <3>1. \A i \in 1 .. K : Display(order[i]) # text
      BY <1>3, <1>7 DEF Once
    <3> QED BY <1>3, <1>6, <3>1 DEF Once, text
  <2>4. (\A i, j \in DOMAIN stack : Display(stack[i].source) = Display(stack[j].source) => i = j)'
    BY <1>3, <1>5 DEF Once
  <2>5. (\A i \in DOMAIN stack : Display(stack[i].source) \notin seen)'
    BY <1>1, <1>3, <1>5, <1>7 DEF Once
  <2> QED BY <2>1, <2>2, <2>3, <2>4, <2>5 DEF Once
<1>10. Within'
  BY <1>3, <1>5, <1>6, ChainAssumption DEF Within, L, K
<1>11. Behind'
  <2>1. ASSUME NEW i \in 0 .. L - 1
        PROVE  seen \union Above(stack, i + 1) \subseteq seen' \union Above(stack', i + 1)
    <3>1. CASE i + 1 = L
      <4>1. Above(stack, L) = {text}
        BY <1>3 DEF Above, text, top
      <4> QED BY <1>1, <3>1, <4>1
    <3>2. CASE i + 1 # L
      <4>1. i + 1 \in 1 .. L - 1
        BY <1>3, <3>2
      <4>2. Above(stack, i + 1) \subseteq Above(stack', i + 1)
        BY <1>3, <1>5, <4>1 DEF Above
      <4> QED BY <1>1, <4>2
    <3> QED BY <3>1, <3>2
  <2>2. ASSUME NEW i \in 1 .. L - 1
        PROVE  Consumed(stack'[i].left, Ext(world', stack'[i].source), ParentTexts(world', stack'[i].source),
                        seen' \union Above(stack', i + 1))
    <3>0. i \in DOMAIN stack
      BY <1>3
    <3>1. Consumed(stack[i].left, Ext(world, stack[i].source), ParentTexts(world, stack[i].source),
                   seen \union Above(stack, i + 1))
      BY <3>0 DEF Behind
    <3>2. i \in 0 .. L - 1
      BY <1>3
    <3>3. Consumed(stack[i].left, Ext(world, stack[i].source), ParentTexts(world, stack[i].source),
                   seen' \union Above(stack', i + 1))
      BY <2>1, <3>1, <3>2, ConsumedMore
    <3> QED BY <1>1, <1>5, <3>3
  <2>3. Consumed(todo', RootsOf(world'), [n \in DOMAIN RootsOf(world') |-> Display(RootsOf(world')[n])],
                 seen' \union Above(stack', 1))
    <3>1. 0 \in 0 .. L - 1 /\ 0 + 1 = 1
      BY <1>3
    <3>2. seen \union Above(stack, 1) \subseteq seen' \union Above(stack', 1)
      BY <2>1, <3>1
    <3>3. Consumed(todo, RootsOf(world), [n \in DOMAIN RootsOf(world) |-> Display(RootsOf(world)[n])],
                   seen' \union Above(stack', 1))
      BY <3>2, ConsumedMore DEF Behind
    <3> QED BY <1>1, <3>3
  <2>4. \A n \in DOMAIN Ext(world, top) : ParentTexts(world, top)[n] \in seen
    <3>1. Above(stack, L + 1) = {}
      BY <1>3 DEF Above
    <3>2. Consumed(<<>>, Ext(world, top), ParentTexts(world, top), seen)
      <4>1. Consumed(stack[L].left, Ext(world, top), ParentTexts(world, top), seen \union Above(stack, L + 1))
        BY <1>3 DEF Behind, top
      <4> QED BY <1>1, <3>1, <4>1
    <3>3. Ext(world, top) \in Seq(References)
      BY <1>2, <1>3, ExtReferences DEF WalkTypes, top
    <3> QED BY <3>2, <3>3, ConsumedAll
  <2>5. ASSUME NEW i \in 1 .. K + 1, NEW n \in DOMAIN Ext(world, order'[i])
        PROVE  \E j \in 1 .. i - 1 : Display(order'[j]) = ParentTexts(world, order'[i])[n]
    <3>1. CASE i \in 1 .. K
      <4>1. PICK j \in 1 .. i - 1 : Display(order[j]) = ParentTexts(world, order[i])[n]
        BY <1>3, <1>6, <3>1 DEF Behind
      <4>2. j \in 1 .. K
        BY <1>3, <3>1
      <4> QED BY <1>6, <3>1, <4>1, <4>2
    <3>2. CASE i = K + 1
      <4>1. ParentTexts(world, top)[n] \in seen
        BY <1>6, <2>4, <3>2
      <4>2. PICK j \in 1 .. K : Display(order[j]) = ParentTexts(world, top)[n]
        BY <1>3, <4>1 DEF Once
      <4>3. j \in 1 .. i - 1
        BY <1>3, <3>2
      <4> QED BY <1>6, <3>2, <4>2, <4>3
    <3> QED BY <1>3, <3>1, <3>2
  <2>6. (\A i \in DOMAIN order : \A n \in DOMAIN Ext(world, order[i]) :
          \E j \in 1 .. i - 1 : Display(order[j]) = ParentTexts(world, order[i])[n])'
    BY <1>1, <1>6, <2>5
  <2>7. (\A i \in DOMAIN stack :
           Consumed(stack[i].left, Ext(world, stack[i].source), ParentTexts(world, stack[i].source),
                    seen \union Above(stack, i + 1)))'
    BY <1>5, <2>2
  <2> QED BY <2>3, <2>6, <2>7 DEF Behind
<1>12. RemoteStaysRemote'
  BY <1>3, <1>5 DEF RemoteStaysRemote
<1> QED BY <1>8, <1>9, <1>10, <1>11, <1>12

LEMMA EnterKeeps ==
  ASSUME WalkInv, Enter
  PROVE  WalkInv'
<1> DEFINE L == Len(stack)
           list == Holds(Upcoming).extends
           frame == [source |-> Upcoming, left |-> list]
           text == Display(Upcoming)
           roots == [n \in DOMAIN RootsOf(world) |-> Display(RootsOf(world)[n])]
<1> USE DEF WalkInv
<1>1. /\ walk = Running /\ More /\ Verdict(Upcoming) = Ok
      /\ todo' = Rest
      /\ UNCHANGED <<world, seen, order, walk>>
  BY DEF Enter, Rest
<1>2. stack' = Append(Base, frame)
  <2>1. CASE stack = <<>>
    <3>1. stack' = <<frame>> /\ Base = <<>>
      BY <2>1 DEF Enter, Base
    <3> HIDE DEF frame
    <3> QED BY <3>1
  <2>2. CASE stack # <<>>
    BY <2>2 DEF Enter, Base
  <2> QED BY <2>1, <2>2
<1>3. /\ Upcoming # NotOne /\ ~OnStack(Upcoming) /\ text \notin seen
      /\ ~(L >= MaxDepth) /\ ~(Cardinality(seen) >= MaxFiles)
      /\ Supported(Upcoming, world.clouds) /\ In(world, Upcoming)
  BY <1>1, VerdictOk
<1>4. /\ Base \in Seq(Frames) /\ Len(Base) = L /\ DOMAIN Base = DOMAIN stack
      /\ \A i \in DOMAIN stack : Base[i].source = stack[i].source
      /\ Rest \in Seq(Sourced)
  BY <1>1, BaseFrames
<1>5. /\ \A i \in DOMAIN stack :
           Consumed(Base[i].left, Ext(world, stack[i].source), ParentTexts(world, stack[i].source),
                    seen \union Above(stack, i + 1) \union Now(i))
      /\ Consumed(Rest, RootsOf(world), roots, seen \union Above(stack, 1) \union Now(0))
  BY <1>1, BaseBehind
<1>6. /\ Upcoming \in Sourced
      /\ stack # <<>> => (IsRemote(Top.source) => IsRemote(Upcoming))
  BY <1>1, <1>3, UpcomingWhole
<1>7. list = Ext(world, Upcoming) /\ list \in Seq(References) /\ frame \in Frames
  <2>1. list = Ext(world, Upcoming)
    BY DEF Holds, Ext
  <2>2. Ext(world, Upcoming) \in Seq(References)
    BY <1>3, ExtReferences DEF WalkTypes
  <2> HIDE DEF list
  <2> QED BY <1>6, <2>1, <2>2 DEF Frames
<1>8. frame.source = Upcoming /\ frame.left = list
  OBVIOUS
<1>9. stack \in Seq(Frames) /\ L \in Nat /\ DOMAIN stack = 1 .. L
  BY DEF WalkTypes
<1> HIDE DEF list, frame, roots, L
<1>10. /\ stack' \in Seq(Frames) /\ Len(stack') = L + 1 /\ DOMAIN stack' = 1 .. L + 1
       /\ \A i \in 1 .. L : stack'[i] = Base[i]
       /\ stack'[L + 1] = frame
  BY <1>2, <1>4, <1>7, <1>9
<1> DEFINE S(i) == stack'[i].source
<1>11. (\A i \in 1 .. L : S(i) = stack[i].source) /\ S(L + 1) = Upcoming
  BY <1>4, <1>8, <1>9, <1>10
<1>12. \A i \in 1 .. L : Display(stack[i].source) # text
  BY <1>3, <1>9 DEF OnStack
<1> HIDE DEF text
<1>13. WalkTypes'
  <2>1. \A i \in 1 .. L + 1 : In(world, S(i)) /\ Supported(S(i), world.clouds)
    <3>1. \A i \in 1 .. L : In(world, S(i)) /\ Supported(S(i), world.clouds)
      BY <1>9, <1>11 DEF WalkTypes
    <3> QED BY <1>3, <1>9, <1>11, <3>1
  <2>2. (\A i \in DOMAIN stack : In(world, stack[i].source) /\ Supported(stack[i].source, world.clouds))'
    BY <1>1, <1>10, <2>1
  <2>3. walk.end # "done"
    BY <1>1 DEF Running
  <2> QED BY <1>1, <1>4, <1>10, <2>2, <2>3 DEF WalkTypes
<1>14. Once'
  <2>1. (\A i, j \in DOMAIN stack : Display(stack[i].source) = Display(stack[j].source) => i = j)'
    <3> SUFFICES ASSUME NEW i \in 1 .. L + 1, NEW j \in 1 .. L + 1, Display(S(i)) = Display(S(j))
                 PROVE  i = j
      BY <1>10
    <3>1. CASE i \in 1 .. L /\ j \in 1 .. L
      BY <1>9, <1>11, <3>1 DEF Once
    <3>2. CASE i \in 1 .. L /\ j = L + 1
      BY <1>9, <1>11, <1>12, <3>2 DEF text
    <3>3. CASE i = L + 1 /\ j \in 1 .. L
      BY <1>9, <1>11, <1>12, <3>3 DEF text
    <3> HIDE DEF S
    <3> QED BY <1>9, <3>1, <3>2, <3>3
  <2>2. (\A i \in DOMAIN stack : Display(stack[i].source) \notin seen)'
    <3>1. \A i \in 1 .. L : Display(S(i)) \notin seen
      BY <1>9, <1>11 DEF Once
    <3>2. Display(S(L + 1)) \notin seen
      BY <1>3, <1>11 DEF text
    <3>3. \A i \in 1 .. L + 1 : Display(S(i)) \notin seen
      <4> HIDE DEF S
      <4> QED BY <1>9, <3>1, <3>2
    <3> QED BY <1>1, <1>10, <3>3
  <2> QED BY <1>1, <2>1, <2>2 DEF Once
<1>15. Within'
  <2>1. Cardinality(seen) = Len(order) /\ Len(order) \in Nat /\ MaxFiles \in Nat /\ MaxDepth \in Nat
    BY ChainAssumption DEF Once, WalkTypes
  <2> QED BY <1>1, <1>3, <1>9, <1>10, <2>1 DEF Within, L
<1>16. Behind'
  <2>1. ASSUME NEW i \in 0 .. L
        PROVE  seen \union Above(stack, i + 1) \union Now(i) \subseteq seen \union Above(stack', i + 1)
    <3>1. CASE i = L
      <4>1. Above(stack, L + 1) = {}
        BY <1>9 DEF Above
      <4>2. Above(stack', L + 1) = {text}
        <5>1. {L + 1} \intersect DOMAIN stack' = {L + 1}
          BY <1>9, <1>10
        <5>2. Display(stack'[L + 1].source) = text
          BY <1>11 DEF text
        <5> HIDE DEF S
        <5> QED BY <5>1, <5>2 DEF Above
      <4>3. Now(i) = {text}
        BY <3>1 DEF Now, text, L
      <4> QED BY <3>1, <4>1, <4>2, <4>3
    <3>2. CASE i # L
      <4>1. i + 1 \in 1 .. L /\ i + 1 \in 1 .. L + 1
        BY <1>9, <3>2
      <4>2. Above(stack, i + 1) = {Display(stack[i + 1].source)}
        BY <1>9, <4>1 DEF Above
      <4>3. Above(stack', i + 1) = {Display(S(i + 1))}
        BY <1>10, <4>1 DEF Above
      <4>4. Now(i) = {}
        BY <3>2 DEF Now, L
      <4> QED BY <1>11, <4>1, <4>2, <4>3, <4>4
    <3> QED BY <3>1, <3>2
  <2>2. ASSUME NEW i \in 1 .. L + 1
        PROVE  Consumed(stack'[i].left, Ext(world, S(i)), ParentTexts(world, S(i)),
                        seen \union Above(stack', i + 1))
    <3>1. CASE i \in 1 .. L
      <4>1. Consumed(Base[i].left, Ext(world, stack[i].source), ParentTexts(world, stack[i].source),
                     seen \union Above(stack, i + 1) \union Now(i))
        BY <1>5, <1>9, <3>1
      <4>2. i \in 0 .. L
        BY <1>9, <3>1
      <4>3. Consumed(Base[i].left, Ext(world, stack[i].source), ParentTexts(world, stack[i].source),
                     seen \union Above(stack', i + 1))
        BY <2>1, <4>1, <4>2, ConsumedMore
      <4> QED BY <1>10, <1>11, <3>1, <4>3
    <3>2. CASE i = L + 1
      <4>1. Consumed(list, list, ParentTexts(world, Upcoming), seen \union Above(stack', i + 1))
        BY <1>7, ConsumedNone
      <4>2. stack'[i].left = list /\ S(i) = Upcoming
        BY <1>8, <1>10, <1>11, <3>2
      <4> HIDE DEF S
      <4> QED BY <1>7, <4>1, <4>2
    <3> HIDE DEF S
    <3> QED BY <1>9, <3>1, <3>2
  <2>3. Consumed(Rest, RootsOf(world), roots, seen \union Above(stack', 1))
    <3>1. 0 \in 0 .. L /\ 0 + 1 = 1
      BY <1>9
    <3>2. seen \union Above(stack, 1) \union Now(0) \subseteq seen \union Above(stack', 1)
      BY <2>1, <3>1
    <3> QED BY <1>5, <3>2, ConsumedMore
  <2>4. (\A i \in DOMAIN stack :
           Consumed(stack[i].left, Ext(world, stack[i].source), ParentTexts(world, stack[i].source),
                    seen \union Above(stack, i + 1)))'
    BY <1>1, <1>10, <2>2
  <2>5. (Consumed(todo, RootsOf(world), [n \in DOMAIN RootsOf(world) |-> Display(RootsOf(world)[n])],
                  seen \union Above(stack, 1)))'
    BY <1>1, <2>3 DEF roots
  <2> QED BY <1>1, <2>4, <2>5 DEF Behind
<1>17. RemoteStaysRemote'
  <2> SUFFICES ASSUME NEW i \in 1 .. L + 1, NEW j \in 1 .. L + 1, i < j, IsRemote(S(i))
               PROVE  IsRemote(S(j))
    BY <1>10 DEF RemoteStaysRemote
  <2>1. i \in 1 .. L /\ IsRemote(stack[i].source)
    <3>1. i \in 1 .. L
      BY <1>9
    <3> QED BY <1>11, <3>1
  <2>2. CASE j \in 1 .. L
    BY <1>9, <1>11, <2>1, <2>2 DEF RemoteStaysRemote
  <2>3. CASE j = L + 1
    <3>1. IsRemote(stack[L].source) /\ stack # <<>>
      <4>1. L \in 1 .. L /\ (i = L \/ i < L)
        BY <1>9, <2>1
      <4> QED BY <1>9, <2>1, <4>1 DEF RemoteStaysRemote
    <3>2. IsRemote(Upcoming)
      BY <1>6, <3>1 DEF Top, L
    <3> QED BY <1>11, <2>3, <3>2
  <2> HIDE DEF S
  <2> QED BY <1>9, <2>2, <2>3
<1> QED BY <1>13, <1>14, <1>15, <1>16, <1>17

LEMMA StopKeeps ==
  ASSUME WalkInv, Fail \/ Finish
  PROVE  WalkInv'
<1>1. UNCHANGED <<world, todo, stack, seen, order>>
  BY DEF Fail, Finish
<1>2. /\ walk'.end \in {"done", "failed"}
      /\ walk'.end = "done" => stack = <<>> /\ todo = <<>>
  BY DEF Fail, Finish, Failed
<1>3. WalkTypes'
  BY <1>1, <1>2 DEF WalkInv, WalkTypes
<1>4. Once' /\ Within'
  BY <1>1 DEF WalkInv, Once, Within
<1>5. Behind'
  BY <1>1 DEF WalkInv, Behind
<1>6. RemoteStaysRemote'
  BY <1>1 DEF WalkInv, RemoteStaysRemote
<1> QED BY <1>3, <1>4, <1>5, <1>6 DEF WalkInv

LEMMA WalkKeeps ==
  ASSUME WalkInv, [BuildNext]_buildVars
  PROVE  WalkInv'
<1>1. CASE UNCHANGED walkVars
  <2>1. UNCHANGED <<world, todo, stack, seen, order, walk>>
    BY <1>1 DEF walkVars
  <2>2. WalkTypes'
    BY <2>1 DEF WalkInv, WalkTypes
  <2>3. Once' /\ Within'
    BY <2>1 DEF WalkInv, Once, Within
  <2>4. Behind'
    BY <2>1 DEF WalkInv, Behind
  <2>5. RemoteStaysRemote'
    BY <2>1 DEF WalkInv, RemoteStaysRemote
  <2> QED BY <2>2, <2>3, <2>4, <2>5 DEF WalkInv
<1>2. CASE WalkNext
  BY <1>2, SkipKeeps, EnterKeeps, LeaveKeeps, StopKeeps DEF WalkNext
<1> QED BY <1>1, <1>2 DEF BuildNext, Walks, Merge, Over, buildVars

LEMMA WalkStarts ==
  ASSUME BuildInit
  PROVE  WalkInv
<1>1. /\ world \in Worlds /\ todo = RootsOf(world) /\ stack = <<>> /\ seen = {} /\ order = <<>>
      /\ walk.end = "running"
  BY DEF BuildInit, WalkInit, Running
<1>2. RootsOf(world) \in Seq(Sourced)
  BY <1>1, RootsSourced
<1>3. WalkTypes
  BY <1>1, <1>2 DEF WalkTypes
<1>4. Once
  BY <1>1, FS_EmptySet DEF Once
<1>5. Within
  BY <1>1, ChainAssumption DEF Within
<1>6. Behind
  BY <1>1, <1>2, ConsumedNone DEF Behind
<1>7. RemoteStaysRemote
  BY <1>1 DEF RemoteStaysRemote
<1> QED BY <1>3, <1>4, <1>5, <1>6, <1>7 DEF WalkInv

(* The invariant of the walk (visit, chain.rs): the types of its state; a  *)
(* finished file and one on the stack each have their own text; the two    *)
(* limits; what is struck from a file's list is finished or stands above   *)
(* it; remote files stay remote.                                           *)
THEOREM WalkHolds == BuildSpec => []WalkInv
<1>1. BuildInit => WalkInv
  BY WalkStarts
<1>2. WalkInv /\ [BuildNext]_buildVars => WalkInv'
  BY WalkKeeps
<1> QED BY <1>1, <1>2, PTL DEF BuildSpec

(* Parents before children: in any world, with any graph of files, what a  *)
(* finished file extends is finished before it, and a walk that is done    *)
(* has finished every root.                                                *)
THEOREM ParentsAreFirst == BuildSpec => []ParentsFirst
<1>1. WalkInv => ParentsFirst
  <2> SUFFICES ASSUME WalkInv PROVE ParentsFirst
    OBVIOUS
  <2>1. ASSUME NEW i \in DOMAIN order, NEW n \in DOMAIN ParentsOf(order[i])
        PROVE  \E j \in 1 .. i - 1 : Display(order[j]) = Display(ParentsOf(order[i])[n])
    <3>1. n \in DOMAIN Ext(world, order[i])
      BY DEF ParentsOf, Ext, Holds
    <3>2. ParentTexts(world, order[i])[n] = Display(ParentsOf(order[i])[n])
      BY <3>1 DEF ParentsOf, Ext, Holds, ParentTexts
    <3> QED BY <3>1, <3>2 DEF WalkInv, Behind
  <2>2. ASSUME walk.end = "done", NEW r \in Range(RootsOf(world))
        PROVE  \E j \in DOMAIN order : Display(order[j]) = Display(r)
    <3> DEFINE texts == [n \in DOMAIN RootsOf(world) |-> Display(RootsOf(world)[n])]
    <3>1. stack = <<>> /\ todo = <<>>
      BY <2>2 DEF WalkInv, WalkTypes
    <3>2. Above(stack, 1) = {}
      BY <3>1 DEF Above
    <3>3. Consumed(<<>>, RootsOf(world), texts, seen)
      <4>1. Consumed(todo, RootsOf(world), texts, seen \union Above(stack, 1))
        BY DEF WalkInv, Behind
      <4> HIDE DEF texts
      <4> QED BY <3>1, <3>2, <4>1
    <3>4. RootsOf(world) \in Seq(Sourced)
      BY RootsSourced DEF WalkInv, WalkTypes
    <3>5. PICK n \in DOMAIN RootsOf(world) : r = RootsOf(world)[n]
      BY <2>2 DEF Range
    <3>6. texts[n] \in seen
      <4> HIDE DEF texts
      <4> QED BY <3>3, <3>4, <3>5, ConsumedAll
    <3> QED BY <3>5, <3>6 DEF WalkInv, Once
  <2> QED BY <2>1, <2>2 DEF ParentsFirst
<1> QED BY <1>1, WalkHolds, PTL

(* However the files of a world name each other, the walk loads no more of *)
(* them than MAX_DEPTH and MAX_FILES allow, and none twice.                *)
THEOREM LoadsStayBounded == BuildSpec => []LoadsAreBounded
<1>1. WalkInv => LoadsAreBounded
  BY DEF WalkInv, Within, Once, LoadsAreBounded
<1> QED BY <1>1, WalkHolds, PTL

(* Nothing that is fetched over the network makes this host read a file of *)
(* its own, over any number of files between (join, source.rs).            *)
THEOREM RemoteStays == BuildSpec => []RemoteStaysRemote
<1>1. WalkInv => RemoteStaysRemote
  BY DEF WalkInv
<1> QED BY <1>1, WalkHolds, PTL

-----------------------------------------------------------------------------
(* The merge.                                                              *)

(* Merged is the recursion it says: one Overlay for every file.            *)
LEMMA MergedSteps ==
  ASSUME NEW files, Len(files) \in Nat
  PROVE  \E m : /\ m[0] = NoConfig
                /\ \A n \in 1 .. Len(files) : m[n] = Overlay(m[n - 1], files[n])
                /\ Merged(files) = m[Len(files)]
<1> DEFINE L == Len(files)
           By(f, M) == [n \in 0 .. M |-> IF n = 0 THEN NoConfig ELSE Overlay(f[n - 1], files[n])]
           S == {M \in 0 .. L : \E f : f = By(f, M)}
           m == CHOOSE f : f = By(f, L)
<1>1. 0 \in S
  <2> DEFINE f == [n \in 0 .. 0 |-> NoConfig]
  <2>1. f = By(f, 0)
    OBVIOUS
  <2> HIDE DEF f, By
  <2> QED BY <2>1
<1>2. ASSUME NEW M \in 0 .. L, M \in S, M < L
      PROVE  M + 1 \in S
  <2>1. PICK f : f = By(f, M)
    BY <1>2
  <2> DEFINE g == [n \in 0 .. M + 1 |-> IF n = M + 1 THEN Overlay(f[M], files[M + 1]) ELSE f[n]]
  <2>2. \A n \in 0 .. M + 1 : g[n] = IF n = 0 THEN NoConfig ELSE Overlay(g[n - 1], files[n])
    <3> SUFFICES ASSUME NEW n \in 0 .. M + 1
                 PROVE  g[n] = IF n = 0 THEN NoConfig ELSE Overlay(g[n - 1], files[n])
      OBVIOUS
    <3>1. f[0] = NoConfig /\ \A k \in 1 .. M : f[k] = Overlay(f[k - 1], files[k])
      <4>1. By(f, M)[0] = NoConfig /\ \A k \in 1 .. M : By(f, M)[k] = Overlay(f[k - 1], files[k])
        OBVIOUS
      <4> HIDE DEF By
      <4> QED BY <2>1, <4>1
    <3>2. CASE n = 0
      BY <3>1, <3>2
    <3>3. CASE n \in 1 .. M
      BY <3>1, <3>3
    <3>4. CASE n = M + 1
      BY <3>4
    <3> QED BY <3>2, <3>3, <3>4
  <2>3. g = By(g, M + 1)
    <3>1. g = [n \in 0 .. M + 1 |-> g[n]]
      OBVIOUS
    <3> HIDE DEF g
    <3> QED BY <2>2, <3>1
  <2>4. M + 1 \in 0 .. L
    BY <1>2
  <2> HIDE DEF g, By
  <2> QED BY <2>3, <2>4
<1>3. L \in S
  <2>1. L \in 0 .. L
    OBVIOUS
  <2> HIDE DEF S
  <2> QED BY <1>1, <1>2, <2>1, Upwards
<1>4. m = By(m, L)
  <2> HIDE DEF By
  <2> QED BY <1>3
<1>5. m[0] = NoConfig /\ \A n \in 1 .. L : m[n] = Overlay(m[n - 1], files[n])
  <2> HIDE DEF m
  <2>1. By(m, L)[0] = NoConfig /\ \A k \in 1 .. L : By(m, L)[k] = Overlay(m[k - 1], files[k])
    OBVIOUS
  <2> HIDE DEF By
  <2> QED BY <1>4, <2>1
<1>6. Merged(files) = m[L]
  BY DEF Merged
<1> HIDE DEF m
<1> QED BY <1>5, <1>6

LEMMA Prepended ==
  ASSUME NEW A, NEW s \in Seq(A), NEW t \in Seq(A)
  PROVE  /\ s \o t \in Seq(A) /\ Len(s \o t) = Len(s) + Len(t)
         /\ DOMAIN (s \o t) = 1 .. Len(s) + Len(t)
         /\ \A k \in 1 .. Len(s) : (s \o t)[k] = s[k]
         /\ \A k \in 1 .. Len(t) : (s \o t)[Len(s) + k] = t[k]
         /\ \A k \in 1 .. Len(s) + Len(t) :
              k \in 1 .. Len(s) \/ \E l \in 1 .. Len(t) : k = Len(s) + l
<1>1. /\ s \o t \in Seq(A) /\ Len(s \o t) = Len(s) + Len(t)
      /\ DOMAIN (s \o t) = 1 .. Len(s) + Len(t)
      /\ \A k \in 1 .. Len(s) : (s \o t)[k] = s[k]
  OBVIOUS
<1>2. \A k \in 1 .. Len(t) : (s \o t)[Len(s) + k] = t[k]
  OBVIOUS
<1>3. ASSUME NEW k \in 1 .. Len(s) + Len(t), k \notin 1 .. Len(s)
      PROVE  \E l \in 1 .. Len(t) : k = Len(s) + l
  <2>1. k - Len(s) \in 1 .. Len(t) /\ k = Len(s) + (k - Len(s))
    BY <1>3
  <2> QED BY <2>1
<1> QED BY <1>1, <1>2, <1>3

(* Files to be merged: names of some set, each its own, and their routes.  *)
Layered(files, M) ==
  /\ Len(files) \in Nat
  /\ \A i \in 1 .. Len(files) : /\ files[i].name \in M
                                /\ files[i].layer.routes \in Seq(RouteShapes)
  /\ \A i, j \in 1 .. Len(files) : files[i].name = files[j].name => i = j

(* What the first n files make: of a provider the entry of the last file   *)
(* that has one; the routes, and where each is from, a later file's first. *)
EntriesOf(c, files, n) ==
  /\ \A k \in DOMAIN c.providers : \E i \in 1 .. n :
       /\ k \in DOMAIN files[i].layer.providers
       /\ c.providers[k] = files[i].layer.providers[k]
       /\ \A j \in i + 1 .. n : k \notin DOMAIN files[j].layer.providers
  /\ \A i \in 1 .. n : DOMAIN files[i].layer.providers \subseteq DOMAIN c.providers

RoutesOf(c, files, n, M) ==
  /\ c.routes \in Seq(RouteShapes) /\ c.origins \in Seq([file : M, index : Nat])
  /\ Len(c.origins) = Len(c.routes)
  /\ \A k \in 1 .. Len(c.routes) : \E i \in 1 .. n :
       /\ c.origins[k].file = files[i].name
       /\ c.origins[k].index \in DOMAIN files[i].layer.routes
       /\ c.routes[k] = files[i].layer.routes[c.origins[k].index]
  /\ \A k, l \in 1 .. Len(c.routes) : \A i, j \in 1 .. n :
       k < l /\ c.origins[k].file = files[i].name /\ c.origins[l].file = files[j].name => j <= i
  /\ \A i \in 1 .. n : \A x \in DOMAIN files[i].layer.routes :
       \E k \in 1 .. Len(c.routes) : c.routes[k] = files[i].layer.routes[x]

(* One more file: its entries replace those there are.                     *)
LEMMA OverlayEntries ==
  ASSUME NEW files, NEW n \in Nat \ {0}, NEW c, EntriesOf(c, files, n - 1)
  PROVE  EntriesOf(Overlay(c, files[n]), files, n)
<1> DEFINE given(i) == files[i].layer.providers
           all == Overlay(c, files[n]).providers
<1>1. /\ DOMAIN all = DOMAIN given(n) \union DOMAIN c.providers
      /\ \A k \in DOMAIN given(n) : all[k] = given(n)[k]
      /\ \A k \in DOMAIN c.providers : k \notin DOMAIN given(n) => all[k] = c.providers[k]
  BY DEF Overlay, Atop
<1> HIDE DEF all
<1>2. ASSUME NEW k \in DOMAIN all
      PROVE  \E i \in 1 .. n : /\ k \in DOMAIN given(i) /\ all[k] = given(i)[k]
                               /\ \A j \in i + 1 .. n : k \notin DOMAIN given(j)
  <2>1. CASE k \in DOMAIN given(n)
    <3>1. n \in 1 .. n /\ n + 1 .. n = {}
      OBVIOUS
    <3> QED BY <1>1, <2>1, <3>1
  <2>2. CASE k \notin DOMAIN given(n)
    <3>1. k \in DOMAIN c.providers /\ all[k] = c.providers[k]
      BY <1>1, <2>2
    <3>2. PICK i \in 1 .. n - 1 : /\ k \in DOMAIN given(i) /\ c.providers[k] = given(i)[k]
                                  /\ \A j \in i + 1 .. n - 1 : k \notin DOMAIN given(j)
      BY <3>1 DEF EntriesOf
    <3>3. i \in 1 .. n /\ \A j \in i + 1 .. n : j \in i + 1 .. n - 1 \/ j = n
      OBVIOUS
    <3> HIDE DEF given
    <3> QED BY <2>2, <3>1, <3>2, <3>3
  <2> QED BY <2>1, <2>2
<1>3. ASSUME NEW i \in 1 .. n
      PROVE  DOMAIN given(i) \subseteq DOMAIN all
  <2>1. i = n \/ i \in 1 .. n - 1
    OBVIOUS
  <2> QED BY <1>1, <2>1 DEF EntriesOf
<1> QED BY <1>2, <1>3 DEF EntriesOf, all

(* One more file: its routes go before those there are.                    *)
LEMMA OverlayRoutes ==
  ASSUME NEW files, NEW M, Layered(files, M), NEW n \in 1 .. Len(files), NEW c,
         RoutesOf(c, files, n - 1, M)
  PROVE  RoutesOf(Overlay(c, files[n]), files, n, M)
<1> DEFINE own == files[n].layer.routes
           from == Origins(files[n].name, own)
           O == [file : M, index : Nat]
           routes == own \o c.routes
           origins == from \o c.origins
           P == Len(own)
           Q == Len(c.routes)
<1>1. /\ own \in Seq(RouteShapes) /\ c.routes \in Seq(RouteShapes) /\ c.origins \in Seq(O)
      /\ Len(c.origins) = Q /\ P \in Nat /\ Q \in Nat /\ DOMAIN own = 1 .. P /\ n \in Nat
      /\ files[n].name \in M
  BY DEF Layered, RoutesOf
<1>2. from \in Seq(O) /\ Len(from) = P /\ \A k \in 1 .. P : from[k] = [file |-> files[n].name, index |-> k]
  <2>1. from = [i \in 1 .. P |-> [file |-> files[n].name, index |-> i]]
    BY <1>1 DEF Origins
  <2> HIDE DEF from, P
  <2> QED BY <1>1, <2>1
<1> HIDE DEF from, own, O
<1>3. /\ routes \in Seq(RouteShapes) /\ Len(routes) = P + Q
      /\ \A k \in 1 .. P : routes[k] = own[k]
      /\ \A k \in 1 .. Q : routes[P + k] = c.routes[k]
  BY <1>1, Prepended
<1>4. /\ origins \in Seq(O) /\ Len(origins) = P + Q
      /\ \A k \in 1 .. P : origins[k] = from[k]
      /\ \A k \in 1 .. Q : origins[P + k] = c.origins[k]
  <2>1. c.origins \in Seq(O) /\ from \in Seq(O) /\ Len(from) = P /\ Len(c.origins) = Q
    BY <1>1, <1>2
  <2>2. /\ origins \in Seq(O) /\ Len(origins) = Len(from) + Len(c.origins)
        /\ \A k \in 1 .. Len(from) : origins[k] = from[k]
        /\ \A k \in 1 .. Len(c.origins) : origins[Len(from) + k] = c.origins[k]
    <3>1. c.origins \in Seq(O) /\ from \in Seq(O)
      BY <2>1
    <3> QED BY <3>1, Prepended
  <2> HIDE DEF P, Q, origins
  <2> QED BY <2>1, <2>2
<1>5. \A k \in 1 .. P + Q : k \in 1 .. P \/ \E l \in 1 .. Q : k = P + l
  BY <1>1, Prepended
<1> HIDE DEF routes, origins, P, Q
<1>6. \A k \in 1 .. P : origins[k].file = files[n].name /\ origins[k].index = k
  BY <1>2, <1>4
<1> DEFINE Stands(k, i) == /\ origins[k].file = files[i].name
                       /\ origins[k].index \in DOMAIN files[i].layer.routes
                       /\ routes[k] = files[i].layer.routes[origins[k].index]
<1>7. \A k \in 1 .. P : Stands(k, n)
  BY <1>1, <1>3, <1>6 DEF own
<1>8. \A k \in 1 .. Q : \E i \in 1 .. n - 1 : Stands(P + k, i)
  <2> SUFFICES ASSUME NEW k \in 1 .. Q PROVE \E i \in 1 .. n - 1 : Stands(P + k, i)
    OBVIOUS
  <2>1. PICK i \in 1 .. n - 1 : /\ c.origins[k].file = files[i].name
                                /\ c.origins[k].index \in DOMAIN files[i].layer.routes
                                /\ c.routes[k] = files[i].layer.routes[c.origins[k].index]
    BY DEF RoutesOf, Q
  <2> QED BY <1>3, <1>4, <2>1
<1>9. ASSUME NEW k \in 1 .. P + Q
      PROVE  \E i \in 1 .. n : Stands(k, i)
  <2>1. CASE k \in 1 .. P
    <3>1. n \in 1 .. n
      BY <1>1
    <3> HIDE DEF Stands
    <3> QED BY <1>7, <2>1, <3>1
  <2>2. CASE k \notin 1 .. P
    <3>1. PICK l \in 1 .. Q : k = P + l
      BY <1>5, <2>2
    <3> HIDE DEF Stands
    <3>2. PICK i \in 1 .. n - 1 : Stands(k, i)
      BY <1>8, <3>1
    <3>3. i \in 1 .. n
      BY <1>1
    <3> QED BY <3>2, <3>3
  <2> QED BY <2>1, <2>2
<1>10. ASSUME NEW k \in 1 .. P + Q, NEW l \in 1 .. P + Q, NEW i \in 1 .. n, NEW j \in 1 .. n,
              k < l, origins[k].file = files[i].name, origins[l].file = files[j].name
       PROVE  j <= i
  <2>1. CASE k \in 1 .. P
    <3>1. i = n
      <4>1. i \in 1 .. Len(files) /\ files[i].name = files[n].name
        BY <1>1, <1>6, <1>10, <2>1 DEF Layered
      <4> QED BY <4>1 DEF Layered
    <3> QED BY <1>1, <3>1
  <2>2. CASE k \notin 1 .. P
    <3>1. PICK p \in 1 .. Q : k = P + p
      BY <1>5, <2>2
    <3>2. l \notin 1 .. P
      BY <1>1, <1>10, <3>1
    <3>3. PICK q \in 1 .. Q : l = P + q
      BY <1>5, <3>2
    <3>4. p < q
      BY <1>1, <1>10, <3>1, <3>3
    <3>5. c.origins[p].file = files[i].name /\ c.origins[q].file = files[j].name
      BY <1>4, <1>10, <3>1, <3>3
    <3>6. ASSUME NEW h \in 1 .. n, NEW r \in 1 .. Q, c.origins[r].file = files[h].name
          PROVE  h \in 1 .. n - 1
      <4>1. PICK g \in 1 .. n - 1 : c.origins[r].file = files[g].name
        BY DEF RoutesOf, Q
      <4>2. g \in 1 .. Len(files) /\ h \in 1 .. Len(files)
        BY <1>1 DEF Layered
      <4>3. g = h
        BY <3>6, <4>1, <4>2 DEF Layered
      <4> QED BY <4>3
    <3>7. i \in 1 .. n - 1 /\ j \in 1 .. n - 1
      BY <3>5, <3>6
    <3> QED BY <3>4, <3>5, <3>7 DEF RoutesOf, Q
  <2> QED BY <2>1, <2>2
<1>11. ASSUME NEW i \in 1 .. n, NEW x \in DOMAIN files[i].layer.routes
       PROVE  \E k \in 1 .. P + Q : routes[k] = files[i].layer.routes[x]
  <2>1. CASE i = n
    <3>1. x \in 1 .. P /\ x \in 1 .. P + Q
      BY <1>1, <2>1 DEF own
    <3>2. routes[x] = files[i].layer.routes[x]
      BY <1>3, <2>1, <3>1 DEF own
    <3> QED BY <3>1, <3>2
  <2>2. CASE i # n
    <3>1. i \in 1 .. n - 1
      BY <1>1, <2>2
    <3>2. PICK k \in 1 .. Q : c.routes[k] = files[i].layer.routes[x]
      BY <3>1 DEF RoutesOf, Q
    <3>3. P + k \in 1 .. P + Q
      BY <1>1
    <3> QED BY <1>3, <3>2, <3>3
  <2> QED BY <2>1, <2>2
<1>12. Overlay(c, files[n]).routes = routes /\ Overlay(c, files[n]).origins = origins
  BY DEF Overlay, routes, origins, own, from
<1> DEFINE made == Overlay(c, files[n])
<1> HIDE DEF made
<1>13. made.routes = routes /\ made.origins = origins
  BY <1>12 DEF made
<1>14. RoutesOf(made, files, n, M)
  <2>1. made.routes \in Seq(RouteShapes) /\ made.origins \in Seq([file : M, index : Nat])
    BY <1>3, <1>4, <1>13 DEF O
  <2>2. Len(made.origins) = Len(made.routes) /\ Len(made.routes) = P + Q
    BY <1>3, <1>4, <1>13
  <2>3. \A k \in 1 .. Len(made.routes) : \E i \in 1 .. n :
          /\ made.origins[k].file = files[i].name
          /\ made.origins[k].index \in DOMAIN files[i].layer.routes
          /\ made.routes[k] = files[i].layer.routes[made.origins[k].index]
    BY <1>9, <1>13, <2>2
  <2>4. \A k, l \in 1 .. Len(made.routes) : \A i, j \in 1 .. n :
          k < l /\ made.origins[k].file = files[i].name /\ made.origins[l].file = files[j].name
            => j <= i
    BY <1>10, <1>13, <2>2
  <2>5. \A i \in 1 .. n : \A x \in DOMAIN files[i].layer.routes :
          \E k \in 1 .. Len(made.routes) : made.routes[k] = files[i].layer.routes[x]
    BY <1>11, <1>13, <2>2
  <2> QED BY <2>1, <2>2, <2>3, <2>4, <2>5 DEF RoutesOf
<1> QED BY <1>14 DEF made

(* The merge of n files, by induction on n.                                *)
LEMMA MergedAs ==
  ASSUME NEW files, NEW M, Layered(files, M)
  PROVE  EntriesOf(Merged(files), files, Len(files)) /\ RoutesOf(Merged(files), files, Len(files), M)
<1> DEFINE L == Len(files)
<1>1. L \in Nat
  BY DEF Layered
<1>2. PICK m : /\ m[0] = NoConfig
               /\ \A n \in 1 .. L : m[n] = Overlay(m[n - 1], files[n])
               /\ Merged(files) = m[L]
  BY <1>1, MergedSteps
<1> DEFINE S == {n \in 0 .. L : EntriesOf(m[n], files, n) /\ RoutesOf(m[n], files, n, M)}
<1>3. 0 \in S
  <2>1. EntriesOf(NoConfig, files, 0)
    BY DEF EntriesOf, NoConfig
  <2>2. RoutesOf(NoConfig, files, 0, M)
    <3>1. NoConfig.routes = <<>> /\ NoConfig.origins = <<>>
      BY DEF NoConfig
    <3> QED BY <3>1 DEF RoutesOf
  <2> QED BY <1>1, <1>2, <2>1, <2>2
<1>4. ASSUME NEW n \in 0 .. L, n \in S, n < L
      PROVE  n + 1 \in S
  <2>1. n + 1 \in 1 .. L /\ (n + 1) - 1 = n /\ n + 1 \in 0 .. L /\ n + 1 \in Nat \ {0}
    BY <1>1, <1>4
  <2>2. m[n + 1] = Overlay(m[n], files[n + 1])
    BY <1>2, <2>1
  <2>3. EntriesOf(m[n + 1], files, n + 1)
    BY <1>4, <2>1, <2>2, OverlayEntries
  <2>4. RoutesOf(m[n + 1], files, n + 1, M)
    BY <1>4, <2>1, <2>2, OverlayRoutes
  <2> QED BY <2>1, <2>3, <2>4
<1>5. L \in 0 .. L
  BY <1>1
<1>6. L \in S
  <2> HIDE DEF S, L
  <2> QED BY <1>1, <1>3, <1>4, <1>5, Upwards
<1> QED BY <1>2, <1>6

-----------------------------------------------------------------------------
(* The load.                                                               *)

Made == Merged(FilesOf(order))

ResultInv ==
  /\ result.state \in {"none", "accepted", "refused"}
  /\ Accepted =>
       walk.end = "done" /\ result.made = Made /\ Complaint(Made, world.clouds).about = "nothing"
  /\ result.state = "refused" =>
       walk.end = "done" /\ result.complaint = Complaint(Made, world.clouds)

(* The load changes its result once, from the walk that is done.           *)
LEMMA ResultKeeps ==
  ASSUME ResultInv, [BuildNext]_buildVars
  PROVE  ResultInv'
<1>1. CASE Walks \/ UNCHANGED buildVars \/ Over
  <2>1. result' = result
    BY <1>1 DEF Walks, Over, buildVars
  <2>2. walk.end = "done" => UNCHANGED walkVars
    BY <1>1 DEF Walks, Over, buildVars, WalkNext, Skip, Enter, Leave, Fail, Finish, Running
  <2>3. CASE walk.end = "done"
    <3>1. UNCHANGED <<world, order, walk>>
      BY <2>2, <2>3 DEF walkVars
    <3>2. Made' = Made
      BY <3>1 DEF Made, FilesOf, Holds
    <3> QED BY <2>1, <3>1, <3>2 DEF ResultInv, Accepted
  <2>4. CASE walk.end # "done"
    BY <2>1, <2>4 DEF ResultInv, Accepted
  <2> QED BY <2>3, <2>4
<1>2. CASE Merge
  <2>1. UNCHANGED <<world, order, walk>> /\ walk.end = "done"
    BY <1>2 DEF Merge, walkVars
  <2>2. Made' = Made
    BY <2>1 DEF Made, FilesOf, Holds
  <2>3. CASE Complaint(Made, world.clouds).about = "nothing"
    <3>1. result' = [state |-> "accepted", made |-> Made]
      BY <1>2, <2>3 DEF Merge, Made
    <3> HIDE DEF Made
    <3>2. result'.state = "accepted" /\ result'.made = Made
      BY <3>1
    <3> QED BY <2>1, <2>2, <2>3, <3>2 DEF ResultInv, Accepted
  <2>4. CASE Complaint(Made, world.clouds).about # "nothing"
    <3>1. /\ result'.state = "refused" /\ result'.complaint = Complaint(Made, world.clouds)
      BY <1>2, <2>4 DEF Merge, Made
    <3> QED BY <2>1, <2>2, <3>1 DEF ResultInv, Accepted
  <2> QED BY <2>3, <2>4
<1> QED BY <1>1, <1>2 DEF BuildNext

LEMMA ResultStarts ==
  ASSUME BuildInit
  PROVE  ResultInv
<1>1. result.state = "none"
  BY DEF BuildInit
<1> QED BY <1>1 DEF ResultInv, Accepted

(* The types of the walk and of its result, and what the result is: the    *)
(* merge of the finished files, or the complaint about it (from_layers).   *)
THEOREM BuildTypesHold == BuildSpec => [](BuildTypeOK /\ WalkInv /\ ResultInv)
<1>1. WalkInv /\ ResultInv => BuildTypeOK
  BY DEF WalkInv, WalkTypes, Once, Within, ResultInv, BuildTypeOK, In, Exists
<1>2. BuildInit => ResultInv
  BY ResultStarts
<1>3. ResultInv /\ [BuildNext]_buildVars => ResultInv'
  BY ResultKeeps
<1>4. BuildSpec => []ResultInv
  BY <1>2, <1>3, PTL DEF BuildSpec
<1> QED BY <1>1, <1>4, WalkHolds, PTL

LEMMA OrderLayered ==
  ASSUME WalkInv
  PROVE  /\ Layered(FilesOf(order), Sourced)
         /\ Len(FilesOf(order)) = Len(order) /\ DOMAIN order = 1 .. Len(order) /\ Len(order) \in Nat
         /\ \A i \in DOMAIN order : /\ FilesOf(order)[i].name = order[i]
                                    /\ FilesOf(order)[i].layer = Holds(order[i])
<1> DEFINE files == FilesOf(order)
<1>1. order \in Seq(Sourced) /\ DOMAIN order = 1 .. Len(order) /\ Len(order) \in Nat
  BY DEF WalkInv, WalkTypes
<1>2. files = [i \in 1 .. Len(order) |-> [name |-> order[i], layer |-> Holds(order[i])]]
  BY <1>1 DEF FilesOf
<1> HIDE DEF files
<1>3. Len(files) = Len(order) /\ \A i \in 1 .. Len(order) : /\ files[i].name = order[i]
                                                            /\ files[i].layer = Holds(order[i])
  BY <1>1, <1>2
<1>4. ASSUME NEW i \in 1 .. Len(order)
      PROVE  files[i].name \in Sourced /\ files[i].layer.routes \in Seq(RouteShapes)
  <2>1. In(world, order[i]) /\ world \in Worlds
    BY <1>1 DEF WalkInv, WalkTypes
  <2>2. Holds(order[i]).routes \in Seq(RouteShapes)
    BY <2>1, ChainAssumption DEF In, Holds
  <2> QED BY <1>1, <1>3, <2>2
<1>5. \A i, j \in 1 .. Len(order) : files[i].name = files[j].name => i = j
  <2>1. \A i, j \in 1 .. Len(order) : order[i] = order[j] => i = j
    BY <1>1 DEF WalkInv, Once
  <2> QED BY <1>3, <2>1
<1>6. Layered(files, Sourced)
  BY <1>1, <1>3, <1>4, <1>5 DEF Layered
<1> QED BY <1>1, <1>3, <1>6 DEF files

(* What the merge makes of the files of the walk.                          *)
LEMMA MadeOf ==
  ASSUME WalkInv
  PROVE  /\ EntriesOf(Made, FilesOf(order), Len(order))
         /\ RoutesOf(Made, FilesOf(order), Len(order), Sourced)
<1>1. Layered(FilesOf(order), Sourced) /\ Len(FilesOf(order)) = Len(order)
  BY OrderLayered
<1> QED BY <1>1, MergedAs DEF Made

(* The ancestors of a file are before it, since its parents are.           *)
LEMMA AncestorsBefore ==
  ASSUME WalkInv, NEW j \in DOMAIN order
  PROVE  Ancestors(j) \subseteq 1 .. j - 1
<1> DEFINE up == 1 .. j - 1
<1>1. DOMAIN order = 1 .. Len(order) /\ Len(order) \in Nat
  BY DEF WalkInv, WalkTypes
<1>2. up \in SUBSET DOMAIN order
  BY <1>1
<1>3. ASSUME NEW k \in DOMAIN order, NEW l \in DOMAIN order, Extends(k, l)
      PROVE  l < k
  <2>1. PICK n \in DOMAIN ParentsOf(order[k]) : Display(ParentsOf(order[k])[n]) = Display(order[l])
    BY <1>3 DEF Extends
  <2>2. n \in DOMAIN Ext(world, order[k]) /\ ParentTexts(world, order[k])[n] = Display(order[l])
    BY <2>1 DEF ParentsOf, Ext, Holds, ParentTexts
  <2>3. PICK i \in 1 .. k - 1 : Display(order[i]) = Display(order[l])
    BY <2>2 DEF WalkInv, Behind
  <2>4. i \in DOMAIN order /\ i < k
    BY <1>1, <2>3
  <2>5. i = l
    BY <2>3, <2>4 DEF WalkInv, Once
  <2> QED BY <2>4, <2>5
<1>4. \A k \in up \union {j} : \A l \in DOMAIN order : Extends(k, l) => l \in up
  <2> SUFFICES ASSUME NEW k \in up \union {j}, NEW l \in DOMAIN order, Extends(k, l)
               PROVE  l \in up
    OBVIOUS
  <2>1. k \in DOMAIN order /\ k <= j
    BY <1>1
  <2>2. l < k
    BY <1>3, <2>1
  <2> QED BY <1>1, <2>1, <2>2
<1> HIDE DEF up
<1>5. \A i \in Ancestors(j) : i \in up
  BY <1>2, <1>4 DEF Ancestors
<1> QED BY <1>5 DEF up

(* The names of the providers that a merge knows are those of its files.   *)
LEMMA NamesKnown ==
  ASSUME WalkInv
  PROVE  ProviderNames(Made) =
           {"console"} \union UNION {DOMAIN Holds(s).providers : s \in Range(order)}
<1> DEFINE files == FilesOf(order)
           K == Len(order)
           theirs == UNION {DOMAIN Holds(s).providers : s \in Range(order)}
<1>1. /\ K \in Nat /\ DOMAIN order = 1 .. K
      /\ \A i \in 1 .. K : files[i].layer = Holds(order[i])
  BY OrderLayered
<1>2. EntriesOf(Made, files, K)
  BY MadeOf
<1> HIDE DEF files, K
<1>3. \A n \in DOMAIN Made.providers : n \in theirs
  <2> SUFFICES ASSUME NEW n \in DOMAIN Made.providers PROVE n \in theirs
    OBVIOUS
  <2>1. PICK i \in 1 .. K : n \in DOMAIN files[i].layer.providers
    BY <1>2 DEF EntriesOf
  <2>2. order[i] \in Range(order) /\ n \in DOMAIN Holds(order[i]).providers
    BY <1>1, <2>1 DEF Range
  <2> QED BY <2>2
<1>4. \A n \in theirs : n \in DOMAIN Made.providers
  <2> SUFFICES ASSUME NEW n \in theirs PROVE n \in DOMAIN Made.providers
    OBVIOUS
  <2>1. PICK s \in Range(order) : n \in DOMAIN Holds(s).providers
    OBVIOUS
  <2>2. PICK i \in 1 .. K : s = order[i]
    BY <1>1 DEF Range
  <2>3. DOMAIN files[i].layer.providers \subseteq DOMAIN Made.providers
    BY <1>2 DEF EntriesOf
  <2> QED BY <1>1, <2>1, <2>2, <2>3
<1> QED BY <1>3, <1>4 DEF ProviderNames

(* A complaint about a route names the file the route is from.             *)
LEMMA ComplaintAtRoute ==
  ASSUME NEW made, NEW clouds, Complaint(made, clouds).about = "route",
         Len(made.routes) \in Nat, DOMAIN made.routes = 1 .. Len(made.routes)
  PROVE  \E i \in 1 .. Len(made.routes) :
           /\ Complaint(made, clouds).at = made.origins[i]
           /\ ~RouteOk(made.routes[i], ProviderNames(made))
<1> DEFINE bad == BadRoutes(made)
           at == CHOOSE i \in bad : \A j \in bad : i <= j
<1>1. bad # {} /\ Complaint(made, clouds).at = made.origins[at]
  BY DEF Complaint
<1>2. bad \subseteq Nat
  BY DEF BadRoutes
<1>3. \E i \in bad : \A j \in bad : i <= j
  <2> HIDE DEF bad
  <2> QED BY <1>1, <1>2, Least
<1>4. at \in bad
  <2> HIDE DEF bad
  <2> QED BY <1>3
<1> HIDE DEF at
<1>5. at \in 1 .. Len(made.routes) /\ ~RouteOk(made.routes[at], ProviderNames(made))
  BY <1>4 DEF BadRoutes
<1> QED BY <1>1, <1>5

(* Parents are merged before their children, and a file wins over its      *)
(* ancestors: over any number of files, the entry of a provider is that of *)
(* the last file that has one, the routes of a later file go first, and a  *)
(* complaint about a route names the file it is from.                      *)
THEOREM ChildrenWin == BuildSpec => []ChildWins
<1>1. WalkInv /\ ResultInv /\ ParentsFirst => ChildWins
  <2> SUFFICES ASSUME WalkInv, ResultInv, ParentsFirst PROVE ChildWins
    OBVIOUS
  <2> DEFINE files == FilesOf(order)
             K == Len(order)
             given(i) == Holds(order[i]).providers
  <2>1. /\ K \in Nat /\ DOMAIN order = 1 .. K
        /\ \A i \in 1 .. K : files[i].name = order[i] /\ files[i].layer = Holds(order[i])
    BY OrderLayered
  <2>2. EntriesOf(Made, files, K) /\ RoutesOf(Made, files, K, Sourced)
    BY MadeOf
  <2>3. \A j \in 1 .. K : Ancestors(j) \subseteq 1 .. j - 1
    BY <2>1, AncestorsBefore
  <2>4. \A i, j \in 1 .. K : order[i] = order[j] => i = j
    BY <2>1 DEF WalkInv, Once
  <2> HIDE DEF files, K
  <2>5. ASSUME NEW n \in DOMAIN Made.providers
        PROVE  \E i \in DOMAIN order :
                 /\ n \in DOMAIN given(i) /\ Made.providers[n] = given(i)[n]
                 /\ \A j \in DOMAIN order : i \in Ancestors(j) => n \notin DOMAIN given(j)
    <3>1. PICK i \in 1 .. K : /\ n \in DOMAIN files[i].layer.providers
                              /\ Made.providers[n] = files[i].layer.providers[n]
                              /\ \A j \in i + 1 .. K : n \notin DOMAIN files[j].layer.providers
      BY <2>2 DEF EntriesOf
    <3>2. ASSUME NEW j \in 1 .. K, i \in Ancestors(j)
          PROVE  n \notin DOMAIN given(j)
      <4>1. i \in 1 .. j - 1
        BY <2>3, <3>2
      <4>2. j \in i + 1 .. K
        BY <2>1, <4>1
      <4> QED BY <2>1, <3>1, <4>2
    <3> QED BY <2>1, <3>1, <3>2
  <2>6. ASSUME NEW i \in DOMAIN Made.origins, NEW j \in DOMAIN Made.origins,
               NEW k \in DOMAIN order, NEW l \in DOMAIN order,
               Made.origins[i].file = order[k], Made.origins[j].file = order[l], l \in Ancestors(k)
        PROVE  i < j
    <3>1. l \in 1 .. k - 1 /\ k \in 1 .. K /\ l \in 1 .. K
      BY <2>1, <2>3, <2>6
    <3>2. l < k /\ l # k
      BY <2>1, <3>1
    <3>3. /\ i \in 1 .. Len(Made.routes) /\ j \in 1 .. Len(Made.routes)
          /\ Len(Made.routes) \in Nat
      BY <2>2, SMTT(40) DEF RoutesOf
    <3>4. i # j
      BY <2>4, <2>6, <3>1, <3>2
    <3>5. j < i => k <= l
      BY <2>1, <2>2, <2>6, <3>1, <3>3, ZenonT(60) DEF RoutesOf
    <3> QED BY <2>1, <3>1, <3>2, <3>3, <3>4, <3>5
  <2>7. ASSUME Complaint(Made, world.clouds).about = "route"
        PROVE  LET at == Complaint(Made, world.clouds).at
                   routes == Holds(at.file).routes
               IN /\ at.file \in Range(order) /\ at.index \in DOMAIN routes
                  /\ ~RouteOk(routes[at.index], {"console"} \union
                       UNION {DOMAIN Holds(s).providers : s \in Range(order)})
    <3>1. Len(Made.routes) \in Nat /\ DOMAIN Made.routes = 1 .. Len(Made.routes)
      BY <2>2 DEF RoutesOf
    <3>2. PICK r \in 1 .. Len(Made.routes) :
            /\ Complaint(Made, world.clouds).at = Made.origins[r]
            /\ ~RouteOk(Made.routes[r], ProviderNames(Made))
      BY <2>7, <3>1, ComplaintAtRoute
    <3>3. PICK i \in 1 .. K : /\ Made.origins[r].file = files[i].name
                              /\ Made.origins[r].index \in DOMAIN files[i].layer.routes
                              /\ Made.routes[r] = files[i].layer.routes[Made.origins[r].index]
      BY <2>2 DEF RoutesOf
    <3>4. files[i].name = order[i] /\ files[i].layer = Holds(order[i]) /\ order[i] \in Range(order)
      BY <2>1 DEF Range
    <3>5. /\ Made.origins[r].file = order[i]
          /\ Made.origins[r].index \in DOMAIN Holds(order[i]).routes
          /\ ~RouteOk(Holds(order[i]).routes[Made.origins[r].index], ProviderNames(Made))
      BY <3>2, <3>3, <3>4
    <3> QED BY <3>2, <3>4, <3>5, NamesKnown
  <2>8. ASSUME Accepted
        PROVE  /\ \A n \in DOMAIN result.made.providers : \E i \in DOMAIN order :
                    /\ n \in DOMAIN given(i) /\ result.made.providers[n] = given(i)[n]
                    /\ \A j \in DOMAIN order : i \in Ancestors(j) => n \notin DOMAIN given(j)
               /\ \A i, j \in DOMAIN result.made.origins : \A k, l \in DOMAIN order :
                    result.made.origins[i].file = order[k] /\ result.made.origins[j].file = order[l]
                      /\ l \in Ancestors(k) => i < j
    <3>1. result.made = Made
      BY <2>8 DEF ResultInv
    <3> QED BY <2>5, <2>6, <3>1
  <2>9. result.state = "refused" => result.complaint = Complaint(Made, world.clouds)
    BY DEF ResultInv
  <2> QED BY <2>7, <2>8, <2>9 DEF ChildWins
<1> QED BY <1>1, BuildTypesHold, ParentsAreFirst, PTL

(* A configuration in effect has, for any world, only routes whose         *)
(* providers it configures, and providers that can send (from_layers).     *)
THEOREM AcceptedIsUsable == BuildSpec => []AcceptedMeansUsable
<1>1. BuildTypeOK /\ WalkInv /\ ResultInv => AcceptedMeansUsable
  <2> SUFFICES ASSUME BuildTypeOK, WalkInv, ResultInv PROVE AcceptedMeansUsable
    OBVIOUS
  <2> DEFINE files == FilesOf(order)
             K == Len(order)
             clouds == world.clouds
  <2>1. /\ K \in Nat /\ DOMAIN order = 1 .. K
        /\ \A i \in 1 .. K : files[i].name = order[i] /\ files[i].layer = Holds(order[i])
    BY OrderLayered
  <2>2. EntriesOf(Made, files, K) /\ RoutesOf(Made, files, K, Sourced)
    BY MadeOf
  <2> HIDE DEF files, K
  <2>3. SUFFICES ASSUME Accepted
                 PROVE  /\ \A s \in Range(order) : \A i \in DOMAIN Holds(s).routes :
                             \A n \in Range(Holds(s).routes[i].providers) :
                               n = "console" \/ n \in DOMAIN Made.providers
                        /\ \A n \in DOMAIN Made.providers :
                             /\ \E s \in Range(order) : /\ n \in DOMAIN Holds(s).providers
                                                        /\ Made.providers[n] = Holds(s).providers[n]
                             /\ n = "slack" => SlackOk(Made.providers[n])
                             /\ n = "email" => EmailOk(Made.providers[n], clouds)
    <3>1. Accepted => result.made = Made
      BY DEF ResultInv
    <3> QED BY <2>3, <3>1 DEF AcceptedMeansUsable
  <2>4. Complaint(Made, clouds).about = "nothing"
    BY <2>3 DEF ResultInv
  <2>5. /\ "email" \in DOMAIN Made.providers => EmailOk(Made.providers["email"], clouds)
        /\ "slack" \in DOMAIN Made.providers => SlackOk(Made.providers["slack"])
        /\ BadRoutes(Made) = {}
    BY <2>4 DEF Complaint
  <2>6. ASSUME NEW s \in Range(order), NEW i \in DOMAIN Holds(s).routes,
               NEW n \in Range(Holds(s).routes[i].providers)
        PROVE  n = "console" \/ n \in DOMAIN Made.providers
    <3>1. PICK k \in 1 .. K : s = order[k]
      BY <2>1 DEF Range
    <3>2. PICK r \in 1 .. Len(Made.routes) : Made.routes[r] = Holds(s).routes[i]
      <4>1. i \in DOMAIN files[k].layer.routes
        BY <2>1, <3>1
      <4>2. PICK r \in 1 .. Len(Made.routes) : Made.routes[r] = files[k].layer.routes[i]
        BY <2>2, <4>1 DEF RoutesOf
      <4> QED BY <2>1, <3>1, <4>2
    <3>3. r \in DOMAIN Made.routes
      BY <2>2 DEF RoutesOf
    <3>4. RouteOk(Made.routes[r], ProviderNames(Made))
      BY <2>5, <3>3 DEF BadRoutes
    <3> QED BY <3>2, <3>4 DEF RouteOk, ProviderNames
  <2>7. ASSUME NEW n \in DOMAIN Made.providers
        PROVE  \E s \in Range(order) : /\ n \in DOMAIN Holds(s).providers
                                       /\ Made.providers[n] = Holds(s).providers[n]
    <3>1. PICK i \in 1 .. K : /\ n \in DOMAIN files[i].layer.providers
                              /\ Made.providers[n] = files[i].layer.providers[n]
      BY <2>2 DEF EntriesOf
    <3>2. order[i] \in Range(order)
      BY <2>1 DEF Range
    <3> QED BY <2>1, <3>1, <3>2
  <2> QED BY <2>5, <2>6, <2>7
<1> QED BY <1>1, BuildTypesHold, PTL

-----------------------------------------------------------------------------
(* How a time is written.                                                  *)

(* What is written is read as the same time.                               *)
LEMMA ShownExactly ==
  ASSUME NEW secs \in Nat
  PROVE  Shown(secs).n * UnitSecs[Shown(secs).unit] = secs
<1> DEFINE fits(unit) == secs > 0 /\ secs % UnitSecs[unit] = 0
<1>1. /\ UnitSecs["s"] = 1 /\ UnitSecs["m"] = 60 /\ UnitSecs["h"] = 3600 /\ UnitSecs["d"] = 86400
  BY DEF UnitSecs
<1>2. /\ (secs \div 1) * 1 = secs
      /\ secs % 60 = 0 => (secs \div 60) * 60 = secs
      /\ secs % 3600 = 0 => (secs \div 3600) * 3600 = secs
      /\ secs % 86400 = 0 => (secs \div 86400) * 86400 = secs
  OBVIOUS
<1>3. \/ fits("d") /\ Shown(secs) = [n |-> secs \div UnitSecs["d"], unit |-> "d"]
      \/ fits("h") /\ ~fits("d") /\ Shown(secs) = [n |-> secs \div UnitSecs["h"], unit |-> "h"]
      \/ fits("m") /\ ~fits("h") /\ Shown(secs) = [n |-> secs \div UnitSecs["m"], unit |-> "m"]
      \/ ~fits("m") /\ Shown(secs) = [n |-> secs \div UnitSecs["s"], unit |-> "s"]
  BY DEF Shown
<1> QED BY <1>1, <1>2, <1>3

LEMMA SecondsNat ==
  ASSUME NEW w, w.n \in Nat, w.unit \in DOMAIN UnitSecs
  PROVE  Seconds(w) \in Nat
<1>1. w.unit \in {"s", "m", "h", "d"}
  BY DEF UnitSecs
<1>2. UnitSecs[w.unit] \in Nat
  BY <1>1 DEF UnitSecs
<1>3. w.n * UnitSecs[w.unit] \in Nat
  BY <1>2
<1> QED BY <1>3, ChainAssumption DEF Seconds

(* Two times are written alike only if they are the same.                  *)
LEMMA ShownTells ==
  ASSUME NEW w, w.n \in Nat, w.unit \in DOMAIN UnitSecs,
         NEW v, v.n \in Nat, v.unit \in DOMAIN UnitSecs
  PROVE  Shown(Seconds(w)) = Shown(Seconds(v)) <=> Seconds(w) = Seconds(v)
<1>1. Seconds(w) \in Nat /\ Seconds(v) \in Nat
  BY SecondsNat
<1>2. /\ Shown(Seconds(w)).n * UnitSecs[Shown(Seconds(w)).unit] = Seconds(w)
      /\ Shown(Seconds(v)).n * UnitSecs[Shown(Seconds(v)).unit] = Seconds(v)
  BY <1>1, ShownExactly
<1>3. Shown(Seconds(w)) = Shown(Seconds(v)) => Seconds(w) = Seconds(v)
  <2> DEFINE x == Shown(Seconds(w))
             y == Shown(Seconds(v))
  <2>1. x = y => x.n * UnitSecs[x.unit] = y.n * UnitSecs[y.unit]
    <3> HIDE DEF x, y
    <3> QED OBVIOUS
  <2> QED BY <1>2, <2>1
<1> QED BY <1>3

(* Times put one way and times put another agree.                          *)
Alike(s, f, t, g) == DOMAIN s = DOMAIN t /\ \A i \in DOMAIN s : f[s[i]] = g[t[i]]
LimitsAlike(s, f, t, g) ==
  DOMAIN s = DOMAIN t /\ \A i \in DOMAIN s : s[i].max = t[i].max /\ f[s[i].per] = g[t[i].per]

LEMMA PutAlike ==
  ASSUME NEW a, NEW b, NEW f, NEW g
  PROVE  Put(a, f) = Put(b, g) <=>
           /\ a.providers = b.providers /\ a.by = b.by
           /\ Alike(a.dedup, f, b.dedup, g) /\ Alike(a.wait, f, b.wait, g)
           /\ LimitsAlike(a.limit, f, b.limit, g)
<1> DEFINE times(s, h) == [i \in DOMAIN s |-> h[s[i]]]
           limits(s, h) == [i \in DOMAIN s |-> [max |-> s[i].max, per |-> h[s[i].per]]]
<1>1. Put(a, f) = [providers |-> a.providers, by |-> a.by, dedup |-> times(a.dedup, f),
                   wait |-> times(a.wait, f), limit |-> limits(a.limit, f)]
  BY DEF Put
<1>2. Put(b, g) = [providers |-> b.providers, by |-> b.by, dedup |-> times(b.dedup, g),
                   wait |-> times(b.wait, g), limit |-> limits(b.limit, g)]
  BY DEF Put
<1>3. ASSUME NEW s, NEW t
      PROVE  times(s, f) = times(t, g) <=> Alike(s, f, t, g)
  <2>1. ASSUME times(s, f) = times(t, g)
        PROVE  Alike(s, f, t, g)
    <3>1. /\ DOMAIN times(s, f) = DOMAIN s /\ DOMAIN times(t, g) = DOMAIN t
          /\ \A i \in DOMAIN s : times(s, f)[i] = f[s[i]]
          /\ \A i \in DOMAIN t : times(t, g)[i] = g[t[i]]
      OBVIOUS
    <3> HIDE DEF times
    <3> QED BY <2>1, <3>1 DEF Alike
  <2>2. Alike(s, f, t, g) => times(s, f) = times(t, g)
    BY DEF Alike
  <2> QED BY <2>1, <2>2
<1>4. ASSUME NEW s, NEW t
      PROVE  limits(s, f) = limits(t, g) <=> LimitsAlike(s, f, t, g)
  <2>1. ASSUME limits(s, f) = limits(t, g)
        PROVE  LimitsAlike(s, f, t, g)
    <3>1. /\ DOMAIN limits(s, f) = DOMAIN s /\ DOMAIN limits(t, g) = DOMAIN t
          /\ \A i \in DOMAIN s : limits(s, f)[i].max = s[i].max /\ limits(s, f)[i].per = f[s[i].per]
          /\ \A i \in DOMAIN t : limits(t, g)[i].max = t[i].max /\ limits(t, g)[i].per = g[t[i].per]
      OBVIOUS
    <3> HIDE DEF limits
    <3> QED BY <2>1, <3>1 DEF LimitsAlike
  <2>2. LimitsAlike(s, f, t, g) => limits(s, f) = limits(t, g)
    BY DEF LimitsAlike
  <2> QED BY <2>1, <2>2
<1> HIDE DEF times, limits
<1>5. Put(a, f) = Put(b, g) <=>
        /\ a.providers = b.providers /\ a.by = b.by /\ times(a.dedup, f) = times(b.dedup, g)
        /\ times(a.wait, f) = times(b.wait, g) /\ limits(a.limit, f) = limits(b.limit, g)
  BY <1>1, <1>2
<1> QED BY <1>3, <1>4, <1>5

(* Two routes with good units have one key exactly if they are the same.   *)
LEMMA KeysTellRoutes ==
  ASSUME NEW a \in RouteShapes, NEW b \in RouteShapes,
         \A w \in Windows(a) \union Windows(b) : w.n \in Nat /\ w.unit \in DOMAIN UnitSecs
  PROVE  LET secs == [w \in Windows(a) \union Windows(b) |-> Seconds(w)]
         IN RouteKey(a) = RouteKey(b) <=> Put(a, secs) = Put(b, secs)
<1> DEFINE all == Windows(a) \union Windows(b)
           secs == [w \in all |-> Seconds(w)]
           f == [w \in Windows(a) |-> Shown(Seconds(w))]
           g == [w \in Windows(b) |-> Shown(Seconds(w))]
<1>1. \A w \in Windows(a) : \A v \in Windows(b) : f[w] = g[v] <=> secs[w] = secs[v]
  <2> SUFFICES ASSUME NEW w \in Windows(a), NEW v \in Windows(b)
               PROVE  f[w] = g[v] <=> secs[w] = secs[v]
    OBVIOUS
  <2>1. f[w] = Shown(Seconds(w)) /\ g[v] = Shown(Seconds(v))
    OBVIOUS
  <2>2. secs[w] = Seconds(w) /\ secs[v] = Seconds(v)
    OBVIOUS
  <2>3. /\ w.n \in Nat /\ w.unit \in DOMAIN UnitSecs
        /\ v.n \in Nat /\ v.unit \in DOMAIN UnitSecs
    OBVIOUS
  <2> HIDE DEF f, g, secs
  <2> QED BY <2>1, <2>2, <2>3, ShownTells
<1>2. /\ \A i \in DOMAIN a.dedup : a.dedup[i] \in Windows(a)
      /\ \A i \in DOMAIN a.wait : a.wait[i] \in Windows(a)
      /\ \A i \in DOMAIN a.limit : a.limit[i].per \in Windows(a)
  BY DEF Windows, Range
<1>3. /\ \A i \in DOMAIN b.dedup : b.dedup[i] \in Windows(b)
      /\ \A i \in DOMAIN b.wait : b.wait[i] \in Windows(b)
      /\ \A i \in DOMAIN b.limit : b.limit[i].per \in Windows(b)
  BY DEF Windows, Range
<1> HIDE DEF f, g, secs
<1>4. Alike(a.dedup, f, b.dedup, g) <=> Alike(a.dedup, secs, b.dedup, secs)
  BY <1>1, <1>2, <1>3 DEF Alike
<1>5. Alike(a.wait, f, b.wait, g) <=> Alike(a.wait, secs, b.wait, secs)
  BY <1>1, <1>2, <1>3 DEF Alike
<1>6. LimitsAlike(a.limit, f, b.limit, g) <=> LimitsAlike(a.limit, secs, b.limit, secs)
  BY <1>1, <1>2, <1>3 DEF LimitsAlike
<1>7. Put(a, f) = Put(b, g) <=> Put(a, secs) = Put(b, secs)
  BY <1>4, <1>5, <1>6, PutAlike
<1>8. RouteKey(a) = Put(a, f) /\ RouteKey(b) = Put(b, g)
  BY DEF RouteKey, f, g
<1> QED BY <1>7, <1>8 DEF secs

LEMMA WindowTimes ==
  ASSUME NEW a \in RouteShapes, NEW w \in Windows(a)
  PROVE  w.n \in Nat
<1>1. a.dedup \in Seq(Times) /\ a.wait \in Seq(Times) /\ a.limit \in Seq([max : Nat, per : Times])
  BY DEF RouteShapes
<1>2. w \in Times
  <2>1. CASE w \in Range(a.dedup) \/ w \in Range(a.wait)
    BY <1>1, <2>1 DEF Range
  <2>2. CASE w \in {a.limit[i].per : i \in DOMAIN a.limit}
    <3>1. PICK i \in DOMAIN a.limit : w = a.limit[i].per
      BY <2>2
    <3>2. a.limit[i] \in [max : Nat, per : Times]
      <4>1. ASSUME NEW A, NEW s \in Seq(A), NEW j \in DOMAIN s
            PROVE  s[j] \in A
        OBVIOUS
      <4> QED BY <1>1, <4>1
    <3> QED BY <3>1, <3>2
  <2> QED BY <2>1, <2>2 DEF Windows
<1> QED BY <1>2 DEF Times

(* Two routes of a configuration share a history exactly if they are the   *)
(* same: the key of a route (route_key) writes every time exactly.         *)
THEOREM RoutesShareHistory == BuildSpec => []SameRouteSameHistory
<1>1. WalkInv /\ ResultInv => SameRouteSameHistory
  <2> SUFFICES ASSUME WalkInv, ResultInv, Accepted PROVE SameRouteSameHistory
    BY DEF SameRouteSameHistory
  <2> DEFINE files == FilesOf(order)
             K == Len(order)
  <2>1. /\ K \in Nat /\ DOMAIN order = 1 .. K
        /\ \A i \in 1 .. K : files[i].name = order[i] /\ files[i].layer = Holds(order[i])
    BY OrderLayered
  <2>2. RoutesOf(Made, files, K, Sourced)
    BY MadeOf
  <2> HIDE DEF files, K
  <2>3. ASSUME NEW r \in DOMAIN Made.routes
        PROVE  /\ Made.routes[r] \in RouteShapes
               /\ \A w \in Windows(Made.routes[r]) : w.n \in Nat /\ w.unit \in DOMAIN UnitSecs
    <3>1. r \in 1 .. Len(Made.routes) /\ Made.routes[r] \in RouteShapes
      BY <2>2 DEF RoutesOf
    <3>2. PICK i \in 1 .. K : /\ Made.origins[r].index \in DOMAIN files[i].layer.routes
                              /\ Made.routes[r] = files[i].layer.routes[Made.origins[r].index]
      BY <2>2, <3>1 DEF RoutesOf
    <3>3. WellFormed(Holds(order[i]))
      BY <2>1 DEF WalkInv, WalkTypes, In, Holds
    <3>4. \A w \in Windows(Made.routes[r]) : w.unit \in DOMAIN UnitSecs
      BY <2>1, <3>2, <3>3 DEF WellFormed
    <3> QED BY <3>1, <3>4, WindowTimes
  <2>4. result.made = Made
    BY DEF ResultInv
  <2>5. ASSUME NEW i \in DOMAIN Made.routes, NEW j \in DOMAIN Made.routes
        PROVE  LET a == Made.routes[i]
                   b == Made.routes[j]
                   secs == [w \in Windows(a) \union Windows(b) |-> Seconds(w)]
               IN RouteKey(a) = RouteKey(b) <=> Put(a, secs) = Put(b, secs)
    BY <2>3, KeysTellRoutes
  <2> QED BY <2>4, <2>5 DEF SameRouteSameHistory
<1> QED BY <1>1, BuildTypesHold, PTL

-----------------------------------------------------------------------------
(* What is written of a source is read as that source.                     *)

(* ValueOf of no pair, of one, of two.                                     *)
LEMMA ValueNone ==
  ASSUME NEW m
  PROVE  ValueOf(<<>>, m) = <<>>
  BY DEF ValueOf

LEMMA ValueOne ==
  ASSUME NEW x, NEW m
  PROVE  /\ x.name = m => ValueOf(<<x>>, m) = x.value
         /\ x.name # m => ValueOf(<<x>>, m) = <<>>
<1> DEFINE q == <<x>>
<1>1. DOMAIN q = {1} /\ q[1] = x
  OBVIOUS
<1>2. Range(q) = {x}
  <2> HIDE DEF q
  <2> QED BY <1>1 DEF Range
<1> HIDE DEF q
<1>3. x.name = m => (CHOOSE p \in Range(q) : p.name = m) = x
  BY <1>2
<1>4. /\ x.name = m => ValueOf(q, m) = x.value
      /\ x.name # m => ValueOf(q, m) = <<>>
  BY <1>1, <1>3 DEF ValueOf
<1> QED BY <1>4 DEF q

LEMMA ValueTwo ==
  ASSUME NEW x, NEW y, x.name # y.name
  PROVE  /\ ValueOf(<<x, y>>, x.name) = x.value
         /\ ValueOf(<<x, y>>, y.name) = y.value
<1> DEFINE q == <<x, y>>
<1>1. DOMAIN q = {1, 2} /\ q[1] = x /\ q[2] = y
  OBVIOUS
<1>2. Range(q) = {x, y}
  <2> HIDE DEF q
  <2> QED BY <1>1 DEF Range
<1> HIDE DEF q
<1>3. /\ (CHOOSE p \in Range(q) : p.name = x.name) = x
      /\ (CHOOSE p \in Range(q) : p.name = y.name) = y
  BY <1>2
<1>4. ValueOf(q, x.name) = x.value /\ ValueOf(q, y.name) = y.value
  BY <1>1, <1>3 DEF ValueOf
<1> QED BY <1>4 DEF q

(* GoodQuery of one pair, of two, of none.                                 *)
LEMMA QueryOne ==
  ASSUME NEW x, NEW kind, x.name \in Range(ParamsOf(kind)), x.value # <<>>
  PROVE  GoodQuery(<<x>>, kind)
<1> DEFINE q == <<x>>
<1>1. DOMAIN q = {1} /\ q[1] = x
  OBVIOUS
<1> HIDE DEF q
<1>2. GoodQuery(q, kind)
  BY <1>1 DEF GoodQuery
<1> QED BY <1>2 DEF q

LEMMA QueryTwo ==
  ASSUME NEW x, NEW y, x.name # y.name, NEW kind,
         x.name \in Range(ParamsOf(kind)), y.name \in Range(ParamsOf(kind)),
         x.value # <<>>, y.value # <<>>
  PROVE  GoodQuery(<<x, y>>, kind)
<1> DEFINE q == <<x, y>>
<1>1. DOMAIN q = {1, 2} /\ q[1] = x /\ q[2] = y
  OBVIOUS
<1> HIDE DEF q
<1>2. GoodQuery(q, kind)
  BY <1>1 DEF GoodQuery
<1> QED BY <1>2 DEF q

LEMMA QueryNone ==
  ASSUME NEW kind
  PROVE  GoodQuery(<<>>, kind)
  BY DEF GoodQuery

(* The pair that is written for the i-th parameter, if it is set.          *)
PairOf(s, i) ==
  IF i \in DOMAIN s.params /\ s.params[i] # <<>>
  THEN <<[name |-> ParamsOf(s.kind)[i], value |-> s.params[i]]>>
  ELSE <<>>

LEMMA ParamsNames ==
  ASSUME NEW kind \in DOMAIN Params
  PROVE  /\ \/ DOMAIN ParamsOf(kind) = {1}
            \/ DOMAIN ParamsOf(kind) = {1, 2} /\ ParamsOf(kind)[1] # ParamsOf(kind)[2]
         /\ \A i \in DOMAIN ParamsOf(kind) : ParamsOf(kind)[i] \in Range(ParamsOf(kind))
<1>1. kind \in {"azappconfig", "dynamodb", "firestore", "cosmos"}
  BY DEF Params
<1>2. /\ kind = "azappconfig" => ParamsOf(kind) = <<"label">>
      /\ kind = "dynamodb" => ParamsOf(kind) = <<"key", "value">>
      /\ kind = "firestore" => ParamsOf(kind) = <<"database", "field">>
      /\ kind = "cosmos" => ParamsOf(kind) = <<"pk", "field">>
  BY DEF Params, ParamsOf
<1>3. /\ DOMAIN <<"label">> = {1}
      /\ DOMAIN <<"key", "value">> = {1, 2} /\ <<"key", "value">>[1] # <<"key", "value">>[2]
      /\ DOMAIN <<"database", "field">> = {1, 2}
      /\ <<"database", "field">>[1] # <<"database", "field">>[2]
      /\ DOMAIN <<"pk", "field">> = {1, 2} /\ <<"pk", "field">>[1] # <<"pk", "field">>[2]
  OBVIOUS
<1>4. \A i \in DOMAIN ParamsOf(kind) : ParamsOf(kind)[i] \in Range(ParamsOf(kind))
  BY DEF Range
<1> QED BY <1>1, <1>2, <1>3, <1>4

(* The parameters that are written are the ones that are read.             *)
LEMMA GivenRead ==
  ASSUME NEW s, s.kind \in DOMAIN Params, DOMAIN s.params = DOMAIN ParamsOf(s.kind)
  PROVE  /\ GoodQuery(Given(s), s.kind)
         /\ \A i \in DOMAIN s.params : ValueOf(Given(s), ParamsOf(s.kind)[i]) = s.params[i]
<1> DEFINE kind == s.kind
           names == ParamsOf(s.kind)
           p == s.params
           x == [name |-> names[1], value |-> p[1]]
           y == [name |-> names[2], value |-> p[2]]
<1>0. /\ x.name = names[1] /\ x.value = p[1]
      /\ y.name = names[2] /\ y.value = p[2]
  OBVIOUS
<1>1. Given(s) = PairOf(s, 1) \o PairOf(s, 2)
  BY DEF Given, PairOf
<1>2. /\ PairOf(s, 1) = IF 1 \in DOMAIN p /\ p[1] # <<>> THEN <<x>> ELSE <<>>
      /\ PairOf(s, 2) = IF 2 \in DOMAIN p /\ p[2] # <<>> THEN <<y>> ELSE <<>>
  BY DEF PairOf
<1>3. /\ DOMAIN p = {1} \/ (DOMAIN p = {1, 2} /\ names[1] # names[2])
      /\ \A i \in DOMAIN p : names[i] \in Range(names)
  BY ParamsNames
<1> HIDE DEF x, y, names, p
<1>4. /\ <<>> \o <<>> = <<>> /\ <<x>> \o <<>> = <<x>> /\ <<>> \o <<y>> = <<y>>
      /\ <<x>> \o <<y>> = <<x, y>>
  <2>1. <<>> \o <<>> = <<>>
    OBVIOUS
  <2>2. ASSUME NEW A, NEW a \in A
        PROVE  <<a>> \o <<>> = <<a>> /\ <<>> \o <<a>> = <<a>>
    OBVIOUS
  <2>3. ASSUME NEW A, NEW a \in A, NEW b \in A
        PROVE  <<a>> \o <<b>> = <<a, b>>
    <3> DEFINE r == <<a>> \o <<b>>
    <3>1. r \in Seq(A) /\ Len(r) = 2 /\ r[1] = a /\ r[2] = b
      <4>1. <<a>> \in Seq(A) /\ <<b>> \in Seq(A) /\ Len(<<a>>) = 1 /\ Len(<<b>>) = 1
        OBVIOUS
      <4>2. /\ r \in Seq(A) /\ Len(r) = 1 + 1 /\ r[1] = <<a>>[1] /\ r[1 + 1] = <<b>>[1]
        BY <4>1, Prepended
      <4> QED BY <4>2
    <3> HIDE DEF r
    <3>2. r = <<r[1], r[2]>>
      BY <3>1
    <3> QED BY <3>1, <3>2 DEF r
  <2>4. x \in {x, y} /\ y \in {x, y}
    OBVIOUS
  <2> QED BY <2>1, <2>2, <2>3, <2>4
<1>5. CASE 1 \in DOMAIN p /\ p[1] # <<>> /\ 2 \in DOMAIN p /\ p[2] # <<>>
  <2>1. Given(s) = <<x, y>>
    BY <1>1, <1>2, <1>4, <1>5
  <2>2. x.name # y.name /\ DOMAIN p = {1, 2}
    BY <1>0, <1>3, <1>5
  <2>3. GoodQuery(<<x, y>>, kind)
    BY <1>0, <1>3, <1>5, <2>2, QueryTwo DEF names
  <2>4. ValueOf(<<x, y>>, names[1]) = p[1] /\ ValueOf(<<x, y>>, names[2]) = p[2]
    BY <1>0, <2>2, ValueTwo
  <2> QED BY <2>1, <2>2, <2>3, <2>4 DEF names, p
<1>6. CASE 1 \in DOMAIN p /\ p[1] # <<>> /\ ~(2 \in DOMAIN p /\ p[2] # <<>>)
  <2>1. Given(s) = <<x>>
    BY <1>1, <1>2, <1>4, <1>6
  <2>2. GoodQuery(<<x>>, kind)
    BY <1>0, <1>3, <1>6, QueryOne DEF names
  <2>3. ValueOf(<<x>>, names[1]) = p[1]
    BY <1>0, ValueOne
  <2>4. 2 \in DOMAIN p => ValueOf(<<x>>, names[2]) = p[2]
    BY <1>0, <1>3, <1>6, ValueOne
  <2> QED BY <1>3, <2>1, <2>2, <2>3, <2>4 DEF names, p
<1>7. CASE ~(1 \in DOMAIN p /\ p[1] # <<>>) /\ 2 \in DOMAIN p /\ p[2] # <<>>
  <2>1. Given(s) = <<y>>
    BY <1>1, <1>2, <1>4, <1>7
  <2>2. GoodQuery(<<y>>, kind)
    BY <1>0, <1>3, <1>7, QueryOne DEF names
  <2>3. ValueOf(<<y>>, names[2]) = p[2]
    BY <1>0, ValueOne
  <2>4. DOMAIN p = {1, 2} /\ names[1] # names[2] /\ p[1] = <<>>
    BY <1>3, <1>7
  <2>5. ValueOf(<<y>>, names[1]) = p[1]
    BY <1>0, <2>4, ValueOne
  <2> QED BY <2>1, <2>2, <2>3, <2>4, <2>5 DEF names, p
<1>8. CASE ~(1 \in DOMAIN p /\ p[1] # <<>>) /\ ~(2 \in DOMAIN p /\ p[2] # <<>>)
  <2>1. Given(s) = <<>>
    BY <1>1, <1>2, <1>4, <1>8
  <2>2. \A i \in DOMAIN p : p[i] = <<>>
    BY <1>3, <1>8
  <2> QED BY <2>1, <2>2, QueryNone, ValueNone DEF names, p
<1> QED BY <1>5, <1>6, <1>7, <1>8

KeyNamed(s) == Len(s.path) = 1 => s.path[1] # ""

LEMMA PlainlyNamed ==
  ASSUME NEW s, Entire(s), Plainly(s)
  PROVE  KeyNamed(s)
<1>1. ASSUME NEW A, NEW q \in Seq(A), Len(q) = 1
      PROVE  q = <<q[1]>>
  BY <1>1
<1>2. s.path \in Seq(STRING)
  BY DEF Entire
<1>3. Len(s.path) = 1 => s.path = <<s.path[1]>>
  BY <1>1, <1>2
<1>4. s.path # <<"">>
  BY DEF Plainly
<1> QED BY <1>3, <1>4 DEF KeyNamed

(* What two sequences hold when one is written behind the other.           *)
LEMMA SideBySide ==
  ASSUME NEW A, NEW p \in Seq(A), NEW q \in Seq(A), q # <<>>
  PROVE  /\ Len(p \o q) = Len(p) + Len(q)
         /\ \A i \in DOMAIN (p \o q) :
              \/ i \in DOMAIN p /\ (p \o q)[i] = p[i]
              \/ \E l \in DOMAIN q : (p \o q)[i] = q[l]
         /\ Len(p) = 0 => (p \o q)[1] = q[1]
         /\ Len(p) = 1 => /\ Len(p \o q) > 1
                          /\ (p \o q)[1] = p[1]
                          /\ Len(p \o q) = 2 => Len(q) = 1 /\ (p \o q)[2] = q[1]
<1>1. /\ Len(p) \in Nat /\ Len(q) \in Nat /\ Len(q) > 0
      /\ DOMAIN p = 1 .. Len(p) /\ DOMAIN q = 1 .. Len(q)
  OBVIOUS
<1>2. /\ Len(p \o q) = Len(p) + Len(q) /\ DOMAIN (p \o q) = 1 .. Len(p) + Len(q)
      /\ \A i \in 1 .. Len(p) : (p \o q)[i] = p[i]
      /\ \A i \in 1 .. Len(q) : (p \o q)[Len(p) + i] = q[i]
      /\ \A i \in 1 .. Len(p) + Len(q) :
           i \in 1 .. Len(p) \/ \E l \in 1 .. Len(q) : i = Len(p) + l
  BY Prepended
<1>3. ASSUME NEW i \in DOMAIN (p \o q)
      PROVE  \/ i \in DOMAIN p /\ (p \o q)[i] = p[i]
             \/ \E l \in DOMAIN q : (p \o q)[i] = q[l]
  <2>1. CASE i \in 1 .. Len(p)
    BY <1>1, <1>2, <2>1
  <2>2. CASE i \notin 1 .. Len(p)
    <3>1. PICK l \in 1 .. Len(q) : i = Len(p) + l
      BY <1>2, <2>2
    <3>2. (p \o q)[i] = q[l]
      BY <1>2, <3>1
    <3> QED BY <1>1, <3>1, <3>2
  <2> QED BY <2>1, <2>2
<1> DEFINE r == p \o q
<1>4. ASSUME Len(p) = 0 PROVE r[1] = q[1]
  <2>1. r[0 + 1] = q[1]
    BY <1>1, <1>2, <1>4
  <2> QED BY <2>1
<1>5. ASSUME Len(p) = 1
      PROVE  Len(r) > 1 /\ r[1] = p[1] /\ (Len(r) = 2 => Len(q) = 1 /\ r[2] = q[1])
  <2>1. Len(r) > 1 /\ r[1] = p[1]
    BY <1>1, <1>2, <1>5
  <2>2. ASSUME Len(r) = 2 PROVE Len(q) = 1 /\ r[2] = q[1]
    <3>1. Len(p) + 1 = 2 /\ 1 \in 1 .. Len(q)
      BY <1>1, <1>5
    <3>2. r[2] = q[1]
      BY <1>2, <3>1
    <3>3. Len(q) = 1
      BY <1>1, <1>2, <1>5, <2>2
    <3> QED BY <3>2, <3>3
  <2> QED BY <2>1, <2>2
<1> QED BY <1>2, <1>3, <1>4, <1>5

Beginning(segs, place, path, n) ==
  /\ Len(segs) = n + Len(path)
  /\ n = 0 => segs[1] = path[1]
  /\ n = 1 => /\ Len(segs) > 1
              /\ segs[1] = place[1]
              /\ Len(segs) = 2 => Len(path) = 1 /\ segs[2] = path[1]
Either(segs, place, path) ==
  \A i \in DOMAIN segs : \/ i \in DOMAIN place /\ segs[i] = place[i]
                         \/ \E l \in DOMAIN path : segs[i] = path[l]

LEMMA WrittenTogether ==
  ASSUME NEW p \in Seq(STRING), NEW q \in Seq(STRING), q # <<>>
  PROVE  Beginning(p \o q, p, q, Len(p)) /\ Either(p \o q, p, q)
BY SideBySide DEF Beginning, Either

LEMMA AllFilled ==
  ASSUME NEW p, NEW q, NEW r, Either(r, p, q), Filled(p), Filled(q)
  PROVE  \A i \in DOMAIN r : r[i] # ""
BY DEF Either, Filled

(* What is written of a source keeps to the shape its kind asks for.       *)
LEMMA ShapeWritten ==
  ASSUME NEW s, Entire(s), Shaped(s), IsRemote(s), KeyNamed(s), NEW query
  PROVE  GoodShape(s.kind, s.place \o s.path, query)
<1> DEFINE kind == s.kind
           place == s.place
           path == s.path
           segs == s.place \o s.path
           n == PlaceLen(s.kind)
<1>1. /\ place \in Seq(STRING) /\ path \in Seq(STRING) /\ path # <<>>
      /\ Len(place) = n /\ kind \in Kinds
  BY DEF Entire, Shaped, IsRemote
<1>2. Beginning(segs, place, path, n) /\ Either(segs, place, path)
  BY <1>1, WrittenTogether
<1>3. Len(path) \in Nat /\ Len(path) > 0
  <2>1. ASSUME NEW A, NEW q \in Seq(A), q # <<>>
        PROVE  Len(q) \in Nat /\ Len(q) > 0
    BY <2>1
  <2> QED BY <1>1, <2>1
<1>4. Len(path) = 1 => path[1] # ""
  BY DEF KeyNamed
<1>5. Filled(place) /\ Filled(path) => \A i \in DOMAIN segs : segs[i] # ""
  BY <1>2, AllFilled
<1> HIDE DEF segs
<1>6. CASE kind \in {"s3", "gs", "az", "azappconfig"}
  <2>1. n = 1 /\ place[1] # ""
    BY <1>6 DEF PlaceLen, Shaped
  <2>2. /\ Len(segs) > 1 /\ segs[1] = place[1]
        /\ Len(segs) = 2 => Len(path) = 1 /\ segs[2] = path[1]
    BY <1>2, <2>1 DEF Beginning
  <2>3. segs[1] # "" /\ ~(Len(segs) = 2 /\ segs[2] = "")
    BY <1>4, <2>1, <2>2
  <2> QED BY <1>6, <2>2, <2>3 DEF GoodShape, segs
<1>7. CASE kind \in {"appconfig", "dynamodb", "cosmos"}
  <2>1. Filled(place) /\ Filled(path) /\ Len(path) = 1
    BY <1>7 DEF Shaped
  <2>2. (\A i \in DOMAIN segs : segs[i] # "") /\ Len(segs) = n + 1
    BY <1>2, <1>5, <2>1 DEF Beginning
  <2>3. /\ kind = "appconfig" => n = 2
        /\ kind = "dynamodb" => n = 1
        /\ kind = "cosmos" => n = 3
    BY DEF PlaceLen
  <2>4. 2 + 1 = 3 /\ 1 + 1 = 2 /\ 3 + 1 = 4
    OBVIOUS
  <2>5. /\ kind = "appconfig" => Len(segs) = 3
        /\ kind = "dynamodb" => Len(segs) = 2
        /\ kind = "cosmos" => Len(segs) = 4
    BY <2>2, <2>3, <2>4
  <2> QED BY <1>7, <2>2, <2>5 DEF GoodShape, segs
<1>8. CASE kind = "firestore"
  <2>1. Filled(place) /\ Filled(path) /\ Len(path) % 2 = 0 /\ n = 1
    BY <1>8 DEF Shaped, PlaceLen
  <2>2. (\A i \in DOMAIN segs : segs[i] # "") /\ Len(segs) = 1 + Len(path)
    BY <1>2, <1>5, <2>1 DEF Beginning
  <2>3. ASSUME NEW k \in Nat, k > 0, k % 2 = 0
        PROVE  (1 + k) % 2 = 1 /\ 1 + k > 1
    BY <2>3
  <2>4. Len(segs) % 2 = 1 /\ Len(segs) > 1
    BY <1>3, <2>1, <2>2, <2>3
  <2> QED BY <1>8, <2>2, <2>4 DEF GoodShape, segs
<1>9. CASE kind = "http"
  <2>1. n = 0 /\ path[1] \in Loopback
    BY <1>9 DEF Shaped, PlaceLen
  <2>2. segs[1] = path[1]
    BY <1>2, <2>1 DEF Beginning
  <2> QED BY <1>9, <2>1, <2>2 DEF GoodShape, segs
<1>10. CASE kind = "https"
  BY <1>10 DEF GoodShape
<1> QED BY <1>1, <1>6, <1>7, <1>8, <1>9, <1>10 DEF Kinds, CloudOf

(* Display, and Parse behind it, gives the same source again.              *)
LEMMA RoundTrip ==
  ASSUME NEW s, Entire(s), Shaped(s), IsRemote(s), Plainly(s)
  PROVE  Parse(Display(s)) = s
<1> DEFINE kind == s.kind
           place == s.place
           path == s.path
           segs == s.place \o s.path
           query == RunTogether(s.tail, Given(s))
           t == Display(s)
<1>1. /\ place \in Seq(STRING) /\ path \in Seq(STRING) /\ path # <<>>
      /\ s.params \in Seq(Seq(STRING)) /\ DOMAIN s.params = DOMAIN ParamsOf(kind)
      /\ Len(place) = PlaceLen(kind) /\ kind \in Kinds /\ kind # "file"
      /\ s = Source(kind, place, path, s.tail, s.params)
  BY DEF Entire, Shaped, IsRemote
<1>2. kind # ""
  BY <1>1 DEF Kinds, CloudOf
<1>3. t.scheme = kind /\ t.segs = segs /\ t.query = query
  BY <1>1 DEF Display, Text
<1>4. GoodShape(kind, segs, query)
  <2>1. KeyNamed(s)
    BY PlainlyNamed
  <2> QED BY <2>1, ShapeWritten
<1>5. SubSeq(segs, 1, Len(place)) = place /\ SubSeq(segs, Len(place) + 1, Len(segs)) = path
  <2>1. ASSUME NEW A, NEW p \in Seq(A), NEW q \in Seq(A)
        PROVE  SubSeq(p \o q, 1, Len(p)) = p /\ SubSeq(p \o q, Len(p) + 1, Len(p \o q)) = q
    OBVIOUS
  <2> QED BY <1>1, <2>1
<1>6. CASE kind \in DOMAIN Params
  <2>1. query = Given(s) /\ s.tail = <<>>
    BY <1>6 DEF Plainly, RunTogether
  <2>2. ParamsOf(kind) # <<>>
    <3>1. 1 \in DOMAIN ParamsOf(kind)
      BY <1>6, ParamsNames
    <3>2. DOMAIN ParamsOf(kind) # {}
      BY <3>1
    <3> QED BY <3>2
  <2>3. /\ GoodQuery(query, kind)
        /\ \A i \in DOMAIN s.params : ValueOf(query, ParamsOf(kind)[i]) = s.params[i]
    BY <1>1, <1>6, <2>1, GivenRead
  <2>4. ParamsIn(query, kind) = s.params
    <3>1. s.params = [i \in DOMAIN s.params |-> s.params[i]]
      <4>1. ASSUME NEW A, NEW q \in Seq(A)
            PROVE  q = [i \in DOMAIN q |-> q[i]]
        OBVIOUS
      <4> QED BY <1>1, <4>1
    <3>2. ParamsIn(query, kind) = [i \in DOMAIN s.params |-> ValueOf(query, ParamsOf(kind)[i])]
      BY <1>1 DEF ParamsIn
    <3> HIDE DEF query, kind
    <3> QED BY <2>3, <3>1, <3>2
  <2> HIDE DEF query, segs, kind, place, path, t
  <2> QED BY <1>1, <1>2, <1>3, <1>4, <1>5, <2>1, <2>2, <2>3, <2>4 DEF Parse, t
<1>7. CASE kind \notin DOMAIN Params
  <2>1. ParamsOf(kind) = <<>> /\ DOMAIN ParamsOf(kind) = {}
    BY <1>7 DEF ParamsOf
  <2>2. s.params = <<>> /\ ParamsIn(query, kind) = <<>>
    <3>1. ParamsIn(query, kind) = <<>>
      BY <2>1 DEF ParamsIn
    <3>2. ASSUME NEW A, NEW q \in Seq(A), DOMAIN q = {}
          PROVE  q = <<>>
      BY <3>2
    <3>3. s.params = <<>>
      BY <1>1, <2>1, <3>2
    <3> QED BY <3>1, <3>3
  <2>3. Given(s) = <<>>
    <3>1. PairOf(s, 1) = <<>> /\ PairOf(s, 2) = <<>>
      BY <1>1, <2>1 DEF PairOf
    <3>2. Given(s) = PairOf(s, 1) \o PairOf(s, 2)
      BY DEF Given, PairOf
    <3>3. <<>> \o <<>> = <<>>
      OBVIOUS
    <3> QED BY <3>1, <3>2, <3>3
  <2>4. query = s.tail
    BY <2>3 DEF RunTogether
  <2> HIDE DEF query, segs, kind, place, path, t
  <2> QED BY <1>1, <1>2, <1>3, <1>4, <1>5, <2>1, <2>2, <2>4 DEF Parse, t
<1> QED BY <1>6, <1>7

(* An add-on, which is handed the text of a source and parses it again,    *)
(* reads the item that the walk means, for every kind of source and any    *)
(* names and parameters.                                                   *)
THEOREM AddOnReads == BuildSpec => []AddOnReadsTheSame
<1>1. WalkInv => AddOnReadsTheSame
  <2> SUFFICES ASSUME WalkInv, NEW i \in DOMAIN stack,
                      IsRemote(stack[i].source), Plainly(stack[i].source)
               PROVE  Parse(Display(stack[i].source)) = stack[i].source
    BY DEF AddOnReadsTheSame
  <2>1. stack[i] \in Frames
    BY DEF WalkInv, WalkTypes
  <2>2. Entire(stack[i].source) /\ Shaped(stack[i].source)
    BY <2>1 DEF Frames, Sourced
  <2> QED BY <2>2, RoundTrip
<1> QED BY <1>1, WalkHolds, PTL

(* A reference means the same to all who read it, and a remote file never  *)
(* has this host read a file of its own.                                   *)
THEOREM AsMeant == BuildSpec => []ReadAsMeant
<1>1. AddOnReadsTheSame /\ RemoteStaysRemote => ReadAsMeant
  BY DEF ReadAsMeant
<1> QED BY <1>1, AddOnReads, RemoteStays, PTL

-----------------------------------------------------------------------------
(* The cached copies.  Neither property is inductive: a set of copies is   *)
(* written one file at a time, and read one file at a time.  What makes    *)
(* the whole out of the parts is ProcOK: as long as nothing was torn, the  *)
(* copies that a process is done caching are those of the one accepted     *)
(* walk it is caching, and the copies that a start has read are those      *)
(* there still are.                                                        *)

Stages == {"off", "fresh", "cached", "saving", "up", "polling"}

(* What process p has written, while it writes, and read, while it reads   *)
(* the copies of a list that is remote as a whole.                         *)
ProcOK(p) ==
  /\ stage[p] # "saving" => saved[p] = 0
  /\ stage[p] = "saving" =>
       /\ got[p] \in Fits
       /\ ~torn => \A f \in remote : f <= saved[p] => cache[f] = got[p][f]
  /\ ~torn /\ remote = Files /\ stage[p] = "cached" =>
       /\ \A f \in 1 .. Len(got[p]) : got[p][f] = cache[f]
       /\ got[p] # <<>> /\ Complete => Matching

Whole == Complete /\ ~torn /\ ~Saving => Matching

IInv ==
  /\ TypeOK
  /\ Fits # {}
  /\ \A p \in Procs : ProcOK(p)
  /\ Whole

-----------------------------------------------------------------------------

LEMMA FilesAreNumbers ==
  /\ N \in Nat /\ N >= 1 /\ N \in Files
  /\ \A f \in Files : f \in Nat /\ f >= 1 /\ f <= N
  BY ConfigAssumption DEF Files

(* A content that fits has a text for every file, as a finished walk has.  *)
LEMMA FitsAreTexts ==
  ASSUME NEW g \in Fits
  PROVE  g \in [Files -> Texts] /\ g \in Seq(Texts) /\ Len(g) = N
  <1>1. g \in [1 .. N -> Texts] /\ N \in Nat
    BY ConfigAssumption DEF Files
  <1> QED
    BY <1>1 DEF Files

LEMMA InitInv == Init => IInv
  <1> SUFFICES ASSUME Init PROVE IInv
    OBVIOUS
  <1>1. served \in [Files -> Texts] /\ Fits # {}
    BY FitsAreTexts DEF Init
  <1>2. 0 \in 0 .. N - 1 /\ <<>> \in Seq(Texts) /\ Len(<<>>) <= N
    BY FilesAreNumbers
  <1>3. TypeOK
    BY <1>1, <1>2 DEF Init, TypeOK
  <1>4. \A p \in Procs : ProcOK(p)
    BY DEF Init, ProcOK
  <1>5. Whole
    <2>1. CASE remote = {}
      BY <1>1, <2>1 DEF Whole, Matching
    <2>2. CASE remote # {}
      <3>1. ~Complete
        BY <2>2, ConfigAssumption DEF Init, Complete
      <3> QED
        BY <3>1 DEF Whole
    <2> QED
      BY <2>1, <2>2
  <1> QED
    BY <1>1, <1>3, <1>4, <1>5 DEF IInv

(* A step of p that leaves the copies alone disturbs no other process; and *)
(* the set of copies stays whole unless p stops in the middle of it.       *)
LEMMA CopiesStay ==
  ASSUME IInv, UNCHANGED <<remote, cache>>, torn => torn', NEW p \in Procs,
         \A q \in Procs \ {p} :
            stage'[q] = stage[q] /\ got'[q] = got[q] /\ saved'[q] = saved[q],
         TypeOK', ProcOK(p)', stage[p] = "saving" => stage'[p] = "saving" \/ torn'
  PROVE  IInv'
  <1>1. Complete' = Complete /\ Matching' = Matching
    BY DEF Complete, Matching
  <1>2. ASSUME NEW q \in Procs \ {p} PROVE ProcOK(q)'
    BY <1>1 DEF IInv, ProcOK
  <1>3. Whole'
    BY <1>1 DEF IInv, Whole, Saving
  <1> QED
    BY <1>2, <1>3 DEF IInv

(* Nothing a process does changes the files themselves or their stores.    *)
LEMMA WorldStays ==
  ASSUME TypeOK, UNCHANGED outside, cache' \in [Files -> Texts \union {NoCopy}],
         stage' \in [Procs -> Stages],
         got' \in [Procs -> Seq(Texts)], \A p \in Procs : Len(got'[p]) <= N,
         saved' \in [Procs -> 0 .. N - 1],
         config' \in [Procs -> Fits \union {NoClient, Default}], torn' \in BOOLEAN
  PROVE  TypeOK'
  BY DEF TypeOK, outside, Stages

LEMMA Goes ==
  ASSUME TypeOK, NEW p \in Procs, NEW to \in Stages, Go(p, to)
  PROVE  /\ stage' \in [Procs -> Stages] /\ got' \in [Procs -> Seq(Texts)]
         /\ \A q \in Procs : Len(got'[q]) <= N
         /\ stage'[p] = to /\ got'[p] = <<>>
         /\ \A q \in Procs \ {p} : stage'[q] = stage[q] /\ got'[q] = got[q]
  <1>1. <<>> \in Seq(Texts) /\ Len(<<>>) <= N
    BY FilesAreNumbers
  <1> QED
    BY <1>1 DEF Go, TypeOK, Stages

(* A process that goes to another stage than a walk through the copies.    *)
LEMMA GoesOn ==
  ASSUME IInv, UNCHANGED <<outside, cache>>, torn => torn', torn' \in BOOLEAN,
         NEW p \in Procs, NEW to \in Stages \ {"saving"}, Go(p, to),
         stage[p] = "saving" => torn',
         saved' = [saved EXCEPT ![p] = 0] \/ (saved' = saved /\ stage[p] # "saving"),
         config' \in [Procs -> Fits \union {NoClient, Default}]
  PROVE  IInv'
  <1>1. TypeOK /\ 0 \in 0 .. N - 1
    BY FilesAreNumbers DEF IInv
  <1>2. /\ saved' \in [Procs -> 0 .. N - 1] /\ saved'[p] = 0
        /\ \A q \in Procs \ {p} : saved'[q] = saved[q]
    BY <1>1 DEF IInv, TypeOK, ProcOK
  <1>3. /\ stage' \in [Procs -> Stages] /\ got' \in [Procs -> Seq(Texts)]
        /\ \A q \in Procs : Len(got'[q]) <= N
        /\ stage'[p] = to /\ got'[p] = <<>>
        /\ \A q \in Procs \ {p} : stage'[q] = stage[q] /\ got'[q] = got[q]
    BY <1>1, Goes
  <1>4. TypeOK'
    BY <1>1, <1>2, <1>3, WorldStays DEF TypeOK
  <1>5. ProcOK(p)'
    BY <1>2, <1>3 DEF ProcOK
  <1> QED
    BY <1>2, <1>3, <1>4, <1>5, CopiesStay DEF outside

(* A walk that is accepted: it has merged, and is to be cached.            *)
LEMMA FitsIfAccepted ==
  ASSUME IInv, UNCHANGED <<outside, cache, saved, torn>>, NEW p \in Procs,
         stage[p] # "saving", got[p] \in Fits, Accept(p),
         config' \in [Procs -> Fits \union {NoClient, Default}]
  PROVE  IInv'
  <1>1. TypeOK /\ saved[p] = 0 /\ \A f \in remote : ~(f <= 0)
    BY FilesAreNumbers, ConfigAssumption DEF IInv, ProcOK, TypeOK
  <1>2. stage' \in [Procs -> Stages] /\ stage'[p] = "saving" /\ got' = got
        /\ \A q \in Procs \ {p} : stage'[q] = stage[q]
    BY <1>1 DEF Accept, TypeOK, Stages
  <1>3. TypeOK'
    BY <1>1, <1>2, WorldStays DEF TypeOK
  <1>4. ProcOK(p)'
    BY <1>1, <1>2 DEF ProcOK, outside
  <1> QED
    BY <1>2, <1>3, <1>4, CopiesStay DEF outside

-----------------------------------------------------------------------------

LEMMA OutsideStep ==
  ASSUME IInv, UNCHANGED <<remote, cache, stage, got, saved, config, torn>>,
         served' \in [Files -> Texts], down' \subseteq Files, storeDown' \in BOOLEAN
  PROVE  IInv'
  <1>1. TypeOK'
    BY DEF IInv, TypeOK
  <1>2. Complete' = Complete /\ Matching' = Matching /\ Saving' = Saving
    BY DEF Complete, Matching, Saving
  <1>3. \A p \in Procs : ProcOK(p)'
    BY <1>2 DEF IInv, ProcOK
  <1> QED
    BY <1>1, <1>2, <1>3 DEF IInv, Whole

LEMMA LoadStep == ASSUME IInv, NEW p \in Procs, Load(p) PROVE IInv'
  <1>1. /\ Loading(p, {"fresh", "cached", "polling"}) /\ UNCHANGED <<outside, cache, stage, saved, config>>
        /\ \/ /\ FromSource(p) /\ got' = [got EXCEPT ![p] = Append(@, served[At(p)])]
              /\ UNCHANGED torn
           \/ /\ FromCache(p) /\ got' = [got EXCEPT ![p] = Append(@, cache[At(p)])]
              /\ torn' = (torn \/ \E q \in Procs : stage[q] = "saving")
    BY DEF Load
  <1>2. TypeOK /\ stage[p] \in {"fresh", "cached", "polling"} /\ got[p] \in Seq(Texts)
    BY <1>1 DEF IInv, Loading, TypeOK
  <1>3. At(p) \in Files /\ At(p) = Len(got[p]) + 1 /\ Len(got[p]) \in Nat /\ Len(got[p]) + 1 <= N
    <2>1. Len(got[p]) # N /\ Len(got[p]) \in Nat /\ Len(got[p]) <= N
      BY <1>1, <1>2 DEF Loading, Loaded, TypeOK
    <2> QED
      BY <2>1, FilesAreNumbers DEF At, Files
  <1>4. PICK t \in Texts :
          /\ got' = [got EXCEPT ![p] = Append(@, t)]
          /\ \/ FromSource(p) /\ torn' = torn
             \/ FromCache(p) /\ t = cache[At(p)] /\ torn' = (torn \/ Saving)
    BY <1>1, <1>2, <1>3 DEF TypeOK, FromCache, Cached, Saving
  <1>5. /\ got'[p] = Append(got[p], t) /\ \A q \in Procs \ {p} : got'[q] = got[q]
        /\ got' \in [Procs -> Seq(Texts)] /\ got'[p] # <<>>
        /\ Len(got'[p]) = Len(got[p]) + 1 /\ got'[p][Len(got[p]) + 1] = t
        /\ \A f \in 1 .. Len(got[p]) : got'[p][f] = got[p][f]
    <2>1. ASSUME NEW s \in Seq(Texts)
          PROVE  /\ Append(s, t) \in Seq(Texts) /\ Append(s, t) # <<>>
                 /\ Len(Append(s, t)) = Len(s) + 1 /\ Append(s, t)[Len(s) + 1] = t
                 /\ \A f \in 1 .. Len(s) : Append(s, t)[f] = s[f]
      OBVIOUS
    <2>2. got \in [Procs -> Seq(Texts)]
      BY <1>2 DEF TypeOK
    <2>3. got'[p] = Append(got[p], t) /\ \A q \in Procs \ {p} : got'[q] = got[q]
      BY <1>4, <2>2
    <2>4. got' \in [Procs -> Seq(Texts)]
      BY <1>2, <1>4, <2>1, <2>2
    <2> QED
      BY <1>2, <2>1, <2>3, <2>4
  <1>6. torn' \in BOOLEAN /\ (torn => torn')
    BY <1>2, <1>4 DEF TypeOK
  <1>7. TypeOK'
    <2>1. \A q \in Procs : Len(got'[q]) <= N
      BY <1>2, <1>3, <1>5 DEF TypeOK
    <2> QED
      BY <1>1, <1>2, <1>5, <1>6, <2>1, WorldStays DEF TypeOK, Stages
  <1>8. ProcOK(p)'
    <2>1. stage'[p] = stage[p] /\ saved'[p] = 0 /\ stage[p] # "saving"
      BY <1>1, <1>2 DEF IInv, ProcOK
    <2>2. ASSUME ~torn', remote' = Files, stage'[p] = "cached"
          PROVE  /\ \A f \in 1 .. Len(got'[p]) : got'[p][f] = cache'[f]
                 /\ got'[p] # <<>> /\ Complete' => Matching'
      <3>1. remote = Files /\ stage[p] = "cached" /\ ~torn /\ cache' = cache
        BY <1>1, <1>6, <2>2 DEF outside
      <3>2. FromCache(p) /\ t = cache[At(p)] /\ ~Saving
        BY <1>3, <1>4, <2>2, <3>1 DEF FromSource
      <3>3. \A f \in 1 .. Len(got[p]) : got[p][f] = cache[f]
        BY <3>1 DEF IInv, ProcOK
      <3>4. \A f \in 1 .. Len(got'[p]) : f \in 1 .. Len(got[p]) \/ f = Len(got[p]) + 1
        BY <1>3, <1>5
      <3>5. Complete' = Complete /\ Matching' = Matching
        BY <1>1 DEF Complete, Matching, outside
      <3>6. Complete => Matching
        BY <3>1, <3>2 DEF IInv, Whole
      <3> QED
        BY <1>3, <1>5, <3>1, <3>2, <3>3, <3>4, <3>5, <3>6
    <2> QED
      BY <2>1, <2>2 DEF ProcOK
  <1> QED
    BY <1>1, <1>2, <1>5, <1>6, <1>7, <1>8, CopiesStay DEF outside

LEMMA ConfigTypes ==
  ASSUME TypeOK, NEW p \in Procs, NEW c \in Fits \union {NoClient, Default}
  PROVE  [config EXCEPT ![p] = c] \in [Procs -> Fits \union {NoClient, Default}]
  BY DEF TypeOK

LEMMA LoadFailsStep == ASSUME IInv, NEW p \in Procs, LoadFails(p) PROVE IInv'
  <1>1. /\ stage[p] # "saving" /\ GiveUp(p) /\ UNCHANGED <<outside, cache, saved, torn>> /\ TypeOK
    BY DEF LoadFails, Loading, IInv
  <1>2. torn' \in BOOLEAN /\ config \in [Procs -> Fits \union {NoClient, Default}]
    BY <1>1 DEF TypeOK
  <1>3. CASE (Go(p, "cached") \/ Go(p, "up")) /\ UNCHANGED config
    BY <1>1, <1>2, <1>3, GoesOn DEF Stages
  <1>4. CASE StartOnDefault(p)
    <2>1. Go(p, "up") /\ config' = [config EXCEPT ![p] = Default]
      BY <1>4 DEF StartOnDefault
    <2>2. config' \in [Procs -> Fits \union {NoClient, Default}]
      BY <1>1, <2>1, ConfigTypes
    <2> QED
      BY <1>1, <1>2, <2>1, <2>2, GoesOn DEF Stages
  <1> QED
    BY <1>1, <1>3, <1>4 DEF GiveUp

LEMMA GoStep ==
  ASSUME IInv, NEW p \in Procs, Start(p) \/ Poll(p) \/ Refuse(p)
  PROVE  IInv'
  <1>1. /\ stage[p] # "saving" /\ UNCHANGED <<outside, cache, saved, config, torn>>
        /\ \E to \in Stages \ {"saving"} : Go(p, to)
    BY DEF Start, Poll, Refuse, Loading, Stages
  <1>2. torn' \in BOOLEAN /\ config' \in [Procs -> Fits \union {NoClient, Default}]
    BY <1>1 DEF IInv, TypeOK
  <1> QED
    BY <1>1, <1>2, GoesOn

LEMMA MergeStep ==
  ASSUME IInv, NEW p \in Procs, MergeFresh(p) \/ MergeCached(p) \/ MergePoll(p)
  PROVE  IInv'
  <1>1. stage[p] # "saving" /\ UNCHANGED <<outside, cache, saved, torn>> /\ TypeOK
    BY DEF MergeFresh, MergeCached, MergePoll, IInv
  <1>2. torn' \in BOOLEAN /\ config \in [Procs -> Fits \union {NoClient, Default}]
    BY <1>1 DEF TypeOK
  <1>3. CASE (\E to \in {"off", "cached", "up"} : Go(p, to)) /\ UNCHANGED config
    BY <1>1, <1>2, <1>3, GoesOn DEF Stages
  <1>4. CASE StartOnDefault(p)
    <2>1. Go(p, "up") /\ config' = [config EXCEPT ![p] = Default]
      BY <1>4 DEF StartOnDefault
    <2>2. config' \in [Procs -> Fits \union {NoClient, Default}]
      BY <1>1, <2>1, ConfigTypes
    <2> QED
      BY <1>1, <1>2, <2>1, <2>2, GoesOn DEF Stages
  <1>5. CASE /\ got[p] \in Fits /\ Accept(p)
             /\ config' = config \/ config' = [config EXCEPT ![p] = got[p]]
    <2>1. config' \in [Procs -> Fits \union {NoClient, Default}]
      BY <1>1, <1>2, <1>5, ConfigTypes
    <2> QED
      BY <1>1, <1>5, <2>1, FitsIfAccepted
  <1> QED
    BY <1>3, <1>4, <1>5 DEF MergeFresh, MergeCached, MergePoll

LEMMA ExitStep == ASSUME IInv, NEW p \in Procs, Exit(p) PROVE IInv'
  <1>1. /\ Go(p, "off") /\ UNCHANGED <<outside, cache>>
        /\ config' = [config EXCEPT ![p] = NoClient]
        /\ saved' = [saved EXCEPT ![p] = 0]
        /\ torn' = (torn \/ stage[p] = "saving")
    BY DEF Exit
  <1>2. /\ torn' \in BOOLEAN /\ (torn => torn') /\ (stage[p] = "saving" => torn')
        /\ config' \in [Procs -> Fits \union {NoClient, Default}]
    BY <1>1, ConfigTypes DEF IInv, TypeOK
  <1> QED
    BY <1>1, <1>2, GoesOn DEF Stages

(* The copies that another process counts on are written only after it was *)
(* noted that they may be torn.                                            *)
LEMMA SaveStep == ASSUME IInv, NEW p \in Procs, Save(p) PROVE IInv'
  <1> DEFINE f == saved[p] + 1
  <1>1. /\ stage[p] = "saving" /\ UNCHANGED outside
        /\ \/ f \in remote /\ cache' = [cache EXCEPT ![f] = got[p][f]]
              /\ torn' = (torn \/ Disturbed(p))
           \/ f \in remote /\ UNCHANGED cache /\ torn' = TRUE
           \/ f \notin remote /\ UNCHANGED <<cache, torn>>
        /\ \/ /\ f < N
              /\ saved' = [saved EXCEPT ![p] = f]
              /\ UNCHANGED <<stage, got, config>>
           \/ /\ f = N
              /\ Go(p, "up")
              /\ saved' = [saved EXCEPT ![p] = 0]
              /\ config' = [config EXCEPT ![p] = got[p]]
    BY DEF Save
  <1>2. TypeOK /\ got[p] \in Fits /\ got[p] \in [Files -> Texts]
    BY <1>1, FitsAreTexts DEF IInv, ProcOK
  <1>3. saved[p] \in Nat /\ saved[p] < N /\ f \in Files /\ f \in Nat /\ remote \subseteq Files
    BY <1>2, FilesAreNumbers, ConfigAssumption DEF TypeOK, Files
  <1>4. /\ torn' \in BOOLEAN /\ (torn => torn')
        /\ cache' \in [Files -> Texts \union {NoCopy}]
        /\ \A g \in Files \ {f} : cache'[g] = cache[g]
        /\ ~torn' /\ f \in remote => cache'[f] = got[p][f]
        /\ ~torn' /\ cache' # cache => ~Disturbed(p)
    BY <1>1, <1>2, <1>3 DEF TypeOK
  <1> HIDE DEF f
  <1>5. ~torn' => \A g \in remote : g <= f => cache'[g] = got[p][g]
    <2>1. ~torn' => \A g \in remote : g <= saved[p] => cache[g] = got[p][g]
      BY <1>1, <1>4 DEF IInv, ProcOK
    <2>2. \A g \in remote : g <= f => g = f \/ (g <= saved[p] /\ g \in Files \ {f})
      BY <1>3, FilesAreNumbers DEF f
    <2> QED
      BY <1>4, <2>1, <2>2
  <1>6. \A q \in Procs \ {p} : stage'[q] = stage[q] /\ got'[q] = got[q] /\ saved'[q] = saved[q]
    BY <1>1, <1>2 DEF Go, TypeOK
  <1>7. CASE /\ f < N /\ saved' = [saved EXCEPT ![p] = f] /\ UNCHANGED <<stage, got, config>>
    <2>1. saved' \in [Procs -> 0 .. N - 1] /\ saved'[p] = f
      BY <1>2, <1>3, <1>7, FilesAreNumbers DEF TypeOK
    <2>2. TypeOK'
      BY <1>1, <1>2, <1>4, <1>7, <2>1, WorldStays DEF TypeOK, Stages
    <2>3. ProcOK(p)'
      BY <1>1, <1>2, <1>5, <1>7, <2>1 DEF ProcOK, outside
    <2>4. Saving'
      BY <1>1, <1>7 DEF Saving
    <2> QED
      <3>1. ASSUME NEW q \in Procs \ {p} PROVE ProcOK(q)'
        <4>1. ~torn' => cache' = cache \/ stage[q] \notin {"fresh", "cached", "saving"}
          BY <1>4 DEF Disturbed
        <4>2. cache' = cache => Complete' = Complete /\ Matching' = Matching
          BY <1>1 DEF Complete, Matching, outside
        <4> QED
          BY <1>1, <1>4, <1>6, <4>1, <4>2 DEF IInv, ProcOK, outside
      <3> QED
        BY <2>2, <2>3, <2>4, <3>1 DEF IInv, Whole
  <1>8. CASE /\ f = N /\ Go(p, "up") /\ saved' = [saved EXCEPT ![p] = 0]
             /\ config' = [config EXCEPT ![p] = got[p]]
    <2>1. saved' \in [Procs -> 0 .. N - 1] /\ saved'[p] = 0
      BY <1>2, <1>8, FilesAreNumbers DEF TypeOK
    <2>2. config' \in [Procs -> Fits \union {NoClient, Default}]
      BY <1>2, <1>8, ConfigTypes
    <2>3. /\ stage' \in [Procs -> Stages] /\ got' \in [Procs -> Seq(Texts)]
          /\ \A q \in Procs : Len(got'[q]) <= N
          /\ stage'[p] = "up"
      BY <1>2, <1>8, Goes DEF Stages
    <2>4. TypeOK'
      BY <1>1, <1>2, <1>4, <2>1, <2>2, <2>3, WorldStays
    <2>5. ProcOK(p)'
      BY <2>1, <2>3 DEF ProcOK
    <2>6. ~torn' => Matching'
      <3>1. \A g \in remote : g <= f
        BY <1>3, <1>8, FilesAreNumbers
      <3> QED
        BY <1>1, <1>2, <1>5, <3>1 DEF Matching, outside
    <2> QED
      <3>1. ASSUME NEW q \in Procs \ {p} PROVE ProcOK(q)'
        <4>1. ~torn' => cache' = cache \/ stage[q] \notin {"fresh", "cached", "saving"}
          BY <1>4 DEF Disturbed
        <4>2. cache' = cache => Complete' = Complete /\ Matching' = Matching
          BY <1>1 DEF Complete, Matching, outside
        <4> QED
          BY <1>1, <1>4, <1>6, <4>1, <4>2 DEF IInv, ProcOK, outside
      <3> QED
        BY <2>4, <2>5, <2>6, <3>1 DEF IInv, Whole
  <1> QED
    BY <1>1, <1>7, <1>8

-----------------------------------------------------------------------------

LEMMA NextInv == ASSUME IInv, [Next]_vars PROVE IInv'
  <1>1. CASE \E f \in Files : Publish(f)
    <2>1. PICK f \in Files, t \in Texts :
            /\ served' = [served EXCEPT ![f] = t]
            /\ UNCHANGED <<remote, down, storeDown, cache, stage, got, saved, config, torn>>
      BY <1>1 DEF Publish
    <2> QED
      BY <2>1, OutsideStep DEF IInv, TypeOK
  <1>2. CASE Weather
    <2>1. /\ UNCHANGED <<remote, served, cache, stage, got, saved, config, torn>>
          /\ down' \subseteq Files /\ storeDown' \in BOOLEAN
      BY <1>2 DEF Weather, IInv, TypeOK
    <2> QED
      BY <2>1, OutsideStep DEF IInv, TypeOK
  <1>3. ASSUME NEW p \in Procs, Start(p) \/ Step(p) \/ Exit(p) PROVE IInv'
    BY <1>3, GoStep, LoadStep, LoadFailsStep, MergeStep, SaveStep, ExitStep DEF Step
  <1>4. CASE UNCHANGED vars
    BY <1>4, OutsideStep DEF vars, outside, IInv, TypeOK
  <1> QED
    BY <1>1, <1>2, <1>3, <1>4 DEF Next

LEMMA Invariance == Safety => []IInv
  BY InitInv, NextInv, PTL DEF Safety

-----------------------------------------------------------------------------

(* As long as the copies are written and read as whole sets, those that    *)
(* are there for every remote file make a config (source.rs write_cache,   *)
(* reload.rs check): what a poll rejected never gets among them.           *)
THEOREM CacheFits == Safety => []UndisturbedCacheFits
  <1>1. IInv => UndisturbedCacheFits
    BY DEF IInv, Whole, UndisturbedCacheFits
  <1> QED
    BY <1>1, Invariance, PTL

(* A start that has a whole set of copies does not end on the default      *)
(* (source.rs load_initial), unless their secrets cannot be resolved.      *)
THEOREM CacheComesFirst == Safety => CacheBeforeDefault
  <1>1. ASSUME IInv, Next, NEW p \in Procs, config[p] = NoClient, config'[p] = Default,
               Complete, ~torn, ~storeDown, remote = Files
        PROVE  FALSE
    <2>1. /\ TypeOK /\ config \in [Procs -> Fits \union {NoClient, Default}]
          /\ NoClient # Default /\ NoClient \notin Fits /\ Default \notin Fits
          /\ config' # config
      BY <1>1, ConfigAssumption DEF IInv, TypeOK
    <2>2. PICK q \in Procs : Step(q) \/ Exit(q)
      BY <1>1, <2>1 DEF Next, Publish, Weather, Start
    <2>3. \/ (LoadFails(q) \/ MergeCached(q)) /\ stage[q] = "cached" /\ StartOnDefault(q)
          \/ config' = [config EXCEPT ![q] = NoClient]
          \/ got[q] \in Fits /\ config' = [config EXCEPT ![q] = got[q]]
      <3>1. Save(q) => got[q] \in Fits
        BY <1>1 DEF Save, IInv, ProcOK
      <3> QED
        BY <2>1, <2>2, <3>1 DEF Step, Exit, Poll, Load, LoadFails, Refuse, MergeFresh, MergeCached,
           MergePoll, Save, GiveUp
    <2>4. q = p /\ (LoadFails(p) \/ MergeCached(p)) /\ stage[p] = "cached" /\ StartOnDefault(p)
      BY <1>1, <2>1, <2>3 DEF StartOnDefault
    <2>5. /\ \A f \in 1 .. Len(got[p]) : got[p][f] = cache[f]
          /\ got[p] # <<>> => Matching
          /\ got[p] \in Seq(Texts)
      BY <1>1, <2>1, <2>4 DEF IInv, ProcOK, TypeOK
    <2>6. CASE LoadFails(p)
      <3>1. At(p) \in Files
        <4>1. Len(got[p]) # N /\ Len(got[p]) \in Nat /\ Len(got[p]) <= N
          BY <2>1, <2>5, <2>6 DEF LoadFails, Loading, Loaded, TypeOK
        <4> QED
          BY <4>1, FilesAreNumbers DEF At, Files
      <3>2. ~Missing(p)
        BY <1>1, <2>4, <3>1 DEF Missing, FromCache, Cached, Complete
      <3> QED
        BY <1>1, <2>6, <3>2 DEF LoadFails
    <2>7. CASE MergeCached(p)
      <3>1. Len(got[p]) = N
        BY <2>7 DEF MergeCached, Loaded
      <3>2. got[p] # <<>>
        BY <3>1, FilesAreNumbers
      <3>3. PICK g \in Fits : \A f \in Files : cache[f] = g[f]
        BY <1>1, <2>5, <3>2 DEF Matching
      <3>4. got[p] = g
        BY <2>5, <3>1, <3>3, FitsAreTexts DEF Files
      <3>5. ~Accept(p)
        <4>1. stage'[p] = "up"
          BY <2>1, <2>4, Goes DEF StartOnDefault, Stages
        <4> QED
          BY <2>1, <4>1 DEF Accept, TypeOK
      <3> QED
        BY <2>7, <3>3, <3>4, <3>5 DEF MergeCached
    <2> QED
      BY <2>4, <2>6, <2>7
  <1>2. IInv /\ [Next]_vars =>
          \A p \in Procs : config[p] = NoClient /\ config'[p] = Default =>
            ~Complete \/ torn \/ storeDown \/ remote # Files
    <2>1. UNCHANGED vars => config' = config
      BY DEF vars
    <2>2. NoClient # Default
      BY ConfigAssumption
    <2> QED
      BY <1>1, <2>1, <2>2
  <1> QED
    BY <1>2, Invariance, PTL DEF Safety, CacheBeforeDefault
=============================================================================
