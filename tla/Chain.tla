------------------------------- MODULE Chain -------------------------------
(***************************************************************************)
(* The walk over a layered configuration (chain.rs): every file reachable  *)
(* through `extends`, parents before children, each once.                  *)
(*                                                                         *)
(* The world is what the files hold while one walk runs.  A file is known  *)
(* to the walk by its text, and that is how Display writes it.  Cached     *)
(* copies and edits meanwhile are ConfigLoad's.                            *)
(***************************************************************************)
EXTENDS Sources, Layers, FiniteSets

CONSTANTS
  Worlds,     \* the worlds to walk in
  MaxDepth,   \* the longest stack
  MaxFiles    \* the files that may be finished when another is visited

RootsOf(w) == [i \in DOMAIN w.roots |-> Parse(w.roots[i])]

(* A root is given by its text, a file is what YAML makes of it.           *)
ASSUME ChainAssumption ==
  /\ MaxDepth \in Nat \ {0} /\ MaxFiles \in Nat \ {0} /\ MaxSecs \in Nat
  /\ \A w \in Worlds :
       /\ w.roots \in Seq({t \in References : Parse(t) # NotOne})
       /\ \A f \in DOMAIN w.files : /\ w.files[f].extends \in Seq(References)
                                   /\ w.files[f].routes \in Seq(RouteShapes)

VARIABLES
  world,   \* [roots, files, clouds, env, vault]: never changes
  todo,    \* the roots not visited yet
  stack,   \* the files being visited: [source, left], left of its extends
  seen,    \* the texts of the finished files
  order,   \* the finished files, lowest priority first
  walk     \* how the walk ended: [end, why, fatal]

walkVars == <<world, todo, stack, seen, order, walk>>

Running == [end |-> "running"]
Failed(why, fatal) == [end |-> "failed", why |-> why, fatal |-> fatal]

WalkInit ==
  /\ world \in Worlds
  /\ todo = RootsOf(world)
  /\ stack = <<>> /\ seen = {} /\ order = <<>>
  /\ walk = Running

Top == stack[Len(stack)]

(* What comes next: an entry of the file on top, or the next root.         *)
More == IF stack = <<>> THEN todo # <<>> ELSE Top.left # <<>>
Upcoming == IF stack = <<>> THEN Head(todo) ELSE Join(Top.source, Head(Top.left))

OnStack(s) == \E i \in DOMAIN stack : Display(stack[i].source) = Display(s)

(* External: the file system goes from directory to directory, so that     *)
(* several names may open one file.                                        *)
Opened(s) ==
  LET through(at, dir) ==
        CASE dir = "." -> at
          [] dir = ".." /\ at # <<>> -> Front(at)
          [] OTHER -> Append(at, dir)
  IN IF IsRemote(s) THEN s ELSE [s EXCEPT !.path = FoldLeft(through, <<>>, @)]

Exists(s) == s # NotOne /\ Opened(s) \in DOMAIN world.files
Holds(s) == world.files[Opened(s)]

(* Walk::load: a local file that cannot be read or built is fatal.         *)
Outcome(s) ==
  LET built == IF Exists(s) THEN Build(Holds(s), world) ELSE "text"
  IN IF built = "text" THEN (IF IsRemote(s) THEN "soft" ELSE "fatal") ELSE built

(* Mutant of Verdict: the files are not counted.                           *)
VerdictUncounted(s) ==
  IF s = NotOne THEN "bad"
  ELSE IF OnStack(s) THEN "cycle"
  ELSE IF Display(s) \in seen THEN "skip"
  ELSE IF Len(stack) >= MaxDepth THEN "deep"
  ELSE IF ~Supported(s, world.clouds) THEN "unsupported"
  ELSE Outcome(s)

(* Mutant of Verdict: a file that is finished counts as a cycle.           *)
VerdictSeenIsCycle(s) ==
  IF s = NotOne THEN "bad"
  ELSE IF OnStack(s) \/ Display(s) \in seen THEN "cycle"
  ELSE IF Len(stack) >= MaxDepth THEN "deep"
  ELSE IF Cardinality(seen) >= MaxFiles THEN "many"
  ELSE IF ~Supported(s, world.clouds) THEN "unsupported"
  ELSE Outcome(s)

(* The checks of visit, in their order.                                    *)
Verdict(s) ==
  IF s = NotOne THEN "bad"
  ELSE IF OnStack(s) THEN "cycle"
  ELSE IF Display(s) \in seen THEN "skip"
  ELSE IF Len(stack) >= MaxDepth THEN "deep"
  ELSE IF Cardinality(seen) >= MaxFiles THEN "many"
  ELSE IF ~Supported(s, world.clouds) THEN "unsupported"
  ELSE Outcome(s)

Drop(frames) == [frames EXCEPT ![Len(frames)].left = Tail(@)]

Advance ==
  IF stack = <<>> THEN todo' = Tail(todo) /\ stack' = stack
  ELSE todo' = todo /\ stack' = Drop(stack)

(* A file that is finished already: nothing to do.                         *)
Skip ==
  /\ walk = Running /\ More /\ Verdict(Upcoming) = "skip"
  /\ Advance
  /\ UNCHANGED <<world, seen, order, walk>>

(* A file is loaded; its parents come first.                               *)
Enter ==
  /\ walk = Running /\ More /\ Verdict(Upcoming) = Ok
  /\ LET frame == [source |-> Upcoming, left |-> Holds(Upcoming).extends] IN
     IF stack = <<>> THEN todo' = Tail(todo) /\ stack' = <<frame>>
     ELSE todo' = todo /\ stack' = Append(Drop(stack), frame)
  /\ UNCHANGED <<world, seen, order, walk>>

(* Mutant of Leave: a file goes before what it extends.                    *)
LeaveFirst ==
  /\ walk = Running /\ stack # <<>> /\ Top.left = <<>>
  /\ stack' = Front(stack)
  /\ seen' = seen \union {Display(Top.source)}
  /\ order' = <<Top.source>> \o order
  /\ UNCHANGED <<world, todo, walk>>

(* All its parents are done.                                               *)
Leave ==
  /\ walk = Running /\ stack # <<>> /\ Top.left = <<>>
  /\ stack' = Front(stack)
  /\ seen' = seen \union {Display(Top.source)}
  /\ order' = Append(order, Top.source)
  /\ UNCHANGED <<world, todo, walk>>

(* The walk ends at the first error.  Only a remote file or a store that   *)
(* cannot be reached, or a remote file that is broken, is not fatal.       *)
Fail ==
  /\ walk = Running /\ More /\ Verdict(Upcoming) \notin {"skip", Ok}
  /\ walk' = Failed(Verdict(Upcoming), Verdict(Upcoming) # "soft")
  /\ UNCHANGED <<world, todo, stack, seen, order>>

Finish ==
  /\ walk = Running /\ stack = <<>> /\ todo = <<>>
  /\ walk' = [end |-> "done"]
  /\ UNCHANGED <<world, todo, stack, seen, order>>

WalkNext == Skip \/ Enter \/ Leave \/ Fail \/ Finish

-----------------------------------------------------------------------------

(* The graph of the world, apart from any walk.                            *)
ParentsOf(s) ==
  [i \in DOMAIN Holds(s).extends |-> Join(s, Holds(s).extends[i])]
Known(S) == {s \in S : Exists(s)}

(* No path is longer: a file has at most two names in a world.             *)
Size == 2 * Cardinality(DOMAIN world.files)

ReachableFrom(S) ==
  LET within[n \in 0 .. Size] ==
        IF n = 0 THEN S
        ELSE LET nearer == within[n - 1]
             IN nearer \union UNION {Range(ParentsOf(s)) : s \in Known(nearer)}
  IN within[Size]
Reachable == ReachableFrom(Range(RootsOf(world)))
OnCycle(s) == Exists(s) /\ s \in ReachableFrom(Range(ParentsOf(s)))

(* Every file behind its parents, in the order of their lists, as often as *)
(* it is named.                                                            *)
PostOrder(roots) ==
  LET behind[n \in 0 .. Size] ==
        LET shorter == IF n = 0 THEN <<>> ELSE behind[n - 1] IN
        [s \in Known(Reachable) |->
           IF n = 0 THEN <<>>
           ELSE FlattenSeq([i \in DOMAIN ParentsOf(s) |-> shorter[ParentsOf(s)[i]]])
                \o <<s>>]
  IN FlattenSeq([i \in DOMAIN roots |-> behind[Size][roots[i]]])

FirstOnly(s) ==
  FoldLeft(LAMBDA out, e : IF e \in Range(out) THEN out ELSE Append(out, e), <<>>, s)

Verbatim ==
  Range(RootsOf(world)) \union
  UNION {{Parse(t) : t \in {u \in Range(world.files[s].extends) : IsAbsolute(u)}} :
           s \in DOMAIN world.files}

(* One file is loaded once, however the entries that lead to it wind       *)
(* through directories (normalize, source.rs:621-639).  A name that a root *)
(* or an absolute entry gives is taken as it stands, and only two          *)
(* spellings of such a name make two files.                                *)
OneFileOnce ==
  \A i, j \in DOMAIN order :
    i < j /\ Opened(order[i]) = Opened(order[j]) =>
      \E s \in {order[i], order[j]} : s \in Verbatim /\ s # Opened(s)

(* "The chain is flattened depth first, parents before children and        *)
(* earlier entries of a list before later ones ... A file reached twice is *)
(* loaded once, at its first position" (chain.rs:6-9): the walk with its   *)
(* stack and its set computes that order and misses no file, and no file   *)
(* is loaded under two names (OneFileOnce).  It succeeds                   *)
(* only if there is no cycle, and is refused only for what it is told:     *)
(* there is a cycle, or a longer chain or more files than the limits.  No  *)
(* legal diamond of teams and defaults is refused.                         *)
WalkAsDocumented ==
  /\ OneFileOnce
  /\ walk.end = "done" =>
       /\ order = FirstOnly(PostOrder(RootsOf(world)))
       /\ \A s \in Reachable : ~OnCycle(s)
  /\ walk.end = "failed" =>
       /\ walk.why = "cycle" => \E s \in Reachable : OnCycle(s)
       /\ walk.why = "many" => Cardinality(Reachable) > MaxFiles
       /\ walk.why = "deep" => Cardinality(Reachable) > MaxDepth

Extends(j, i) ==
  \E n \in DOMAIN ParentsOf(order[j]) : Display(ParentsOf(order[j])[n]) = Display(order[i])

(* The places in the order of a file's parents, their parents, and so on.  *)
Ancestors(j) ==
  {i \in DOMAIN order :
     \A up \in SUBSET DOMAIN order :
       (\A k \in up \union {j} : \A l \in DOMAIN order : Extends(k, l) => l \in up)
         => i \in up}

(* "Parents before children" (chain.rs:6-9): every file that a finished    *)
(* file extends is finished before it, and in the end every root is.  So   *)
(* whatever is reachable is in the order, behind all its ancestors, and a  *)
(* graph with a cycle is never done.                                       *)
ParentsFirst ==
  /\ \A i \in DOMAIN order : \A n \in DOMAIN ParentsOf(order[i]) :
       \E j \in 1 .. i - 1 : Display(order[j]) = Display(ParentsOf(order[i])[n])
  /\ walk.end = "done" =>
       \A r \in Range(RootsOf(world)) : \E j \in DOMAIN order : Display(order[j]) = Display(r)

(* No more files are loaded than the limits allow, and none twice, however *)
(* they name each other.  The limit is on finished files, so those on the  *)
(* stack come on top of it.                                                *)
LoadsAreBounded ==
  /\ Len(order) + Len(stack) <= MaxFiles + MaxDepth - 1
  /\ \A i, j \in DOMAIN order : Display(order[i]) = Display(order[j]) => i = j
  /\ \A i \in DOMAIN stack : \A j \in DOMAIN order :
       Display(stack[i].source) # Display(order[j])

(* Its text has one meaning: not so the key that is left when a relative   *)
(* entry walks up to a leading slash.                                      *)
Plainly(s) == (s.kind \in DOMAIN Params => s.tail = <<>>) /\ s.path # <<"">>

(* An add-on is handed the text of a source and parses it again            *)
(* (fetch_external, fetch_blocking): it reads the item that the walk       *)
(* means, and two files are never taken for one.                           *)
AddOnReadsTheSame ==
  \A i \in DOMAIN stack :
    LET s == stack[i].source IN IsRemote(s) /\ Plainly(s) => Parse(Display(s)) = s

(* Nothing fetched over the network makes this host read a file of its own *)
(* (join), however many files lie between.                                 *)
RemoteStaysRemote ==
  \A i, j \in DOMAIN stack :
    i < j /\ IsRemote(stack[i].source) => IsRemote(stack[j].source)

(* A reference means the same to all who read it, and never more than its  *)
(* file may name.                                                          *)
ReadAsMeant == AddOnReadsTheSame /\ RemoteStaysRemote
=============================================================================
