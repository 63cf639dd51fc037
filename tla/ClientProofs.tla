---------------------------- MODULE ClientProofs ----------------------------
(***************************************************************************)
(* A client and the programs that call it: the row and the histories of    *)
(* module Dispatch come out right for every set of routes, and the command *)
(* and the bindings of module Hosts keep their word to the programs around *)
(* them, for any inputs, group size and threads.                           *)
(*                                                                         *)
(* Dispatch: the inductive invariant is TypeOK /\ Answers /\ Histories /\  *)
(* Rows.  Answers says who answers for a route's history at each moment:   *)
(* the caller until the signal is held there, then the group, and nobody   *)
(* once the delivery is settled; so no two deliveries ever forget for the  *)
(* same route.  Rows says who may still write the row.                     *)
(*                                                                         *)
(* Hosts: CliInv says of a command that still runs that nothing was done   *)
(* before the whole input was checked, and that every signal sent so far   *)
(* has its result and, if it was held, its group; BindInv that the cell is *)
(* filled by one thread, which found the add-ons, and that nothing was     *)
(* sent before there was a client, so that a flush without one owes        *)
(* nothing.                                                                *)
(***************************************************************************)
EXTENDS Dispatch, Hosts, FiniteSetTheorems, TLAPS

(* Who answers for the history of which route.                             *)
Answers ==
  /\ step = "new" => sends = {} /\ joins = {} /\ counted = {} /\ admission = {} /\ owner = {}
  /\ \A r \in Grouped : group[r] # "none" =>
       /\ r \in joins /\ r \notin admission
       /\ step \in {"holding", "delivering", "delivered", "done"}
  /\ \A r \in Grouped : member[r] \subseteq {r}
  /\ admission \subseteq sends \union joins
  /\ step \in {"delivering", "delivered", "done"} => ToHold = {}

(* A history counts the signal until its own delivery has failed.          *)
Histories ==
  /\ counted \subseteq sends \union joins
  /\ step \notin {"delivered", "done"} =>
       counted \cap Direct \subseteq admission /\ outcome["direct"] = "none"
  /\ \A r \in counted \cap Grouped :
       /\ group[r] = "none" => r \in admission
       /\ group[r] = "open" => r \in member[r]
       /\ outcome[r] = "failed" => faulty
  /\ \A r \in Grouped : group[r] \in {"none", "open"} => outcome[r] = "none"
  /\ outcome["direct"] = "failed" /\ ~faulty => counted \cap Direct = {}

(* Who writes the row last.                                                *)
Rows ==
  /\ sends # {} => owner = {} /\ step # "unsent"
  /\ sends = {} =>
       /\ step \notin {"delivering", "delivered"}
       /\ \A r \in Grouped : group[r] # "none" => r \in owner
  /\ sends # {} /\ step = "done" /\ ~faulty => row = outcome["direct"]
  /\ sends = {} /\ joins = {} /\ step \in {"holding", "done"} /\ ~faulty => row = "skipped"
  /\ \A r \in Grouped : sends = {} /\ ~faulty /\ group[r] = "stored" =>
       \E q \in joins : group[q] = "stored" /\ row = outcome[q]

IInv == TypeOK /\ Answers /\ Histories /\ Rows

LEMMA InitInv == Init => IInv
  BY DispatchAssumption
  DEF Init, IInv, TypeOK, Statuses, Answers, Histories, Rows, ToHold

LEMMA TypeStep == IInv /\ [Next]_vars => TypeOK'
  <1> SUFFICES ASSUME IInv, [Next]_vars PROVE TypeOK'
    OBVIOUS
  <1> USE DispatchAssumption DEF IInv, TypeOK, Statuses
  <1>1. CASE Prepares
    BY <1>1 DEF Prepares, Answers
  <1>2. CASE Records \/ SettlesUnsent
    BY <1>2 DEF Records, SettlesUnsent, Write, Quietly
  <1>3. CASE Held
    BY <1>3 DEF Held
  <1>4. CASE Delivers
    BY <1>4, ZenonT(60) DEF Delivers, Settle
  <1>5. CASE Completes
    BY <1>5 DEF Completes, Write
  <1>6. ASSUME NEW r \in Grouped, Holds(r) PROVE TypeOK'
    BY <1>6 DEF Holds, Holding, ToHold
  <1>7. ASSUME NEW r \in Grouped, GroupDelivers(r) PROVE TypeOK'
    BY <1>7, ZenonT(60) DEF GroupDelivers, Settle
  <1>8. ASSUME NEW r \in Grouped, GroupStores(r) PROVE TypeOK'
    BY <1>8 DEF GroupStores, Write
  <1>9. CASE UNCHANGED vars
    BY <1>9 DEF vars
  <1> QED
    BY <1>1, <1>2, <1>3, <1>4, <1>5, <1>6, <1>7, <1>8, <1>9 DEF Next

LEMMA AnswersStep == IInv /\ [Next]_vars => Answers'
  <1> SUFFICES ASSUME IInv, [Next]_vars PROVE Answers'
    OBVIOUS
  <1> USE DispatchAssumption DEF IInv, TypeOK, Answers, ToHold
  <1>1. CASE Prepares
    BY <1>1 DEF Prepares
  <1>2. CASE Records \/ SettlesUnsent
    BY <1>2 DEF Records, SettlesUnsent
  <1>3. CASE Held
    BY <1>3 DEF Held, Holding
  <1>4. CASE Delivers \/ Completes
    BY <1>4 DEF Delivers, Completes
  <1>5. ASSUME NEW r \in Grouped, Holds(r) PROVE Answers'
    BY <1>5 DEF Holds, Holding
  <1>6. ASSUME NEW r \in Grouped, GroupDelivers(r) \/ GroupStores(r) PROVE Answers'
    BY <1>6 DEF GroupDelivers, GroupStores
  <1>7. CASE UNCHANGED vars
    BY <1>7 DEF vars
  <1> QED
    BY <1>1, <1>2, <1>3, <1>4, <1>5, <1>6, <1>7 DEF Next

LEMMA HistoriesStep == IInv /\ [Next]_vars => Histories'
  <1> SUFFICES ASSUME IInv, [Next]_vars PROVE Histories'
    OBVIOUS
  <1> USE DispatchAssumption DEF IInv, TypeOK, Histories
  <1>1. CASE Prepares
    BY <1>1 DEF Prepares, Answers
  <1>2. CASE Records \/ SettlesUnsent
    BY <1>2 DEF Records, SettlesUnsent, Write
  <1>3. CASE Held
    BY <1>3 DEF Held, Holding
  <1>4. CASE Delivers
    BY <1>4 DEF Delivers, Settle, Answers, ToHold
  <1>5. CASE Completes
    BY <1>5 DEF Completes, Write
  <1>6. ASSUME NEW r \in Grouped, Holds(r) PROVE Histories'
    BY <1>6 DEF Holds, Holding, ToHold
  <1>7. ASSUME NEW r \in Grouped, GroupDelivers(r) PROVE Histories'
    BY <1>7 DEF GroupDelivers, Settle, Answers
  <1>8. ASSUME NEW r \in Grouped, GroupStores(r) PROVE Histories'
    BY <1>8 DEF GroupStores, Write
  <1>9. CASE UNCHANGED vars
    BY <1>9 DEF vars
  <1> QED
    BY <1>1, <1>2, <1>3, <1>4, <1>5, <1>6, <1>7, <1>8, <1>9 DEF Next

LEMMA RowsStep == IInv /\ [Next]_vars => Rows'
  <1> SUFFICES ASSUME IInv, [Next]_vars PROVE Rows'
    OBVIOUS
  <1> USE DispatchAssumption DEF IInv, TypeOK, Rows
  <1>1. CASE Prepares
    BY <1>1 DEF Prepares, Answers
  <1>2. CASE Records
    BY <1>2 DEF Records, Write, Answers
  <1>3. CASE SettlesUnsent
    BY <1>3 DEF SettlesUnsent, Write, Quietly, Answers
  <1>4. CASE Held
    BY <1>4 DEF Held, Holding, Answers
  <1>5. CASE Delivers
    BY <1>5 DEF Delivers, Settle, Answers
  <1>6. CASE Completes
    BY <1>6 DEF Completes, Write, Answers
  <1>7. ASSUME NEW r \in Grouped, Holds(r) PROVE Rows'
    BY <1>7 DEF Holds, Holding, ToHold
  <1>8. ASSUME NEW r \in Grouped, GroupDelivers(r) PROVE Rows'
    BY <1>8 DEF GroupDelivers, Settle, Histories, Answers
  <1>9. ASSUME NEW r \in Grouped, GroupStores(r) PROVE Rows'
    BY <1>9 DEF GroupStores, Write, Answers
  <1>10. CASE UNCHANGED vars
    BY <1>10 DEF vars
  <1> QED
    BY <1>1, <1>2, <1>3, <1>4, <1>5, <1>6, <1>7, <1>8, <1>9, <1>10 DEF Next

LEMMA InvStep == IInv /\ [Next]_vars => IInv'
  BY TypeStep, AnswersStep, HistoriesStep, RowsStep DEF IInv

LEMMA Invariant == Spec => []IInv
  BY InitInv, InvStep, PTL DEF Spec

(* The stored row ends as the delivery went that had the last word on it   *)
(* (Client::send, hold and GroupSender::send of lib.rs), for any routes.   *)
THEOREM LastWord == Spec => []RowHasTheLastWord
  <1>1. IInv => RowHasTheLastWord
    <2> SUFFICES ASSUME IInv PROVE RowHasTheLastWord
      OBVIOUS
    <2>1. CASE sends # {} \/ joins = {}
      BY <2>1 DEF IInv, Rows, RowHasTheLastWord, Settled
    <2>2. CASE sends = {} /\ joins # {}
      BY <2>2 DEF IInv, TypeOK, Rows, RowHasTheLastWord, Settled
    <2> QED
      BY <2>1, <2>2
  <1> QED
    BY Invariant, <1>1, PTL

(* A route's history forgets and counts for its own delivery alone         *)
(* (split_off and settle of lib.rs), for any routes.                       *)
THEOREM HistoriesAreOwn == Spec => OwnHistory
  <1>1. IInv => /\ counted \subseteq sends \union joins
                /\ Settled /\ ~faulty => \A r \in counted : DeliveryOf(r) # "failed"
    <2> SUFFICES ASSUME IInv, Settled, ~faulty, NEW r \in counted
                 PROVE  DeliveryOf(r) # "failed"
      BY DEF IInv, Histories
    <2>1. CASE r \in Grouped
      BY <2>1 DEF IInv, Histories, DeliveryOf
    <2>2. CASE r \notin Grouped
      BY <2>2, DispatchAssumption DEF IInv, TypeOK, Histories, DeliveryOf
    <2> QED
      BY <2>1, <2>2
  <1>2. IInv /\ [Next]_vars =>
          [\A r \in counted \ counted' : DeliveryOf(r)' = "failed"]_vars
    <2> SUFFICES ASSUME IInv, [Next]_vars, NEW r \in counted, r \notin counted'
                 PROVE  DeliveryOf(r)' = "failed"
      OBVIOUS
    <2> USE DispatchAssumption DEF IInv, TypeOK, DeliveryOf
    <2>1. CASE Prepares
      BY <2>1 DEF Prepares, Answers
    <2>2. CASE Records \/ SettlesUnsent \/ Held \/ Completes
      BY <2>2 DEF Records, SettlesUnsent, Held, Completes
    <2>3. CASE Delivers
      BY <2>3 DEF Delivers, Settle, Answers, ToHold
    <2>4. ASSUME NEW q \in Grouped, Holds(q) \/ GroupStores(q) PROVE FALSE
      BY <2>4 DEF Holds, GroupStores
    <2>5. ASSUME NEW q \in Grouped, GroupDelivers(q) PROVE DeliveryOf(r)' = "failed"
      BY <2>5 DEF GroupDelivers, Settle, Answers
    <2>6. CASE UNCHANGED vars
      BY <2>6 DEF vars
    <2> QED
      BY <2>1, <2>2, <2>3, <2>4, <2>5, <2>6 DEF Next
  <1> QED
    BY Invariant, <1>1, <1>2, PTL DEF Spec, OwnHistory

-----------------------------------------------------------------------------
(* The command                                                             *)

Stages == {"start", "build", "send", "wait", "exited"}

CliTypes ==
  /\ world \in Processes
  /\ cli \in [at : Stages, next : Nat] /\ cli.next \in 1 .. Len(world.inputs) + 1
  /\ results \in Seq(Outcomes \union {"grouped"})
  /\ IsFiniteSet(tasks)
  /\ tasks \subseteq [members : SUBSET Nat, awaited : BOOLEAN, status : Outcomes \union {"sending"}]
  /\ open \subseteq Nat
  /\ code \in {<<>>, <<0>>, <<1>>, <<2>>}
  /\ code = <<>> <=> cli.at # "exited"

(* Nobody is held by two groups.                                           *)
Apart ==
  /\ \A a, b \in tasks : a # b => a.members \intersect b.members = {}
  /\ \A a \in tasks : a.members \intersect open = {}

Untouched == results = <<>> /\ open = {} /\ tasks = {}
AllRead == \A k \in DOMAIN world.inputs : Readable(world.inputs[k])
TakenBy(k) == k \in open \/ \E task \in tasks : k \in task.members

(* The inputs before `next` have been sent, one result each.               *)
SentSoFar ==
  LET past == 1 .. cli.next - 1 IN
  /\ world.host = "cli" /\ world.command # "preview" /\ AllRead
  /\ Len(results) = cli.next - 1
  /\ cli.next = 1 => Untouched
  /\ \A k \in past : world.inputs[k].is = "valid" /\ (world.inputs[k].to # "direct" => TakenBy(k))
  /\ open \subseteq past /\ \A task \in tasks : task.members \subseteq past

CliInv ==
  /\ CliTypes
  /\ Apart
  /\ cli.at \in {"start", "build"} => Untouched /\ cli.next = 1
  /\ cli.at = "build" => world.host = "cli" /\ AllRead
  /\ cli.at \in {"send", "wait"} => SentSoFar
  /\ cli.at = "wait" => cli.next = Len(world.inputs) + 1 /\ open = {}
  /\ cli.at = "exited" => CodeIsTrue /\ Len(results) <= Len(world.inputs) + Cardinality(tasks)

-----------------------------------------------------------------------------
(* The bindings                                                            *)

Calling == {"cell", "load", "back"}
Calls == {"notify", "send", None}

BindTypes ==
  /\ world \in Processes
  /\ cell \in {"unset", "busy", "ok", "error"}
  /\ ready \in BOOLEAN
  /\ th \in [Threads -> [at : Calling \union {"idle", "wait"}, call : Calls, calls : Nat]]
  /\ helper \in {"none", "attach", "net", "back", "answered", "failed"}
  /\ ended \in {"no", "flushing", "flushed", "late", "gone"}

(* The client is built once, by a thread that has registered the add-ons.  *)
OneClient ==
  /\ \A t, u \in Threads : th[t].at = "load" /\ th[u].at = "load" => t = u
  /\ cell = "busy" <=> \E t \in Threads : th[t].at = "load"
  /\ \A t \in Threads : th[t].at = "cell" => ready \/ cell \in {"ok", "error"}
  /\ \A t \in Threads : th[t].at = "back" => cell \in {"ok", "error"}
  /\ helper \in {"attach", "net", "back"} => world.addon
  /\ helper = "failed" => world.addon /\ world.hangs
  /\ cell = "error" => world.config = "bad" \/ (world.addon /\ world.hangs)

(* A delivery belongs to a call that has come to it, and to no other.      *)
OwnDeliveries ==
  /\ cell # "ok" => DOMAIN going = {}
  /\ \A d \in DOMAIN going :
       /\ d \in Threads \X Nat \X Calls
       /\ d[2] <= th[d[1]].calls
       /\ th[d[1]].at \in Calling => d[2] < th[d[1]].calls
  /\ \A t \in Threads : th[t].at = "wait" => Of(t) \in DOMAIN going
  /\ owed \subseteq DOMAIN going /\ \A d \in owed : Counted(d)
  /\ ended = "flushed" => \A d \in owed : going[d] = "done"

BindInv == BindTypes /\ OneClient /\ OwnDeliveries

-----------------------------------------------------------------------------
(* The steps of the command                                                *)

Kinds == [members : SUBSET Nat, awaited : BOOLEAN, status : Outcomes \union {"sending"}]

LEMMA InputTypes ==
  ASSUME CliTypes
  PROVE  /\ Len(world.inputs) \in Nat /\ DOMAIN world.inputs = 1 .. Len(world.inputs)
         /\ cli.next \in Nat /\ cli.next >= 1 /\ cli.next <= Len(world.inputs) + 1
         /\ \A k \in 1 .. Len(world.inputs) :
              /\ world.inputs[k].is \in {"valid", "invalid", "garbled"}
              /\ world.inputs[k].to \in {"direct", "grouped", "both"}
         /\ world.host = "cli" /\ world.command # "batch" => Len(world.inputs) = 1
  <1> DEFINE Inputs == [is : {"valid", "invalid", "garbled"}, to : {"direct", "grouped", "both"}]
  <1>1. world.inputs \in Seq(Inputs)
    BY HostAssumption DEF CliTypes
  <1>2. /\ Len(world.inputs) \in Nat /\ DOMAIN world.inputs = 1 .. Len(world.inputs)
        /\ \A k \in 1 .. Len(world.inputs) : world.inputs[k] \in Inputs
    <2> HIDE DEF Inputs
    <2> DEFINE inputs == world.inputs
    <2>1. inputs \in Seq(Inputs)
      BY <1>1
    <2> HIDE DEF inputs
    <2>2. /\ Len(inputs) \in Nat /\ DOMAIN inputs = 1 .. Len(inputs)
          /\ \A k \in 1 .. Len(inputs) : inputs[k] \in Inputs
      BY <2>1
    <2> QED
      BY <2>2 DEF inputs
  <1>3. world.host = "cli" /\ world.command # "batch" => Len(world.inputs) = 1
    BY HostAssumption DEF CliTypes
  <1>4. cli.next \in 1 .. Len(world.inputs) + 1
    BY DEF CliTypes
  <1> QED
    BY <1>2, <1>3, <1>4

(* A group of signals that no other group has.                             *)
LEMMA NewGroup ==
  ASSUME CliTypes, Apart, NEW held \in SUBSET Nat, NEW awaited \in BOOLEAN,
         \A a \in tasks : a.members \intersect held = {}
  PROVE  LET more == tasks \union {Task(held, awaited)} IN
         /\ IsFiniteSet(more) /\ more \subseteq Kinds
         /\ \A a, b \in more : a # b => a.members \intersect b.members = {}
         /\ Task(held, awaited).members = held
         /\ \A k \in held : \E task \in more : k \in task.members
  <1> DEFINE more == tasks \union {Task(held, awaited)}
  <1>1. /\ Task(held, awaited) \in Kinds /\ Task(held, awaited).members = held
    BY DEF Task, Kinds
  <1>2. IsFiniteSet(more)
    BY FS_AddElement DEF CliTypes
  <1>3. more \subseteq Kinds
    BY <1>1 DEF CliTypes, Kinds
  <1>4. \A a, b \in more : a # b => a.members \intersect b.members = {}
    BY <1>1 DEF Apart
  <1>5. \A k \in held : \E task \in more : k \in task.members
    BY <1>1
  <1> QED
    BY <1>1, <1>2, <1>3, <1>4, <1>5

(* An exit with code 2 claims only that a bad input was not sent.          *)
LEMMA BadExit ==
  ASSUME CliTypes, world' = world, Exited(2)',
         (\E k \in DOMAIN world.inputs : world.inputs[k].is # "valid") => Untouched'
  PROVE  CodeIsTrue'
  <1>1. <<2>> # <<0>> /\ <<2>> # <<1>>
    OBVIOUS
  <1>2. ~Exited(0)' /\ ~Exited(1)'
    BY <1>1 DEF Exited
  <1> QED
    BY <1>2 DEF CodeIsTrue, Untouched

LEMMA OnReadInputs == ASSUME CliInv, world' = world, world.host = "cli", ReadInputs PROVE CliInv'
  <1>1. CliTypes /\ Apart /\ Untouched /\ cli.next = 1 /\ code = <<>>
    BY DEF CliInv, CliTypes, ReadInputs
  <1>2. results' = results /\ open' = open /\ tasks' = tasks /\ Untouched'
    BY <1>1 DEF ReadInputs, Untouched
  <1>3. Len(world.inputs) \in Nat /\ Cardinality(tasks) = 0 /\ Len(results) = 0
    BY <1>1, InputTypes, FS_EmptySet DEF Untouched
  <1>4. CASE AllRead
    <2>1. cli' = [cli EXCEPT !.at = "build"] /\ code' = <<>>
      BY <1>1, <1>4 DEF ReadInputs, AllRead
    <2>2. cli' \in [at : Stages, next : Nat] /\ cli'.at = "build" /\ cli'.next = 1
      BY <1>1, <2>1 DEF CliTypes, Stages
    <2>3. CliTypes'
      BY <1>1, <1>2, <2>1, <2>2 DEF CliTypes
    <2>4. Apart' /\ AllRead'
      BY <1>1, <1>2, <1>4 DEF Apart, AllRead, Readable
    <2> QED
      BY <1>2, <2>2, <2>3, <2>4 DEF CliInv
  <1>5. CASE ~AllRead
    <2>1. cli' = [cli EXCEPT !.at = "exited"] /\ code' = <<2>>
      BY <1>1, <1>5 DEF ReadInputs, AllRead, Exit
    <2>2. cli' \in [at : Stages, next : Nat] /\ cli'.at = "exited" /\ cli'.next = 1
      BY <1>1, <2>1 DEF CliTypes, Stages
    <2>3. CliTypes'
      <3>1. <<2>> # <<>>
        OBVIOUS
      <3> QED
        BY <1>1, <1>2, <2>1, <2>2, <3>1 DEF CliTypes
    <2>4. Apart'
      BY <1>1, <1>2 DEF Apart
    <2>5. CodeIsTrue'
      BY <1>1, <1>2, <2>1, BadExit DEF Exited
    <2>6. (Len(results) <= Len(world.inputs) + Cardinality(tasks))'
      BY <1>2, <1>3
    <2> QED
      BY <2>2, <2>3, <2>4, <2>5, <2>6 DEF CliInv
  <1> QED
    BY <1>4, <1>5

LEMMA OnBuildClient ==
  ASSUME CliInv, world' = world, BuildClient
  PROVE  CliInv'
  <1>1. CliTypes /\ Apart /\ Untouched /\ cli.next = 1 /\ code = <<>> /\ AllRead /\ world.host = "cli"
    BY DEF CliInv, CliTypes, BuildClient
  <1>2. results' = results /\ open' = open /\ tasks' = tasks /\ Untouched'
    BY <1>1 DEF BuildClient, Untouched
  <1>3. Len(world.inputs) \in Nat /\ Cardinality(tasks) = 0 /\ Len(results) = 0
    BY <1>1, InputTypes, FS_EmptySet DEF Untouched
  <1>4. Apart'
    BY <1>1, <1>2 DEF Apart
  <1>5. ASSUME NEW with \in {0, 2}, Exit(with), with = 0 => world.command = "preview"
        PROVE  CliInv'
    <2>1. cli' = [cli EXCEPT !.at = "exited"] /\ code' = <<with>>
      BY <1>5 DEF Exit
    <2>2. cli' \in [at : Stages, next : Nat] /\ cli'.at = "exited" /\ cli'.next = 1
      BY <1>1, <2>1 DEF CliTypes, Stages
    <2>3. CliTypes'
      <3>1. <<with>> # <<>> /\ <<with>> \in {<<0>>, <<2>>}
        OBVIOUS
      <3> QED
        BY <1>1, <1>2, <2>1, <2>2, <3>1 DEF CliTypes
    <2>4. CodeIsTrue'
      <3>1. CASE with = 2
        BY <1>1, <1>2, <2>1, <3>1, BadExit DEF Exited
      <3>2. CASE with = 0
        BY <1>5, <3>2 DEF CodeIsTrue
      <3> QED
        BY <3>1, <3>2
    <2>5. (Len(results) <= Len(world.inputs) + Cardinality(tasks))'
      BY <1>2, <1>3
    <2> QED
      BY <1>4, <2>2, <2>3, <2>4, <2>5 DEF CliInv
  <1>6. ASSUME cli' = [cli EXCEPT !.at = "send"], code' = code, world.command # "preview"
        PROVE  CliInv'
    <2>1. cli' \in [at : Stages, next : Nat] /\ cli'.at = "send" /\ cli'.next = 1
      BY <1>1, <1>6 DEF CliTypes, Stages
    <2>2. CliTypes'
      BY <1>1, <1>2, <1>6, <2>1 DEF CliTypes
    <2>3. SentSoFar'
      <3>1. AllRead' /\ Len(results') = 0 /\ 1 .. cli'.next - 1 = {}
        BY <1>1, <1>2, <1>3, <2>1 DEF AllRead, Readable
      <3> QED
        BY <1>1, <1>2, <1>6, <2>1, <3>1 DEF SentSoFar, Untouched
    <2> QED
      BY <1>4, <2>1, <2>2, <2>3 DEF CliInv
  <1> QED
    BY <1>5, <1>6 DEF BuildClient

(* What sending one signal does to the groups.                             *)
LEMMA SendGroups ==
  ASSUME CliInv, SendNext, NEW n \in Nat, n = cli.next
  PROVE  LET hold == world.inputs[n].is = "valid" /\ world.inputs[n].to # "direct" IN
         /\ IsFiniteSet(tasks') /\ tasks' \subseteq Kinds /\ open' \subseteq Nat
         /\ Apart'
         /\ \A k \in Nat : TakenBy(k) => TakenBy(k)'
         /\ hold => TakenBy(n)'
         /\ ~hold => tasks' = tasks /\ open' = open
         /\ open' \subseteq 1 .. n /\ \A task \in tasks' : task.members \subseteq 1 .. n
  <1> DEFINE hold == world.inputs[n].is = "valid" /\ world.inputs[n].to # "direct"
             held == open \union {n}
             full == Cardinality(held) = MaxGroupSize
             past == 1 .. n - 1
  <1>1. CliTypes /\ Apart /\ SentSoFar
    BY DEF CliInv, SendNext
  <1>2. n \in Nat /\ n >= 1
    BY <1>1, InputTypes
  <1>3. open \subseteq past /\ \A task \in tasks : task.members \subseteq past
    BY <1>1 DEF SentSoFar
  <1>4. held \in SUBSET Nat /\ held \subseteq 1 .. n /\ past \subseteq 1 .. n /\ n \notin past
    <2>1. open \subseteq Nat
      BY <1>1 DEF CliTypes
    <2>2. past \subseteq 1 .. n /\ n \notin past /\ n \in 1 .. n
      BY <1>2
    <2> QED
      BY <1>3, <2>1, <2>2
  <1>5. \A a \in tasks : a.members \intersect held = {}
    BY <1>1, <1>3, <1>4 DEF Apart
  <1>6. /\ open' = CASE ~hold -> open [] hold /\ full -> {} [] hold /\ ~full -> held
        /\ tasks' = IF hold /\ full THEN tasks \union {Task(held, FALSE)} ELSE tasks
    BY DEF SendNext
  <1>7. IsFiniteSet(tasks) /\ tasks \subseteq Kinds /\ open \subseteq Nat
    BY <1>1 DEF CliTypes, Kinds
  <1> HIDE DEF hold, held, full, past
  <1>8. CASE ~hold
    <2>1. open' = open /\ tasks' = tasks
      BY <1>6, <1>8
    <2>2. Apart' /\ \A k \in Nat : TakenBy(k) => TakenBy(k)'
      BY <1>1, <2>1 DEF Apart, TakenBy
    <2> QED
      BY <1>3, <1>4, <1>7, <1>8, <2>1, <2>2 DEF hold
  <1>9. CASE hold /\ ~full
    <2>1. open' = held /\ tasks' = tasks
      BY <1>6, <1>9
    <2>2. Apart'
      BY <1>1, <1>5, <2>1 DEF Apart
    <2>3. (\A k \in Nat : TakenBy(k) => TakenBy(k)') /\ TakenBy(n)'
      BY <2>1 DEF TakenBy, held
    <2> QED
      BY <1>3, <1>4, <1>7, <1>9, <2>1, <2>2, <2>3 DEF hold
  <1>10. CASE hold /\ full
    <2>1. open' = {} /\ tasks' = tasks \union {Task(held, FALSE)}
      BY <1>6, <1>10
    <2>2. /\ IsFiniteSet(tasks') /\ tasks' \subseteq Kinds
          /\ \A a, b \in tasks' : a # b => a.members \intersect b.members = {}
          /\ Task(held, FALSE).members = held
          /\ \A k \in held : \E task \in tasks' : k \in task.members
      BY <1>1, <1>4, <1>5, <2>1, NewGroup, ZenonT(60)
    <2>3. Apart'
      BY <2>1, <2>2 DEF Apart
    <2>4. (\A k \in Nat : TakenBy(k) => TakenBy(k)') /\ TakenBy(n)'
      BY <2>1, <2>2 DEF TakenBy, held
    <2>5. \A task \in tasks' : task.members \subseteq 1 .. n
      BY <1>3, <1>4, <2>1, <2>2
    <2> QED
      BY <1>10, <2>1, <2>2, <2>3, <2>4, <2>5 DEF hold
  <1> QED
    BY <1>8, <1>9, <1>10

LEMMA OnSendNext == ASSUME CliInv, world' = world, SendNext PROVE CliInv'
  <1>0. PICK n \in Nat : n = cli.next
    BY DEF CliInv, CliTypes
  <1> DEFINE in == world.inputs[n]
             hold == in.is = "valid" /\ in.to # "direct"
  <1>1. CliTypes /\ Apart /\ SentSoFar /\ code = <<>> /\ cli.at = "send"
    BY DEF CliInv, CliTypes, SendNext
  <1>2. /\ Len(world.inputs) \in Nat /\ DOMAIN world.inputs = 1 .. Len(world.inputs)
        /\ n \in Nat /\ n >= 1 /\ n <= Len(world.inputs) /\ n \in DOMAIN world.inputs
        /\ world.command # "batch" => Len(world.inputs) = 1
    BY <1>0, <1>1, InputTypes DEF SendNext, SentSoFar
  <1>3. /\ IsFiniteSet(tasks') /\ tasks' \subseteq Kinds /\ open' \subseteq Nat
        /\ Apart'
        /\ \A k \in Nat : TakenBy(k) => TakenBy(k)'
        /\ hold => TakenBy(n)'
        /\ ~hold => tasks' = tasks /\ open' = open
        /\ open' \subseteq 1 .. n /\ \A task \in tasks' : task.members \subseteq 1 .. n
    BY <1>0, SendGroups
  <1>4. results \in Seq(Outcomes \union {"grouped"}) /\ Len(results) = n - 1
    BY <1>0, <1>1 DEF CliTypes, SentSoFar
  <1>5. CASE in.is = "valid" /\ cli' = [cli EXCEPT !.next = @ + 1] /\ code' = code
             /\ \E status \in Outcomes \union {"grouped"} : results' = Append(results, status)
    <2>1. cli' \in [at : Stages, next : Nat] /\ cli'.at = "send" /\ cli'.next = n + 1
      BY <1>0, <1>1, <1>2, <1>5, SMTT(40) DEF CliTypes, Stages
    <2>2. results' \in Seq(Outcomes \union {"grouped"}) /\ Len(results') = n
      <3>1. PICK status \in Outcomes \union {"grouped"} : results' = Append(results, status)
        BY <1>5
      <3> DEFINE Results == Outcomes \union {"grouped"}
      <3> HIDE DEF Results
      <3>2. results \in Seq(Results) /\ status \in Results
        BY <1>4, <3>1 DEF Results
      <3>3. Append(results, status) \in Seq(Results) /\ Len(Append(results, status)) = Len(results) + 1
        BY <3>2
      <3> QED
        BY <1>2, <1>4, <3>1, <3>3 DEF Results
    <2>3. CliTypes'
      BY <1>1, <1>2, <1>3, <1>5, <2>1, <2>2 DEF CliTypes, Kinds
    <2>4. ASSUME NEW k \in 1 .. n
          PROVE  world.inputs[k].is = "valid" /\ (world.inputs[k].to # "direct" => TakenBy(k)')
      <3>1. CASE k = n
        BY <1>3, <1>5, <3>1
      <3>2. CASE k # n
        <4>1. k \in 1 .. n - 1 /\ k \in Nat
          BY <1>2, <3>2
        <4>2. world.inputs[k].is = "valid" /\ (world.inputs[k].to # "direct" => TakenBy(k))
          BY <1>0, <1>1, <4>1 DEF SentSoFar
        <4> QED
          BY <1>3, <4>1, <4>2
      <3> QED
        BY <3>1, <3>2
    <2>5. cli'.next - 1 = n /\ cli'.next # 1
      BY <1>2, <2>1
    <2>6. AllRead' /\ world.host = "cli" /\ world.command # "preview"
      BY <1>1 DEF SentSoFar, AllRead, Readable
    <2>7. SentSoFar'
      BY <1>3, <2>2, <2>4, <2>5, <2>6 DEF SentSoFar
    <2> QED
      BY <1>3, <2>1, <2>3, <2>7 DEF CliInv
  <1>6. CASE Exit(2) /\ results' = results
    <2>1. cli' = [cli EXCEPT !.at = "exited"] /\ code' = <<2>>
      BY <1>6 DEF Exit
    <2>2. cli' \in [at : Stages, next : Nat] /\ cli'.at = "exited" /\ cli'.next = n
      BY <1>0, <1>1, <2>1 DEF CliTypes, Stages
    <2>3. CliTypes'
      <3>1. <<2>> # <<>>
        OBVIOUS
      <3> QED
        BY <1>1, <1>3, <1>6, <2>1, <2>2, <3>1 DEF CliTypes, Kinds
    <2>4. ASSUME NEW k \in DOMAIN world.inputs, world.inputs[k].is # "valid" PROVE Untouched'
      <3>1. world.command # "batch"
        BY <1>1, <2>4 DEF SentSoFar, AllRead, Readable
      <3>2. k = 1 /\ n = 1
        <4>1. Len(world.inputs) = 1 /\ k \in 1 .. Len(world.inputs)
          BY <1>2, <3>1
        <4> QED
          BY <1>2, <4>1
      <3>3. Untouched
        BY <1>0, <1>1, <3>2 DEF SentSoFar
      <3> QED
        BY <1>3, <1>6, <2>4, <3>2, <3>3 DEF Untouched
    <2>5. CodeIsTrue'
      BY <1>1, <2>1, <2>4, BadExit DEF Exited
    <2>6. (Len(results) <= Len(world.inputs) + Cardinality(tasks))'
      <3>1. Cardinality(tasks') \in Nat
        BY <1>3, FS_CardinalityType
      <3> QED
        BY <1>2, <1>4, <1>6, <3>1
    <2> QED
      BY <1>3, <2>2, <2>3, <2>5, <2>6 DEF CliInv
  <1> QED
    BY <1>0, <1>5, <1>6 DEF SendNext

(* The groups while nothing else of the command changes.                   *)
LEMMA SameProgress ==
  ASSUME CliInv, world' = world, results' = results, code' = code, cli.at \in {"send", "wait"},
         cli' \in [at : Stages, next : Nat], cli'.next = cli.next, cli'.at \in {"send", "wait"},
         cli'.at = "wait" => cli.next = Len(world.inputs) + 1 /\ open' = {},
         IsFiniteSet(tasks'), tasks' \subseteq Kinds, open' \subseteq open, Apart',
         \A k \in Nat : TakenBy(k) => TakenBy(k)',
         \A a \in tasks' : a.members \subseteq open \/ \E b \in tasks : a.members = b.members,
         Untouched => Untouched'
  PROVE  CliInv'
  <1>1. CliTypes /\ SentSoFar
    BY DEF CliInv
  <1>2. CliTypes'
    BY <1>1 DEF CliTypes, Kinds
  <1>3. \A k \in 1 .. cli.next - 1 : k \in Nat
    BY <1>1, InputTypes
  <1>4. open' \subseteq 1 .. cli.next - 1 /\ \A task \in tasks' : task.members \subseteq 1 .. cli.next - 1
    BY <1>1 DEF SentSoFar
  <1>5. AllRead'
    BY <1>1 DEF SentSoFar, AllRead, Readable
  <1>6. SentSoFar'
    BY <1>1, <1>3, <1>4, <1>5 DEF SentSoFar
  <1> QED
    BY <1>2, <1>6 DEF CliInv

LEMMA OnTimerTakes == ASSUME CliInv, world' = world, TimerTakes PROVE CliInv'
  <1>1. CliTypes /\ Apart /\ cli.at = "send" /\ open # {} /\ open \in SUBSET Nat
    BY DEF CliInv, CliTypes, TimerTakes, Untouched, Stages
  <1>2. cli' = cli /\ results' = results /\ code' = code /\ open' = {}
        /\ tasks' = tasks \union {Task(open, FALSE)}
    BY DEF TimerTakes
  <1>3. \A a \in tasks : a.members \intersect open = {}
    BY <1>1 DEF Apart
  <1>4. /\ IsFiniteSet(tasks') /\ tasks' \subseteq Kinds
        /\ \A a, b \in tasks' : a # b => a.members \intersect b.members = {}
        /\ Task(open, FALSE).members = open
        /\ \A k \in open : \E task \in tasks' : k \in task.members
    BY <1>1, <1>2, <1>3, NewGroup, ZenonT(60)
  <1>5. Apart' /\ \A k \in Nat : TakenBy(k) => TakenBy(k)'
    BY <1>2, <1>4 DEF Apart, TakenBy
  <1>6. \A a \in tasks' : a.members \subseteq open \/ \E b \in tasks : a.members = b.members
    BY <1>2, <1>4
  <1>7. ~Untouched
    BY <1>1 DEF Untouched
  <1> QED
    BY <1>1, <1>2, <1>4, <1>5, <1>6, <1>7, SameProgress DEF CliTypes

LEMMA OnTaskEnds == ASSUME CliInv, world' = world, TaskEnds PROVE CliInv'
  <1>1. PICK task \in tasks, status \in Outcomes :
          task.status = "sending" /\ tasks' = (tasks \ {task}) \union {[task EXCEPT !.status = status]}
    BY DEF TaskEnds
  <1>2. CliTypes /\ Apart /\ tasks # {} /\ cli.at \in {"send", "wait"}
    BY <1>1 DEF CliInv, CliTypes, TaskEnds, Untouched, Stages
  <1>3. cli' = cli /\ results' = results /\ code' = code /\ open' = open
    BY DEF TaskEnds
  <1> DEFINE after == [task EXCEPT !.status = status]
  <1>4. after \in Kinds /\ after.members = task.members
    BY <1>1, <1>2 DEF CliTypes, Kinds
  <1>5. tasks' = (tasks \ {task}) \union {after}
    BY <1>1
  <1> HIDE DEF after
  <1>6. IsFiniteSet(tasks')
    <2>1. IsFiniteSet(tasks \ {task})
      BY <1>2, FS_Subset DEF CliTypes
    <2> QED
      BY <1>5, <2>1, FS_AddElement
  <1>7. tasks' \subseteq Kinds
    BY <1>2, <1>4, <1>5 DEF CliTypes, Kinds
  <1>8. Apart' /\ \A k \in Nat : TakenBy(k) => TakenBy(k)'
    BY <1>2, <1>3, <1>4, <1>5 DEF Apart, TakenBy
  <1>9. \A a \in tasks' : \E b \in tasks : a.members = b.members
    BY <1>4, <1>5
  <1>10. ~Untouched /\ (cli.at = "wait" => cli.next = Len(world.inputs) + 1 /\ open = {})
    BY <1>2 DEF Untouched, CliInv
  <1> QED
    BY <1>2, <1>3, <1>6, <1>7, <1>8, <1>9, <1>10, SameProgress DEF CliTypes

LEMMA OnTakeGroups == ASSUME CliInv, world' = world, TakeGroups PROVE CliInv'
  <1>1. CliTypes /\ Apart /\ cli.at = "send" /\ open \in SUBSET Nat
    BY DEF CliInv, CliTypes, TakeGroups
  <1>2. cli' = [cli EXCEPT !.at = "wait"] /\ results' = results /\ code' = code /\ open' = {}
        /\ cli.next > Len(world.inputs)
    BY DEF TakeGroups
  <1>3. cli' \in [at : Stages, next : Nat] /\ cli'.at = "wait" /\ cli'.next = cli.next
    BY <1>1, <1>2 DEF CliTypes, Stages
  <1>4. cli.next = Len(world.inputs) + 1
    BY <1>1, <1>2, InputTypes
  <1>5. CASE open = {}
    <2>1. tasks' = tasks
      BY <1>5 DEF TakeGroups
    <2>2. Apart' /\ (\A k \in Nat : TakenBy(k) => TakenBy(k)') /\ (Untouched => Untouched')
      BY <1>1, <1>2, <1>5, <2>1 DEF Apart, TakenBy, Untouched
    <2>3. IsFiniteSet(tasks) /\ tasks \subseteq Kinds
      BY <1>1 DEF CliTypes, Kinds
    <2> QED
      BY <1>1, <1>2, <1>3, <1>4, <2>1, <2>2, <2>3, SameProgress
  <1>6. CASE open # {}
    <2>1. tasks' = tasks \union {Task(open, TRUE)}
      BY <1>6 DEF TakeGroups
    <2>2. \A a \in tasks : a.members \intersect open = {}
      BY <1>1 DEF Apart
    <2>3. /\ IsFiniteSet(tasks') /\ tasks' \subseteq Kinds
          /\ \A a, b \in tasks' : a # b => a.members \intersect b.members = {}
          /\ Task(open, TRUE).members = open
          /\ \A k \in open : \E task \in tasks' : k \in task.members
      BY <1>1, <2>1, <2>2, NewGroup
    <2>4. Apart' /\ \A k \in Nat : TakenBy(k) => TakenBy(k)'
      BY <1>2, <2>1, <2>3 DEF Apart, TakenBy
    <2>5. \A a \in tasks' : a.members \subseteq open \/ \E b \in tasks : a.members = b.members
      BY <2>1, <2>3
    <2>6. ~Untouched
      BY <1>6 DEF Untouched
    <2> QED
      BY <1>1, <1>2, <1>3, <1>4, <2>3, <2>4, <2>5, <2>6, SameProgress
  <1> QED
    BY <1>5, <1>6

(* SetToSeq lists a finite set.                                            *)
LEMMA AsSequence ==
  ASSUME NEW S, IsFiniteSet(S)
  PROVE  /\ SetToSeq(S) \in Seq(S) /\ Len(SetToSeq(S)) = Cardinality(S)
         /\ Range(SetToSeq(S)) = S /\ Cardinality(S) \in Nat
  <1> DEFINE n == Cardinality(S)
             list == SetToSeq(S)
  <1>1. n \in Nat /\ ExistsBijection(1 .. n, S)
    BY FS_CardinalityType
  <1>2. \E f \in [1 .. n -> S] : IsInjective(f)
    BY <1>1 DEF ExistsBijection, Bijection, Injection
  <1>3. list \in [1 .. n -> S] /\ IsInjective(list)
    BY <1>2 DEF SetToSeq
  <1>4. list \in Injection(1 .. n, S)
    BY <1>3 DEF Injection
  <1>5. Cardinality(1 .. n) = n
    <2> HIDE DEF n
    <2>1. Cardinality(1 .. n) = IF 1 > n THEN 0 ELSE n - 1 + 1
      BY <1>1, FS_Interval
    <2> QED
      BY <1>1, <2>1
  <1>6. list \in Surjection(1 .. n, S)
    BY <1>4, <1>5, FS_Injection
  <1> HIDE DEF n, list
  <1>7. list \in Seq(S) /\ Len(list) = n /\ DOMAIN list = 1 .. n
    BY <1>1, <1>3
  <1>8. Range(list) = S
    BY <1>3, <1>6 DEF Surjection, Range
  <1> QED
    BY <1>1, <1>7, <1>8 DEF n, list

(* The statuses of the groups that the report is about.                    *)
EndedStatuses == {task.status : task \in {t \in tasks : Ended(t)}}

LEMMA EndedAreFew ==
  ASSUME CliTypes
  PROVE  /\ IsFiniteSet(EndedStatuses) /\ Cardinality(EndedStatuses) <= Cardinality(tasks)
         /\ Cardinality(EndedStatuses) \in Nat /\ Cardinality(tasks) \in Nat
         /\ EndedStatuses \subseteq Outcomes \union {"grouped"}
  <1> DEFINE T == {t \in tasks : Ended(t)}
             f == [t \in T |-> t.status]
  <1>1. IsFiniteSet(T) /\ Cardinality(T) <= Cardinality(tasks)
    BY FS_Subset DEF CliTypes
  <1>2. f \in Surjection(T, EndedStatuses)
    BY DEF Surjection, EndedStatuses
  <1>3. IsFiniteSet(EndedStatuses) /\ Cardinality(EndedStatuses) <= Cardinality(T)
    BY <1>1, <1>2, FS_Surjection
  <1>4. /\ Cardinality(EndedStatuses) \in Nat /\ Cardinality(T) \in Nat
        /\ Cardinality(tasks) \in Nat
    BY <1>1, <1>3, FS_CardinalityType DEF CliTypes
  <1>5. Cardinality(EndedStatuses) <= Cardinality(tasks)
    BY <1>1, <1>3, <1>4
  <1>6. EndedStatuses \subseteq Outcomes
    BY DEF CliTypes, EndedStatuses, Ended
  <1> QED
    BY <1>3, <1>4, <1>5, <1>6

LEMMA OnFinish == ASSUME CliInv, world' = world, Finish PROVE CliInv'
  <1>1. /\ CliTypes /\ Apart /\ SentSoFar /\ open = {} /\ cli.at = "wait"
        /\ cli.next = Len(world.inputs) + 1
    BY DEF CliInv, Finish
  <1>2. /\ Len(world.inputs) \in Nat /\ DOMAIN world.inputs = 1 .. Len(world.inputs)
        /\ results \in Seq(Outcomes \union {"grouped"}) /\ Len(results) = Len(world.inputs)
    BY <1>1, InputTypes DEF CliTypes, SentSoFar
  <1>3. /\ IsFiniteSet(EndedStatuses) /\ Cardinality(EndedStatuses) <= Cardinality(tasks)
        /\ Cardinality(EndedStatuses) \in Nat /\ Cardinality(tasks) \in Nat
        /\ EndedStatuses \subseteq Outcomes \union {"grouped"}
    BY <1>1, EndedAreFew
  <1> DEFINE Results == Outcomes \union {"grouped"}
             groups == SetToSeq(EndedStatuses)
             all == results \o groups
             m == Len(world.inputs)
  <1>4. /\ groups \in Seq(EndedStatuses) /\ Len(groups) = Cardinality(EndedStatuses)
        /\ Range(groups) = EndedStatuses
    BY <1>3, AsSequence
  <1>5. groups \in Seq(Results)
    <2> HIDE DEF groups, Results
    <2>1. EndedStatuses \subseteq Results
      BY <1>3 DEF Results
    <2> QED
      BY <1>4, <2>1
  <1>6. results' = all /\ cli' = [cli EXCEPT !.at = "exited"] /\ code' = <<Report(all)>>
        /\ open' = open /\ tasks' = tasks
    BY DEF Finish, Exit, EndedStatuses
  <1> HIDE DEF groups, Results, m
  <1>7. /\ all \in Seq(Results) /\ Len(all) = m + Len(groups)
        /\ DOMAIN all = 1 .. m + Len(groups) /\ Len(groups) \in Nat /\ m \in Nat
        /\ \A k \in 1 .. m : all[k] = results[k]
        /\ \A k \in 1 .. Len(groups) : all[m + k] = groups[k]
    <2>1. results \in Seq(Results) /\ Len(results) = m
      BY <1>2 DEF Results, m
    <2> QED
      BY <1>5, <2>1
  <1> HIDE DEF all
  <1>8. Range(all) = {all[k] : k \in 1 .. m} \union EndedStatuses
    <2>1. DOMAIN groups = 1 .. Len(groups)
      BY <1>5
    <2>2. ASSUME NEW k \in DOMAIN all PROVE all[k] \in {all[l] : l \in 1 .. m} \union EndedStatuses
      <3>1. CASE k \in 1 .. m
        BY <3>1
      <3>2. CASE k \notin 1 .. m
        <4>1. k - m \in 1 .. Len(groups) /\ m + (k - m) = k
          BY <1>7, <3>2
        <4> QED
          BY <1>4, <1>7, <2>1, <4>1 DEF Range
      <3> QED
        BY <3>1, <3>2
    <2>3. \A k \in 1 .. m : k \in DOMAIN all
      BY <1>7
    <2>4. ASSUME NEW s \in EndedStatuses PROVE s \in Range(all)
      <3>1. PICK k \in 1 .. Len(groups) : groups[k] = s
        BY <1>4, <2>1 DEF Range
      <3>2. m + k \in DOMAIN all /\ all[m + k] = s
        BY <1>7, <3>1
      <3> QED
        BY <3>2 DEF Range
    <2> QED
      BY <2>2, <2>3, <2>4 DEF Range
  <1>9. cli' \in [at : Stages, next : Nat] /\ cli'.at = "exited" /\ cli'.next = m + 1
    BY <1>1, <1>6 DEF CliTypes, Stages, m
  <1>10. Report(all) \in {0, 1} /\ code' \in {<<0>>, <<1>>} /\ code' # <<>>
    <2>1. Report(all) \in {0, 1}
      BY DEF Report
    <2> QED
      BY <1>6, <2>1
  <1>11. CliTypes'
    BY <1>1, <1>6, <1>7, <1>9, <1>10 DEF CliTypes, Results, m
  <1>12. Apart'
    BY <1>1, <1>6 DEF Apart
  <1>13. CodeIsTrue'
    <2>1. ASSUME Exited(0)'
          PROVE  /\ cli'.next > m
                 /\ \A k \in 1 .. m : all[k] \in Good
                 /\ \A task \in tasks : task.awaited => task.status \in Good \union {"sending"}
      <3>1. Report(all) = 0
        BY <1>6, <2>1 DEF Exited
      <3>2. Range(all) \subseteq Good
        BY <3>1 DEF Report
      <3> QED
        BY <1>7, <1>8, <1>9, <3>2 DEF EndedStatuses, Ended
    <2>2. ASSUME Exited(1)'
          PROVE  \/ \E k \in 1 .. m : all[k] \notin Good
                 \/ \E task \in tasks : task.awaited /\ task.status \notin Good \union {"sending"}
      <3>1. Report(all) = 1
        BY <1>6, <2>2 DEF Exited
      <3>2. ~(Range(all) \subseteq Good)
        BY <3>1 DEF Report
      <3> QED
        BY <1>8, <3>2 DEF EndedStatuses, Ended
    <2>3. \A k \in 1 .. m : /\ world.inputs[k].is = "valid"
                            /\ world.inputs[k].to # "direct" => \E task \in tasks : k \in task.members
      <3>1. 1 .. cli.next - 1 = 1 .. m
        BY <1>1, <1>2 DEF m
      <3> QED
        BY <1>1, <3>1 DEF SentSoFar, TakenBy
    <2>4. DOMAIN world.inputs = 1 .. m /\ Len(world.inputs) = m
      BY <1>2 DEF m
    <2> QED
      BY <1>1, <1>6, <2>1, <2>2, <2>3, <2>4 DEF CodeIsTrue
  <1>14. (Len(results) <= Len(world.inputs) + Cardinality(tasks))'
    BY <1>3, <1>4, <1>6, <1>7 DEF m
  <1> QED
    BY <1>9, <1>11, <1>12, <1>13, <1>14 DEF CliInv

LEMMA CliInitInv == HostInit => CliInv
  <1> SUFFICES ASSUME HostInit PROVE CliInv
    OBVIOUS
  <1>1. /\ world \in Processes /\ cli = [at |-> "start", next |-> 1] /\ results = <<>> /\ open = {}
        /\ tasks = {} /\ code = <<>>
    BY DEF HostInit, CliInit
  <1>2. Len(world.inputs) \in Nat
    <2>1. world.inputs \in
            Seq([is : {"valid", "invalid", "garbled"}, to : {"direct", "grouped", "both"}])
      BY <1>1, HostAssumption
    <2> QED
      BY <2>1
  <1>3. cli \in [at : Stages, next : Nat] /\ cli.at = "start" /\ cli.next = 1
    BY <1>1 DEF Stages
  <1>4. CliTypes
    <2>1. cli.next \in 1 .. Len(world.inputs) + 1
      BY <1>2, <1>3
    <2>2. <<>> \in Seq(Outcomes \union {"grouped"}) /\ IsFiniteSet(tasks)
      BY <1>1, FS_EmptySet
    <2> QED
      BY <1>1, <1>3, <2>1, <2>2 DEF CliTypes
  <1> QED
    BY <1>1, <1>3, <1>4 DEF CliInv, Apart, Untouched

LEMMA CliNextInv == CliInv /\ [HostNext]_hostVars => CliInv'
  <1> SUFFICES ASSUME CliInv, [HostNext]_hostVars PROVE CliInv'
    OBVIOUS
  <1>1. CASE Command
    <2>1. world' = world /\ world.host = "cli" /\ CliNext
      BY <1>1 DEF Command
    <2> QED
      BY <2>1, OnReadInputs, OnBuildClient, OnSendNext, OnTimerTakes, OnTaskEnds, OnTakeGroups,
         OnFinish DEF CliNext
  <1>2. CASE UNCHANGED <<world, cliVars>>
    BY <1>2 DEF cliVars, CliInv, CliTypes, Apart, Untouched, AllRead, Readable, SentSoFar, TakenBy,
                CodeIsTrue, Exited
  <1>3. CASE UNCHANGED hostVars
    BY <1>2, <1>3 DEF hostVars
  <1> QED
    BY <1>1, <1>2, <1>3 DEF HostNext, Program

-----------------------------------------------------------------------------
(* The steps of the bindings                                               *)

ThreadStates ==
  [at : Calling \union {"idle", "wait"}, call : Calls, calls : Nat]

(* What a step of thread t does to the threads.                            *)
Goes(t, at) ==
  /\ th' \in [Threads -> ThreadStates]
  /\ th'[t].at = at /\ th'[t].calls = th[t].calls
  /\ at # "idle" => th'[t].call = th[t].call
  /\ \A u \in Threads : u # t => th'[u] = th[u]

LEMMA Moves ==
  ASSUME BindTypes, NEW t \in Threads, NEW at \in Calling \union {"idle", "wait"}, th' = At(t, at)
  PROVE  Goes(t, at)
  <1>1. th \in [Threads -> ThreadStates]
    BY DEF BindTypes, ThreadStates
  <1>2. th' = [th EXCEPT ![t] = [th[t] EXCEPT !.at = at]]
    BY DEF At
  <1>3. th[t] \in ThreadStates
    BY <1>1
  <1>4. /\ [th[t] EXCEPT !.at = at] \in ThreadStates
        /\ [th[t] EXCEPT !.at = at].at = at /\ [th[t] EXCEPT !.at = at].calls = th[t].calls
        /\ [th[t] EXCEPT !.at = at].call = th[t].call
    BY <1>3 DEF ThreadStates
  <1> DEFINE moved == [th[t] EXCEPT !.at = at]
  <1> HIDE DEF moved, ThreadStates
  <1>5. th' = [th EXCEPT ![t] = moved] /\ moved \in ThreadStates
    BY <1>2, <1>4 DEF moved
  <1>6. /\ th' \in [Threads -> ThreadStates] /\ th'[t] = moved
        /\ \A u \in Threads : u # t => th'[u] = th[u]
    BY <1>1, <1>5
  <1>7. moved.at = at /\ moved.calls = th[t].calls /\ moved.call = th[t].call
    BY <1>4 DEF moved
  <1> QED
    BY <1>6, <1>7 DEF Goes

LEMMA Rests ==
  ASSUME BindTypes, NEW t \in Threads, th' = [At(t, "idle") EXCEPT ![t].call = None]
  PROVE  Goes(t, "idle")
  <1>1. th \in [Threads -> ThreadStates]
    BY DEF BindTypes, ThreadStates
  <1>2. th[t] \in ThreadStates
    BY <1>1
  <1> DEFINE rested == [[th[t] EXCEPT !.at = "idle"] EXCEPT !.call = None]
  <1>3. rested \in ThreadStates /\ rested.at = "idle" /\ rested.calls = th[t].calls
    BY <1>2 DEF ThreadStates, Calls
  <1>4. th' = [th EXCEPT ![t] = rested]
    <2>1. At(t, "idle") = [th EXCEPT ![t] = [th[t] EXCEPT !.at = "idle"]]
      BY DEF At
    <2>2. At(t, "idle")[t] = [th[t] EXCEPT !.at = "idle"]
      BY <1>1, <2>1
    <2> DEFINE first == [th[t] EXCEPT !.at = "idle"]
    <2>3. th' = [[th EXCEPT ![t] = first] EXCEPT ![t] = [first EXCEPT !.call = None]]
      BY <2>1, <2>2
    <2> HIDE DEF first
    <2>4. th' = [th EXCEPT ![t] = [first EXCEPT !.call = None]]
      BY <2>3, <1>1
    <2> QED
      BY <2>4 DEF first
  <1> HIDE DEF rested, ThreadStates
  <1>5. /\ th' \in [Threads -> ThreadStates] /\ th'[t] = rested
        /\ \A u \in Threads : u # t => th'[u] = th[u]
    BY <1>1, <1>3, <1>4
  <1> QED
    BY <1>3, <1>5 DEF Goes

LEMMA BindInitInv == HostInit => BindInv
  <1> SUFFICES ASSUME HostInit PROVE BindInv
    OBVIOUS
  <1>1. /\ world \in Processes /\ gil = None /\ cell = "unset" /\ ready = FALSE
        /\ th = [t \in Threads |-> [at |-> "idle", call |-> None, calls |-> 0]]
        /\ helper = "none" /\ going = <<>> /\ owed = {} /\ ended = "no"
    BY DEF HostInit, BindInit
  <1>2. DOMAIN going = {}
    BY <1>1
  <1>3. /\ th \in [Threads -> ThreadStates] /\ \A t \in Threads : th[t].at = "idle"
    BY <1>1 DEF ThreadStates, Calls
  <1>4. BindTypes
    BY <1>1, <1>3 DEF BindTypes, ThreadStates
  <1>5. OneClient
    BY <1>1, <1>3 DEF OneClient
  <1>6. OwnDeliveries
    BY <1>1, <1>2, <1>3 DEF OwnDeliveries
  <1> QED
    BY <1>4, <1>5, <1>6 DEF BindInv

(* Moving a thread leaves the deliveries to their calls.                   *)
LEMMA DeliveriesStay ==
  ASSUME BindInv, NEW t \in Threads, NEW at, Goes(t, at),
         at = "wait" => Of(t) \in DOMAIN going,
         at \in Calling => th[t].at \in Calling,
         cell = "ok" => cell' = "ok",
         UNCHANGED <<going, owed, ended>>
  PROVE  OwnDeliveries'
  <1> USE DEF BindInv, OwnDeliveries, Goes
  <1>1. (cell # "ok" => DOMAIN going = {})'
    OBVIOUS
  <1>2. ASSUME NEW d \in DOMAIN going
        PROVE  /\ d \in Threads \X Nat \X Calls
               /\ d[2] <= th'[d[1]].calls
               /\ th'[d[1]].at \in Calling => d[2] < th'[d[1]].calls
    <2>1. d \in Threads \X Nat \X Calls /\ d[1] \in Threads
      OBVIOUS
    <2>2. CASE d[1] = t
      BY <2>1, <2>2
    <2>3. CASE d[1] # t
      BY <2>1, <2>3
    <2> QED
      BY <2>1, <2>2, <2>3
  <1>3. ASSUME NEW u \in Threads, th'[u].at = "wait" PROVE <<u, th'[u].calls, th'[u].call>> \in DOMAIN going
    <2>1. CASE u = t
      BY <1>3, <2>1 DEF Of
    <2>2. CASE u # t
      BY <1>3, <2>2 DEF Of
    <2> QED
      BY <2>1, <2>2
  <1>4. /\ owed' \subseteq DOMAIN going' /\ \A d \in owed' : Counted(d)
        /\ ended' = "flushed" => \A d \in owed' : going'[d] = "done"
    OBVIOUS
  <1> QED
    BY <1>1, <1>2, <1>3, <1>4 DEF Of

LEMMA OnCall ==
  ASSUME BindInv, world' = world, NEW t \in Threads, NEW call \in {"notify", "send"}, Call(t, call)
  PROVE  BindInv'
  <1>1. /\ th[t].at = "idle" /\ UNCHANGED <<cell, helper, going, owed, ended>>
        /\ ready' = RegisterAddons \/ ready' = ready
    BY DEF Call
  <1>2. th \in [Threads -> ThreadStates] /\ th[t] \in ThreadStates
    BY DEF BindInv, BindTypes, ThreadStates
  <1>3. CASE /\ th' = [th EXCEPT ![t] = [at |-> "cell", call |-> call, calls |-> @.calls + 1]]
             /\ ready' = RegisterAddons
    <2> DEFINE calling == [at |-> "cell", call |-> call, calls |-> th[t].calls + 1]
    <2>1. calling \in ThreadStates /\ calling.at = "cell" /\ calling.calls = th[t].calls + 1
      BY <1>2 DEF ThreadStates, Calling, Calls
    <2>2. th' = [th EXCEPT ![t] = calling]
      BY <1>3
    <2> HIDE DEF calling
    <2>3. /\ th' \in [Threads -> ThreadStates] /\ th'[t] = calling
          /\ \A u \in Threads : u # t => th'[u] = th[u]
      <3> HIDE DEF ThreadStates
      <3> QED
        BY <1>2, <2>1, <2>2
    <2>4. BindTypes'
      BY <1>1, <1>3, <2>3 DEF BindInv, BindTypes, ThreadStates, RegisterAddons
    <2>5. OneClient'
      BY <1>1, <1>3, <2>1, <2>3, ZenonT(60) DEF BindInv, BindTypes, OneClient, RegisterAddons
    <2>6. ASSUME NEW d \in DOMAIN going
          PROVE  /\ d \in Threads \X Nat \X Calls
                 /\ d[2] <= th'[d[1]].calls
                 /\ th'[d[1]].at \in Calling => d[2] < th'[d[1]].calls
      <3>1. /\ d \in Threads \X Nat \X Calls /\ d[1] \in Threads /\ d[2] \in Nat /\ d[2] <= th[d[1]].calls
            /\ th[d[1]].at \in Calling => d[2] < th[d[1]].calls
        BY DEF BindInv, OwnDeliveries
      <3>2. th[t].calls \in Nat
        BY <1>2 DEF ThreadStates
      <3>3. CASE d[1] = t
        BY <2>1, <2>3, <3>1, <3>2, <3>3
      <3>4. CASE d[1] # t
        BY <2>3, <3>1, <3>4
      <3> QED
        BY <3>1, <3>3, <3>4
    <2>7. OwnDeliveries'
      BY <1>1, <2>1, <2>3, <2>6 DEF BindInv, OwnDeliveries, Of
    <2> QED
      BY <2>4, <2>5, <2>7 DEF BindInv
  <1>4. CASE th' = [th EXCEPT ![t].calls = @ + 1] /\ ready' = ready
    <2> DEFINE failed == [th[t] EXCEPT !.calls = @ + 1]
    <2>1. failed \in ThreadStates /\ failed.at = "idle" /\ failed.calls = th[t].calls + 1
      BY <1>1, <1>2 DEF ThreadStates
    <2>2. th' = [th EXCEPT ![t] = failed]
      BY <1>4
    <2> HIDE DEF failed
    <2>3. /\ th' \in [Threads -> ThreadStates] /\ th'[t] = failed
          /\ \A u \in Threads : u # t => th'[u] = th[u]
      <3> HIDE DEF ThreadStates
      <3> QED
        BY <1>2, <2>1, <2>2
    <2>4. BindTypes'
      BY <1>1, <1>4, <2>3 DEF BindInv, BindTypes, ThreadStates
    <2>5. OneClient'
      BY <1>1, <1>4, <2>1, <2>3 DEF BindInv, BindTypes, OneClient
    <2>6. ASSUME NEW d \in DOMAIN going
          PROVE  /\ d \in Threads \X Nat \X Calls
                 /\ d[2] <= th'[d[1]].calls
                 /\ th'[d[1]].at \in Calling => d[2] < th'[d[1]].calls
      <3>1. /\ d \in Threads \X Nat \X Calls /\ d[1] \in Threads /\ d[2] \in Nat /\ d[2] <= th[d[1]].calls
            /\ th[d[1]].at \in Calling => d[2] < th[d[1]].calls
        BY DEF BindInv, OwnDeliveries
      <3>2. th[t].calls \in Nat
        BY <1>2 DEF ThreadStates
      <3>3. CASE d[1] = t
        BY <2>1, <2>3, <3>1, <3>2, <3>3 DEF Calling
      <3>4. CASE d[1] # t
        BY <2>3, <3>1, <3>4
      <3> QED
        BY <3>1, <3>3, <3>4
    <2>7. OwnDeliveries'
      BY <1>1, <2>1, <2>3, <2>6 DEF BindInv, OwnDeliveries, Of
    <2> QED
      BY <2>4, <2>5, <2>7 DEF BindInv
  <1> QED
    BY <1>3, <1>4 DEF Call

LEMMA OnLoad ==
  ASSUME BindInv, world' = world, NEW t \in Threads, Load(t)
  PROVE  BindInv'
  <1>1. /\ th[t].at = "cell" /\ cell = "unset" /\ cell' = "busy" /\ th' = At(t, "load")
        /\ UNCHANGED <<ready, going, owed, ended>>
    BY DEF Load
  <1>2. ready
    BY <1>1 DEF BindInv, OneClient
  <1>3. helper' \in {"answered", "attach"} /\ (helper' = "attach" => world.addon)
    BY <1>2, HostAssumption DEF Load, BindInv, BindTypes
  <1>4. Goes(t, "load")
    BY <1>1, Moves DEF BindInv, Calling
  <1>5. BindTypes'
    BY <1>1, <1>3, <1>4 DEF BindInv, BindTypes, Goes, ThreadStates
  <1>6. OneClient'
    BY <1>1, <1>2, <1>3, <1>4 DEF BindInv, OneClient, Goes
  <1>7. OwnDeliveries'
    BY <1>1, <1>4, DeliveriesStay DEF Calling
  <1> QED
    BY <1>5, <1>6, <1>7 DEF BindInv

LEMMA OnLoaded ==
  ASSUME BindInv, world' = world, NEW t \in Threads, Loaded(t)
  PROVE  BindInv'
  <1>1. /\ th[t].at = "load" /\ cell' \in {"ok", "error"} /\ th' = At(t, "back")
        /\ cell' = "error" => helper = "failed" \/ world.config = "bad"
        /\ UNCHANGED <<ready, helper, going, owed, ended>>
    BY DEF Loaded
  <1>2. cell = "busy"
    BY <1>1 DEF BindInv, OneClient
  <1>3. Goes(t, "back")
    BY <1>1, Moves DEF BindInv, Calling
  <1>4. BindTypes'
    BY <1>1, <1>3 DEF BindInv, BindTypes, Goes, ThreadStates
  <1>5. OneClient'
    BY <1>1, <1>2, <1>3 DEF BindInv, OneClient, Goes
  <1>6. OwnDeliveries'
    BY <1>1, <1>2, <1>3, DeliveriesStay DEF Calling
  <1> QED
    BY <1>4, <1>5, <1>6 DEF BindInv

LEMMA OnWaited ==
  ASSUME BindInv, world' = world, NEW t \in Threads, Waited(t)
  PROVE  BindInv'
  <1>1. /\ th[t].at = "cell" /\ cell \in {"ok", "error"} /\ th' = At(t, "back")
        /\ UNCHANGED <<cell, ready, helper, going, owed, ended>>
    BY DEF Waited
  <1>2. Goes(t, "back")
    BY <1>1, Moves DEF BindInv, Calling
  <1>3. BindTypes'
    BY <1>1, <1>2 DEF BindInv, BindTypes, Goes, ThreadStates
  <1>4. OneClient'
    BY <1>1, <1>2 DEF BindInv, OneClient, Goes
  <1>5. OwnDeliveries'
    BY <1>1, <1>2, DeliveriesStay DEF Calling
  <1> QED
    BY <1>3, <1>4, <1>5 DEF BindInv

LEMMA OnReturn ==
  ASSUME BindInv, world' = world, NEW t \in Threads, Return(t)
  PROVE  BindInv'
  <1>1. /\ th[t].at = "wait" /\ th' = [At(t, "idle") EXCEPT ![t].call = None]
        /\ UNCHANGED <<cell, ready, helper, going, owed, ended>>
    BY DEF Return
  <1>2. Goes(t, "idle")
    BY <1>1, Rests DEF BindInv
  <1>3. BindTypes'
    BY <1>1, <1>2 DEF BindInv, BindTypes, Goes, ThreadStates
  <1>4. OneClient'
    BY <1>1, <1>2 DEF BindInv, OneClient, Goes
  <1>5. OwnDeliveries'
    BY <1>1, <1>2, DeliveriesStay DEF Calling
  <1> QED
    BY <1>3, <1>4, <1>5 DEF BindInv

(* A call comes to its client: the delivery it starts is a new one, so     *)
(* nothing that a flush waited for changes.                                *)
LEMMA OnProceed ==
  ASSUME BindInv, world' = world, NEW t \in Threads, Proceed(t)
  PROVE  BindInv'
  <1>1. /\ th[t].at = "back" /\ cell \in {"ok", "error"}
        /\ UNCHANGED <<cell, ready, helper, owed, ended>>
    BY DEF Proceed, BindInv, OneClient
  <1>2. CASE cell = "error"
    <2>1. th' = [At(t, "idle") EXCEPT ![t].call = None] /\ going' = going
      BY <1>2 DEF Proceed
    <2>2. Goes(t, "idle")
      BY <2>1, Rests DEF BindInv
    <2>3. BindTypes'
      BY <1>1, <2>2 DEF BindInv, BindTypes, Goes, ThreadStates
    <2>4. OneClient'
      BY <1>1, <2>2 DEF BindInv, OneClient, Goes
    <2>5. OwnDeliveries'
      BY <1>1, <2>1, <2>2, DeliveriesStay DEF Calling
    <2> QED
      BY <2>3, <2>4, <2>5 DEF BindInv
  <1>3. CASE cell = "ok"
    <2>1. \/ th' = [At(t, "idle") EXCEPT ![t].call = None]
          \/ th' = At(t, "wait")
      BY <1>3 DEF Proceed
    <2>2. PICK at \in {"idle", "wait"} : Goes(t, at)
      BY <2>1, Rests, Moves DEF BindInv
    <2>3. PICK own : own = Of(t)
      OBVIOUS
    <2>4. /\ DOMAIN going' = DOMAIN going \union {own}
          /\ \A d \in DOMAIN going : d # own => going'[d] = going[d]
      BY <1>3, <2>3 DEF Proceed
    <2>5. th[t].calls \in Nat /\ th[t].call \in Calls
      BY DEF BindInv, BindTypes
    <2>6. own \in Threads \X Nat \X Calls /\ own[1] = t /\ own[2] = th[t].calls
      BY <2>3, <2>5 DEF Of
    <2>7. own \notin DOMAIN going
      <3>1. own \in DOMAIN going => own[2] < th[own[1]].calls
        BY <1>1, <2>6 DEF BindInv, OwnDeliveries, Calling
      <3> QED
        BY <2>5, <2>6, <3>1
    <2>8. BindTypes'
      BY <1>1, <2>2 DEF BindInv, BindTypes, Goes, ThreadStates
    <2>9. OneClient'
      BY <1>1, <2>2 DEF BindInv, OneClient, Goes
    <2>10. ASSUME NEW d \in DOMAIN going'
           PROVE  /\ d \in Threads \X Nat \X Calls
                  /\ d[2] <= th'[d[1]].calls
                  /\ th'[d[1]].at \in Calling => d[2] < th'[d[1]].calls
      <3>1. CASE d = own
        BY <2>2, <2>5, <2>6, <3>1 DEF Goes, Calling
      <3>2. CASE d # own
        <4>1. /\ d \in Threads \X Nat \X Calls /\ d[1] \in Threads
              /\ d[2] <= th[d[1]].calls
              /\ th[d[1]].at \in Calling => d[2] < th[d[1]].calls
          BY <2>4, <3>2 DEF BindInv, OwnDeliveries
        <4>2. CASE d[1] = t
          BY <2>2, <4>1, <4>2 DEF Goes, Calling
        <4>3. CASE d[1] # t
          BY <2>2, <4>1, <4>3 DEF Goes
        <4> QED
          BY <4>1, <4>2, <4>3
      <3> QED
        BY <3>1, <3>2
    <2>11. ASSUME NEW u \in Threads, th'[u].at = "wait"
           PROVE  <<u, th'[u].calls, th'[u].call>> \in DOMAIN going'
      <3>1. CASE u = t
        <4>1. th'[t].at = "wait" /\ at = "wait"
          BY <2>2, <2>11, <3>1 DEF Goes
        <4>2. th'[t].calls = th[t].calls /\ th'[t].call = th[t].call
          BY <2>2, <4>1 DEF Goes
        <4> QED
          BY <2>3, <2>4, <3>1, <4>2 DEF Of
      <3>2. CASE u # t
        BY <1>1, <2>2, <2>4, <2>11, <3>2 DEF Goes, BindInv, OwnDeliveries, Of
      <3> QED
        BY <3>1, <3>2
    <2>12. /\ owed' \subseteq DOMAIN going' /\ \A d \in owed' : Counted(d)
           /\ ended' = "flushed" => \A d \in owed' : going'[d] = "done"
      BY <1>1, <2>4, <2>7 DEF BindInv, OwnDeliveries
    <2>13. OwnDeliveries'
      BY <1>1, <1>3, <2>10, <2>11, <2>12 DEF OwnDeliveries, Of
    <2> QED
      BY <2>8, <2>9, <2>13 DEF BindInv
  <1> QED
    BY <1>1, <1>2, <1>3

LEMMA OnFlush ==
  ASSUME BindInv, world' = world,
         (\E t \in Threads : FlushBegins(t)) \/ FlushEnds \/ Gone
  PROVE  BindInv'
  <1>1. UNCHANGED <<cell, ready, th, helper, going>>
    BY DEF FlushBegins, FlushEnds, Gone
  <1>2. BindTypes' /\ OneClient'
    BY <1>1 DEF BindInv, BindTypes, OneClient, FlushBegins, FlushEnds, Gone
  <1>3. /\ owed' \subseteq DOMAIN going /\ \A d \in owed' : Counted(d)
        /\ ended' = "flushed" => \A d \in owed' : going[d] = "done"
    <2>1. CASE \E t \in Threads : FlushBegins(t)
      <3>1. owed' = {d \in DOMAIN going : Counted(d)} /\ (ended' = "flushed" => cell # "ok")
        BY <2>1 DEF FlushBegins
      <3> QED
        BY <3>1 DEF BindInv, OwnDeliveries
    <2>2. CASE FlushEnds
      <3>1. owed' = owed /\ (ended' = "flushed" => AllDone)
        BY <2>2 DEF FlushEnds
      <3> QED
        BY <3>1 DEF BindInv, OwnDeliveries, AllDone
    <2>3. CASE Gone
      BY <2>3 DEF Gone, BindInv, OwnDeliveries
    <2> QED
      BY <2>1, <2>2, <2>3
  <1>4. OwnDeliveries'
    BY <1>1, <1>3 DEF BindInv, OwnDeliveries, Of
  <1> QED
    BY <1>2, <1>4 DEF BindInv

LEMMA OnDeliverStep ==
  ASSUME BindInv, world' = world, NEW d \in DOMAIN going, DeliverStep(d)
  PROVE  BindInv'
  <1>1. UNCHANGED <<cell, ready, th, helper, owed, ended>>
    BY DEF DeliverStep
  <1>2. PICK to : going' = [going EXCEPT ![d] = to]
    BY DEF DeliverStep
  <1>3. going[d] # "done"
    BY DEF DeliverStep
  <1>4. DOMAIN going' = DOMAIN going /\ \A e \in DOMAIN going : e # d => going'[e] = going[e]
    BY <1>2
  <1>5. BindTypes' /\ OneClient'
    BY <1>1 DEF BindInv, BindTypes, OneClient
  <1>6. ended' = "flushed" => \A e \in owed' : going'[e] = "done"
    BY <1>1, <1>3, <1>4 DEF BindInv, OwnDeliveries
  <1>7. OwnDeliveries'
    BY <1>1, <1>4, <1>6 DEF BindInv, OwnDeliveries, Of
  <1> QED
    BY <1>5, <1>7 DEF BindInv

LEMMA OnFetch == ASSUME BindInv, world' = world, Fetch PROVE BindInv'
  <1>1. UNCHANGED <<cell, ready, th, going, owed, ended>>
    BY DEF Fetch
  <1>2. BindTypes' /\ OneClient'
    BY <1>1 DEF Fetch, BindInv, BindTypes, OneClient
  <1>3. OwnDeliveries'
    BY <1>1 DEF BindInv, OwnDeliveries, Of
  <1> QED
    BY <1>2, <1>3 DEF BindInv

LEMMA BindNextInv == BindInv /\ [HostNext]_hostVars => BindInv'
  <1> SUFFICES ASSUME BindInv, [HostNext]_hostVars PROVE BindInv'
    OBVIOUS
  <1>1. CASE Program
    <2>1. world' = world /\ BindNext
      BY <1>1 DEF Program
    <2> QED
      BY <2>1, OnCall, OnLoad, OnLoaded, OnWaited, OnProceed, OnReturn, OnFlush, OnDeliverStep,
         OnFetch DEF BindNext, ThreadSteps
  <1>2. CASE UNCHANGED <<world, bindVars>>
    BY <1>2 DEF bindVars, BindInv, BindTypes, OneClient, OwnDeliveries, Of
  <1>3. CASE UNCHANGED hostVars
    BY <1>2, <1>3 DEF hostVars
  <1> QED
    BY <1>1, <1>2, <1>3 DEF HostNext, Command

LEMMA HostInvariant == HostSpec => [](CliInv /\ BindInv)
  <1>1. HostInit => CliInv /\ BindInv
    BY CliInitInv, BindInitInv
  <1>2. CliInv /\ BindInv /\ [HostNext]_hostVars => (CliInv /\ BindInv)'
    BY CliNextInv, BindNextInv
  <1> QED
    BY <1>1, <1>2, PTL DEF HostSpec, HostSafety

-----------------------------------------------------------------------------
(* Both keep their word                                                    *)

(* Whatever a command was given and however its groups and their tasks     *)
(* came to run: exit code 0 means that every signal was tried and went     *)
(* out, was suppressed or was taken by a group, and that no group with an  *)
(* outcome in time failed; 1 means that a signal or such a group did; and  *)
(* an input that is refused was refused before anything was sent           *)
(* (read_batch and report of main.rs, flush_groups of lib.rs).  A group    *)
(* that the command waited for in vain is left open: CodeCoversDigests,    *)
(* which would decide it, is false.                                        *)
THEOREM CodeTrue == HostSpec => []CodeIsTrue
  <1>1. CliInv => CodeIsTrue
    <2> SUFFICES ASSUME CliInv, cli.at # "exited" PROVE CodeIsTrue
      BY DEF CliInv
    <2>1. ~Exited(0) /\ ~Exited(1)
      BY DEF CliInv, CliTypes, Exited
    <2>2. ASSUME NEW k \in DOMAIN world.inputs, world.inputs[k].is # "valid" PROVE Untouched
      <3>1. CASE cli.at \in {"start", "build"}
        BY <3>1 DEF CliInv
      <3>2. CASE cli.at \in {"send", "wait"}
        <4>1. SentSoFar
          BY <3>2 DEF CliInv
        <4>2. world.command # "batch"
          BY <2>2, <4>1 DEF SentSoFar, AllRead, Readable
        <4>3. k = 1
          <5>1. DOMAIN world.inputs = 1 .. Len(world.inputs) /\ Len(world.inputs) = 1
            BY <4>1, <4>2, InputTypes DEF CliInv, SentSoFar
          <5> QED
            BY <5>1
        <4>4. cli.next \in Nat /\ cli.next >= 1
          BY InputTypes DEF CliInv
        <4>5. 1 \notin 1 .. cli.next - 1
          BY <2>2, <4>1, <4>3 DEF SentSoFar
        <4>6. cli.next = 1
          BY <4>4, <4>5
        <4> QED
          BY <4>1, <4>6 DEF SentSoFar
      <3> QED
        BY <3>1, <3>2 DEF CliInv, CliTypes, Stages
    <2> QED
      BY <2>1, <2>2 DEF CodeIsTrue, Untouched
  <1> QED
    BY HostInvariant, <1>1, PTL

(* Whatever threads race for the first call, or are in the middle of one   *)
(* when the program ends: the error that the client is kept as is a real   *)
(* one, never an add-on that was not registered yet (register_addons), and *)
(* when flush returns true, all that notify had started before it was      *)
(* called is delivered, whatever a send is still doing (InFlight counts    *)
(* the deliveries of notify_async only).                                   *)
THEOREM BindingTrue == HostSpec => []BindingIsTrue
  <1>1. ASSUME CliInv, BindInv PROVE HostTypeOK
    <2>1. Len(results) <= Len(world.inputs) + Cardinality(tasks)
      <3>1. Len(world.inputs) \in Nat /\ cli.next \in Nat /\ cli.next <= Len(world.inputs) + 1
        BY <1>1, InputTypes DEF CliInv
      <3>2. Cardinality(tasks) \in Nat
        BY <1>1, FS_CardinalityType DEF CliInv, CliTypes
      <3>3. CASE cli.at \in {"start", "build"}
        <4>1. results = <<>>
          BY <1>1, <3>3 DEF CliInv, Untouched
        <4>2. Len(results) = 0
          BY <4>1
        <4> QED
          BY <3>1, <3>2, <4>2
      <3>4. CASE cli.at \in {"send", "wait"}
        <4>1. Len(results) = cli.next - 1
          BY <1>1, <3>4 DEF CliInv, SentSoFar
        <4> QED
          BY <3>1, <3>2, <4>1
      <3>5. CASE cli.at = "exited"
        BY <1>1, <3>5 DEF CliInv
      <3> QED
        BY <1>1, <3>3, <3>4, <3>5 DEF CliInv, CliTypes, Stages
    <2>2. /\ world \in Processes /\ cli.at \in {"start", "build", "send", "wait", "exited"}
          /\ (code # <<>>) <=> (cli.at = "exited")
          /\ \A a, b \in tasks : a # b => a.members \intersect b.members = {}
      BY <1>1 DEF CliInv, CliTypes, Apart, Stages
    <2>3. (cell = "busy") <=> (Cardinality({t \in Threads : th[t].at = "load"}) = 1)
      <3>1. CASE cell = "busy"
        <4>1. PICK t \in Threads : th[t].at = "load"
          BY <1>1, <3>1 DEF BindInv, OneClient
        <4>2. {u \in Threads : th[u].at = "load"} = {t}
          BY <1>1, <4>1 DEF BindInv, OneClient
        <4>3. Cardinality({t}) = 1
          BY FS_Singleton
        <4> QED
          BY <3>1, <4>2, <4>3
      <3>2. CASE cell # "busy"
        <4> DEFINE loading == {u \in Threads : th[u].at = "load"}
        <4>1. loading = {}
          BY <1>1, <3>2 DEF BindInv, OneClient
        <4>2. Cardinality(loading) = 0
          BY <4>1, FS_EmptySet
        <4>3. Cardinality(loading) # 1
          <5> HIDE DEF loading
          <5> QED
            BY <4>2
        <4> QED
          BY <3>2, <4>3
      <3> QED
        BY <3>1, <3>2
    <2>4. /\ \A t \in Threads : th[t].at = "wait" => Of(t) \in DOMAIN going
          /\ ended \in {"no", "flushing", "flushed", "late", "gone"}
      BY <1>1 DEF BindInv, BindTypes, OwnDeliveries
    <2> QED
      BY <2>1, <2>2, <2>3, <2>4 DEF HostTypeOK
  <1>2. CliInv /\ BindInv => BindingIsTrue
    BY <1>1 DEF BindInv, OneClient, OwnDeliveries, BindingIsTrue
  <1> QED
    BY HostInvariant, <1>2, PTL
=============================================================================
