------------------------------ MODULE Dispatch ------------------------------
(***************************************************************************)
(* One trigger's way through the client (notify_async and send, hold and   *)
(* settle_unsent, GroupSender::send; lib.rs): it may be sent at once on    *)
(* some routes and held for a digest on others, while one stored row and   *)
(* the routes' histories have to come out right for both.                  *)
(*                                                                         *)
(* The caller goes on while the groups it joined are closed and sent by    *)
(* other tasks.  A delivery is one step here, its outcome (Delivery); so   *)
(* is the closing of a group (Groups) and a history's answer (Throttle).   *)
(***************************************************************************)
EXTENDS FiniteSets

CONSTANTS
  Direct,    \* matching routes that send at once
  Grouped,   \* matching routes that group
  Gated      \* those whose history is asked about the signal (dedup)

ASSUME DispatchAssumption ==
  /\ Direct \cap Grouped = {} /\ Direct \union Grouped # {}
  /\ Gated \subseteq Direct \union Grouped
  /\ "direct" \notin Grouped

VARIABLES
  step,       \* where the caller is
  sends,      \* the routes that send it now
  joins,      \* the routes that hold it
  counted,    \* the routes whose history counts it as sent
  admission,  \* those of them the caller answers for
  group,      \* the signal's group on each grouped route
  member,     \* the routes each group answers for
  owner,      \* the groups that own the stored row
  outcome,    \* the outcome of each route's digest, and of the direct delivery
  row,        \* the stored delivery_status
  faulty      \* history: a write to the sink or a history failed

vars == <<step, sends, joins, counted, admission, group, member, owner, outcome, row, faulty>>

Init ==
  /\ step = "new"
  /\ sends = {} /\ joins = {}
  /\ counted = {} /\ admission = {}
  /\ group = [r \in Grouped |-> "none"]
  /\ member = [r \in Grouped |-> {}]
  /\ owner = {}
  /\ outcome = [r \in Grouped \union {"direct"} |-> "none"]
  /\ row = "none"
  /\ faulty = FALSE

(* A write to the sink that may fail: logged, and the delivery goes on.    *)
Write(status) ==
  \/ row' = status /\ UNCHANGED faulty
  \/ faulty' = TRUE /\ UNCHANGED row

(* prepare: every matching route with a history answers.  A history that   *)
(* cannot be written admits the signal without counting it.                *)
Prepares ==
  /\ step = "new"
  /\ step' = "planned"
  /\ \E refused \in SUBSET Gated, unwritten \in SUBSET Gated :
       /\ sends' = Direct \ refused
       /\ joins' = Grouped \ refused
       /\ counted' = Gated \ (refused \union unwritten)
       /\ admission' = Gated \ (refused \union unwritten)
  /\ UNCHANGED <<group, member, owner, outcome, row, faulty>>

Records ==
  /\ step = "planned"
  /\ step' = IF sends = {} THEN "unsent" ELSE "holding"
  /\ Write("pending")
  /\ UNCHANGED <<sends, joins, counted, admission, group, member, owner, outcome>>

Quietly == IF joins = {} THEN "skipped" ELSE "grouped"

(* Mutant of SettlesUnsent: the groups are joined before the row is        *)
(* written, by leaving the write to the end of the call.                   *)
SettlesUnsentLate ==
  \/ /\ step = "unsent"
     /\ step' = "holding"
     /\ UNCHANGED <<row, faulty>>
     /\ UNCHANGED <<sends, joins, counted, admission, group, member, owner, outcome>>
  \/ /\ step = "done" /\ sends = {} /\ row # Quietly
     /\ Write(Quietly)
     /\ UNCHANGED <<step, sends, joins, counted, admission, group, member, owner, outcome>>

(* settle_unsent, for a signal no provider gets now: its row first.        *)
SettlesUnsent ==
  /\ step = "unsent"
  /\ step' = "holding"
  /\ Write(Quietly)
  /\ UNCHANGED <<sends, joins, counted, admission, group, member, owner, outcome>>

Holding == step = "holding"
ToHold == {r \in joins : group[r] = "none"}

(* Mutant of Holds: the caller keeps answering for the held route.         *)
HoldsUnsplit(r) ==
  /\ Holding /\ r \in ToHold
  /\ group' = [group EXCEPT ![r] = "open"]
  /\ member' = [member EXCEPT ![r] = admission \cap {r}]
  /\ owner' = IF sends = {} THEN owner \union {r} ELSE owner
  /\ UNCHANGED <<step, sends, joins, counted, admission, outcome, row, faulty>>

(* hold adds the signal to its group on route r, which from now on answers *)
(* for r's history (split_off), and for the row if nothing is sent now.    *)
Holds(r) ==
  /\ Holding /\ r \in ToHold
  /\ group' = [group EXCEPT ![r] = "open"]
  /\ member' = [member EXCEPT ![r] = admission \cap {r}]
  /\ admission' = admission \ {r}
  /\ owner' = IF sends = {} THEN owner \union {r} ELSE owner
  /\ UNCHANGED <<step, sends, joins, counted, outcome, row, faulty>>

Held ==
  /\ Holding /\ ToHold = {}
  /\ step' = IF sends = {} THEN "done" ELSE "delivering"
  /\ UNCHANGED <<sends, joins, counted, admission, group, member, owner, outcome, row, faulty>>

(* Mutant of Settle: nothing is ever taken back.                           *)
SettleNever(status, routes) == UNCHANGED <<counted, faulty>>

(* settle: the histories of `routes` forget a signal whose delivery failed.*)
Settle(status, routes) ==
  \/ /\ counted' = IF status = "failed" THEN counted \ routes ELSE counted
     /\ UNCHANGED faulty
  \/ /\ status = "failed" /\ faulty' = TRUE
     /\ UNCHANGED counted

Delivers ==
  /\ step = "delivering"
  /\ step' = "delivered"
  /\ \E status \in {"delivered", "partial", "failed"} :
       /\ outcome' = [outcome EXCEPT !["direct"] = status]
       /\ Settle(status, admission)
  /\ UNCHANGED <<sends, joins, admission, group, member, owner, row>>

Completes ==
  /\ step = "delivered"
  /\ step' = "done"
  /\ Write(outcome["direct"])
  /\ UNCHANGED <<sends, joins, counted, admission, group, member, owner, outcome>>

(* GroupSender::send: the route's rate limit may hold the digest back;     *)
(* else it is delivered.  Either way its members are settled.              *)
GroupDelivers(r) ==
  /\ group[r] = "open"
  /\ group' = [group EXCEPT ![r] = "sent"]
  /\ \E status \in {"skipped", "delivered", "partial", "failed"} :
       /\ outcome' = [outcome EXCEPT ![r] = status]
       /\ Settle(status, member[r])
  /\ UNCHANGED <<step, sends, joins, admission, member, owner, row>>

(* ... and a member whose row waits on the digest takes its outcome.       *)
GroupStores(r) ==
  /\ group[r] = "sent"
  /\ group' = [group EXCEPT ![r] = "stored"]
  /\ IF r \in owner THEN Write(outcome[r]) ELSE UNCHANGED <<row, faulty>>
  /\ UNCHANGED <<step, sends, joins, counted, admission, member, owner, outcome>>

Next ==
  \/ Prepares \/ Records \/ SettlesUnsent \/ Held \/ Delivers \/ Completes
  \/ \E r \in Grouped : Holds(r) \/ GroupDelivers(r) \/ GroupStores(r)

Spec == Init /\ [][Next]_vars

-----------------------------------------------------------------------------

Statuses == {"none", "skipped", "delivered", "partial", "failed"}

(* Types of the state.                                                     *)
TypeOK ==
  /\ step \in {"new", "planned", "unsent", "holding", "delivering", "delivered", "done"}
  /\ sends \subseteq Direct /\ joins \subseteq Grouped
  /\ counted \subseteq Gated /\ admission \subseteq Gated
  /\ group \in [Grouped -> {"none", "open", "sent", "stored"}]
  /\ member \in [Grouped -> SUBSET Gated]
  /\ owner \subseteq joins
  /\ outcome \in [Grouped \union {"direct"} -> Statuses]
  /\ row \in Statuses \union {"pending", "grouped"}
  /\ faulty \in BOOLEAN

Settled == step = "done" /\ \A r \in joins : group[r] = "stored"

(* In the end the row says how the signal went: as the direct delivery     *)
(* did, whatever its digests did before or after; as one of its digests    *)
(* did, if it only waited on those, never "grouped"; else "skipped".       *)
(* Said of states of the right types.                                      *)
RowHasTheLastWord ==
  /\ TypeOK
  /\ Settled /\ ~faulty =>
       row \in IF sends # {} THEN {outcome["direct"]}
              ELSE IF joins # {} THEN {outcome[r] : r \in joins}
              ELSE {"skipped"}

DeliveryOf(r) == IF r \in Grouped THEN outcome[r] ELSE outcome["direct"]

(* Each route's history answers for its own delivery alone: in the end it  *)
(* counts the signal unless that delivery failed, and what it forgets is a *)
(* signal whose delivery did fail, whatever happened on the other routes;  *)
(* and it never counts a signal that it turned down.                       *)
OwnHistory ==
  /\ [](/\ counted \subseteq sends \union joins
        /\ Settled /\ ~faulty => \A r \in counted : DeliveryOf(r) # "failed")
  /\ [][\A r \in counted \ counted' : DeliveryOf(r)' = "failed"]_vars
=============================================================================
