------------------------------ MODULE Throttle ------------------------------
(***************************************************************************)
(* The `dedup` and `rate_limit` history of one route (throttle.rs).        *)
(*                                                                         *)
(* The history is a table of an SQLite file that every process on the host *)
(* shares.  Each statement filters by the route's key, so routes do not    *)
(* interact and one route is modelled.  With HasDedup = FALSE the module   *)
(* is also the digest counter of a grouped route (`admit_digest`, key      *)
(* "<route>#digest"); with HasRate = FALSE it is its per-signal check.     *)
(*                                                                         *)
(* A send reads the clock first (plan_signal, lib.rs) and takes the file's *)
(* write lock later, so the time it is judged at may be older than rows    *)
(* that other processes committed meanwhile.  MaxLag bounds that delay.    *)
(* Time is in abstract units; windows are in the same units.               *)
(***************************************************************************)
EXTENDS Integers, FiniteSets

CONSTANTS
  Sends,        \* the sends any process attempts through this route
  Keys,         \* dedup keys
  KeyOf,        \* the dedup key of each send
  HasDedup,     \* the route sets `dedup`
  DedupWindow,  \* ... its window
  HasRate,      \* the route sets `rate_limit`
  RateMax,      \* ... its `max`
  RatePer,      \* ... its `per`
  MaxLag,       \* longest delay between reading the clock and committing
  MaxTime       \* bound on the clock

(* What the config loader accepts (check_routes), and a send that is       *)
(* delayed by less than the windows it is checked against: a writer gives  *)
(* up after BUSY_TIMEOUT, 2 s.                                             *)
ASSUME RouteAssumption ==
  /\ IsFiniteSet(Sends)
  /\ KeyOf \in [Sends -> Keys]
  /\ HasDedup \in BOOLEAN /\ HasRate \in BOOLEAN /\ (HasDedup \/ HasRate)
  /\ DedupWindow \in Nat \ {0}
  /\ RateMax \in Nat \ {0}
  /\ RatePer \in Nat \ {0}
  /\ MaxTime \in Nat

VARIABLES
  clock,   \* the host's clock
  rows,    \* the table: the sends whose row is in it
  at,      \* `now_ms` as each send read it; its row's `sent_at`
  status   \* how far each send got

vars == <<clock, rows, at, status>>

Statuses == {"idle", "stamped", "admitted", "let_through", "duplicate",
             "limited", "delivered", "kept", "released", "lost"}

(* Mutant of Keep: the prune goes by the shorter of the two windows.       *)
KeepShorter ==
  IF HasDedup /\ (~HasRate \/ DedupWindow <= RatePer)
  THEN DedupWindow
  ELSE RatePer

(* Rows older than both windows can no longer decide anything.             *)
Keep ==
  IF HasDedup /\ (~HasRate \/ DedupWindow >= RatePer)
  THEN DedupWindow
  ELSE RatePer

ASSUME LagAssumption == MaxLag \in Nat /\ MaxLag < Keep

(* Sends the route has let out and not taken back: on their way, delivered,*)
(* failed but still in the table, or cut off when their process died.      *)
Live == {s \in Sends : status[s] \in {"admitted", "delivered", "kept", "lost"}}

SameKey(s) == {r \in rows : KeyOf[r] = KeyOf[s]}

(* `now - MAX(sent_at) < window`: some row of the key is too recent.       *)
IsDuplicate(s) ==
  HasDedup /\ \E r \in SameKey(s) : at[s] - at[r] < DedupWindow

(* The rows with `sent_at > now - per`, newer ones included.               *)
Counted(s) == {r \in rows : at[r] > at[s] - RatePer}

(* Mutant of IsLimited: one send too many.                                 *)
IsLimitedAbove(s) == HasRate /\ Cardinality(Counted(s)) > RateMax
IsLimited(s) == HasRate /\ Cardinality(Counted(s)) >= RateMax

Pruned(rs, now) == {r \in rs : at[r] > now - Keep}

Init ==
  /\ clock = 0
  /\ rows = {}
  /\ at = [s \in Sends |-> 0]
  /\ status = [s \in Sends |-> "idle"]

Tick ==
  /\ clock < MaxTime
  /\ clock' = clock + 1
  /\ UNCHANGED <<rows, at, status>>

(* plan_signal reads the clock, before any lock is held.                   *)
Stamp(s) ==
  /\ status[s] = "idle"
  /\ at' = [at EXCEPT ![s] = clock]
  /\ status' = [status EXCEPT ![s] = "stamped"]
  /\ UNCHANGED <<clock, rows>>

InTime(s) == status[s] = "stamped" /\ clock - at[s] <= MaxLag

(* try_admit is one IMMEDIATE transaction: dedup first, then the rate      *)
(* limit, then insert and prune.  A refusal rolls back and writes nothing. *)
RefuseDuplicate(s) ==
  /\ InTime(s)
  /\ IsDuplicate(s)
  /\ status' = [status EXCEPT ![s] = "duplicate"]
  /\ UNCHANGED <<clock, rows, at>>

RefuseLimited(s) ==
  /\ InTime(s)
  /\ ~IsDuplicate(s)
  /\ IsLimited(s)
  /\ status' = [status EXCEPT ![s] = "limited"]
  /\ UNCHANGED <<clock, rows, at>>

Admit(s) ==
  /\ InTime(s)
  /\ ~IsDuplicate(s)
  /\ ~IsLimited(s)
  /\ rows' = Pruned(rows \union {s}, at[s])
  /\ status' = [status EXCEPT ![s] = "admitted"]
  /\ UNCHANGED <<clock, at>>

(* Any storage error, a busy file among them, sends the signal anyway,     *)
(* with no row.                                                            *)
LetThrough(s) ==
  /\ status[s] = "stamped"
  /\ status' = [status EXCEPT ![s] = "let_through"]
  /\ UNCHANGED <<clock, rows, at>>

(* Delivery ended in any status but `failed`: the row stays.               *)
Deliver(s) ==
  /\ status[s] = "admitted"
  /\ status' = [status EXCEPT ![s] = "delivered"]
  /\ UNCHANGED <<clock, rows, at>>

(* Mutant of Release: a failed send is settled without being taken back.   *)
ReleaseForgotten(s) ==
  /\ status[s] = "admitted"
  /\ status' = [status EXCEPT ![s] = "released"]
  /\ UNCHANGED <<clock, rows, at>>

(* Delivery failed: `release` deletes one row with this key and time.  Rows*)
(* with equal contents cannot be told apart, so it is the send's own; it   *)
(* may have been pruned already.                                           *)
Release(s) ==
  /\ status[s] = "admitted"
  /\ rows' = rows \ {s}
  /\ status' = [status EXCEPT ![s] = "released"]
  /\ UNCHANGED <<clock, at>>

(* The delete failed: logged, and the row stays.                           *)
ReleaseError(s) ==
  /\ status[s] = "admitted"
  /\ status' = [status EXCEPT ![s] = "kept"]
  /\ UNCHANGED <<clock, rows, at>>

(* The process exits before it settles the send.                           *)
Crash(s) ==
  /\ status[s] = "admitted"
  /\ status' = [status EXCEPT ![s] = "lost"]
  /\ UNCHANGED <<clock, rows, at>>

Next ==
  \/ Tick
  \/ \E s \in Sends :
       \/ Stamp(s)
       \/ RefuseDuplicate(s)
       \/ RefuseLimited(s)
       \/ Admit(s)
       \/ LetThrough(s)
       \/ Deliver(s)
       \/ Release(s)
       \/ ReleaseError(s)
       \/ Crash(s)

Spec == Init /\ [][Next]_vars

-----------------------------------------------------------------------------

(* Types of the state, and the table holds rows of live sends only.        *)
TypeOK ==
  /\ clock \in 0..MaxTime
  /\ rows \subseteq Sends
  /\ at \in [Sends -> 0..MaxTime]
  /\ status \in [Sends -> Statuses]

(* Sends the caller will still decide or has let out were stamped in the   *)
(* past, rows belong to live sends, and a live send lost its row only to a *)
(* later send's prune.  The inductive core of the two limits below.        *)
History ==
  /\ \A s \in Sends : at[s] <= clock
  /\ rows \subseteq Live
  /\ \A s \in Live \ rows : at[s] <= clock - Keep

(* `dedup`: two sends of one key are at least a window apart, less the     *)
(* delay a commit may have had.                                            *)
DedupGap ==
  HasDedup =>
    \A s, u \in Live :
      s # u /\ KeyOf[s] = KeyOf[u] /\ at[u] <= at[s] =>
        at[s] - at[u] >= DedupWindow - MaxLag

LiveWithin(t, width) == {s \in Live : t - width < at[s] /\ at[s] <= t}

(* `rate_limit`: any sliding window of `per`, less the delay a commit may  *)
(* have had, holds at most `max` sends, whatever order they committed in.  *)
RateCap ==
  HasRate =>
    \A t \in 0..MaxTime : Cardinality(LiveWithin(t, RatePer - MaxLag)) <= RateMax

(* A send is turned down only on account of sends that still count: one    *)
(* that failed and was released never suppresses a later one.              *)
SuppressionHasCause ==
  [][\A s \in Sends :
       /\ (status[s] = "stamped" /\ status'[s] = "duplicate") =>
            \E u \in Live : KeyOf[u] = KeyOf[s] /\ at[s] - at[u] < DedupWindow
       /\ (status[s] = "stamped" /\ status'[s] = "limited") =>
            Cardinality({u \in Live : at[u] > at[s] - RatePer}) >= RateMax]_vars

-----------------------------------------------------------------------------

(* What docs/configuration.md says of `dedup` and `rate_limit`: each key   *)
(* at most once per window, and at most `max` signals in any sliding `per` *)
(* window.  True without lag; a send that read the clock before another one*)
(* pruned the table breaks both.                                           *)
DocumentedLimits ==
  /\ HasDedup =>
       \A s, u \in Live :
         s # u /\ KeyOf[s] = KeyOf[u] /\ at[u] <= at[s] =>
           at[s] - at[u] >= DedupWindow
  /\ HasRate =>
       \A t \in 0..MaxTime : Cardinality(LiveWithin(t, RatePer)) <= RateMax

=============================================================================
