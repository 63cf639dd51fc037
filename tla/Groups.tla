------------------------------- MODULE Groups -------------------------------
(***************************************************************************)
(* The open groups of one client (group.rs), the timers and flushes that   *)
(* close them (hold, flush and flush_groups in lib.rs), and the count of   *)
(* unfinished deliveries a flush waits on (inflight.rs).                   *)
(*                                                                         *)
(* A group is closed by whoever comes first: the signal that fills it, its *)
(* timer, or a flush.  Closing takes the group out of the map and counts   *)
(* its send as in flight, both under the map's lock; the send itself       *)
(* (GroupSender::send) runs in a task and is one step here, its end.       *)
(*                                                                         *)
(* A member is one call of Groups::add: a signal held by two routes is two *)
(* members.  A group is named by its key (route and group_by values).      *)
(***************************************************************************)
EXTENDS Naturals, FiniteSets

CONSTANTS
  Members,       \* signals to hold, one per route that groups them
  Directs,       \* signals notify_async sends at once
  Flushers,      \* threads that call flush (once each)
  Keys,          \* group keys
  GroupOf,       \* the group key of each member
  MaxGroupSize   \* a group this full is sent at once

ASSUME GroupAssumption ==
  /\ IsFiniteSet(Members)
  /\ IsFiniteSet(Directs)
  /\ Members \cap Directs = {}
  /\ GroupOf \in [Members -> Keys]
  /\ MaxGroupSize \in Nat /\ MaxGroupSize >= 2

VARIABLES
  arriving,   \* members not held yet
  open,       \* the map of open groups
  nextSeq,    \* the sequence number of the group opened last
  timers,     \* sleeping timers: <<key, seq>>
  sending,    \* closed groups whose send has not ended: sets of members
  sent,       \* how many sends each member has been part of
  direct,     \* "idle", "sending" or "done", for each direct signal
  inFlight,   \* InFlight's count
  flush,      \* where each flusher is
  owed        \* what was held or under way when each flush was called

vars == <<arriving, open, nextSeq, timers, sending, sent, direct, inFlight, flush, owed>>

NoGroup == [seq |-> 0, members |-> {}]

IsOpen(k) == open[k].seq # 0
OpenKeys == {k \in Keys : IsOpen(k)}
Batches(ks) == {open[k].members : k \in ks}

Init ==
  /\ arriving = Members
  /\ open = [k \in Keys |-> NoGroup]
  /\ nextSeq = 0
  /\ timers = {}
  /\ sending = {}
  /\ sent = [m \in Members |-> 0]
  /\ direct = [d \in Directs |-> "idle"]
  /\ inFlight = 0
  /\ flush = [f \in Flushers |-> "idle"]
  /\ owed = [f \in Flushers |-> {}]

(* Mutant of AddOpens: the timer is given the number before it is raised.  *)
AddOpensStaleTimer(m) ==
  LET k == GroupOf[m] IN
  /\ m \in arriving
  /\ ~IsOpen(k)
  /\ arriving' = arriving \ {m}
  /\ nextSeq' = nextSeq + 1
  /\ open' = [open EXCEPT ![k] = [seq |-> nextSeq', members |-> {m}]]
  /\ timers' = timers \union {<<k, nextSeq>>}
  /\ UNCHANGED <<sending, sent, direct, inFlight, flush, owed>>

(* Groups::add when no group is open under the key: opens one, and hold    *)
(* starts its timer.                                                       *)
AddOpens(m) ==
  LET k == GroupOf[m] IN
  /\ m \in arriving
  /\ ~IsOpen(k)
  /\ arriving' = arriving \ {m}
  /\ nextSeq' = nextSeq + 1
  /\ open' = [open EXCEPT ![k] = [seq |-> nextSeq', members |-> {m}]]
  /\ timers' = timers \union {<<k, nextSeq'>>}
  /\ UNCHANGED <<sending, sent, direct, inFlight, flush, owed>>

AddJoins(m) ==
  LET k == GroupOf[m] IN
  /\ m \in arriving
  /\ IsOpen(k)
  /\ Cardinality(open[k].members) + 1 < MaxGroupSize
  /\ arriving' = arriving \ {m}
  /\ open' = [open EXCEPT ![k] = [seq |-> open[k].seq, members |-> open[k].members \union {m}]]
  /\ UNCHANGED <<nextSeq, timers, sending, sent, direct, inFlight, flush, owed>>

(* Mutant of AddFills: the full group is sent but stays in the map.        *)
AddFillsAndKeeps(m) ==
  LET k == GroupOf[m] IN
  /\ m \in arriving
  /\ IsOpen(k)
  /\ Cardinality(open[k].members) + 1 >= MaxGroupSize
  /\ arriving' = arriving \ {m}
  /\ open' = [open EXCEPT ![k] = [seq |-> open[k].seq, members |-> open[k].members \union {m}]]
  /\ sending' = sending \union {open[k].members \union {m}}
  /\ inFlight' = inFlight + 1
  /\ UNCHANGED <<nextSeq, timers, sent, direct, flush, owed>>

(* Groups::add when the member fills the group: hold spawns its send.  The *)
(* timer is left to wake up and find its group gone.                       *)
AddFills(m) ==
  LET k == GroupOf[m] IN
  /\ m \in arriving
  /\ IsOpen(k)
  /\ Cardinality(open[k].members) + 1 >= MaxGroupSize
  /\ arriving' = arriving \ {m}
  /\ open' = [open EXCEPT ![k] = NoGroup]
  /\ sending' = sending \union {open[k].members \union {m}}
  /\ inFlight' = inFlight + 1
  /\ UNCHANGED <<nextSeq, timers, sent, direct, flush, owed>>

(* Mutant of TimerFires: take does not compare the sequence number.        *)
TimerFiresAnyway(k, q) ==
  /\ <<k, q>> \in timers
  /\ timers' = timers \ {<<k, q>>}
  /\ IF IsOpen(k)
     THEN /\ open' = [open EXCEPT ![k] = NoGroup]
          /\ sending' = sending \union {open[k].members}
          /\ inFlight' = inFlight + 1
     ELSE UNCHANGED <<open, sending, inFlight>>
  /\ UNCHANGED <<arriving, nextSeq, sent, direct, flush, owed>>

(* A timer wakes up: Groups::take closes the group if it is still the one  *)
(* the timer was started for, else the task ends.                          *)
TimerFires(k, q) ==
  /\ <<k, q>> \in timers
  /\ timers' = timers \ {<<k, q>>}
  /\ IF open[k].seq = q
     THEN /\ open' = [open EXCEPT ![k] = NoGroup]
          /\ sending' = sending \union {open[k].members}
          /\ inFlight' = inFlight + 1
     ELSE UNCHANGED <<open, sending, inFlight>>
  /\ UNCHANGED <<arriving, nextSeq, sent, direct, flush, owed>>

(* Mutant of TakeAll: the sends are counted only once their tasks run.     *)
TakeAllUncounted ==
  /\ sending' = sending \union Batches(OpenKeys)
  /\ open' = [k \in Keys |-> NoGroup]
  /\ inFlight' = inFlight

(* Groups::take_all, and a task spawned for each group it closed.          *)
TakeAll ==
  /\ sending' = sending \union Batches(OpenKeys)
  /\ open' = [k \in Keys |-> NoGroup]
  /\ inFlight' = inFlight + Cardinality(OpenKeys)

(* flush_groups: closes every group; what it waits for it only reads.      *)
FlushGroups ==
  /\ OpenKeys # {}
  /\ TakeAll
  /\ UNCHANGED <<arriving, nextSeq, timers, sent, direct, flush, owed>>

Held == (UNION Batches(OpenKeys)) \union (UNION sending)
UnderWay == Held \union {d \in Directs : direct[d] = "sending"}

FlushTakes(f) ==
  /\ flush[f] = "idle"
  /\ TakeAll
  /\ owed' = [owed EXCEPT ![f] = UnderWay]
  /\ flush' = [flush EXCEPT ![f] = "checking"]
  /\ UNCHANGED <<arriving, nextSeq, timers, sent, direct>>

(* InFlight::wait holds the count's lock from the test to falling asleep.  *)
FlushChecks(f) ==
  /\ \/ /\ flush[f] \in {"checking", "late"}
        /\ inFlight = 0
        /\ flush' = [flush EXCEPT ![f] = "flushed"]
     \/ /\ flush[f] = "checking"
        /\ inFlight > 0
        /\ flush' = [flush EXCEPT ![f] = "asleep"]
     \/ /\ flush[f] = "late"
        /\ inFlight > 0
        /\ flush' = [flush EXCEPT ![f] = "gave_up"]
  /\ UNCHANGED <<arriving, open, nextSeq, timers, sending, sent, direct, inFlight, owed>>

(* The deadline passes, whether the flusher sleeps or is about to look.    *)
FlushDeadline(f) ==
  /\ flush[f] \in {"checking", "asleep"}
  /\ flush' = [flush EXCEPT ![f] = "late"]
  /\ UNCHANGED <<arriving, open, nextSeq, timers, sending, sent, direct, inFlight, owed>>

(* A guard is taken on the caller's thread, before the task is spawned.    *)
DirectStarts(d) ==
  /\ direct[d] = "idle"
  /\ direct' = [direct EXCEPT ![d] = "sending"]
  /\ inFlight' = inFlight + 1
  /\ UNCHANGED <<arriving, open, nextSeq, timers, sending, sent, flush, owed>>

(* Mutant of DropGuard: a guard wakes the waiters when one is left.        *)
DropGuardEarly ==
  /\ inFlight' = inFlight - 1
  /\ flush' = [f \in Flushers |->
                 IF inFlight' = 1 /\ flush[f] = "asleep" THEN "checking" ELSE flush[f]]

(* Guard::drop: the last one wakes every flusher.                          *)
DropGuard ==
  /\ inFlight' = inFlight - 1
  /\ flush' = [f \in Flushers |->
                 IF inFlight' = 0 /\ flush[f] = "asleep" THEN "checking" ELSE flush[f]]

DirectEnds(d) ==
  /\ direct[d] = "sending"
  /\ direct' = [direct EXCEPT ![d] = "done"]
  /\ DropGuard
  /\ UNCHANGED <<arriving, open, nextSeq, timers, sending, sent, owed>>

(* GroupSender::send has delivered the group and settled every member; the *)
(* group's guard goes with it.                                             *)
SendEnds(B) ==
  /\ B \in sending
  /\ sending' = sending \ {B}
  /\ sent' = [m \in Members |-> IF m \in B THEN sent[m] + 1 ELSE sent[m]]
  /\ DropGuard
  /\ UNCHANGED <<arriving, open, nextSeq, timers, direct, owed>>

Next ==
  \/ \E m \in Members : AddOpens(m) \/ AddJoins(m) \/ AddFills(m)
  \/ \E t \in timers : TimerFires(t[1], t[2])
  \/ FlushGroups
  \/ \E f \in Flushers : FlushTakes(f) \/ FlushChecks(f) \/ FlushDeadline(f)
  \/ \E d \in Directs : DirectStarts(d) \/ DirectEnds(d)
  \/ \E B \in sending : SendEnds(B)

(* The runtime runs every task and timer; a thread in flush runs when it is*)
(* woken.  Nothing makes a signal arrive, a flush be called or a deadline  *)
(* pass.                                                                   *)
Fairness ==
  /\ WF_vars(\E t \in timers : TimerFires(t[1], t[2]))
  /\ WF_vars(\E B \in sending : SendEnds(B))
  /\ \A d \in Directs : WF_vars(DirectEnds(d))
  /\ \A f \in Flushers : WF_vars(FlushChecks(f))

Safety == Init /\ [][Next]_vars
Spec == Safety /\ Fairness

-----------------------------------------------------------------------------

FlushStates == {"idle", "checking", "asleep", "late", "flushed", "gave_up"}

(* Types of the state; a group in the map has a number and is not full.    *)
TypeOK ==
  /\ arriving \subseteq Members
  /\ open \in [Keys -> [seq : Nat, members : SUBSET Members]]
  /\ nextSeq \in Nat
  /\ timers \subseteq Keys \X (Nat \ {0})
  /\ sending \subseteq SUBSET Members
  /\ sent \in [Members -> Nat]
  /\ direct \in [Directs -> {"idle", "sending", "done"}]
  /\ inFlight \in Nat
  /\ flush \in [Flushers -> FlushStates]
  /\ owed \in [Flushers -> SUBSET (Members \union Directs)]

Awaited(m) == m \in open[GroupOf[m]].members
InBatch(m) == {B \in sending : m \in B}

(* Every member is in exactly one place: still arriving, in its open group,*)
(* in one closed group, or sent, once.  However a filling signal, a timer  *)
(* and a flush race to close a group, no signal is lost or sent twice.     *)
MemberInOnePlace ==
  \A m \in Members :
    \/ m \in arriving /\ ~Awaited(m) /\ InBatch(m) = {} /\ sent[m] = 0
    \/ m \notin arriving /\ Awaited(m) /\ InBatch(m) = {} /\ sent[m] = 0
    \/ m \notin arriving /\ ~Awaited(m) /\ Cardinality(InBatch(m)) = 1 /\ sent[m] = 0
    \/ m \notin arriving /\ ~Awaited(m) /\ InBatch(m) = {} /\ sent[m] = 1

(* The count a flush waits on is the number of deliveries under way, from  *)
(* the moment a group closes.                                              *)
CountIsExact ==
  inFlight = Cardinality(sending) + Cardinality({d \in Directs : direct[d] = "sending"})

(* An open group has its own timer still running, so it will be sent even  *)
(* if no further signal or flush comes.                                    *)
OpenHasTimer ==
  \A k \in OpenKeys : <<k, open[k].seq>> \in timers

(* A flusher sleeps only while something is in flight: the wake-up of the  *)
(* last guard is never missed.                                             *)
NoMissedWakeup ==
  \A f \in Flushers : flush[f] = "asleep" => inFlight > 0

Finished(x) == (x \in Members /\ sent[x] = 1) \/ (x \in Directs /\ direct[x] = "done")

(* flush returns true only when everything held or under way when it was   *)
(* called has finished, also what another thread was closing meanwhile.    *)
FlushKeepsItsWord ==
  \A f \in Flushers : flush[f] = "flushed" => \A x \in owed[f] : Finished(x)

(* A group leaves the map only when a member fills it, on its own timer,   *)
(* or in a flush: a timer left over from an earlier group of the key,      *)
(* closed full or flushed, does not cut a younger one short.               *)
GroupWaitHonoured ==
  [][\A k \in OpenKeys : open'[k].seq # open[k].seq =>
       \/ arriving' # arriving /\ Cardinality(open[k].members) + 1 >= MaxGroupSize
       \/ <<k, open[k].seq>> \in timers \ timers'
       \/ timers' = timers /\ \A j \in Keys : open'[j] = NoGroup]_vars

(* A flush that nothing interrupts returns when the work is done, even if  *)
(* its deadline never passes: the wake-up reaches it.                      *)
FlushReturns ==
  \A f \in Flushers : flush[f] = "asleep" ~> flush[f] \in {"flushed", "gave_up"}

Where == [m \in Members |->
            IF m \in arriving THEN "out"
            ELSE IF sent[m] = 0 THEN "held"
            ELSE IF sent[m] = 1 THEN "sent" ELSE "sent again"]

Promise == INSTANCE HoldAndSend WITH where <- Where

(* The open map, the timers and the flushes together do what grouping      *)
(* promises: one send per held signal, with its own group, within the cap. *)
KeepsPromise == Promise!Spec
=============================================================================
