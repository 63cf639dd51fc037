------------------------------ MODULE Delivery ------------------------------
(***************************************************************************)
(* One signal's delivery (lib.rs): the row written before it, every target *)
(* tried at once (deliver), each target's providers tried in order, with   *)
(* retries (deliver_chain), the result (summarize), and what is stored of  *)
(* it.  The process may exit at any point.                                 *)
(*                                                                         *)
(* A step of a target is the code between two awaits.  A request is in the *)
(* hands of the network: its provider may accept it, refuse it, accept it  *)
(* and have the answer lost, or accept it long after the caller gave up.   *)
(***************************************************************************)
EXTENDS Naturals, Sequences

CONSTANTS
  Chains,        \* the plan's targets: each a sequence of provider names
  Providers,     \* every provider name of the plan
  Known,         \* those the pipeline has
  MaxAttempts    \* MAX_RETRY_ATTEMPTS

(* No provider is named twice in a plan (plan_with, targets).              *)
ASSUME DeliveryAssumption ==
  /\ Chains \in Seq(Seq(Providers))
  /\ Known \subseteq Providers
  /\ MaxAttempts \in Nat \ {0}
  /\ \A s, t \in DOMAIN Chains : \A i \in DOMAIN Chains[s], j \in DOMAIN Chains[t] :
       Chains[s][i] = Chains[t][j] => s = t /\ i = j

VARIABLES
  blocking,   \* whether the caller waits (send) or not (notify_async)
  stage,      \* how far the call is
  pos,        \* the provider a target is trying: an index of its chain
  phase,      \* what that target is doing
  tries,      \* requests made to each provider
  said,       \* the tracker's outcome for each provider
  result,     \* the status summarize gives
  kept,       \* whether the routes' history still counts the signal as sent
  head,       \* the delivery_status stored for the signal
  rows,       \* the status stored for each provider
  sinkOk,     \* no write to the sink has failed so far
  has,        \* providers that accepted the signal
  astray      \* providers a request may still reach, though nobody waits for it

vars == <<blocking, stage, pos, phase, tries, said, result, kept, head, rows,
          sinkOk, has, astray>>

Targets == DOMAIN Chains
At(t) == Chains[t][pos[t]]
Over == \A t \in Targets : phase[t] = "over"

(* The places after i in a chain that name a provider the pipeline has; an *)
(* unknown one is skipped with a warning.                                  *)
Usable(t, i) == {j \in i + 1 .. Len(Chains[t]) : Chains[t][j] \in Known}
NextUsable(t, i) ==
  IF Usable(t, i) = {} THEN Len(Chains[t]) + 1
  ELSE CHOOSE j \in Usable(t, i) : \A l \in Usable(t, i) : j <= l

Init ==
  /\ blocking \in BOOLEAN
  /\ stage = "new"
  /\ pos = [t \in Targets |-> 0]
  /\ phase = [t \in Targets |-> "waiting"]
  /\ tries = [p \in Providers |-> 0]
  /\ said = [p \in Providers |-> "none"]
  /\ result = "none"
  /\ kept = TRUE
  /\ head = "none"
  /\ rows = [p \in Providers |-> "none"]
  /\ sinkOk = TRUE
  /\ has = {}
  /\ astray = {}

(* Tracker::report, once or more between two awaits: each outcome goes to  *)
(* the sink, where the write may fail, and into memory.                    *)
Report(news) ==
  /\ said' = [p \in Providers |-> IF p \in DOMAIN news THEN news[p] ELSE said[p]]
  /\ \E lost \in SUBSET DOMAIN news :
       /\ rows' = [p \in Providers |->
                     IF p \in DOMAIN news \ lost THEN news[p] ELSE rows[p]]
       /\ sinkOk' = (sinkOk /\ lost = {})

(* record, before delivery: a sink that cannot write does not stop it.     *)
Record ==
  /\ stage = "new"
  /\ stage' = "recorded"
  /\ \/ head' = "pending" /\ UNCHANGED sinkOk
     \/ sinkOk' = FALSE /\ UNCHANGED head
  /\ UNCHANGED <<blocking, pos, phase, tries, said, result, kept, rows, has, astray>>

(* The targets in T move to their next usable provider, if any.            *)
Called(T, from) ==
  {Chains[t][NextUsable(t, from[t])] : t \in {u \in T : Usable(u, from[u]) # {}}}

Advance(T) ==
  /\ pos' = [t \in Targets |-> IF t \in T THEN NextUsable(t, pos[t]) ELSE pos[t]]
  /\ phase' = [t \in Targets |->
                 IF t \notin T THEN phase[t]
                 ELSE IF Usable(t, pos[t]) = {} THEN "over" ELSE "calling"]
  /\ tries' = [p \in Providers |-> IF p \in Called(T, pos) THEN 1 ELSE tries[p]]

(* join_all polls every target once before any of them is answered.        *)
Begin ==
  /\ stage = "recorded"
  /\ stage' = "delivering"
  /\ Advance(Targets)
  /\ Report([p \in Called(Targets, pos) |-> "pending"])
  /\ UNCHANGED <<blocking, result, kept, head, has, astray>>

(* External: a provider accepts the request; its answer is on its way.     *)
Accepts(t) ==
  /\ phase[t] = "calling" /\ stage = "delivering"
  /\ phase' = [phase EXCEPT ![t] = "accepted"]
  /\ has' = has \union {At(t)}
  /\ UNCHANGED <<blocking, stage, pos, tries, said, result, kept, head, rows, sinkOk, astray>>

(* External: a request nobody waits for any more arrives after all.        *)
ArrivesLate(p) ==
  /\ p \in astray
  /\ astray' = astray \ {p}
  /\ has' = has \union {p}
  /\ UNCHANGED <<blocking, stage, pos, phase, tries, said, result, kept, head, rows, sinkOk>>

AttemptSucceeds(t) ==
  /\ phase[t] = "accepted" /\ stage = "delivering"
  /\ phase' = [phase EXCEPT ![t] = "over"]
  /\ Report([p \in {At(t)} |-> "delivered"])
  /\ UNCHANGED <<blocking, stage, pos, tries, result, kept, head, has, astray>>

(* An attempt errs: refused, its answer lost, or unanswered (send_external *)
(* gives up on a sender thread that goes on), when it may arrive later.    *)
Errs(t) ==
  /\ phase[t] \in {"calling", "accepted"} /\ stage = "delivering"
  /\ \/ UNCHANGED astray
     \/ phase[t] = "calling" /\ astray' = astray \union {At(t)}

AttemptFails(t) ==
  /\ Errs(t)
  /\ tries[At(t)] < MaxAttempts
  /\ phase' = [phase EXCEPT ![t] = "backoff"]
  /\ UNCHANGED <<blocking, stage, pos, tries, said, result, kept, head, rows, sinkOk, has>>

BackoffEnds(t) ==
  /\ phase[t] = "backoff" /\ stage = "delivering"
  /\ phase' = [phase EXCEPT ![t] = "calling"]
  /\ tries' = [tries EXCEPT ![At(t)] = @ + 1]
  /\ UNCHANGED <<blocking, stage, pos, said, result, kept, head, rows, sinkOk, has, astray>>

(* Mutant of ProviderGivesUp: one attempt too few for the fallback.        *)
ProviderGivesUpEarly(t) ==
  /\ Errs(t)
  /\ tries[At(t)] + 1 >= MaxAttempts
  /\ Advance({t})
  /\ Report([p \in {At(t)} \union Called({t}, pos) |->
               IF p = At(t) THEN "failed" ELSE "pending"])
  /\ UNCHANGED <<blocking, stage, result, kept, head, has>>

(* Mutant of ProviderGivesUp: the fallback is not reported as pending.     *)
ProviderGivesUpUnrecorded(t) ==
  /\ Errs(t)
  /\ tries[At(t)] >= MaxAttempts
  /\ Advance({t})
  /\ Report([p \in {At(t)} |-> "failed"])
  /\ UNCHANGED <<blocking, stage, result, kept, head, has>>

(* The last attempt errs: the provider has failed, and the target goes on  *)
(* to its next one.                                                        *)
ProviderGivesUp(t) ==
  /\ Errs(t)
  /\ tries[At(t)] >= MaxAttempts
  /\ Advance({t})
  /\ Report([p \in {At(t)} \union Called({t}, pos) |->
               IF p = At(t) THEN "failed" ELSE "pending"])
  /\ UNCHANGED <<blocking, stage, result, kept, head, has>>

(* Mutant of Delivers: the provider tried first decides.                   *)
DeliversFirst(chain, out) ==
  \E i \in DOMAIN chain :
    /\ out[chain[i]] = "delivered"
    /\ \A j \in DOMAIN chain : j < i => out[chain[j]] = "none"

(* summarize.  The provider tried last decides how its target went.        *)
Delivers(chain, out) ==
  \E i \in DOMAIN chain :
    /\ out[chain[i]] = "delivered"
    /\ \A j \in DOMAIN chain : j > i => out[chain[j]] = "none"

Summary(out) ==
  LET won == {t \in Targets : Delivers(Chains[t], out)} IN
  IF Targets = {} THEN "skipped"
  ELSE IF won = Targets THEN "delivered"
  ELSE IF won = {} THEN "failed" ELSE "partial"

Concludes ==
  /\ stage = "delivering" /\ Over
  /\ stage' = "concluded"
  /\ result' = Summary(said)
  /\ UNCHANGED <<blocking, pos, phase, tries, said, kept, head, rows, sinkOk, has, astray>>

(* The outcomes with those still pending counted as failed.                *)
CutOff == [p \in Providers |-> IF said[p] = "pending" THEN "failed" ELSE said[p]]

(* Requests whose caller goes away before they are answered.               *)
Abandoned == {At(t) : t \in {u \in Targets : phase[u] = "calling"}}

(* Mutant of TimesOut: a request under way is not interrupted.             *)
TimesOutBetween ==
  /\ blocking
  /\ stage = "delivering" /\ ~Over /\ Abandoned = {}
  /\ stage' = "concluded"
  /\ said' = CutOff
  /\ result' = Summary(said')
  /\ phase' = [t \in Targets |-> "over"]
  /\ UNCHANGED <<blocking, pos, tries, kept, head, rows, sinkOk, has, astray>>

(* The blocking call's timeout passes before every target is over: the     *)
(* delivery is dropped where it stands.                                    *)
TimesOut ==
  /\ blocking
  /\ stage = "delivering" /\ ~Over
  /\ stage' = "concluded"
  /\ said' = CutOff
  /\ result' = Summary(said')
  /\ astray' = astray \union Abandoned
  /\ phase' = [t \in Targets |-> "over"]
  /\ UNCHANGED <<blocking, pos, tries, kept, head, rows, sinkOk, has>>

(* Mutant of Settles: the history is kept only after a full success.       *)
SettlesPartial ==
  /\ stage = "concluded"
  /\ stage' = "settled"
  /\ kept' = (result = "delivered")
  /\ UNCHANGED <<blocking, pos, phase, tries, said, result, head, rows, sinkOk, has, astray>>

(* settle: a signal that reached no provider does not count as sent.       *)
Settles ==
  /\ stage = "concluded"
  /\ stage' = "settled"
  /\ kept' = (result # "failed")
  /\ UNCHANGED <<blocking, pos, phase, tries, said, result, head, rows, sinkOk, has, astray>>

(* The result's deliveries: every provider tried, in plan order.           *)
Deliveries == {p \in Providers : said[p] # "none"}
Before(p, q) ==
  \E s, t \in Targets : \E i \in DOMAIN Chains[s], j \in DOMAIN Chains[t] :
    Chains[s][i] = p /\ Chains[t][j] = q /\ (s < t \/ (s = t /\ i < j))

(* What complete has written when it gets through some of them.            *)
Beginnings ==
  {S \in SUBSET Deliveries : \A q \in S, p \in Deliveries : Before(p, q) => p \in S}
Write(S) ==
  /\ head' = result
  /\ rows' = [p \in Providers |-> IF p \in S THEN said[p] ELSE rows[p]]

(* Mutant of Saves: complete writes the signal's row and trusts the rows   *)
(* that report wrote.                                                      *)
SavesHead ==
  /\ stage = "settled"
  /\ \/ head' = result /\ stage' = "saved" /\ UNCHANGED <<rows, sinkOk>>
     \/ UNCHANGED <<head, rows>> /\ sinkOk' = FALSE /\ stage' = "unsaved"
  /\ UNCHANGED <<blocking, pos, phase, tries, said, result, kept, has, astray>>

(* complete: the signal's row, then a row for each provider tried, each a  *)
(* statement of its own; the first that fails ends it.                     *)
Saves ==
  /\ stage = "settled"
  /\ \/ /\ UNCHANGED <<head, rows>>
        /\ sinkOk' = FALSE /\ stage' = "unsaved"
     \/ \E S \in Beginnings :
          /\ Write(S)
          /\ IF S = Deliveries
             THEN stage' = "saved" /\ UNCHANGED sinkOk
             ELSE stage' = "unsaved" /\ sinkOk' = FALSE
  /\ UNCHANGED <<blocking, pos, phase, tries, said, result, kept, has, astray>>

(* The process exits, also between two statements of complete.             *)
Crash ==
  /\ stage \notin {"saved", "unsaved", "crashed"}
  /\ stage' = "crashed"
  /\ \/ UNCHANGED <<head, rows>>
     \/ /\ stage = "settled"
        /\ \E S \in Beginnings : Write(S)
  /\ astray' = astray \union Abandoned
  /\ UNCHANGED <<blocking, pos, phase, tries, said, result, kept, sinkOk, has>>

TargetStep(t) ==
  AttemptSucceeds(t) \/ AttemptFails(t) \/ BackoffEnds(t) \/ ProviderGivesUp(t)

Next ==
  \/ Record \/ Begin \/ Concludes \/ TimesOut \/ Settles \/ Saves \/ Crash
  \/ \E t \in Targets : Accepts(t) \/ TargetStep(t)
  \/ \E p \in Providers : ArrivesLate(p)

(* The runtime runs the task, and the blocking call's timeout passes.  No  *)
(* provider need ever answer: the HTTP clients set no timeout of their own.*)
Fairness == WF_vars(Record \/ Begin \/ Concludes \/ TimesOut \/ Settles \/ Saves)

Safety == Init /\ [][Next]_vars
Spec == Safety /\ Fairness

-----------------------------------------------------------------------------

(* Types of the state.                                                     *)
TypeOK ==
  /\ blocking \in BOOLEAN
  /\ stage \in {"new", "recorded", "delivering", "concluded", "settled", "saved",
                "unsaved", "crashed"}
  /\ pos \in [Targets -> Nat] /\ \A t \in Targets : pos[t] <= Len(Chains[t]) + 1
  /\ phase \in [Targets -> {"waiting", "calling", "accepted", "backoff", "over"}]
  /\ tries \in [Providers -> 0 .. MaxAttempts]
  /\ said \in [Providers -> {"none", "pending", "delivered", "failed"}]
  /\ result \in {"none", "skipped", "delivered", "failed", "partial"}
  /\ kept \in BOOLEAN
  /\ head \in {"none", "pending", "skipped", "delivered", "failed", "partial"}
  /\ rows \in [Providers -> {"none", "pending", "delivered", "failed"}]
  /\ sinkOk \in BOOLEAN
  /\ has \subseteq Providers /\ astray \subseteq Providers

(* A target falls back only from a provider that failed MaxAttempts times, *)
(* and tries nobody after one that delivered.                              *)
FallbackIsLast ==
  \A t \in Targets : \A i, j \in DOMAIN Chains[t] :
    i < j /\ said[Chains[t][j]] # "none" /\ Chains[t][i] \in Known =>
      said[Chains[t][i]] = "failed" /\ tries[Chains[t][i]] = MaxAttempts

(* Whatever the moment of a timeout or an exit, a provider that has the    *)
(* signal, or may still get it, is on record, unless the sink failed.      *)
(* Said of states of the right types.                                      *)
NobodyUnrecorded ==
  /\ TypeOK
  /\ sinkOk => \A p \in has \union astray : rows[p] # "none"

(* What a delivery leaves behind is true, wherever a timeout or a failed   *)
(* write met it: a completed one is stored as it was reported, and the     *)
(* history is given back only for a signal that no provider is known to    *)
(* have accepted, so a repeat of one that was is still held back.          *)
RecordsAreTrue ==
  /\ ~kept => \A p \in Providers : said[p] # "delivered"
  /\ stage = "saved" =>
       /\ head = result
       /\ \A p \in Providers : rows[p] = said[p]

(* A blocking call returns, even if no provider ever answers.              *)
BlockingReturns ==
  blocking ~> stage \in {"saved", "unsaved", "crashed"}

Reached == {t \in Targets : \E i \in DOMAIN Chains[t] : said[Chains[t][i]] = "delivered"}

Promise == INSTANCE FanOut WITH reached <- Reached

(* The result tells how many targets were reached, each by one provider.   *)
KeepsPromise == Promise!Spec
=============================================================================
