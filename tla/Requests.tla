------------------------------ MODULE Requests ------------------------------
(***************************************************************************)
(* A sequence of calls, from what the caller says to what the services     *)
(* hold: validation, keys, digests and defaults (Signals), the providers'  *)
(* requests (Messages), and the alert book that ties a later acknowledge   *)
(* or resolve to them.                                                     *)
(*                                                                         *)
(* The calls are made one after the other and every service that is up     *)
(* answers; overlapping calls and lost answers are Lifecycle's, retries    *)
(* Delivery's.  PagerDuty and Opsgenie keep incidents, Slack keeps posts;  *)
(* Teams, email, webhook and console keep nothing.                         *)
(***************************************************************************)
EXTENDS Messages, FiniteSets

CONSTANTS
  Inputs,      \* what callers say
  Setups,      \* [templates, bot, prefix]: what the config sets
  Outages,     \* the sets of services that may be down for a call
  By,          \* the group_by of the route that groups
  Rule,        \* what that route matches
  MaxCalls     \* bound on the calls

Texts == Seq(STRING)
Actions == {"trigger", "acknowledge", "resolve"}

(* The fields a route can group by, besides those of the metadata.         *)
GroupFields == (Optional \ {"message", "trace_id", "log_url"}) \union
               {"source", "event_type", "severity", "title", "dedup_key"}

(* Of such a text there is something left, however a service cuts it.      *)
Shows(text) == IsBlank(text) \/ (~IsBlank(Truncate(text, MaxSummary))
                                  /\ ~IsBlank(Truncate(text, MaxMessage)))

(* What a caller can say, and a config that check_routes accepts.  Left    *)
(* out are titles and templates that begin with as many blanks as a        *)
(* service reads characters: of these a blank text is sent.                *)
ASSUME RequestAssumption ==
  /\ {MaxDedupKey, MaxAlias, MaxSummary, MaxMessage} \subseteq Nat \ {0}
  /\ MaxCalls \in Nat
  /\ \A in \in Inputs :
       /\ DOMAIN in = Optional \union {"source", "event_type", "title", "severity", "action",
                                      "dedup_key", "metadata"}
       /\ \A f \in {"source", "event_type", "title"} : in[f] \in Texts
       /\ \A f \in Optional : in[f] \in Seq(Texts) /\ Len(in[f]) <= 1
       /\ in.severity \in Range(Severities) /\ in.action \in Actions
       /\ in.dedup_key \in Seq([text : Texts, hash : {<<>>}, group : {<<>>}])
       /\ Len(in.dedup_key) <= 1
       /\ Shows(in.title)
  /\ \A u \in Setups :
       /\ u.bot \in BOOLEAN /\ u.prefix \in Texts
       /\ \A part \in DOMAIN u.templates : u.templates[part].ok =>
            u.templates[part].text \in Texts /\ Shows(u.templates[part].text)
  /\ \A b \in DOMAIN By : By[b][1] \in GroupFields \union {"metadata"}

Paging == {"pagerduty", "opsgenie"}
Keeping == Paging \union {"slack"}

VARIABLES
  setup,     \* the config: never changes
  calls,     \* the inputs accepted so far
  held,      \* the members of the open group
  digests,   \* history: the groups sent, with the digest of each
  sent,      \* the last signal sent, if any
  rows,      \* the book: a row for a key and a provider
  open,      \* the incidents open at each service: [id, raised]
  posts      \* Slack's messages: [key, shows]

requestVars == <<setup, calls, held, digests, sent, rows, open, posts>>

RequestInit ==
  /\ setup \in Setups
  /\ calls = <<>> /\ held = <<>> /\ digests = <<>> /\ sent = <<>>
  /\ rows = {} /\ posts = <<>>
  /\ open = [p \in Paging |-> {}]

-----------------------------------------------------------------------------

RequestTo(p, s) ==
  IF p = "pagerduty" THEN PagerDuty(s, setup.templates) ELSE Opsgenie(s, setup.templates)

(* External: a trigger opens an incident or joins the open one with its    *)
(* id; a resolve closes the one with its id, if any.  Opsgenie answers 404 *)
(* if there is none, which is as good.                                     *)
Incidents(p, s) ==
  LET id == RequestTo(p, s).key
      same == {i \in open[p] : i.id = id}
      raised == {KeyOf(s)} \union UNION {i.raised : i \in same}
  IN CASE s.action = "trigger" -> (open[p] \ same) \union {[id |-> id, raised |-> raised]}
       [] s.action = "acknowledge" -> open[p]
       [] s.action = "resolve" -> open[p] \ same

(* Mutant of Post: a bot posts anew for whatever it is told.               *)
PostAnew(s, ref) ==
  [posts |-> Append(posts, [key |-> KeyOf(s), shows |-> s.action]),
   ref |-> IF setup.bot THEN <<Len(posts) + 1>> ELSE <<>>]

(* send_with_ref: a bot brings the alert's own message up to date; a       *)
(* webhook cannot.                                                         *)
Post(s, ref) ==
  IF setup.bot /\ IsLifecycle(s.action) /\ ref # <<>>
  THEN [posts |-> [posts EXCEPT ![ref[1]].shows = s.action], ref |-> ref]
  ELSE [posts |-> Append(posts, [key |-> KeyOf(s), shows |-> s.action]),
        ref |-> IF setup.bot THEN <<Len(posts) + 1>> ELSE <<>>]

RowsOf(key) == {r \in rows : r.key = key}
Unresolved(key) == {r \in RowsOf(key) : r.state # "resolve"}

(* record: a trigger writes the whole row; the others change its state.    *)
Recorded(s, got, ref) ==
  LET key == KeyOf(s)
      mine == {r \in RowsOf(key) : r.provider \in got}
  IN (rows \ mine) \union
     (IF s.action = "trigger"
      THEN {[key |-> key, provider |-> p, state |-> "trigger", title |-> s.title,
             ref |-> IF p = "slack" THEN ref ELSE <<>>] : p \in got}
      ELSE {[r EXCEPT !.state = s.action] : r \in mine})

(* A signal goes to its targets, of which those in `got` get it.           *)
Deliver(s, got, ref) ==
  LET post == Post(s, ref) IN
  /\ sent' = <<s>>
  /\ open' = [p \in Paging |-> IF p \in got THEN Incidents(p, s) ELSE open[p]]
  /\ posts' = IF "slack" \in got THEN post.posts ELSE posts
  /\ rows' = Recorded(s, got, post.ref)

Takes(in) ==
  /\ Len(calls) < MaxCalls /\ Validate(in)
  /\ calls' = Append(calls, in)

(* A trigger on the route that sends at once.                              *)
Raise(in, down) ==
  /\ in.action = "trigger" /\ Takes(in)
  /\ Deliver(FromInput(in), Keeping \ down, <<>>)
  /\ UNCHANGED <<setup, held, digests>>

(* A trigger on the route that groups: held with those of equal values.    *)
Hold(in) ==
  /\ in.action = "trigger" /\ Takes(in) /\ Matches(Rule, in)
  /\ held # <<>> => GroupValues(By, FromInput(in)) = GroupValues(By, held[1])
  /\ held' = Append(held, FromInput(in))
  /\ UNCHANGED <<setup, digests, sent, rows, open, posts>>

(* The group is sent: as its digest, or as the one signal it has.          *)
CloseGroup(down) ==
  LET digest == IF Len(held) = 1 THEN held[1] ELSE Digest(held, GroupValues(By, held[1])) IN
  /\ held # <<>>
  /\ Deliver(digest, Keeping \ down, <<>>)
  /\ digests' = Append(digests, [members |-> held, digest |-> digest])
  /\ held' = <<>>
  /\ UNCHANGED <<setup, calls>>

(* An acknowledge or a resolve goes to those that hold the alert, with the *)
(* title and the references of the book; without any, to those that find   *)
(* an alert by its key.  The title is that of the oldest row: any of them  *)
(* here.                                                                   *)
Follow(in, down) ==
  LET rowsNow == Unresolved(EffectiveDedupKey(in))
      titles == {r.title : r \in rowsNow}
      refs == {r.ref : r \in {q \in rowsNow : q.provider = "slack"}} \ {<<>>}
      holders == {r.provider : r \in rowsNow}
  IN /\ IsLifecycle(in.action) /\ Takes(in)
     /\ \E known \in IF titles = {} THEN {<<>>} ELSE {<<x>> : x \in titles} :
          Deliver(FromInput(FillLifecycleDefaults(in, known)),
                  (IF holders = {} THEN Paging ELSE holders) \ down,
                  IF refs = {} THEN <<>> ELSE CHOOSE ref \in refs : TRUE)
     /\ UNCHANGED <<setup, held, digests>>

(* All calls are made.                                                     *)
Rest == Len(calls) = MaxCalls /\ held = <<>> /\ UNCHANGED requestVars

RequestNext ==
  \/ \E in \in Inputs, down \in Outages : Raise(in, down) \/ Follow(in, down)
  \/ \E in \in Inputs : Hold(in)
  \/ \E down \in Outages : CloseGroup(down)
  \/ Rest

RequestSpec == RequestInit /\ [][RequestNext]_requestVars

-----------------------------------------------------------------------------

(* Types of the state; a key and a provider have one row.                  *)
RequestTypeOK ==
  /\ setup \in Setups
  /\ Range(calls) \subseteq Inputs /\ Len(calls) <= MaxCalls
  /\ Len(held) <= MaxCalls /\ Len(sent) <= 1
  /\ \A r \in rows : r.provider \in Keeping /\ Range(r.ref) \subseteq DOMAIN posts
  /\ \A r, q \in rows : r.key = q.key /\ r.provider = q.provider => r = q
  /\ \A p \in Paging : \A i, j \in open[p] : i.id = j.id => i = j

KeysUsed == {r.key : r \in rows} \union {EffectiveDedupKey(calls[i]) : i \in DOMAIN calls}
Limit == [pagerduty |-> MaxDedupKey, opsgenie |-> MaxAlias]
Clash(p) ==
  \E k, l \in KeysUsed : k # l /\ CutKey(k, Limit[p]) = CutKey(l, Limit[p])

(* The book knows what is open, however long the key (the services read   *)
(* only the beginning of it, the book all): whatever is open has a row, so *)
(* that a resolve finds it, and what a trigger opened stays open until its *)
(* own key is resolved.  Two keys that agree as far as a service reads     *)
(* share one alert there, and then neither holds.  Said of states of the   *)
(* right types, where a key and a provider have one row.                   *)
BookKnowsWhatIsOpen ==
  /\ RequestTypeOK
  /\ \A p \in Paging :
       LET InState(states) ==
             {r.key : r \in {q \in rows : q.provider = p /\ q.state \in states}}
           raised == UNION {i.raised : i \in open[p]}
       IN ~Clash(p) =>
            /\ raised \subseteq InState({"trigger", "acknowledge"})
            /\ InState({"trigger"}) \subseteq raised

(* What people read is true and is never nothing.  With a bot token an     *)
(* acknowledge or resolve updates the alert's message in place             *)
(* (config.rs:199-201): the message the book refers to is this key's own,  *)
(* and shows what became of the alert.  And whatever the templates do, and *)
(* though an acknowledge or a resolve may bring nothing but its key, every *)
(* message says something, names its source, and is JSON where JSON is due *)
(* (template.rs: a template that fails or renders blank leaves the         *)
(* built-in text).                                                         *)
MessagesSayWhatIs ==
  /\ \A r \in rows :
       r.provider = "slack" /\ r.ref # <<>> =>
         posts[r.ref[1]] = [key |-> r.key, shows |-> r.state]
  /\ \A s \in Range(sent) :
       LET t == setup.templates IN
       /\ ~IsLifecycle(s.action) =>
            ~IsBlank(PagerDuty(s, t).text) /\ ~IsBlank(Opsgenie(s, t).text)
       /\ ~IsBlank(SlackText(s, t)) /\ ~IsBlank(TeamsTitle(s, t))
       /\ ~IsBlank(EmailSubject(s, t, setup.prefix)) /\ ~IsBlank(EmailBody(s, t))
       /\ ~IsBlank(ConsoleLine(s, t))
       /\ WebhookBody(s, t).json /\ ~IsBlank(WebhookBody(s, t).says)
       /\ HasFields(s)

NoBar(in) == \A f \in {"source", "event_type", "title"} : "|" \notin Range(in[f])
Same(a, b) ==
  /\ \A f \in {"source", "event_type", "title"} : a[f] = b[f]
  /\ Or(a.environment, <<>>) = Or(b.environment, <<>>)

(* Two calls that leave the key to the core mean one alert exactly if they *)
(* agree in source, event type, title and environment (signal.rs:152-153): *)
(* a repeat joins its alert and a resolve finds it by the same fields.  A  *)
(* vertical bar in a field can defeat the separator, hence NoBar.          *)
KeyTellsApart ==
  \A i, j \in DOMAIN calls :
    LET a == calls[i]
        b == calls[j]
    IN a.dedup_key = <<>> /\ b.dedup_key = <<>> /\ NoBar(a) /\ NoBar(b) =>
         (EffectiveDedupKey(a) = EffectiveDedupKey(b) <=> Same(a, b))

Urgency(s) ==
  [pagerduty |-> Rank(PagerDuty(s, <<>>).urgency), opsgenie |-> 6 - Opsgenie(s, <<>>).priority]

(* A digest wakes people as surely as the worst of its members would have, *)
(* still matches the route they were held on, and carries the values they  *)
(* were grouped by (digest and common, group.rs:224-321).                  *)
DigestSpeaksForAll ==
  \A n \in DOMAIN digests :
    LET digest == digests[n].digest
        members == digests[n].members
    IN /\ \A i \in DOMAIN members : \A p \in Paging :
            Urgency(digest)[p] >= Urgency(members[i])[p]
       /\ Matches(Rule, digest)
       /\ \A b \in DOMAIN By :
            By[b][1] \notin {"metadata", "title", "dedup_key"} =>
              FieldValue(digest, By[b]) = FieldValue(members[1], By[b])
=============================================================================
