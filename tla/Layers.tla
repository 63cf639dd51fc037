------------------------------- MODULE Layers -------------------------------
(***************************************************************************)
(* What one configuration file says and what a chain of them makes         *)
(* (config.rs, and the references of secrets.rs): placeholders, the merge  *)
(* of layers, the checks of what came out.                                 *)
(*                                                                         *)
(* An entry of a provider is the set of the keys it gives, with those whose*)
(* value is useless, and its templates.  An option is a sequence, empty    *)
(* for none.                                                               *)
(***************************************************************************)
EXTENDS Naturals, Sequences, SequencesExt, TLC

CONSTANT
  MaxSecs   \* the longest time there is, where a product saturates

Ok == "ok"

(* The keys that an entry must and may have.                               *)
Needs == [console |-> {}, slack |-> {}, webhook |-> {"url"},
          pagerduty |-> {"routing_key"}, teams |-> {"webhook_url"},
          opsgenie |-> {"api_key"}, email |-> {"from", "to"}]
May == [console |-> {"enabled"},
        slack |-> {"webhook_url", "bot_token", "channel", "api_url"},
        webhook |-> {}, pagerduty |-> {"url"}, teams |-> {},
        opsgenie |-> {"url", "tags"},
        email |-> {"cc", "subject_prefix", "smtp", "smtp.port", "smtp.username",
                   "smtp.password", "smtp.tls", "ses", "ses.region"}]

(* The parts that a template may replace; `emoji` is Slack's own variable. *)
(* The names that the template language itself defines are left out.       *)
Parts == [console |-> {"text"}, slack |-> {"text"}, webhook |-> {"body"},
          pagerduty |-> {"summary"}, teams |-> {"title", "text"},
          opsgenie |-> {"message", "description"}, email |-> {"subject", "body"}]
SignalVariables ==
  {"id", "title", "message", "severity", "source", "service", "component", "event_type",
   "environment", "team", "run_id", "correlation_id", "trace_id", "log_url",
   "metadata", "timestamp", "dedup_key", "action"}
Variables(name) == SignalVariables \union (IF name = "slack" THEN {"emoji"} ELSE {})

GroupFields ==
  {"source", "service", "component", "event_type", "severity", "title",
   "environment", "team", "run_id", "correlation_id", "dedup_key"}

-----------------------------------------------------------------------------
(* Placeholders.  A string is a sequence of pieces: plain text, the name   *)
(* of a variable, a reference to a secret, or a slip of the pen.           *)

IsSlip(piece) == piece.kind \in {"open", "empty"}
Pieces(file) == UNION {Range(file.strings[i]) : i \in DOMAIN file.strings}

SecretRefs(file) == {p.ref : p \in {q \in Pieces(file) : q.kind = "secret"}}
VariablesOf(file) == {p.name : p \in {q \in Pieces(file) : q.kind = "var"}}

StoreCloud == [aws_sm |-> "aws", gcp_sm |-> "gcp", azure_kv |-> "azure"]

(* gcp_name and azure_name: the short forms, and the full one of GCP.      *)
GcpName(path) ==
  LET full == Len(path) \in {4, 6} /\ path[1] = "projects" /\ path[3] = "secrets"
              /\ (Len(path) = 6 => path[5] = "versions")
      short == Len(path) \in {2, 3}
  IN (full \/ short) /\ "" \notin Range(path)

GoodPath(store, path) ==
  CASE store = "aws_sm" -> path # <<>>
    [] store = "gcp_sm" -> GcpName(path)
    [] store = "azure_kv" -> Len(path) \in {2, 3} /\ "" \notin Range(path)

(* SecretRef::parse and check_supported.                                   *)
GoodRef(ref, clouds) ==
  /\ ref.store \in DOMAIN StoreCloud
  /\ ref.field # <<"">>
  /\ GoodPath(ref.store, ref.path)
  /\ StoreCloud[ref.store] \in clouds

(* secrets::resolve: all names are checked before any store is asked.      *)
(* `vault` holds what can be read now, whole or field by field.            *)
Resolve(refs, on) ==
  IF \E r \in refs : ~GoodRef(r, on.clouds) THEN "fatal"
  ELSE IF ~(refs \subseteq on.vault) THEN "soft"
  ELSE Ok

(* Window: a number and a unit as written, the time it stands for, and how *)
(* that is written back.                                                   *)
UnitSecs == [s |-> 1, m |-> 60, h |-> 3600, d |-> 86400]
Seconds(w) ==
  LET secs == w.n * UnitSecs[w.unit] IN IF secs > MaxSecs THEN MaxSecs ELSE secs

(* Mutant of Shown: the largest unit that is not longer.                   *)
ShownFloor(secs) ==
  LET fits(unit) == secs >= UnitSecs[unit]
      unit == CASE fits("d") -> "d" [] fits("h") /\ ~fits("d") -> "h"
                [] fits("m") /\ ~fits("h") -> "m" [] ~fits("m") -> "s"
  IN [n |-> secs \div UnitSecs[unit], unit |-> unit]

Shown(secs) ==
  LET fits(unit) == secs > 0 /\ secs % UnitSecs[unit] = 0
      unit == CASE fits("d") -> "d" [] fits("h") /\ ~fits("d") -> "h"
                [] fits("m") /\ ~fits("h") -> "m" [] ~fits("m") -> "s"
  IN [n |-> secs \div UnitSecs[unit], unit |-> unit]

Times == [n : Nat, unit : STRING]
RouteShapes ==
  [providers : Seq(STRING), by : Seq(Seq(STRING)), dedup : Seq(Times), wait : Seq(Times),
   limit : Seq([max : Nat, per : Times])]

Windows(route) ==
  Range(route.dedup) \union Range(route.wait)
  \union {route.limit[i].per : i \in DOMAIN route.limit}

(* A route with each time w of its own put as how[w].                      *)
Put(route, how) ==
  [providers |-> route.providers, by |-> route.by,
   dedup |-> [i \in DOMAIN route.dedup |-> how[route.dedup[i]]],
   wait |-> [i \in DOMAIN route.wait |-> how[route.wait[i]]],
   limit |-> [i \in DOMAIN route.limit |->
                [max |-> route.limit[i].max, per |-> how[route.limit[i].per]]]]

(* route_key: a route's history is kept under its definition as text.      *)
RouteKey(route) == Put(route, [w \in Windows(route) |-> Shown(Seconds(w))])

WellFormed(file) ==
  /\ \A i \in DOMAIN file.routes : \A w \in Windows(file.routes[i]) : w.unit \in DOMAIN UnitSecs
  /\ \A name \in DOMAIN file.providers :
       /\ name \in DOMAIN Needs
       /\ Needs[name] \subseteq file.providers[name].keys
       /\ file.providers[name].keys \subseteq Needs[name] \union May[name]

(* chain.rs's build: the slips first, then the secrets, then the variables *)
(* and the YAML's own shape.  `on` is the host: [clouds, env, vault].       *)
Build(file, on) ==
  IF \E p \in Pieces(file) : IsSlip(p) THEN "text"
  ELSE IF Resolve(SecretRefs(file), on) # Ok THEN Resolve(SecretRefs(file), on)
  ELSE IF ~(VariablesOf(file) \subseteq on.env) \/ ~WellFormed(file) THEN "text"
  ELSE Ok

-----------------------------------------------------------------------------
(* Config::from_layers.                                                    *)

NoConfig == [providers |-> <<>>, routes |-> <<>>, origins |-> <<>>, storage |-> <<>>]

Origins(name, routes) == [i \in DOMAIN routes |-> [file |-> name, index |-> i]]

(* The entries of f, and those of g that f does not have.                  *)
Atop(f, g) ==
  [n \in DOMAIN f \union DOMAIN g |-> IF n \in DOMAIN f THEN f[n] ELSE g[n]]

(* Mutant of Overlay: the origins of the routes are kept in file order.    *)
OverlayOriginsLast(config, file) ==
  [providers |-> Atop(file.layer.providers, config.providers),
   routes |-> file.layer.routes \o config.routes,
   origins |-> config.origins \o Origins(file.name, file.layer.routes),
   storage |-> IF file.layer.storage # <<>> THEN file.layer.storage ELSE config.storage]

(* Mutant of Overlay: a later layer's routes go to the end.                *)
OverlayRoutesLast(config, file) ==
  [providers |-> Atop(file.layer.providers, config.providers),
   routes |-> config.routes \o file.layer.routes,
   origins |-> config.origins \o Origins(file.name, file.layer.routes),
   storage |-> IF file.layer.storage # <<>> THEN file.layer.storage ELSE config.storage]

(* One layer on top of those before it.                                    *)
Overlay(config, file) ==
  [providers |-> Atop(file.layer.providers, config.providers),
   routes |-> file.layer.routes \o config.routes,
   origins |-> Origins(file.name, file.layer.routes) \o config.origins,
   storage |-> IF file.layer.storage # <<>> THEN file.layer.storage ELSE config.storage]

SlackOk(e) ==
  e.keys \ {"api_url"} \in {{"webhook_url"}, {"bot_token", "channel"}}

(* Exactly one transport; a password with its user; an add-on for SES.     *)
EmailOk(e, clouds) ==
  /\ e.useless = {}
  /\ ("smtp" \in e.keys) # ("ses" \in e.keys)
  /\ "smtp" \in e.keys => ("smtp.username" \in e.keys <=> "smtp.password" \in e.keys)
  /\ "ses" \in e.keys => "aws" \in clouds

TemplateOk(name, e) ==
  \A t \in e.template :
    t.part \in Parts[name] /\ t.compiles /\ t.variables \subseteq Variables(name)

(* provider_names: the console is always there.                            *)
ProviderNames(config) == {"console"} \union DOMAIN config.providers

IsGroupField(field) ==
  \/ Len(field) = 1 /\ field[1] \in GroupFields
  \/ Len(field) > 1 /\ field[1] = "metadata" /\ "" \notin Range(field)

Above0(route) ==
  /\ \A w \in Windows(route) : Seconds(w) > 0
  /\ \A i \in DOMAIN route.limit : route.limit[i].max > 0

(* Mutant of RouteOk: the names of the providers are not looked up.        *)
RouteOkUnnamed(route, known) ==
  /\ route.providers # <<>>
  /\ Above0(route)
  /\ \A field \in Range(route.by) : IsGroupField(field)

(* What check_routes asks of one route.                                    *)
RouteOk(route, known) ==
  /\ route.providers # <<>>
  /\ Above0(route)
  /\ \A field \in Range(route.by) : IsGroupField(field)
  /\ Range(route.providers) \subseteq known

BadRoutes(config) ==
  {i \in DOMAIN config.routes : ~RouteOk(config.routes[i], ProviderNames(config))}

(* The checks in their order: the first one that fails is the error.       *)
Complaint(config, clouds) ==
  LET entries == config.providers IN
  IF "email" \in DOMAIN entries /\ ~EmailOk(entries["email"], clouds) THEN [about |-> "email"]
  ELSE IF "slack" \in DOMAIN entries /\ ~SlackOk(entries["slack"]) THEN [about |-> "slack"]
  ELSE IF \E n \in DOMAIN entries : ~TemplateOk(n, entries[n]) THEN [about |-> "template"]
  ELSE IF BadRoutes(config) # {}
       THEN [about |-> "route",
             at |-> config.origins[CHOOSE i \in BadRoutes(config) :
                                     \A j \in BadRoutes(config) : i <= j]]
  ELSE [about |-> "nothing"]

(* The files of a chain, lowest priority first.                            *)
Merged(files) ==
  LET merged[n \in 0 .. Len(files)] ==
        IF n = 0 THEN NoConfig ELSE Overlay(merged[n - 1], files[n])
  IN merged[Len(files)]
=============================================================================
