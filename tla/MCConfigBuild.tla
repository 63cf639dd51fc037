--------------------------- MODULE MCConfigBuild ---------------------------
(* Three families of worlds: every shape of a small graph of local files,  *)
(* every slip in one file of a few graphs, and a pair of files of every    *)
(* kind of source with every way one may name the other.                   *)
EXTENDS ConfigBuild

Local(segs) == Source("file", <<>>, segs, <<>>, <<>>)
Rel(segs) == Text("", segs, <<>>)

Entry(keys) == [keys |-> keys, useless |-> {}, template |-> {}]
Route(providers) ==
  [providers |-> providers, dedup |-> <<>>, limit |-> <<>>, wait |-> <<>>, by |-> <<>>]
Layer(extends, providers, routes) ==
  [extends |-> extends, strings |-> <<>>, providers |-> providers,
   routes |-> routes, storage |-> <<>>]
Host(roots, files) ==
  [roots |-> roots, files |-> files, clouds |-> {"aws", "azure", "gcp"},
   env |-> {"HOME"}, vault |-> {[store |-> "aws_sm", path |-> <<"x">>, field |-> <<>>]}]

(* r extends a, b and c in some way, and they each other; every file has   *)
(* its own entry for Slack.                                                *)
Names == {"r", "a", "b", "c"}
SlackOf == [r |-> {"webhook_url"}, a |-> {"webhook_url", "api_url"},
            b |-> {"bot_token", "channel"}, c |-> {"bot_token", "channel", "api_url"}]
At(n) == Local(<<"d", n>>)
Start(n) == Rel(<<"d", n>>)
Up(n) == Rel(<<"..", "d", n>>)
Graphs ==
  {[r |-> er, a |-> ea, b |-> eb, c |-> ec] :
     er \in {<<Rel(<<"a">>)>>, <<Rel(<<"a">>), Rel(<<"b">>)>>, <<Up("b"), Rel(<<"a">>)>>,
             <<Rel(<<"b">>), Rel(<<"c">>), Rel(<<"a">>)>>},
     ea \in {<<>>, <<Rel(<<"b">>)>>, <<Up("c"), Rel(<<".", "b">>)>>, <<Up("r")>>},
     eb \in {<<>>, <<Rel(<<"c">>)>>, <<Text("", <<"", "abs">>, <<>>)>>, <<Up("a")>>},
     ec \in {<<>>, <<Rel(<<"r">>)>>, <<Rel(<<"b">>)>>, <<Rel(<<"nowhere">>)>>}}
FileOf(n, extends) ==
  Layer(extends, [slack |-> Entry(SlackOf[n])], <<Route(<<"slack">>), Route(<<"console">>)>>)
Files(g) ==
  [s \in {At(n) : n \in Names} |-> FileOf(s.path[2], g[s.path[2]])]
  @@ (Local(<<"", "abs">>) :> Layer(<<>>, <<>>, <<Route(<<"slack">>)>>))
RootLists ==
  {<<Start("r")>>, <<Start("c"), Start("r")>>, <<Rel(<<".", "d", "c">>), Start("r")>>,
   <<Start("a"), Start("b")>>}
GraphWorlds == {Host(roots, Files(g)) : g \in Graphs, roots \in RootLists}

(* More files than may be loaded.                                          *)
Star ==
  LET leaves == {"1", "2", "3", "4", "5"} IN
  Host(<<Start("r")>>,
    [s \in {At(n) : n \in leaves \union {"r"}} |->
       Layer(IF s = At("r") THEN SetToSeq({Rel(<<n>>) : n \in leaves}) ELSE <<>>, <<>>, <<>>)])

(* What one file may get wrong, or may leave to another.                   *)
Secret(store, path, field) ==
  [kind |-> "secret", ref |-> [store |-> store, path |-> path, field |-> field]]
With(file, strings) == [file EXCEPT !.strings = <<strings>>]
Has(file, name, entry) == [file EXCEPT !.providers = (name :> entry) @@ @]
Routes(file, route) == [file EXCEPT !.routes = <<Route(<<"console">>), route>> \o @]
Templated(t) == [Entry({"webhook_url"}) EXCEPT !.template = {t}]
W(n, unit) == [n |-> n, unit |-> unit]
Timed ==
  LET times == <<W(60, "s"), W(90, "s"), W(1, "m"), W(60, "m"), W(1, "h"), W(24, "h"),
                 W(1, "d"), W(25, "h"), W(200, "d"), W(300, "d")>>
  IN [i \in DOMAIN times |-> [Route(<<"slack">>) EXCEPT !.dedup = <<times[i]>>]]
     \o <<[Route(<<"slack">>) EXCEPT !.limit = <<[max |-> 1, per |-> W(1, "m")]>>],
          [Route(<<"slack">>) EXCEPT !.wait = <<W(1, "m")>>]>>
Variants(file) ==
  {With(file, <<[kind |-> "open"]>>), With(file, <<[kind |-> "var", name |-> "HOME"]>>),
   With(file, <<[kind |-> "text"], [kind |-> "var", name |-> "UNSET"]>>)}
  \union {With(file, <<s>>) :
            s \in {Secret("aws_sm", <<"x">>, <<>>), Secret("aws_sm", <<"y">>, <<>>),
                   Secret("aws_sm", <<"x">>, <<"">>), Secret("gcp_sm", <<"p">>, <<>>),
                   Secret("gcp_sm", <<"projects", "p", "secrets", "s">>, <<>>),
                   Secret("azure_kv", <<"v", "">>, <<>>), Secret("vault", <<"x">>, <<>>)}}
  \union {Has(file, "slack", Entry(k)) :
            k \in {{"bot_token"}, {"webhook_url", "channel"}, {"webhook"}}}
  \union {Has(file, "slack", Templated([part |-> p, compiles |-> TRUE, variables |-> v])) :
            p \in {"text", "body"}, v \in {{"emoji"}, {"emojy"}}}
  \union {Has(file, "email", Entry({"from", "to"} \union k)) :
            k \in {{"smtp", "smtp.username"}, {"smtp"}, {"ses"}, {"smtp", "ses"}}}
  \union {Has(file, "email", [Entry({"from", "to", "smtp"}) EXCEPT !.useless = {"to"}]),
          Has(file, "pagerduty", Entry({"routing_key"})),
          Has(file, "pagerduty", Entry({})), [file EXCEPT !.storage = <<"here">>]}
  \union {Routes(file, Route(p)) : p \in {<<"pagerduty">>, <<>>}}
  \union {Routes(file, [Route(<<"slack">>) EXCEPT !.dedup = <<W(0, "m")>>]),
          Routes(file, [Route(<<"slack">>) EXCEPT !.dedup = <<W(1, "w")>>]),
          Routes(file, [Route(<<"slack">>) EXCEPT !.limit = <<[max |-> 0, per |-> W(1, "s")]>>]),
          [file EXCEPT !.routes = Timed],
          Routes(file, [Route(<<"slack">>) EXCEPT !.by = <<<<"metadata", "k">>, <<"colour">>>>])}
SlipGraphs ==
  {[r |-> <<Rel(<<"a">>), Rel(<<"b">>)>>, a |-> ea, b |-> <<Rel(<<"c">>)>>, c |-> <<>>] :
     ea \in {<<>>, <<Rel(<<"c">>)>>}}
SlipWorlds ==
  UNION {{[Host(<<Start("r")>>, [Files(g) EXCEPT ![At(n)] = v]) EXCEPT !.clouds = c] :
            v \in Variants(FileOf(n, g[n])), c \in {{"aws", "gcp"}, {"gcp"}}} :
         g \in SlipGraphs, n \in {"r", "b", "c"}}

(* A file of every kind, and what it may name.                             *)
Q(name, value) == [name |-> name, value |-> <<value>>]
RemoteTexts ==
  {Text("s3", <<"bucket", "d", "k">>, <<>>), Text("gs", <<"bucket", "k">>, <<>>),
   Text("az", <<"account", "box", "k">>, <<>>),
   Text("https", <<"host", "d", "k">>, <<>>), Text("http", <<"localhost", "k">>, <<>>),
   Text("http", <<"host", "k">>, <<>>),
   Text("appconfig", <<"app", "env", "k">>, <<>>),
   Text("azappconfig", <<"store", "k">>, <<Q("label", "l")>>),
   Text("dynamodb", <<"table", "k">>, <<Q("value", "v"), Q("key", "id")>>),
   Text("dynamodb", <<"table", "k">>, <<Q("label", "v")>>),
   Text("firestore", <<"project", "c", "k">>, <<Q("database", "b"), Q("field", "f")>>),
   Text("cosmos", <<"account", "db", "c", "k">>, <<Q("pk", "p"), Q("field", "f")>>)}
RefTexts ==
  RemoteTexts \union
  {Rel(<<"j">>), Rel(<<"..", "j">>), Rel(<<"e", "j">>), Rel(<<".", "e", "..", "j">>),
   Rel(<<"..", "..", "..", "j">>), Text("", <<"", "etc", "j">>, <<>>),
   Text("", <<"j">>, <<Q("label", "m")>>)}
PairWorld(t, u) ==
  LET root == Parse(t)
      other == Join(root, u)
      files == root :> Layer(<<u>>, <<>>, <<>>)
  IN Host(<<t>>, IF other = NotOne THEN files ELSE files @@ (other :> Layer(<<>>, <<>>, <<>>)))
Bad == {t \in RemoteTexts : Parse(t) = NotOne}
PairWorlds ==
  {[w EXCEPT !.clouds = c] :
     w \in {PairWorld(t, u) : t \in (RemoteTexts \ Bad) \union {Rel(<<"d", "k">>)}, u \in RefTexts},
     c \in {{"aws", "azure", "gcp"}, {"aws"}}}

MCWorlds == GraphWorlds \union {Star} \union SlipWorlds \union PairWorlds
=============================================================================
