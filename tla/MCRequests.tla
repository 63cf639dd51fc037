----------------------------- MODULE MCRequests -----------------------------
(* Callers that give a key (short, long, blank) and callers that leave it  *)
(* to the core, with fields that would run together; templates that work,  *)
(* fail and render blank.  A group is kept by environment and DAG.         *)
EXTENDS Requests

None == [f \in Optional |-> <<>>]
Says(source, event, title, severity, action, key) ==
  None @@ [source |-> source, event_type |-> event, title |-> title, severity |-> severity,
           action |-> action, dedup_key |-> key, metadata |-> <<>>]
Fields(source, event, severity, action) ==
  Says(source, event, <<"t">>, severity, action, <<>>)
Keyed(text, severity, action) ==
  Says(<<"a">>, <<"e">>, <<"t", "i">>, severity, action, <<GivenKey(text)>>)
Follows(text, action) == Says(<<>>, <<" ">>, <<>>, "info", action, <<GivenKey(text)>>)
InProd(in, dag) == [in EXCEPT !.environment = <<<<"prod">>>>, !.metadata = [dag |-> dag]]

MCInputs ==
  {Fields(<<"a">>, <<"b", "c">>, "info", "trigger"),
   Fields(<<"a", "b">>, <<"c">>, "info", "trigger"),
   Fields(<<"a">>, <<"b", "c">>, "info", "resolve"),
   Keyed(<<"k", "1", "x">>, "error", "trigger"), Keyed(<<"k", "2", "y">>, "error", "trigger"),
   Keyed(<<"k", "1", "z">>, "error", "trigger"), Keyed(<<" ">>, "info", "trigger"),
   Follows(<<"k", "1", "x">>, "acknowledge"), Follows(<<"k", "1", "x">>, "resolve"),
   Follows(<<"k", "2", "y">>, "resolve"), Follows(<<" ">>, "resolve"),
   InProd(Fields(<<"a">>, <<"b">>, "success", "trigger"), <<"d">>),
   InProd(Fields(<<"b">>, <<"b">>, "warning", "trigger"), <<"d">>)}

Makes(text, json) == [ok |-> TRUE, text |-> text, json |-> json]
Fails == [ok |-> FALSE]
PartNames == {"summary", "message", "text", "title", "subject", "body", "line", "json"}
MCSetups ==
  {[templates |-> <<>>, bot |-> TRUE, prefix |-> <<>>],
   [templates |-> [p \in PartNames |-> Fails], bot |-> FALSE, prefix |-> <<"[ops]">>],
   [templates |-> [p \in PartNames |-> Makes(<<" ", " ">>, FALSE)], bot |-> FALSE, prefix |-> <<>>],
   [templates |-> [p \in PartNames |-> Makes(<<"!">>, FALSE)], bot |-> TRUE, prefix |-> <<>>]}

MCOutages == {{}, {"pagerduty"}, {"opsgenie", "slack"}}
MCBy == <<<<"environment">>, <<"metadata", "dag">>>>
MCRule ==
  [severity |-> {"success", "warning"}, environment |-> <<<<"prod">>>>, source |-> <<>>]
=============================================================================
