------------------------------- MODULE MCPlan -------------------------------
(* Every config of up to three routes over three providers: routes of one  *)
(* provider, of the same two in either order, and of two overlapping them. *)
EXTENDS Plan

Lists == {<<"a">>, <<"a", "b">>, <<"b", "a">>, <<"b", "c">>}

Matching ==
  [providers : Lists, fanout : BOOLEAN, matches : {TRUE},
   grouped : BOOLEAN, gated : BOOLEAN]
Other ==
  [providers : {<<"a">>}, fanout : {FALSE}, matches : {FALSE},
   grouped : {FALSE}, gated : {FALSE}]

MCRoutes == Matching \union Other
=============================================================================
