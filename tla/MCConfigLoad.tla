---------------------------- MODULE MCConfigLoad ----------------------------
(* A shared default (file 1) and a team's file on top of it (file 2), which*)
(* is local or remote.  Edition b of the team's file routes to a provider  *)
(* that only edition b of the default configures.                          *)
EXTENDS ConfigLoad

CONSTANT service

MCLayouts == {{1}, {1, 2}}
MCFits == {<<"a", "a">>, <<"b", "a">>, <<"b", "b">>}
=============================================================================
