---------------------------- MODULE MCLifecycle ----------------------------
(* Three signals of any action, slack that takes messages, pager that      *)
(* resolves by key, and a provider that is configured no more.             *)
EXTENDS Lifecycle, TLC

CONSTANTS s1, s2, s3

Symmetry == Permutations({s1, s2, s3})
=============================================================================
