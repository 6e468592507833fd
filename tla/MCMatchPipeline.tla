-------------------------- MODULE MCMatchPipeline --------------------------
(***************************************************************************)
(* Instances of MatchPipeline for TLC.                                     *)
(***************************************************************************)
EXTENDS MatchPipeline, TLC

CONSTANTS w1, m1, m2, q1, q2

Sym == Permutations({m1, m2})
=============================================================================
