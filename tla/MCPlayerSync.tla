---------------------------- MODULE MCPlayerSync ----------------------------
(***************************************************************************)
(* Instances of PlayerSync for TLC.                                        *)
(***************************************************************************)
EXTENDS PlayerSync, TLC

CONSTANTS r1, r2, q1, q2

SamePlayers == Permutations({q1, q2})
SameRuns == Permutations({r1, r2})
Sym == SamePlayers \cup SameRuns
=============================================================================
