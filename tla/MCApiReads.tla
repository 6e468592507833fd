----------------------------- MODULE MCApiReads -----------------------------
(***************************************************************************)
(* Instance of ApiReads for TLC: a match of the new version, and queries   *)
(* for its tier, in all versions and in the latest, that share an entry of *)
(* the cache or differ by what a server fills in.                          *)
(***************************************************************************)
EXTENDS ApiReads

CONSTANTS m1, r1, r2, w1, w2

P(c, pos, win) == [champion |-> c, position |-> pos, win |-> win]

MCInfo ==
  m1 :> [queue |-> 420, version |-> "v2", region |-> "KR", tier |-> "MASTER",
         players |-> {P(1, "TOP", TRUE), P(2, "TOP", FALSE)}, bans |-> {3}]

MCVersion == <<"v1", "v2">>

Asked(version, minGames, threshold) ==
  [queue |-> Absent, version |-> version, region |-> Absent, position |-> Absent,
   tier |-> "master_plus", minGames |-> minGames, limit |-> Absent, threshold |-> threshold]

\* GraphQL is asked for the latest version twice: with what the schema fills in (one
\* game), and with nulls, which is what REST v1 is asked for too (20 games, which
\* no champion has).  The two have one entry in the cache, the other a second one.
MCQuery ==
  [v1 |-> {Asked("latest", Absent, Absent)},
   graphql |-> {Asked(Absent, Absent, Absent), Asked(Null, Null, Null)},
   legacy |-> {Asked(Absent, 1, 1000)}]

Sym == Permutations(Request) \cup Permutations(Writer)
=============================================================================
