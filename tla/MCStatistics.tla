---------------------------- MODULE MCStatistics ----------------------------
(***************************************************************************)
(* What the crawler makes of matches: the average of one match (phase 4,   *)
(* TierScore), its items (phases 5 and 5.5, ItemBuild) and the rankings of *)
(* several (RankedMatches).  They share nothing, so items and rankings     *)
(* follow one of the averages only, that of a match without ranks.         *)
(*                                                                         *)
(* Ranks: the ends of a division, and points of the highest tiers that are *)
(* more apart than three divisions.  Items: a component, what it is built  *)
(* into, and boots; sword and boots cost just what a player starts with.   *)
(***************************************************************************)
EXTENDS TierScore, ItemBuild, RankedMatches, TLC

CONSTANTS b1, m1, m2, m3, m4

Ends == {0, 99}
ApexPoints == {0, 400}

Entry(price, from, to, isBoots) ==
  [priceTotal |-> price, from |-> from, to |-> to, boots |-> isBoots,
   skippable |-> FALSE, inStore |-> TRUE, yellowTrinket |-> FALSE]

Sold == [sword |-> Entry(4, {}, {"blade"}, FALSE),
         blade |-> Entry(60, {"sword"}, {}, FALSE),
         greaves |-> Entry(6, {}, {}, TRUE)]

P(c, pos, win) == [champion |-> c, position |-> pos, win |-> win]
M(version, region, tier, players, bans) ==
  [queue |-> 420, version |-> version, region |-> region, tier |-> tier, players |-> players,
   bans |-> bans]

\* A champion in three positions, a player without one and one without a champion.
Played ==
  m1 :> M("v1", "KR", "MASTER", {P(1, "TOP", TRUE), P(2, "JUNGLE", FALSE)}, {3})
  @@ m2 :> M("v2", "NA1", "GRANDMASTER", {P(1, "MIDDLE", FALSE), P(3, "", TRUE)}, {2})
  @@ m3 :> M("v2", "KR", "CHALLENGER", {P(1, "UTILITY", TRUE), P(2, "JUNGLE", TRUE)}, {})
  @@ m4 :> M("v2", "KR", "DIAMOND", {P(0, "TOP", TRUE), P(1, "TOP", TRUE)}, {3, 4})

PhaseInit == Init /\ ItemInit /\ RankInit

\* The phases follow each other; one average is enough to go on with.
PhaseNext ==
  \/ Next /\ UNCHANGED <<itemVars, db>>
  \/ /\ avg # None /\ rows = <<>> /\ snapshots = {}
     /\ \/ db.done = {} /\ ItemNext /\ UNCHANGED <<vars, db>>
        \/ ItemInit /\ RankNext /\ UNCHANGED <<vars, itemVars>>

PhaseSpec == PhaseInit /\ [][PhaseNext]_<<vars, itemVars, db>>
=============================================================================
