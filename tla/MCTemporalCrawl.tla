-------------------------- MODULE MCTemporalCrawl --------------------------
(***************************************************************************)
(* Instances of TemporalCrawl for TLC.                                     *)
(***************************************************************************)
EXTENDS TemporalCrawl, TLC

CONSTANTS w1, w2, i1, i2, i3, gold, iron, kr, euw

Pipeline == [region |-> kr, execution |-> "pipeline", tiers |-> <<gold, iron>>, version |-> None]
Pinned == [region |-> kr, execution |-> "sequential", tiers |-> <<gold>>, version |-> 1]

Unserved == [region |-> euw, execution |-> "sequential", tiers |-> <<iron>>, version |-> None]

AllProfiles == {Pipeline, Pinned, Unserved}
TwoAttempts == [a \in Activity |-> 2]
Late == <<"Phase3", "Phase35", "Phase4", "Phase5", "Phase55">>
=============================================================================
