----------------------------- MODULE MCCrawlRun -----------------------------
(***************************************************************************)
(* Instances of CrawlRun for TLC: the profiles and flags the runs use.     *)
(***************************************************************************)
EXTENDS CrawlRun, TLC

CONSTANTS p1, p2, i1, i2, kr, gold, iron

Prof(r, e, ts) == [region |-> r, execution |-> e, tiers |-> ts, version |-> None]
Flags(r, e) == [region |-> r, execution |-> e, tiers |-> <<>>, version |-> None]

\* The phases buildRunner wires (cmd/crawl/root.go:86-95) and NewPipelineStrategy
\* repeats, and shorter lists of them.
AllPhases == <<0, 1, 2, 3, 35, 4, 5, 55>>
AllPerTier == <<2, 3, 35, 4, 5, 55>>
SomePhases == <<0, 1, 2, 3, 35, 5>>
SomePerTier == <<2, 3, 35, 5>>
UpToFetch == <<0, 1, 2, 3>>
UpToFetchPerTier == <<2, 3>>

\* One profile of each strategy, with two target tiers.
BothStrategies == {Prof(kr, "sequential", <<gold, iron>>), Prof(kr, "pipeline", <<gold, iron>>)}
SequentialProfile == {Prof(kr, "sequential", <<gold>>)}
PipelineProfile == {Prof(kr, "pipeline", <<gold, iron>>)}
NoFlags == {Flags(None, None)}

SameRuns == Permutations({i1, i2})
SameProcs == Permutations({p1, p2})
Sym == SameRuns \cup SameProcs
=============================================================================
