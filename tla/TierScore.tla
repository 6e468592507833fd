------------------------------ MODULE TierScore ------------------------------
(***************************************************************************)
(* The average rank of a match: phase 4 turns the rank of each participant *)
(* into a number, averages the numbers, and turns the average back into a  *)
(* tier and a division, with thresholds for the two highest tiers that     *)
(* come from the ranks phase 1 stored for the run.                         *)
(*                                                                         *)
(* Code: internal/crawler/phase4/phase.go, GetApexThresholds of            *)
(* internal/storage/matches.go.  When the average is computed and stored   *)
(* is in MatchPipeline.                                                    *)
(***************************************************************************)
EXTENDS Integers, Sequences

CONSTANTS
  LadderLP,   \* league points below MASTER (0..99 in the game)
  ApexLP,     \* league points from MASTER on
  MaxRows,    \* participants with a rank (at most 10; bound)
  None

ASSUME ScoreAssumption ==
  /\ LadderLP \subseteq 0..99 /\ ApexLP \subseteq Nat
  /\ MaxRows \in Nat

VARIABLES
  snapshots,  \* ranks of CHALLENGER and GRANDMASTER players stored by phase 1
  rows,       \* GetParticipantTiersForMatch
  next, sum,  \* the loop of computeAndStore: next row, sum of the scores
  avg         \* what UpdateAvgTier stores, or None

vars == <<snapshots, rows, next, sum, avg>>

-----------------------------------------------------------------------------
(* Ranks and scores *)

tierBase == [IRON |-> 0, BRONZE |-> 400, SILVER |-> 800, GOLD |-> 1200,
             PLATINUM |-> 1600, EMERALD |-> 2000, DIAMOND |-> 2400,
             MASTER |-> 2800, GRANDMASTER |-> 2800, CHALLENGER |-> 2800]

divisionBonus == [IV |-> 0, III |-> 100, II |-> 200, I |-> 300]

masterBase == 2800
noThreshold == 2147483647

Apex == {"MASTER", "GRANDMASTER", "CHALLENGER"}
Limited == {"GRANDMASTER", "CHALLENGER"}
Ladder == DOMAIN tierBase \ Apex
Division == DOMAIN divisionBonus

\* The ranks the Riot API gives; in the three highest tiers the division is "I".
Rank == [tier : Ladder, division : Division, lp : LadderLP]
          \cup [tier : Apex, division : {"I"}, lp : ApexLP]

Score(r) == tierBase[r.tier] + divisionBonus[r.division] + r.lp

\* GetApexThresholds: the lowest score of a player of the tier, if there is one.
Threshold(t) ==
  LET points == {s.lp : s \in {u \in snapshots : u.tier = t}}
  IN  IF points = {} THEN noThreshold
      ELSE masterBase + CHOOSE lp \in points : \A other \in points : lp <= other

\* The tier with the highest base not above the score.
LadderTier(score) ==
  CHOOSE t \in Ladder :
    /\ tierBase[t] <= score
    /\ \A u \in Ladder : tierBase[u] <= score => tierBase[u] <= tierBase[t]

LadderDivision(offset) ==
  CASE offset < 100 -> "IV" [] offset \in 100..199 -> "III"
    [] offset \in 200..299 -> "II" [] OTHER -> "I"

InLadder(score) ==
  [tier |-> LadderTier(score),
   division |-> LadderDivision(score - tierBase[LadderTier(score)])]

GrandmasterFirst(score) ==                                           \* mutant
  CASE score >= Threshold("GRANDMASTER") -> [tier |-> "GRANDMASTER", division |-> "I"]
    [] score < Threshold("GRANDMASTER") /\ score >= Threshold("CHALLENGER") ->
         [tier |-> "CHALLENGER", division |-> "I"]
    [] OTHER -> IF score >= masterBase THEN [tier |-> "MASTER", division |-> "I"]
                ELSE InLadder(score)

scoreToTier(score) ==
  IF score >= Threshold("CHALLENGER") THEN [tier |-> "CHALLENGER", division |-> "I"]
  ELSE IF score >= Threshold("GRANDMASTER") THEN [tier |-> "GRANDMASTER", division |-> "I"]
  ELSE IF score >= masterBase THEN [tier |-> "MASTER", division |-> "I"]
  ELSE InLadder(score)

OverAllPlayers(total, count) == total \div 10                        \* mutant
Average(total, count) == total \div count

-----------------------------------------------------------------------------
Init == snapshots = {} /\ rows = <<>> /\ next = 1 /\ sum = 0 /\ avg = None

\* Phase 1 stores the rank of a CHALLENGER or GRANDMASTER player.
Snapshot(t, lp) ==
  /\ rows = <<>> /\ avg = None
  /\ snapshots' = snapshots \cup {[tier |-> t, lp |-> lp]}
  /\ UNCHANGED <<rows, next, sum, avg>>

\* Phase 3 or 3.5 finds the rank of a participant.
Participant(r) ==
  /\ next = 1 /\ avg = None /\ Len(rows) < MaxRows
  /\ rows' = Append(rows, r)
  /\ UNCHANGED <<snapshots, next, sum, avg>>

AddScore ==
  /\ next <= Len(rows)
  /\ sum' = sum + Score(rows[next])
  /\ next' = next + 1
  /\ UNCHANGED <<snapshots, rows, avg>>

\* Without a rank the match gets score 0 and no tier.
StoreAverage ==
  /\ next = Len(rows) + 1 /\ avg = None
  /\ avg' = IF rows = <<>> THEN [score |-> 0, tier |-> "", division |-> ""]
            ELSE LET score == Average(sum, Len(rows))
                     rank == scoreToTier(score)
                 IN  [score |-> score, tier |-> rank.tier, division |-> rank.division]
  /\ UNCHANGED <<snapshots, rows, next, sum>>

Next ==
  \/ \E t \in Limited, lp \in ApexLP : Snapshot(t, lp)
  \/ \E r \in Rank : Participant(r)
  \/ AddScore
  \/ StoreAverage

Spec == Init /\ [][Next]_vars

-----------------------------------------------------------------------------
(* Properties *)

Stored == avg # None /\ rows # <<>>

\* Every variable has its type; a match with ranks gets a tier and a division.
TypeOK ==
  /\ snapshots \subseteq [tier : Limited, lp : ApexLP]
  /\ rows \in Seq(Rank) /\ Len(rows) <= MaxRows
  /\ next \in 1..(MaxRows + 1) /\ sum \in Nat
  /\ Stored => avg \in [score : Nat, tier : DOMAIN tierBase, division : Division]

\* Ranks in their order; the division counts below MASTER only.
Level(rank) ==
  CASE rank.tier = "CHALLENGER" -> 3000
    [] rank.tier = "GRANDMASTER" -> 2900
    [] rank.tier = "MASTER" -> 2800
    [] OTHER -> tierBase[rank.tier] + divisionBonus[rank.division]

\* Whatever the thresholds of the run are, even when the lowest CHALLENGER has
\* fewer points than the lowest GRANDMASTER, a higher score is never given a
\* lower rank (phase4/phase.go:128-150).  What a rank is given depends on the
\* snapshots alone, so the states before the first participant are enough.
HigherIsNotRatedLower ==
  rows = <<>> /\ avg = None => \A r, s \in Rank :
    Score(r) <= Score(s) => Level(scoreToTier(Score(r))) <= Level(scoreToTier(Score(s)))

\* A match of players below MASTER is rated between its lowest and its highest
\* player, in spite of the truncated division, and never reaches MASTER.
AverageIsBetween ==
  Stored /\ (\A n \in 1..Len(rows) : rows[n].tier \in Ladder) =>
    /\ \E n \in 1..Len(rows) : Level(rows[n]) <= Level(avg)
    /\ \E n \in 1..Len(rows) : Level(avg) <= Level(rows[n])
=============================================================================
