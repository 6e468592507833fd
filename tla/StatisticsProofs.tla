-------------------------- MODULE StatisticsProofs ---------------------------
(***************************************************************************)
(* What phases 4 and 5 make of a match, for every catalog, any number of   *)
(* players, participants, shop events and thresholds.                      *)
(*                                                                         *)
(* Ranks (TierScore).  The lemmas say what scoreToTier gives: below MASTER *)
(* the level of a rank is its score rounded down to a division             *)
(* (LevelInLadder), and from there on the thresholds decide, which are     *)
(* never below MASTER.  The invariant SumIsBetween bounds the sum of the   *)
(* loop by the scores it has read.                                         *)
(*                                                                         *)
(* Items (ItemBuild).  The code knows an item only by its kind: a sale or  *)
(* an undo marks the latest pending purchase of that kind.  The invariant  *)
(* ItemInv says why that is enough for the items nothing is built from.    *)
(* Pending is the live rows in order (PendingOK).  Such an item is never   *)
(* used up, so whatever is bought and not sold above its purchase is held  *)
(* (FinalOK), and counts of kept rows and held items move together         *)
(* (CountsOK).  While nothing was sold, what the shop can undo is the end  *)
(* of pending (StackOK), so the row that is marked is the very purchase    *)
(* that is undone.                                                         *)
(***************************************************************************)
EXTENDS TierScore, ItemBuild, SequenceTheorems, FiniteSetTheorems,
        WellFoundedInduction, TLAPS

-----------------------------------------------------------------------------
(* The ladder *)

LEMMA LadderFacts ==
  /\ DOMAIN tierBase = Ladder \cup Apex
  /\ Ladder = {"IRON", "BRONZE", "SILVER", "GOLD", "PLATINUM", "EMERALD", "DIAMOND"}
  /\ tierBase["IRON"] = 0 /\ tierBase["BRONZE"] = 400 /\ tierBase["SILVER"] = 800
  /\ tierBase["GOLD"] = 1200 /\ tierBase["PLATINUM"] = 1600 /\ tierBase["EMERALD"] = 2000
  /\ tierBase["DIAMOND"] = 2400
  /\ \A t \in Apex : tierBase[t] = masterBase
  /\ Division = {"IV", "III", "II", "I"}
  /\ divisionBonus["IV"] = 0 /\ divisionBonus["III"] = 100
  /\ divisionBonus["II"] = 200 /\ divisionBonus["I"] = 300
BY DEF Ladder, Apex, tierBase, Division, divisionBonus, masterBase

LEMMA LadderTierFacts ==
  ASSUME NEW s \in 0 .. (masterBase - 1)
  PROVE  /\ LadderTier(s) \in Ladder
         /\ tierBase[LadderTier(s)] <= s /\ s < tierBase[LadderTier(s)] + 400
<1> DEFINE Best(t) == /\ tierBase[t] <= s
                      /\ \A u \in Ladder : tierBase[u] <= s => tierBase[u] <= tierBase[t]
<1>1. \E t \in Ladder : tierBase[t] <= s /\ s < tierBase[t] + 400
  <2>0. s \in Int /\ 0 <= s /\ s < 2800
    BY DEF masterBase
  <2>1. CASE s < 400
    BY <2>0, <2>1, LadderFacts
  <2>2. CASE 400 <= s /\ s < 800
    BY <2>0, <2>2, LadderFacts
  <2>3. CASE 800 <= s /\ s < 1200
    BY <2>0, <2>3, LadderFacts
  <2>4. CASE 1200 <= s /\ s < 1600
    BY <2>0, <2>4, LadderFacts
  <2>5. CASE 1600 <= s /\ s < 2000
    BY <2>0, <2>5, LadderFacts
  <2>6. CASE 2000 <= s /\ s < 2400
    BY <2>0, <2>6, LadderFacts
  <2>7. CASE 2400 <= s
    BY <2>0, <2>7, LadderFacts
  <2> QED
    BY <2>0, <2>1, <2>2, <2>3, <2>4, <2>5, <2>6, <2>7
<1>2. PICK t \in Ladder : tierBase[t] <= s /\ s < tierBase[t] + 400
  BY <1>1
<1>3. Best(t)
  BY <1>2, LadderFacts
<1>4. LadderTier(s) \in Ladder /\ Best(LadderTier(s))
  <2>1. LadderTier(s) = CHOOSE u \in Ladder : Best(u)
    BY DEF LadderTier
  <2> HIDE DEF Best
  <2> QED
    BY <1>3, <2>1
<1>5. tierBase[LadderTier(s)] >= tierBase[t]
  BY <1>2, <1>4
<1> QED
  BY <1>2, <1>4, <1>5, LadderFacts

LEMMA LadderDivisionFacts ==
  ASSUME NEW offset \in 0 .. 399
  PROVE  /\ offset < 100 => LadderDivision(offset) = "IV"
         /\ offset \in 100 .. 199 => LadderDivision(offset) = "III"
         /\ offset \in 200 .. 299 => LadderDivision(offset) = "II"
         /\ offset \in 300 .. 399 => LadderDivision(offset) = "I"
<1>1. offset < 100 => LadderDivision(offset) = "IV"
  BY DEF LadderDivision
<1>2. offset \in 100 .. 199 => LadderDivision(offset) = "III"
  BY DEF LadderDivision
<1>3. offset \in 200 .. 299 => LadderDivision(offset) = "II"
  BY DEF LadderDivision
<1>4. offset \in 300 .. 399 => LadderDivision(offset) = "I"
  BY DEF LadderDivision
<1> QED
  BY <1>1, <1>2, <1>3, <1>4

\* The offset in a tier tells the division, the score the level.
LEMMA LevelInLadder ==
  ASSUME NEW s \in 0 .. (masterBase - 1)
  PROVE  /\ InLadder(s).tier \in Ladder /\ InLadder(s).division \in Division
         /\ Level(InLadder(s)) = 100 * (s \div 100)
         /\ Level(InLadder(s)) \in 0 .. (masterBase - 100)
<1> DEFINE t == LadderTier(s)
           offset == s - tierBase[t]
           d == LadderDivision(offset)
<1>1. t \in Ladder /\ tierBase[t] <= s /\ s < tierBase[t] + 400
  BY LadderTierFacts
<1>2. \E k \in 0 .. 6 : tierBase[t] = 400 * k
  BY <1>1, LadderFacts
<1>3. s \in Int /\ tierBase[t] \in Int /\ offset \in 0 .. 399
  BY <1>1, <1>2 DEF masterBase
<1>4. /\ offset < 100 => d = "IV"
      /\ offset \in 100 .. 199 => d = "III"
      /\ offset \in 200 .. 299 => d = "II"
      /\ offset \in 300 .. 399 => d = "I"
  BY <1>3, LadderDivisionFacts
<1>5. InLadder(s).tier = t /\ InLadder(s).division = d
  BY DEF InLadder
<1>6. d \in Division
  BY <1>3, <1>4, LadderFacts
<1>7. Level(InLadder(s)) = tierBase[t] + divisionBonus[d]
  BY <1>1, <1>5, LadderFacts DEF Level
<1>8. \E k \in 0 .. 3 : divisionBonus[d] = 100 * k /\ 100 * k <= offset /\ offset < 100 * k + 100
  <2> HIDE DEF offset, d
  <2>1. CASE offset < 100
    BY <1>3, <1>4, <2>1, LadderFacts
  <2>2. CASE offset \in 100 .. 199
    BY <1>3, <1>4, <2>2, LadderFacts
  <2>3. CASE offset \in 200 .. 299
    BY <1>3, <1>4, <2>3, LadderFacts
  <2>4. CASE offset \in 300 .. 399
    BY <1>3, <1>4, <2>4, LadderFacts
  <2> QED
    BY <1>3, <2>1, <2>2, <2>3, <2>4
<1>9. PICK k \in 0 .. 6, m \in 0 .. 3 :
        /\ tierBase[t] = 400 * k /\ divisionBonus[d] = 100 * m
        /\ 100 * m <= offset /\ offset < 100 * m + 100
  BY <1>2, <1>8
<1>10. Level(InLadder(s)) = 400 * k + 100 * m
  BY <1>7, <1>9
<1>11. 400 * k + 100 * m <= s /\ s < 400 * k + 100 * m + 100
  BY <1>3, <1>9
<1>12. s \div 100 = 4 * k + m
  BY <1>3, <1>11
<1> QED
  BY <1>1, <1>5, <1>6, <1>10, <1>12 DEF masterBase
-----------------------------------------------------------------------------
(* Thresholds *)

Points(t) == {s.lp : s \in {u \in snapshots : u.tier = t}}

\* The points phase 1 stored of a tier have a lowest one.
HasLowest(t) == Points(t) = {} \/ \E lp \in Points(t) : \A other \in Points(t) : lp <= other

SnapshotsOK ==
  /\ snapshots \subseteq [tier : Limited, lp : ApexLP]
  /\ \A t \in Limited : HasLowest(t)

LEMMA ThresholdFacts ==
  ASSUME SnapshotsOK, NEW t \in Limited
  PROVE  Threshold(t) \in Nat /\ Threshold(t) >= masterBase
<1>1. Threshold(t) = IF Points(t) = {} THEN noThreshold
                     ELSE masterBase + CHOOSE lp \in Points(t) : \A other \in Points(t) : lp <= other
  BY DEF Threshold, Points
<1>2. Points(t) \subseteq Nat
  BY ScoreAssumption DEF SnapshotsOK, Points, ScoreAssumption
<1>3. CASE Points(t) = {}
  BY <1>1, <1>3 DEF noThreshold, masterBase
<1>4. CASE Points(t) # {}
  <2> DEFINE lowest == CHOOSE lp \in Points(t) : \A other \in Points(t) : lp <= other
  <2>1. lowest \in Points(t)
    BY <1>4 DEF SnapshotsOK, HasLowest
  <2>2. lowest \in Nat
    BY <1>2, <2>1
  <2>3. Threshold(t) = masterBase + lowest
    BY <1>1, <1>4
  <2> QED
    BY <2>2, <2>3 DEF masterBase
<1> QED
  BY <1>3, <1>4

-----------------------------------------------------------------------------
(* Scores and the ranks they are given *)

LEMMA ScoreFacts ==
  ASSUME NEW r \in Rank
  PROVE  /\ Score(r) \in Nat
         /\ r.tier \in Ladder => Score(r) < masterBase /\ Level(r) = 100 * (Score(r) \div 100)
<1>1. CASE r \in [tier : Apex, division : {"I"}, lp : ApexLP]
  <2>0. r.tier \in Apex /\ r.division = "I" /\ r.lp \in Nat
    BY <1>1, ScoreAssumption DEF ScoreAssumption
  <2>1. r.lp \in Nat /\ tierBase[r.tier] = 2800 /\ divisionBonus[r.division] = 300
    BY <2>0, LadderFacts DEF masterBase
  <2>2. r.tier \notin Ladder
    BY <1>1 DEF Ladder
  <2> QED
    BY <2>1, <2>2 DEF Score
<1>2. CASE r \in [tier : Ladder, division : Division, lp : LadderLP]
  <2>1. r.tier \in Ladder /\ r.division \in Division /\ r.lp \in 0 .. 99
    BY <1>2, ScoreAssumption DEF ScoreAssumption
  <2>2. PICK k \in 0 .. 6 : tierBase[r.tier] = 400 * k
    BY <2>1, LadderFacts
  <2>3. PICK m \in 0 .. 3 : divisionBonus[r.division] = 100 * m
    BY <2>1, LadderFacts
  <2>4. Score(r) = 400 * k + 100 * m + r.lp
    BY <2>2, <2>3 DEF Score
  <2>5. Level(r) = 400 * k + 100 * m
    BY <2>1, <2>2, <2>3, LadderFacts DEF Level
  <2>6. Score(r) \in Nat /\ Score(r) < 2800
    BY <2>1, <2>4
  <2>7. Score(r) \div 100 = 4 * k + m
    BY <2>1, <2>4
  <2> QED
    BY <2>5, <2>6, <2>7 DEF masterBase
<1> QED
  BY <1>1, <1>2 DEF Rank

\* From the top: the thresholds first, then MASTER, then the ladder.
LEMMA LevelOfScore ==
  ASSUME SnapshotsOK, NEW s \in Nat
  PROVE  /\ s >= Threshold("CHALLENGER") => Level(scoreToTier(s)) = 3000
         /\ s < Threshold("CHALLENGER") /\ s >= Threshold("GRANDMASTER")
              => Level(scoreToTier(s)) = 2900
         /\ s < Threshold("CHALLENGER") /\ s < Threshold("GRANDMASTER") /\ s >= masterBase
              => Level(scoreToTier(s)) = 2800
         /\ s < masterBase => Level(scoreToTier(s)) = 100 * (s \div 100)
         /\ scoreToTier(s).tier \in DOMAIN tierBase /\ scoreToTier(s).division \in Division
<1> DEFINE c == Threshold("CHALLENGER")
           g == Threshold("GRANDMASTER")
<1>1. c \in Nat /\ c >= masterBase /\ g \in Nat /\ g >= masterBase /\ masterBase \in Nat
  BY ThresholdFacts DEF Limited, masterBase
<1> HIDE DEF c, g
<1>2. scoreToTier(s) =
        IF s >= c THEN [tier |-> "CHALLENGER", division |-> "I"]
        ELSE IF s >= g THEN [tier |-> "GRANDMASTER", division |-> "I"]
        ELSE IF s >= masterBase THEN [tier |-> "MASTER", division |-> "I"]
        ELSE InLadder(s)
  BY DEF scoreToTier, c, g
<1>3. {"CHALLENGER", "GRANDMASTER", "MASTER"} \subseteq DOMAIN tierBase /\ "I" \in Division
  BY LadderFacts DEF Apex
<1>4. CASE s >= c
  BY <1>1, <1>2, <1>3, <1>4 DEF Level, c, g
<1>5. CASE s < c /\ s >= g
  BY <1>1, <1>2, <1>3, <1>5 DEF Level, c, g
<1>6. CASE s < c /\ s < g /\ s >= masterBase
  BY <1>1, <1>2, <1>3, <1>6 DEF Level, c, g
<1>7. CASE s < masterBase
  <2>1. scoreToTier(s) = InLadder(s)
    BY <1>1, <1>2, <1>7
  <2>2. s \in 0 .. (masterBase - 1)
    BY <1>1, <1>7
  <2> QED
    BY <1>1, <1>7, <2>1, <2>2, LevelInLadder, LadderFacts DEF c, g
<1> QED
  BY <1>1, <1>4, <1>5, <1>6, <1>7

LEMMA LevelIsMonotone ==
  ASSUME SnapshotsOK, NEW a \in Nat, NEW b \in Nat, a <= b
  PROVE  Level(scoreToTier(a)) <= Level(scoreToTier(b))
<1> DEFINE c == Threshold("CHALLENGER")
           g == Threshold("GRANDMASTER")
           la == Level(scoreToTier(a))
           lb == Level(scoreToTier(b))
<1>1. c \in Nat /\ c >= 2800 /\ g \in Nat /\ g >= 2800
  BY ThresholdFacts DEF Limited, masterBase
<1>2. /\ a >= c => la = 3000
      /\ a < c /\ a >= g => la = 2900
      /\ a < c /\ a < g /\ a >= 2800 => la = 2800
      /\ a < 2800 => la = 100 * (a \div 100)
  BY LevelOfScore DEF masterBase
<1>3. /\ b >= c => lb = 3000
      /\ b < c /\ b >= g => lb = 2900
      /\ b < c /\ b < g /\ b >= 2800 => lb = 2800
      /\ b < 2800 => lb = 100 * (b \div 100)
  BY LevelOfScore DEF masterBase
<1> DEFINE qa == a \div 100
           qb == b \div 100
<1>4. qa \in Nat /\ qb \in Nat /\ (a < 2800 => qa < 28)
  OBVIOUS
<1>5. qa <= qb
  OBVIOUS
<1>6. (a < 2800 => la = 100 * qa) /\ (b < 2800 => lb = 100 * qb)
  BY <1>2, <1>3
<1>7. SUFFICES la <= lb
  OBVIOUS
<1> HIDE DEF c, g, la, lb, qa, qb
<1>8. CASE b < 2800
  BY <1>4, <1>5, <1>6, <1>8
<1>9. CASE b >= 2800 /\ a < 2800
  BY <1>1, <1>3, <1>4, <1>6, <1>9
<1>10. CASE a >= 2800
  BY <1>1, <1>2, <1>3, <1>10
<1> QED
  BY <1>8, <1>9, <1>10
-----------------------------------------------------------------------------
(* The loop *)

\* The sum lies between the lowest and the highest score read so far, times
\* the number of scores.
SumIsBetween ==
  /\ next <= Len(rows) + 1
  /\ \A low \in Nat :
       (\A m \in 1 .. (next - 1) : Score(rows[m]) >= low) => sum >= (next - 1) * low
  /\ \A high \in Nat :
       (\A m \in 1 .. (next - 1) : Score(rows[m]) <= high) => sum <= (next - 1) * high

Inv == TypeOK /\ SnapshotsOK /\ SumIsBetween /\ AverageIsBetween

LEMMA InitInv == Init => Inv
<1> SUFFICES ASSUME Init PROVE Inv
  OBVIOUS
<1> USE DEF Init
<1>1. TypeOK
  <2>1. rows \in Seq(Rank) /\ Len(rows) = 0
    OBVIOUS
  <2> QED
    BY <2>1, ScoreAssumption DEF TypeOK, Stored, ScoreAssumption
<1>2. SnapshotsOK
  BY DEF SnapshotsOK, HasLowest, Points
<1>3. SumIsBetween
  BY DEF SumIsBetween
<1>4. AverageIsBetween
  BY DEF AverageIsBetween, Stored
<1> QED
  BY <1>1, <1>2, <1>3, <1>4 DEF Inv

\* A new point is the lowest one of its tier, or another one still is.
LEMMA SnapshotStep ==
  ASSUME Inv, NEW t \in Limited, NEW lp \in ApexLP, Snapshot(t, lp)
  PROVE  Inv'
<1> DEFINE new == [tier |-> t, lp |-> lp]
<1>1. snapshots' = snapshots \cup {new} /\ UNCHANGED <<rows, next, sum, avg>> /\ avg = None
  BY DEF Snapshot
<1>2. snapshots' \subseteq [tier : Limited, lp : ApexLP]
  BY <1>1 DEF Inv, SnapshotsOK
<1>3. TypeOK'
  BY <1>1, <1>2 DEF Inv, TypeOK, Stored
<1>4. ASSUME NEW u \in Limited PROVE HasLowest(u)'
  <2>1. Points(u)' = IF u = t THEN Points(u) \cup {lp} ELSE Points(u)
    <3>1. new.tier = t /\ new.lp = lp
      OBVIOUS
    <3>2. {s \in snapshots' : s.tier = u}
            = IF u = t THEN {s \in snapshots : s.tier = u} \cup {new}
              ELSE {s \in snapshots : s.tier = u}
      BY <1>1, <3>1
    <3> HIDE DEF new
    <3>3. CASE u = t
      BY <3>1, <3>2, <3>3 DEF Points
    <3>4. CASE u # t
      BY <3>2, <3>4 DEF Points
    <3> QED
      BY <3>3, <3>4
  <2>2. Points(u) \subseteq Nat /\ lp \in Nat
    BY ScoreAssumption DEF Inv, SnapshotsOK, Points, ScoreAssumption
  <2>3. HasLowest(u)
    BY DEF Inv, SnapshotsOK
  <2>4. CASE u # t
    BY <2>1, <2>3, <2>4 DEF HasLowest
  <2>5. CASE u = t /\ Points(u) = {}
    BY <2>1, <2>2, <2>5 DEF HasLowest
  <2>6. CASE u = t /\ Points(u) # {}
    <3>1. PICK l \in Points(u) : \A other \in Points(u) : l <= other
      BY <2>3, <2>6 DEF HasLowest
    <3>2. CASE l <= lp
      <4>1. l \in Points(u)' /\ \A other \in Points(u)' : l <= other
        BY <2>1, <2>2, <2>6, <3>1, <3>2
      <4> QED
        BY <4>1 DEF HasLowest
    <3>3. CASE lp < l
      <4>1. lp \in Points(u)' /\ \A other \in Points(u)' : lp <= other
        BY <2>1, <2>2, <2>6, <3>1, <3>3
      <4> QED
        BY <4>1 DEF HasLowest
    <3> QED
      BY <2>2, <3>1, <3>2, <3>3
  <2> QED
    BY <2>4, <2>5, <2>6
<1>5. SumIsBetween' /\ AverageIsBetween'
  BY <1>1 DEF Inv, SumIsBetween, AverageIsBetween, Stored
<1> QED
  BY <1>2, <1>3, <1>4, <1>5 DEF Inv, SnapshotsOK

LEMMA ParticipantStep ==
  ASSUME Inv, NEW r \in Rank, Participant(r)
  PROVE  Inv'
<1>1. /\ rows' = Append(rows, r) /\ UNCHANGED <<snapshots, next, sum, avg>>
      /\ next = 1 /\ avg = None /\ Len(rows) < MaxRows
  BY DEF Participant
<1>2. rows' \in Seq(Rank) /\ Len(rows') = Len(rows) + 1 /\ Len(rows) \in Nat
  BY <1>1 DEF Inv, TypeOK
<1>3. TypeOK'
  BY <1>1, <1>2, ScoreAssumption DEF Inv, TypeOK, Stored, ScoreAssumption
<1>4. SnapshotsOK'
  BY <1>1 DEF Inv, SnapshotsOK, HasLowest, Points
<1>5. SumIsBetween'
  <2>1. 1 .. (next - 1) = {} /\ (next - 1) = 0
    BY <1>1
  <2>2. sum <= 0 /\ sum \in Nat
    BY <2>1 DEF Inv, SumIsBetween, TypeOK
  <2> QED
    BY <1>1, <1>2, <2>1, <2>2 DEF SumIsBetween
<1>6. AverageIsBetween'
  BY <1>1 DEF AverageIsBetween, Stored
<1> QED
  BY <1>3, <1>4, <1>5, <1>6 DEF Inv

LEMMA AddScoreStep ==
  ASSUME Inv, AddScore
  PROVE  Inv'
<1>1. /\ next <= Len(rows) /\ sum' = sum + Score(rows[next]) /\ next' = next + 1
      /\ UNCHANGED <<snapshots, rows, avg>>
  BY DEF AddScore
<1>2. /\ next \in Nat /\ next >= 1 /\ Len(rows) \in Nat /\ Len(rows) <= MaxRows /\ MaxRows \in Nat
      /\ sum \in Nat
  BY ScoreAssumption DEF Inv, TypeOK, ScoreAssumption
<1>3. rows[next] \in Rank
  BY <1>1, <1>2 DEF Inv, TypeOK
<1>4. Score(rows[next]) \in Nat
  BY <1>3, ScoreFacts
<1>5. TypeOK'
  BY <1>1, <1>2, <1>4 DEF Inv, TypeOK, Stored
<1>6. SnapshotsOK' /\ AverageIsBetween'
  BY <1>1 DEF Inv, SnapshotsOK, HasLowest, Points, AverageIsBetween, Stored
<1>7. SumIsBetween'
  <2>1. ASSUME NEW low \in Nat, \A m \in 1 .. next : Score(rows[m]) >= low
        PROVE  sum + Score(rows[next]) >= next * low
    <3>1. sum >= (next - 1) * low
      BY <1>2, <2>1 DEF Inv, SumIsBetween
    <3>2. Score(rows[next]) >= low
      BY <1>2, <2>1
    <3>3. next * low = (next - 1) * low + low
      BY <1>2
    <3>4. (next - 1) * low \in Nat
      BY <1>2
    <3> QED
      BY <1>2, <1>4, <3>1, <3>2, <3>3, <3>4
  <2>2. ASSUME NEW high \in Nat, \A m \in 1 .. next : Score(rows[m]) <= high
        PROVE  sum + Score(rows[next]) <= next * high
    <3>1. sum <= (next - 1) * high
      BY <1>2, <2>2 DEF Inv, SumIsBetween
    <3>2. Score(rows[next]) <= high
      BY <1>2, <2>2
    <3>3. next * high = (next - 1) * high + high
      BY <1>2
    <3>4. (next - 1) * high \in Nat
      BY <1>2
    <3> QED
      BY <1>2, <1>4, <3>1, <3>2, <3>3, <3>4
  <2>3. next' - 1 = next /\ next' <= Len(rows') + 1
    BY <1>1, <1>2
  <2>4. ASSUME NEW m \in 1 .. next PROVE Score(rows[m])' = Score(rows[m])
    BY <1>1 DEF Score
  <2> QED
    BY <1>1, <2>1, <2>2, <2>3, <2>4 DEF SumIsBetween
<1> QED
  BY <1>5, <1>6, <1>7 DEF Inv

\* Truncation keeps the average between the bounds of the scores.
LEMMA AverageFacts ==
  ASSUME NEW total \in Nat, NEW count \in Nat, count > 0
  PROVE  /\ Average(total, count) \in Nat
         /\ \A low \in Nat : total >= count * low => Average(total, count) >= low
         /\ \A high \in Nat : total <= count * high => Average(total, count) <= high
<1> DEFINE a == total \div count
<1>1. a \in Nat /\ count * a <= total /\ total < count * (a + 1)
  OBVIOUS
<1> HIDE DEF a
<1>2. ASSUME NEW low \in Nat, total >= count * low PROVE a >= low
  <2>1. SUFFICES ASSUME a + 1 <= low PROVE FALSE
    BY <1>1
  <2>2. count * (a + 1) <= count * low
    BY <1>1, <2>1
  <2> QED
    BY <1>1, <1>2, <2>2
<1>3. ASSUME NEW high \in Nat, total <= count * high PROVE a <= high
  <2>1. SUFFICES ASSUME high + 1 <= a PROVE FALSE
    BY <1>1
  <2>2. count * (high + 1) <= count * a
    BY <1>1, <2>1
  <2>3. count * (high + 1) = count * high + count
    OBVIOUS
  <2> QED
    BY <1>1, <1>3, <2>2, <2>3
<1> QED
  BY <1>1, <1>2, <1>3 DEF Average, a

LEMMA StoreAverageStep ==
  ASSUME Inv, StoreAverage
  PROVE  Inv'
<1> DEFINE score == Average(sum, Len(rows))
           rank == scoreToTier(score)
<1>1. /\ next = Len(rows) + 1 /\ avg = None /\ UNCHANGED <<snapshots, rows, next, sum>>
      /\ Len(rows) \in Nat /\ sum \in Nat
  <2>1. next = Len(rows) + 1 /\ avg = None /\ UNCHANGED <<snapshots, rows, next, sum>>
    BY DEF StoreAverage
  <2>2. Len(rows) \in Nat /\ sum \in Nat
    BY DEF Inv, TypeOK
  <2> QED
    BY <2>1, <2>2
<1>2. rows # <<>> => avg' = [score |-> score, tier |-> rank.tier, division |-> rank.division]
  BY DEF StoreAverage
<1>3. rows # <<>> => Len(rows) > 0
  BY DEF Inv, TypeOK
<1>4. rows # <<>> =>
        /\ score \in Nat
        /\ \A low \in Nat : sum >= Len(rows) * low => score >= low
        /\ \A high \in Nat : sum <= Len(rows) * high => score <= high
  BY <1>1, <1>3, AverageFacts
<1>5. SnapshotsOK /\ SnapshotsOK' /\ SumIsBetween'
  BY <1>1 DEF Inv, SnapshotsOK, SumIsBetween, HasLowest, Points
<1>6. rows # <<>> => rank.tier \in DOMAIN tierBase /\ rank.division \in Division
  BY <1>4, <1>5, LevelOfScore
<1>7. TypeOK'
  BY <1>1, <1>2, <1>4, <1>6 DEF Inv, TypeOK, Stored
<1>8. ASSUME rows # <<>>, \A n \in 1 .. Len(rows) : rows[n].tier \in Ladder
      PROVE  /\ \E n \in 1 .. Len(rows) : Level(rows[n]) <= Level(avg')
             /\ \E n \in 1 .. Len(rows) : Level(avg') <= Level(rows[n])
  <2> DEFINE Sc(n) == Score(rows[n])
             q == score \div 100
  <2>1. ASSUME NEW n \in 1 .. Len(rows)
        PROVE  Sc(n) \in Nat /\ Sc(n) < 2800 /\ Level(rows[n]) = 100 * (Sc(n) \div 100)
    <3>1. rows[n] \in Rank
      BY DEF Inv, TypeOK
    <3> QED
      BY <1>8, <3>1, ScoreFacts DEF masterBase
  <2>2. /\ \A low \in Nat : (\A n \in 1 .. Len(rows) : Sc(n) >= low) => score >= low
        /\ \A high \in Nat : (\A n \in 1 .. Len(rows) : Sc(n) <= high) => score <= high
    <3>1. next - 1 = Len(rows)
      BY <1>1
    <3>2. /\ \A low \in Nat :
               (\A m \in 1 .. Len(rows) : Score(rows[m]) >= low) => sum >= Len(rows) * low
          /\ \A high \in Nat :
               (\A m \in 1 .. Len(rows) : Score(rows[m]) <= high) => sum <= Len(rows) * high
      BY <3>1 DEF Inv, SumIsBetween
    <3> QED
      BY <1>4, <1>8, <3>2
  <2>3. score \in Nat /\ score < 2800
    <3>1. \A n \in 1 .. Len(rows) : Sc(n) <= 2799
      BY <2>1
    <3>2. score \in Nat
      BY <1>4, <1>8
    <3> HIDE DEF Sc, score
    <3>3. score <= 2799
      BY <2>2, <3>1
    <3> QED
      BY <3>2, <3>3
  <2>4. Level(rank) = 100 * q
    BY <1>5, <2>3, LevelOfScore DEF masterBase
  <2>5. Level(avg') = Level(rank)
    <3>1. avg'.tier = rank.tier /\ avg'.division = rank.division
      BY <1>2, <1>8
    <3> QED
      BY <3>1 DEF Level
  <2>6. q \in Nat /\ 100 * q <= score /\ score < 100 * q + 100
    BY <2>3
  <2> HIDE DEF Sc, q, score, rank
  <2>7. \E n \in 1 .. Len(rows) : Level(rows[n]) <= 100 * q
    <3>1. SUFFICES ASSUME \A n \in 1 .. Len(rows) : ~(Level(rows[n]) <= 100 * q) PROVE FALSE
      OBVIOUS
    <3>2. ASSUME NEW n \in 1 .. Len(rows) PROVE Sc(n) >= 100 * q + 100
      <4>1. PICK s \in Nat : s = Sc(n) /\ ~(100 * (s \div 100) <= 100 * q)
        BY <2>1, <3>1
      <4>2. s >= 100 * q + 100
        BY <2>6, <4>1
      <4> QED
        BY <4>1, <4>2
    <3>3. score >= 100 * q + 100
      BY <2>2, <2>6, <3>2
    <3> QED
      BY <2>3, <2>6, <3>3
  <2>8. \E n \in 1 .. Len(rows) : 100 * q <= Level(rows[n])
    <3>1. SUFFICES ASSUME \A n \in 1 .. Len(rows) : ~(100 * q <= Level(rows[n])) PROVE FALSE
      OBVIOUS
    <3>2. ASSUME NEW n \in 1 .. Len(rows) PROVE q > 0 /\ Sc(n) <= 100 * q - 1
      <4>1. PICK s \in Nat : s = Sc(n) /\ ~(100 * q <= 100 * (s \div 100))
        BY <2>1, <3>1
      <4>2. q > 0 /\ s <= 100 * q - 1
        BY <2>6, <4>1
      <4> QED
        BY <4>1, <4>2
    <3>3. q > 0
      BY <1>1, <1>3, <1>8, <3>2
    <3>4. score <= 100 * q - 1
      BY <2>2, <2>6, <3>2, <3>3
    <3> QED
      BY <2>3, <2>6, <3>4
  <2> QED
    BY <2>4, <2>5, <2>7, <2>8
<1>9. AverageIsBetween'
  <2>1. SUFFICES ASSUME rows' # <<>>, \A n \in 1 .. Len(rows') : rows'[n].tier \in Ladder
                 PROVE  /\ \E n \in 1 .. Len(rows') : Level(rows'[n]) <= Level(avg')
                        /\ \E n \in 1 .. Len(rows') : Level(avg') <= Level(rows'[n])
    BY DEF AverageIsBetween, Stored, Level
  <2> QED
    BY <1>1, <1>8, <2>1
<1> QED
  BY <1>5, <1>7, <1>9 DEF Inv

LEMMA StepInv == Inv /\ [Next]_vars => Inv'
<1> SUFFICES ASSUME Inv, [Next]_vars PROVE Inv'
  OBVIOUS
<1>1. CASE UNCHANGED vars
  BY <1>1 DEF vars, Inv, TypeOK, SnapshotsOK, HasLowest, Points, SumIsBetween, AverageIsBetween, Stored
<1>2. CASE Next
  BY <1>2, SnapshotStep, ParticipantStep, AddScoreStep, StoreAverageStep DEF Next
<1> QED
  BY <1>1, <1>2

LEMMA Invariant == Spec => []Inv
<1> QED
  BY InitInv, StepInv, PTL DEF Spec

-----------------------------------------------------------------------------
(* Theorems *)

\* Type correctness, for any number of participants and any league points: a
\* match with ranks is stored with a score, a tier and a division.
THEOREM TypeCorrect == Spec => []TypeOK
<1>1. Inv => TypeOK
  BY DEF Inv
<1> QED
  BY <1>1, Invariant, PTL

\* A higher score is never rated lower, whatever the points of the CHALLENGER
\* and GRANDMASTER players are (scoreToTier and GetApexThresholds).
THEOREM HigherRatesHigher == Spec => []HigherIsNotRatedLower
<1>1. Inv => HigherIsNotRatedLower
  <2> SUFFICES ASSUME SnapshotsOK, NEW r \in Rank, NEW s \in Rank, Score(r) <= Score(s)
               PROVE  Level(scoreToTier(Score(r))) <= Level(scoreToTier(Score(s)))
    BY DEF Inv, HigherIsNotRatedLower
  <2> QED
    BY ScoreFacts, LevelIsMonotone
<1> QED
  BY <1>1, Invariant, PTL

\* The stored average of players below MASTER lies between the lowest and the
\* highest of them, for any number of participants (computeAndStore).
THEOREM AveragesAreBetween == Spec => []AverageIsBetween
<1>1. Inv => AverageIsBetween
  BY DEF Inv
<1> QED
  BY <1>1, Invariant, PTL

-----------------------------------------------------------------------------
(* Sequences *)

\* A set of positions that is not empty has a greatest one.
LEMMA GreatestExists ==
  ASSUME NEW L \in Nat, NEW T \in SUBSET (1 .. L), T # {}
  PROVE  \E m \in T : \A n \in T : n <= m
<1> DEFINE R == {p \in Nat \X Nat : p[1] < p[2]}
           U == {L - n : n \in T}
<1>1. IsWellFoundedOn(R, Nat)
  BY NatLessThanWellFounded DEF OpToRel
<1>2. U \subseteq Nat /\ U # {}
  <2>1. \A n \in T : L - n \in Nat
    OBVIOUS
  <2> QED BY <2>1
<1>3. PICK x \in U : \A y \in U : ~ (<<y, x>> \in R)
  <2> HIDE DEF R, U
  <2> QED BY <1>1, <1>2, WFMin
<1>4. PICK m \in T : x = L - m
  OBVIOUS
<1>5. ASSUME NEW n \in T
      PROVE  n <= m
  <2>1. L - n \in U /\ L - n \in Nat /\ L - m \in Nat /\ n \in Int /\ m \in Int
    BY <1>2
  <2>2. ~ (L - n < L - m)
    BY <1>3, <1>4, <2>1
  <2> QED BY <2>1, <2>2
<1> QED BY <1>5

LEMMA RemoveAtIs ==
  ASSUME NEW S, NEW s \in Seq(S), NEW n \in 1 .. Len(s)
  PROVE  /\ RemoveAt(s, n) \in Seq(S)
         /\ Len(RemoveAt(s, n)) = Len(s) - 1
         /\ \A m \in 1 .. Len(s) - 1 : RemoveAt(s, n)[m] = IF m < n THEN s[m] ELSE s[m + 1]
<1> DEFINE a == SubSeq(s, 1, n - 1)  b == SubSeq(s, n + 1, Len(s))
<1>1. Len(s) \in Nat /\ n \in Int /\ 1 <= n /\ n <= Len(s) /\ \A i \in 1 .. Len(s) : s[i] \in S
  BY LenProperties, ElementOfSeq
<1>2. a \in Seq(S) /\ Len(a) = n - 1 /\ \A i \in 1 .. n - 1 : a[i] = s[i]
  <2>1. n - 1 \in Int /\ \A i \in 1 .. n - 1 : s[i] \in S
    BY <1>1
  <2>2. /\ a \in Seq(S) /\ Len(a) = IF 1 <= n - 1 THEN n - 1 - 1 + 1 ELSE 0
        /\ \A i \in 1 .. n - 1 - 1 + 1 : a[i] = s[1 + i - 1]
    BY <2>1, SubSeqProperties
  <2> QED BY <1>1, <2>2
<1>3. b \in Seq(S) /\ Len(b) = Len(s) - n /\ \A i \in 1 .. Len(s) - n : b[i] = s[n + i]
  <2>1. n + 1 \in Int /\ Len(s) \in Int /\ \A i \in n + 1 .. Len(s) : s[i] \in S
    BY <1>1
  <2>2. /\ b \in Seq(S) /\ Len(b) = IF n + 1 <= Len(s) THEN Len(s) - (n + 1) + 1 ELSE 0
        /\ \A i \in 1 .. Len(s) - (n + 1) + 1 : b[i] = s[n + 1 + i - 1]
    BY <2>1, SubSeqProperties
  <2> QED BY <1>1, <2>2
<1> HIDE DEF a, b
<1>4. /\ a \o b \in Seq(S) /\ Len(a \o b) = Len(a) + Len(b)
      /\ \A i \in 1 .. Len(a) + Len(b) : (a \o b)[i] = IF i <= Len(a) THEN a[i] ELSE b[i - Len(a)]
  BY <1>2, <1>3, ConcatProperties
<1>5. RemoveAt(s, n) = a \o b
  BY DEF RemoveAt, a, b
<1>6. ASSUME NEW m \in 1 .. Len(s) - 1
      PROVE  (a \o b)[m] = IF m < n THEN s[m] ELSE s[m + 1]
  <2>1. CASE m < n
    BY <1>1, <1>2, <1>3, <1>4, <2>1
  <2>2. CASE ~ (m < n)
    <3>1. m - (n - 1) \in 1 .. Len(s) - n /\ n + (m - (n - 1)) = m + 1
      BY <1>1, <2>2
    <3>2. b[m - (n - 1)] = s[m + 1]
      BY <1>3, <3>1
    <3>3. m \in 1 .. Len(a) + Len(b) /\ ~ (m <= Len(a)) /\ Len(a) = n - 1
      BY <1>1, <1>2, <1>3, <2>2
    <3>4. (a \o b)[m] = b[m - (n - 1)]
      BY <1>4, <3>3
    <3> QED BY <2>2, <3>2, <3>4
  <2> QED BY <2>1, <2>2
<1>7. Len(a \o b) = Len(s) - 1
  BY <1>1, <1>2, <1>3, <1>4
<1> QED BY <1>4, <1>5, <1>6, <1>7

LEMMA FrontIs ==
  ASSUME NEW S, NEW s \in Seq(S), s # <<>>
  PROVE  /\ Len(s) \in Nat \ {0} /\ Last(s) = s[Len(s)] /\ Last(s) \in S
         /\ Front(s) \in Seq(S) /\ Len(Front(s)) = Len(s) - 1
         /\ \A n \in 1 .. Len(s) - 1 : Front(s)[n] = s[n]
<1>1. Len(s) \in Nat \ {0} /\ \A i \in 1 .. Len(s) : s[i] \in S
  BY EmptySeq, ElementOfSeq
<1>2. 1 \in Int /\ Len(s) - 1 \in Int /\ \A i \in 1 .. Len(s) - 1 : s[i] \in S
  BY <1>1
<1>3. /\ Front(s) \in Seq(S)
      /\ Len(Front(s)) = IF 1 <= Len(s) - 1 THEN Len(s) - 1 - 1 + 1 ELSE 0
      /\ \A i \in 1 .. Len(s) - 1 - 1 + 1 : Front(s)[i] = s[1 + i - 1]
  BY <1>2, SubSeqProperties DEF Front
<1>4. Len(Front(s)) = Len(s) - 1 /\ \A n \in 1 .. Len(s) - 1 : Front(s)[n] = s[n]
  <2> DEFINE L == Len(s)  f == Front(s)
  <2>1. /\ L \in Nat /\ L >= 1 /\ Len(f) = IF 1 <= L - 1 THEN L - 1 - 1 + 1 ELSE 0
        /\ \A i \in 1 .. L - 1 - 1 + 1 : f[i] = s[1 + i - 1]
    BY <1>1, <1>3
  <2> HIDE DEF L, f
  <2>2. Len(f) = L - 1
    BY <2>1
  <2>3. \A n \in 1 .. L - 1 : n \in 1 .. L - 1 - 1 + 1 /\ 1 + n - 1 = n
    BY <2>1
  <2>4. \A n \in 1 .. L - 1 : f[n] = s[n]
    BY <2>1, <2>3
  <2> QED BY <2>2, <2>4 DEF L, f
<1> QED BY <1>1, <1>3, <1>4 DEF Last

LEMMA AppendIs ==
  ASSUME NEW S, NEW s \in Seq(S), NEW e \in S
  PROVE  /\ Len(s) \in Nat /\ Append(s, e) \in Seq(S) /\ Len(Append(s, e)) = Len(s) + 1
         /\ \A n \in 1 .. Len(s) : Append(s, e)[n] = s[n]
         /\ Append(s, e)[Len(s) + 1] = e
BY AppendProperties, LenProperties

-----------------------------------------------------------------------------
(* The invariant *)

\* The removal type of a row that is neither undone nor sold.
NoRemoval == ""

IsFinal(i) == Catalog[i].to = {}
Live(q) == Rows(q, {NoRemoval})
Owned(q, k) == k \in DOMAIN purchases /\ purchases[k].buyer = q
SellsNothing(q) == Rows(q, {"sold"}) = {}

Purchase == [buyer : Buyer, item : Item, time : Nat, removal : {NoRemoval, "undo", "sold"}]
Operation == [op : {"buy", "sell"}, idx : Nat, time : Nat, used : SUBSET Nat]

Types ==
  /\ clock \in Nat
  /\ purchases \in Seq(Purchase)
  /\ held \in [Buyer -> SUBSET Nat]
  /\ pending \in [Buyer -> Seq(Nat)]
  /\ shop \in [Buyer -> Seq(Operation)]

\* What the code keeps in pending are the live rows, in the order of purchase.
PendingOK(q) ==
  /\ \A m, n \in DOMAIN pending[q] : m < n => pending[q][m] < pending[q][n]
  /\ \A n \in DOMAIN pending[q] : pending[q][n] \in Live(q)
  /\ \A k \in Live(q) : \E n \in DOMAIN pending[q] : pending[q][n] = k

HeldOK(q) == \A k \in held[q] : Owned(q, k)

Bought(q, n) == n \in DOMAIN shop[q] /\ shop[q][n].op = "buy"
Sale(q, n) == n \in DOMAIN shop[q] /\ shop[q][n].op = "sell"

\* What the shop can undo are the purchases and sales of the player, and a purchase
\* used up nothing final.
ShopOK(q) ==
  /\ \A n \in DOMAIN shop[q] : Owned(q, shop[q][n].idx)
  /\ \A n \in DOMAIN shop[q] : \A k \in shop[q][n].used :
       Owned(q, k) /\ ~ IsFinal(purchases[k].item)
  /\ \A m, n \in DOMAIN shop[q] :
       m < n /\ Bought(q, m) /\ Bought(q, n) => shop[q][m].idx < shop[q][n].idx

\* A final item on the stack is held, unless a sale above its purchase took it.
FinalOK(q) ==
  \A n \in DOMAIN shop[q] :
    IsFinal(purchases[shop[q][n].idx].item) =>
      /\ Sale(q, n) => /\ shop[q][n].idx \notin held[q]
                       /\ \A m \in DOMAIN shop[q] :
                            Sale(q, m) /\ m # n => shop[q][m].idx # shop[q][n].idx
      /\ Bought(q, n) => \/ shop[q][n].idx \in held[q]
                         \/ \E m \in DOMAIN shop[q] :
                              m > n /\ Sale(q, m) /\ shop[q][m].idx = shop[q][n].idx

\* While nothing was sold the stack of the shop is the end of pending.
StackOK(q) ==
  /\ \A n \in DOMAIN shop[q] : Bought(q, n)
  /\ Len(shop[q]) <= Len(pending[q])
  /\ \A n \in DOMAIN shop[q] :
       /\ shop[q][n].idx = pending[q][Len(pending[q]) - Len(shop[q]) + n]
       /\ \A k \in shop[q][n].used : k \in Live(q) /\ k < shop[q][n].idx
  /\ held[q] \subseteq Live(q)
  /\ \A k \in Live(q) : IsFinal(purchases[k].item) => k \in held[q]

KeptOf(q, i) == Cardinality(OfItem(Live(q), i))
HeldOf(q, i) == Cardinality(OfItem(held[q], i))

CountsOK(q) ==
  \A i \in Item :
    IsFinal(i) => /\ KeptOf(q, i) <= HeldOf(q, i)
                  /\ <<q, i>> \notin resold => KeptOf(q, i) = HeldOf(q, i)

BuyerOK(q) ==
  /\ PendingOK(q) /\ HeldOK(q) /\ ShopOK(q) /\ FinalOK(q)
  /\ SellsNothing(q) => StackOK(q)
  /\ CountsOK(q)

ItemInv == Types /\ \A q \in Buyer : BuyerOK(q)
-----------------------------------------------------------------------------
(* The rows *)

LEMMA RemovalsDiffer == NoRemoval # "undo" /\ NoRemoval # "sold"
BY Zenon DEF NoRemoval

LEMMA TypeFacts ==
  ASSUME Types, NEW q \in Buyer
  PROVE  /\ Len(purchases) \in Nat /\ DOMAIN purchases = 1 .. Len(purchases)
         /\ \A k \in 1 .. Len(purchases) : purchases[k] \in Purchase
         /\ Len(pending[q]) \in Nat /\ DOMAIN pending[q] = 1 .. Len(pending[q])
         /\ pending[q] \in Seq(Nat) /\ \A n \in 1 .. Len(pending[q]) : pending[q][n] \in Nat
         /\ Len(shop[q]) \in Nat /\ DOMAIN shop[q] = 1 .. Len(shop[q])
         /\ shop[q] \in Seq(Operation) /\ \A n \in 1 .. Len(shop[q]) : shop[q][n] \in Operation
         /\ held[q] \subseteq Nat
<1>1. /\ purchases \in Seq(Purchase) /\ pending[q] \in Seq(Nat) /\ shop[q] \in Seq(Operation)
      /\ held[q] \subseteq Nat
  BY DEF Types
<1>2. /\ Len(purchases) \in Nat /\ DOMAIN purchases = 1 .. Len(purchases)
      /\ \A k \in 1 .. Len(purchases) : purchases[k] \in Purchase
  BY <1>1, LenProperties, ElementOfSeq
<1>3. /\ Len(pending[q]) \in Nat /\ DOMAIN pending[q] = 1 .. Len(pending[q])
      /\ \A n \in 1 .. Len(pending[q]) : pending[q][n] \in Nat
  BY <1>1, LenProperties, ElementOfSeq
<1>4. /\ Len(shop[q]) \in Nat /\ DOMAIN shop[q] = 1 .. Len(shop[q])
      /\ \A n \in 1 .. Len(shop[q]) : shop[q][n] \in Operation
  BY <1>1, LenProperties, ElementOfSeq
<1> QED BY <1>1, <1>2, <1>3, <1>4

\* Counted sets are finite.
LEMMA CountsAreFinite ==
  ASSUME Types, NEW q \in Buyer, HeldOK(q), NEW i
  PROVE  /\ IsFiniteSet(OfItem(Live(q), i)) /\ KeptOf(q, i) \in Nat
         /\ IsFiniteSet(OfItem(held[q], i)) /\ HeldOf(q, i) \in Nat
<1>1. IsFiniteSet(DOMAIN purchases)
  <2>1. DOMAIN purchases = 1 .. Len(purchases) /\ Len(purchases) \in Int /\ 1 \in Int
    BY TypeFacts
  <2> HIDE DEF Types
  <2> QED BY <2>1, FS_Interval
<1>2. OfItem(Live(q), i) \subseteq DOMAIN purchases /\ OfItem(held[q], i) \subseteq DOMAIN purchases
  BY DEF OfItem, Live, Rows, HeldOK, Owned
<1> QED BY <1>1, <1>2, FS_Subset, FS_CardinalityType DEF KeptOf, HeldOf

\* What the search in pending finds.
LEMMA LatestIs ==
  ASSUME Types, NEW q \in Buyer, PendingOK(q), NEW i
  PROVE  LET n == LatestOf(q, i)
         IN  \/ n = 0 /\ \A k \in Live(q) : purchases[k].item # i
             \/ /\ n \in 1 .. Len(pending[q])
                /\ purchases[pending[q][n]].item = i
                /\ \A m \in 1 .. Len(pending[q]) : purchases[pending[q][m]].item = i => m <= n
<1> DEFINE at == {n \in DOMAIN pending[q] : purchases[pending[q][n]].item = i}
<1>1. Len(pending[q]) \in Nat /\ DOMAIN pending[q] = 1 .. Len(pending[q])
  BY TypeFacts
<1>2. LatestOf(q, i) = IF at = {} THEN 0 ELSE CHOOSE n \in at : \A m \in at : m <= n
  BY DEF LatestOf
<1>3. CASE at = {}
  <2>1. \A k \in Live(q) : purchases[k].item # i
    BY <1>3 DEF PendingOK
  <2> QED BY <1>2, <1>3, <2>1
<1>4. CASE at # {}
  <2>1. at \in SUBSET (1 .. Len(pending[q]))
    BY <1>1
  <2> HIDE DEF at
  <2>2. \E n \in at : \A m \in at : m <= n
    BY <1>1, <1>4, <2>1, GreatestExists
  <2>3. LatestOf(q, i) \in at /\ \A m \in at : m <= LatestOf(q, i)
    BY <1>2, <1>4, <2>2
  <2> QED BY <1>1, <2>3 DEF at
<1> QED BY <1>3, <1>4

\* What Mark does to rows and pending: nothing, or it takes the latest live row of
\* the item out of pending and gives it its removal.
TakesOut(q, i, removal, m) ==
  LET k == pending[q][m]
  IN  /\ m \in 1 .. Len(pending[q]) /\ k \in Live(q) /\ purchases[k].item = i
      /\ \A l \in Live(q) : purchases[l].item = i => l <= k
      /\ purchases' = [purchases EXCEPT ![k].removal = removal]
      /\ pending' = [pending EXCEPT ![q] = RemoveAt(@, m)]

LEMMA MarkIs ==
  ASSUME Types, NEW q \in Buyer, PendingOK(q), NEW i, NEW removal, Mark(q, i, removal)
  PROVE  \/ UNCHANGED <<purchases, pending>> /\ \A k \in Live(q) : purchases[k].item # i
         \/ \E m \in 1 .. Len(pending[q]) : TakesOut(q, i, removal, m)
<1> DEFINE n == LatestOf(q, i)
<1>1. \/ n = 0 /\ \A k \in Live(q) : purchases[k].item # i
      \/ /\ n \in 1 .. Len(pending[q])
         /\ purchases[pending[q][n]].item = i
         /\ \A m \in 1 .. Len(pending[q]) : purchases[pending[q][m]].item = i => m <= n
  BY LatestIs
<1>2. IF n = 0 THEN UNCHANGED <<purchases, pending>>
      ELSE /\ purchases' = [purchases EXCEPT ![pending[q][n]].removal = removal]
           /\ pending' = [pending EXCEPT ![q] = RemoveAt(@, n)]
  BY DEF Mark
<1> HIDE DEF n
<1>3. CASE n = 0
  <2>1. \A k \in Live(q) : purchases[k].item # i
    BY <1>1, <1>3, TypeFacts
  <2> QED BY <1>2, <1>3, <2>1
<1>4. CASE n # 0
  <2>1. /\ n \in 1 .. Len(pending[q]) /\ purchases[pending[q][n]].item = i
        /\ \A m \in 1 .. Len(pending[q]) : purchases[pending[q][m]].item = i => m <= n
    BY <1>1, <1>4
  <2>2. DOMAIN pending[q] = 1 .. Len(pending[q]) /\ Len(pending[q]) \in Nat
        /\ \A m \in 1 .. Len(pending[q]) : pending[q][m] \in Nat
    BY TypeFacts
  <2>3. ASSUME NEW l \in Live(q), purchases[l].item = i
        PROVE  l <= pending[q][n]
    <3>1. PICK m \in 1 .. Len(pending[q]) : pending[q][m] = l
      BY <2>2 DEF PendingOK
    <3>2. m <= n
      BY <2>1, <2>3, <3>1
    <3>3. m < n => pending[q][m] < pending[q][n]
      BY <2>1, <2>2, <3>1 DEF PendingOK
    <3> QED BY <2>1, <2>2, <3>1, <3>2, <3>3
  <2>4. pending[q][n] \in Live(q)
    BY <2>1, <2>2 DEF PendingOK
  <2>5. TakesOut(q, i, removal, n)
    BY <1>2, <1>4, <2>1, <2>3, <2>4 DEF TakesOut
  <2> QED BY <2>1, <2>5
<1> QED BY <1>3, <1>4

\* What a step leaves of the rows there were: buyers and items, and of every other
\* buyer all he has.
KeepsRows ==
  /\ Len(purchases') >= Len(purchases)
  /\ \A k \in 1 .. Len(purchases) :
       purchases'[k].buyer = purchases[k].buyer /\ purchases'[k].item = purchases[k].item

KeepsBuyer(r) ==
  /\ held'[r] = held[r] /\ shop'[r] = shop[r] /\ pending'[r] = pending[r]
  /\ \A k \in 1 .. Len(purchases) : purchases[k].buyer = r => purchases'[k] = purchases[k]
  /\ \A k \in 1 .. Len(purchases') : purchases'[k].buyer = r => k \in 1 .. Len(purchases)
  /\ \A i \in Item : <<r, i>> \in resold' <=> <<r, i>> \in resold

LEMMA KeptBuyerOK ==
  ASSUME Types, Types', KeepsRows, NEW r \in Buyer, KeepsBuyer(r), BuyerOK(r)
  PROVE  BuyerOK(r)'
<1>1. /\ Len(purchases) \in Nat /\ DOMAIN purchases = 1 .. Len(purchases)
      /\ Len(purchases') \in Nat /\ DOMAIN purchases' = 1 .. Len(purchases')
  BY TypeFacts, LenProperties DEF Types
<1>2. \A k : Owned(r, k)' <=> Owned(r, k)
  BY <1>1 DEF Owned, KeepsBuyer, KeepsRows
<1>3. \A k : Owned(r, k) => purchases'[k] = purchases[k]
  BY <1>1 DEF Owned, KeepsBuyer
<1>4. ASSUME NEW X PROVE Rows(r, X)' = Rows(r, X)
  BY <1>1, <1>2, <1>3 DEF Rows, Owned
<1>5. Live(r)' = Live(r) /\ SellsNothing(r)' = SellsNothing(r)
  BY <1>4 DEF Live, SellsNothing
<1>6. \A k \in Live(r) : Owned(r, k)
  BY DEF Live, Rows, Owned
<1>7. held'[r] = held[r] /\ shop'[r] = shop[r] /\ pending'[r] = pending[r]
  BY DEF KeepsBuyer
<1>8. PendingOK(r)'
  BY <1>5, <1>7 DEF BuyerOK, PendingOK
<1>9. HeldOK(r)'
  BY <1>2, <1>7 DEF BuyerOK, HeldOK
<1>10. ShopOK(r)'
  <2>1. ShopOK(r)
    BY DEF BuyerOK
  <2> QED BY <1>2, <1>3, <1>7, <2>1 DEF ShopOK, Bought
<1>11. FinalOK(r)'
  <2>1. FinalOK(r) /\ ShopOK(r)
    BY DEF BuyerOK
  <2>2. \A n \in DOMAIN shop[r] : purchases'[shop[r][n].idx] = purchases[shop[r][n].idx]
    BY <1>3, <2>1 DEF ShopOK
  <2> QED BY <1>7, <2>1, <2>2 DEF FinalOK, Bought, Sale
<1>12. StackOK(r) => StackOK(r)'
  BY <1>3, <1>5, <1>6, <1>7 DEF StackOK, Bought
<1>13. CountsOK(r)'
  <2>1. HeldOK(r) /\ CountsOK(r)
    BY DEF BuyerOK
  <2>2. ASSUME NEW i \in Item
        PROVE  KeptOf(r, i)' = KeptOf(r, i) /\ HeldOf(r, i)' = HeldOf(r, i)
    <3>1. OfItem(Live(r), i)' = OfItem(Live(r), i)
      BY <1>3, <1>5, <1>6 DEF OfItem
    <3>2. OfItem(held[r], i)' = OfItem(held[r], i)
      BY <1>3, <1>7, <2>1 DEF OfItem, HeldOK
    <3> QED BY <3>1, <3>2 DEF KeptOf, HeldOf
  <2> QED BY <2>1, <2>2 DEF CountsOK, KeepsBuyer
<1> QED BY <1>5, <1>8, <1>9, <1>10, <1>11, <1>12, <1>13 DEF BuyerOK

\* A row that is taken out is not live any more, and the rest of pending stays in order.
LEMMA TakenIs ==
  ASSUME Types, NEW q \in Buyer, PendingOK(q), NEW i, NEW m,
         NEW removal \in {"undo", "sold"}, TakesOut(q, i, removal, m)
  PROVE  LET k == pending[q][m]
         IN  /\ purchases' \in Seq(Purchase) /\ Len(purchases') = Len(purchases)
             /\ pending' \in [Buyer -> Seq(Nat)]
             /\ \A r \in Buyer \ {q} : pending'[r] = pending[r]
             /\ KeepsRows
             /\ \A l \in 1 .. Len(purchases) : l # k => purchases'[l] = purchases[l]
             /\ k \in 1 .. Len(purchases) /\ purchases[k].buyer = q /\ purchases'[k].removal = removal
             /\ Len(pending'[q]) = Len(pending[q]) - 1
             /\ \A n \in 1 .. Len(pending[q]) - 1 :
                  pending'[q][n] = IF n < m THEN pending[q][n] ELSE pending[q][n + 1]
<1> DEFINE k == pending[q][m]
<1>1. /\ purchases \in Seq(Purchase) /\ Len(purchases) \in Nat /\ DOMAIN purchases = 1 .. Len(purchases)
      /\ k \in 1 .. Len(purchases) /\ purchases[k].buyer = q /\ purchases[k] \in Purchase
  <2>1. k \in DOMAIN purchases /\ purchases[k].buyer = q
    BY DEF TakesOut, Live, Rows
  <2> HIDE DEF k
  <2> QED BY <2>1, TypeFacts DEF Types
<1>2. /\ purchases' = [purchases EXCEPT ![k].removal = removal]
      /\ pending' = [pending EXCEPT ![q] = RemoveAt(@, m)] /\ m \in 1 .. Len(pending[q])
  BY DEF TakesOut
<1>3. /\ RemoveAt(pending[q], m) \in Seq(Nat) /\ Len(RemoveAt(pending[q], m)) = Len(pending[q]) - 1
      /\ \A n \in 1 .. Len(pending[q]) - 1 :
           RemoveAt(pending[q], m)[n] = IF n < m THEN pending[q][n] ELSE pending[q][n + 1]
  BY <1>2, RemoveAtIs, TypeFacts
<1>4. pending' \in [Buyer -> Seq(Nat)] /\ pending'[q] = RemoveAt(pending[q], m)
      /\ \A r \in Buyer \ {q} : pending'[r] = pending[r]
  BY <1>2, <1>3 DEF Types
<1> HIDE DEF k
<1> DEFINE row == [purchases[k] EXCEPT !.removal = removal]
<1>6. /\ row \in Purchase /\ row.removal = removal
      /\ row.buyer = purchases[k].buyer /\ row.item = purchases[k].item
  BY <1>1 DEF Purchase
<1>7. purchases' = [purchases EXCEPT ![k] = row]
  BY <1>1, <1>2
<1> HIDE DEF row
<1>8. /\ purchases' \in Seq(Purchase) /\ Len(purchases') = Len(purchases)
      /\ \A l \in 1 .. Len(purchases) : purchases'[l] = IF l = k THEN row ELSE purchases[l]
  BY <1>1, <1>6, <1>7, ExceptSeq
<1>9. KeepsRows
  BY <1>1, <1>6, <1>8 DEF KeepsRows
<1>10. purchases'[k].removal = removal /\ \A l \in 1 .. Len(purchases) : l # k => purchases'[l] = purchases[l]
  BY <1>1, <1>6, <1>8
<1> QED BY <1>1, <1>3, <1>4, <1>8, <1>9, <1>10 DEF k

LEMMA TakenLive ==
  ASSUME Types, NEW q \in Buyer, PendingOK(q), NEW i, NEW m,
         NEW removal \in {"undo", "sold"}, TakesOut(q, i, removal, m)
  PROVE  LET k == pending[q][m]
         IN  /\ Live(q)' = Live(q) \ {k} /\ k \in Live(q) /\ purchases[k].item = i
             /\ removal = "undo" => SellsNothing(q)' = SellsNothing(q)
             /\ removal = "sold" => ~ SellsNothing(q)'
             /\ \A j : OfItem(Live(q), j)' = OfItem(Live(q), j) \ {k}
             /\ PendingOK(q)'
<1> DEFINE k == pending[q][m]
<1>1. k \in Live(q) /\ purchases[k].item = i /\ m \in 1 .. Len(pending[q])
  BY DEF TakesOut
<1>2. /\ purchases' \in Seq(Purchase) /\ Len(purchases') = Len(purchases)
      /\ KeepsRows
      /\ \A l \in 1 .. Len(purchases) : l # k => purchases'[l] = purchases[l]
      /\ k \in 1 .. Len(purchases) /\ purchases[k].buyer = q /\ purchases'[k].removal = removal
      /\ pending' \in [Buyer -> Seq(Nat)]
      /\ Len(pending'[q]) = Len(pending[q]) - 1
      /\ \A n \in 1 .. Len(pending[q]) - 1 :
           pending'[q][n] = IF n < m THEN pending[q][n] ELSE pending[q][n + 1]
  BY TakenIs
<1>3. /\ Len(purchases) \in Nat /\ DOMAIN purchases = 1 .. Len(purchases)
      /\ DOMAIN purchases' = 1 .. Len(purchases)
      /\ Len(pending[q]) \in Nat /\ DOMAIN pending[q] = 1 .. Len(pending[q])
      /\ \A n \in 1 .. Len(pending[q]) : pending[q][n] \in Nat
      /\ DOMAIN pending'[q] = 1 .. Len(pending[q]) - 1
  <2>1. pending'[q] \in Seq(Nat)
    BY <1>2
  <2>2. DOMAIN pending'[q] = 1 .. Len(pending'[q]) /\ DOMAIN purchases' = 1 .. Len(purchases')
    BY <1>2, <2>1, LenProperties
  <2> QED BY <1>2, <2>2, TypeFacts
<1>4. purchases[k].removal = NoRemoval /\ purchases[k].buyer = purchases'[k].buyer
  BY <1>1, <1>2 DEF Live, Rows, KeepsRows
<1> HIDE DEF k
<1>5. Live(q)' = Live(q) \ {k}
  <2>1. removal # NoRemoval
    BY RemovalsDiffer
  <2>2. \A l \in 1 .. Len(purchases) :
          purchases'[l].buyer = q /\ purchases'[l].removal \in {NoRemoval}
            <=> l # k /\ purchases[l].buyer = q /\ purchases[l].removal \in {NoRemoval}
    BY <1>2, <1>4, <2>1
  <2> QED BY <1>3, <2>2 DEF Live, Rows
<1>6. removal = "undo" => SellsNothing(q)' = SellsNothing(q)
  <2> SUFFICES ASSUME removal = "undo" PROVE SellsNothing(q)' = SellsNothing(q)
    OBVIOUS
  <2>1. "undo" # "sold" /\ NoRemoval # "sold"
    BY RemovalsDiffer
  <2>2. \A l \in 1 .. Len(purchases) :
          purchases'[l].buyer = q /\ purchases'[l].removal \in {"sold"}
            <=> purchases[l].buyer = q /\ purchases[l].removal \in {"sold"}
    BY <1>2, <1>4, <2>1
  <2> QED BY <1>3, <2>2 DEF SellsNothing, Rows
<1>7. removal = "sold" => ~ SellsNothing(q)'
  <2> SUFFICES ASSUME removal = "sold" PROVE k \in Rows(q, {"sold"})'
    BY DEF SellsNothing
  <2> QED BY <1>2, <1>3, <1>4 DEF Rows
<1>8. ASSUME NEW j PROVE OfItem(Live(q), j)' = OfItem(Live(q), j) \ {k}
  <2>1. \A l \in Live(q) : l \in 1 .. Len(purchases)
    BY <1>3 DEF Live, Rows
  <2>2. \A l \in Live(q) \ {k} : purchases'[l].item = purchases[l].item
    BY <1>2, <2>1
  <2> QED BY <1>5, <2>2 DEF OfItem
<1>9. PendingOK(q)'
  <2> DEFINE old == pending[q]  new == pending'[q]  L == Len(pending[q])
  <2>1. /\ L \in Nat /\ m \in 1 .. L /\ old[m] = k
        /\ \A n \in 1 .. L : old[n] \in Nat
        /\ \A n \in 1 .. L - 1 : new[n] = IF n < m THEN old[n] ELSE old[n + 1]
    BY <1>1, <1>2, <1>3 DEF k
  <2>2. /\ \A a, b \in 1 .. L : a < b => old[a] < old[b]
        /\ \A n \in 1 .. L : old[n] \in Live(q)
        /\ \A l \in Live(q) : \E n \in 1 .. L : old[n] = l
    BY <1>3 DEF PendingOK
  <2> HIDE DEF old, new, L
  <2>3. ASSUME NEW a \in 1 .. L - 1, NEW b \in 1 .. L - 1, a < b
        PROVE  new[a] < new[b]
    <3> DEFINE aa == IF a < m THEN a ELSE a + 1  bb == IF b < m THEN b ELSE b + 1
    <3>1. aa \in 1 .. L /\ bb \in 1 .. L /\ aa < bb
      BY <2>1, <2>3
    <3>2. new[a] = old[aa] /\ new[b] = old[bb]
      BY <2>1
    <3> HIDE DEF aa, bb
    <3> QED BY <2>2, <3>1, <3>2
  <2>4. ASSUME NEW n \in 1 .. L - 1
        PROVE  new[n] \in Live(q) \ {k}
    <3> DEFINE nn == IF n < m THEN n ELSE n + 1
    <3>1. nn \in 1 .. L /\ nn # m /\ (nn < m \/ m < nn)
      BY <2>1
    <3>2. new[n] = old[nn]
      BY <2>1
    <3> HIDE DEF nn
    <3>3. old[nn] # k
      BY <2>1, <2>2, <3>1
    <3> QED BY <2>2, <3>1, <3>2, <3>3
  <2>5. ASSUME NEW l \in Live(q), l # k
        PROVE  \E n \in 1 .. L - 1 : new[n] = l
    <3>1. PICK n \in 1 .. L : old[n] = l
      BY <2>2
    <3>2. n # m
      BY <2>1, <2>5, <3>1
    <3>3. CASE n < m
      BY <2>1, <3>1, <3>3
    <3>4. CASE n > m
      <4>1. n - 1 \in 1 .. L - 1 /\ ~ (n - 1 < m) /\ (n - 1) + 1 = n
        BY <2>1, <3>4
      <4>2. new[n - 1] = old[n]
        BY <2>1, <4>1
      <4> QED BY <3>1, <4>1, <4>2
    <3> QED BY <2>1, <3>2, <3>3, <3>4
  <2>6. DOMAIN pending'[q] = 1 .. L - 1 /\ new = pending'[q]
    BY <1>3 DEF L, new
  <2> QED BY <1>5, <2>3, <2>4, <2>5, <2>6 DEF PendingOK, new
<1> QED BY <1>1, <1>5, <1>6, <1>7, <1>8, <1>9 DEF k
-----------------------------------------------------------------------------
(* The events of the shop *)

\* A purchase: the new row is live, last in pending and on top of the stack, and
\* what goes into the item was not final.
LEMMA PurchaseTypes ==
  ASSUME ItemInv, NEW q \in Buyer, NEW i \in Item, NEW used \in Components(q, i),
         ItemPurchased(q, i, used)
  PROVE  LET idx == Len(purchases) + 1
             e == [op |-> "buy", idx |-> idx, time |-> clock, used |-> used]
         IN  /\ Types' /\ KeepsRows /\ \A r \in Buyer \ {q} : KeepsBuyer(r)
             /\ idx \in Nat /\ Len(purchases') = idx /\ resold' = resold
             /\ \A k \in 1 .. Len(purchases) : purchases'[k] = purchases[k]
             /\ purchases'[idx].buyer = q /\ purchases'[idx].item = i
             /\ purchases'[idx].removal = NoRemoval
             /\ held'[q] = (held[q] \ used) \cup {idx}
             /\ pending'[q] = Append(pending[q], idx)
             /\ shop'[q] = Append(shop[q], e) /\ e \in Operation
             /\ used \subseteq held[q] /\ \A k \in used : ~ IsFinal(purchases[k].item)
<1> DEFINE idx == Len(purchases) + 1
           e == [op |-> "buy", idx |-> idx, time |-> clock, used |-> used]
           row == [buyer |-> q, item |-> i, time |-> clock, removal |-> NoRemoval]
<1>1. Types /\ clock \in Nat /\ Len(purchases) \in Nat /\ idx \in Nat /\ HeldOK(q)
  BY TypeFacts DEF ItemInv, BuyerOK, Types
<1>2. purchases' = Append(purchases, row)
  BY Zenon DEF ItemPurchased, NoRemoval
<1> HIDE DEF row
<1>3. /\ held' = [held EXCEPT ![q] = (held[q] \ used) \cup {idx}]
      /\ shop' = [shop EXCEPT ![q] = Append(shop[q], e)]
      /\ pending' = [pending EXCEPT ![q] = Append(pending[q], idx)]
      /\ resold' = resold /\ clock' = clock
  BY Zenon DEF ItemPurchased, ShopEvent
<1>4. used \subseteq held[q] /\ \A k \in used : purchases[k].item \in Catalog[i].from
  BY DEF Components
<1>5. \A k \in used : ~ IsFinal(purchases[k].item)
  <2>1. \A k \in held[q] : purchases[k].item \in Item
    BY <1>1, TypeFacts DEF HeldOK, Owned, Purchase
  <2> QED BY <1>4, <2>1, CatalogAssumption DEF IsFinal
<1>6. row \in Purchase /\ row.buyer = q /\ row.item = i /\ row.removal = NoRemoval
  BY <1>1 DEF row, Purchase
<1>7. e \in Operation
  <2>1. used \subseteq Nat
    BY <1>1, <1>4, TypeFacts
  <2> QED BY <1>1, <2>1 DEF Operation
<1>8. /\ purchases' \in Seq(Purchase) /\ Len(purchases') = idx /\ purchases'[idx] = row
      /\ \A k \in 1 .. Len(purchases) : purchases'[k] = purchases[k]
  BY <1>1, <1>2, <1>6, AppendIs DEF Types
<1>9. /\ held'[q] = (held[q] \ used) \cup {idx} /\ pending'[q] = Append(pending[q], idx)
      /\ shop'[q] = Append(shop[q], e)
      /\ held' \in [Buyer -> SUBSET Nat]
  BY <1>1, <1>3 DEF Types
<1>10. pending' \in [Buyer -> Seq(Nat)] /\ shop' \in [Buyer -> Seq(Operation)]
  <2>1. Append(pending[q], idx) \in Seq(Nat) /\ Append(shop[q], e) \in Seq(Operation)
    BY <1>1, <1>7, AppendIs, TypeFacts
  <2> HIDE DEF e
  <2> QED BY <1>1, <1>3, <2>1 DEF Types
<1>11. Types'
  BY <1>1, <1>3, <1>8, <1>9, <1>10 DEF Types
<1>12. KeepsRows
  BY <1>1, <1>8 DEF KeepsRows
<1>13. \A r \in Buyer \ {q} : KeepsBuyer(r)
  <2> TAKE r \in Buyer \ {q}
  <2>1. held'[r] = held[r] /\ shop'[r] = shop[r] /\ pending'[r] = pending[r]
    BY <1>1, <1>3 DEF Types
  <2>2. \A k \in 1 .. Len(purchases') : purchases'[k].buyer = r => k \in 1 .. Len(purchases)
    BY <1>1, <1>6, <1>8
  <2> QED BY <1>3, <1>8, <2>1, <2>2 DEF KeepsBuyer
<1> QED BY <1>1, <1>3, <1>4, <1>5, <1>6, <1>7, <1>8, <1>9, <1>11, <1>12, <1>13

LEMMA PurchaseOK ==
  ASSUME ItemInv, NEW q \in Buyer, NEW i \in Item, NEW used \in Components(q, i),
         ItemPurchased(q, i, used)
  PROVE  BuyerOK(q)'
<1> DEFINE idx == Len(purchases) + 1
           e == [op |-> "buy", idx |-> idx, time |-> clock, used |-> used]
           L == Len(pending[q])
           S == Len(shop[q])
<1>1. /\ Types /\ Types' /\ KeepsRows
      /\ idx \in Nat /\ Len(purchases') = idx /\ resold' = resold
      /\ \A k \in 1 .. Len(purchases) : purchases'[k] = purchases[k]
      /\ purchases'[idx].buyer = q /\ purchases'[idx].item = i
      /\ purchases'[idx].removal = NoRemoval
      /\ held'[q] = (held[q] \ used) \cup {idx}
      /\ pending'[q] = Append(pending[q], idx)
      /\ shop'[q] = Append(shop[q], e) /\ e \in Operation
      /\ used \subseteq held[q] /\ \A k \in used : ~ IsFinal(purchases[k].item)
  BY PurchaseTypes DEF ItemInv
<1>2. PendingOK(q) /\ HeldOK(q) /\ ShopOK(q) /\ FinalOK(q) /\ CountsOK(q)
      /\ (SellsNothing(q) => StackOK(q))
  BY DEF ItemInv, BuyerOK
<1>3. /\ Len(purchases) \in Nat /\ DOMAIN purchases = 1 .. Len(purchases)
      /\ DOMAIN purchases' = 1 .. idx /\ idx \notin 1 .. Len(purchases)
      /\ \A k : k \in 1 .. idx <=> k \in 1 .. Len(purchases) \/ k = idx
  <2>1. DOMAIN purchases' = 1 .. Len(purchases')
    BY <1>1, LenProperties DEF Types
  <2> QED BY <1>1, <2>1, TypeFacts
<1>4. /\ L \in Nat /\ DOMAIN pending[q] = 1 .. L /\ DOMAIN pending'[q] = 1 .. L + 1
      /\ Len(pending'[q]) = L + 1
      /\ pending'[q][L + 1] = idx /\ \A n \in 1 .. L : pending'[q][n] = pending[q][n]
      /\ \A n \in 1 .. L + 1 : n \in 1 .. L \/ n = L + 1
  <2>1. pending[q] \in Seq(Nat) /\ L \in Nat /\ DOMAIN pending[q] = 1 .. L
    BY <1>1, TypeFacts
  <2>2. /\ pending'[q] \in Seq(Nat) /\ Len(pending'[q]) = L + 1
        /\ pending'[q][L + 1] = idx /\ \A n \in 1 .. L : pending'[q][n] = pending[q][n]
    BY <1>1, <2>1, AppendIs
  <2>3. DOMAIN pending'[q] = 1 .. L + 1
    BY <2>2, LenProperties
  <2> HIDE DEF L
  <2> QED BY <2>1, <2>2, <2>3
<1>5. /\ S \in Nat /\ DOMAIN shop[q] = 1 .. S /\ DOMAIN shop'[q] = 1 .. S + 1
      /\ Len(shop'[q]) = S + 1
      /\ shop'[q][S + 1] = e /\ \A n \in 1 .. S : shop'[q][n] = shop[q][n]
      /\ \A n \in 1 .. S + 1 : n \in 1 .. S \/ n = S + 1
  <2>1. shop[q] \in Seq(Operation) /\ S \in Nat /\ DOMAIN shop[q] = 1 .. S
    BY <1>1, TypeFacts
  <2> HIDE DEF e
  <2>2. /\ shop'[q] \in Seq(Operation) /\ Len(shop'[q]) = S + 1
        /\ shop'[q][S + 1] = e /\ \A n \in 1 .. S : shop'[q][n] = shop[q][n]
    BY <1>1, <2>1, AppendIs
  <2> QED BY <2>1, <2>2, LenProperties
<1>6. e.op = "buy" /\ e.idx = idx /\ e.used = used
  OBVIOUS
<1> HIDE DEF idx, e, L, S
<1>7. \A k : Owned(q, k)' <=> Owned(q, k) \/ k = idx
  BY <1>1, <1>3 DEF Owned
<1>8. Live(q)' = Live(q) \cup {idx} /\ idx \notin Live(q)
  BY <1>1, <1>3 DEF Live, Rows
<1>9. SellsNothing(q)' = SellsNothing(q)
  <2>1. purchases'[idx].removal # "sold"
    BY <1>1, RemovalsDiffer
  <2>2. Rows(q, {"sold"})' = Rows(q, {"sold"})
    BY <1>1, <1>3, <2>1 DEF Rows
  <2> QED BY <2>2 DEF SellsNothing
<1>10. \A k : Owned(q, k) => k \in 1 .. Len(purchases) /\ k < idx /\ purchases'[k] = purchases[k]
  BY <1>1, <1>3 DEF Owned, idx
<1>11. \A k \in Live(q) : Owned(q, k)
  BY DEF Live, Rows, Owned
<1>12. PendingOK(q)'
  <2>1. \A n \in 1 .. L : pending[q][n] \in Live(q) /\ pending[q][n] < idx
    BY <1>2, <1>4, <1>10, <1>11 DEF PendingOK
  <2>2. ASSUME NEW m \in 1 .. L + 1, NEW n \in 1 .. L + 1, m < n
        PROVE  pending'[q][m] < pending'[q][n]
    <3>1. m \in 1 .. L
      BY <1>4, <2>2
    <3>2. CASE n = L + 1
      BY <1>4, <2>1, <3>1, <3>2
    <3>3. CASE n \in 1 .. L
      <4>1. pending[q][m] < pending[q][n]
        BY <1>2, <1>4, <2>2, <3>1, <3>3 DEF PendingOK
      <4> QED BY <1>4, <3>1, <3>3, <4>1
    <3> QED BY <1>4, <3>2, <3>3
  <2>3. \A n \in 1 .. L + 1 : pending'[q][n] \in Live(q) \cup {idx}
    BY <1>4, <2>1
  <2>4. \A k \in Live(q) \cup {idx} : \E n \in 1 .. L + 1 : pending'[q][n] = k
    BY <1>2, <1>4 DEF PendingOK
  <2> QED BY <1>4, <1>8, <2>2, <2>3, <2>4 DEF PendingOK
<1>13. HeldOK(q)'
  BY <1>1, <1>2, <1>7 DEF HeldOK
<1>14. ASSUME NEW n \in 1 .. S
       PROVE  Owned(q, shop[q][n].idx) /\ shop'[q][n] = shop[q][n] /\ n < S + 1
              /\ purchases'[shop[q][n].idx] = purchases[shop[q][n].idx] /\ shop[q][n].idx < idx
  BY <1>2, <1>5, <1>10 DEF ShopOK
<1>15. ShopOK(q)'
  <2>1. \A n \in 1 .. S + 1 :
          shop'[q][n].idx \in DOMAIN purchases' /\ purchases'[shop'[q][n].idx].buyer = q
    <3> TAKE n \in 1 .. S + 1
    <3>1. CASE n \in 1 .. S
      <4>1. shop'[q][n].idx = shop[q][n].idx /\ Owned(q, shop[q][n].idx)
            /\ purchases'[shop[q][n].idx] = purchases[shop[q][n].idx]
        BY <1>14, <3>1
      <4>2. \A k : Owned(q, k) => k \in DOMAIN purchases' /\ purchases[k].buyer = q
        BY <1>3 DEF Owned
      <4> QED BY <4>1, <4>2
    <3>2. CASE n = S + 1
      BY <1>1, <1>3, <1>5, <1>6, <3>2
    <3> QED BY <1>5, <3>1, <3>2
  <2>2. \A n \in 1 .. S + 1 : \A k \in shop'[q][n].used :
          k \in DOMAIN purchases' /\ purchases'[k].buyer = q /\ ~ IsFinal(purchases'[k].item)
    <3> DEFINE Fine(k) == k \in DOMAIN purchases' /\ purchases'[k].buyer = q
                          /\ ~ IsFinal(purchases'[k].item)
    <3>1. \A k : Owned(q, k) /\ ~ IsFinal(purchases[k].item) => Fine(k)
      BY <1>3, <1>10 DEF Owned
    <3> HIDE DEF Fine
    <3>2. \A k \in used : Fine(k)
      BY <1>1, <1>2, <3>1 DEF HeldOK
    <3>3. \A n \in 1 .. S : \A k \in shop[q][n].used : Fine(k)
      BY <1>2, <1>5, <3>1 DEF ShopOK
    <3>4. \A n \in 1 .. S + 1 : \A k \in shop'[q][n].used : Fine(k)
      BY <1>5, <1>6, <3>2, <3>3
    <3> QED BY <3>4 DEF Fine
  <2>3. ASSUME NEW m \in 1 .. S + 1, NEW n \in 1 .. S + 1, m < n,
               shop'[q][m].op = "buy", shop'[q][n].op = "buy"
        PROVE  shop'[q][m].idx < shop'[q][n].idx
    <3>1. m \in 1 .. S
      BY <1>5, <2>3
    <3>2. CASE n = S + 1
      BY <1>5, <1>6, <1>14, <3>1, <3>2
    <3>3. CASE n \in 1 .. S
      <4>1. shop[q][m].idx < shop[q][n].idx
        BY <1>2, <1>5, <2>3, <3>1, <3>3 DEF ShopOK, Bought
      <4> QED BY <1>5, <3>1, <3>3, <4>1
    <3> QED BY <1>5, <3>2, <3>3
  <2> QED BY <1>5, <2>1, <2>2, <2>3 DEF ShopOK, Bought, Owned
<1>16. FinalOK(q)'
  <2>1. ASSUME NEW n \in 1 .. S, IsFinal(purchases[shop[q][n].idx].item)
        PROVE  /\ shop[q][n].op = "sell" =>
                    /\ shop[q][n].idx \notin held'[q]
                    /\ \A m \in 1 .. S + 1 :
                         shop'[q][m].op = "sell" /\ m # n => shop'[q][m].idx # shop[q][n].idx
               /\ shop[q][n].op = "buy" =>
                    \/ shop[q][n].idx \in held'[q]
                    \/ \E m \in 1 .. S + 1 :
                         m > n /\ shop'[q][m].op = "sell" /\ shop'[q][m].idx = shop[q][n].idx
    <3>1. /\ shop[q][n].op = "sell" =>
               /\ shop[q][n].idx \notin held[q]
               /\ \A m \in 1 .. S :
                    shop[q][m].op = "sell" /\ m # n => shop[q][m].idx # shop[q][n].idx
          /\ shop[q][n].op = "buy" =>
               \/ shop[q][n].idx \in held[q]
               \/ \E m \in 1 .. S : m > n /\ shop[q][m].op = "sell" /\ shop[q][m].idx = shop[q][n].idx
      BY <1>2, <1>5, <2>1 DEF FinalOK, Bought, Sale
    <3>2. shop[q][n].idx # idx /\ shop[q][n].idx \notin used
      BY <1>1, <1>3, <1>14, <2>1 DEF Owned
    <3>3. shop[q][n].idx \in held'[q] <=> shop[q][n].idx \in held[q]
      BY <1>1, <3>2
    <3>4. \A m \in 1 .. S + 1 : shop'[q][m].op = "sell" => m \in 1 .. S /\ shop'[q][m] = shop[q][m]
      BY <1>5, <1>6
    <3>5. \A m \in 1 .. S : m \in 1 .. S + 1 /\ shop'[q][m] = shop[q][m]
      BY <1>5
    <3> QED BY <3>1, <3>3, <3>4, <3>5
  <2>2. idx \in held'[q] /\ shop'[q][S + 1].op = "buy" /\ shop'[q][S + 1].idx = idx
    BY <1>1, <1>5, <1>6
  <2>3. ASSUME NEW n \in 1 .. S + 1, IsFinal(purchases'[shop'[q][n].idx].item)
        PROVE  /\ shop'[q][n].op = "sell" =>
                    /\ shop'[q][n].idx \notin held'[q]
                    /\ \A m \in 1 .. S + 1 :
                         shop'[q][m].op = "sell" /\ m # n => shop'[q][m].idx # shop'[q][n].idx
               /\ shop'[q][n].op = "buy" =>
                    \/ shop'[q][n].idx \in held'[q]
                    \/ \E m \in 1 .. S + 1 :
                         m > n /\ shop'[q][m].op = "sell" /\ shop'[q][m].idx = shop'[q][n].idx
    <3>1. CASE n = S + 1
      BY <2>2, <3>1
    <3>2. CASE n \in 1 .. S
      <4>1. shop'[q][n] = shop[q][n] /\ purchases'[shop[q][n].idx] = purchases[shop[q][n].idx]
        BY <1>14, <3>2
      <4> QED BY <2>1, <2>3, <3>2, <4>1
    <3> QED BY <1>5, <3>1, <3>2
  <2> QED BY <1>5, <2>3 DEF FinalOK, Bought, Sale
<1>17. SellsNothing(q) => StackOK(q)'
  <2> SUFFICES ASSUME SellsNothing(q) PROVE StackOK(q)'
    OBVIOUS
  <2>1. StackOK(q)
    BY <1>2
  <2>2. S <= L /\ \A n \in 1 .. S : shop[q][n].op = "buy"
    BY <1>5, <2>1 DEF StackOK, Bought, S, L
  <2>3. \A n \in 1 .. S + 1 : shop'[q][n].op = "buy"
    <3> TAKE n \in 1 .. S + 1
    <3> QED BY <1>5, <1>6, <2>2
  <2>4. \A n \in 1 .. S + 1 : shop'[q][n].idx = pending'[q][(L + 1) - (S + 1) + n]
    <3> TAKE n \in 1 .. S + 1
    <3>1. CASE n = S + 1
      <4>1. (L + 1) - (S + 1) + n = L + 1
        BY <1>4, <1>5, <3>1
      <4> QED BY <1>4, <1>5, <1>6, <3>1, <4>1
    <3>2. CASE n \in 1 .. S
      <4>1. (L + 1) - (S + 1) + n = L - S + n /\ L - S + n \in 1 .. L
        BY <1>4, <1>5, <2>2, <3>2
      <4>2. shop[q][n].idx = pending[q][L - S + n]
        BY <1>5, <2>1, <3>2 DEF StackOK, S, L
      <4> QED BY <1>4, <1>5, <3>2, <4>1, <4>2
    <3> QED BY <1>5, <3>1, <3>2
  <2>5. \A n \in 1 .. S + 1 : \A k \in shop'[q][n].used : k \in Live(q)' /\ k < shop'[q][n].idx
    <3>1. \A k \in used : k \in Live(q) /\ k < idx
      BY <1>1, <1>10, <1>11, <2>1 DEF StackOK
    <3>2. \A n \in 1 .. S : \A k \in shop[q][n].used : k \in Live(q) /\ k < shop[q][n].idx
      BY <1>5, <2>1 DEF StackOK
    <3> QED BY <1>5, <1>6, <1>8, <3>1, <3>2
  <2>6. held'[q] \subseteq Live(q)'
    BY <1>1, <1>8, <2>1 DEF StackOK
  <2>7. \A k \in Live(q)' : IsFinal(purchases'[k].item) => k \in held'[q]
    BY <1>1, <1>8, <1>10, <1>11, <2>1 DEF StackOK
  <2>8. /\ Len(shop'[q]) <= Len(pending'[q])
        /\ \A n \in DOMAIN shop'[q] :
             shop'[q][n].idx = pending'[q][Len(pending'[q]) - Len(shop'[q]) + n]
    <3>1. Len(shop'[q]) = S + 1 /\ Len(pending'[q]) = L + 1 /\ DOMAIN shop'[q] = 1 .. S + 1
      BY <1>4, <1>5
    <3>2. S + 1 <= L + 1
      BY <1>4, <1>5, <2>2
    <3> QED BY <2>4, <3>1, <3>2
  <2> QED BY <1>5, <2>3, <2>5, <2>6, <2>7, <2>8 DEF StackOK, Bought
<1>18. CountsOK(q)'
  <2>1. ASSUME NEW j \in Item, IsFinal(j)
        PROVE  /\ KeptOf(q, j)' <= HeldOf(q, j)'
               /\ <<q, j>> \notin resold => KeptOf(q, j)' = HeldOf(q, j)'
    <3>1. /\ IsFiniteSet(OfItem(Live(q), j)) /\ KeptOf(q, j) \in Nat
          /\ IsFiniteSet(OfItem(held[q], j)) /\ HeldOf(q, j) \in Nat
      BY <1>1, <1>2, CountsAreFinite
    <3>2. KeptOf(q, j) <= HeldOf(q, j) /\ (<<q, j>> \notin resold => KeptOf(q, j) = HeldOf(q, j))
      BY <1>2, <2>1 DEF CountsOK
    <3>3. idx \notin OfItem(Live(q), j) /\ idx \notin OfItem(held[q], j)
      BY <1>2, <1>3, <1>8 DEF OfItem, HeldOK, Owned
    <3>4. \A k \in Live(q) \cup held[q] : purchases'[k] = purchases[k]
      BY <1>2, <1>10, <1>11 DEF HeldOK
    <3>5. CASE j = i
      <4>1. OfItem(Live(q), j)' = OfItem(Live(q), j) \cup {idx}
        BY <1>1, <1>8, <3>4, <3>5 DEF OfItem
      <4>2. OfItem(held[q], j)' = OfItem(held[q], j) \cup {idx}
        BY <1>1, <2>1, <3>4, <3>5 DEF OfItem
      <4>3. KeptOf(q, j)' = KeptOf(q, j) + 1
        BY <3>1, <3>3, <4>1, FS_AddElement DEF KeptOf
      <4>4. HeldOf(q, j)' = HeldOf(q, j) + 1
        BY <3>1, <3>3, <4>2, FS_AddElement DEF HeldOf
      <4> QED BY <3>1, <3>2, <4>3, <4>4
    <3>6. CASE j # i
      <4>1. OfItem(Live(q), j)' = OfItem(Live(q), j)
        BY <1>1, <1>8, <3>4, <3>6 DEF OfItem
      <4>2. OfItem(held[q], j)' = OfItem(held[q], j)
        BY <1>1, <2>1, <3>4, <3>6 DEF OfItem
      <4> QED BY <3>2, <4>1, <4>2 DEF KeptOf, HeldOf
    <3> QED BY <3>5, <3>6
  <2> QED BY <1>1, <2>1 DEF CountsOK
<1> QED BY <1>9, <1>12, <1>13, <1>15, <1>16, <1>17, <1>18 DEF BuyerOK

LEMMA MarkLeaves ==
  ASSUME Types, NEW q \in Buyer, PendingOK(q), NEW i, NEW removal \in {"undo", "sold"},
         Mark(q, i, removal)
  PROVE  /\ purchases' \in Seq(Purchase) /\ pending' \in [Buyer -> Seq(Nat)] /\ KeepsRows
         /\ Len(purchases') = Len(purchases)
         /\ \A r \in Buyer \ {q} :
              /\ pending'[r] = pending[r]
              /\ \A k \in 1 .. Len(purchases) : purchases[k].buyer = r => purchases'[k] = purchases[k]
<1>1. CASE UNCHANGED <<purchases, pending>>
  <2>1. Len(purchases) \in Nat
    BY TypeFacts
  <2> QED BY <1>1, <2>1 DEF Types, KeepsRows
<1>2. CASE \E m \in 1 .. Len(pending[q]) : TakesOut(q, i, removal, m)
  <2>1. PICK m \in 1 .. Len(pending[q]) : TakesOut(q, i, removal, m)
    BY <1>2
  <2>2. /\ purchases' \in Seq(Purchase) /\ Len(purchases') = Len(purchases)
        /\ pending' \in [Buyer -> Seq(Nat)]
        /\ \A r \in Buyer \ {q} : pending'[r] = pending[r]
        /\ KeepsRows
        /\ \A l \in 1 .. Len(purchases) : l # pending[q][m] => purchases'[l] = purchases[l]
        /\ purchases[pending[q][m]].buyer = q
    BY <2>1, TakenIs
  <2> QED BY <2>2
<1> QED BY <1>1, <1>2, MarkIs

\* A sale: the item leaves the player and goes on the stack, and the latest row of
\* its kind is marked, if there is one.
LEMMA SaleTypes ==
  ASSUME ItemInv, NEW q \in Buyer, NEW idx \in held[q], ItemSold(q, idx)
  PROVE  LET e == [op |-> "sell", idx |-> idx, time |-> clock, used |-> {}]
         IN  /\ Types' /\ KeepsRows /\ \A r \in Buyer \ {q} : KeepsBuyer(r)
             /\ Owned(q, idx) /\ purchases[idx].item \in Item
             /\ held'[q] = held[q] \ {idx} /\ resold' = resold
             /\ shop'[q] = Append(shop[q], e) /\ e \in Operation
             /\ Mark(q, purchases[idx].item, "sold")
<1> DEFINE e == [op |-> "sell", idx |-> idx, time |-> clock, used |-> {}]
<1>1. Types /\ clock \in Nat /\ PendingOK(q) /\ HeldOK(q)
  BY DEF ItemInv, BuyerOK, Types
<1>2. /\ held' = [held EXCEPT ![q] = held[q] \ {idx}]
      /\ shop' = [shop EXCEPT ![q] = Append(shop[q], e)]
      /\ resold' = resold /\ clock' = clock
      /\ Mark(q, purchases[idx].item, "sold")
  BY Zenon DEF ItemSold, ShopEvent
<1>3. Owned(q, idx) /\ purchases[idx].item \in Item
  BY <1>1, TypeFacts DEF HeldOK, Owned, Purchase
<1>4. e \in Operation
  BY <1>1, TypeFacts DEF Operation
<1>5. held' \in [Buyer -> SUBSET Nat] /\ held'[q] = held[q] \ {idx}
  BY <1>1, <1>2 DEF Types
<1>6. shop' \in [Buyer -> Seq(Operation)] /\ shop'[q] = Append(shop[q], e)
  <2>1. Append(shop[q], e) \in Seq(Operation)
    BY <1>1, <1>4, AppendIs, TypeFacts
  <2> HIDE DEF e
  <2> QED BY <1>1, <1>2, <2>1 DEF Types
<1>7. /\ purchases' \in Seq(Purchase) /\ pending' \in [Buyer -> Seq(Nat)] /\ KeepsRows
      /\ Len(purchases') = Len(purchases)
      /\ \A r \in Buyer \ {q} :
           /\ pending'[r] = pending[r]
           /\ \A k \in 1 .. Len(purchases) : purchases[k].buyer = r => purchases'[k] = purchases[k]
  BY <1>1, <1>2, MarkLeaves
<1>8. Types'
  BY <1>1, <1>2, <1>5, <1>6, <1>7 DEF Types
<1>9. \A r \in Buyer \ {q} : KeepsBuyer(r)
  <2> TAKE r \in Buyer \ {q}
  <2>1. held'[r] = held[r] /\ shop'[r] = shop[r]
    BY <1>1, <1>2 DEF Types
  <2> QED BY <1>2, <1>7, <2>1 DEF KeepsBuyer
<1> QED BY <1>2, <1>3, <1>4, <1>5, <1>6, <1>7, <1>8, <1>9

\* What a mark means for the buyer himself: one live row less of the item, if there
\* is one, and the same rows otherwise.
LEMMA MarkedRows ==
  ASSUME Types, NEW q \in Buyer, PendingOK(q), HeldOK(q), NEW i, NEW removal \in {"undo", "sold"},
         Mark(q, i, removal)
  PROVE  /\ PendingOK(q)'
         /\ \A k : Owned(q, k)' <=> Owned(q, k)
         /\ \A k : Owned(q, k) => purchases'[k].item = purchases[k].item
         /\ \A j : j # i => KeptOf(q, j)' = KeptOf(q, j)
         /\ KeptOf(q, i)' = IF KeptOf(q, i) = 0 THEN 0 ELSE KeptOf(q, i) - 1
         /\ removal = "undo" => SellsNothing(q)' = SellsNothing(q)
         /\ removal = "sold" /\ SellsNothing(q)' => \A k \in Live(q) : purchases[k].item # i
<1>1. /\ purchases' \in Seq(Purchase) /\ KeepsRows /\ Len(purchases') = Len(purchases)
      /\ Len(purchases) \in Nat /\ DOMAIN purchases = 1 .. Len(purchases)
  BY MarkLeaves, TypeFacts
<1>2. DOMAIN purchases' = 1 .. Len(purchases)
  BY <1>1, LenProperties
<1>3. \A k : Owned(q, k)' <=> Owned(q, k)
  BY <1>1, <1>2 DEF Owned, KeepsRows
<1>4. \A k : Owned(q, k) => purchases'[k].item = purchases[k].item
  BY <1>1 DEF Owned, KeepsRows
<1>5. \A j : IsFiniteSet(OfItem(Live(q), j)) /\ KeptOf(q, j) \in Nat
  BY CountsAreFinite
<1>6. CASE UNCHANGED <<purchases, pending>> /\ \A k \in Live(q) : purchases[k].item # i
  <2>1. Live(q)' = Live(q) /\ SellsNothing(q)' = SellsNothing(q) /\ PendingOK(q)'
        /\ \A j : OfItem(Live(q), j)' = OfItem(Live(q), j)
    BY <1>6 DEF Live, Rows, SellsNothing, PendingOK, OfItem
  <2>2. \A j : KeptOf(q, j)' = KeptOf(q, j)
    BY <2>1 DEF KeptOf
  <2>3. KeptOf(q, i) = 0
    <3>1. OfItem(Live(q), i) = {}
      BY <1>6 DEF OfItem
    <3> QED BY <3>1, FS_EmptySet DEF KeptOf
  <2> QED BY <1>3, <1>4, <1>6, <2>1, <2>2, <2>3
<1>7. CASE \E m \in 1 .. Len(pending[q]) : TakesOut(q, i, removal, m)
  <2>1. PICK m \in 1 .. Len(pending[q]) : TakesOut(q, i, removal, m)
    BY <1>7
  <2> DEFINE k == pending[q][m]
  <2>2. /\ k \in Live(q) /\ purchases[k].item = i
        /\ removal = "undo" => SellsNothing(q)' = SellsNothing(q)
        /\ removal = "sold" => ~ SellsNothing(q)'
        /\ \A j : OfItem(Live(q), j)' = OfItem(Live(q), j) \ {k}
        /\ PendingOK(q)'
    BY <2>1, TakenLive
  <2> HIDE DEF k
  <2>3. \A j : j # i => k \notin OfItem(Live(q), j)
    BY <2>2 DEF OfItem
  <2>4. k \in OfItem(Live(q), i)
    BY <2>2 DEF OfItem
  <2>5. ASSUME NEW j, j # i
        PROVE  KeptOf(q, j)' = KeptOf(q, j)
    <3>1. OfItem(Live(q), j)' = OfItem(Live(q), j)
      BY <2>2, <2>3, <2>5
    <3> QED BY <3>1 DEF KeptOf
  <2>6. KeptOf(q, i)' = KeptOf(q, i) - 1 /\ KeptOf(q, i) # 0
    <3> DEFINE A == OfItem(Live(q), i)
    <3>1. IsFiniteSet(A) /\ k \in A /\ Cardinality(A) \in Nat
      BY <1>5, <2>4 DEF KeptOf
    <3> HIDE DEF A
    <3>2. Cardinality(A \ {k}) = Cardinality(A) - 1 /\ A # {}
      BY <3>1, FS_RemoveElement
    <3>3. Cardinality(A) # 0
      BY <3>1, <3>2, FS_EmptySet
    <3> QED BY <2>2, <3>2, <3>3 DEF KeptOf, A
  <2> QED BY <1>3, <1>4, <2>2, <2>5, <2>6
<1> QED BY <1>6, <1>7, MarkIs

LEMMA SaleOK ==
  ASSUME ItemInv, NEW q \in Buyer, NEW idx \in held[q], ItemSold(q, idx)
  PROVE  BuyerOK(q)'
<1> DEFINE e == [op |-> "sell", idx |-> idx, time |-> clock, used |-> {}]
           S == Len(shop[q])
<1>0. PICK i \in Item : i = purchases[idx].item
  BY SaleTypes
<1>1. /\ Types /\ Types' /\ Owned(q, idx)
      /\ held'[q] = held[q] \ {idx} /\ resold' = resold
      /\ shop'[q] = Append(shop[q], e) /\ e \in Operation
      /\ Mark(q, i, "sold")
  BY <1>0, SaleTypes DEF ItemInv
<1>2. PendingOK(q) /\ HeldOK(q) /\ ShopOK(q) /\ FinalOK(q) /\ CountsOK(q)
      /\ (SellsNothing(q) => StackOK(q))
  BY DEF ItemInv, BuyerOK
<1>3. /\ PendingOK(q)'
      /\ \A k : Owned(q, k)' <=> Owned(q, k)
      /\ \A k : Owned(q, k) => purchases'[k].item = purchases[k].item
      /\ \A j : j # i => KeptOf(q, j)' = KeptOf(q, j)
      /\ KeptOf(q, i)' = IF KeptOf(q, i) = 0 THEN 0 ELSE KeptOf(q, i) - 1
      /\ SellsNothing(q)' => \A k \in Live(q) : purchases[k].item # i
  <2> DEFINE removal == "sold"
  <2>1. removal \in {"undo", "sold"} /\ Mark(q, i, removal) /\ removal = "sold"
    BY <1>1
  <2> HIDE DEF removal, e
  <2> QED BY <1>1, <1>2, <2>1, MarkedRows
<1>5. /\ S \in Nat /\ DOMAIN shop[q] = 1 .. S /\ DOMAIN shop'[q] = 1 .. S + 1
      /\ shop'[q][S + 1] = e /\ \A n \in 1 .. S : shop'[q][n] = shop[q][n]
      /\ \A n \in 1 .. S + 1 : n \in 1 .. S \/ n = S + 1
      /\ \A n \in 1 .. S : n \in 1 .. S + 1 /\ n < S + 1
  <2>1. shop[q] \in Seq(Operation) /\ S \in Nat /\ DOMAIN shop[q] = 1 .. S
    BY <1>1, TypeFacts
  <2> HIDE DEF e
  <2>2. /\ shop'[q] \in Seq(Operation) /\ Len(shop'[q]) = S + 1
        /\ shop'[q][S + 1] = e /\ \A n \in 1 .. S : shop'[q][n] = shop[q][n]
    BY <1>1, <2>1, AppendIs
  <2> QED BY <2>1, <2>2, LenProperties
<1>6. e.op = "sell" /\ e.idx = idx /\ e.used = {}
  OBVIOUS
<1> HIDE DEF e, S
<1>7. HeldOK(q)'
  BY <1>1, <1>2, <1>3 DEF HeldOK
<1>8. \A n \in 1 .. S : Owned(q, shop[q][n].idx)
                       /\ purchases'[shop[q][n].idx].item = purchases[shop[q][n].idx].item
  BY <1>2, <1>3, <1>5 DEF ShopOK
<1>9. \A k : Owned(q, k) => k \in DOMAIN purchases' /\ purchases'[k].buyer = q
                           /\ purchases'[k].item = purchases[k].item
  BY <1>3 DEF Owned
<1>10. ShopOK(q)'
  <2>1. \A n \in 1 .. S + 1 :
          shop'[q][n].idx \in DOMAIN purchases' /\ purchases'[shop'[q][n].idx].buyer = q
    <3> TAKE n \in 1 .. S + 1
    <3>1. Owned(q, idx) /\ (n \in 1 .. S => Owned(q, shop[q][n].idx))
      BY <1>1, <1>8
    <3>2. shop'[q][n].idx = IF n \in 1 .. S THEN shop[q][n].idx ELSE idx
      BY <1>5, <1>6
    <3> QED BY <1>9, <3>1, <3>2
  <2>2. \A n \in 1 .. S + 1 : \A k \in shop'[q][n].used :
          k \in DOMAIN purchases' /\ purchases'[k].buyer = q /\ ~ IsFinal(purchases'[k].item)
    <3>1. \A n \in 1 .. S : \A k \in shop[q][n].used : Owned(q, k) /\ ~ IsFinal(purchases[k].item)
      BY <1>2, <1>5 DEF ShopOK
    <3> QED BY <1>5, <1>6, <1>9, <3>1
  <2>3. ASSUME NEW m \in 1 .. S + 1, NEW n \in 1 .. S + 1, m < n,
               shop'[q][m].op = "buy", shop'[q][n].op = "buy"
        PROVE  shop'[q][m].idx < shop'[q][n].idx
    <3>1. m \in 1 .. S /\ n \in 1 .. S
      BY <1>5, <1>6, <2>3
    <3>2. shop[q][m].idx < shop[q][n].idx
      BY <1>2, <1>5, <2>3, <3>1 DEF ShopOK, Bought
    <3> QED BY <1>5, <3>1, <3>2
  <2> QED BY <1>5, <2>1, <2>2, <2>3 DEF ShopOK, Bought, Owned
<1>11. FinalOK(q)'
  <2>1. ASSUME NEW n \in 1 .. S, IsFinal(purchases[shop[q][n].idx].item)
        PROVE  /\ shop[q][n].op = "sell" =>
                    /\ shop[q][n].idx \notin held[q]
                    /\ \A m \in 1 .. S :
                         shop[q][m].op = "sell" /\ m # n => shop[q][m].idx # shop[q][n].idx
               /\ shop[q][n].op = "buy" =>
                    \/ shop[q][n].idx \in held[q]
                    \/ \E m \in 1 .. S :
                         m > n /\ shop[q][m].op = "sell" /\ shop[q][m].idx = shop[q][n].idx
    BY <1>2, <1>5, <2>1 DEF FinalOK, Bought, Sale
  <2>2. ASSUME NEW n \in 1 .. S + 1, IsFinal(purchases'[shop'[q][n].idx].item),
               shop'[q][n].op = "sell"
        PROVE  /\ shop'[q][n].idx \notin held'[q]
               /\ \A m \in 1 .. S + 1 :
                    shop'[q][m].op = "sell" /\ m # n => shop'[q][m].idx # shop'[q][n].idx
    <3>1. ASSUME NEW a \in 1 .. S, IsFinal(purchases'[shop[q][a].idx].item), shop[q][a].op = "sell"
          PROVE  shop[q][a].idx # idx /\ shop[q][a].idx \notin held'[q]
      <4>1. shop[q][a].idx \notin held[q]
        BY <1>8, <2>1, <3>1
      <4> QED BY <1>1, <4>1
    <3>2. CASE n = S + 1
      <4>1. shop'[q][n].idx = idx /\ idx \notin held'[q]
        BY <1>1, <1>5, <1>6, <3>2
      <4>2. ASSUME NEW m \in 1 .. S + 1, shop'[q][m].op = "sell", m # n, shop'[q][m].idx = idx
            PROVE  FALSE
        <5>1. m \in 1 .. S /\ shop'[q][m] = shop[q][m]
          BY <1>5, <3>2, <4>2
        <5> QED BY <2>2, <3>1, <4>1, <4>2, <5>1
      <4> QED BY <4>1, <4>2
    <3>3. CASE n \in 1 .. S
      <4>1. shop'[q][n] = shop[q][n]
        BY <1>5, <3>3
      <4>2. shop[q][n].idx # idx /\ shop[q][n].idx \notin held'[q]
        BY <2>2, <3>1, <3>3, <4>1
      <4>3. IsFinal(purchases[shop[q][n].idx].item)
        BY <1>8, <2>2, <3>3, <4>1
      <4>4. \A m \in 1 .. S : shop[q][m].op = "sell" /\ m # n => shop[q][m].idx # shop[q][n].idx
        BY <2>1, <2>2, <3>3, <4>1, <4>3
      <4> QED BY <1>5, <1>6, <4>1, <4>2, <4>4
    <3> QED BY <1>5, <3>2, <3>3
  <2>3. ASSUME NEW n \in 1 .. S + 1, IsFinal(purchases'[shop'[q][n].idx].item),
               shop'[q][n].op = "buy"
        PROVE  \/ shop'[q][n].idx \in held'[q]
               \/ \E m \in 1 .. S + 1 :
                    m > n /\ shop'[q][m].op = "sell" /\ shop'[q][m].idx = shop'[q][n].idx
    <3>1. n \in 1 .. S /\ shop'[q][n] = shop[q][n]
      BY <1>5, <1>6, <2>3
    <3>2. IsFinal(purchases[shop[q][n].idx].item)
      BY <1>8, <2>3, <3>1
    <3>3. CASE shop[q][n].idx = idx
      <4>1. S + 1 \in 1 .. S + 1 /\ S + 1 > n
        BY <1>5, <3>1
      <4> QED BY <1>5, <1>6, <3>1, <3>3, <4>1
    <3>4. CASE shop[q][n].idx # idx
      <4>1. \/ shop[q][n].idx \in held[q]
            \/ \E m \in 1 .. S : m > n /\ shop[q][m].op = "sell" /\ shop[q][m].idx = shop[q][n].idx
        BY <2>1, <2>3, <3>1, <3>2
      <4> QED BY <1>1, <1>5, <3>1, <3>4, <4>1
    <3> QED BY <3>3, <3>4
  <2> QED BY <1>5, <2>2, <2>3 DEF FinalOK, Bought, Sale
<1>12. ~ SellsNothing(q)'
  <2> SUFFICES ASSUME SellsNothing(q)' PROVE FALSE
    OBVIOUS
  <2>1. \A k \in Live(q) : purchases[k].item # i
    BY <1>3
  <2>2. idx \notin Live(q)
    BY <1>0, <2>1
  <2>3. ~ SellsNothing(q)
    BY <1>2, <2>2 DEF StackOK
  <2>4. UNCHANGED purchases
    <3>1. \/ UNCHANGED purchases
          \/ \E m \in 1 .. Len(pending[q]) : TakesOut(q, i, "sold", m)
      BY <1>1, <1>2, MarkIs
    <3>2. ASSUME NEW m \in 1 .. Len(pending[q]), TakesOut(q, i, "sold", m)
          PROVE  FALSE
      BY <2>1, <3>2 DEF TakesOut
    <3> QED BY <3>1, <3>2
  <2> QED BY <2>3, <2>4 DEF SellsNothing, Rows
<1>13. CountsOK(q)'
  <2>1. ASSUME NEW j \in Item, IsFinal(j)
        PROVE  /\ KeptOf(q, j)' <= HeldOf(q, j)'
               /\ <<q, j>> \notin resold => KeptOf(q, j)' = HeldOf(q, j)'
    <3>1. /\ KeptOf(q, j) \in Nat /\ IsFiniteSet(OfItem(held[q], j)) /\ HeldOf(q, j) \in Nat
      BY <1>1, <1>2, CountsAreFinite
    <3>2. KeptOf(q, j) <= HeldOf(q, j) /\ (<<q, j>> \notin resold => KeptOf(q, j) = HeldOf(q, j))
      BY <1>2, <2>1 DEF CountsOK
    <3>3. OfItem(held[q], j)' = OfItem(held[q], j) \ {idx}
      BY <1>1, <1>2, <1>3 DEF OfItem, HeldOK
    <3>4. CASE j = i
      <4>1. idx \in OfItem(held[q], j)
        BY <1>0, <3>4 DEF OfItem
      <4>2. HeldOf(q, j)' = HeldOf(q, j) - 1
        BY <3>1, <3>3, <4>1, FS_RemoveElement DEF HeldOf
      <4>3. HeldOf(q, j) # 0
        BY <3>1, <4>1, FS_EmptySet DEF HeldOf
      <4> DEFINE kept == KeptOf(q, j)  have == HeldOf(q, j)
      <4>4. KeptOf(q, j)' = IF kept = 0 THEN 0 ELSE kept - 1
        BY <1>3, <3>4
      <4>5. kept \in Nat /\ have \in Nat /\ have # 0 /\ kept <= have /\ HeldOf(q, j)' = have - 1
            /\ (<<q, j>> \notin resold => kept = have)
        BY <3>1, <3>2, <4>2, <4>3
      <4> HIDE DEF kept, have
      <4> QED BY <4>4, <4>5
    <3>5. CASE j # i
      <4>1. idx \notin OfItem(held[q], j)
        BY <1>0, <3>5 DEF OfItem
      <4>2. HeldOf(q, j)' = HeldOf(q, j)
        BY <3>3, <4>1 DEF HeldOf
      <4> QED BY <1>3, <3>2, <3>5, <4>2
    <3> QED BY <3>4, <3>5
  <2> QED BY <1>1, <2>1 DEF CountsOK
<1> QED BY <1>3, <1>7, <1>10, <1>11, <1>12, <1>13 DEF BuyerOK

\* The undo of a purchase: the item leaves the player, what it used up comes back,
\* the purchase leaves the stack, and the latest row of its kind is marked.
LEMMA UndoTypes ==
  ASSUME ItemInv, NEW q \in Buyer, UndoPurchase(q)
  PROVE  LET e == Last(shop[q])
         IN  /\ Types' /\ KeepsRows /\ \A r \in Buyer \ {q} : KeepsBuyer(r)
             /\ shop[q] # <<>> /\ e.op = "buy" /\ e.idx \in Nat
             /\ Owned(q, e.idx) /\ purchases[e.idx].item \in Item
             /\ held'[q] = (held[q] \ {e.idx}) \cup e.used /\ resold' = resold
             /\ shop'[q] = Front(shop[q])
             /\ Mark(q, purchases[e.idx].item, "undo")
<1> DEFINE e == Last(shop[q])
<1>1. Types /\ PendingOK(q) /\ ShopOK(q)
  BY DEF ItemInv, BuyerOK
<1>2. /\ held' = [held EXCEPT ![q] = (held[q] \ {e.idx}) \cup e.used]
      /\ shop' = [shop EXCEPT ![q] = Front(shop[q])]
      /\ resold' = resold /\ clock' = clock
      /\ Mark(q, purchases[e.idx].item, "undo")
      /\ shop[q] # <<>> /\ e.op = "buy"
  BY Zenon DEF UndoPurchase, ShopEvent
<1>3. /\ Len(shop[q]) \in Nat \ {0} /\ e = shop[q][Len(shop[q])] /\ e \in Operation
      /\ Front(shop[q]) \in Seq(Operation)
  BY <1>1, <1>2, FrontIs, TypeFacts
<1>4. /\ e.idx \in Nat /\ e.used \subseteq Nat
      /\ Owned(q, e.idx) /\ purchases[e.idx].item \in Item
  <2>1. Len(shop[q]) \in DOMAIN shop[q]
    BY <1>1, <1>3, TypeFacts
  <2>2. Owned(q, e.idx)
    BY <1>1, <1>3, <2>1 DEF ShopOK
  <2>3. e.idx \in Nat /\ e.used \subseteq Nat
    BY <1>3 DEF Operation
  <2> HIDE DEF e
  <2> QED BY <1>1, <2>2, <2>3, TypeFacts DEF Owned, Purchase
<1> HIDE DEF e
<1>5. held' \in [Buyer -> SUBSET Nat] /\ held'[q] = (held[q] \ {e.idx}) \cup e.used
  BY <1>1, <1>2, <1>4 DEF Types
<1>6. shop' \in [Buyer -> Seq(Operation)] /\ shop'[q] = Front(shop[q])
  BY <1>1, <1>2, <1>3 DEF Types
<1>7. /\ purchases' \in Seq(Purchase) /\ pending' \in [Buyer -> Seq(Nat)] /\ KeepsRows
      /\ Len(purchases') = Len(purchases)
      /\ \A r \in Buyer \ {q} :
           /\ pending'[r] = pending[r]
           /\ \A k \in 1 .. Len(purchases) : purchases[k].buyer = r => purchases'[k] = purchases[k]
  BY <1>1, <1>2, MarkLeaves
<1>8. Types'
  BY <1>1, <1>2, <1>5, <1>6, <1>7 DEF Types
<1>9. \A r \in Buyer \ {q} : KeepsBuyer(r)
  <2> TAKE r \in Buyer \ {q}
  <2>1. held'[r] = held[r] /\ shop'[r] = shop[r]
    BY <1>1, <1>2 DEF Types
  <2> QED BY <1>2, <1>7, <2>1 DEF KeepsBuyer
<1> QED BY <1>2, <1>4, <1>5, <1>6, <1>7, <1>8, <1>9 DEF e

LEMMA UndoOK ==
  ASSUME ItemInv, NEW q \in Buyer, UndoPurchase(q)
  PROVE  BuyerOK(q)'
<1> DEFINE S == Len(shop[q])  L == Len(pending[q])
<1>0. PICK e \in Operation, idx \in Nat, i \in Item, used \in SUBSET Nat :
        /\ e = Last(shop[q]) /\ idx = e.idx /\ i = purchases[idx].item /\ used = e.used
  <2>1. Types /\ shop[q] # <<>> /\ Last(shop[q]).idx \in Nat
        /\ purchases[Last(shop[q]).idx].item \in Item
    BY UndoTypes DEF ItemInv
  <2>2. Last(shop[q]) \in Operation
    BY <2>1, FrontIs, TypeFacts
  <2>3. Last(shop[q]).used \in SUBSET Nat
    BY <2>2 DEF Operation
  <2> QED BY <2>1, <2>2, <2>3
<1>1. /\ Types /\ Types' /\ shop[q] # <<>> /\ e.op = "buy" /\ Owned(q, idx)
      /\ held'[q] = (held[q] \ {idx}) \cup used /\ resold' = resold
      /\ shop'[q] = Front(shop[q])
      /\ Mark(q, i, "undo")
  BY <1>0, UndoTypes DEF ItemInv
<1>2. PendingOK(q) /\ HeldOK(q) /\ ShopOK(q) /\ FinalOK(q) /\ CountsOK(q)
      /\ (SellsNothing(q) => StackOK(q))
  BY DEF ItemInv, BuyerOK
<1>3. /\ PendingOK(q)'
      /\ \A k : Owned(q, k)' <=> Owned(q, k)
      /\ \A k : Owned(q, k) => purchases'[k].item = purchases[k].item
      /\ \A j : j # i => KeptOf(q, j)' = KeptOf(q, j)
      /\ KeptOf(q, i)' = IF KeptOf(q, i) = 0 THEN 0 ELSE KeptOf(q, i) - 1
      /\ SellsNothing(q)' = SellsNothing(q)
  <2> DEFINE removal == "undo"
  <2>1. removal \in {"undo", "sold"} /\ Mark(q, i, removal) /\ removal = "undo"
    BY <1>1
  <2> HIDE DEF removal
  <2> QED BY <1>1, <1>2, <2>1, MarkedRows
<1>4. /\ S \in Nat \ {0} /\ DOMAIN shop[q] = 1 .. S /\ DOMAIN shop'[q] = 1 .. S - 1
      /\ Len(shop'[q]) = S - 1
      /\ S \in 1 .. S /\ shop[q][S] = e
      /\ \A n \in 1 .. S - 1 : n \in 1 .. S /\ n < S /\ shop'[q][n] = shop[q][n]
      /\ \A n \in 1 .. S : n = S \/ n \in 1 .. S - 1
  <2>1. shop[q] \in Seq(Operation) /\ S \in Nat /\ DOMAIN shop[q] = 1 .. S
    BY <1>1, TypeFacts
  <2>2. /\ S \in Nat \ {0} /\ e = shop[q][S]
        /\ shop'[q] \in Seq(Operation) /\ Len(shop'[q]) = S - 1
        /\ \A n \in 1 .. S - 1 : shop'[q][n] = shop[q][n]
    BY <1>0, <1>1, <2>1, FrontIs
  <2>3. DOMAIN shop'[q] = 1 .. S - 1
    BY <2>2, LenProperties
  <2> HIDE DEF S
  <2> QED BY <2>1, <2>2, <2>3
<1>5. /\ L \in Nat /\ DOMAIN pending[q] = 1 .. L
      /\ \A n \in 1 .. L : pending[q][n] \in Nat
      /\ held[q] \subseteq Nat
  BY <1>1, TypeFacts
<1>6. \A k \in used : Owned(q, k) /\ ~ IsFinal(purchases[k].item)
  BY <1>0, <1>2, <1>4 DEF ShopOK
<1>7. ASSUME NEW n \in 1 .. S - 1
      PROVE  /\ Owned(q, shop[q][n].idx) /\ shop'[q][n] = shop[q][n]
             /\ purchases'[shop[q][n].idx].item = purchases[shop[q][n].idx].item
             /\ shop[q][n].op = "buy" => shop[q][n].idx < idx
  <2>1. Owned(q, shop[q][n].idx) /\ shop'[q][n] = shop[q][n]
    BY <1>2, <1>4 DEF ShopOK
  <2>2. shop[q][n].op = "buy" => shop[q][n].idx < idx
    BY <1>0, <1>1, <1>2, <1>4 DEF ShopOK, Bought
  <2> QED BY <1>3, <2>1, <2>2
<1> HIDE DEF S, L
<1>8. HeldOK(q)'
  BY <1>1, <1>2, <1>3, <1>6 DEF HeldOK
<1>9. \A k : Owned(q, k) => k \in DOMAIN purchases' /\ purchases'[k].buyer = q
                           /\ purchases'[k].item = purchases[k].item
  BY <1>3 DEF Owned
<1>10. ShopOK(q)'
  <2>1. \A n \in 1 .. S - 1 :
          shop'[q][n].idx \in DOMAIN purchases' /\ purchases'[shop'[q][n].idx].buyer = q
    BY <1>7, <1>9
  <2>2. \A n \in 1 .. S - 1 : \A k \in shop'[q][n].used :
          k \in DOMAIN purchases' /\ purchases'[k].buyer = q /\ ~ IsFinal(purchases'[k].item)
    <3>1. \A n \in 1 .. S - 1 : \A k \in shop[q][n].used :
            Owned(q, k) /\ ~ IsFinal(purchases[k].item)
      BY <1>2, <1>4 DEF ShopOK
    <3> QED BY <1>7, <1>9, <3>1
  <2>3. \A m, n \in 1 .. S - 1 :
          m < n /\ shop'[q][m].op = "buy" /\ shop'[q][n].op = "buy"
            => shop'[q][m].idx < shop'[q][n].idx
    BY <1>2, <1>4 DEF ShopOK, Bought
  <2> QED BY <1>4, <2>1, <2>2, <2>3 DEF ShopOK, Bought, Owned
<1>11. FinalOK(q)'
  <2>1. ASSUME NEW n \in 1 .. S - 1, IsFinal(purchases[shop[q][n].idx].item)
        PROVE  /\ shop[q][n].op = "sell" =>
                    /\ shop[q][n].idx \notin held'[q]
                    /\ \A m \in 1 .. S - 1 :
                         shop[q][m].op = "sell" /\ m # n => shop[q][m].idx # shop[q][n].idx
               /\ shop[q][n].op = "buy" =>
                    \/ shop[q][n].idx \in held'[q]
                    \/ \E m \in 1 .. S - 1 :
                         m > n /\ shop[q][m].op = "sell" /\ shop[q][m].idx = shop[q][n].idx
    <3>1. /\ shop[q][n].op = "sell" =>
               /\ shop[q][n].idx \notin held[q]
               /\ \A m \in 1 .. S :
                    shop[q][m].op = "sell" /\ m # n => shop[q][m].idx # shop[q][n].idx
          /\ shop[q][n].op = "buy" =>
               \/ shop[q][n].idx \in held[q]
               \/ \E m \in 1 .. S : m > n /\ shop[q][m].op = "sell" /\ shop[q][m].idx = shop[q][n].idx
      BY <1>2, <1>4, <2>1 DEF FinalOK, Bought, Sale
    <3>2. shop[q][n].idx \notin used
      BY <1>6, <2>1
    <3>3. shop[q][n].op = "buy" => shop[q][n].idx # idx
      <4>1. shop[q][n].idx \in Nat
        BY <1>4, <1>1, TypeFacts DEF Operation
      <4> QED BY <1>7, <4>1
    <3>4. \A m \in 1 .. S : shop[q][m].op = "sell" => m \in 1 .. S - 1
      BY <1>1, <1>4
    <3> QED BY <1>1, <1>4, <3>1, <3>2, <3>3, <3>4
  <2>2. \A n \in 1 .. S - 1 : IsFinal(purchases'[shop'[q][n].idx].item)
                              => IsFinal(purchases[shop[q][n].idx].item)
    BY <1>7
  <2>3. ASSUME NEW n \in 1 .. S - 1, IsFinal(purchases'[shop'[q][n].idx].item)
        PROVE  /\ shop'[q][n].op = "sell" =>
                    /\ shop'[q][n].idx \notin held'[q]
                    /\ \A m \in 1 .. S - 1 :
                         shop'[q][m].op = "sell" /\ m # n => shop'[q][m].idx # shop'[q][n].idx
               /\ shop'[q][n].op = "buy" =>
                    \/ shop'[q][n].idx \in held'[q]
                    \/ \E m \in 1 .. S - 1 :
                         m > n /\ shop'[q][m].op = "sell" /\ shop'[q][m].idx = shop'[q][n].idx
    <3>1. \A m \in 1 .. S - 1 : shop'[q][m] = shop[q][m]
      BY <1>4
    <3> QED BY <2>1, <2>2, <2>3, <3>1
  <2> QED BY <1>4, <2>3 DEF FinalOK, Bought, Sale
<1>12. SellsNothing(q) => StackOK(q)'
  <2> SUFFICES ASSUME SellsNothing(q) PROVE StackOK(q)'
    OBVIOUS
  <2>1. StackOK(q)
    BY <1>2
  <2>2. S <= L /\ \A n \in 1 .. S : shop[q][n].op = "buy"
    BY <1>4, <2>1 DEF StackOK, Bought, S, L
  <2>3. idx = pending[q][L] /\ L \in 1 .. L /\ idx \in Live(q)
    <3>1. shop[q][S].idx = pending[q][L - S + S] /\ L - S + S = L /\ L \in 1 .. L
      <4>1. L - S + S = L /\ L \in 1 .. L
        BY <1>4, <1>5, <2>2
      <4>2. shop[q][S].idx = pending[q][L - S + S]
        BY <1>4, <2>1 DEF StackOK, S, L
      <4> QED BY <4>1, <4>2
    <3> QED BY <1>0, <1>2, <1>4, <1>5, <3>1 DEF PendingOK
  <2>4. \A n \in 1 .. L : pending[q][n] = idx => n = L
    BY <1>2, <1>5, <2>3 DEF PendingOK
  <2>5. \A k \in Live(q) : k <= idx /\ k \in Nat
    <3> TAKE k \in Live(q)
    <3>1. PICK n \in 1 .. L : pending[q][n] = k
      BY <1>2, <1>5 DEF PendingOK
    <3>2. n < L => pending[q][n] < pending[q][L]
      BY <1>2, <1>5, <2>3 DEF PendingOK
    <3> QED BY <1>5, <2>3, <3>1, <3>2
  <2>6. TakesOut(q, i, "undo", L)
    <3>1. PICK m \in 1 .. Len(pending[q]) : TakesOut(q, i, "undo", m)
      BY <1>0, <1>1, <1>2, <2>3, MarkIs
    <3>2. /\ pending[q][m] \in Live(q)
          /\ \A l \in Live(q) : purchases[l].item = i => l <= pending[q][m]
      BY <3>1 DEF TakesOut
    <3>3. idx <= pending[q][m] /\ pending[q][m] <= idx
      BY <1>0, <2>3, <2>5, <3>2
    <3>4. pending[q][m] \in Nat /\ m \in 1 .. L
      BY <1>5 DEF L
    <3>5. pending[q][m] = idx
      BY <3>3, <3>4
    <3> QED BY <2>4, <3>1, <3>4, <3>5
  <2>7. /\ Live(q)' = Live(q) \ {idx} /\ Len(pending'[q]) = L - 1
        /\ \A n \in 1 .. L - 1 : pending'[q][n] = pending[q][n]
    <3> DEFINE removal == "undo"
    <3>1. removal \in {"undo", "sold"} /\ TakesOut(q, i, removal, L)
      BY <2>6
    <3> HIDE DEF removal
    <3>2. Live(q)' = Live(q) \ {pending[q][L]}
      BY <1>1, <1>2, <3>1, TakenLive
    <3>3. /\ Len(pending'[q]) = L - 1
          /\ \A n \in 1 .. L - 1 :
               pending'[q][n] = IF n < L THEN pending[q][n] ELSE pending[q][n + 1]
      BY <1>1, <1>2, <3>1, TakenIs DEF L
    <3> QED BY <1>5, <2>3, <3>2, <3>3
  <2>8. \A n \in 1 .. S - 1 : shop'[q][n].idx = pending'[q][(L - 1) - (S - 1) + n]
    <3> TAKE n \in 1 .. S - 1
    <3>1. (L - 1) - (S - 1) + n = L - S + n /\ L - S + n \in 1 .. L - 1
      BY <1>4, <1>5, <2>2
    <3>2. shop[q][n].idx = pending[q][L - S + n]
      BY <1>4, <2>1 DEF StackOK, S, L
    <3> QED BY <1>7, <2>7, <3>1, <3>2
  <2>9. \A n \in 1 .. S - 1 : \A k \in shop'[q][n].used : k \in Live(q)' /\ k < shop'[q][n].idx
    <3> TAKE n \in 1 .. S - 1
    <3>1. \A k \in shop[q][n].used : k \in Live(q) /\ k < shop[q][n].idx
      BY <1>4, <2>1 DEF StackOK
    <3>2. shop[q][n].idx < idx /\ shop[q][n].idx \in Nat
      <4>1. shop[q][n].idx \in Nat
        BY <1>1, <1>4, TypeFacts DEF Operation
      <4> QED BY <1>4, <1>7, <2>2, <4>1
    <3> QED BY <1>7, <2>5, <2>7, <3>1, <3>2
  <2>10. held'[q] \subseteq Live(q)'
    <3>1. \A k \in used : k \in Live(q) /\ k < idx
      BY <1>0, <1>4, <2>1 DEF StackOK
    <3>2. \A k \in used : k \in Live(q) \ {idx}
      BY <2>5, <3>1
    <3> QED BY <1>1, <2>1, <2>7, <3>2 DEF StackOK
  <2>11. \A k \in Live(q)' : IsFinal(purchases'[k].item) => k \in held'[q]
    <3>1. \A k \in Live(q) : Owned(q, k)
      BY DEF Live, Rows, Owned
    <3> QED BY <1>1, <1>3, <2>1, <2>7, <3>1 DEF StackOK
  <2>12. /\ Len(shop'[q]) <= Len(pending'[q])
         /\ \A n \in DOMAIN shop'[q] :
              shop'[q][n].idx = pending'[q][Len(pending'[q]) - Len(shop'[q]) + n]
    <3>1. Len(shop'[q]) = S - 1 /\ Len(pending'[q]) = L - 1 /\ DOMAIN shop'[q] = 1 .. S - 1
      BY <1>4, <2>7
    <3>2. S - 1 <= L - 1
      BY <1>4, <1>5, <2>2
    <3> QED BY <2>8, <3>1, <3>2
  <2>13. \A n \in 1 .. S - 1 : shop'[q][n].op = "buy"
    BY <1>4, <2>2
  <2> QED BY <1>4, <2>9, <2>10, <2>11, <2>12, <2>13 DEF StackOK, Bought
<1>13. CountsOK(q)'
  <2>1. ASSUME NEW j \in Item, IsFinal(j)
        PROVE  /\ KeptOf(q, j)' <= HeldOf(q, j)'
               /\ <<q, j>> \notin resold => KeptOf(q, j)' = HeldOf(q, j)'
    <3>1. /\ KeptOf(q, j) \in Nat /\ IsFiniteSet(OfItem(held[q], j)) /\ HeldOf(q, j) \in Nat
      BY <1>1, <1>2, CountsAreFinite
    <3>2. KeptOf(q, j) <= HeldOf(q, j) /\ (<<q, j>> \notin resold => KeptOf(q, j) = HeldOf(q, j))
      BY <1>2, <2>1 DEF CountsOK
    <3>3. OfItem(held[q], j)' = OfItem(held[q], j) \ {idx}
      BY <1>1, <1>2, <1>3, <1>6, <2>1 DEF OfItem, HeldOK
    <3>4. CASE j = i
      <4>1. idx \in held[q]
        BY <1>0, <1>1, <1>2, <1>4, <2>1, <3>4 DEF FinalOK, Bought, Sale
      <4>2. idx \in OfItem(held[q], j)
        BY <1>0, <3>4, <4>1 DEF OfItem
      <4>3. HeldOf(q, j)' = HeldOf(q, j) - 1
        <5> DEFINE A == OfItem(held[q], j)
        <5>1. IsFiniteSet(A) /\ idx \in A
          BY <3>1, <4>2
        <5> HIDE DEF A
        <5>2. Cardinality(A \ {idx}) = Cardinality(A) - 1
          BY <5>1, FS_RemoveElement
        <5> QED BY <3>3, <5>2 DEF HeldOf, A
      <4>4. HeldOf(q, j) # 0
        BY <3>1, <4>2, FS_EmptySet DEF HeldOf
      <4> DEFINE kept == KeptOf(q, j)  have == HeldOf(q, j)
      <4>5. KeptOf(q, j)' = IF kept = 0 THEN 0 ELSE kept - 1
        BY <1>3, <3>4
      <4>6. kept \in Nat /\ have \in Nat /\ have # 0 /\ kept <= have /\ HeldOf(q, j)' = have - 1
            /\ (<<q, j>> \notin resold => kept = have)
        BY <3>1, <3>2, <4>3, <4>4
      <4> HIDE DEF kept, have
      <4> QED BY <4>5, <4>6
    <3>5. CASE j # i
      <4>1. idx \notin OfItem(held[q], j)
        BY <1>0, <3>5 DEF OfItem
      <4>2. HeldOf(q, j)' = HeldOf(q, j)
        BY <3>3, <4>1 DEF HeldOf
      <4> QED BY <1>3, <3>2, <3>5, <4>2
    <3> QED BY <3>4, <3>5
  <2> QED BY <1>1, <2>1 DEF CountsOK
<1> QED BY <1>3, <1>8, <1>10, <1>11, <1>12, <1>13 DEF BuyerOK

\* The undo of a sale: the item comes back, and nothing else changes but the stack.
LEMMA UndoSaleTypes ==
  ASSUME ItemInv, NEW q \in Buyer, UndoSale(q)
  PROVE  LET e == Last(shop[q])
         IN  /\ Types' /\ KeepsRows /\ \A r \in Buyer \ {q} : KeepsBuyer(r)
             /\ shop[q] # <<>> /\ e \in Operation /\ e.op = "sell"
             /\ Owned(q, e.idx) /\ purchases[e.idx].item \in Item
             /\ held'[q] = held[q] \cup {e.idx}
             /\ resold' = resold \cup {<<q, purchases[e.idx].item>>}
             /\ shop'[q] = Front(shop[q]) /\ purchases' = purchases /\ pending' = pending
<1> DEFINE e == Last(shop[q])
<1>1. Types /\ ShopOK(q)
  BY DEF ItemInv, BuyerOK
<1>2. /\ held' = [held EXCEPT ![q] = held[q] \cup {e.idx}]
      /\ shop' = [shop EXCEPT ![q] = Front(shop[q])]
      /\ resold' = resold \cup {<<q, purchases[e.idx].item>>}
      /\ clock' = clock /\ purchases' = purchases /\ pending' = pending
      /\ shop[q] # <<>> /\ e.op = "sell"
  BY Zenon DEF UndoSale, ShopEvent
<1>3. /\ Len(shop[q]) \in Nat \ {0} /\ e = shop[q][Len(shop[q])] /\ e \in Operation
      /\ Front(shop[q]) \in Seq(Operation)
  BY <1>1, <1>2, FrontIs, TypeFacts
<1>4. e.idx \in Nat /\ Owned(q, e.idx) /\ purchases[e.idx].item \in Item
  <2>1. Len(shop[q]) \in DOMAIN shop[q]
    BY <1>1, <1>3, TypeFacts
  <2>2. Owned(q, e.idx) /\ e.idx \in Nat
    BY <1>1, <1>3, <2>1 DEF ShopOK, Operation
  <2> HIDE DEF e
  <2> QED BY <1>1, <2>2, TypeFacts DEF Owned, Purchase
<1> HIDE DEF e
<1>5. held' \in [Buyer -> SUBSET Nat] /\ held'[q] = held[q] \cup {e.idx}
  BY <1>1, <1>2, <1>4 DEF Types
<1>6. shop' \in [Buyer -> Seq(Operation)] /\ shop'[q] = Front(shop[q])
  BY <1>1, <1>2, <1>3 DEF Types
<1>7. Types'
  BY <1>1, <1>2, <1>5, <1>6 DEF Types
<1>8. KeepsRows
  BY <1>1, <1>2, TypeFacts DEF KeepsRows
<1>9. \A r \in Buyer \ {q} : KeepsBuyer(r)
  <2> TAKE r \in Buyer \ {q}
  <2>1. held'[r] = held[r] /\ shop'[r] = shop[r]
    BY <1>1, <1>2 DEF Types
  <2> QED BY <1>2, <2>1 DEF KeepsBuyer
<1> QED BY <1>2, <1>3, <1>4, <1>5, <1>6, <1>7, <1>8, <1>9 DEF e

LEMMA UndoSaleOK ==
  ASSUME ItemInv, NEW q \in Buyer, UndoSale(q)
  PROVE  BuyerOK(q)'
<1> DEFINE S == Len(shop[q])
<1>0. PICK e \in Operation, idx \in Nat, i \in Item :
        e = Last(shop[q]) /\ idx = e.idx /\ i = purchases[idx].item
  <2>1. Last(shop[q]) \in Operation /\ purchases[Last(shop[q]).idx].item \in Item
    BY UndoSaleTypes
  <2>2. Last(shop[q]).idx \in Nat
    BY <2>1 DEF Operation
  <2> QED BY <2>1, <2>2
<1>1. /\ Types /\ Types' /\ shop[q] # <<>> /\ e.op = "sell" /\ Owned(q, idx)
      /\ held'[q] = held[q] \cup {idx} /\ resold' = resold \cup {<<q, i>>}
      /\ shop'[q] = Front(shop[q]) /\ purchases' = purchases /\ pending' = pending
  BY <1>0, UndoSaleTypes DEF ItemInv
<1>2. PendingOK(q) /\ HeldOK(q) /\ ShopOK(q) /\ FinalOK(q) /\ CountsOK(q)
      /\ (SellsNothing(q) => StackOK(q))
  BY DEF ItemInv, BuyerOK
<1>3. /\ Live(q)' = Live(q) /\ SellsNothing(q)' = SellsNothing(q)
      /\ \A k : Owned(q, k)' <=> Owned(q, k)
  BY <1>1 DEF Live, Rows, SellsNothing, Owned
<1>4. /\ S \in Nat \ {0} /\ DOMAIN shop[q] = 1 .. S /\ DOMAIN shop'[q] = 1 .. S - 1
      /\ S \in 1 .. S /\ shop[q][S] = e
      /\ \A n \in 1 .. S - 1 : n \in 1 .. S /\ n < S /\ shop'[q][n] = shop[q][n]
      /\ \A n \in 1 .. S : n = S \/ n \in 1 .. S - 1
  <2>1. shop[q] \in Seq(Operation) /\ S \in Nat /\ DOMAIN shop[q] = 1 .. S
    BY <1>1, TypeFacts
  <2>2. /\ S \in Nat \ {0} /\ e = shop[q][S]
        /\ shop'[q] \in Seq(Operation) /\ Len(shop'[q]) = S - 1
        /\ \A n \in 1 .. S - 1 : shop'[q][n] = shop[q][n]
    BY <1>0, <1>1, <2>1, FrontIs
  <2>3. DOMAIN shop'[q] = 1 .. S - 1
    BY <2>2, LenProperties
  <2> HIDE DEF S
  <2> QED BY <2>1, <2>2, <2>3
<1> HIDE DEF S
<1>5. PendingOK(q)' /\ HeldOK(q)'
  BY <1>1, <1>2, <1>3 DEF PendingOK, HeldOK
<1>6. ShopOK(q)'
  <2>1. \A n \in 1 .. S - 1 :
          shop'[q][n].idx \in DOMAIN purchases' /\ purchases'[shop'[q][n].idx].buyer = q
    BY <1>1, <1>2, <1>4 DEF ShopOK, Owned
  <2>2. \A n \in 1 .. S - 1 : \A k \in shop'[q][n].used :
          k \in DOMAIN purchases' /\ purchases'[k].buyer = q /\ ~ IsFinal(purchases'[k].item)
    BY <1>1, <1>2, <1>4 DEF ShopOK, Owned
  <2>3. \A m, n \in 1 .. S - 1 :
          m < n /\ shop'[q][m].op = "buy" /\ shop'[q][n].op = "buy"
            => shop'[q][m].idx < shop'[q][n].idx
    BY <1>2, <1>4 DEF ShopOK, Bought
  <2> QED BY <1>4, <2>1, <2>2, <2>3 DEF ShopOK, Bought, Owned
<1>7. FinalOK(q)'
  <2>1. ASSUME NEW n \in 1 .. S - 1, IsFinal(purchases[shop[q][n].idx].item)
        PROVE  /\ shop[q][n].op = "sell" =>
                    /\ shop[q][n].idx \notin held'[q]
                    /\ \A m \in 1 .. S - 1 :
                         shop[q][m].op = "sell" /\ m # n => shop[q][m].idx # shop[q][n].idx
               /\ shop[q][n].op = "buy" =>
                    \/ shop[q][n].idx \in held'[q]
                    \/ \E m \in 1 .. S - 1 :
                         m > n /\ shop[q][m].op = "sell" /\ shop[q][m].idx = shop[q][n].idx
    <3>1. /\ shop[q][n].op = "sell" =>
               /\ shop[q][n].idx \notin held[q]
               /\ \A m \in 1 .. S :
                    shop[q][m].op = "sell" /\ m # n => shop[q][m].idx # shop[q][n].idx
          /\ shop[q][n].op = "buy" =>
               \/ shop[q][n].idx \in held[q]
               \/ \E m \in 1 .. S : m > n /\ shop[q][m].op = "sell" /\ shop[q][m].idx = shop[q][n].idx
      BY <1>2, <1>4, <2>1 DEF FinalOK, Bought, Sale
    <3>2. S \in 1 .. S /\ S # n /\ shop[q][S].op = "sell" /\ shop[q][S].idx = idx
      BY <1>0, <1>1, <1>4
    <3>3. shop[q][n].op = "sell" => shop[q][n].idx # idx
      BY <3>1, <3>2
    <3>4. ASSUME shop[q][n].op = "buy", shop[q][n].idx \notin held'[q]
          PROVE  \E m \in 1 .. S - 1 :
                   m > n /\ shop[q][m].op = "sell" /\ shop[q][m].idx = shop[q][n].idx
      <4>1. PICK m \in 1 .. S : m > n /\ shop[q][m].op = "sell" /\ shop[q][m].idx = shop[q][n].idx
        BY <1>1, <3>1, <3>4
      <4>2. m # S
        BY <1>1, <3>2, <3>4, <4>1
      <4> QED BY <1>4, <4>1, <4>2
    <3>5. ASSUME shop[q][n].op = "sell"
          PROVE  /\ shop[q][n].idx \notin held'[q]
                 /\ \A m \in 1 .. S - 1 :
                      shop[q][m].op = "sell" /\ m # n => shop[q][m].idx # shop[q][n].idx
      BY <1>1, <1>4, <3>1, <3>3, <3>5
    <3> QED BY <3>4, <3>5
  <2>2. \A n \in 1 .. S - 1 : shop'[q][n] = shop[q][n]
    BY <1>4
  <2>3. ASSUME NEW n \in 1 .. S - 1, IsFinal(purchases'[shop'[q][n].idx].item)
        PROVE  /\ shop'[q][n].op = "sell" =>
                    /\ shop'[q][n].idx \notin held'[q]
                    /\ \A m \in 1 .. S - 1 :
                         shop'[q][m].op = "sell" /\ m # n => shop'[q][m].idx # shop'[q][n].idx
               /\ shop'[q][n].op = "buy" =>
                    \/ shop'[q][n].idx \in held'[q]
                    \/ \E m \in 1 .. S - 1 :
                         m > n /\ shop'[q][m].op = "sell" /\ shop'[q][m].idx = shop'[q][n].idx
    BY <1>1, <2>1, <2>2, <2>3
  <2> QED BY <1>4, <2>3 DEF FinalOK, Bought, Sale
<1>8. ~ SellsNothing(q)'
  BY <1>1, <1>2, <1>3, <1>4 DEF StackOK, Bought
<1>9. CountsOK(q)'
  <2>1. ASSUME NEW j \in Item, IsFinal(j)
        PROVE  /\ KeptOf(q, j)' <= HeldOf(q, j)'
               /\ <<q, j>> \notin resold' => KeptOf(q, j)' = HeldOf(q, j)'
    <3>1. /\ KeptOf(q, j) \in Nat /\ IsFiniteSet(OfItem(held[q], j)) /\ HeldOf(q, j) \in Nat
      BY <1>1, <1>2, CountsAreFinite
    <3>2. KeptOf(q, j) <= HeldOf(q, j) /\ (<<q, j>> \notin resold => KeptOf(q, j) = HeldOf(q, j))
      BY <1>2, <2>1 DEF CountsOK
    <3>3. KeptOf(q, j)' = KeptOf(q, j)
      BY <1>1, <1>3 DEF KeptOf, OfItem
    <3>4. CASE j = i
      <4>1. <<q, j>> \in resold'
        BY <1>1, <3>4
      <4>2. idx \notin held[q]
        BY <1>0, <1>1, <1>2, <1>4, <2>1, <3>4 DEF FinalOK, Sale
      <4> DEFINE A == OfItem(held[q], j)
      <4>3. OfItem(held[q], j)' = A \cup {idx} /\ IsFiniteSet(A) /\ idx \notin A
        BY <1>0, <1>1, <3>1, <3>4, <4>2 DEF OfItem
      <4> HIDE DEF A
      <4>4. Cardinality(A \cup {idx}) = Cardinality(A) + 1
        BY <4>3, FS_AddElement
      <4>5. HeldOf(q, j)' = HeldOf(q, j) + 1
        BY <4>3, <4>4 DEF HeldOf, A
      <4> QED BY <3>1, <3>2, <3>3, <4>1, <4>5
    <3>5. CASE j # i
      <4>1. OfItem(held[q], j)' = OfItem(held[q], j)
        BY <1>0, <1>1, <3>5 DEF OfItem
      <4>2. HeldOf(q, j)' = HeldOf(q, j)
        BY <4>1 DEF HeldOf
      <4> QED BY <1>1, <3>2, <3>3, <4>2
    <3> QED BY <3>4, <3>5
  <2> QED BY <2>1 DEF CountsOK
<1> QED BY <1>5, <1>6, <1>7, <1>8, <1>9 DEF BuyerOK

\* Who leaves the shop cannot undo any more; the rest stays.
LEMMA LeaveOK ==
  ASSUME ItemInv, LeaveShop
  PROVE  ItemInv'
<1>1. Types /\ \A r \in Buyer : BuyerOK(r)
  BY DEF ItemInv
<1>2. /\ held' = held /\ purchases' = purchases /\ pending' = pending /\ resold' = resold
      /\ clock' = clock + 1
  BY DEF LeaveShop
<1>3. PICK stay \in SUBSET Buyer : shop' = [r \in Buyer |-> IF r \in stay THEN shop[r] ELSE <<>>]
  BY DEF LeaveShop
<1>4. Types'
  <2>1. <<>> \in Seq(Operation)
    BY EmptySeq
  <2>2. shop' \in [Buyer -> Seq(Operation)]
    BY <1>1, <1>3, <2>1 DEF Types
  <2> QED BY <1>1, <1>2, <2>2 DEF Types
<1>5. KeepsRows
  BY <1>1, <1>2, LenProperties DEF KeepsRows, Types
<1>6. ASSUME NEW r \in Buyer
      PROVE  BuyerOK(r)'
  <2>1. CASE shop'[r] = shop[r]
    <3>1. KeepsBuyer(r)
      BY <1>2, <2>1 DEF KeepsBuyer
    <3> QED BY <1>1, <1>4, <1>5, <3>1, KeptBuyerOK
  <2>2. CASE shop'[r] = <<>>
    <3>1. DOMAIN shop'[r] = {} /\ Len(shop'[r]) = 0
      BY <2>2
    <3>2. Live(r)' = Live(r) /\ SellsNothing(r)' = SellsNothing(r)
          /\ \A k : Owned(r, k)' <=> Owned(r, k)
      BY <1>2 DEF Live, Rows, SellsNothing, Owned
    <3>3. PendingOK(r)' /\ HeldOK(r)'
      BY <1>1, <1>2, <3>2 DEF BuyerOK, PendingOK, HeldOK
    <3>4. ShopOK(r)' /\ FinalOK(r)'
      BY <3>1 DEF ShopOK, FinalOK
    <3>5. SellsNothing(r)' => StackOK(r)'
      <4>1. Len(pending[r]) \in Nat
        BY <1>1, TypeFacts
      <4>2. SellsNothing(r) => StackOK(r)
        BY <1>1 DEF BuyerOK
      <4> QED BY <1>2, <3>1, <3>2, <4>1, <4>2 DEF StackOK
    <3>6. CountsOK(r)'
      <4>1. \A i : KeptOf(r, i)' = KeptOf(r, i) /\ HeldOf(r, i)' = HeldOf(r, i)
        BY <1>2, <3>2 DEF KeptOf, HeldOf, OfItem
      <4>2. CountsOK(r)
        BY <1>1 DEF BuyerOK
      <4> QED BY <1>2, <4>1, <4>2 DEF CountsOK
    <3> QED BY <3>3, <3>4, <3>5, <3>6 DEF BuyerOK
  <2> QED BY <1>3, <2>1, <2>2
<1> QED BY <1>4, <1>6 DEF ItemInv

LEMMA ItemInitOK == ItemInit => ItemInv
<1> SUFFICES ASSUME ItemInit PROVE ItemInv
  OBVIOUS
<1>1. /\ clock = 0 /\ purchases = <<>> /\ held = [q \in Buyer |-> {}]
      /\ shop = [q \in Buyer |-> <<>>] /\ pending = [q \in Buyer |-> <<>>] /\ resold = {}
  BY DEF ItemInit
<1>2. Types
  BY <1>1, EmptySeq DEF Types
<1>3. ASSUME NEW q \in Buyer
      PROVE  BuyerOK(q)
  <2>1. held[q] = {} /\ DOMAIN shop[q] = {} /\ Len(shop[q]) = 0 /\ Len(pending[q]) = 0
        /\ DOMAIN pending[q] = {} /\ DOMAIN purchases = {}
    BY <1>1
  <2>2. Live(q) = {} /\ \A X : OfItem({}, X) = {}
    BY <2>1 DEF Live, Rows, OfItem
  <2>3. PendingOK(q) /\ HeldOK(q) /\ ShopOK(q) /\ FinalOK(q) /\ StackOK(q)
    BY <2>1, <2>2 DEF PendingOK, HeldOK, ShopOK, FinalOK, StackOK
  <2>4. CountsOK(q)
    <3>1. \A i : KeptOf(q, i) = 0 /\ HeldOf(q, i) = 0
      BY <2>1, <2>2, FS_EmptySet DEF KeptOf, HeldOf
    <3> QED BY <3>1 DEF CountsOK
  <2> QED BY <2>3, <2>4 DEF BuyerOK
<1> QED BY <1>2, <1>3 DEF ItemInv

LEMMA OtherBuyersOK ==
  ASSUME ItemInv, Types', KeepsRows, NEW q \in Buyer, \A r \in Buyer \ {q} : KeepsBuyer(r),
         BuyerOK(q)'
  PROVE  ItemInv'
<1>1. ASSUME NEW r \in Buyer, r # q
      PROVE  BuyerOK(r)'
  <2>1. Types /\ BuyerOK(r) /\ KeepsBuyer(r)
    BY <1>1 DEF ItemInv
  <2> QED BY <2>1, KeptBuyerOK
<1> QED BY <1>1 DEF ItemInv

LEMMA ItemStepOK == ItemInv /\ [ItemNext]_itemVars => ItemInv'
<1> SUFFICES ASSUME ItemInv, [ItemNext]_itemVars PROVE ItemInv'
  OBVIOUS
<1>1. ASSUME NEW q \in Buyer, NEW i \in Item, NEW used \in Components(q, i),
             ItemPurchased(q, i, used)
      PROVE  ItemInv'
  BY <1>1, PurchaseTypes, PurchaseOK, OtherBuyersOK
<1>2. ASSUME NEW q \in Buyer, NEW idx \in held[q], ItemSold(q, idx)
      PROVE  ItemInv'
  BY <1>2, SaleTypes, SaleOK, OtherBuyersOK
<1>3. ASSUME NEW q \in Buyer, UndoPurchase(q)
      PROVE  ItemInv'
  BY <1>3, UndoTypes, UndoOK, OtherBuyersOK
<1>4. ASSUME NEW q \in Buyer, UndoSale(q)
      PROVE  ItemInv'
  BY <1>4, UndoSaleTypes, UndoSaleOK, OtherBuyersOK
<1>5. CASE UNCHANGED <<clock, held, shop, purchases, pending, resold>>
  <2>1. Types /\ Types'
    BY <1>5 DEF ItemInv, Types
  <2>2. KeepsRows
    BY <1>5, <2>1, LenProperties DEF KeepsRows, Types
  <2>3. \A r \in Buyer : KeepsBuyer(r)
    BY <1>5 DEF KeepsBuyer
  <2> QED BY <2>1, <2>2, <2>3, KeptBuyerOK DEF ItemInv
<1>6. EndOfGame \/ (\E k \in DOMAIN purchases : ClassifyRow(k)) \/ UNCHANGED itemVars
        => UNCHANGED <<clock, held, shop, purchases, pending, resold>>
  BY Zenon DEF EndOfGame, ClassifyRow, itemVars
<1> QED BY <1>1, <1>2, <1>3, <1>4, <1>5, <1>6, LeaveOK DEF ItemNext

-----------------------------------------------------------------------------
LEMMA InvHasKept == ItemInv => KeptIsHeld
<1> SUFFICES ASSUME ItemInv, NEW q \in Buyer
             PROVE  /\ Rows(q, {"sold"}) = {} => Final(Rows(q, {""})) = Final(held[q])
                    /\ \A i \in {j \in Item : Catalog[j].to = {}} :
                         LET kept == Cardinality(OfItem(Rows(q, {""}), i))
                             have == Cardinality(OfItem(held[q], i))
                         IN  kept <= have /\ (<<q, i>> \notin resold => kept = have)
  BY Zenon DEF KeptIsHeld
<1>1. Rows(q, {""}) = Live(q)
  BY Zenon DEF Live, NoRemoval
<1>2. SellsNothing(q) => Final(Live(q)) = Final(held[q])
  BY DEF ItemInv, BuyerOK, StackOK, Final, IsFinal
<1>3. \A i \in {j \in Item : Catalog[j].to = {}} :
        KeptOf(q, i) <= HeldOf(q, i) /\ (<<q, i>> \notin resold => KeptOf(q, i) = HeldOf(q, i))
  BY DEF ItemInv, BuyerOK, CountsOK, IsFinal
<1> QED BY <1>1, <1>2, <1>3, Zenon DEF SellsNothing, KeptOf, HeldOf

\* The rows phase 5 leaves as neither undone nor sold name, of items nothing is
\* built from, exactly what a player who sells nothing still has; with sales they
\* never count more than he has, and as many unless a sale was undone
\* (phase5/phase.go:140-166).
THEOREM KeptRowsAreHeld == ItemSpec => []KeptIsHeld
BY ItemInitOK, ItemStepOK, InvHasKept, PTL DEF ItemSpec
=============================================================================
