------------------------------ MODULE Rankings ------------------------------
(***************************************************************************)
(* The champion rankings as a function of the stored matches.              *)
(*                                                                         *)
(* Code: the two queries of packages/sqlc/gen/rankings.sql.go, their twins *)
(* in internal/server/rankings.go, and the service and handlers that parse *)
(* a query and shape the rows.                                             *)
(*                                                                         *)
(* KDA and champion names are left out; a rate is in hundredths of a       *)
(* percent, as the queries round it, and a threshold in tenths.  A page is *)
(* a set of rows: rows that tie have no order in the queries either.       *)
(***************************************************************************)
EXTENDS Naturals, Integers, FiniteSets, FiniteSetsExt

CONSTANTS
  Match,    \* ids of matches
  Info,     \* id -> queue, version, region, tier phase 4 will find, players, bans
  Absent,   \* a parameter that is left out; a column that is NULL
  Null      \* a parameter of GraphQL that is null

ASSUME InfoAssumption == DOMAIN Info = Match

Position == {"TOP", "JUNGLE", "MIDDLE", "BOTTOM", "UTILITY"}

\* db: the matches that are done, and those of them that have an avg_tier.
AvgTier(db, m) == IF m \in db.rated THEN Info[m].tier ELSE Absent

NoGrandmasters(group) ==                                             \* mutant
  CASE group = "master_plus" -> {"MASTER", "CHALLENGER"}
    [] group = "grandmaster_plus" -> {"GRANDMASTER", "CHALLENGER"}
    [] group = "master" -> {"MASTER"} [] OTHER -> {}

tierGroupToAvgTiers(group) ==
  CASE group = "challenger" -> {"CHALLENGER"}
    [] group = "grandmaster_plus" -> {"GRANDMASTER", "CHALLENGER"}
    [] group = "grandmaster" -> {"GRANDMASTER"}
    [] group = "master_plus" -> {"MASTER", "GRANDMASTER", "CHALLENGER"}
    [] group = "master" -> {"MASTER"}
    [] OTHER -> {}

-----------------------------------------------------------------------------
(* The queries *)

\* '' stands for every version and every region, no tier for every tier.
FilteredMatches(f, version, db) ==
  LET tiers == tierGroupToAvgTiers(f.tier)
  IN  {m \in db.done : /\ Info[m].queue = f.queue
                       /\ version \in {"", Info[m].version}
                       /\ f.region \in {"", Info[m].region}
                       /\ tiers = {} \/ AvgTier(db, m) \in tiers}

Base(matches) ==
  {x \in UNION {{m} \X Info[m].players : m \in matches} : x[2].champion > 0}

TotalMatches(base) == Cardinality({x[1] : x \in base})
Of(base, c) == {x \in base : x[2].champion = c}
Wins(base) == Cardinality({x \in base : x[2].win})
BanMatches(matches, c) == Cardinality({m \in matches : c \in Info[m].bans})

\* Rounded to two decimals.
Rate(part, whole) == (20000 * part + whole) \div (2 * whole)

\* Positions the champion has a sufficient share of its games in.
ValidPositions(f, games) ==
  {pos \in {x[2].position : x \in games} :
     1000 * Cardinality({x \in games : x[2].position = pos}) >= f.threshold * Cardinality(games)}

Row(f, matches, base, c) ==
  LET games == Of(base, c)
      n == Cardinality(games)
  IN  [champion |-> c, games |-> n, wins |-> Wins(games), losses |-> n - Wins(games),
       positions |-> IF f.position = "" THEN ValidPositions(f, games) ELSE {f.position},
       winRate |-> Rate(Wins(games), n),
       pickRate |-> Rate(n, TotalMatches(base)),
       banRate |-> Rate(BanMatches(matches, c), TotalMatches(base))]

\* ORDER BY win_rate DESC, pick_rate DESC, games DESC.
Before(x, y) ==
  \/ x.winRate > y.winRate
  \/ x.winRate = y.winRate /\ x.pickRate > y.pickRate
  \/ x.winRate = y.winRate /\ x.pickRate = y.pickRate /\ x.games > y.games

\* LIMIT: any choice among the rows that tie.
Top(limit, rows) ==
  IF limit = -1 \/ limit >= Cardinality(rows) THEN {rows}
  ELSE {s \in kSubset(limit, rows) : \A x \in rows \ s, y \in s : ~Before(x, y)}

\* The pages over these players.  Their total comes with the rows: a page without
\* rows has the total 0.
PagesOf(f, matches, base) ==
  LET rows == {Row(f, matches, base, c) : c \in {x[2].champion : x \in base}}
      kept == {x \in rows : x.games >= f.minGames}
  IN  {[rows |-> s, total |-> IF s = {} THEN 0 ELSE TotalMatches(base)] : s \in Top(f.limit, kept)}

GetOverallRankings(f, version, db) ==
  LET matches == FilteredMatches(f, version, db) IN PagesOf(f, matches, Base(matches))

GetRankingsByPosition(f, version, db) ==
  LET matches == FilteredMatches(f, version, db)
  IN  PagesOf(f, matches, {x \in Base(matches) : x[2].position = f.position})

\* The query is chosen by the position.
Pages(f, version, db) ==
  IF f.position = "" THEN GetOverallRankings(f, version, db) ELSE GetRankingsByPosition(f, version, db)

\* Versions and regions that are offered to choose from.
ListVersionsWithData(db) == {Info[m].version : m \in db.done} \ {""}
ListRegionsWithData(db) == {Info[m].region : m \in db.done} \ {""}
Offered(db) == [versions |-> ListVersionsWithData(db), regions |-> ListRegionsWithData(db)]

-----------------------------------------------------------------------------
(* From a request to a filter *)

Clamp(v, lo, hi) == IF v < lo THEN lo ELSE IF v > hi THEN hi ELSE v
OrElse(v, default) == IF v \in {Absent, Null} THEN default ELSE v

\* The schema's values for the fields a filter of GraphQL leaves out.
SchemaDefaults ==
  [queue |-> 420, version |-> "latest", region |-> "", position |-> "", tier |-> "",
   minGames |-> 0, limit |-> -1, threshold |-> 5]

\* The filter the resolver sees.  No filter at all is one whose fields are all null.
Unmarshal(q) == [p \in DOMAIN q |-> IF q[p] = Absent THEN SchemaDefaults[p] ELSE q[p]]

\* What is left out is 20 games and a threshold of 5 % for
\* the REST servers; for GraphQL it is one game and 0.5 %, and 20 and 5 % if it is
\* null.  Without a version GraphQL asks for "latest", the REST servers for all.
FilterOf(surface, q) ==
  LET in == IF surface = "graphql" THEN Unmarshal(q) ELSE q
  IN  [queue |-> Clamp(OrElse(in.queue, 420), 0, 9999),
       version |-> OrElse(in.version, IF surface = "graphql" THEN "latest" ELSE ""),
       region |-> OrElse(in.region, ""),
       position |-> OrElse(in.position, ""),
       tier |-> OrElse(in.tier, ""),
       minGames |-> Clamp(OrElse(in.minGames, 20), 1, 20000),
       limit |-> Clamp(OrElse(in.limit, -1), -1, 500),
       threshold |-> Clamp(OrElse(in.threshold, 50), 0, 1000)]
=============================================================================
