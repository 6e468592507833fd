--------------------------- MODULE RankedMatches ---------------------------
(***************************************************************************)
(* The rankings while matches are stored (phase 3) and rated (phase 4):    *)
(* what the pages of one state of the database owe to each other.          *)
(***************************************************************************)
EXTENDS Rankings

VARIABLE db  \* matches that are done, and those that have an avg_tier

RankInit == db = [done |-> {}, rated |-> {}]

\* Header, players and bans of a match come with fetch_status = 'done'.
StoreMatch(m) == m \notin db.done /\ db' = [db EXCEPT !.done = @ \cup {m}]

RateMatch(m) == m \in db.done \ db.rated /\ db' = [db EXCEPT !.rated = @ \cup {m}]

RankNext == \E m \in Match : StoreMatch(m) \/ RateMatch(m)

RankSpec == RankInit /\ [][RankNext]_db

-----------------------------------------------------------------------------
(* Properties *)

PageOf(f, version) == CHOOSE page \in Pages(f, version, db) : TRUE
Page(f) == PageOf(f, "")
Everything == [queue |-> 420, version |-> "", region |-> "", position |-> "", tier |-> "",
               minGames |-> 1, limit |-> -1, threshold |-> 0]
Games(page, c) == IF \E x \in page.rows : x.champion = c
                    THEN (CHOOSE x \in page.rows : x.champion = c).games ELSE 0

Champions == {p.champion : p \in UNION {Info[m].players : m \in Match}}

\* A tier group is made of its parts: a game counts in exactly one of them, and a
\* match without an average in none.
GroupsAddUp ==
  LET G(group, c) == Games(Page([Everything EXCEPT !.tier = group]), c)
  IN  \A c \in Champions :
        /\ G("master_plus", c) = G("master", c) + G("grandmaster_plus", c)
        /\ G("grandmaster_plus", c) = G("grandmaster", c) + G("challenger", c)
        /\ (\A m \in db.done : m \in db.rated /\ Info[m].tier # "DIAMOND")
             => G("master_plus", c) = G("", c)

\* The pages by position share out the games of the overall page, which lists a
\* position exactly if its own page has the champion.
PositionsAddUp ==
  LET all == Page(Everything)
      at == [pos \in Position |-> Page([Everything EXCEPT !.position = pos])]
  IN  \A x \in all.rows :
        /\ x.games = MapThenSumSet(LAMBDA pos : Games(at[pos], x.champion), Position)
                       + Cardinality({y \in Of(Base(db.done), x.champion) :
                                        y[2].position \notin Position})
        /\ x.positions \cap Position = {pos \in Position : Games(at[pos], x.champion) > 0}
        /\ x.banRate <= 10000 /\ x.pickRate <= 10000

\* The versions and regions offered have a page, and their pages share out all games.
CatalogAddsUp ==
  \A c \in Champions :
    /\ Games(Page(Everything), c) =
         MapThenSumSet(LAMBDA r : Games(Page([Everything EXCEPT !.region = r]), c),
                       Offered(db).regions)
    /\ Games(Page(Everything), c) =
         MapThenSumSet(LAMBDA v : Games(PageOf(Everything, v), c),
                       Offered(db).versions)

\* All pages are the same games, seen by tier group, by position, by region and by
\* version: none counts a game twice or drops one (service.go:205-231 and the
\* joins of the two queries).
PagesAddUp == GroupsAddUp /\ PositionsAddUp /\ CatalogAddsUp
=============================================================================
