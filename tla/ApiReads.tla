------------------------------ MODULE ApiReads ------------------------------
(***************************************************************************)
(* Reads of the champion rankings while the crawlers write.                *)
(*                                                                         *)
(* Three servers answer: REST v1 and GraphQL of apps/api, which share a    *)
(* service and a Redis read-through cache, and the legacy server, which    *)
(* always asks the database.  Meanwhile matches are stored (phase 3) and   *)
(* rated (phase 4), and phase 0 of several crawlers keeps the flag         *)
(* is_latest, in statements of their own.                                  *)
(*                                                                         *)
(* Code: apps/api/internal/cache, .../service/rankings, .../transport,     *)
(* internal/server, packages/sqlc/gen, internal/crawler/phase0.            *)
(***************************************************************************)
EXTENDS Rankings, Sequences, SequencesExt

CONSTANTS
  Request,   \* requests in flight at a time (bound)
  Query,     \* server -> queries it is asked (bound)
  Writer,    \* crawlers in phase 0 at a time (bound)
  Version,   \* versions, oldest first; there is one
  TTL,       \* life of a cache entry, in ticks (5 minutes in the code)
  MaxLoad,   \* ticks a request may take (bound)
  MaxTime    \* ticks of a behaviour (bound)

ASSUME BoundsAssumption ==
  /\ TTL \in Nat \ {0} /\ {MaxLoad, MaxTime} \subseteq Nat
  /\ Version \in Seq(STRING) \ {<<>>}

\* Only GraphQL has null.
ASSUME QueryAssumption ==
  \A q \in Query["v1"] \cup Query["legacy"] : \A p \in DOMAIN q : q[p] # Null

\* Of the literals too, which the provers do not know to be strings.
ASSUME AbsentAssumption == Absent \notin STRING /\ Absent # "" /\ Absent # "latest"

VARIABLES
  log,       \* matches stored and rated, in order
  game_versions,  \* known: rows; latest: those flagged is_latest; published: newest on offer;
             \* torn: a phase 0 stopped between its updates (history)
  phase0,    \* crawlers in phase 0
  redis,     \* cache entries by key
  req,       \* torn: Torn held while the request had no version (history)
  now

vars == <<log, game_versions, phase0, redis, req, now>>

Surface == {"v1", "graphql", "legacy"}
Active(r) == req[r] # Absent
Unresolved(r) == Active(r) /\ req[r].pc \in {"get", "resolve"}
Rank(v) == CHOOSE i \in DOMAIN Version : Version[i] = v

Database(k) ==
  LET of(kind) == {log[i].match : i \in {j \in 1 .. k : log[j].kind = kind}}
  IN  [done |-> of("done"), rated |-> of("rated")]

\* GetLatestGameVersion: the flagged row whose patch started last.
GetLatestVersion(gv) ==
  IF gv.latest = {} THEN Absent
  ELSE CHOOSE v \in gv.latest : \A w \in gv.latest : Rank(w) <= Rank(v)

\* A phase 0 is between its two updates, or stopped there.
Torn(gv, crawlers) == gv.torn \/ \E w \in Writer : crawlers[w].pc = "set"

Init ==
  /\ log = <<>> /\ now = 0
  /\ game_versions = [known |-> {Version[1]}, latest |-> {Version[1]}, published |-> 1,
                       torn |-> FALSE]
  /\ phase0 = [w \in Writer |-> [pc |-> "idle", latest |-> Absent]]
  /\ redis = [k \in {} |-> 0]
  /\ req = [r \in Request |-> Absent]

-----------------------------------------------------------------------------
(* The crawlers *)

\* Phase 3 stores a match: from now on it is in the pages of all tiers.
StoreMatch(m) ==
  /\ m \notin Database(Len(log)).done
  /\ Info[m].version \in game_versions.known
  /\ log' = Append(log, [kind |-> "done", match |-> m])
  /\ UNCHANGED <<game_versions, phase0, redis, req, now>>

\* Phase 4 gives it an average.
RateMatch(m) ==
  /\ m \in Database(Len(log)).done \ Database(Len(log)).rated
  /\ log' = Append(log, [kind |-> "rated", match |-> m])
  /\ UNCHANGED <<game_versions, phase0, redis, req, now>>

Publish ==
  /\ game_versions.published < Len(Version)
  /\ game_versions' = [game_versions EXCEPT !.published = @ + 1]
  /\ UNCHANGED <<log, phase0, redis, req, now>>

Idle == [pc |-> "idle", latest |-> Absent]
To(w, pc) == phase0' = [phase0 EXCEPT ![w] = IF pc = "idle" THEN Idle ELSE [@ EXCEPT !.pc = pc]]

FetchVersions(w) ==
  /\ phase0[w].pc = "idle"
  /\ phase0' = [phase0 EXCEPT ![w] = [pc |-> "insert", latest |-> Version[game_versions.published]]]
  /\ UNCHANGED <<log, game_versions, redis, req, now>>

\* ON CONFLICT DO NOTHING: a new version comes flagged if it is the newest.
InsertVersions(w) ==
  LET missing == {Version[i] : i \in 1 .. Rank(phase0[w].latest)} \ game_versions.known
      Insert(v) == [game_versions EXCEPT !.known = @ \cup {v},
                                         !.latest = IF v = phase0[w].latest THEN @ \cup {v} ELSE @]
  IN  /\ phase0[w].pc = "insert"
      /\ \/ /\ \E v \in missing : game_versions' = Insert(v)
            /\ UNCHANGED phase0
         \/ missing = {} /\ To(w, "clear") /\ UNCHANGED <<game_versions>>
      /\ UNCHANGED <<log, redis, req, now>>

SetAndClear(gv, pc, v) ==                                            \* mutant
  [gv EXCEPT !.latest = IF pc = "clear" THEN @ \cup {v} ELSE {}]

\* The first update takes the flag from all rows, the second gives it to one.
Flag(gv, pc, v) == [gv EXCEPT !.latest = IF pc = "clear" THEN {} ELSE @ \cup {v}]

SyncLatest(w) ==
  LET gv == Flag(game_versions, phase0[w].pc, phase0[w].latest)
  IN  /\ phase0[w].pc \in {"clear", "set"}
      /\ To(w, IF phase0[w].pc = "clear" THEN "set" ELSE "idle")
      /\ game_versions' = [gv EXCEPT !.torn = @ /\ phase0[w].pc = "clear"]
      /\ req' = [r \in Request |-> IF Unresolved(r) /\ Torn(game_versions, phase0)'
                                     THEN [req[r] EXCEPT !.torn = TRUE] ELSE req[r]]
      /\ UNCHANGED <<log, redis, now>>

\* The crawler stops or a statement of it fails.
Interrupt(w) ==
  /\ phase0[w].pc # "idle"
  /\ To(w, "idle")
  /\ game_versions' = [game_versions EXCEPT !.torn = @ \/ phase0[w].pc = "set"]
  /\ UNCHANGED <<log, redis, req, now>>

-----------------------------------------------------------------------------
(* A request *)

At(r, pc) == Active(r) /\ req[r].pc = pc
Goto(r, pc) == req' = [req EXCEPT ![r].pc = pc]

\* Only the rankings service of apps/api is behind the cache.
Ask(r, surface, q) ==
  /\ ~Active(r)
  /\ req' = [req EXCEPT ![r] = [filter |-> FilterOf(surface, q), cached |-> surface # "legacy",
                                pc |-> IF surface = "legacy" THEN "resolve" ELSE "get",
                                since |-> now, loaded |-> now, version |-> Absent, page |-> Absent,
                                torn |-> Torn(game_versions, phase0)]]
  /\ UNCHANGED <<log, game_versions, phase0, redis, now>>

\* The hash of the whole filter: "latest" is a key of its own, not that of the
\* version it stands for.
CacheKey(f) == f

\* A miss and every error of Redis lead to the loader.
GetJSON(r) ==
  LET key == CacheKey(req[r].filter)
  IN  /\ At(r, "get")
      /\ \/ /\ key \in DOMAIN redis
            /\ req' = [req EXCEPT ![r].pc = "answer", ![r].page = redis[key].page,
                                  ![r].version = redis[key].version, ![r].loaded = redis[key].loaded,
                                  ![r].torn = FALSE]
         \/ Goto(r, "resolve")
      /\ UNCHANGED <<log, game_versions, phase0, redis, now>>

ResolveVersion(r) ==
  LET asked == req[r].filter.version
      version == IF asked = "latest" THEN GetLatestVersion(game_versions) ELSE asked
  IN  /\ At(r, "resolve")
      /\ IF version = Absent THEN Goto(r, "error")
         ELSE req' = [req EXCEPT ![r].pc = "query", ![r].version = version, ![r].torn = FALSE]
      /\ UNCHANGED <<log, game_versions, phase0, redis, now>>

ListRankings(r) ==
  /\ At(r, "query")
  /\ \E page \in Pages(req[r].filter, req[r].version, Database(Len(log))) :
       req' = [req EXCEPT ![r].pc = IF req[r].cached THEN "store" ELSE "answer", ![r].page = page,
                          ![r].loaded = now]
  /\ UNCHANGED <<log, game_versions, phase0, redis, now>>

\* A statement fails, or the client is gone.  What failed is not cached.
FailRead(r) ==
  /\ At(r, "resolve") \/ At(r, "query")
  /\ req' = [req EXCEPT ![r] = Absent]
  /\ UNCHANGED <<log, game_versions, phase0, redis, now>>

NeverExpires(t) == MaxTime + 1                                       \* mutant
Expiry(t) == t + TTL

\* The life of an entry starts when it is written, however old the page is.  A
\* failed write is logged, and the request is answered all the same.
SetJSON(r) ==
  /\ At(r, "store")
  /\ req' = [req EXCEPT ![r] = Absent]
  /\ \/ redis' = [k \in DOMAIN redis \cup {CacheKey(req[r].filter)} |->
                    IF k = CacheKey(req[r].filter)
                      THEN [page |-> req[r].page, version |-> req[r].version, loaded |-> req[r].loaded,
                            expires |-> Expiry(now)]
                      ELSE redis[k]]
     \/ UNCHANGED redis
  /\ UNCHANGED <<log, game_versions, phase0, now>>

Respond(r) ==
  /\ At(r, "answer") \/ At(r, "error")
  /\ req' = [req EXCEPT ![r] = Absent]
  /\ UNCHANGED <<log, game_versions, phase0, redis, now>>

\* Entries expire.  MaxLoad bounds the time of a request.
Tick ==
  /\ now < MaxTime
  /\ \A r \in Request : Active(r) => now < req[r].since + MaxLoad
  /\ now' = now + 1
  /\ redis' = [k \in {j \in DOMAIN redis : redis[j].expires > now'} |-> redis[k]]
  /\ UNCHANGED <<log, game_versions, phase0, req>>

-----------------------------------------------------------------------------
Serve(r) ==
  \/ GetJSON(r) \/ ResolveVersion(r) \/ ListRankings(r) \/ FailRead(r) \/ SetJSON(r) \/ Respond(r)

Crawl ==
  \/ \E m \in Match : StoreMatch(m) \/ RateMatch(m)
  \/ \E w \in Writer : FetchVersions(w) \/ InsertVersions(w) \/ SyncLatest(w) \/ Interrupt(w)
  \/ Publish

Next ==
  \/ \E r \in Request : Serve(r) \/ \E surface \in Surface : \E q \in Query[surface] : Ask(r, surface, q)
  \/ Crawl
  \/ Tick

Spec == Init /\ [][Next]_vars

-----------------------------------------------------------------------------
(* Properties *)

\* "a stale page for at most TTL" (cached.go:24), and the time of a load: an
\* answer, from a cache or not, is a page of the very filter that was asked, as
\* the database had it at most that long before the request.
PageIsRecent ==
  \A r \in Request : At(r, "answer") \/ At(r, "store") =>
    /\ req[r].since < req[r].loaded + TTL + MaxLoad
    /\ req[r].filter.version # "latest" => req[r].version = req[r].filter.version
    /\ \E k \in 0 .. Len(log) :
         req[r].page \in Pages(req[r].filter, req[r].version, Database(k))

\* A request whose own statements succeed only fails because some phase 0 was
\* between its two updates (or stopped there) while the request had no version: an
\* error is not remembered (phase0/phase.go:58-66, shim.go:35-38).
ErrorsHaveACause ==
  \A r \in Request : At(r, "error") => req[r].torn
=============================================================================
