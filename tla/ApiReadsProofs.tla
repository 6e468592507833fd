--------------------------- MODULE ApiReadsProofs ---------------------------
(***************************************************************************)
(* What a reader of the rankings may rely on, for any matches, queries,    *)
(* requests and crawlers, and for any time to live of the cache.           *)
(*                                                                         *)
(* FlagOK is the invariant of the flag is_latest: no row has it only       *)
(* while, or after, a phase 0 was between its updates, and among the rows  *)
(* that have it one is the newest.  ReqOK follows a request from the cache *)
(* to its answer; EntryOK says the same of an entry, whose life starts     *)
(* later than the page it holds.                                           *)
(***************************************************************************)
EXTENDS ApiReads, TLAPS

Released == {Version[i] : i \in DOMAIN Version}

Entries == Seq([kind : {"done", "rated"}, match : Match])

\* A page the database could give at one time.
Shown(f, version, page) ==
  \E k \in 0 .. Len(log) : page \in Pages(f, version, Database(k))

Agrees(f, version) == f.version # "latest" => version = f.version

FlagOK ==
  /\ game_versions \in [known : SUBSET Released, latest : SUBSET Released,
                        published : DOMAIN Version, torn : BOOLEAN]
  /\ phase0 \in [Writer -> [pc : {"idle", "insert", "clear", "set"}, latest : Released \cup {Absent}]]
  /\ \A w \in Writer : phase0[w].pc # "idle" => phase0[w].latest \in Released
  /\ game_versions.latest = {} => Torn(game_versions, phase0)
  /\ game_versions.latest # {} =>
       \E v \in game_versions.latest : \A w \in game_versions.latest : Rank(w) <= Rank(v)

Fields == {"filter", "cached", "pc", "since", "loaded", "version", "page", "torn"}

ReqOK(r) ==
  /\ DOMAIN req[r] = Fields
  /\ req[r].filter.version # Absent
  /\ req[r].since \in Nat /\ req[r].loaded \in Nat
  /\ req[r].since <= now /\ now <= req[r].since + MaxLoad
  /\ Torn(game_versions, phase0) /\ req[r].pc \in {"get", "resolve"} => req[r].torn
  /\ req[r].pc = "error" => req[r].torn
  /\ req[r].pc \in {"query", "answer", "store"} => Agrees(req[r].filter, req[r].version)
  /\ req[r].pc = "store" => req[r].since <= req[r].loaded
  /\ req[r].pc \in {"answer", "store"} =>
       /\ req[r].since < req[r].loaded + TTL + MaxLoad
       /\ Shown(req[r].filter, req[r].version, req[r].page)

EntryOK(f) ==
  /\ redis[f].loaded \in Nat /\ redis[f].expires \in Nat
  /\ now < redis[f].expires /\ redis[f].expires <= redis[f].loaded + MaxLoad + TTL
  /\ Agrees(f, redis[f].version)
  /\ Shown(f, redis[f].version, redis[f].page)

Inv ==
  /\ now \in Nat /\ log \in Entries /\ DOMAIN req = Request
  /\ FlagOK
  /\ \A r \in Request : Active(r) => ReqOK(r)
  /\ \A f \in DOMAIN redis : EntryOK(f)
-----------------------------------------------------------------------------
(* The database only grows *)

LEMMA LogGrows ==
  ASSUME log \in Entries, NEW e \in [kind : {"done", "rated"}, match : Match],
         log' = Append(log, e)
  PROVE  /\ log' \in Entries
         /\ \A f, v, page : Shown(f, v, page) => Shown(f, v, page)'
<1>1. Len(log) \in Nat /\ Len(log') = Len(log) + 1 /\ \A i \in 1..Len(log) : log'[i] = log[i]
  BY DEF Entries
<1>2. ASSUME NEW k \in 0..Len(log)
      PROVE  Database(k)' = Database(k)
  <2>1. \A j \in 1..k : log'[j] = log[j]
    BY <1>1
  <2>2. ASSUME NEW kind
        PROVE  {j \in 1..k : log'[j].kind = kind} = {j \in 1..k : log[j].kind = kind}
    BY <2>1
  <2>3. ASSUME NEW kind
        PROVE  {log'[i].match : i \in {j \in 1..k : log'[j].kind = kind}}
                 = {log[i].match : i \in {j \in 1..k : log[j].kind = kind}}
    BY <2>1, <2>2
  <2> QED
    BY <2>3 DEF Database
<1>3. ASSUME NEW f, NEW v, NEW page, Shown(f, v, page)
      PROVE  Shown(f, v, page)'
  <2>1. PICK k \in 0..Len(log) : page \in Pages(f, v, Database(k))
    BY <1>3 DEF Shown
  <2>2. Database(k)' = Database(k) /\ k \in 0..Len(log')
    BY <1>1, <1>2
  <2>3. page \in Pages(f, v, Database(k)')
    BY <2>1, <2>2
  <2> QED
    BY <2>2, <2>3 DEF Shown
<1>4. log' \in Entries
  BY DEF Entries
<1> QED
  BY <1>3, <1>4
-----------------------------------------------------------------------------
(* The crawlers *)

\* The requests and the cache, when only the flag changes.
LEMMA Untouched ==
  ASSUME Inv, UNCHANGED <<log, redis, now, req>>, FlagOK',
         Torn(game_versions, phase0)' => Torn(game_versions, phase0)
  PROVE  Inv'
<1>1. \A f, v, page : Shown(f, v, page)' <=> Shown(f, v, page)
  BY DEF Shown, Database
<1>2. ASSUME NEW r \in Request, Active(r)'
      PROVE  ReqOK(r)'
  <2>1. Active(r) /\ ReqOK(r)
    BY <1>2 DEF Inv, Active
  <2> QED
    BY <1>1, <2>1 DEF ReqOK
<1>3. ASSUME NEW f \in DOMAIN redis'
      PROVE  EntryOK(f)'
  <2>1. EntryOK(f)
    BY DEF Inv
  <2> QED
    BY <1>1, <2>1 DEF EntryOK
<1> QED
  BY <1>2, <1>3 DEF Inv

LEMMA LogStep ==
  ASSUME Inv, NEW m \in Match, StoreMatch(m) \/ RateMatch(m)
  PROVE  Inv'
<1>1. UNCHANGED <<game_versions, phase0, redis, req, now>>
  BY DEF StoreMatch, RateMatch
<1>2. PICK e \in [kind : {"done", "rated"}, match : Match] : log' = Append(log, e)
  BY DEF StoreMatch, RateMatch
<1>3. /\ log' \in Entries
      /\ \A f, v, page : Shown(f, v, page) => Shown(f, v, page)'
  BY <1>2, LogGrows DEF Inv
<1>4. FlagOK' /\ (Torn(game_versions, phase0)' <=> Torn(game_versions, phase0))
  BY <1>1 DEF Inv, FlagOK, Torn
<1>5. ASSUME NEW r \in Request, Active(r)'
      PROVE  ReqOK(r)'
  <2>1. Active(r) /\ ReqOK(r)
    BY <1>1, <1>5 DEF Inv, Active
  <2> QED
    BY <1>1, <1>3, <1>4, <2>1 DEF ReqOK
<1>6. ASSUME NEW f \in DOMAIN redis'
      PROVE  EntryOK(f)'
  <2>1. EntryOK(f)
    BY <1>1 DEF Inv
  <2> QED
    BY <1>1, <1>3, <2>1 DEF EntryOK
<1> QED
  BY <1>1, <1>3, <1>4, <1>5, <1>6 DEF Inv

LEMMA RankFacts ==
  ASSUME NEW v \in Released
  PROVE  Rank(v) \in DOMAIN Version /\ Rank(v) \in Nat
<1>1. \E i \in DOMAIN Version : Version[i] = v
  BY DEF Released
<1>2. Rank(v) \in DOMAIN Version
  BY <1>1 DEF Rank
<1> QED
  BY <1>2, BoundsAssumption DEF BoundsAssumption

\* The newest of the flagged versions, after one more.
LEMMA NewestOf ==
  ASSUME NEW S \in SUBSET Released, NEW v \in Released,
         S # {} => \E x \in S : \A y \in S : Rank(y) <= Rank(x)
  PROVE  \E x \in S \cup {v} : \A y \in S \cup {v} : Rank(y) <= Rank(x)
<1>1. \A y \in S \cup {v} : Rank(y) \in Nat
  BY RankFacts
<1>2. CASE S = {}
  BY <1>1, <1>2
<1>3. CASE S # {}
  <2>1. PICK x \in S : \A y \in S : Rank(y) <= Rank(x)
    BY <1>3
  <2>2. CASE Rank(v) <= Rank(x)
    BY <2>1, <2>2
  <2>3. CASE ~(Rank(v) <= Rank(x))
    <3>1. \A y \in S \cup {v} : Rank(y) <= Rank(v)
      BY <1>1, <2>1, <2>3
    <3> QED
      BY <3>1
  <2> QED
    BY <2>2, <2>3
<1> QED
  BY <1>2, <1>3

LEMMA PublishStep ==
  ASSUME Inv, Publish
  PROVE  Inv'
<1> DEFINE gv == [game_versions EXCEPT !.published = @ + 1]
<1>1. /\ game_versions.published < Len(Version) /\ game_versions' = gv
      /\ UNCHANGED <<log, phase0, redis, req, now>>
  BY DEF Publish
<1>2. FlagOK
  BY DEF Inv
<1>3. /\ gv \in [known : SUBSET Released, latest : SUBSET Released,
                 published : DOMAIN Version, torn : BOOLEAN]
      /\ gv.latest = game_versions.latest /\ gv.torn = game_versions.torn
  <2>1. game_versions.published + 1 \in DOMAIN Version
    BY <1>1, <1>2, BoundsAssumption DEF FlagOK, BoundsAssumption
  <2> QED
    BY <1>2, <2>1 DEF FlagOK
<1> HIDE DEF gv
<1>4. Torn(game_versions, phase0)' <=> Torn(game_versions, phase0)
  BY <1>1, <1>3 DEF Torn
<1>5. FlagOK'
  BY <1>1, <1>2, <1>3, <1>4 DEF FlagOK
<1> HIDE DEF Inv
<1> QED
  BY <1>1, <1>4, <1>5, Untouched

LEMMA FetchStep ==
  ASSUME Inv, NEW w \in Writer, FetchVersions(w)
  PROVE  Inv'
<1> DEFINE new == [pc |-> "insert", latest |-> Version[game_versions.published]]
<1>1. /\ phase0[w].pc = "idle" /\ phase0' = [phase0 EXCEPT ![w] = new]
      /\ UNCHANGED <<log, game_versions, redis, req, now>>
  BY DEF FetchVersions
<1>2. FlagOK
  BY DEF Inv
<1>3. /\ new \in [pc : {"idle", "insert", "clear", "set"}, latest : Released \cup {Absent}]
      /\ new.pc = "insert" /\ new.latest \in Released
  BY <1>2 DEF FlagOK, Released
<1> HIDE DEF new
<1>4. /\ phase0' \in [Writer -> [pc : {"idle", "insert", "clear", "set"}, latest : Released \cup {Absent}]]
      /\ phase0'[w] = new /\ \A v \in Writer : v # w => phase0'[v] = phase0[v]
  BY <1>1, <1>2, <1>3 DEF FlagOK
<1>5. Torn(game_versions, phase0)' <=> Torn(game_versions, phase0)
  BY <1>1, <1>3, <1>4 DEF Torn
<1>6. FlagOK'
  BY <1>1, <1>2, <1>3, <1>4, <1>5 DEF FlagOK
<1> HIDE DEF Inv
<1> QED
  BY <1>1, <1>5, <1>6, Untouched

\* A crawler at a given place.
LEMMA ToFacts ==
  ASSUME FlagOK, NEW w \in Writer, phase0[w].pc # "idle", NEW pc \in {"idle", "clear", "set"}, To(w, pc)
  PROVE  /\ phase0' \in [Writer -> [pc : {"idle", "insert", "clear", "set"}, latest : Released \cup {Absent}]]
         /\ \A v \in Writer : phase0'[v].pc # "idle" => phase0'[v].latest \in Released
         /\ phase0'[w].pc = pc
         /\ \A v \in Writer : v # w => phase0'[v] = phase0[v]
<1> DEFINE new == IF pc = "idle" THEN Idle ELSE [phase0[w] EXCEPT !.pc = pc]
<1>1. phase0' = [phase0 EXCEPT ![w] = new]
  BY DEF To
<1>2. /\ new \in [pc : {"idle", "insert", "clear", "set"}, latest : Released \cup {Absent}]
      /\ new.pc = pc /\ (pc # "idle" => new.latest \in Released)
  BY DEF FlagOK, Idle
<1> HIDE DEF new
<1> QED
  BY <1>1, <1>2 DEF FlagOK

LEMMA InsertStep ==
  ASSUME Inv, NEW w \in Writer, InsertVersions(w)
  PROVE  Inv'
<1> DEFINE missing == {Version[i] : i \in 1 .. Rank(phase0[w].latest)} \ game_versions.known
           Insert(v) == [game_versions EXCEPT !.known = @ \cup {v},
                                              !.latest = IF v = phase0[w].latest THEN @ \cup {v} ELSE @]
<1>1. /\ phase0[w].pc = "insert" /\ UNCHANGED <<log, redis, req, now>>
      /\ \/ (\E v \in missing : game_versions' = Insert(v)) /\ UNCHANGED phase0
         \/ To(w, "clear") /\ UNCHANGED game_versions
  BY DEF InsertVersions
<1>2. FlagOK
  BY DEF Inv
<1>3. CASE (\E v \in missing : game_versions' = Insert(v)) /\ UNCHANGED phase0
  <2>1. PICK v \in missing : game_versions' = Insert(v)
    BY <1>3
  <2>2. v \in Released
    <3>1. phase0[w].latest \in Released
      BY <1>1, <1>2 DEF FlagOK
    <3>2. Rank(phase0[w].latest) \in DOMAIN Version
      BY <3>1, RankFacts
    <3>3. 1 .. Rank(phase0[w].latest) \subseteq DOMAIN Version
      BY <3>2, BoundsAssumption DEF BoundsAssumption
    <3> QED
      BY <3>3 DEF Released
  <2>3. PICK L : L = IF v = phase0[w].latest THEN game_versions.latest \cup {v} ELSE game_versions.latest
    OBVIOUS
  <2>4. /\ game_versions' \in [known : SUBSET Released, latest : SUBSET Released,
                               published : DOMAIN Version, torn : BOOLEAN]
        /\ game_versions'.latest = L /\ game_versions'.torn = game_versions.torn
    BY <1>2, <2>1, <2>2, <2>3 DEF FlagOK
  <2>5. L # {} => \E x \in L : \A y \in L : Rank(y) <= Rank(x)
    <3>1. game_versions.latest \in SUBSET Released
      BY <1>2 DEF FlagOK
    <3> QED
      BY <1>2, <2>2, <2>3, <3>1, NewestOf DEF FlagOK
  <2>6. Torn(game_versions, phase0)' <=> Torn(game_versions, phase0)
    BY <1>3, <2>4 DEF Torn
  <2>7. FlagOK'
    BY <1>2, <1>3, <2>3, <2>4, <2>5, <2>6 DEF FlagOK
  <2> HIDE DEF Inv
  <2> QED
    BY <1>1, <2>6, <2>7, Untouched
<1>4. CASE To(w, "clear") /\ UNCHANGED game_versions
  <2>1. Torn(game_versions, phase0)' <=> Torn(game_versions, phase0)
    BY <1>1, <1>2, <1>4, ToFacts DEF Torn
  <2>2. FlagOK'
    <3>1. /\ phase0' \in [Writer -> [pc : {"idle", "insert", "clear", "set"}, latest : Released \cup {Absent}]]
          /\ \A v \in Writer : phase0'[v].pc # "idle" => phase0'[v].latest \in Released
      BY <1>1, <1>2, <1>4, ToFacts
    <3> QED
      BY <1>2, <1>4, <2>1, <3>1 DEF FlagOK
  <2> HIDE DEF Inv
  <2> QED
    BY <1>1, <2>1, <2>2, Untouched
<1> QED
  BY <1>1, <1>3, <1>4

LEMMA InterruptStep ==
  ASSUME Inv, NEW w \in Writer, Interrupt(w)
  PROVE  Inv'
<1> DEFINE gv == [game_versions EXCEPT !.torn = @ \/ phase0[w].pc = "set"]
<1>1. /\ phase0[w].pc # "idle" /\ To(w, "idle") /\ game_versions' = gv
      /\ UNCHANGED <<log, redis, req, now>>
  BY DEF Interrupt
<1>2. FlagOK
  BY DEF Inv
<1>3. /\ phase0' \in [Writer -> [pc : {"idle", "insert", "clear", "set"}, latest : Released \cup {Absent}]]
      /\ \A v \in Writer : phase0'[v].pc # "idle" => phase0'[v].latest \in Released
      /\ phase0'[w].pc = "idle" /\ \A v \in Writer : v # w => phase0'[v] = phase0[v]
  BY <1>1, <1>2, ToFacts
<1>4. /\ gv \in [known : SUBSET Released, latest : SUBSET Released,
                 published : DOMAIN Version, torn : BOOLEAN]
      /\ gv.latest = game_versions.latest /\ gv.torn = (game_versions.torn \/ phase0[w].pc = "set")
  <2>1. (game_versions.torn \/ phase0[w].pc = "set") \in BOOLEAN
    OBVIOUS
  <2> QED
    BY <1>2, <2>1 DEF FlagOK
<1> HIDE DEF gv
<1>5. Torn(game_versions, phase0)' <=> Torn(game_versions, phase0)
  BY <1>1, <1>3, <1>4 DEF Torn
<1>6. FlagOK'
  BY <1>1, <1>2, <1>3, <1>4, <1>5 DEF FlagOK
<1> HIDE DEF Inv
<1> QED
  BY <1>1, <1>5, <1>6, Untouched

LEMMA SyncStep ==
  ASSUME Inv, NEW w \in Writer, SyncLatest(w)
  PROVE  Inv'
<1> DEFINE pc == phase0[w].pc
           v == phase0[w].latest
           torn == Torn(game_versions, phase0)'
<1>1. /\ pc \in {"clear", "set"} /\ To(w, IF pc = "clear" THEN "set" ELSE "idle")
      /\ game_versions' = [Flag(game_versions, pc, v) EXCEPT !.torn = @ /\ pc = "clear"]
      /\ req' = [r \in Request |-> IF Unresolved(r) /\ torn THEN [req[r] EXCEPT !.torn = TRUE] ELSE req[r]]
      /\ UNCHANGED <<log, redis, now>>
  BY DEF SyncLatest
<1>2. FlagOK
  BY DEF Inv
<1>3. /\ phase0' \in [Writer -> [pc : {"idle", "insert", "clear", "set"}, latest : Released \cup {Absent}]]
      /\ \A u \in Writer : phase0'[u].pc # "idle" => phase0'[u].latest \in Released
      /\ phase0'[w].pc = (IF pc = "clear" THEN "set" ELSE "idle")
      /\ \A u \in Writer : u # w => phase0'[u] = phase0[u]
  <2>1. (IF pc = "clear" THEN "set" ELSE "idle") \in {"idle", "clear", "set"} /\ phase0[w].pc # "idle"
    BY <1>1
  <2> QED
    BY <1>1, <1>2, <2>1, ToFacts
<1>4. v \in Released
  BY <1>1, <1>2 DEF FlagOK
<1>5. PICK L : L = IF pc = "clear" THEN {} ELSE game_versions.latest \cup {v}
  OBVIOUS
<1>6. /\ game_versions' \in [known : SUBSET Released, latest : SUBSET Released,
                             published : DOMAIN Version, torn : BOOLEAN]
      /\ game_versions'.latest = L
      /\ game_versions'.torn = (game_versions.torn /\ pc = "clear")
  <2> DEFINE gv == [game_versions EXCEPT !.latest = L]
  <2>1. Flag(game_versions, pc, v) = gv
    BY <1>5 DEF Flag
  <2>2. L \subseteq Released
    BY <1>2, <1>4, <1>5 DEF FlagOK
  <2>3. /\ gv \in [known : SUBSET Released, latest : SUBSET Released,
                   published : DOMAIN Version, torn : BOOLEAN]
        /\ gv.latest = L /\ gv.torn = game_versions.torn
    BY <1>2, <2>2 DEF FlagOK
  <2>4. (game_versions.torn /\ pc = "clear") \in BOOLEAN
    OBVIOUS
  <2>5. game_versions' = [gv EXCEPT !.torn = game_versions.torn /\ pc = "clear"]
    BY <1>1, <2>1, <2>3
  <2> HIDE DEF gv, pc, v
  <2> QED
    BY <2>3, <2>4, <2>5
<1>7. L # {} => \E x \in L : \A y \in L : Rank(y) <= Rank(x)
  <2>1. game_versions.latest \in SUBSET Released
    BY <1>2 DEF FlagOK
  <2>2. CASE pc = "clear"
    BY <1>5, <2>2
  <2>3. CASE pc # "clear"
    <3>1. L = game_versions.latest \cup {v}
      BY <1>5, <2>3
    <3>2. PICK S : S = game_versions.latest
      OBVIOUS
    <3>3. PICK u : u = v
      OBVIOUS
    <3>4. S \in SUBSET Released /\ u \in Released
      BY <1>4, <2>1, <3>2, <3>3
    <3>5. S # {} => \E x \in S : \A y \in S : Rank(y) <= Rank(x)
      BY <1>2, <3>2, Zenon DEF FlagOK
    <3>6. \E x \in S \cup {u} : \A y \in S \cup {u} : Rank(y) <= Rank(x)
      BY <3>4, <3>5, NewestOf, Zenon
    <3>7. L = S \cup {u}
      BY <3>1, <3>2, <3>3
    <3> QED
      BY <3>6, <3>7, Zenon
  <2> QED
    BY <2>2, <2>3
<1>8. L = {} => torn
  BY <1>3, <1>5 DEF Torn
<1>9. FlagOK'
  BY <1>3, <1>6, <1>7, <1>8 DEF FlagOK
<1> HIDE DEF pc, v
<1>10. \A f, u, page : Shown(f, u, page)' <=> Shown(f, u, page)
  BY <1>1 DEF Shown, Database
<1>11. ASSUME NEW r \in Request, Active(r)'
       PROVE  ReqOK(r)'
  <2>1. Active(r)
    BY <1>1, <1>11 DEF Active, Unresolved
  <2>2. ReqOK(r)
    BY <2>1 DEF Inv
  <2>3. /\ DOMAIN req'[r] = Fields
        /\ torn /\ req[r].pc \in {"get", "resolve"} => req'[r].torn
        /\ req[r].torn => req'[r].torn
        /\ req'[r].filter = req[r].filter /\ req'[r].pc = req[r].pc
        /\ req'[r].since = req[r].since /\ req'[r].loaded = req[r].loaded
        /\ req'[r].version = req[r].version /\ req'[r].page = req[r].page
    BY <1>1, <2>1, <2>2 DEF ReqOK, Fields, Unresolved
  <2> QED
    BY <1>1, <1>10, <2>2, <2>3 DEF ReqOK
<1>12. ASSUME NEW f \in DOMAIN redis'
       PROVE  EntryOK(f)'
  <2>1. EntryOK(f)
    BY <1>1 DEF Inv
  <2> QED
    BY <1>1, <1>10, <2>1 DEF EntryOK
<1>13. now' \in Nat /\ log' \in Entries /\ DOMAIN req' = Request
  BY <1>1 DEF Inv
<1> QED
  BY <1>9, <1>11, <1>12, <1>13 DEF Inv
-----------------------------------------------------------------------------
(* A request *)

\* One request moves on, and the cache may get an entry.
LEMMA Served ==
  ASSUME Inv, NEW r \in Request, UNCHANGED <<log, game_versions, phase0, now>>,
         DOMAIN req' = Request, \A s \in Request : s # r => req'[s] = req[s],
         Active(r)' => ReqOK(r)',
         \A f \in DOMAIN redis' : (f \in DOMAIN redis /\ redis'[f] = redis[f]) \/ EntryOK(f)'
  PROVE  Inv'
<1>1. \A f, v, page : Shown(f, v, page)' <=> Shown(f, v, page)
  BY DEF Shown, Database
<1>2. FlagOK' /\ (Torn(game_versions, phase0)' <=> Torn(game_versions, phase0))
  BY DEF Inv, FlagOK, Torn
<1>3. ASSUME NEW s \in Request, Active(s)'
      PROVE  ReqOK(s)'
  <2>1. CASE s = r
    BY <1>3, <2>1
  <2>2. CASE s # r
    <3>1. Active(s) /\ ReqOK(s) /\ req'[s] = req[s]
      BY <1>3, <2>2 DEF Inv, Active
    <3> QED
      BY <1>1, <1>2, <3>1 DEF ReqOK
  <2> QED
    BY <2>1, <2>2
<1>4. ASSUME NEW f \in DOMAIN redis'
      PROVE  EntryOK(f)'
  <2>1. CASE f \in DOMAIN redis /\ redis'[f] = redis[f]
    <3>1. EntryOK(f)
      BY <2>1 DEF Inv
    <3> QED
      BY <1>1, <2>1, <3>1 DEF EntryOK
  <2> QED
    BY <2>1
<1> QED
  BY <1>2, <1>3, <1>4 DEF Inv

LEMMA RequestEnds ==
  ASSUME Inv, NEW r \in Request, UNCHANGED <<log, game_versions, phase0, redis, now>>,
         req' = [req EXCEPT ![r] = Absent]
  PROVE  Inv'
<1>1. DOMAIN req' = Request /\ req'[r] = Absent /\ \A s \in Request : s # r => req'[s] = req[s]
  BY DEF Inv
<1>2. ~Active(r)'
  BY <1>1 DEF Active
<1> HIDE DEF Inv
<1> QED
  BY <1>1, <1>2, Served

\* The version of a filter is a version, "latest" or empty, but never missing.
LEMMA FilterFacts ==
  ASSUME NEW surface, NEW q
  PROVE  FilterOf(surface, q).version # Absent
<1>1. "latest" # Absent /\ "" # Absent
  BY AbsentAssumption, Zenon DEF AbsentAssumption
<1> DEFINE in == IF surface = "graphql" THEN Unmarshal(q) ELSE q
<1>2. FilterOf(surface, q).version =
        OrElse(in.version, IF surface = "graphql" THEN "latest" ELSE "")
  BY DEF FilterOf
<1> QED
  BY <1>1, <1>2, Zenon DEF OrElse

LEMMA AskStep ==
  ASSUME Inv, NEW r \in Request, NEW surface \in Surface, NEW q, Ask(r, surface, q)
  PROVE  Inv'
<1> DEFINE new == [filter |-> FilterOf(surface, q), cached |-> surface # "legacy",
                   pc |-> IF surface = "legacy" THEN "resolve" ELSE "get",
                   since |-> now, loaded |-> now, version |-> Absent, page |-> Absent,
                   torn |-> Torn(game_versions, phase0)]
<1>1. req' = [req EXCEPT ![r] = new] /\ UNCHANGED <<log, game_versions, phase0, redis, now>>
  BY DEF Ask
<1>2. /\ DOMAIN new = Fields /\ new.filter.version # Absent /\ new.pc \in {"resolve", "get"}
      /\ new.since = now /\ new.loaded = now
      /\ (Torn(game_versions, phase0) => new.torn)
  BY FilterFacts DEF Fields
<1> HIDE DEF new
<1>3. DOMAIN req' = Request /\ req'[r] = new /\ \A s \in Request : s # r => req'[s] = req[s]
  BY <1>1 DEF Inv
<1>4. Torn(game_versions, phase0)' <=> Torn(game_versions, phase0)
  BY <1>1 DEF Torn
<1>5. now \in Nat /\ now <= now + MaxLoad
  BY BoundsAssumption DEF Inv, BoundsAssumption
<1>6. ReqOK(r)'
  BY <1>1, <1>2, <1>3, <1>4, <1>5 DEF ReqOK
<1> HIDE DEF Inv
<1> QED
  BY <1>1, <1>3, <1>6, Served

LEMMA GetStep ==
  ASSUME Inv, NEW r \in Request, GetJSON(r)
  PROVE  Inv'
<1>1. /\ At(r, "get") /\ UNCHANGED <<log, game_versions, phase0, redis, now>>
  BY DEF GetJSON
<1>2. ReqOK(r)
  BY <1>1 DEF Inv, At
<1>3. PICK f : f = req[r].filter
  OBVIOUS
<1>4. /\ Torn(game_versions, phase0)' <=> Torn(game_versions, phase0)
      /\ \A g, v, page : Shown(g, v, page)' <=> Shown(g, v, page)
  BY <1>1 DEF Torn, Shown, Database
<1>5. CASE /\ f \in DOMAIN redis
           /\ req' = [req EXCEPT ![r].pc = "answer", ![r].page = redis[f].page,
                                 ![r].version = redis[f].version, ![r].loaded = redis[f].loaded,
                                 ![r].torn = FALSE]
  <2>1. EntryOK(f)
    BY <1>5 DEF Inv
  <2>2. /\ DOMAIN req' = Request /\ \A s \in Request : s # r => req'[s] = req[s]
        /\ DOMAIN req'[r] = Fields
        /\ req'[r].pc = "answer" /\ req'[r].page = redis[f].page
        /\ req'[r].version = redis[f].version /\ req'[r].loaded = redis[f].loaded
        /\ req'[r].filter = f /\ req'[r].since = req[r].since
    BY <1>2, <1>3, <1>5 DEF Inv, ReqOK, Fields
  <2>3. req[r].since < redis[f].loaded + TTL + MaxLoad
    <3>1. /\ req[r].since \in Nat /\ now \in Nat /\ req[r].since <= now
          /\ redis[f].loaded \in Nat /\ redis[f].expires \in Nat
          /\ now < redis[f].expires /\ redis[f].expires <= redis[f].loaded + MaxLoad + TTL
      BY <1>2, <2>1 DEF Inv, ReqOK, EntryOK
    <3>2. TTL \in Nat /\ MaxLoad \in Nat
      BY BoundsAssumption DEF BoundsAssumption
    <3> QED
      BY <3>1, <3>2
  <2>4. ReqOK(r)'
    BY <1>1, <1>2, <1>3, <1>4, <2>1, <2>2, <2>3 DEF ReqOK, EntryOK
  <2> HIDE DEF Inv
  <2> QED
    BY <1>1, <2>2, <2>4, Served
<1>6. CASE Goto(r, "resolve")
  <2>1. req' = [req EXCEPT ![r].pc = "resolve"]
    BY <1>6 DEF Goto
  <2>2. /\ DOMAIN req' = Request /\ \A s \in Request : s # r => req'[s] = req[s]
        /\ DOMAIN req'[r] = Fields
        /\ req'[r].pc = "resolve"
        /\ req'[r].filter = f /\ req'[r].since = req[r].since /\ req'[r].torn = req[r].torn
        /\ req'[r].loaded = req[r].loaded
    BY <1>2, <1>3, <2>1 DEF Inv, ReqOK, Fields
  <2>3. ReqOK(r)'
    BY <1>1, <1>2, <1>3, <1>4, <2>2 DEF ReqOK, At
  <2> HIDE DEF Inv
  <2> QED
    BY <1>1, <2>2, <2>3, Served
<1> QED
  BY <1>3, <1>5, <1>6 DEF GetJSON, CacheKey

\* Without a flagged row there is no latest version, and only then.
LEMMA LatestFacts ==
  ASSUME FlagOK, GetLatestVersion(game_versions) = Absent
  PROVE  game_versions.latest = {}
<1>1. ASSUME game_versions.latest # {}
      PROVE  FALSE
  <2>1. \E v \in game_versions.latest : \A w \in game_versions.latest : Rank(w) <= Rank(v)
    BY <1>1 DEF FlagOK
  <2>2. GetLatestVersion(game_versions) \in game_versions.latest
    BY <1>1, <2>1 DEF GetLatestVersion
  <2>3. game_versions.latest \subseteq Released
    BY DEF FlagOK
  <2>4. Released \subseteq STRING
    BY BoundsAssumption DEF Released, BoundsAssumption
  <2> QED
    BY <2>2, <2>3, <2>4, AbsentAssumption, Zenon DEF AbsentAssumption
<1> QED
  BY <1>1

LEMMA ResolveStep ==
  ASSUME Inv, NEW r \in Request, ResolveVersion(r)
  PROVE  Inv'
<1>1. PICK version : version = IF req[r].filter.version = "latest"
                                 THEN GetLatestVersion(game_versions) ELSE req[r].filter.version
  OBVIOUS
<1>2. /\ At(r, "resolve") /\ UNCHANGED <<log, game_versions, phase0, redis, now>>
      /\ IF version = Absent THEN Goto(r, "error")
         ELSE req' = [req EXCEPT ![r].pc = "query", ![r].version = version, ![r].torn = FALSE]
  BY <1>1 DEF ResolveVersion
<1>3. ReqOK(r) /\ FlagOK
  BY <1>2 DEF Inv, At
<1>4. Torn(game_versions, phase0)' <=> Torn(game_versions, phase0)
  BY <1>2 DEF Torn
<1>5. CASE version = Absent
  <2>1. GetLatestVersion(game_versions) = Absent
    BY <1>1, <1>3, <1>5 DEF ReqOK
  <2>2. Torn(game_versions, phase0)
    BY <1>3, <2>1, LatestFacts DEF FlagOK
  <2>3. req' = [req EXCEPT ![r].pc = "error"]
    BY <1>2, <1>5 DEF Goto
  <2>4. /\ DOMAIN req' = Request /\ \A s \in Request : s # r => req'[s] = req[s]
        /\ DOMAIN req'[r] = Fields /\ req'[r].pc = "error" /\ req'[r].filter = req[r].filter
        /\ req'[r].since = req[r].since /\ req'[r].torn = req[r].torn
        /\ req'[r].loaded = req[r].loaded
    BY <1>3, <2>3 DEF Inv, ReqOK, Fields
  <2>5. ReqOK(r)'
    BY <1>2, <1>3, <1>4, <2>2, <2>4 DEF ReqOK, At
  <2> HIDE DEF Inv
  <2> QED
    BY <1>2, <2>4, <2>5, Served
<1>6. CASE version # Absent
  <2>1. req' = [req EXCEPT ![r].pc = "query", ![r].version = version, ![r].torn = FALSE]
    BY <1>2, <1>6
  <2>2. /\ DOMAIN req' = Request /\ \A s \in Request : s # r => req'[s] = req[s]
        /\ DOMAIN req'[r] = Fields /\ req'[r].pc = "query" /\ req'[r].filter = req[r].filter
        /\ req'[r].since = req[r].since
        /\ req'[r].loaded = req[r].loaded /\ req'[r].version = version
    BY <1>3, <2>1 DEF Inv, ReqOK, Fields
  <2>3. ReqOK(r)'
    BY <1>1, <1>2, <1>3, <1>4, <2>2 DEF ReqOK, Agrees
  <2> HIDE DEF Inv
  <2> QED
    BY <1>2, <2>2, <2>3, Served
<1> QED
  BY <1>5, <1>6

LEMMA ListStep ==
  ASSUME Inv, NEW r \in Request, ListRankings(r)
  PROVE  Inv'
<1>1. At(r, "query") /\ UNCHANGED <<log, game_versions, phase0, redis, now>>
  BY DEF ListRankings
<1>2. PICK page \in Pages(req[r].filter, req[r].version, Database(Len(log))) :
        req' = [req EXCEPT ![r].pc = IF req[r].cached THEN "store" ELSE "answer", ![r].page = page,
                           ![r].loaded = now]
  BY DEF ListRankings
<1>3. ReqOK(r) /\ req[r].pc = "query" /\ now \in Nat /\ Len(log) \in Nat
  BY <1>1 DEF Inv, At, Entries
<1>4. /\ Torn(game_versions, phase0)' <=> Torn(game_versions, phase0)
      /\ \A g, v, p : Shown(g, v, p)' <=> Shown(g, v, p)
  BY <1>1 DEF Torn, Shown, Database
<1>5. Shown(req[r].filter, req[r].version, page)
  BY <1>2, <1>3 DEF Shown
<1>6. /\ DOMAIN req' = Request /\ \A s \in Request : s # r => req'[s] = req[s]
      /\ DOMAIN req'[r] = Fields /\ req'[r].pc \in {"store", "answer"}
      /\ req'[r].page = page /\ req'[r].loaded = now
      /\ req'[r].filter = req[r].filter /\ req'[r].version = req[r].version
      /\ req'[r].since = req[r].since /\ req'[r].torn = req[r].torn
  BY <1>2, <1>3 DEF Inv, ReqOK, Fields
<1>7. req[r].since <= now /\ req[r].since < now + TTL + MaxLoad
  BY <1>3, BoundsAssumption DEF ReqOK, BoundsAssumption
<1>8. ReqOK(r)'
  BY <1>1, <1>3, <1>4, <1>5, <1>6, <1>7 DEF ReqOK
<1> HIDE DEF Inv
<1> QED
  BY <1>1, <1>6, <1>8, Served

LEMMA SetStep ==
  ASSUME Inv, NEW r \in Request, SetJSON(r)
  PROVE  Inv'
<1>1. /\ At(r, "store") /\ UNCHANGED <<log, game_versions, phase0, now>>
      /\ req' = [req EXCEPT ![r] = Absent]
  BY DEF SetJSON
<1>2. CASE UNCHANGED redis
  BY <1>1, <1>2, RequestEnds
<1>3. CASE ~UNCHANGED redis
  <2>1. PICK f : f = req[r].filter
    OBVIOUS
  <2> DEFINE new == [page |-> req[r].page, version |-> req[r].version, loaded |-> req[r].loaded,
                     expires |-> now + TTL]
  <2>2. redis' = [k \in DOMAIN redis \cup {f} |-> IF k = f THEN new ELSE redis[k]]
    BY <1>3, <2>1 DEF SetJSON, CacheKey, Expiry
  <2>3. /\ new.page = req[r].page /\ new.version = req[r].version /\ new.loaded = req[r].loaded
        /\ new.expires = now + TTL
    OBVIOUS
  <2> HIDE DEF new
  <2>4. ReqOK(r) /\ req[r].pc = "store" /\ now \in Nat
    BY <1>1 DEF Inv, At
  <2>5. \A g, v, p : Shown(g, v, p)' <=> Shown(g, v, p)
    BY <1>1 DEF Shown, Database
  <2>6. EntryOK(f)'
    <3>1. redis'[f] = new
      BY <2>2
    <3>2. /\ new.loaded \in Nat /\ new.expires \in Nat
          /\ now < new.expires /\ new.expires <= new.loaded + MaxLoad + TTL
      BY <2>3, <2>4, BoundsAssumption DEF ReqOK, BoundsAssumption
    <3> QED
      BY <1>1, <2>1, <2>3, <2>4, <2>5, <3>1, <3>2 DEF EntryOK, ReqOK
  <2>7. \A k \in DOMAIN redis' : (k \in DOMAIN redis /\ redis'[k] = redis[k]) \/ EntryOK(k)'
    BY <2>2, <2>6
  <2>8. DOMAIN req' = Request /\ req'[r] = Absent /\ \A s \in Request : s # r => req'[s] = req[s]
    BY <1>1 DEF Inv
  <2>9. ~Active(r)'
    BY <2>8 DEF Active
  <2> HIDE DEF Inv
  <2> QED
    BY <1>1, <2>7, <2>8, <2>9, Served
<1> QED
  BY <1>2, <1>3

LEMMA TickStep ==
  ASSUME Inv, Tick
  PROVE  Inv'
<1>1. /\ \A r \in Request : Active(r) => now < req[r].since + MaxLoad
      /\ now' = now + 1 /\ UNCHANGED <<log, game_versions, phase0, req>>
      /\ redis' = [k \in {j \in DOMAIN redis : redis[j].expires > now'} |-> redis[k]]
  BY DEF Tick
<1>2. now \in Nat /\ now' \in Nat
  BY <1>1 DEF Inv
<1>3. \A g, v, p : Shown(g, v, p)' <=> Shown(g, v, p)
  BY <1>1 DEF Shown, Database
<1>4. FlagOK' /\ (Torn(game_versions, phase0)' <=> Torn(game_versions, phase0))
  BY <1>1 DEF Inv, FlagOK, Torn
<1>5. ASSUME NEW r \in Request, Active(r)'
      PROVE  ReqOK(r)'
  <2>1. Active(r) /\ ReqOK(r)
    BY <1>1, <1>5 DEF Inv, Active
  <2>2. req[r].since <= now' /\ now' <= req[r].since + MaxLoad
    BY <1>1, <1>2, <2>1, BoundsAssumption DEF ReqOK, BoundsAssumption
  <2> QED
    BY <1>1, <1>3, <1>4, <2>1, <2>2 DEF ReqOK
<1>6. ASSUME NEW f \in DOMAIN redis'
      PROVE  EntryOK(f)'
  <2>1. f \in DOMAIN redis /\ redis[f].expires > now' /\ redis'[f] = redis[f]
    BY <1>1
  <2>2. EntryOK(f)
    BY <2>1 DEF Inv
  <2>3. now' < redis[f].expires
    BY <1>2, <2>1, <2>2 DEF EntryOK
  <2> QED
    BY <1>3, <2>1, <2>2, <2>3 DEF EntryOK
<1> QED
  BY <1>1, <1>2, <1>4, <1>5, <1>6 DEF Inv
-----------------------------------------------------------------------------
(* The invariant *)

LEMMA InitInv ==
  ASSUME Init
  PROVE  Inv
<1>1. 1 \in DOMAIN Version
  BY BoundsAssumption DEF BoundsAssumption
<1>2. Version[1] \in Released
  BY <1>1 DEF Released
<1>3. FlagOK
  <2>1. /\ game_versions = [known |-> {Version[1]}, latest |-> {Version[1]}, published |-> 1,
                            torn |-> FALSE]
        /\ phase0 = [w \in Writer |-> [pc |-> "idle", latest |-> Absent]]
    BY DEF Init
  <2>2. game_versions \in [known : SUBSET Released, latest : SUBSET Released,
                           published : DOMAIN Version, torn : BOOLEAN]
    BY <1>1, <1>2, <2>1
  <2>3. /\ phase0 \in [Writer -> [pc : {"idle", "insert", "clear", "set"}, latest : Released \cup {Absent}]]
        /\ \A w \in Writer : phase0[w].pc = "idle"
    BY <2>1
  <2>4. game_versions.latest = {Version[1]}
    BY <2>1
  <2>5. Rank(Version[1]) <= Rank(Version[1])
    BY <1>2, RankFacts
  <2> QED
    BY <2>2, <2>3, <2>4, <2>5 DEF FlagOK
<1>4. now \in Nat /\ log \in Entries /\ DOMAIN req = Request
  BY DEF Init, Entries
<1>5. DOMAIN redis = {} /\ \A r \in Request : ~Active(r)
  BY DEF Init, Active
<1> QED
  BY <1>3, <1>4, <1>5 DEF Inv

LEMMA StepInv ==
  ASSUME Inv, [Next]_vars
  PROVE  Inv'
<1>1. CASE \E r \in Request : Serve(r)
  <2>1. PICK r \in Request : Serve(r)
    BY <1>1
  <2>2. CASE FailRead(r) \/ Respond(r)
    BY <2>2, RequestEnds DEF FailRead, Respond
  <2> HIDE DEF Inv
  <2> QED
    BY <2>1, <2>2, GetStep, ResolveStep, ListStep, SetStep DEF Serve
<1>2. CASE \E r \in Request, surface \in Surface : \E q \in Query[surface] : Ask(r, surface, q)
  BY <1>2, AskStep
<1>3. CASE Crawl
  <2> HIDE DEF Inv
  <2> QED
    BY <1>3, LogStep, FetchStep, InsertStep, SyncStep, InterruptStep, PublishStep DEF Crawl
<1>4. CASE Tick
  BY <1>4, TickStep
<1>5. CASE UNCHANGED vars
  <2>1. UNCHANGED <<log, redis, now, req, game_versions, phase0>>
    BY <1>5 DEF vars
  <2>2. FlagOK' /\ (Torn(game_versions, phase0)' <=> Torn(game_versions, phase0))
    BY <2>1 DEF Inv, FlagOK, Torn
  <2> HIDE DEF Inv
  <2> QED
    BY <2>1, <2>2, Untouched
<1> HIDE DEF Inv
<1> QED
  BY <1>1, <1>2, <1>3, <1>4, <1>5 DEF Next

LEMMA Invariant == Spec => []Inv
<1>1. Init => Inv
  BY InitInv
<1>2. Inv /\ [Next]_vars => Inv'
  BY StepInv
<1> QED
  BY <1>1, <1>2, PTL DEF Spec
-----------------------------------------------------------------------------
(* The properties *)

\* Whatever the servers answer, from the cache or not, is a page of the filter that
\* was asked, for the version that was asked, as the database had it less than the
\* time to live and the time of a load before the request: an entry that several
\* requests load and write over each other included (cached.go:24, shim.go:20-50).
THEOREM AnswersAreRecent == Spec => []PageIsRecent
<1>1. Inv => PageIsRecent
  <2> SUFFICES ASSUME Inv, NEW r \in Request, At(r, "answer") \/ At(r, "store")
               PROVE  /\ req[r].since < req[r].loaded + TTL + MaxLoad
                      /\ req[r].filter.version # "latest" => req[r].version = req[r].filter.version
                      /\ \E k \in 0 .. Len(log) :
                           req[r].page \in Pages(req[r].filter, req[r].version, Database(k))
    BY DEF PageIsRecent
  <2>1. ReqOK(r) /\ req[r].pc \in {"answer", "store"}
    BY DEF Inv, At
  <2> QED
    BY <2>1 DEF ReqOK, Agrees, Shown
<1> QED
  BY <1>1, Invariant, PTL

\* A request that is answered with an error, although its own statements succeed,
\* was served while some phase 0 was between its two updates, or after one stopped
\* there: no error outlives the hole that caused it (phase0/phase.go:58-66).
THEOREM ErrorsAreExplained == Spec => []ErrorsHaveACause
<1>1. Inv => ErrorsHaveACause
  BY DEF Inv, ErrorsHaveACause, At, ReqOK
<1> QED
  BY <1>1, Invariant, PTL
=============================================================================
