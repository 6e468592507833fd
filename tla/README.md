# Specifications of GoGG

GoGG collects League of Legends matches from the Riot API, computes statistics
per champion and serves them. This directory holds TLA+ specifications of its
core logic, the TLC configurations that check them and proofs for TLAPS.

    tlc -workers 2 -config CrawlRun_safety.cfg MCCrawlRun.tla
    tlc -workers 2 -config TemporalCrawl.cfg MCTemporalCrawl.tla
    tlapm CrawlRunProofs.tla

`PROJECT.json` lists runs, mutants (one per property: a plausible bug the
property catches), the source lines behind each definition, findings, hazards
and theorems. Operators marked `mutant` are only used there.

## 1. The system

| Part | State | Operations | Talks to |
|---|---|---|---|
| **Run lifecycle** `internal/crawler/{runner,run_state,strategy}.go`, `internal/storage/runs.go`, `cmd/crawl` | table `runs` (status, checkpoint, pinned version), advisory lock per region, `RunState` in memory | run, `run --resume`, cancel, daemon ticks; sequential and pipeline strategy; checkpoint, complete, fail | phases (Run/IsDone), PostgreSQL |
| **Phases 0, 1, 2** version, ranks, match ids | `game_versions`, `player_rank_snapshots`, `player_match_sync`, rows of `matches` | pin the version, snapshot all players of a tier, list new match ids per player | CommunityDragon, Riot API, PostgreSQL |
| **Phases 3, 3.5, 4, 5, 5.5** details, missing tiers, average rank, timeline, items | three status columns and retry counters per match, participants, events, item slots | a query selects the pending matches page by page; each match costs one API call and four statements | Riot API, PostgreSQL |
| **Temporal worker** `apps/worker` | workflow state, schedules; the same tables | `CrawlRegionWorkflow`: create run, activities per phase with timeouts, retries, heartbeats, finish | runs the phases of the crawler with a synthetic `RunState` |
| **Riot API client** `internal/riotapi` | two token buckets | get with up to five attempts after 429 | used by every phase |
| **User sessions** `apps/api/internal/service/user`, `auth` | users, identities, refresh tokens, the browser's cookie | OAuth login (find or create), refresh with rotation, logout | PostgreSQL |
| **Read-through cache** `apps/api/internal/cache` | Redis keys with TTL | `GetOrLoadShim` | Redis, loaders |
| **Queries and transports** `service/rankings`, `transport`, legacy `internal/server` | none | rankings, versions, regions; REST v1, GraphQL, legacy REST | cache, PostgreSQL |
| **Web front ends, playground, deployment** | none of their own | | |

How they interact: the components share PostgreSQL and nothing else. A crawl
writes rows that later phases find again by their status columns; the runner
remembers only a phase id and a tier. All recovery rests on this: whatever a
crashed or interrupted execution left must be found, and found only once, by
the queries of the next one.

What is hard, and not reached by unit tests:

- **Crashes and Ctrl-C between two statements.** No phase uses a transaction.
- **Resume.** It trusts one phase id, for two strategies that visit phases in
  different patterns, and phase ids that are not in execution order
  (3, 35, 4, 5, 55).
- **Check-then-act.** "No active run" and the INSERT are separate statements;
  the advisory lock makes them atomic, and belongs to a database session, not
  to the process.
- **Retries.** Three counters per match; statements that insert without a key
  are repeated after a partial failure.
- **Loops that end when a query returns nothing** although a row can stay in it.
- **Patches** published during a run, while the run is pinned to a version.
- **Overlapping activities** of the worker, for which nothing plays the part of
  the lock.
- **Refresh rotation and first login**, each a read and a write by concurrent
  requests.
- **Games named by events.** The timeline says "an item was sold", not which of
  several copies; starters, boots and builds are judged from it afterwards.

What makes each part correct:

- run lifecycle: one executor per region and run; a run is completed only with
  all its work done; the checkpoint never loses or repeats more than the code
  says; a region is not closed for ever;
- phases 0 to 2: one version per run; snapshots of one execution only; every
  tier collected; no player's time window is skipped;
- phases 3 to 5.5: stages in order; done means stored; three retries; averages
  of ranked players; slots in the order of purchase; every match ends;
- worker: a run is completed only with every tier and phase behind it, and keeps
  its version; a workflow ends and leaves its run with a final status; an
  activity that is repeated does no harm;
- items: what counts as kept is what the player still holds;
- sessions: a refresh token is used once; one user per identity; no tab is
  logged out by another;
- queries: every way to slice the games gives the same games;
- cache: an answer is at most a TTL, and a load, old; Redis failing only costs
  time;
- client: at most five attempts; never above the rate of either bucket.

## 2. Modules

    RegionExecutor                        abstract: what runs of a region owe
        ^ implements
    CrawlRun ──── MCCrawlRun              crawl_safety, crawl_live, crawl_pipeline
        └──────── CrawlRunProofs          theorems
    TemporalCrawl ─ MCTemporalCrawl       temporal
        └────────── TemporalCrawlProofs   theorems
    PlayerSync ──── MCPlayerSync          player_sync
        └────────── PlayerSyncProofs      theorems
    MatchPipeline ─ MCMatchPipeline       match_stages, match_live, match_cancel
        └────────── MatchPipelineProofs   theorems
    TierScore ────┐
    ItemBuild ────┼ MCStatistics          statistics
    RankedMatches ┘
        └─ Rankings ── ApiReads ── MCApiReads    api_reads
                       └──────── ApiReadsProofs  theorems
    TierScore, ItemBuild ─ StatisticsProofs      theorems
    Sessions ───── MCSessions             sessions
        └───────── SessionsProofs         theorems
    RiotClient                            riot_client
        └───────── RiotClientProofs       theorems

The modules meet in the database. What one leaves out, another one has: CrawlRun
sees runs, versions and tiers; PlayerSync the players behind phase 2; MatchPipeline
single matches behind phases 3 to 5.5; ItemBuild and TierScore the values these
phases compute; Rankings what is read from them. In all of them an action is one
statement the database executes, with the local computation around it.

### RegionExecutor and CrawlRun

`RegionExecutor` is the promise: a region executes at most one run; a run is born
executing, while no other run of its region is 'running'; only an execution
completes a run; only a run that is not completed is executed again. It knows no
processes, locks, checkpoints or phases.

A process of `Proc` is one `gogg crawl run` or one goroutine of the daemon.
`cli[p].pc` follows `Runner.Run`:

    idle -> check -> create ------------------------.
    idle -> lookup -> reactivate -> reset -> purge -> plan <-> phase
                                                       plan, phase -> close -> idle

| Action | Code |
|---|---|
| `StartNew`, `StartResume` | command line or daemon tick, `acquireAdvisoryLock` (fails: nothing changes) |
| `ReadActive`, `Create` | `GetActiveRun`, `NewRunState`/`CreateRun` |
| `Lookup`, `Reactivate`, `ResetCheckpoint`, `PurgeSnapshots` | `GetRunByID`, status check, `MergeFlags`, `ResumeRunState`; the statements of `ReactivateRun` and `ResetRunToPhase0` |
| `SkipDone`, `SkipIdle`, `EnterPhase`, `OpenTier`, `Finish` | `runPhase` and `Execute` of both strategies; `Plan` is the sequence of phases a strategy goes through |
| `SyncVersion`, `SyncTier`, `FinishRankSync`, `CollectMatches`, `FinishCollect`, `ProcessBatch`, `FinishDrain` | `Run` of the phases, as far as runs, versions and tiers are concerned |
| `PhaseError`, `Signal`, `Interrupted`, `Close`, `CloseLost`, `AbortSetup` | how `Runner.Run` ends |
| `Crash`, `LoseSession`, `Cancel`, `NewPatch` | the environment: process dies, session of the lock is dropped, `crawl cancel`, a patch is released |

Matches are abstracted to *batches* `[run, region, version, phase]`: matches
found by a run that wait for a phase. Every phase may finish a batch, leave a
part of it, or pass it on to the phases whose queries will select it.

The refinement (`Abstract` at the end of CrawlRun) maps a row to its status and
region, and counts a run as executed from the moment its status was checked, or
its row created, until the process leaves. `Lookup` becomes `Resume`, `Create`
becomes `Begin`, `Reactivate` `Reopen`, `Close` `Settle`; crashes, signals and
lost last statements become `Abandon`; the rest stutters.

### TemporalCrawl

The server (external) keeps the activities an open workflow waits for (`tasks`);
workers execute `attempts` of them. `wf[w].pc` counts the calls of `runPhases`.
An attempt the server gave up on goes on as a *ghost*: phases 0 and 1 learn of it
from their next heartbeat, the other activities have no heartbeat and only the
deadline of their context; a ghost's answer is dropped.

| Action | Code |
|---|---|
| `Upsert`, `Fire` | `schedule.Upsert`, the schedule with its default overlap policy |
| `Poll`, `Report`, `FailAttempt`, `TimeOut`, `TimeOutLost`, `ContextExpired` | the activity options of the workflow, as the server applies them |
| `CreateRun`, `Phase0VersionSync`, `PinRunVersion`, `Phase1RankSnapshot`, `Phase2MatchIDCollection`, `Phase3MatchDetails` … `Phase55ItemClassify`, `StampRun` | the activities |
| `RejectVersion`, `RejectRegion` | errors every attempt returns: an empty version, a region without a client |
| `Proceed`, `Complete`, `SeeError`, `CloseFailed` | `CrawlRegionWorkflow`, its deferred `FailRun` on a disconnected context, futures of phase 2 in pipeline mode gathered in the order of the tiers |
| `Cancel`, `ExecutionTimeOut`, `CrashWorker`, `NewPatch` | the environment |

### PlayerSync

Phases 0 and 2 with players: `GetAllVersions`, `InsertVersion`, `PinVersion`,
`OpenWindow` (`EndTime`: the next version's start if its row is there, else
`started_at`), per player `Skip`, `ListMatches`, `StoreMatch`, `MarkSynced` or
`PlayerFails`. Every player plays a match per tick and a version is named by the
tick of its patch, so that `label[m]` can be compared with the patch the match was
played in. `coverage` remembers which window a sync time stands for.

### MatchPipeline

Phases 2 to 5.5 from the side of single matches: `matches[m]` is the row in
`matches` (three status columns, three counters, the average) together with
what the other tables hold of the match. One action is one statement or one
API call. `Fetch`, `FetchFails`, `Write`, `WriteFails`, `CountRetry` are shared
by phases 3, 5 and 5.5, which have one loop; `Statements(k)` lists what each
writes, in order. `AskFails`, `AskRanked`, `Backfill`, `AskUnranked` are phase
3.5; `Compute`, `Store`, `StoreFails` phase 4; `Collect` phase 2. `WriteFails`
covers both an error before the statement took effect and a lost answer.
`BreakOff` ends an execution anywhere; `Start` takes it up at the checkpoint.

The module has one region and one version, because every query filters by
them; that only one process works there is `OneExecutorPerRegion` of CrawlRun.

### TierScore, ItemBuild, Rankings and RankedMatches

`TierScore`: `computeAndStore` and `scoreToTier` of phase 4 with
`GetApexThresholds`: rank to number, average, and back, for thresholds that come
from stored snapshots.

`ItemBuild`: a player shops in the game (`held`, `shop`: external), the events
go through `extractTimeline` (`ItemPurchased`, `ItemSold`, `UndoPurchase`,
`UndoSale`), and the rows through `classify` one by one (`ClassifyRow`), in any
order `ORDER BY timestamp_ms` permits. `ItemCatalog` and `ItemSets` are the flags
`loadCatalog` stores.

`Rankings`: the two queries as operators on sets of matches (filters, joins, rates,
`HAVING`, `LIMIT`), and the way from the parameters of three servers to a filter
(`FilterOf`). A parameter that is left out means 20 games, a threshold of 5 % and all
versions to the REST servers. In GraphQL the generated unmarshaller fills in the
schema's values first (`Unmarshal`, `SchemaDefaults`): no least number of games, which
becomes one, 0.5 % and "latest"; the resolver's own 20 games and 5 % are used for
fields that are null (`Null`), and for a request without a filter, which is a filter of
nulls.
`RankedMatches` lets the database grow under them.

`MCStatistics` puts the three one after the other, with nothing shared, so that one
run covers them.

### ApiReads, Sessions, RiotClient

`ApiReads`: a request asks one of three servers (`Ask`), looks into Redis
(`GetJSON`), resolves "latest" (`ResolveVersion`), queries (`ListRankings`), stores
(`SetJSON`) and answers, while a match is stored and rated and phase 0 of a crawler
inserts versions and moves `is_latest` by two updates (`SyncLatest`).

`Sessions`: the handlers of login, refresh and logout, one statement per action,
between browsers with a cookie each. `Fail` fails a statement before or after it
took effect; `Lose` loses an answer; `Shutdown` ends the context of all requests in
flight, as `BaseContext` of the API's server does. `raced` names tokens and
accounts for which two requests passed the check before either wrote.

`RiotClient`: credit of both buckets, negative for tokens reserved ahead;
`doRequest` with its attempts (`Retry`), pauses after 429, and callers whose context
ends while they wait (`Cancel`), with the credit `rate.Limiter` returns or does not.
`sent[i]` counts the requests of the current tick and the `i - 1` before it, so that
every stretch of time up to `Window` is looked at, and not only the longest one.

## 3. Runs

| Run | Expected | Shows |
|---|---|---|
| crawl_safety | pass | exclusion per region and run; version pinning; clean slate; completeness of completed runs; monotonic checkpoint; **CrawlRun implements RegionExecutor** |
| crawl_live | pass | a held region is released, a run left 'running' is settled |
| crawl_pipeline | **violation** of `CompletedRunCollectedEveryTier` | finding 1 |
| match_stages | pass | stage order, done means stored, retry budget, harmless API failures, tiers written once |
| match_live | pass | executions end, matches settle |
| match_cancel | **violation** of `DetailsAreComplete` | finding 2 |
| statistics | pass | averages are monotonic and between the players; kept items are held items; real starters are stored; all pages of the rankings add up |
| temporal | pass | completed runs are complete and keep their version in spite of ghosts; workflows end and settle their run |
| player_sync | pass | a sync time stands for a stored window; labels are patches; a run that is not disturbed is complete |
| sessions | pass | a token gives one session, nobody is logged out by another tab, one user per account |
| api_reads | pass | pages are at most a TTL and a load old; errors have a cause |
| riot_client | pass | the requests of every stretch of time stay within the budget of either bucket, calls return |

Bounds, and why they are enough:

- *crawl_safety*: two processes and two runs in one region. Regions meet only in
  the daemon's process table, and exclusion is a property of pairs. Both
  strategies with two target tiers, since one tier cannot show what pipeline
  does to the second. A phase list with an out-of-order id (35 before 5) but
  without 4 and 55, whose `IsDone` and loop are those of 5 (4 without the
  version). Two versions, so a patch can come in between. `MaxFaults = 2`: one
  fault to interrupt, one to disturb the resume. Number of fault-free resumes
  and batches is not bounded. Processes and runs are symmetric.
- *crawl_live*: no symmetry, one strategy and phases 0 to 3; one fault of any
  kind, with sessions that can be dropped.
- *match_stages*: two matches, one player, pages of one, so that a page leaves
  matches over; two items and three slots, so that a doubled item overflows;
  two faults; two retries so that the budget is reached by both API and
  statement failures. *match_live* uses the three retries of the code, one
  match and two players.
- *temporal*: one workflow at a time, of a pipeline with two tiers, of a pinned
  version, or of a region without client; all eight phases; two attempts
  instead of three to five, so that one ghost works beside one successor;
  two faults; three run ids, so that `CreateRun` can leave orphans.
- *player_sync*: two runs and two players, five ticks, one patch after the first
  and two faults. `MaxPatches = 1` is a bound that matters: with a second patch
  and a run that fails between two inserts of phase 0, `LabelIsPatch` is false
  (section 4). The theorem `LabelsArePatches` has any number of patches and says
  what is needed instead.
- *sessions*: two browsers of one account, since tokens of different accounts
  share nothing; two requests in flight, the least that can race; three tokens,
  so that a token can have two successors; one fault.
- *api_reads*: two requests, one crawler, one match of the newer version that is
  first stored and then rated, TTL and load of one tick. An entry that a slow
  load writes after a fresh one needs just these. REST v1 asks for the latest version;
  GraphQL once with nulls, which is the same filter and the same entry, and once with
  parameters left out, which is another filter (one game instead of 20) and another
  entry; the legacy server asks for all versions and one game, past the cache. A `torn`
  that can no longer matter is cleared.
- *riot_client*: two callers, buckets of 2 and 1 tokens, three attempts, debt of
  at most 4, a window of 4 ticks. More callers only wait longer.
- *statistics*: ranks at the ends of divisions and with points more apart than
  three divisions, every set of thresholds from two values, two players; a
  component, the item built from it, boots, five shop events, one buyer (events
  of different participants share nothing); four matches with a player
  without a position, one without a champion, and a champion in three positions.

Fairness. `CrawlRun`: `WF(Work(p))`, because each call of a running process
returns and its next statement follows; `WF(FinishCollect(p))`, because phase 2
goes through finitely many players; `SF(PlainResume(i))`: an operator who keeps
asking for a resume gets the lock at some time when it is free. Faults,
cancels and new runs are not fair. `MatchPipeline`: `WF(Work(p))` as before, and
`WF(Start(p))`, because the daemon starts a run at every tick. Failures of API calls are
not bounded, those of statements are: phase 4 reads a match whose statement
failed again and again, so with unbounded failures `ExecutionEnds` is false.
`TemporalCrawl`: the workflow code runs, workers poll their queue and the server
times out what is lost, and some attempt always goes on, since each has a
deadline. `RiotClient`: time passes, timers fire and the HTTP client gives up on an
answer after ten seconds; no caller has to call or to cancel.

Deadlock is checked where the system cannot stop: CrawlRun, MatchPipeline and
RiotClient. In the other runs a behaviour ends at a bound (ids, ticks, shop events).
The type invariants of TemporalCrawl, PlayerSync and Sessions hold on the same
instances; the runs spend their time on the other properties.

## 4. Findings

1. `run_state.go:51` — a pipeline run resumed in phase 3 or later of its first
   tier is completed without collecting the other tiers, because `donePhases`
   is asked for every tier. `OnePassRunCollectedEveryTier` says what does hold.
   The Temporal worker does not have it: `CompletedRunCollectedEveryTier` holds there.
2. `phase3/phase.go:151` — `fetch_status = 'done'` is written before the
   participants; an interruption in between leaves a match without them, that
   is never fetched again. For timelines and items the order is right:
   `DoneMeansStored`.

Seen while modelling, described by the models, without a run of their own:

- versions are inserted one by one in the order of a directory listing
  (`phase0/phase.go:47`). A run that fails in between leaves a newer version without
  the older one, and a run resumed in phase 2, for which phase 0 is skipped, takes the
  matches of both patches for its own. TLC shows it with `MaxPatches = 2` and one
  player; `NoGap` is what labels rest on;
- `phase2/phase.go:55` calls the window "stable across resumes" because the
  version is pinned; its end is read from `game_versions` again, and moves from
  `started_at` to the start of the next patch (`EndTime`);
- a run cancelled while it is executed goes on and overwrites 'failed' with
  'completed' (`cmd/crawl/cancel.go:28`);
- a retried timeline doubles the item events (`timeline.go:136`), and an item
  takes two slots. `ApiFailuresAreHarmless` says that failures of the API alone
  never lead there;
- division "I" gives the three highest tiers 300 points their thresholds do not
  have (`phase4/phase.go:107`): MASTER matches can be stored as GRANDMASTER;
- the undo of a sale leaves the purchase 'sold' (`phase5/phase.go:140`), so the
  item is missing from the build. `KeptIsHeld` exempts exactly these items;
- with the same parameters left out GraphQL and the REST servers answer different
  questions (`FilterOf`), although `rankings.resolvers.go:62` says that "defaults match"
  and that they "return identical data for equivalent filters", and
  `rankings.graphql:38` that the filter "mirrors the legacy REST query params 1:1". The
  REST servers take all versions, 20 games and 5 %; GraphQL the latest version, one
  game and 0.5 % if there is a filter, and 20 games and 5 % if there is none. The schema
  explains its 0.5 as "played in >=50% of games"; the query reads it as a percentage;
- `schedule.go` says the inline profile "is a fallback only used if ProfileName
  lookup fails"; `resolveProfile` returns the error instead;
- two refreshes that both find a token valid each get a session, although a
  token is meant to be "one-shot" (`service.go:117`); `OneShot` says that this
  is the only way;
- a ban rate of a page by position can exceed 100 %, since it divides by the
  matches in which that position was played;
- a bucket sends its burst on top of its rate (`limiter.go:11`), so 108 requests
  fit into 120 s; a load that is slow overwrites a newer page and lives its full
  TTL (`shim.go:45`), which is why `PageIsRecent` adds the time of a load.

## 5. Proofs

The theorems hold for all values of the constants: any number of processes, regions,
runs, tiers, players, matches, accounts, tokens, workflows, requests, callers, items,
patches and faults, and any list of phases.

| Module | Theorem | Property | Needs |
|---|---|---|---|
| `CrawlRunProofs` | `TypeCorrect` | `TypeOK` | |
| | `MutualExclusion` | `OneExecutorPerRegion` | L |
| | `OneExecutor` | `OneExecutorPerRun` | L, R |
| | `CreatesWhenIdle` | `NewRunOnlyWhenIdle` | L, R |
| | `Implements` | `ImplementsRegionExecutor` | L, R |
| | `VersionStaysPinned` | `VersionPinned` | L, R, `VersionFromRow` |
| | `SlateIsClean` | `CleanSlate` | L, R, `RankSyncOnce` |
| | `CheckpointsMoveForward` | `CheckpointMovesForward` | L, R, `StrategyFromRow` |
| | `OnePassRunsCollect` | `OnePassRunCollectedEveryTier` | L, R, `StrategyFromRow`, `TiersFromRow`, `CollectsFirst` |
| | `CompletedRunsAreDrained` | `CompletedRunDrained` | L, R, `VersionFromRow`, `PerTierMirrors`, `HandsOn`, `ProfilesHaveTiers` |
| `PlayerSyncProofs` | `TypeCorrect` | `TypeOK` | |
| | `SyncTimesAreKept` | `SyncTimeIsKept` | |
| | `UndisturbedRunsAreComplete` | `UndisturbedRunIsComplete` | |
| | `LabelsArePatches` | `LabelIsPatch` | `[]NoGap` |
| `MatchPipelineProofs` | `TypeCorrect` | `TypeOK` | |
| | `DoneIsStored` | `DoneMeansStored` | |
| | `TiersAreKept` | `TierIsKept` | |
| | `StagesFollowEachOther` | `StagesInOrder` | `OneProcess` |
| | `RetriesAreBounded` | `RetryBudget` | `OneProcess` |
| | `ApiFailuresDoNoHarm` | `ApiFailuresAreHarmless` | `OneProcess` |
| `SessionsProofs` | `RefreshTokensAreOneShot` | `OneShot` | |
| | `JarsStayUsable` | `JarIsUsable` | |
| | `AccountsHaveOneUser` | `OneUserPerAccount` | |
| | `IdentitiesStayBound` | `BindingIsKept` | |
| `TemporalCrawlProofs` | `TypeCorrect` | `TypeOK` | |
| | `CompletedIsComplete` | `CompletedRunCollectedEveryTier` | |
| | `AttemptsAgreeOnTheVersion` | `VersionPinned` | |
| | `RunsAreSettled` | `WorkflowSettlesItsRun` | |
| `ApiReadsProofs` | `AnswersAreRecent` | `PageIsRecent` | |
| | `ErrorsAreExplained` | `ErrorsHaveACause` | |
| `StatisticsProofs` | `TypeCorrect` | `TierScore!TypeOK` | |
| | `HigherRatesHigher` | `HigherIsNotRatedLower` | |
| | `AveragesAreBetween` | `AverageIsBetween` | |
| | `KeptRowsAreHeld` | `KeptIsHeld` | |
| `RiotClientProofs` | `RequestsAreWithinBudget` | `SentWithinBudget` | |

Assumptions. Each module has the assumptions on its constants (`ConstantsAssumption`,
`PipelineAssumption`, `ScoreAssumption`, `CatalogAssumption`, `InfoAssumption`,
`BoundsAssumption`, `BucketAssumption`), and that the values for "nothing" are none of the
records or strings they stand in for (`NoneIsNoRow`, `NoneIsNoWindow`, `NoneIsNothing`,
`NoneIsNoRecord`, `AbsentAssumption`). TLC evaluates them on every run. Three of them say
something of the program's surroundings: entries of the cache live for a positive time
(`TTL`; the API sets five minutes, `apps/api/cmd/api/main.go:215`); there are finitely many
callers of the Riot client; and the item list names both ends of a recipe: what an item is
built from lists that item in its `to`. The code rests on the last one itself when it
takes an item with an empty `to` for a completed one (`cdragon.go`). What else a theorem
needs is in its statement:

- L is `~SessionsMayDrop`: the session that holds the advisory lock lives as long as
  its process. R is `PlainResumes`: no `--resume` names another region. Without them
  the properties are false (hazards at `runner.go:43` and `run.go:83`).
- `VersionFromRow`, `StrategyFromRow`, `TiersFromRow`: nor another version, strategy
  or list of tiers; then a run is what its row says.
- `RankSyncOnce`, `CollectsFirst`, `PerTierMirrors` and `HandsOn` say how the lists of
  phases fit together: phase 1 is not repeated per tier, phase 2 comes first among the
  repeated ones, these are all but phases 0 and 1, and no phase leaves matches to one in
  front of it. `root.go:86` and `NewPipelineStrategy` have such lists.
  `ProfilesHaveTiers` is `RunProfile.Validate`.
- `OneProcess`: one execution at a time, which `OneExecutorPerRegion` gives the legacy
  crawler. Activities of the Temporal worker may overlap, and then the three
  properties are false: one process counts a failure of a match that another has
  just finished.
- `[]NoGap`: no window is opened while a version is missing between that of the run
  and a newer one that is known. One patch can leave no gap; two and a run that fails
  between their inserts can (section 4).

The configurations of the runs that check these properties fulfil all of them.

### CrawlRun

`TypeOK` is not inductive: a step in "phase" reads the plan at `pos`, and a step that
writes a row needs one. The layers of the invariant are

- `Typed`: `TypeOK`, and what a program counter says about its process (it has
  a region and an execution; past creation a run with a row; in "phase" a
  position inside the plan);
- `Guarded`: an active process holds the lock of its profile's region. As the lock
  is a function of the region, exclusion follows. A dropped session breaks
  exactly this;
- `Homed`: the row of an active process has its profile's region, so that two
  processes with one run would hold one lock. A resume with another region
  breaks it;
- `FreshCreate`: no run of the region is 'running' once `GetActiveRun` said so.
  Other processes with a row of this region would need its lock; `Cancel` only
  makes rows 'failed'.

These four (`Exclusive`) carry the rest. The refinement needs one more fact
(`ReopensFailed`: only a row that was failed is reactivated) and shows for every action
which abstract action it is, or that it stutters. In the states of `Exclusive` a row
is the run's own while it is executed, so that what a process read in `Lookup` and what
the row says can be related: `Pinned` (version), `Slates` (snapshots; between the two
statements of `ResetRunToPhase0` the process, not the row, says that they will be
purged), `Marked` (what a sequential process skips lies in front of the checkpoint, and
nothing in front of it is left to do), `Collects` (a checkpoint behind phase 2 means
collected tiers) and `Drains`: a batch that waits is never in front of the checkpoint
of a run that would be responsible for it, nor in what its process skips, nor behind
its place in the plan. `Drains` is where phase ids that are not in execution order
matter, and runs of a region that find each other's matches.

### PlayerSync

`Versions` (newest and next versions exist), `OneRun`, `Pinned` (what a run knows of the
versions), `Collects` (a match of the window is stored or still on the list of the
player), `Covered` (the window behind a sync time is stored) and `Serves` (what became
of every player of a run). `Labelled` and `OneVersion` come on top and are kept by every step
at which `NoGap` holds before.

### MatchPipeline

All actions are reduced to eight kinds of steps (`Step`), each of which changes one row
in a way that is summed up (`StatementStep`, `RetryStep`, `SameStages`), or only
tiers; `NextStep` shows that every action is one of them. For any number of processes
no step takes anything away from a row (`KeepsWhatItHas`), which is why `Written` (what
the statements of a process have left so far) survives the steps of others and `Stored`
follows. With one process `Minds` says that rows on its page are as the query selected
them, and that of the row in hand no later stage has begun, from which `Ordered` follows.
For `ApiFailuresAreHarmless` a stage that is not done has left nothing (`Undoubled`):
a failed call is counted before any statement.

### Sessions

`Cookies` (who can hold a token; a token not yet delivered is in one answer), `Spent` (a
token with a child is revoked, and until then at most one refresh can give it one),
`Undisturbed` (without failures whoever revoked the token of a cookie replaces it) and
`Bindings` (tokens, users and logins on their way agree with the identity row).

### TemporalCrawl

A workflow is at a place in its list of calls, and nothing is trusted but that list:
`Behind(w, n)` says that the calls in front of place `n` had their effect. `Placed` says it
of every activity the server tracks and of every attempt, ghosts of earlier calls
included; `Answered` that an attempt which did its statement, or an answer the server
took, stands for the effect of its call. A late statement cannot undo these effects,
because a workflow never goes back (`Steady`) and because no two workflows know one run
(`OwnRuns`, which has to count the answers of `CreateRun` that are still on their way).
`FailRun` is where a workflow's place is 0, so that an attempt of an earlier `CompleteRun`
can still be at work beside it: `RunOK` holds of the row whichever comes last, and
`WfOK` says what the workflow can know of it.

### ApiReads

`FlagOK`: no row has `is_latest` only while a phase 0 is between its updates, or after one
stopped there, and the newest of the rows that have it is well defined. `ReqOK` follows a
request to its answer; `EntryOK` says the same of an entry, whose life starts later than
the page it holds. Pages are compared with all states the database went through, and
`LogGrows` shows that none of them is lost.

### TierScore

`LevelInLadder`: below MASTER the level of a score is the score rounded down to a
division, so `HigherIsNotRatedLower` needs the thresholds only from MASTER on, where
they are compared in an order that does not let a higher score fall behind. For
`AverageIsBetween` the sum is bounded by the number of scores read times their least and
greatest (`SumIsBetween`), one participant at a time; this replaces an induction over the
list of participants.

### ItemBuild

The code knows an item only by its kind: an undo or a sale takes out the latest pending
purchase of that kind (`MarkIs`). `PendingOK`: pending is the live rows, in order.
`FinalOK`: an item nothing is built from is never used up, so a purchase that can still be
undone is held unless a sale above it took it, and a sale that can be undone took something
that is not held. Hence the numbers of kept rows and of held items of a kind go up
and down together (`CountsOK`). While the player has sold nothing even the rows are the
right ones: what the shop can undo is then the end of pending (`StackOK`), so the row that
is marked is the purchase that is undone, and what it used up is live and comes back.

### RiotClient

Both buckets are one machine with different numbers, and the invariant `Bucket` is stated
once. `Waits`: callers that hold a token not yet there are at least a period apart, and
none waits longer than the debt of the bucket. `Fits`: for every stretch, the requests
already sent and the tokens that are there by the time a caller's token is fit into burst,
refill and one token for each caller. A token that is given back breaks none of it, since
`rate.Limiter` takes it back only when none was reserved after it. Every action does to a
bucket one of five things: take a token (`Reserve`), leave without using it, whether it is
given back or not (`Leave`), `Spend` it, let a tick pass (`Passes`), or nothing
(`Undisturbed`); each is one lemma.

All these invariants were checked by TLC before they were proved, on the instances of
the runs (`SumIsBetween` for some values of its bounds, `Bucket` with two equal buckets).

### Only model-checked

- Liveness: `RegionIsReleased`, `ParkedRunIsSettled`, `ExecutionEnds`, `MatchSettles`,
  `WorkflowEnds`, `CallReturns`. The prover has neither fairness nor ENABLED.
- `ItemBuild.StartersAreStored` and `RankedMatches.PagesAddUp`: sums over the starters of
  a player and over sets of matches. What such a fold computes for every input needs
  induction over data, which the installed provers cannot do.
- `CrawlRun.CompletedRunCollectedEveryTier` and `MatchPipeline.DetailsAreComplete` are
  false (section 4).

## 6. Not modelled

- Contents of API answers, skill events, ward counts and minute frames: stored
  or not stored.
- Phase 1's snapshots in the Temporal worker, the audit checkpoint it writes,
  retry intervals and the ping workflow. Two workflows of one region at a time: the
  module permits it (`WfId`), the run does not, for its size.
- The OAuth exchange and its state cookie, and access tokens, which are stateless.
- `GetOrLoad` with its single-flight group: no caller outside tests.
- Health checks, metrics, CORS, logging, config files, KDA and champion names.
- Web front ends, playground, deployment, migrations: no logic of the system. The
  generated GraphQL runtime (3461 lines) is not translated, but for the values it fills
  into a filter.

## 7. Plan

Every safety invariant and action property that the passing runs check is a theorem, but
for the two sums named above. What could come next:

1. A run of CrawlRun with resume flags, and two overlapping workflows of a region
   over one MatchPipeline; the theorems with the premises R and `OneProcess` say what
   they would break.
2. Sessions as a refinement of one live token per login chain.
3. The snapshots phase 1 leaves in the Temporal worker when it is retried.
