--------------------------- MODULE MatchPipeline ---------------------------
(***************************************************************************)
(* What the phases 2 to 5.5 of a crawl do to the rows of single matches:   *)
(* statement by statement, with answers of the Riot API that do not come,  *)
(* statements that fail, and executions that end between two statements    *)
(* and are taken up again at their checkpoint.                             *)
(*                                                                         *)
(* Code: Run of internal/crawler/phase{3,35,4,5,55} and the methods of     *)
(* internal/storage/{matches,participants,timeline,items}.go they call.    *)
(*                                                                         *)
(* One region and one game version: the queries of the phases filter by    *)
(* these, see CrawlRun.  A legacy crawl is one process (the region lock,   *)
(* OneExecutorPerRegion of CrawlRun); several stand for activities of the  *)
(* Temporal worker that overlap.                                           *)
(***************************************************************************)
EXTENDS Naturals, Sequences, FiniteSets

CONSTANTS
  Proc,        \* executions of the phases
  Match,       \* match ids
  Player,      \* puuids; every player takes part in every match
  Builds,      \* completed items a player buys in a match
  MaxSlots,    \* item slots kept per player (6 in the code)
  MaxRetries,  \* maxMatchRetries = maxTimelineRetries = maxItemsRetries (3)
  PageSize,    \* LIMIT of the queries (batchSize of the phase)
  MaxFaults,   \* failed statements and broken-off executions (bound)
  None         \* NULL

ASSUME PipelineAssumption ==
  /\ {Builds, MaxSlots, MaxFaults} \subseteq Nat
  /\ MaxRetries \in Nat \ {0} /\ PageSize \in Nat \ {0}
  /\ IsFiniteSet(Match) /\ IsFiniteSet(Player)
  /\ None \notin Proc \cup Match \cup Player \cup Nat

VARIABLES
  matches,     \* match -> its row in matches and its rows in match_*
  ranked,      \* players with a row in player_rank_snapshots
  work,        \* process -> what it is doing
  checkpoint,  \* current_phase of the run
  faults

vars == <<matches, ranked, work, checkpoint, faults>>

-----------------------------------------------------------------------------
(* Rows and processes *)

Order == <<2, 3, 35, 4, 5, 55>>
NextPhase(k) == Order[1 + CHOOSE n \in 1..5 : Order[n] = k]

\* A match phase 2 has not seen yet, and the row of UpsertMatchID with the
\* defaults of its columns.  What the other tables hold of the match: batches of
\* participants (one per InsertParticipants), copies of rows without a key, the
\* item in each slot.
NoRow == [fetch |-> "absent", fetchRetry |-> 0, avg |-> None,
          timeline |-> "pending", timelineRetry |-> 0,
          items |-> "pending", itemsRetry |-> 0,
          participants |-> <<>>, perks |-> FALSE, teams |-> FALSE,
          itemEvents |-> 0, skillEvents |-> 0, frames |-> FALSE,
          slots |-> <<>>, starters |-> 0, boots |-> FALSE]

Idle == [pc |-> "idle", phase |-> 2, page |-> {}, asked |-> {}, on |-> None,
         stmt |-> 0, seen |-> 0]

\* The statements each match costs, in order, once the answer of the API is there:
\* processMatch of phase 3, processTimeline, processMatch of phase 55.
DetailStatements == <<"header", "participants", "perks", "teams">>

TimelineMarkedFirst == <<"timelineDone", "itemEvents", "skillEvents", "frames">>  \* mutant
TimelineStatements == <<"itemEvents", "skillEvents", "frames", "timelineDone">>

ItemStatements == <<"completed", "starters", "boots", "itemsDone">>

Statements(k) ==
  CASE k = 3 -> DetailStatements [] k = 5 -> TimelineStatements [] k = 55 -> ItemStatements

\* What the queries of the phases select.
PendingFirstTry(row) == row.fetch = "pending" /\ row.fetchRetry = 0  \* mutant
PendingMatch(row) == row.fetch = "pending"

NeedsTierCalc(row) == row.fetch = "done" /\ row.avg = None

TimelineAgain(row) == row.fetch = "done" /\ row.items = "pending"    \* mutant
NeedsTimeline(row) == row.fetch = "done" /\ row.timeline = "pending"

ItemsUnordered(row) == row.fetch = "done" /\ row.items = "pending"   \* mutant
NeedsItems(row) ==
  row.fetch = "done" /\ row.timeline = "done" /\ row.items = "pending"

Needs(k) ==
  {m \in Match : CASE k = 3 -> PendingMatch(matches[m])
                   [] k = 4 -> NeedsTierCalc(matches[m])
                   [] k = 5 -> NeedsTimeline(matches[m])
                   [] k = 55 -> NeedsItems(matches[m])}

\* GetParticipantsMissingTier
MissingTier ==
  {q \in Player : \E m \in Match : \E n \in 1..Len(matches[m].participants) :
                    matches[m].participants[n][q] = None}

Todo(k) == IF k = 35 THEN MissingTier ELSE Needs(k)

Pages(set) ==
  {page \in SUBSET set : Cardinality(page) = IF Cardinality(set) < PageSize
                                             THEN Cardinality(set) ELSE PageSize}

Active(p) == work[p].pc # "idle"
At(p, c, ks) == work[p].pc = c /\ work[p].phase \in ks

Fault == faults < MaxFaults /\ faults' = faults + 1

-----------------------------------------------------------------------------
(* Statements *)

InSlotsUncapped(copies) ==                                           \* mutant
  [n \in 1..(copies * Builds) |-> ((n - 1) \div copies) + 1]

\* The items classify numbers while it walks `copies' copies of every event.
InSlots(copies) ==
  [n \in 1..(IF copies * Builds < MaxSlots THEN copies * Builds ELSE MaxSlots) |->
     ((n - 1) \div copies) + 1]

\* classify walks the events in time order, so the copies of one event are next to
\* each other; a slot that is taken keeps its item (ON CONFLICT DO NOTHING).
Slotted(slots, copies) ==
  IF copies = 0 THEN slots
  ELSE [n \in 1..(IF Len(InSlots(copies)) > Len(slots) THEN Len(InSlots(copies)) ELSE Len(slots)) |->
          IF n <= Len(slots) THEN slots[n] ELSE InSlots(copies)[n]]

\* GetClosestSnapshot: with any snapshot of the player there is a tier.
Inferred(q) == IF q \in ranked THEN "inferred" ELSE None

\* One row per player.  Of its hundred columns only the tier matters here; the
\* others are copied from the answer of the API.
ParticipantRows == [q \in Player |-> Inferred(q)]

InsertSnapshot(q) == ranked' = ranked \cup {q}

\* The row of a match after a statement of phase 3, 5, 55.  `seen' is the number of
\* copies of the item events classify was given; the starter items of all copies
\* are taken to stay below its price limit.
WithDetail(row, stmt) ==
  CASE stmt = "header"       -> [row EXCEPT !.fetch = "done"]
    [] stmt = "participants" -> [row EXCEPT !.participants = Append(@, ParticipantRows)]
    [] stmt = "perks"        -> [row EXCEPT !.perks = TRUE]
    [] stmt = "teams"        -> [row EXCEPT !.teams = TRUE]

WithTimeline(row, stmt) ==
  CASE stmt = "itemEvents"   -> [row EXCEPT !.itemEvents = @ + 1]
    [] stmt = "skillEvents"  -> [row EXCEPT !.skillEvents = @ + 1]
    [] stmt = "frames"       -> [row EXCEPT !.frames = TRUE]
    [] stmt = "timelineDone" -> [row EXCEPT !.timeline = "done"]

WithItems(row, stmt, seen) ==
  CASE stmt = "completed"    -> [row EXCEPT !.slots = Slotted(@, seen)]
    [] stmt = "starters"     -> [row EXCEPT !.starters = @ + seen]
    [] stmt = "boots"        -> [row EXCEPT !.boots = @ \/ seen > 0]
    [] stmt = "itemsDone"    -> [row EXCEPT !.items = "done"]

WithStatement(row, k, n, seen) ==
  CASE k = 3 -> WithDetail(row, DetailStatements[n])
    [] k = 5 -> WithTimeline(row, TimelineStatements[n])
    [] k = 55 -> WithItems(row, ItemStatements[n], seen)

RetryForEver(row) == row                                             \* mutant
RetryOnceMore(row) ==                                                \* mutant
  [row EXCEPT !.fetchRetry = @ + 1,
              !.fetch = IF row.fetchRetry >= MaxRetries THEN "error" ELSE "pending"]

\* The status after one more failure.
AfterFailure(count) == IF count + 1 >= MaxRetries THEN "error" ELSE "pending"

IncrementMatchRetry(row) ==
  [row EXCEPT !.fetchRetry = @ + 1, !.fetch = AfterFailure(row.fetchRetry)]

MarkTimelineError(row) ==
  [row EXCEPT !.timelineRetry = @ + 1, !.timeline = AfterFailure(row.timelineRetry)]

MarkItemsError(row) ==
  [row EXCEPT !.itemsRetry = @ + 1, !.items = AfterFailure(row.itemsRetry)]

Retried(row, k) ==
  CASE k = 3 -> IncrementMatchRetry(row)
    [] k = 5 -> MarkTimelineError(row)
    [] k = 55 -> MarkItemsError(row)

OverwriteTier(q, tier) ==                                            \* mutant
  [m \in Match |->
     [matches[m] EXCEPT !.participants =
        [n \in 1..Len(@) |-> [@[n] EXCEPT ![q] = tier]]]]

\* UpdateParticipantTierByPUUID and MarkParticipantUnranked: every row of the
\* player that has no tier yet.
FilledIn(batch, q, tier) == [batch EXCEPT ![q] = IF @ = None THEN tier ELSE @]

FillTier(q, tier) ==
  [m \in Match |->
     LET batches == matches[m].participants
     IN  [matches[m] EXCEPT !.participants = [n \in 1..Len(batches) |-> FilledIn(batches[n], q, tier)]]]

Tiers == {"inferred", "on_demand"}

\* GetParticipantTiersForMatch: rows with a tier other than NULL and UNRANKED
Coverage(row) ==
  Cardinality({c \in (1..Len(row.participants)) \X Player :
                 row.participants[c[1]][c[2]] \in Tiers})

-----------------------------------------------------------------------------
Init ==
  /\ matches = [m \in Match |-> NoRow]
  /\ ranked \in SUBSET Player
  /\ work = [p \in Proc |-> Idle]
  /\ checkpoint = 2
  /\ faults = 0

\* The run is started, or taken up at its checkpoint.
Start(p) ==
  /\ ~Active(p)
  /\ work' = [work EXCEPT ![p] = [Idle EXCEPT !.pc = IF checkpoint = 2 THEN "load" ELSE "gate",
                                              !.phase = checkpoint]]
  /\ UNCHANGED <<matches, ranked, checkpoint, faults>>

\* Phase 2: UpsertMatchID leaves a row that is there alone.
Collect(p, m) ==
  /\ At(p, "load", {2})
  /\ matches[m].fetch = "absent"
  /\ matches' = [matches EXCEPT ![m].fetch = "pending"]
  /\ UNCHANGED <<ranked, work, checkpoint, faults>>

\* After the last phase the run is completed; the next one begins with phase 2.
EndPhase(p) ==
  /\ work' = [work EXCEPT ![p] =
                IF work[p].phase = 55 THEN Idle
                ELSE [Idle EXCEPT !.pc = "gate", !.phase = NextPhase(work[p].phase)]]
  /\ checkpoint' = IF work[p].phase = 55 THEN 2 ELSE checkpoint

EndCollect(p) ==
  /\ At(p, "load", {2})
  /\ EndPhase(p)
  /\ UNCHANGED <<matches, ranked, faults>>

\* runPhase: IsDone, or checkpoint and Run
Gate(p) ==
  /\ work[p].pc = "gate"
  /\ IF Todo(work[p].phase) = {} THEN EndPhase(p)
     ELSE /\ checkpoint' = work[p].phase
          /\ work' = [work EXCEPT ![p].pc = "load"]
  /\ UNCHANGED <<matches, ranked, faults>>

\* A page of the phase's query.  Phase 35 leaves the players out it asked for,
\* and ends when there is no other on the page.
Load(p) ==
  /\ work[p].pc = "load" /\ work[p].phase # 2
  /\ \E page \in Pages(Todo(work[p].phase)) :
       IF page \subseteq work[p].asked THEN EndPhase(p)
       ELSE /\ work' = [work EXCEPT ![p].pc = "each", ![p].page = page \ work[p].asked]
            /\ UNCHANGED checkpoint
  /\ UNCHANGED <<matches, ranked, faults>>

\* The process turns to what is left of the page, or to the next page.
Drop(p, x) ==
  [work EXCEPT ![p].page = @ \ {x},
               ![p].pc = IF work[p].page = {x} THEN "load" ELSE "each",
               ![p].on = None, ![p].stmt = 0, ![p].seen = 0]

-----------------------------------------------------------------------------
(* Phases 3, 5 and 5.5 *)

\* GetMatchDetail, GetMatchTimeline; in phase 55 the item catalog and the events.
Fetch(p, m) ==
  /\ At(p, "each", {3, 5, 55}) /\ m \in work[p].page
  /\ work' = [work EXCEPT ![p].pc = "write", ![p].on = m, ![p].stmt = 1,
                          ![p].seen = matches[m].itemEvents]
  /\ UNCHANGED <<matches, ranked, checkpoint, faults>>

FetchFails(p, m) ==
  /\ At(p, "each", {3, 5, 55}) /\ m \in work[p].page
  /\ work' = [work EXCEPT ![p].pc = "retry", ![p].on = m]
  /\ UNCHANGED <<matches, ranked, checkpoint, faults>>

Applied(p) ==
  LET w == work[p]
  IN  [matches EXCEPT ![w.on] = WithStatement(@, w.phase, w.stmt, w.seen)]

Write(p) ==
  /\ work[p].pc = "write"
  /\ matches' = Applied(p)
  /\ work' = IF work[p].stmt = Len(Statements(work[p].phase)) THEN Drop(p, work[p].on)
             ELSE [work EXCEPT ![p].stmt = @ + 1]
  /\ UNCHANGED <<ranked, checkpoint, faults>>

\* A statement returns an error, before or after it took effect.
WriteFails(p) ==
  /\ work[p].pc = "write"
  /\ Fault
  /\ matches' \in {matches, Applied(p)}
  /\ work' = [work EXCEPT ![p].pc = "retry"]
  /\ UNCHANGED <<ranked, checkpoint>>

CountRetry(p) ==
  /\ work[p].pc = "retry"
  /\ matches' = [matches EXCEPT ![work[p].on] = Retried(@, work[p].phase)]
  /\ work' = Drop(p, work[p].on)
  /\ UNCHANGED <<ranked, checkpoint, faults>>

-----------------------------------------------------------------------------
(* Phase 3.5 *)

\* GetEntriesByPUUID fails: the player is not asked for again by this execution.
AskFails(p, q) ==
  /\ At(p, "each", {35}) /\ q \in work[p].page
  /\ work' = [Drop(p, q) EXCEPT ![p].asked = @ \cup {q}]
  /\ UNCHANGED <<matches, ranked, checkpoint, faults>>

\* An entry for the queue: InsertSnapshot, then Backfill.
AskRanked(p, q) ==
  /\ At(p, "each", {35}) /\ q \in work[p].page
  /\ InsertSnapshot(q)
  /\ work' = [work EXCEPT ![p].pc = "backfill", ![p].on = q, ![p].asked = @ \cup {q}]
  /\ UNCHANGED <<matches, checkpoint, faults>>

Backfill(p) ==
  /\ work[p].pc = "backfill"
  /\ matches' = FillTier(work[p].on, "on_demand")
  /\ work' = Drop(p, work[p].on)
  /\ UNCHANGED <<ranked, checkpoint, faults>>

AskUnranked(p, q) ==
  /\ At(p, "each", {35}) /\ q \in work[p].page
  /\ matches' = FillTier(q, "UNRANKED")
  /\ work' = [Drop(p, q) EXCEPT ![p].asked = @ \cup {q}]
  /\ UNCHANGED <<ranked, checkpoint, faults>>

-----------------------------------------------------------------------------
(* Phase 4 *)

\* computeAndStore reads the tiers, computes, and writes score and coverage.
Compute(p, m) ==
  /\ At(p, "each", {4}) /\ m \in work[p].page
  /\ work' = [work EXCEPT ![p].pc = "store", ![p].on = m, ![p].seen = Coverage(matches[m])]
  /\ UNCHANGED <<matches, ranked, checkpoint, faults>>

Store(p) ==
  /\ work[p].pc = "store"
  /\ matches' = [matches EXCEPT ![work[p].on].avg = work[p].seen]
  /\ work' = Drop(p, work[p].on)
  /\ UNCHANGED <<ranked, checkpoint, faults>>

\* Logged, nothing is counted: the next page has the match again.
StoreFails(p) ==
  /\ work[p].pc = "store"
  /\ Fault
  /\ work' = Drop(p, work[p].on)
  /\ UNCHANGED <<matches, ranked, checkpoint>>

-----------------------------------------------------------------------------
\* Ctrl-C, a crash, or a statement whose error a phase returns: nothing more of
\* this execution happens.  (A cancelled context also fails IncrementMatchRetry.)
BreakOff(p) ==
  /\ Active(p)
  /\ Fault
  /\ work' = [work EXCEPT ![p] = Idle]
  /\ UNCHANGED <<matches, ranked, checkpoint>>

EachMatch(p) ==
  \E m \in Match : Fetch(p, m) \/ FetchFails(p, m) \/ Compute(p, m)

EachPlayer(p) ==
  \E q \in Player : AskFails(p, q) \/ AskRanked(p, q) \/ AskUnranked(p, q)

Work(p) ==
  \/ Gate(p) \/ Load(p) \/ EachMatch(p) \/ EachPlayer(p) \/ Write(p) \/ CountRetry(p)
  \/ Backfill(p) \/ Store(p) \/ EndCollect(p) \/ \E m \in Match : Collect(p, m)

Next ==
  \E p \in Proc : Start(p) \/ Work(p) \/ WriteFails(p) \/ StoreFails(p) \/ BreakOff(p)

Spec == Init /\ [][Next]_vars

\* Calls return, so a process goes on; the daemon starts a run at every tick.
Fairness == \A p \in Proc : WF_vars(Work(p)) /\ WF_vars(Start(p))

FairSpec == Spec /\ Fairness

-----------------------------------------------------------------------------
(* Properties *)

Tier == Tiers \cup {"UNRANKED", None}
Status == {"pending", "done", "error"}

RowType ==
  [fetch : Status \cup {"absent"}, fetchRetry : Nat, avg : Nat \cup {None},
   timeline : Status, timelineRetry : Nat, items : Status, itemsRetry : Nat,
   participants : Seq([Player -> Tier]), perks : BOOLEAN, teams : BOOLEAN,
   itemEvents : Nat, skillEvents : Nat, frames : BOOLEAN,
   slots : Seq(1..Builds), starters : Nat, boots : BOOLEAN]

WorkType ==
  [pc : {"idle", "gate", "load", "each", "write", "retry", "backfill", "store"},
   phase : {2, 3, 35, 4, 5, 55}, page : SUBSET (Match \cup Player), asked : SUBSET Player,
   on : Match \cup Player \cup {None}, stmt : 0..4, seen : Nat]

\* Every variable has its type; a row has at most MaxSlots items per player.
TypeOK ==
  /\ matches \in [Match -> RowType]
  /\ \A m \in Match : Len(matches[m].slots) <= MaxSlots
  /\ ranked \subseteq Player
  /\ work \in [Proc -> WorkType]
  /\ checkpoint \in {2, 3, 35, 4, 5, 55}
  /\ faults \in 0..MaxFaults

\* The stages of a match follow each other, whatever fails and wherever the run
\* is taken up: no timeline before the details, no items before the timeline
\* (the conditions of the queries, items.go:128, timeline.go:49).
StagesInOrder ==
  \A m \in Match :
    LET row == matches[m]
    IN  /\ row.timeline # "pending" \/ row.timelineRetry > 0 => row.fetch = "done"
        /\ row.items # "pending" \/ row.itemsRetry > 0 => row.timeline = "done"

\* A timeline or an item build that is marked done is there completely, also when
\* statements failed, half-way or with a lost answer, and were retried
\* (phase5/phase.go:82, phase55/phase.go:84).
DoneMeansStored ==
  \A m \in Match :
    LET row == matches[m]
    IN  /\ row.timeline = "done" => row.itemEvents > 0 /\ row.skillEvents > 0 /\ row.frames
        /\ row.items = "done" => row.starters > 0 /\ row.boots
                                 /\ (Builds > 0 /\ MaxSlots > 0 => row.slots # <<>>)

\* A match is given up after MaxRetries failures of a stage, not earlier and
\* not later, over all executions (the retry table of docs/crawler-usage.md).
RetryBudget ==
  \A m \in Match :
    LET row == matches[m]
    IN  /\ {row.fetchRetry, row.timelineRetry, row.itemsRetry} \subseteq 0..MaxRetries
        /\ row.fetch = "error" <=> row.fetchRetry = MaxRetries /\ row.fetch # "done"
        /\ row.timeline = "error" => row.timelineRetry = MaxRetries
        /\ row.items = "error" => row.itemsRetry = MaxRetries
        /\ row.timeline = "pending" => row.timelineRetry < MaxRetries
        /\ row.items = "pending" => row.itemsRetry < MaxRetries

InOrder(slots) == \A n \in 1..Len(slots) : slots[n] = n

\* The API alone does no harm: however often it does not answer, as long as no
\* statement fails and no execution breaks off, every row is written once and
\* the slots hold the items in the order they were bought.
ApiFailuresAreHarmless ==
  faults = 0 =>
    \A m \in Match :
      LET row == matches[m]
      IN  /\ Len(row.participants) <= 1
          /\ {row.itemEvents, row.skillEvents, row.starters} \subseteq 0..1
          /\ InOrder(row.slots)

\* The tier inferred from a snapshot near the game is not replaced by the one the
\* API gives on demand, weeks later maybe: a tier is written once
\* (WHERE tier_at_match IS NULL, participants.go:229-257).
TierIsKept ==
  [][\A m \in Match : \A n \in 1..Len(matches[m].participants), q \in Player :
       LET tier == matches[m].participants[n][q]
       IN  tier # None => matches'[m].participants[n][q] = tier]_vars

\* An execution comes to its end, though the API may fail at every call and the
\* loops run until their query returns nothing.
ExecutionEnds == \A p \in Proc : Active(p) ~> ~Active(p)

Settled(row) ==
  \/ row.fetch = "error"
  \/ /\ row.fetch = "done" /\ row.avg # None
     /\ row.timeline = "error" \/ (row.timeline = "done" /\ row.items # "pending")

\* Every match that was collected reaches the end of the pipeline or is given up.
MatchSettles == \A m \in Match : matches[m].fetch = "pending" ~> Settled(matches[m])

InHand(m) == \E p \in Proc : work[p].on = m

\* A match whose details are marked done, and that nobody is working on, has them:
\* a run can be stopped at any time and resumed.
DetailsAreComplete ==
  \A m \in Match :
    matches[m].fetch = "done" /\ ~InHand(m) =>
      matches[m].participants # <<>> /\ matches[m].perks /\ matches[m].teams

=============================================================================
