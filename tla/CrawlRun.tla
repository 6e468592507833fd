------------------------------ MODULE CrawlRun ------------------------------
(***************************************************************************)
(* The life of a crawl run: the runner, its two execution strategies, the  *)
(* per-region advisory lock, the rows of the table runs, and the commands  *)
(* an operator has (run, run --resume, cancel, Ctrl-C).                    *)
(*                                                                         *)
(* Code: internal/crawler/{runner,run_state,strategy}.go, the methods of   *)
(* internal/storage/runs.go, the IsDone/Run skeleton of every phase under  *)
(* internal/crawler/phase*, and cmd/crawl/{run,daemon,cancel}.go.          *)
(*                                                                         *)
(* One step is one statement the database executes for a process, with the *)
(* local computation around it.  What a phase does to single matches is in *)
(* module MatchPipeline; here the matches a run found are batches that     *)
(* wait for a phase.                                                       *)
(***************************************************************************)
EXTENDS Naturals, Sequences, FiniteSets

CONSTANTS
  Proc,            \* invocations of `gogg crawl run` and goroutines of the daemon
  Region,          \* regions of config.yaml
  RunId,           \* ids the serial column runs.id can hand out (bound)
  Tier,            \* rank tiers
  MaxVersion,      \* game versions are 1..MaxVersion, in release order (bound)
  PhaseOrder,      \* ids of the phases given to NewRunner, in execution order
  PerTierPhaseIDs, \* the ones PipelineStrategy repeats for each target tier
  Profiles,        \* profiles a new run may be started with
  ResumeFlags,     \* flags given together with --resume; None = not given
  SessionsMayDrop, \* may the database session that holds the lock be lost?
  MaxFaults,       \* crashes, signals, failed calls and cancels (bound)
  None

Version == 1..MaxVersion
Execution == {"sequential", "pipeline"}

ASSUME ConstantsAssumption ==
  /\ MaxVersion \in Nat \ {0}
  /\ MaxFaults \in Nat
  /\ SessionsMayDrop \in BOOLEAN
  /\ None \notin Proc \cup Region \cup RunId \cup Tier
  /\ None \notin Version /\ None \notin Execution
  /\ PhaseOrder \in Seq({0, 1, 2, 3, 35, 4, 5, 55})
  /\ Len(PhaseOrder) >= 2 /\ PhaseOrder[1] = 0 /\ PhaseOrder[2] = 1
  /\ \A m, n \in 1..Len(PhaseOrder) : PhaseOrder[m] = PhaseOrder[n] => m = n
  /\ PerTierPhaseIDs \in Seq({PhaseOrder[n] : n \in 1..Len(PhaseOrder)}) \ {<<>>}
  /\ Profiles \subseteq [region : Region, execution : Execution,
                         tiers : Seq(Tier), version : Version \cup {None}]
  /\ ResumeFlags \subseteq [region : Region \cup {None},
                            execution : Execution \cup {None},
                            tiers : Seq(Tier), version : Version \cup {None}]

VARIABLES
  rows,       \* table runs: id -> row, or None before the INSERT
  lock,       \* region -> process whose session holds pg_try_advisory_lock
  cli,        \* process -> its program counter and in-memory RunState
  latest,     \* newest game version CommunityDragon publishes
  snaps,      \* run -> executions of phase 1 that left snapshots (0, 1, 2 = more)
  collected,  \* run -> tiers for which phase 2 ran to its end
  backlog,    \* batches of matches waiting for a phase
  faults      \* faults so far

vars == <<rows, lock, cli, latest, snaps, collected, backlog, faults>>

-----------------------------------------------------------------------------
(* Phases and strategies *)

Phase == {PhaseOrder[n] : n \in 1..Len(PhaseOrder)}

\* Phases whose IsDone looks for rows left to process; 0, 1 and 2 always run.
DrainPhase == {3, 35, 4, 5, 55}
\* Of these, the ones whose query filters by the version of the run.
VersionScoped == {3, 5, 55}

PhaseStep(k, t) == [phase |-> k, tier |-> t, opensTier |-> FALSE]
TierStep(t) == [phase |-> PerTierPhaseIDs[1], tier |-> t, opensTier |-> TRUE]

\* What a strategy executes for a profile, in order.  Pipeline: phases 0 and 1,
\* then for each target tier a checkpoint and the per-tier phases.
SequentialPlan == [n \in 1..Len(PhaseOrder) |-> PhaseStep(PhaseOrder[n], None)]

PipelinePlan(tiers) ==
  LET width == 1 + Len(PerTierPhaseIDs)
      tierOf(n) == tiers[((n - 3) \div width) + 1]
      slot(n) == (n - 3) % width
  IN  [n \in 1..(2 + width * Len(tiers)) |->
         IF n <= 2 THEN PhaseStep(PhaseOrder[n], None)
         ELSE IF slot(n) = 0 THEN TierStep(tierOf(n))
         ELSE PhaseStep(PerTierPhaseIDs[slot(n)], tierOf(n))]

Plan(prof) ==
  IF prof.execution = "sequential" THEN SequentialPlan ELSE PipelinePlan(prof.tiers)

DoneByNumber(checkpoint) == {k \in Phase : k < checkpoint}           \* mutant
DoneUpTo(checkpoint) ==                                              \* mutant
  {PhaseOrder[n] : n \in {m \in 1..Len(PhaseOrder) :
                            \A l \in 1..m : l = m \/ PhaseOrder[l] # checkpoint}}
DoneNothing(checkpoint) == {}                                        \* mutant

\* ResumeRunState: the phases in front of the checkpoint phase.
DoneBefore(checkpoint) ==
  {PhaseOrder[n] : n \in {m \in 1..Len(PhaseOrder) :
                            \A l \in 1..m : PhaseOrder[l] # checkpoint}}

Range(s) == {s[n] : n \in 1..Len(s)}
Given(flag, stored) == IF flag = None THEN stored ELSE flag

-----------------------------------------------------------------------------
(* Processes and rows *)

NoProfile == [region |-> None, execution |-> None, tiers |-> <<>>, version |-> None]

IdleCli == [pc |-> "idle", run |-> None, prof |-> NoProfile, done |-> {},
            pos |-> 1, synced |-> 0, sig |-> FALSE, out |-> "none"]

Setup == {"check", "create", "lookup", "reactivate", "reset", "purge"}
Executing == {"plan", "phase", "close"}

Steps(p) == Plan(cli[p].prof)
Step(p) == Steps(p)[cli[p].pos]
MorePhases(p) == cli[p].pos <= Len(Steps(p))

Exists(i) == rows[i] # None
InPhase(p, k) == cli[p].pc = "phase" /\ Step(p).phase = k
Advance(p) == [cli EXCEPT ![p].pc = "plan", ![p].pos = @ + 1]

LeaveLocked(p) ==                                                    \* mutant
  cli' = [cli EXCEPT ![p] = IdleCli] /\ UNCHANGED lock

\* The process returns from Runner.Run or dies: its session releases the lock.
Leave(p) ==
  /\ cli' = [cli EXCEPT ![p] = IdleCli]
  /\ lock' = [r \in Region |-> IF lock[r] = p THEN None ELSE lock[r]]

Fault == faults < MaxFaults /\ faults' = faults + 1

SwappedCheckpoint(p, k, t) ==                                        \* mutant
  rows' = [rows EXCEPT ![cli[p].run].phase = t, ![cli[p].run].tier = k]

\* UpdateCheckpoint
Checkpoint(p, k, t) == rows' = [rows EXCEPT ![cli[p].run].phase = k,
                                            ![cli[p].run].tier = t]

Batch(p, k) == [run |-> cli[p].run, region |-> cli[p].prof.region,
                version |-> cli[p].prof.version, phase |-> k]

\* The batches the query of phase k sees.
Pending(p, k) ==
  {b \in backlog : /\ b.phase = k
                   /\ b.region = cli[p].prof.region
                   /\ k \in VersionScoped => b.version = cli[p].prof.version}

IsDone(p, k) == k \in DrainPhase /\ Pending(p, k) = {}

\* The phases a batch waits for once it went through phase k: a match whose
\* retries are used up waits for nothing, a match with details for 4 and 5
\* (for 35 too if a participant has no tier), one with a timeline for 55.
NextPhases(k) ==
  CASE k = 3 -> {{}, {4, 5}, {35, 4, 5}}
    [] k = 5 -> {{}, {55}}
    [] OTHER -> {{}}

-----------------------------------------------------------------------------
Init ==
  /\ rows = [i \in RunId |-> None]
  /\ lock = [r \in Region |-> None]
  /\ cli = [p \in Proc |-> IdleCli]
  /\ latest = 1
  /\ snaps = [i \in RunId |-> 0]
  /\ collected = [i \in RunId |-> {}]
  /\ backlog = {}
  /\ faults = 0

-----------------------------------------------------------------------------
(* Runner.Run up to the RunState *)

FreeIds == {i \in RunId : ~Exists(i)}
Creating == {p \in Proc : cli[p].pc \in {"check", "create"}}

StartNewUnlocked(p, prof) ==                                         \* mutant
  /\ cli[p].pc = "idle"
  /\ Cardinality(FreeIds) > Cardinality(Creating)
  /\ cli' = [cli EXCEPT ![p].pc = "check", ![p].prof = prof]
  /\ UNCHANGED <<rows, lock, latest, snaps, collected, backlog, faults>>

\* `crawl run` and runProfile: take the lock of the region; a process that does
\* not get it returns an error and changes nothing.
StartNew(p, prof) ==
  /\ cli[p].pc = "idle"
  /\ lock[prof.region] = None
  /\ Cardinality(FreeIds) > Cardinality(Creating)    \* bound on runs
  /\ lock' = [lock EXCEPT ![prof.region] = p]
  /\ cli' = [cli EXCEPT ![p].pc = "check", ![p].prof = prof]
  /\ UNCHANGED <<rows, latest, snaps, collected, backlog, faults>>

StartResumeUnlocked(p, i, flags) ==                                  \* mutant
  /\ cli[p].pc = "idle" /\ Exists(i)
  /\ cli' = [cli EXCEPT ![p].pc = "lookup", ![p].run = i,
                        ![p].prof = [flags EXCEPT
                           !.region = Given(@, rows[i].region),
                           !.execution = Given(@, rows[i].execution)]]
  /\ UNCHANGED <<rows, lock, latest, snaps, collected, backlog, faults>>

\* `crawl run --resume i`: region and execution come from the flags or the row.
StartResume(p, i, flags) ==
  /\ cli[p].pc = "idle"
  /\ Exists(i)
  /\ LET prof == [flags EXCEPT !.region = Given(@, rows[i].region),
                               !.execution = Given(@, rows[i].execution)]
     IN  /\ lock[prof.region] = None
         /\ lock' = [lock EXCEPT ![prof.region] = p]
         /\ cli' = [cli EXCEPT ![p].pc = "lookup", ![p].run = i, ![p].prof = prof]
  /\ UNCHANGED <<rows, latest, snaps, collected, backlog, faults>>

RunningIn(r) == {i \in RunId : Exists(i) /\ rows[i].status = "running"
                                        /\ rows[i].region = r}

ReadActiveIgnored(p) ==                                              \* mutant
  /\ cli[p].pc = "check"
  /\ cli' = [cli EXCEPT ![p].pc = "create"]
  /\ UNCHANGED <<rows, lock, latest, snaps, collected, backlog, faults>>

\* GetActiveRun: refuse while a row of the region is 'running'.
ReadActive(p) ==
  /\ cli[p].pc = "check"
  /\ IF RunningIn(cli[p].prof.region) # {}
     THEN Leave(p)
     ELSE cli' = [cli EXCEPT ![p].pc = "create"] /\ UNCHANGED lock
  /\ UNCHANGED <<rows, latest, snaps, collected, backlog, faults>>

\* NewRunState -> CreateRun
Create(p, i) ==
  /\ cli[p].pc = "create"
  /\ ~Exists(i)
  /\ rows' = [rows EXCEPT ![i] =
                [status |-> "running", region |-> cli[p].prof.region,
                 execution |-> cli[p].prof.execution, tiers |-> cli[p].prof.tiers,
                 version |-> cli[p].prof.version, phase |-> 0, tier |-> None]]
  /\ cli' = [cli EXCEPT ![p].pc = "plan", ![p].run = i]
  /\ UNCHANGED <<lock, latest, snaps, collected, backlog, faults>>

RefusesParked(row) == row.status = "failed"                          \* mutant
ResumesAny(row) == TRUE                                              \* mutant
Resumable(row) == row.status \in {"running", "failed"}

RewindsOnlyPhase0(row) == row.phase < 1                              \* mutant
Rewinds(row) == row.phase <= 1

\* The profile of the row, except for what the flags give.  StartResume filled
\* region and execution in already.
MergeFlags(row, flags) ==
  [flags EXCEPT !.tiers = IF @ = <<>> THEN row.tiers ELSE @,
                !.version = Given(@, row.version)]

\* GetRunByID, the status check, MergeFlags and ResumeRunState.  A checkpoint
\* in phase 0 or 1 is rewound by the next steps, so nothing counts as done.
Lookup(p) ==
  /\ cli[p].pc = "lookup"
  /\ LET row == rows[cli[p].run]
     IN  IF ~Resumable(row) THEN Leave(p)
         ELSE /\ cli' = [cli EXCEPT
                    ![p].pc = IF row.status = "failed" THEN "reactivate"
                              ELSE IF Rewinds(row) THEN "reset" ELSE "plan",
                    ![p].done = IF Rewinds(row) THEN {} ELSE DoneBefore(row.phase),
                    ![p].prof = MergeFlags(row, @)]
              /\ UNCHANGED lock
  /\ UNCHANGED <<rows, latest, snaps, collected, backlog, faults>>

Reactivate(p) ==
  /\ cli[p].pc = "reactivate"
  /\ rows' = [rows EXCEPT ![cli[p].run].status = "running"]
  /\ cli' = [cli EXCEPT ![p].pc = IF cli[p].done = {} THEN "reset" ELSE "plan"]
  /\ UNCHANGED <<lock, latest, snaps, collected, backlog, faults>>

\* ResetRunToPhase0, first statement
ResetCheckpoint(p) ==
  /\ cli[p].pc = "reset"
  /\ Checkpoint(p, 0, None)
  /\ cli' = [cli EXCEPT ![p].pc = "purge"]
  /\ UNCHANGED <<lock, latest, snaps, collected, backlog, faults>>

\* ResetRunToPhase0, second statement
PurgeSnapshots(p) ==
  /\ cli[p].pc = "purge"
  /\ snaps' = [snaps EXCEPT ![cli[p].run] = 0]
  /\ cli' = [cli EXCEPT ![p].pc = "plan"]
  /\ UNCHANGED <<rows, lock, latest, collected, backlog, faults>>

\* A statement of the set-up fails: Run returns the error, the row stays as it is.
AbortSetup(p) ==
  /\ cli[p].pc \in Setup
  /\ Fault
  /\ Leave(p)
  /\ UNCHANGED <<rows, latest, snaps, collected, backlog>>

-----------------------------------------------------------------------------
(* The strategies: Execute and runPhase *)

\* The phase is in donePhases.  Sequential checks the context first.
SkipDone(p) ==
  /\ cli[p].pc = "plan" /\ MorePhases(p)
  /\ ~Step(p).opensTier /\ Step(p).phase \in cli[p].done
  /\ cli[p].prof.execution = "sequential" => ~cli[p].sig
  /\ cli' = Advance(p)
  /\ UNCHANGED <<rows, lock, latest, snaps, collected, backlog, faults>>

\* Pipeline: CurrentTier is set and the first per-tier phase is checkpointed.
OpenTier(p) ==
  /\ cli[p].pc = "plan" /\ MorePhases(p)
  /\ Step(p).opensTier
  /\ ~cli[p].sig
  /\ Checkpoint(p, Step(p).phase, Step(p).tier)
  /\ cli' = Advance(p)
  /\ UNCHANGED <<lock, latest, snaps, collected, backlog, faults>>

MustRun(p) ==
  /\ cli[p].pc = "plan" /\ MorePhases(p)
  /\ ~Step(p).opensTier /\ Step(p).phase \notin cli[p].done
  /\ ~cli[p].sig

\* IsDone found nothing left to do.
SkipIdle(p) ==
  /\ MustRun(p)
  /\ IsDone(p, Step(p).phase)
  /\ cli' = Advance(p)
  /\ UNCHANGED <<rows, lock, latest, snaps, collected, backlog, faults>>

EnterPhase(p) ==
  /\ MustRun(p)
  /\ ~IsDone(p, Step(p).phase)
  /\ Checkpoint(p, Step(p).phase, Step(p).tier)
  /\ cli' = [cli EXCEPT ![p].pc = "phase", ![p].synced = 0]
  /\ UNCHANGED <<lock, latest, snaps, collected, backlog, faults>>

\* All phases returned nil.
Finish(p) ==
  /\ cli[p].pc = "plan" /\ ~MorePhases(p)
  /\ cli' = [cli EXCEPT ![p].pc = "close", ![p].out = "ok"]
  /\ UNCHANGED <<rows, lock, latest, snaps, collected, backlog, faults>>

-----------------------------------------------------------------------------
(* The phases *)

SyncVersionInMemory(p) ==                                            \* mutant
  /\ InPhase(p, 0)
  /\ cli' = [Advance(p) EXCEPT ![p].prof.version = Given(@, latest)]
  /\ UNCHANGED <<rows, lock, latest, snaps, collected, backlog, faults>>

\* Phase 0 pins the newest version to a run that has none.
SyncVersion(p) ==
  /\ InPhase(p, 0)
  /\ LET pin == Given(cli[p].prof.version, latest)
     IN  /\ rows' = IF cli[p].prof.version = None
                    THEN [rows EXCEPT ![cli[p].run].version = pin]
                    ELSE rows
         /\ cli' = [Advance(p) EXCEPT ![p].prof.version = pin]
  /\ UNCHANGED <<lock, latest, snaps, collected, backlog, faults>>

\* Phase 1 goes through the prefetch tiers (by default the target tiers): it
\* checkpoints the tier and inserts a snapshot of every player in it.
SyncTier(p) ==
  /\ InPhase(p, 1)
  /\ ~cli[p].sig
  /\ cli[p].synced < Len(cli[p].prof.tiers)
  /\ Checkpoint(p, 1, cli[p].prof.tiers[cli[p].synced + 1])
  /\ snaps' = [snaps EXCEPT ![cli[p].run] =
                 IF cli[p].synced > 0 \/ @ = 2 THEN @ ELSE @ + 1]
  /\ cli' = [cli EXCEPT ![p].synced = @ + 1]
  /\ UNCHANGED <<lock, latest, collected, backlog, faults>>

FinishRankSync(p) ==
  /\ InPhase(p, 1)
  /\ cli[p].synced = Len(cli[p].prof.tiers)
  /\ cli' = Advance(p)
  /\ UNCHANGED <<rows, lock, latest, snaps, collected, backlog, faults>>

\* Phase 2 stores match ids of one player.
CollectMatches(p) ==
  /\ InPhase(p, 2)
  /\ Batch(p, 3) \notin backlog
  /\ backlog' = backlog \cup {Batch(p, 3)}
  /\ UNCHANGED <<rows, lock, cli, latest, snaps, collected, faults>>

FinishCollect(p) ==
  /\ InPhase(p, 2)
  /\ collected' = [collected EXCEPT ![cli[p].run] = @ \cup
                     (IF Step(p).tier = None THEN Range(cli[p].prof.tiers)
                      ELSE {Step(p).tier})]
  /\ cli' = Advance(p)
  /\ UNCHANGED <<rows, lock, latest, snaps, backlog, faults>>

\* A phase from 3 on works on a batch: part of it, or all that is left.
ProcessBatch(p, k) ==
  /\ InPhase(p, k)
  /\ \E b \in Pending(p, k), next \in NextPhases(k), rest \in {{}, {k}} :
       backlog' = (backlog \ {b}) \cup {[b EXCEPT !.phase = n] : n \in (next \cup rest) \cap Phase}
  /\ UNCHANGED <<rows, lock, cli, latest, snaps, collected, faults>>

\* The loop ends when the query returns nothing; phase 35 also gives up when
\* every player it still sees was asked for in this execution.
FinishDrain(p, k) ==
  /\ InPhase(p, k)
  /\ k # 35 => Pending(p, k) = {}
  /\ cli' = Advance(p)
  /\ UNCHANGED <<rows, lock, latest, snaps, collected, backlog, faults>>

-----------------------------------------------------------------------------
(* How an execution ends *)

\* A call in a strategy or a phase fails with something else than cancellation.
PhaseError(p) ==
  /\ cli[p].pc \in {"plan", "phase"} /\ MorePhases(p)
  /\ Fault
  /\ cli' = [cli EXCEPT ![p].pc = "close", ![p].out = "error"]
  /\ UNCHANGED <<rows, lock, latest, snaps, collected, backlog>>

\* SIGINT or SIGTERM cancels the context of the run.
Signal(p) ==
  /\ cli[p].pc \in {"plan", "phase"} /\ ~cli[p].sig
  /\ Fault
  /\ cli' = [cli EXCEPT ![p].sig = TRUE]
  /\ UNCHANGED <<rows, lock, latest, snaps, collected, backlog>>

\* The cancelled context is noticed.
Interrupted(p) ==
  /\ cli[p].pc \in {"plan", "phase"} /\ MorePhases(p)
  /\ cli[p].sig
  /\ cli' = [cli EXCEPT ![p].pc = "close", ![p].out = "canceled"]
  /\ UNCHANGED <<rows, lock, latest, snaps, collected, backlog, faults>>

\* The status an outcome leads to; cancellation leaves the row alone.
Close(p) ==
  /\ cli[p].pc = "close"
  /\ rows' = CASE cli[p].out = "ok" -> [rows EXCEPT ![cli[p].run].status = "completed"]
               [] cli[p].out = "error" -> [rows EXCEPT ![cli[p].run].status = "failed"]
               [] OTHER -> rows
  /\ Leave(p)
  /\ UNCHANGED <<latest, snaps, collected, backlog, faults>>

\* The last UPDATE fails; its error is discarded.
CloseLost(p) ==
  /\ cli[p].pc = "close"
  /\ Fault
  /\ Leave(p)
  /\ UNCHANGED <<rows, latest, snaps, collected, backlog>>

-----------------------------------------------------------------------------
(* The environment *)

Crash(p) ==
  /\ cli[p].pc # "idle"
  /\ Fault
  /\ Leave(p)
  /\ UNCHANGED <<rows, latest, snaps, collected, backlog>>

\* The server drops the session: the lock is gone, the process does not notice.
LoseSession(p) ==
  /\ SessionsMayDrop
  /\ \E r \in Region : lock[r] = p /\ lock' = [lock EXCEPT ![r] = None]
  /\ Fault
  /\ UNCHANGED <<rows, cli, latest, snaps, collected, backlog>>

\* `crawl cancel i`: FailRun on whatever row has the id.
Cancel(i) ==
  /\ Exists(i)
  /\ Fault
  /\ rows' = [rows EXCEPT ![i].status = "failed"]
  /\ UNCHANGED <<lock, cli, latest, snaps, collected, backlog>>

NewPatch ==
  /\ latest < MaxVersion
  /\ latest' = latest + 1
  /\ UNCHANGED <<rows, lock, cli, snaps, collected, backlog, faults>>

-----------------------------------------------------------------------------
SetUp(p) ==
  \/ ReadActive(p) \/ Lookup(p) \/ Reactivate(p) \/ ResetCheckpoint(p)
  \/ PurgeSnapshots(p) \/ \E i \in RunId : Create(p, i)

Execute(p) ==
  \/ SkipDone(p) \/ OpenTier(p) \/ SkipIdle(p) \/ EnterPhase(p) \/ Finish(p)
  \/ SyncVersion(p) \/ SyncTier(p) \/ FinishRankSync(p) \/ CollectMatches(p)
  \/ FinishCollect(p)
  \/ \E k \in DrainPhase : ProcessBatch(p, k) \/ FinishDrain(p, k)

Stop(p) == Interrupted(p) \/ Close(p)

\* What the program does by itself once it was started.
Work(p) == SetUp(p) \/ Execute(p) \/ Stop(p)

Start(p) ==
  \/ \E prof \in Profiles : StartNew(p, prof)
  \/ \E i \in RunId, flags \in ResumeFlags : StartResume(p, i, flags)

Disturb(p) ==
  AbortSetup(p) \/ PhaseError(p) \/ Signal(p) \/ CloseLost(p) \/ Crash(p) \/ LoseSession(p)

Next ==
  \/ \E p \in Proc : Work(p) \/ Start(p) \/ Disturb(p)
  \/ \E i \in RunId : Cancel(i)
  \/ NewPatch

Spec == Init /\ [][Next]_vars

(* Every call of a running process returns, so the process takes its next    *)
(* step, and the players phase 2 goes through are finitely many.  An         *)
(* operator who keeps asking for --resume gets through eventually.           *)
PlainResume(i) ==
  \E p \in Proc, flags \in ResumeFlags :
    flags.region = None /\ flags.execution = None /\ StartResume(p, i, flags)

Fairness ==
  /\ \A p \in Proc : WF_vars(Work(p)) /\ WF_vars(FinishCollect(p))
  /\ \A i \in RunId : SF_vars(PlainResume(i))

FairSpec == Spec /\ Fairness

-----------------------------------------------------------------------------
(* Properties *)

Row == [status : {"running", "failed", "completed"}, region : Region,
        execution : Execution, tiers : Seq(Tier), version : Version \cup {None},
        phase : Phase, tier : Tier \cup {None}]

ASSUME NoneIsNoRow == None \notin Row

CliProfile == [region : Region \cup {None}, execution : Execution \cup {None},
               tiers : Seq(Tier), version : Version \cup {None}]

Cli == [pc : {"idle"} \cup Setup \cup Executing, run : RunId \cup {None},
        prof : CliProfile, done : SUBSET Phase, pos : Nat, synced : Nat,
        sig : BOOLEAN, out : {"none", "ok", "error", "canceled"}]

BatchType == [run : RunId, region : Region, version : Version \cup {None},
              phase : DrainPhase]

\* Every variable has its type.
TypeOK ==
  /\ rows \in [RunId -> Row \cup {None}]
  /\ lock \in [Region -> Proc \cup {None}]
  /\ cli \in [Proc -> Cli]
  /\ latest \in Version
  /\ snaps \in [RunId -> 0..2]
  /\ collected \in [RunId -> SUBSET Tier]
  /\ backlog \subseteq BatchType
  /\ faults \in 0..MaxFaults

Active(p) == cli[p].pc # "idle"
Running(p) == cli[p].pc \in Executing

\* Two executions never work in one region at the same time (runner.go:42).
OneExecutorPerRegion ==
  \A p, q \in Proc :
    p # q /\ Running(p) /\ Running(q) => cli[p].prof.region # cli[q].prof.region

\* No run is executed by two processes at once, whatever is resumed, crashes
\* or is cancelled meanwhile.
OneExecutorPerRun ==
  \A p, q \in Proc : p # q /\ Running(p) /\ Running(q) => cli[p].run # cli[q].run

\* A run is created only while no other run of its region is 'running', although
\* GetActiveRun and the INSERT are two statements (runner.go:99-116).
NewRunOnlyWhenIdle ==
  [][\A i \in RunId : ~Exists(i) /\ Exists(i)' => RunningIn(rows'[i].region) = {}]_vars

\* Past phase 0 a process works for the version stored in the row, also after
\* a resume that follows the release of a patch (phase0/phase.go:70-81).
VersionPinned ==
  \A p \in Proc :
    cli[p].pc \in {"plan", "phase"} /\ cli[p].pos > 1 =>
      cli[p].prof.version # None /\ cli[p].prof.version = rows[cli[p].run].version

\* Past phase 1, the snapshots of a run come from one execution of phase 1: what
\* interrupted ones left is gone ("clean slate", runner.go:72-80), even when the
\* process dies between the two statements of ResetRunToPhase0.
CleanSlate ==
  \A p \in Proc :
    cli[p].pc \in {"plan", "phase"} /\ cli[p].pos > 2 => snaps[cli[p].run] <= 1

Completed(i) == Exists(i) /\ rows[i].status = "completed"
CollectedAll(i) == Range(rows[i].tiers) \subseteq collected[i]

\* A completed run went through phase 2 for each of its target tiers.
CompletedRunCollectedEveryTier == \A i \in RunId : Completed(i) => CollectedAll(i)

\* The same, for the runs whose strategy passes phase 2 only once.
OnePass(row) == row.execution = "sequential" \/ Len(row.tiers) = 1

OnePassRunCollectedEveryTier ==
  \A i \in RunId : Completed(i) /\ OnePass(rows[i]) => CollectedAll(i)

\* When a run is completed none of its matches waits for phase 3, 4, 5 or 55,
\* however often it was interrupted, failed, cancelled and resumed.
CompletedRunDrained ==
  \A b \in backlog : Completed(b.run) => b.phase = 35

\* The checkpoint of a sequential run never moves back, except for the rewind
\* from phase 1 to phase 0: work in front of it is not repeated.
Position(k) == CHOOSE n \in 1..Len(PhaseOrder) : PhaseOrder[n] = k

CheckpointMovesForward ==
  [][\A i \in RunId :
       Exists(i) /\ rows[i].execution = "sequential" =>
         \/ Position(rows'[i].phase) >= Position(rows[i].phase)
         \/ rows[i].phase = 1 /\ rows'[i].phase = 0]_vars

\* The runs executed in a region: past the check of its status, or just created.
Executed(p) == Running(p) \/ cli[p].pc \in {"reactivate", "reset", "purge"}

Abstract == INSTANCE RegionExecutor WITH
  status <- [i \in RunId |-> IF Exists(i) THEN rows[i].status ELSE "none"],
  home <- [i \in RunId |-> IF Exists(i) THEN rows[i].region ELSE None],
  executing <- [r \in Region |->
                  {cli[p].run : p \in {q \in Proc : Executed(q) /\ cli[q].prof.region = r}}]

\* Lock, checks, two-statement set-up, resume, strategies, crashes and cancels
\* together keep what RegionExecutor promises: one run per region at a time, no
\* second 'running' run created, no completed run executed again (runner.go:41).
ImplementsRegionExecutor == Abstract!Spec

\* A region is never locked for ever: whoever holds the lock finishes or dies.
RegionIsReleased == \A r \in Region : lock[r] # None ~> lock[r] = None

\* A run left 'running' by a crash or a signal, which keeps its region closed
\* for new runs, reaches a final status once someone resumes it.
HasStatus(i, set) == Exists(i) /\ rows[i].status \in set

ParkedRunIsSettled ==
  \A i \in RunId : HasStatus(i, {"running"}) ~> HasStatus(i, {"completed", "failed"})
=============================================================================
