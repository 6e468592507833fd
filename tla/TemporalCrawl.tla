--------------------------- MODULE TemporalCrawl ---------------------------
(***************************************************************************)
(* The worker: CrawlRegionWorkflow and its activities under Temporal.      *)
(*                                                                         *)
(* Code: apps/worker/internal/workflow/crawl, .../activity/crawl,          *)
(* .../schedule, .../runtime and cmd/worker.                               *)
(*                                                                         *)
(* The server (external) keeps, for every open workflow, the activities it *)
(* waits for.  A worker executes attempts of them.  The server gives up on *)
(* an attempt by time-out, by cancellation or because the workflow closed, *)
(* and the attempt may not know: it goes on as a ghost beside its          *)
(* successors.  What an activity does to matches is in MatchPipeline.      *)
(***************************************************************************)
EXTENDS Naturals, Sequences, FiniteSets

CONSTANTS
  WfId,        \* workflow executions (bound)
  RunId,       \* ids runs.id can hand out (bound)
  Tier,
  MaxVersion,  \* versions are 1..MaxVersion, in release order (bound)
  Profiles,    \* profiles with an entry under `schedule:' in the config
  Region,      \* regions of the profiles
  Riot,        \* regions the worker has a Riot client for
  LatePhases,  \* the phase activities after Phase2, in order
  MaxAttempts, \* activity -> MaximumAttempts of its retry policy
  MaxFaults,   \* failed or slow attempts, crashes, cancellations (bound)
  None

Version == 1..MaxVersion
Bookkeeping == {"ResolveProfile", "CreateRun", "PinRunVersion", "CompleteRun", "FailRun"}
PhaseActivity == {"Phase0", "Phase1", "Phase2", "Phase3", "Phase35", "Phase4", "Phase5", "Phase55"}
Activity == Bookkeeping \cup PhaseActivity

ASSUME ConstantsAssumption ==
  /\ MaxVersion \in Nat \ {0} /\ MaxFaults \in Nat
  /\ Profiles \subseteq [region : Region, execution : {"sequential", "pipeline"},
                         tiers : Seq(Tier) \ {<<>>}, version : Version \cup {None}]
  /\ Riot \subseteq Region
  /\ LatePhases \in Seq(PhaseActivity \ {"Phase0", "Phase1", "Phase2"})
  /\ MaxAttempts \in [Activity -> Nat \ {0}]
  /\ None \notin WfId \cup RunId \cup Tier \cup Version

VARIABLES
  schedules, \* profiles whose Temporal schedule exists
  wf,        \* workflow execution -> its state, or None
  tasks,     \* activities the server tracks for open workflows
  attempts,  \* attempts that execute in the worker process
  rows,      \* table runs
  collected, \* run -> tiers phase 2 collected for it
  drained,   \* run -> phases from 3 on that ran to their end for it
  latest,    \* newest version CommunityDragon lists, 0 when the list is empty
  faults

vars == <<schedules, wf, tasks, attempts, rows, collected, drained, latest, faults>>

Exists(w) == wf[w] # None
Open(w) == Exists(w) /\ wf[w].status = "open"
Closed(w) == Exists(w) /\ ~Open(w)
Elems(s) == {s[n] : n \in DOMAIN s}
Fault == faults < MaxFaults /\ faults' = faults + 1

-----------------------------------------------------------------------------
(* The workflow as a list of calls *)

\* The activities CrawlRegionWorkflow and runPhases call one after the other;
\* the version is pinned only when the profile does not give one.
Calls(prof) ==
  <<"ResolveProfile", "CreateRun", "Phase0">>
    \o (IF prof.version = None THEN <<"PinRunVersion">> ELSE <<>>)
    \o <<"Phase1", "Phase2">> \o LatePhases \o <<"CompleteRun">>

Call(w) == IF wf[w].pc = 0 THEN "FailRun" ELSE Calls(wf[w].prof)[wf[w].pc]

\* The activities one call starts: phase 2 of a pipeline fans out per tier.
Futures(prof, act) ==
  IF act = "Phase2" /\ prof.execution = "pipeline" THEN prof.tiers ELSE <<None>>

Scheduled(w, prof, act) ==
  {[wf |-> w, act |-> act, tier |-> t, n |-> 1, st |-> "waiting", res |-> None] :
     t \in Elems(Futures(prof, act))}

TasksOf(w) == {t \in tasks : t.wf = w}
Awaited(w) == {t \in tasks : t.wf = w /\ t.act = Call(w)}

\* Futures are asked in the order of the tiers: an error is seen once all the
\* futures before it answered.
Resolved(w, st, m) ==
  \E t \in Awaited(w) : t.tier = Futures(wf[w].prof, Call(w))[m] /\ t.st = st

FirstFutureOnly(w) == Resolved(w, "ok", 1)                            \* mutant
AllOk(w) == \A m \in DOMAIN Futures(wf[w].prof, Call(w)) : Resolved(w, "ok", m)

ErrorSeen(w) ==
  \E m \in DOMAIN Futures(wf[w].prof, Call(w)) :
    Resolved(w, "failed", m) /\ \A l \in 1..(m - 1) : Resolved(w, "ok", l)

-----------------------------------------------------------------------------
Init ==
  /\ schedules = {}
  /\ wf = [w \in WfId |-> None]
  /\ tasks = {} /\ attempts = {}
  /\ rows = [i \in RunId |-> None]
  /\ collected = [i \in RunId |-> {}]
  /\ drained = [i \in RunId |-> {}]
  /\ latest \in {0, 1}
  /\ faults = 0

-----------------------------------------------------------------------------
(* Schedules *)

\* BuildPlan and Upsert, at every start of a worker: a schedule that exists is
\* updated, one that is no longer in the config stays.
Upsert ==
  /\ ~(Profiles \subseteq schedules)
  /\ schedules' = schedules \cup Profiles
  /\ UNCHANGED <<wf, tasks, attempts, rows, collected, drained, latest, faults>>

\* A schedule fires.  The overlap policy is the default: skip while the
\* workflow it started before is open.
Fire(prof, w) ==
  /\ prof \in schedules
  /\ ~Exists(w)
  /\ \A v \in WfId : Open(v) => wf[v].prof # prof
  /\ wf' = [wf EXCEPT ![w] = [prof |-> prof, pc |-> 1, run |-> None, tried |-> 0,
                              version |-> prof.version, status |-> "open",
                              outcome |-> "completed"]]
  /\ tasks' = tasks \cup Scheduled(w, prof, "ResolveProfile")
  /\ UNCHANGED <<schedules, attempts, rows, collected, drained, latest, faults>>

-----------------------------------------------------------------------------
(* Attempts *)

\* A worker of the task queue picks an activity up (task_queues of its config name
\* the queues of all profiles).
Poll(t) ==
  /\ t.st = "waiting"
  /\ tasks' = (tasks \ {t}) \cup {[t EXCEPT !.st = "running"]}
  /\ attempts' = attempts \cup {[wf |-> t.wf, act |-> t.act, tier |-> t.tier, n |-> t.n,
                                 ctx |-> "live", did |-> FALSE, res |-> None]}
  /\ UNCHANGED <<schedules, wf, rows, collected, drained, latest, faults>>

Finished(x, res) == (attempts \ {x}) \cup {[x EXCEPT !.did = TRUE, !.res = res]}

\* ... of an expired context can at most finish the statement it is in.
MayAct(x) == ~x.did /\ (x.ctx = "live" \/ x.act \in Bookkeeping)

\* Build makes a client for every region of the config.  Nothing compares these
\* with the regions of the profiles.
RiotForRegion(x) == wf[x.wf].prof.region \in Riot

CreateRun(x, i) ==
  /\ x.act = "CreateRun" /\ MayAct(x)
  /\ rows[i] = None
  /\ rows' = [rows EXCEPT ![i] = [status |-> "running", version |-> wf[x.wf].prof.version,
                                  tiers |-> wf[x.wf].prof.tiers]]
  /\ attempts' = Finished(x, i)
  /\ UNCHANGED <<schedules, wf, tasks, collected, drained, latest, faults>>

\* Phase0VersionSync: the pinned version, or the newest one of the list.
Phase0VersionSync(x) ==
  /\ x.act = "Phase0" /\ MayAct(x) /\ RiotForRegion(x)
  /\ attempts' = Finished(x, IF wf[x.wf].prof.version # None THEN wf[x.wf].prof.version
                             ELSE IF latest = 0 THEN None ELSE latest)
  /\ UNCHANGED <<schedules, wf, tasks, rows, collected, drained, latest, faults>>

PinNewest(x) ==                                                      \* mutant
  /\ x.act = "PinRunVersion" /\ MayAct(x) /\ latest > 0
  /\ rows' = [rows EXCEPT ![wf[x.wf].run].version = latest]
  /\ attempts' = Finished(x, None)
  /\ UNCHANGED <<schedules, wf, tasks, collected, drained, latest, faults>>

\* An empty version is an error, which RejectVersion returns.
PinRunVersion(x) ==
  /\ x.act = "PinRunVersion" /\ MayAct(x)
  /\ wf[x.wf].version # None
  /\ rows' = [rows EXCEPT ![wf[x.wf].run].version = wf[x.wf].version]
  /\ attempts' = Finished(x, None)
  /\ UNCHANGED <<schedules, wf, tasks, collected, drained, latest, faults>>

\* Phase2MatchIDCollection, for the one tier of a future or for all of them.
Phase2MatchIDCollection(x) ==
  /\ x.act = "Phase2" /\ MayAct(x)
  /\ collected' = [collected EXCEPT ![wf[x.wf].run] = @ \cup
                     (IF x.tier = None THEN Elems(wf[x.wf].prof.tiers) ELSE {x.tier})]
  /\ attempts' = Finished(x, None)
  /\ UNCHANGED <<schedules, wf, tasks, rows, drained, latest, faults>>

\* The profile was resolved when the schedule fired: the config is fixed.
ResolveProfile(x) ==
  /\ x.act = "ResolveProfile" /\ MayAct(x)
  /\ attempts' = Finished(x, None)
  /\ UNCHANGED <<schedules, wf, tasks, rows, collected, drained, latest, faults>>

\* All tiers from the first one on, also in a retry: the progress it reports with
\* its heartbeats is not read.  Snapshots and the audit checkpoint are left out.
Phase1RankSnapshot(x) ==
  /\ x.act = "Phase1" /\ MayAct(x)
  /\ attempts' = Finished(x, None)
  /\ UNCHANGED <<schedules, wf, tasks, rows, collected, drained, latest, faults>>

\* A phase from 3 on runs to its end, with a RunState made up for it (synthState);
\* what it does to matches is in MatchPipeline.
Drain(x) ==
  /\ MayAct(x)
  /\ drained' = [drained EXCEPT ![wf[x.wf].run] = @ \cup {x.act}]
  /\ attempts' = Finished(x, None)
  /\ UNCHANGED <<schedules, wf, tasks, rows, collected, latest, faults>>

Phase3MatchDetails(x) == x.act = "Phase3" /\ Drain(x)

Phase35OnDemandRank(x) == x.act = "Phase35" /\ Drain(x)

Phase4AvgTierCalc(x) == x.act = "Phase4" /\ Drain(x)

Phase5Timeline(x) == x.act = "Phase5" /\ Drain(x)

Phase55ItemClassify(x) == x.act = "Phase55" /\ Drain(x)

\* CompleteRun and FailRun, which do not look at the status they overwrite.
StampRun(x) ==
  /\ x.act \in {"CompleteRun", "FailRun"} /\ MayAct(x)
  /\ rows' = [rows EXCEPT ![wf[x.wf].run].status =
                IF x.act = "CompleteRun" THEN "completed" ELSE "failed"]
  /\ attempts' = Finished(x, None)
  /\ UNCHANGED <<schedules, wf, tasks, collected, drained, latest, faults>>

Perform(x) ==
  \/ \E i \in RunId : CreateRun(x, i)
  \/ Phase0VersionSync(x) \/ PinRunVersion(x) \/ Phase2MatchIDCollection(x)
  \/ ResolveProfile(x) \/ Phase1RankSnapshot(x) \/ StampRun(x)
  \/ Phase3MatchDetails(x) \/ Phase35OnDemandRank(x) \/ Phase4AvgTierCalc(x)
  \/ Phase5Timeline(x) \/ Phase55ItemClassify(x)

\* The task an attempt works for, empty for a ghost.
TaskOf(x) ==
  {t \in tasks : t.wf = x.wf /\ t.act = x.act /\ t.tier = x.tier /\ t.n = x.n /\ t.st = "running"}

RetryForEver(t) == [t EXCEPT !.st = "waiting"]                       \* mutant

\* The retry policy.
AfterFailure(t) ==
  IF t.n < MaxAttempts[t.act] THEN [t EXCEPT !.st = "waiting", !.n = @ + 1]
  ELSE [t EXCEPT !.st = "failed"]

\* An attempt returns nil; the server takes the answer of the current one only.
Report(x) ==
  /\ x.did
  /\ attempts' = attempts \ {x}
  /\ tasks' = (tasks \ TaskOf(x)) \cup {[t EXCEPT !.st = "ok", !.res = x.res] : t \in TaskOf(x)}
  /\ UNCHANGED <<schedules, wf, rows, collected, drained, latest, faults>>

Return(x) ==
  /\ attempts' = attempts \ {x}
  /\ tasks' = (tasks \ TaskOf(x)) \cup {AfterFailure(t) : t \in TaskOf(x)}
  /\ UNCHANGED <<schedules, wf, rows, collected, drained, latest>>

\* An attempt returns an error: before its statement, or after it when the
\* answer of the database is lost.
FailAttempt(x) == Fault /\ Return(x)

\* PinRunVersion refuses an empty version, in every attempt.
RejectVersion(x) ==
  /\ ~x.did /\ x.act = "PinRunVersion" /\ wf[x.wf].version = None
  /\ Return(x)
  /\ UNCHANGED faults

\* Without a client of the region the first phase fails, in every attempt; by then
\* the run has its row.
RejectRegion(x) ==
  /\ ~x.did /\ x.act = "Phase0" /\ ~RiotForRegion(x)
  /\ Return(x)
  /\ UNCHANGED faults

\* A ghost's next call fails with the error of its expired context.
ContextExpired(x) ==
  /\ ~x.did /\ x.ctx = "expired" /\ TaskOf(x) = {}
  /\ Return(x)
  /\ UNCHANGED faults

\* Attempts the server waits for no more.  With a heartbeat (phases 0 and 1) the
\* process only learns of it when it reports the next one; StartToCloseTimeout
\* is the deadline of the attempt's own context too.
Expire(x) == IF x.act \in {"Phase0", "Phase1"} THEN x ELSE [x EXCEPT !.ctx = "expired"]

\* StartToCloseTimeout or HeartbeatTimeout of an attempt that is only slow.
TimeOut(x) ==
  /\ TaskOf(x) # {}
  /\ Fault
  /\ attempts' = (attempts \ {x}) \cup {Expire(x)}
  /\ tasks' = (tasks \ TaskOf(x)) \cup {AfterFailure(t) : t \in TaskOf(x)}
  /\ UNCHANGED <<schedules, wf, rows, collected, drained, latest>>

\* The same, for an attempt whose process is gone.
TimeOutLost(t) ==
  /\ t.st = "running" /\ \A x \in attempts : t \notin TaskOf(x)
  /\ tasks' = (tasks \ {t}) \cup {AfterFailure(t)}
  /\ UNCHANGED <<schedules, wf, attempts, rows, collected, drained, latest, faults>>

\* The worker dies or is stopped: its attempts are gone.  It restarts, replays
\* the workflows from their history and upserts the schedules, which exist.
CrashWorker ==
  /\ attempts # {} /\ Fault
  /\ attempts' = {}
  /\ UNCHANGED <<schedules, wf, tasks, rows, collected, drained, latest>>

-----------------------------------------------------------------------------
(* Steps of the workflow *)

\* The answers runPhases keeps.
Kept(w, res) ==
  [wf[w] EXCEPT !.pc = @ + 1,
                !.run = IF Call(w) = "CreateRun" THEN res ELSE @,
                !.version = IF Call(w) = "Phase0" THEN res ELSE @]

Proceed(w) ==
  /\ Open(w) /\ wf[w].pc \in 1..(Len(Calls(wf[w].prof)) - 1)
  /\ AllOk(w)
  /\ \E t \in Awaited(w) :
       /\ wf' = [wf EXCEPT ![w] = Kept(w, t.res)]
       /\ tasks' = (tasks \ TasksOf(w)) \cup Scheduled(w, wf[w].prof, Calls(wf[w].prof)[wf[w].pc + 1])
  /\ UNCHANGED <<schedules, attempts, rows, collected, drained, latest, faults>>

\* The workflow returns; the server forgets what it still tracks for it.
CloseAs(w, status) ==
  /\ wf' = [wf EXCEPT ![w].status = status]
  /\ tasks' = tasks \ TasksOf(w)

Complete(w) ==
  /\ Open(w) /\ wf[w].pc = Len(Calls(wf[w].prof))
  /\ AllOk(w)
  /\ CloseAs(w, "completed")
  /\ UNCHANGED <<schedules, attempts, rows, collected, drained, latest, faults>>

\* After an error: without a run the workflow just returns it, else FailRun is
\* called first.  Its context is disconnected, so cancellation does not reach it;
\* the other futures of phase 2 stay with the server meanwhile.
StampOnSameContext(w, outcome, kept) ==                              \* mutant
  IF wf[w].run = None \/ outcome = "canceled" THEN CloseAs(w, outcome)
  ELSE /\ wf' = [wf EXCEPT ![w].pc = 0, ![w].outcome = outcome]
       /\ tasks' = (tasks \ (TasksOf(w) \ kept)) \cup Scheduled(w, wf[w].prof, "FailRun")

GiveUp(w, outcome, kept) ==
  IF wf[w].run = None THEN CloseAs(w, outcome)
  ELSE /\ wf' = [wf EXCEPT ![w].pc = 0, ![w].outcome = outcome]
       /\ tasks' = (tasks \ (TasksOf(w) \ kept)) \cup Scheduled(w, wf[w].prof, "FailRun")

SeeError(w) ==
  /\ Open(w) /\ wf[w].pc > 0
  /\ ErrorSeen(w)
  /\ GiveUp(w, "failed", TasksOf(w))
  /\ UNCHANGED <<schedules, attempts, rows, collected, drained, latest, faults>>

\* FailRun answered; its own error is ignored.
CloseFailed(w) ==
  /\ Open(w) /\ wf[w].pc = 0
  /\ \E t \in Awaited(w) :
       /\ t.st \in {"ok", "failed"}
       /\ wf' = [wf EXCEPT ![w].status = wf[w].outcome, ![w].tried = IF t.st = "ok" THEN 0 ELSE t.n]
  /\ tasks' = tasks \ TasksOf(w)
  /\ UNCHANGED <<schedules, attempts, rows, collected, drained, latest, faults>>

\* Cancellation makes every pending Get return at once (WaitForCancellation is
\* not set); attempts without a heartbeat do not hear of it.
Cancel(w) ==
  /\ Open(w) /\ wf[w].pc > 0
  /\ Fault
  /\ GiveUp(w, "canceled", {})
  /\ UNCHANGED <<schedules, attempts, rows, collected, drained, latest>>

\* WorkflowExecutionTimeout: the server closes the workflow, no code runs.
ExecutionTimeOut(w) ==
  /\ Open(w)
  /\ Fault
  /\ CloseAs(w, "timedout")
  /\ UNCHANGED <<schedules, attempts, rows, collected, drained, latest>>

NewPatch ==
  /\ latest < MaxVersion
  /\ latest' = latest + 1
  /\ UNCHANGED <<schedules, wf, tasks, attempts, rows, collected, drained, faults>>

-----------------------------------------------------------------------------
Workflow(w) == Proceed(w) \/ Complete(w) \/ SeeError(w) \/ CloseFailed(w)
Serve(t) == Poll(t) \/ TimeOutLost(t)
Attempt(x) == Perform(x) \/ Report(x) \/ RejectVersion(x) \/ RejectRegion(x) \/ ContextExpired(x)

Next ==
  \/ Upsert
  \/ \E prof \in Profiles, w \in WfId : Fire(prof, w)
  \/ \E t \in tasks : Serve(t)
  \/ \E x \in attempts : Attempt(x) \/ FailAttempt(x) \/ TimeOut(x)
  \/ \E w \in WfId : Workflow(w) \/ Cancel(w) \/ ExecutionTimeOut(w)
  \/ CrashWorker \/ NewPatch

Spec == Init /\ [][Next]_vars

\* Workers poll, activities end (they have deadlines), the server delivers.
Fairness ==
  /\ \A w \in WfId : WF_vars(Workflow(w))
  /\ WF_vars(\E t \in tasks : Serve(t))
  /\ WF_vars(\E x \in attempts : Attempt(x))

FairSpec == Spec /\ Fairness

-----------------------------------------------------------------------------
(* Properties *)

Row == [status : {"running", "completed", "failed"}, version : Version \cup {None}, tiers : Seq(Tier)]

Wf == [prof : Profiles, pc : Nat, run : RunId \cup {None}, tried : Nat,
       version : Version \cup {None}, outcome : {"completed", "failed", "canceled"},
       status : {"open", "completed", "failed", "canceled", "timedout"}]

Answer == RunId \cup Version \cup {None}

Task == [wf : WfId, act : Activity, tier : Tier \cup {None}, n : Nat \ {0},
         st : {"waiting", "running", "ok", "failed"}, res : Answer]

AttemptType == [wf : WfId, act : Activity, tier : Tier \cup {None}, n : Nat \ {0},
                ctx : {"live", "expired"}, did : BOOLEAN, res : Answer]

ASSUME NoneIsNoRecord == None \notin Row /\ None \notin Wf

\* Every variable has its type, the server tracks an activity once, and no
\* activity is attempted more often than its retry policy says.
TypeOK ==
  /\ schedules \subseteq Profiles
  /\ wf \in [WfId -> Wf \cup {None}]
  /\ \A w \in WfId : Exists(w) => wf[w].pc <= Len(Calls(wf[w].prof))
  /\ tasks \subseteq Task
  /\ \A t, u \in tasks : t.wf = u.wf /\ t.act = u.act /\ t.tier = u.tier => t = u
  /\ \A t \in tasks : Open(t.wf) /\ t.n <= MaxAttempts[t.act]
  /\ attempts \subseteq AttemptType
  /\ \A x \in attempts : Exists(x.wf) /\ x.n <= MaxAttempts[x.act]
  /\ rows \in [RunId -> Row \cup {None}]
  /\ collected \in [RunId -> SUBSET Tier] /\ drained \in [RunId -> SUBSET PhaseActivity]
  /\ latest \in 0..MaxVersion /\ faults \in 0..MaxFaults

\* A run is 'completed' only with all its target tiers collected and every later
\* phase run to its end, although the tiers of a pipeline are collected by
\* activities that run, fail and are retried side by side, and answers of earlier
\* attempts may be lost (workflow.go:341-359, 228-286).
CompletedRunCollectedEveryTier ==
  \A i \in RunId : rows[i] # None /\ rows[i].status = "completed" =>
    Elems(rows[i].tiers) \subseteq collected[i] /\ Elems(LatePhases) \subseteq drained[i]

\* Every attempt from phase 1 on, also one the server has forgotten, works for
\* the version its run is pinned to, whatever is released while activities are
\* retried (workflow.go:203-213).
VersionPinned ==
  \A x \in attempts : x.act \in PhaseActivity \ {"Phase0"} =>
    /\ wf[x.wf].version # None
    /\ rows[wf[x.wf].run].version = wf[x.wf].version

\* A workflow that returned leaves the run it knows with a final status, also
\* when it was cancelled, unless FailRun failed in every attempt; a completed
\* workflow leaves it 'completed' (workflow.go:152-189).
WorkflowSettlesItsRun ==
  \A w \in WfId : Closed(w) /\ wf[w].run # None =>
    CASE wf[w].status = "completed" -> rows[wf[w].run].status = "completed"
      [] wf[w].status = "timedout" -> TRUE
      [] OTHER -> \/ rows[wf[w].run].status # "running"
                  \/ wf[w].tried = MaxAttempts["FailRun"]

\* Every workflow ends, whatever fails, and so do the attempts it started.
WorkflowEnds == \A w \in WfId : Open(w) ~> (Closed(w) /\ \A x \in attempts : x.wf # w)
=============================================================================
