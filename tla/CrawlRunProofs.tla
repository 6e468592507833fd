------------------------------ MODULE CrawlRunProofs -------------------------
(***************************************************************************)
(* Theorems about CrawlRun, in five parts: who executes which run, that    *)
(* CrawlRun implements RegionExecutor, what a run carries from one         *)
(* execution to the next, where it is in its list of phases, and what is   *)
(* left of its matches when it is completed.                               *)
(***************************************************************************)
EXTENDS CrawlRun, Integers, TLAPS

-----------------------------------------------------------------------------
(***************************************************************************)
(* What holds of CrawlRun for every set of processes, regions, runs, tiers *)
(* and profiles, every list of phases and any number of faults.            *)
(*                                                                         *)
(* The inductive invariant has three layers.  Typed says that the state is *)
(* well formed; Guarded, that whoever runs holds the lock of the region he *)
(* works in; Homed, that this is the region of his run.  The second layer  *)
(* needs sessions that last as long as their process, the third one needs  *)
(* resumes that do not name another region.                                *)
(***************************************************************************)

PlanStep == [phase : Phase, tier : Tier \cup {None}, opensTier : BOOLEAN]

HasRun(p) == cli[p].pc \notin {"idle", "check", "create"}

\* A process past its set-up has a run with a row, a region, a strategy and,
\* inside a phase, a step of its plan.
WellFormed(p) ==
  /\ cli[p].pos >= 1
  /\ Active(p) => cli[p].prof.region \in Region /\ cli[p].prof.execution \in Execution
  /\ HasRun(p) => cli[p].run \in RunId /\ rows[cli[p].run] \in Row
  /\ cli[p].pc = "phase" => MorePhases(p)

Typed == TypeOK /\ \A p \in Proc : WellFormed(p)

-----------------------------------------------------------------------------
(* Facts about the constants and the plans *)

LEMMA NoneFresh == None \notin Proc /\ None \notin Region /\ None \notin RunId
  BY ConstantsAssumption DEF ConstantsAssumption

LEMMA PhaseFacts ==
  /\ 0 \in Phase /\ 1 \in Phase
  /\ \A n \in 1..Len(PerTierPhaseIDs) : PerTierPhaseIDs[n] \in Phase
  /\ Len(PerTierPhaseIDs) \in Nat \ {0}
  /\ Len(PhaseOrder) \in Nat
<1>1. PhaseOrder[1] = 0 /\ PhaseOrder[2] = 1 /\ Len(PhaseOrder) >= 2 /\ Len(PhaseOrder) \in Nat
  BY ConstantsAssumption DEF ConstantsAssumption
<1>2. 1 \in 1..Len(PhaseOrder) /\ 2 \in 1..Len(PhaseOrder)
  BY <1>1
<1>3. PerTierPhaseIDs \in Seq(Phase) /\ PerTierPhaseIDs # <<>>
  BY ConstantsAssumption DEF ConstantsAssumption, Phase
<1>4. Len(PerTierPhaseIDs) \in Nat \ {0} /\ \A n \in 1..Len(PerTierPhaseIDs) : PerTierPhaseIDs[n] \in Phase
  BY <1>3
<1> QED
  BY <1>1, <1>2, <1>4 DEF Phase

\* Cutting 0..w*l-1 into l pieces of w: the piece and the place in it.
LEMMA Pieces ==
  ASSUME NEW w \in Nat \ {0}, NEW l \in Nat, NEW a \in Nat, a < w * l
  PROVE  a \div w \in 0..(l - 1) /\ a % w \in 0..(w - 1)
<1> DEFINE q == a \div w
           r == a % w
<1>1. q \in Int /\ r \in 0..(w - 1) /\ a = w * q + r
  OBVIOUS
<1> HIDE DEF q, r
<1>2. q >= 0
  <2> SUFFICES ASSUME q <= -1 PROVE FALSE
    BY <1>1
  <2>1. w * q <= w * (-1)
    BY <1>1
  <2> QED
    BY <2>1, <1>1
<1>3. q <= l - 1
  <2> SUFFICES ASSUME q >= l PROVE FALSE
    BY <1>1
  <2>1. w * q >= w * l
    BY <1>1
  <2> QED
    BY <2>1, <1>1
<1> QED
  BY <1>1, <1>2, <1>3 DEF q, r

LEMMA PlanType ==
  ASSUME NEW prof \in CliProfile
  PROVE  Plan(prof) \in Seq(PlanStep)
<1>1. SequentialPlan \in Seq(PlanStep)
  <2>1. \A n \in 1..Len(PhaseOrder) : PhaseStep(PhaseOrder[n], None) \in PlanStep
    BY DEF PhaseStep, PlanStep, Phase
  <2> QED
    BY <2>1, PhaseFacts DEF SequentialPlan
<1>2. ASSUME NEW tiers \in Seq(Tier)
      PROVE  PipelinePlan(tiers) \in Seq(PlanStep)
  <2> DEFINE w == 1 + Len(PerTierPhaseIDs)
             len == 2 + w * Len(tiers)
             plan == PipelinePlan(tiers)
  <2>1. w \in Nat \ {0} /\ len \in Nat
    BY PhaseFacts
  <2>2. \A n \in 1..2 : n <= len => PhaseStep(PhaseOrder[n], None) \in PlanStep
    <3>1. \A n \in 1..2 : PhaseOrder[n] \in Phase
      BY PhaseFacts, ConstantsAssumption DEF ConstantsAssumption, Phase
    <3> QED
      BY <3>1 DEF PhaseStep, PlanStep
  <2>3. ASSUME NEW n \in 3..len
        PROVE  /\ tiers[((n - 3) \div w) + 1] \in Tier
               /\ (n - 3) % w # 0 => PerTierPhaseIDs[(n - 3) % w] \in Phase
    <3>1. n - 3 \in Nat /\ Len(tiers) \in Nat /\ w \in Nat \ {0} /\ n - 3 < w * Len(tiers)
      BY <2>1
    <3> HIDE DEF w
    <3>2. (n - 3) \div w \in 0..(Len(tiers) - 1) /\ (n - 3) % w \in 0..(w - 1)
      BY <3>1, Pieces
    <3>3. ((n - 3) \div w) + 1 \in 1..Len(tiers)
      BY <3>2
    <3>4. (n - 3) % w # 0 => (n - 3) % w \in 1..Len(PerTierPhaseIDs)
      BY <3>2, PhaseFacts DEF w
    <3> QED
      BY <3>3, <3>4, PhaseFacts
  <2>4. PerTierPhaseIDs[1] \in Phase
    BY PhaseFacts
  <2>5. \A n \in 1..len :
          (IF n <= 2 THEN PhaseStep(PhaseOrder[n], None)
           ELSE IF (n - 3) % w = 0 THEN TierStep(tiers[((n - 3) \div w) + 1])
           ELSE PhaseStep(PerTierPhaseIDs[(n - 3) % w], tiers[((n - 3) \div w) + 1])) \in PlanStep
    BY <2>1, <2>2, <2>3, <2>4 DEF PhaseStep, TierStep, PlanStep
  <2> QED
    BY <2>1, <2>5 DEF PipelinePlan
<1> QED
  BY <1>1, <1>2 DEF Plan, CliProfile

-----------------------------------------------------------------------------
(* Typed is inductive *)

LEMMA IdleCliType == IdleCli \in Cli /\ IdleCli.pc = "idle" /\ IdleCli.pos = 1
  BY DEF IdleCli, Cli, NoProfile, CliProfile, Setup, Executing

LEMMA StepType ==
  ASSUME Typed, NEW p \in Proc, Active(p), MorePhases(p)
  PROVE  Step(p) \in PlanStep
<1>1. cli[p].prof \in CliProfile /\ cli[p].pos \in Nat /\ cli[p].pos >= 1
  BY DEF Typed, TypeOK, Cli, WellFormed
<1>2. Steps(p) \in Seq(PlanStep)
  BY <1>1, PlanType DEF Steps
<1>3. cli[p].pos \in 1..Len(Steps(p))
  BY <1>1, <1>2 DEF MorePhases
<1> QED
  BY <1>2, <1>3 DEF Step

LEMMA LeaveType ==
  ASSUME Typed, NEW p \in Proc, Leave(p)
  PROVE  /\ cli' \in [Proc -> Cli]
         /\ lock' \in [Region -> Proc \cup {None}]
         /\ rows' = rows => \A q \in Proc : WellFormed(q)'
<1>1. cli' \in [Proc -> Cli] /\ cli'[p] = IdleCli /\ \A q \in Proc \ {p} : cli'[q] = cli[q]
  BY IdleCliType DEF Typed, TypeOK, Leave
<1>2. lock' \in [Region -> Proc \cup {None}]
  BY DEF Typed, TypeOK, Leave
<1>3. ASSUME rows' = rows, NEW q \in Proc PROVE WellFormed(q)'
  <2>1. CASE q = p
    BY <1>1, <2>1, IdleCliType DEF WellFormed, Active, HasRun
  <2>2. CASE q # p
    BY <1>1, <1>3, <2>2 DEF Typed, WellFormed, Active, HasRun, Exists, MorePhases, Steps
  <2> QED
    BY <2>1, <2>2
<1> QED
  BY <1>1, <1>2, <1>3

\* A statement on the row of a well-formed process keeps the table typed, and
\* every row that was there.
RowKept(i) == rows[i] \in Row => rows'[i] \in Row

LEMMA CheckpointType ==
  ASSUME Typed, NEW p \in Proc, HasRun(p),
         NEW k \in Phase, NEW t \in Tier \cup {None}, Checkpoint(p, k, t)
  PROVE  rows' \in [RunId -> Row \cup {None}] /\ \A i \in RunId : RowKept(i)
<1>1. cli[p].run \in RunId /\ rows[cli[p].run] \in Row
  BY DEF Typed, WellFormed
<1>2. \A row \in Row : [row EXCEPT !.phase = k, !.tier = t] \in Row
  BY DEF Row
<1> QED
  BY <1>1, <1>2 DEF Checkpoint, Typed, TypeOK, RowKept

LEMMA StatusType ==
  ASSUME Typed, NEW i \in RunId, rows[i] \in Row, NEW s \in {"running", "failed", "completed"},
         rows' = [rows EXCEPT ![i].status = s]
  PROVE  rows' \in [RunId -> Row \cup {None}] /\ \A j \in RunId : RowKept(j)
<1>1. \A row \in Row : [row EXCEPT !.status = s] \in Row
  BY DEF Row
<1> QED
  BY <1>1 DEF Typed, TypeOK, RowKept

\* A step of process p keeps the others well formed when it keeps the rows.
LEMMA OthersWellFormed ==
  ASSUME Typed, NEW p \in Proc, \A i \in RunId : RowKept(i),
         \A q \in Proc \ {p} : cli'[q] = cli[q]
  PROVE  \A q \in Proc \ {p} : WellFormed(q)'
BY DEF Typed, WellFormed, Active, HasRun, MorePhases, Steps, RowKept

\* Advancing, and a change of program counter that stays out of "phase".
LEMMA MoveType ==
  ASSUME Typed, NEW p \in Proc, \A i \in RunId : RowKept(i),
         NEW c \in Cli, cli' = [cli EXCEPT ![p] = c],
         c.pos >= 1, c.pc # "phase" \/ c.pos <= Len(Plan(c.prof)),
         c.pc # "idle" => c.prof.region \in Region /\ c.prof.execution \in Execution,
         c.pc \notin {"idle", "check", "create"} => c.run \in RunId /\ rows'[c.run] \in Row
  PROVE  cli' \in [Proc -> Cli] /\ \A q \in Proc : WellFormed(q)'
<1>1. cli' \in [Proc -> Cli] /\ cli'[p] = c /\ \A q \in Proc \ {p} : cli'[q] = cli[q]
  BY DEF Typed, TypeOK
<1>2. \A q \in Proc \ {p} : WellFormed(q)'
  BY <1>1, OthersWellFormed
<1>3. WellFormed(p)'
  BY <1>1 DEF WellFormed, Active, HasRun, MorePhases, Steps
<1> QED
  BY <1>1, <1>2, <1>3

LEMMA TypedSetUp == ASSUME Typed, NEW p \in Proc, SetUp(p) PROVE Typed'
<1> USE DEF Typed
<1>0. cli[p] \in Cli /\ WellFormed(p)
  BY DEF TypeOK
<1>1. CASE ReadActive(p)
  <2>1. CASE Leave(p)
    BY <1>1, <2>1, LeaveType DEF ReadActive, TypeOK
  <2>2. CASE cli' = [cli EXCEPT ![p].pc = "create"] /\ UNCHANGED lock
    <3> DEFINE c == [cli[p] EXCEPT !.pc = "create"]
    <3>1. c \in Cli /\ c.pos >= 1 /\ c.prof.region \in Region /\ c.prof.execution \in Execution
      BY <1>0, <1>1 DEF Cli, WellFormed, Active, Setup, ReadActive
    <3>2. c.pc = "create" /\ cli' = [cli EXCEPT ![p] = c]
      BY <1>0, <2>2 DEF Cli, TypeOK
    <3>3. \A i \in RunId : RowKept(i)
      BY <1>1 DEF ReadActive, RowKept
    <3> QED
      BY <1>1, <2>2, <3>1, <3>2, <3>3, MoveType DEF ReadActive, TypeOK
  <2> QED
    BY <1>1, <2>1, <2>2 DEF ReadActive
<1>2. CASE Lookup(p)
  <2>1. CASE Leave(p)
    BY <1>2, <2>1, LeaveType DEF Lookup, TypeOK
  <2>2. CASE ~Leave(p)
    <3> DEFINE row == rows[cli[p].run]
               c == cli'[p]
    <3>1. row \in Row /\ cli[p].run \in RunId
      BY <1>0, <1>2 DEF WellFormed, HasRun, Lookup
    <3>2. DoneBefore(row.phase) \in SUBSET Phase
      BY DEF DoneBefore, Phase
    <3> DEFINE pc == IF row.status = "failed" THEN "reactivate"
                     ELSE IF Rewinds(row) THEN "reset" ELSE "plan"
               done == IF Rewinds(row) THEN {} ELSE DoneBefore(row.phase)
               prof == MergeFlags(row, cli[p].prof)
    <3>a. /\ prof \in CliProfile
          /\ prof.region = cli[p].prof.region /\ prof.execution = cli[p].prof.execution
      BY <1>0, <3>1 DEF MergeFlags, Cli, CliProfile, Row, Given
    <3>b. pc \in {"reactivate", "reset", "plan"} /\ done \in SUBSET Phase
      BY <3>2
    <3>c. c = [cli[p] EXCEPT !.pc = pc, !.done = done, !.prof = prof]
      BY <1>2, <2>2 DEF Lookup, TypeOK
    <3>3. /\ c \in Cli /\ c.pos = cli[p].pos /\ c.run = cli[p].run /\ c.prof = prof
          /\ c.pc \in {"reactivate", "reset", "plan"}
      <4> HIDE DEF done, pc, prof
      <4> QED
        BY <1>0, <3>a, <3>b, <3>c DEF Cli, Setup, Executing
    <3>4. cli' = [cli EXCEPT ![p] = c]
      BY <1>2, <2>2 DEF Lookup, TypeOK
    <3>5. \A i \in RunId : RowKept(i)
      BY <1>2 DEF Lookup, RowKept
    <3>6. lock' = lock /\ UNCHANGED <<rows, latest, snaps, collected, backlog, faults>>
      BY <1>2, <2>2 DEF Lookup
    <3>7. c.prof.region \in Region /\ c.prof.execution \in Execution /\ c.pos >= 1
      BY <1>0, <1>2, <3>3, <3>a DEF WellFormed, Active, Lookup
    <3> HIDE DEF c, row, prof
    <3> QED
      BY <3>1, <3>3, <3>4, <3>5, <3>6, <3>7, MoveType DEF TypeOK, row
  <2> QED
    BY <2>1, <2>2
<1>3. CASE Reactivate(p)
  <2> DEFINE c == cli'[p]
  <2>1. /\ c \in Cli /\ c.pos >= 1 /\ c.prof = cli[p].prof /\ c.run = cli[p].run
        /\ c.pc \in {"reset", "plan"} /\ cli' = [cli EXCEPT ![p] = c]
    BY <1>0, <1>3 DEF Reactivate, Cli, Setup, Executing, TypeOK, WellFormed
  <2>2. cli[p].run \in RunId /\ rows[cli[p].run] \in Row /\ cli[p].prof.region \in Region /\ cli[p].prof.execution \in Execution
    BY <1>0, <1>3 DEF WellFormed, HasRun, Active, Reactivate
  <2>3. rows' \in [RunId -> Row \cup {None}] /\ \A i \in RunId : RowKept(i)
    BY <1>3, <2>2, StatusType DEF Reactivate
  <2> HIDE DEF c
  <2> QED
    BY <1>3, <2>1, <2>2, <2>3, MoveType DEF TypeOK, Reactivate, RowKept
<1>4. CASE ResetCheckpoint(p)
  <2> DEFINE c == cli'[p]
  <2>1. /\ c \in Cli /\ c.pos >= 1 /\ c.prof = cli[p].prof /\ c.run = cli[p].run
        /\ c.pc = "purge" /\ cli' = [cli EXCEPT ![p] = c]
    BY <1>0, <1>4 DEF ResetCheckpoint, Cli, Setup, Executing, TypeOK, WellFormed
  <2>2. cli[p].run \in RunId /\ rows[cli[p].run] \in Row /\ cli[p].prof.region \in Region /\ cli[p].prof.execution \in Execution
    BY <1>0, <1>4 DEF WellFormed, HasRun, Active, ResetCheckpoint
  <2>3. rows' \in [RunId -> Row \cup {None}] /\ \A i \in RunId : RowKept(i)
    BY <1>4, PhaseFacts, CheckpointType DEF ResetCheckpoint, HasRun
  <2> HIDE DEF c
  <2> QED
    BY <1>4, <2>1, <2>2, <2>3, MoveType DEF TypeOK, ResetCheckpoint, RowKept
<1>5. CASE PurgeSnapshots(p)
  <2> DEFINE c == cli'[p]
  <2>1. /\ c \in Cli /\ c.pos >= 1 /\ c.prof = cli[p].prof /\ c.run = cli[p].run
        /\ c.pc = "plan" /\ cli' = [cli EXCEPT ![p] = c]
    BY <1>0, <1>5 DEF PurgeSnapshots, Cli, Setup, Executing, TypeOK, WellFormed
  <2>2. cli[p].run \in RunId /\ rows[cli[p].run] \in Row /\ cli[p].prof.region \in Region /\ cli[p].prof.execution \in Execution
    BY <1>0, <1>5 DEF WellFormed, HasRun, Active, PurgeSnapshots
  <2>3. rows' = rows /\ \A i \in RunId : RowKept(i)
    BY <1>5 DEF PurgeSnapshots, RowKept
  <2> HIDE DEF c
  <2>4. cli' \in [Proc -> Cli] /\ \A q \in Proc : WellFormed(q)'
    BY <2>1, <2>2, <2>3, MoveType
  <2> QED
    BY <1>5, <2>2, <2>3, <2>4 DEF TypeOK, PurgeSnapshots
<1>6. ASSUME NEW i \in RunId, Create(p, i) PROVE Typed'
  <2> DEFINE c == cli'[p]
  <2>1. /\ c \in Cli /\ c.pos >= 1 /\ c.prof = cli[p].prof /\ c.run = i
        /\ c.pc = "plan" /\ cli' = [cli EXCEPT ![p] = c]
    BY <1>0, <1>6 DEF Create, Cli, Setup, Executing, TypeOK, WellFormed
  <2>2. cli[p].prof.region \in Region /\ cli[p].prof.execution \in Execution
    BY <1>0, <1>6 DEF WellFormed, Active, Create
  <2>3. [status |-> "running", region |-> cli[p].prof.region,
         execution |-> cli[p].prof.execution, tiers |-> cli[p].prof.tiers,
         version |-> cli[p].prof.version, phase |-> 0, tier |-> None] \in Row
    BY <1>0, <2>2, PhaseFacts DEF Row, Cli, CliProfile
  <2>4. rows' \in [RunId -> Row \cup {None}] /\ rows'[i] \in Row /\ \A j \in RunId : RowKept(j)
    BY <1>6, <2>3 DEF Create, RowKept, TypeOK
  <2> HIDE DEF c
  <2>5. cli' \in [Proc -> Cli] /\ \A q \in Proc : WellFormed(q)'
    BY <2>1, <2>2, <2>4, MoveType
  <2> QED
    BY <1>6, <2>4, <2>5 DEF TypeOK, Create
<1> QED
  BY <1>1, <1>2, <1>3, <1>4, <1>5, <1>6 DEF SetUp

\* What MoveType asks, for a process that already has its run.
LEMMA ExecType ==
  ASSUME Typed, NEW p \in Proc, HasRun(p), \A i \in RunId : RowKept(i),
         NEW c \in Cli, cli' = [cli EXCEPT ![p] = c],
         c.run = cli[p].run, c.pos >= 1, c.prof.region = cli[p].prof.region,
         c.prof.execution = cli[p].prof.execution,
         c.pc # "phase" \/ c.pos <= Len(Plan(c.prof))
  PROVE  cli' \in [Proc -> Cli] /\ \A q \in Proc : WellFormed(q)'
<1>1. /\ cli[p].run \in RunId /\ rows'[cli[p].run] \in Row
      /\ cli[p].prof.region \in Region /\ cli[p].prof.execution \in Execution
  BY DEF Typed, WellFormed, HasRun, Active, RowKept
<1> QED
  BY <1>1, MoveType

LEMMA AdvanceType ==
  ASSUME Typed, NEW p \in Proc, HasRun(p), \A i \in RunId : RowKept(i),
         cli' = Advance(p)
  PROVE  cli' \in [Proc -> Cli] /\ \A q \in Proc : WellFormed(q)'
<1> DEFINE c == [cli[p] EXCEPT !.pc = "plan", !.pos = @ + 1]
<1>1. cli[p] \in Cli /\ cli[p].pos >= 1
  BY DEF Typed, TypeOK, WellFormed
<1>a. cli[p].pos + 1 \in Nat /\ cli[p].pos + 1 >= 1 /\ "plan" \in {"idle"} \cup Setup \cup Executing
  BY <1>1 DEF Cli, Executing
<1>2. c \in Cli /\ c.run = cli[p].run /\ c.pos >= 1 /\ c.prof = cli[p].prof /\ c.pc = "plan"
  BY <1>1, <1>a DEF Cli
<1>3. cli' = [cli EXCEPT ![p] = c]
  BY DEF Advance, Typed, TypeOK
<1> HIDE DEF c
<1> QED
  BY <1>2, <1>3, ExecType

LEMMA BatchTyped ==
  ASSUME Typed, NEW p \in Proc, HasRun(p), NEW k \in DrainPhase
  PROVE  Batch(p, k) \in BatchType
BY DEF Typed, TypeOK, WellFormed, HasRun, Active, Batch, BatchType, Cli, CliProfile

LEMMA TypedExecute == ASSUME Typed, NEW p \in Proc, Execute(p) PROVE Typed'
<1> USE DEF Typed
<1>0. cli[p] \in Cli /\ WellFormed(p) /\ HasRun(p) /\ Active(p)
  BY DEF TypeOK, Execute, SkipDone, OpenTier, SkipIdle, EnterPhase, Finish, MustRun,
         SyncVersion, SyncTier, FinishRankSync, CollectMatches, FinishCollect,
         ProcessBatch, FinishDrain, InPhase, HasRun, Active
<1>a. rows' = rows => \A i \in RunId : RowKept(i)
  BY DEF RowKept
<1>1. CASE SkipDone(p)
  BY <1>0, <1>1, <1>a, AdvanceType DEF SkipDone, TypeOK
<1>2. CASE OpenTier(p)
  <2>1. Step(p) \in PlanStep
    BY <1>0, <1>2, StepType DEF OpenTier
  <2>2. rows' \in [RunId -> Row \cup {None}] /\ \A i \in RunId : RowKept(i)
    BY <1>0, <1>2, <2>1, CheckpointType DEF OpenTier, PlanStep
  <2> QED
    BY <1>0, <1>2, <2>2, AdvanceType DEF OpenTier, TypeOK
<1>3. CASE SkipIdle(p)
  BY <1>0, <1>3, <1>a, AdvanceType DEF SkipIdle, TypeOK
<1>4. CASE EnterPhase(p)
  <2> DEFINE c == [cli[p] EXCEPT !.pc = "phase", !.synced = 0]
  <2>1. Step(p) \in PlanStep /\ MorePhases(p)
    BY <1>0, <1>4, StepType DEF EnterPhase, MustRun
  <2>2. rows' \in [RunId -> Row \cup {None}] /\ \A i \in RunId : RowKept(i)
    BY <1>0, <1>4, <2>1, CheckpointType DEF EnterPhase, PlanStep
  <2>3. /\ c \in Cli /\ c.run = cli[p].run /\ c.pos >= 1 /\ c.prof = cli[p].prof
        /\ c.pos = cli[p].pos
    BY <1>0 DEF Cli, Executing, WellFormed
  <2>4. cli' = [cli EXCEPT ![p] = c]
    BY <1>4 DEF EnterPhase, TypeOK
  <2>5. c.pos <= Len(Plan(c.prof))
    BY <2>1, <2>3 DEF MorePhases, Steps
  <2> HIDE DEF c
  <2>6. cli' \in [Proc -> Cli] /\ \A q \in Proc : WellFormed(q)'
    BY <1>0, <2>2, <2>3, <2>4, <2>5, ExecType
  <2> QED
    BY <1>4, <2>2, <2>6 DEF EnterPhase, TypeOK
<1>5. CASE Finish(p)
  <2> DEFINE c == [cli[p] EXCEPT !.pc = "close", !.out = "ok"]
  <2>1. /\ c \in Cli /\ c.run = cli[p].run /\ c.pos >= 1 /\ c.prof = cli[p].prof
        /\ c.pc = "close"
    BY <1>0 DEF Cli, Executing, WellFormed
  <2>2. cli' = [cli EXCEPT ![p] = c] /\ \A i \in RunId : RowKept(i)
    BY <1>5, <1>a DEF Finish, TypeOK
  <2> HIDE DEF c
  <2>3. cli' \in [Proc -> Cli] /\ \A q \in Proc : WellFormed(q)'
    BY <1>0, <2>1, <2>2, ExecType
  <2> QED
    BY <1>5, <2>3 DEF Finish, TypeOK
<1>6. CASE SyncVersion(p)
  <2> DEFINE pin == Given(cli[p].prof.version, latest)
             c == [cli[p] EXCEPT !.pc = "plan", !.pos = @ + 1, !.prof.version = pin]
  <2>1. pin \in Version \cup {None} /\ (cli[p].prof.version = None => pin \in Version)
    BY <1>0 DEF Given, TypeOK, Cli, CliProfile
  <2>2. cli[p].run \in RunId /\ rows[cli[p].run] \in Row
    BY <1>0 DEF WellFormed
  <2>3. [rows[cli[p].run] EXCEPT !.version = pin] \in Row
    BY <2>1, <2>2 DEF Row
  <2>4. rows' \in [RunId -> Row \cup {None}] /\ \A i \in RunId : RowKept(i)
    BY <1>6, <2>2, <2>3 DEF SyncVersion, TypeOK, RowKept
  <2>5. /\ c \in Cli /\ c.run = cli[p].run /\ c.pos >= 1 /\ c.pc = "plan"
        /\ c.prof.region = cli[p].prof.region /\ c.prof.execution = cli[p].prof.execution
    <3> HIDE DEF pin
    <3>1. cli[p].pos + 1 \in Nat /\ cli[p].pos + 1 >= 1 /\ "plan" \in {"idle"} \cup Setup \cup Executing
      BY <1>0 DEF Cli, Executing, WellFormed
    <3>2. /\ [cli[p].prof EXCEPT !.version = pin] \in CliProfile
          /\ [cli[p].prof EXCEPT !.version = pin].region = cli[p].prof.region
          /\ [cli[p].prof EXCEPT !.version = pin].execution = cli[p].prof.execution
      BY <1>0, <2>1 DEF Cli, CliProfile
    <3> QED
      BY <1>0, <3>1, <3>2 DEF Cli
  <2>6. cli' = [cli EXCEPT ![p] = c]
    BY <1>6 DEF SyncVersion, Advance, TypeOK
  <2> HIDE DEF c, pin
  <2>7. cli' \in [Proc -> Cli] /\ \A q \in Proc : WellFormed(q)'
    BY <1>0, <2>4, <2>5, <2>6, ExecType
  <2> QED
    BY <1>6, <2>4, <2>7 DEF SyncVersion, TypeOK
<1>7. CASE SyncTier(p)
  <2> DEFINE c == [cli[p] EXCEPT !.synced = @ + 1]
             t == cli[p].prof.tiers[cli[p].synced + 1]
  <2>1. t \in Tier
    BY <1>0, <1>7 DEF SyncTier, Cli, CliProfile
  <2>2. rows' \in [RunId -> Row \cup {None}] /\ \A i \in RunId : RowKept(i)
    BY <1>0, <1>7, <2>1, PhaseFacts, CheckpointType DEF SyncTier
  <2>3. /\ c \in Cli /\ c.run = cli[p].run /\ c.pos >= 1 /\ c.prof = cli[p].prof
        /\ c.pos = cli[p].pos
    BY <1>0 DEF Cli, WellFormed
  <2>4. cli' = [cli EXCEPT ![p] = c]
    BY <1>7 DEF SyncTier, TypeOK
  <2>5. c.pos <= Len(Plan(c.prof))
    BY <1>0, <1>7, <2>3 DEF SyncTier, InPhase, WellFormed, MorePhases, Steps
  <2> HIDE DEF c
  <2>6. cli' \in [Proc -> Cli] /\ \A q \in Proc : WellFormed(q)'
    BY <1>0, <2>2, <2>3, <2>4, <2>5, ExecType
  <2>7. snaps' \in [RunId -> 0..2]
    <3>1. \A n \in 0..2 : n # 2 => n + 1 \in 0..2
      OBVIOUS
    <3> QED
      BY <1>7, <3>1 DEF SyncTier, TypeOK
  <2> QED
    BY <1>7, <2>2, <2>6, <2>7 DEF SyncTier, TypeOK
<1>8. CASE FinishRankSync(p)
  BY <1>0, <1>8, <1>a, AdvanceType DEF FinishRankSync, TypeOK
<1>9. CASE CollectMatches(p)
  <2>1. backlog' \subseteq BatchType
    BY <1>0, <1>9, BatchTyped DEF CollectMatches, TypeOK, DrainPhase
  <2> QED
    BY <1>9, <2>1 DEF CollectMatches, TypeOK, WellFormed, Active, HasRun, MorePhases, Steps
<1>10. CASE FinishCollect(p)
  <2>1. Step(p) \in PlanStep
    BY <1>0, <1>10, StepType DEF FinishCollect, InPhase, WellFormed
  <2>2. collected' \in [RunId -> SUBSET Tier]
    <3> DEFINE gain == IF Step(p).tier = None THEN Range(cli[p].prof.tiers) ELSE {Step(p).tier}
    <3>1. Range(cli[p].prof.tiers) \subseteq Tier
      BY <1>0 DEF Range, Cli, CliProfile
    <3>2. gain \subseteq Tier
      BY <2>1, <3>1 DEF PlanStep
    <3>3. collected' = [collected EXCEPT ![cli[p].run] = @ \cup gain]
      BY <1>10 DEF FinishCollect
    <3> HIDE DEF gain
    <3> QED
      BY <3>2, <3>3 DEF TypeOK
  <2>3. cli' \in [Proc -> Cli] /\ \A q \in Proc : WellFormed(q)'
    BY <1>0, <1>10, <1>a, AdvanceType DEF FinishCollect
  <2> QED
    BY <1>10, <2>2, <2>3 DEF FinishCollect, TypeOK
<1>11. ASSUME NEW k \in DrainPhase, ProcessBatch(p, k) PROVE Typed'
  <2>1. PICK b \in Pending(p, k), next \in NextPhases(k), rest \in {{}, {k}} :
          backlog' = (backlog \ {b}) \cup {[b EXCEPT !.phase = n] : n \in (next \cup rest) \cap Phase}
    BY <1>11 DEF ProcessBatch
  <2>2. next \cup rest \subseteq DrainPhase
    BY DEF NextPhases, DrainPhase
  <2>3. b \in BatchType
    BY DEF Pending, TypeOK
  <2>4. backlog' \subseteq BatchType
    BY <2>1, <2>2, <2>3 DEF BatchType, TypeOK
  <2> QED
    BY <1>11, <2>4 DEF ProcessBatch, TypeOK, WellFormed, Active, HasRun, MorePhases, Steps
<1>12. ASSUME NEW k \in DrainPhase, FinishDrain(p, k) PROVE Typed'
  BY <1>0, <1>12, <1>a, AdvanceType DEF FinishDrain, TypeOK
<1> QED
  BY <1>1, <1>2, <1>3, <1>4, <1>5, <1>6, <1>7, <1>8, <1>9, <1>10, <1>11, <1>12 DEF Execute

LEMMA StartType ==
  ASSUME Typed, NEW p \in Proc, NEW c \in Cli, cli' = [cli EXCEPT ![p] = c],
         NEW r \in Region, lock' = [lock EXCEPT ![r] = p],
         UNCHANGED <<rows, latest, snaps, collected, backlog, faults>>,
         c.pos >= 1, c.pc # "phase", c.prof.region = r, c.prof.execution \in Execution,
         c.pc # "check" => c.run \in RunId /\ rows[c.run] \in Row
  PROVE  Typed'
<1>1. cli' \in [Proc -> Cli] /\ \A q \in Proc : WellFormed(q)'
  BY MoveType DEF RowKept
<1> QED
  BY <1>1 DEF Typed, TypeOK

LEMMA TypedStart == ASSUME Typed, NEW p \in Proc, Start(p) PROVE Typed'
<1> USE DEF Typed
<1>0. cli[p] \in Cli /\ WellFormed(p)
  BY DEF TypeOK
<1>1. ASSUME NEW prof \in Profiles, StartNew(p, prof) PROVE Typed'
  <2> DEFINE c == [cli[p] EXCEPT !.pc = "check", !.prof = prof]
  <2>1. prof \in CliProfile /\ prof.region \in Region /\ prof.execution \in Execution
    BY ConstantsAssumption DEF ConstantsAssumption, CliProfile
  <2>2. c \in Cli /\ c.pos >= 1 /\ c.pc = "check" /\ c.prof = prof
    BY <1>0, <2>1 DEF Cli, Setup, WellFormed
  <2>3. cli' = [cli EXCEPT ![p] = c]
    BY <1>1 DEF StartNew, TypeOK
  <2> HIDE DEF c
  <2> QED
    BY <1>1, <2>1, <2>2, <2>3, StartType DEF StartNew
<1>2. ASSUME NEW i \in RunId, NEW flags \in ResumeFlags, StartResume(p, i, flags) PROVE Typed'
  <2> DEFINE prof == [flags EXCEPT !.region = Given(@, rows[i].region),
                                   !.execution = Given(@, rows[i].execution)]
             c == [cli[p] EXCEPT !.pc = "lookup", !.run = i, !.prof = prof]
  <2>1. rows[i] \in Row
    BY <1>2 DEF StartResume, Exists, TypeOK
  <2>2. prof \in CliProfile /\ prof.region \in Region /\ prof.execution \in Execution
    <3>1. flags \in CliProfile
      BY ConstantsAssumption DEF ConstantsAssumption, CliProfile
    <3>2. Given(flags.region, rows[i].region) \in Region /\ Given(flags.execution, rows[i].execution) \in Execution
      BY <2>1, <3>1 DEF Given, Row, CliProfile
    <3> QED
      BY <3>1, <3>2 DEF CliProfile
  <2>3. lock' = [lock EXCEPT ![prof.region] = p] /\ cli' = [cli EXCEPT ![p].pc = "lookup", ![p].run = i, ![p].prof = prof]
    BY <1>2 DEF StartResume
  <2> HIDE DEF prof
  <2>4. c \in Cli /\ c.pos >= 1 /\ c.pc = "lookup" /\ c.prof = prof /\ c.run = i
    BY <1>0, <2>2 DEF Cli, Setup, WellFormed
  <2>5. cli' = [cli EXCEPT ![p] = c]
    BY <2>3 DEF TypeOK
  <2> HIDE DEF c
  <2> QED
    BY <1>2, <2>1, <2>2, <2>3, <2>4, <2>5, StartType DEF StartResume
<1> QED
  BY <1>1, <1>2 DEF Start

LEMMA FaultType == ASSUME Typed, Fault PROVE faults' \in 0..MaxFaults
BY ConstantsAssumption DEF ConstantsAssumption, Typed, TypeOK, Fault

LEMMA TypedStop == ASSUME Typed, NEW p \in Proc, Stop(p) \/ CloseLost(p) \/ Crash(p) \/ AbortSetup(p)
                   PROVE Typed'
<1> USE DEF Typed
<1>1. CASE Interrupted(p)
  <2> DEFINE c == [cli[p] EXCEPT !.pc = "close", !.out = "canceled"]
  <2>1. cli[p] \in Cli /\ WellFormed(p) /\ HasRun(p)
    BY <1>1 DEF TypeOK, Interrupted, HasRun
  <2>2. /\ c \in Cli /\ c.run = cli[p].run /\ c.pos >= 1 /\ c.prof = cli[p].prof
        /\ c.pc = "close"
    BY <2>1 DEF Cli, Executing, WellFormed
  <2>3. cli' = [cli EXCEPT ![p] = c] /\ \A i \in RunId : RowKept(i)
    BY <1>1 DEF Interrupted, TypeOK, RowKept
  <2> HIDE DEF c
  <2>4. cli' \in [Proc -> Cli] /\ \A q \in Proc : WellFormed(q)'
    BY <2>1, <2>2, <2>3, ExecType
  <2> QED
    BY <1>1, <2>4 DEF Interrupted, TypeOK
<1>2. CASE Close(p)
  <2>1. cli[p].run \in RunId /\ rows[cli[p].run] \in Row
    BY <1>2 DEF Close, WellFormed, HasRun
  <2>2. rows' \in [RunId -> Row \cup {None}] /\ \A i \in RunId : RowKept(i)
    <3>1. CASE cli[p].out = "ok"
      BY <1>2, <2>1, <3>1, StatusType DEF Close
    <3>2. CASE cli[p].out = "error"
      BY <1>2, <2>1, <3>2, StatusType DEF Close
    <3>3. CASE cli[p].out \notin {"ok", "error"}
      BY <1>2, <3>3 DEF Close, TypeOK, RowKept
    <3> QED
      BY <3>1, <3>2, <3>3
  <2>3. /\ cli' \in [Proc -> Cli] /\ cli'[p] = IdleCli /\ \A q \in Proc \ {p} : cli'[q] = cli[q]
        /\ lock' \in [Region -> Proc \cup {None}]
    BY <1>2, IdleCliType DEF Close, Leave, TypeOK
  <2>4. \A q \in Proc \ {p} : WellFormed(q)'
    BY <2>2, <2>3, OthersWellFormed
  <2>5. WellFormed(p)'
    BY <2>3, IdleCliType DEF WellFormed, Active, HasRun
  <2> QED
    BY <1>2, <2>2, <2>3, <2>4, <2>5 DEF Close, TypeOK
<1>3. CASE CloseLost(p) \/ Crash(p) \/ AbortSetup(p)
  <2>1. Leave(p) /\ Fault /\ UNCHANGED <<rows, latest, snaps, collected, backlog>>
    BY <1>3 DEF CloseLost, Crash, AbortSetup
  <2> QED
    BY <2>1, LeaveType, FaultType DEF TypeOK
<1> QED
  BY <1>1, <1>2, <1>3 DEF Stop

LEMMA TypedDisturb == ASSUME Typed, NEW p \in Proc, PhaseError(p) \/ Signal(p) \/ LoseSession(p)
                      PROVE Typed'
<1> USE DEF Typed
<1>1. CASE PhaseError(p)
  <2> DEFINE c == [cli[p] EXCEPT !.pc = "close", !.out = "error"]
  <2>1. cli[p] \in Cli /\ WellFormed(p) /\ HasRun(p) /\ faults' \in 0..MaxFaults
    BY <1>1, FaultType DEF TypeOK, PhaseError, HasRun
  <2>2. /\ c \in Cli /\ c.run = cli[p].run /\ c.pos >= 1 /\ c.prof = cli[p].prof
        /\ c.pc = "close"
    BY <2>1 DEF Cli, Executing, WellFormed
  <2>3. cli' = [cli EXCEPT ![p] = c] /\ \A i \in RunId : RowKept(i)
    BY <1>1 DEF PhaseError, TypeOK, RowKept
  <2> HIDE DEF c
  <2>4. cli' \in [Proc -> Cli] /\ \A q \in Proc : WellFormed(q)'
    BY <2>1, <2>2, <2>3, ExecType
  <2> QED
    BY <1>1, <2>1, <2>4 DEF PhaseError, TypeOK
<1>2. CASE Signal(p)
  <2> DEFINE c == [cli[p] EXCEPT !.sig = TRUE]
  <2>1. cli[p] \in Cli /\ WellFormed(p) /\ HasRun(p) /\ faults' \in 0..MaxFaults
    BY <1>2, FaultType DEF TypeOK, Signal, HasRun
  <2>2. /\ c \in Cli /\ c.run = cli[p].run /\ c.pos >= 1 /\ c.prof = cli[p].prof
        /\ c.pc = cli[p].pc /\ c.pos = cli[p].pos
    BY <2>1 DEF Cli, WellFormed
  <2>3. cli' = [cli EXCEPT ![p] = c] /\ \A i \in RunId : RowKept(i)
    BY <1>2 DEF Signal, TypeOK, RowKept
  <2>4. c.pc = "phase" => c.pos <= Len(Plan(c.prof))
    BY <2>1, <2>2 DEF WellFormed, MorePhases, Steps
  <2> HIDE DEF c
  <2>5. cli' \in [Proc -> Cli] /\ \A q \in Proc : WellFormed(q)'
    BY <2>1, <2>2, <2>3, <2>4, ExecType
  <2> QED
    BY <1>2, <2>1, <2>5 DEF Signal, TypeOK
<1>3. CASE LoseSession(p)
  <2>1. lock' \in [Region -> Proc \cup {None}] /\ faults' \in 0..MaxFaults
    BY <1>3, FaultType DEF LoseSession, TypeOK
  <2> QED
    BY <1>3, <2>1 DEF LoseSession, TypeOK, WellFormed, Active, HasRun, MorePhases, Steps
<1> QED
  BY <1>1, <1>2, <1>3

LEMMA TypedStep == Typed /\ [Next]_vars => Typed'
<1> SUFFICES ASSUME Typed, [Next]_vars PROVE Typed'
  OBVIOUS
<1>1. ASSUME NEW i \in RunId, Cancel(i) PROVE Typed'
  <2>1. rows[i] \in Row /\ faults' \in 0..MaxFaults
    BY <1>1, FaultType DEF Cancel, Exists, Typed, TypeOK
  <2>2. rows' \in [RunId -> Row \cup {None}] /\ \A j \in RunId : RowKept(j)
    BY <1>1, <2>1, StatusType DEF Cancel
  <2> QED
    BY <1>1, <2>1, <2>2
    DEF Cancel, Typed, TypeOK, WellFormed, Active, HasRun, MorePhases, Steps, RowKept
<1>2. CASE NewPatch
  <2>1. latest' \in Version
    BY <1>2, ConstantsAssumption DEF ConstantsAssumption, NewPatch, Typed, TypeOK, Version
  <2> QED
    BY <1>2, <2>1 DEF NewPatch, Typed, TypeOK, WellFormed, Active, HasRun, MorePhases, Steps
<1>3. CASE UNCHANGED vars
  BY <1>3 DEF vars, Typed, TypeOK, WellFormed, Active, HasRun, MorePhases, Steps
<1> QED
  BY <1>1, <1>2, <1>3, TypedSetUp, TypedExecute, TypedStart, TypedStop, TypedDisturb
  DEF Next, Work, Disturb

LEMMA TypedInit == Init => Typed
BY IdleCliType, ConstantsAssumption
DEF ConstantsAssumption, Init, Typed, TypeOK, WellFormed, Active, HasRun, Version

\* Every reachable state is well formed: the rows stay rows, whatever plan the
\* lists of phases make a process follow.
THEOREM TypeCorrect == Spec => []TypeOK
<1>1. Typed => TypeOK
  BY DEF Typed
<1> QED
  BY TypedInit, TypedStep, <1>1, PTL DEF Spec

-----------------------------------------------------------------------------
(* Mutual exclusion *)

\* Whoever runs holds the lock of the region he works in.
Guarded == \A p \in Proc : Active(p) => lock[cli[p].prof.region] = p

\* A step of a process, as far as regions are concerned: it goes on in its
\* region, it leaves, or it begins in a region nobody has locked.
GoesOn(p) ==
  /\ Active(p) /\ Active(p)'
  /\ cli'[p].prof.region = cli[p].prof.region
  /\ cli'[p].run = cli[p].run \/ ~HasRun(p)
  /\ HasRun(p) => HasRun(p)'
  /\ \A q \in Proc \ {p} : cli'[q] = cli[q]
  /\ lock' = lock

Begins(p) ==
  /\ ~Active(p)
  /\ lock[cli'[p].prof.region] = None
  /\ lock' = [lock EXCEPT ![cli'[p].prof.region] = p]
  /\ cli'[p].prof.region \in Region
  /\ \A q \in Proc \ {p} : cli'[q] = cli[q]

LEMMA WorkShape ==
  ASSUME Typed, NEW p \in Proc, Work(p) \/ PhaseError(p) \/ Signal(p)
  PROVE  GoesOn(p) \/ Leave(p)
<1> USE DEF Typed, TypeOK
<1>0. cli[p] \in Cli
  OBVIOUS
<1>1. CASE SetUp(p)
  <2>1. CASE Lookup(p)
    <3> SUFFICES ASSUME ~Leave(p) PROVE GoesOn(p)
      OBVIOUS
    <3>1. /\ cli[p].pc = "lookup" /\ cli'[p].pc \in {"reactivate", "reset", "plan"}
          /\ cli'[p].prof = MergeFlags(rows[cli[p].run], cli[p].prof)
          /\ cli'[p].run = cli[p].run
          /\ \A q \in Proc \ {p} : cli'[q] = cli[q]
          /\ lock' = lock
      BY <2>1 DEF Lookup, Cli
    <3>2. MergeFlags(rows[cli[p].run], cli[p].prof).region = cli[p].prof.region
      BY <1>0 DEF MergeFlags, Cli, CliProfile
    <3> QED
      BY <3>1, <3>2 DEF GoesOn, Active, HasRun
  <2>2. CASE ReadActive(p)
    BY <1>0, <2>2 DEF ReadActive, Cli, GoesOn, Active, HasRun
  <2>3. CASE Reactivate(p)
    BY <1>0, <2>3 DEF Reactivate, Cli, GoesOn, Active, HasRun
  <2>4. CASE ResetCheckpoint(p)
    BY <1>0, <2>4 DEF ResetCheckpoint, Cli, GoesOn, Active, HasRun
  <2>5. CASE PurgeSnapshots(p)
    BY <1>0, <2>5 DEF PurgeSnapshots, Cli, GoesOn, Active, HasRun
  <2>6. ASSUME NEW i \in RunId, Create(p, i) PROVE GoesOn(p)
    BY <1>0, <2>6 DEF Create, Cli, GoesOn, Active, HasRun
  <2> QED
    BY <1>1, <2>1, <2>2, <2>3, <2>4, <2>5, <2>6 DEF SetUp
<1>2. CASE Execute(p)
  <2>1. CASE SyncVersion(p)
    <3> DEFINE pin == Given(cli[p].prof.version, latest)
    <3>1. /\ cli[p].pc = "phase" /\ lock' = lock
          /\ cli' = [Advance(p) EXCEPT ![p].prof.version = pin]
      BY <2>1 DEF SyncVersion, InPhase
    <3> HIDE DEF pin
    <3>2. /\ cli'[p].pc = "plan" /\ cli'[p].run = cli[p].run
          /\ cli'[p].prof = [cli[p].prof EXCEPT !.version = pin]
          /\ \A q \in Proc \ {p} : cli'[q] = cli[q]
      BY <3>1 DEF Advance, Cli
    <3>3. cli'[p].prof.region = cli[p].prof.region
      BY <1>0, <3>2 DEF Cli, CliProfile
    <3> QED
      BY <3>1, <3>2, <3>3 DEF GoesOn, Active, HasRun
  <2>2. CASE SkipDone(p)
    BY <1>0, <2>2 DEF SkipDone, Advance, Cli, GoesOn, Active, HasRun
  <2>3. CASE OpenTier(p)
    BY <1>0, <2>3 DEF OpenTier, Advance, Cli, GoesOn, Active, HasRun
  <2>4. CASE SkipIdle(p)
    BY <1>0, <2>4 DEF SkipIdle, MustRun, Advance, Cli, GoesOn, Active, HasRun
  <2>5. CASE EnterPhase(p)
    BY <1>0, <2>5 DEF EnterPhase, MustRun, Cli, GoesOn, Active, HasRun
  <2>6. CASE Finish(p)
    BY <1>0, <2>6 DEF Finish, Cli, GoesOn, Active, HasRun
  <2>7. CASE SyncTier(p)
    BY <1>0, <2>7 DEF SyncTier, InPhase, Cli, GoesOn, Active, HasRun
  <2>8. CASE FinishRankSync(p)
    BY <1>0, <2>8 DEF FinishRankSync, InPhase, Advance, Cli, GoesOn, Active, HasRun
  <2>9. CASE CollectMatches(p)
    BY <1>0, <2>9 DEF CollectMatches, InPhase, Cli, GoesOn, Active, HasRun
  <2>10. CASE FinishCollect(p)
    BY <1>0, <2>10 DEF FinishCollect, InPhase, Advance, Cli, GoesOn, Active, HasRun
  <2>11. ASSUME NEW k \in DrainPhase, ProcessBatch(p, k) \/ FinishDrain(p, k) PROVE GoesOn(p)
    BY <1>0, <2>11 DEF ProcessBatch, FinishDrain, InPhase, Advance, Cli, GoesOn, Active, HasRun
  <2> QED
    BY <1>2, <2>1, <2>2, <2>3, <2>4, <2>5, <2>6, <2>7, <2>8, <2>9, <2>10, <2>11 DEF Execute
<1>3. CASE Stop(p)
  BY <1>0, <1>3 DEF Stop, Interrupted, Close, Cli, GoesOn, Active, HasRun
<1>4. CASE PhaseError(p) \/ Signal(p)
  BY <1>0, <1>4 DEF PhaseError, Signal, Cli, GoesOn, Active, HasRun
<1> QED
  BY <1>1, <1>2, <1>3, <1>4 DEF Work

LEMMA StartShape == ASSUME Typed, NEW p \in Proc, Start(p) PROVE Begins(p)
<1> USE DEF Typed, TypeOK
<1>1. ASSUME NEW prof \in Profiles, StartNew(p, prof) PROVE Begins(p)
  <2>1. prof.region \in Region
    BY ConstantsAssumption DEF ConstantsAssumption
  <2> QED
    BY <1>1, <2>1 DEF StartNew, Begins, Active, Cli
<1>2. ASSUME NEW i \in RunId, NEW flags \in ResumeFlags, StartResume(p, i, flags) PROVE Begins(p)
  <2>1. rows[i] \in Row /\ flags \in CliProfile
    BY <1>2, ConstantsAssumption DEF ConstantsAssumption, StartResume, Exists, CliProfile
  <2> DEFINE prof == [flags EXCEPT !.region = Given(@, rows[i].region),
                                   !.execution = Given(@, rows[i].execution)]
  <2>2. prof.region \in Region
    BY <2>1 DEF Given, Row, CliProfile
  <2>3. /\ ~Active(p) /\ lock[prof.region] = None
        /\ lock' = [lock EXCEPT ![prof.region] = p]
        /\ cli' = [cli EXCEPT ![p].pc = "lookup", ![p].run = i, ![p].prof = prof]
    BY <1>2 DEF StartResume, Active
  <2> HIDE DEF prof
  <2>4. cli'[p].prof = prof /\ \A q \in Proc \ {p} : cli'[q] = cli[q]
    BY <2>3 DEF Cli
  <2> QED
    BY <2>2, <2>3, <2>4 DEF Begins
<1> QED
  BY <1>1, <1>2 DEF Start

\* Without lost sessions a step is one of these shapes, or leaves the processes
\* and the locks alone.
LEMMA NextShape ==
  ASSUME Typed, [Next]_vars, ~SessionsMayDrop
  PROVE  \/ \E p \in Proc : GoesOn(p) \/ Leave(p) \/ Begins(p)
         \/ UNCHANGED <<cli, lock>>
<1>1. ASSUME NEW p \in Proc, Disturb(p)
      PROVE  PhaseError(p) \/ Signal(p) \/ Leave(p)
  BY <1>1 DEF Disturb, AbortSetup, CloseLost, Crash, LoseSession
<1> QED
  BY <1>1, WorkShape, StartShape DEF Next, Cancel, NewPatch, vars

LEMMA GuardedStep == ASSUME Typed, Guarded, [Next]_vars, ~SessionsMayDrop PROVE Guarded'
<1> USE DEF Typed, TypeOK
<1>1. ASSUME NEW p \in Proc, GoesOn(p) PROVE Guarded'
  BY <1>1 DEF GoesOn, Guarded, Active
<1>2. ASSUME NEW p \in Proc, Leave(p) PROVE Guarded'
  <2>1. cli'[p].pc = "idle" /\ \A q \in Proc \ {p} : cli'[q] = cli[q]
    BY <1>2, IdleCliType DEF Leave
  <2>2. ASSUME NEW q \in Proc \ {p}, Active(q) PROVE lock'[cli[q].prof.region] = q
    BY <1>2, <2>2 DEF Leave, Guarded, WellFormed
  <2> QED
    BY <2>1, <2>2 DEF Guarded, Active
<1>3. ASSUME NEW p \in Proc, Begins(p) PROVE Guarded'
  <2>1. ASSUME NEW q \in Proc \ {p}, Active(q) PROVE lock'[cli[q].prof.region] = q
    BY <1>3, <2>1, NoneFresh DEF Begins, Guarded, WellFormed
  <2> QED
    BY <1>3, <2>1 DEF Begins, Guarded, Active
<1>4. CASE UNCHANGED <<cli, lock>>
  BY <1>4 DEF Guarded, Active
<1> QED
  BY <1>1, <1>2, <1>3, <1>4, NextShape

\* The advisory lock does what runner.go:42 takes it for, for every number of
\* processes and regions, as long as a session lives as long as its process:
\* two executions never work in one region.
THEOREM MutualExclusion ==
  ASSUME ~SessionsMayDrop
  PROVE  Spec => []OneExecutorPerRegion
<1>1. Init => Typed /\ Guarded
  BY TypedInit, IdleCliType DEF Init, Guarded, Active
<1>2. Typed /\ Guarded /\ [Next]_vars => (Typed /\ Guarded)'
  BY TypedStep, GuardedStep
<1>3. Typed /\ Guarded => OneExecutorPerRegion
  BY DEF Guarded, OneExecutorPerRegion, Running, Active, Executing
<1> QED
  BY <1>1, <1>2, <1>3, PTL DEF Spec

-----------------------------------------------------------------------------
(* Runs stay in their region *)

\* --resume is given without --region.
PlainResumes == \A flags \in ResumeFlags : flags.region = None

\* The region whose lock a process holds is the region of its run.
Homed == \A p \in Proc : HasRun(p) => cli[p].prof.region = rows[cli[p].run].region

\* GetActiveRun saw no running row, and this is still so before the INSERT.
FreshCreate ==
  \A p \in Proc : cli[p].pc = "create" => RunningIn(cli[p].prof.region) = {}

\* What a step may do to a row, if it is not the INSERT: a row that starts to
\* run does so for a process that is executing it.
RowStep(i) ==
  \/ rows'[i] = rows[i]
  \/ /\ rows[i] \in Row
     /\ rows'[i].region = rows[i].region
     /\ rows'[i].status = "running" =>
          rows[i].status = "running" \/ \E p \in Proc : HasRun(p) /\ cli[p].run = i

LEMMA CheckpointRow ==
  ASSUME Typed, NEW p \in Proc, HasRun(p), NEW k, NEW t, Checkpoint(p, k, t)
  PROVE  \A i \in RunId : RowStep(i)
<1>1. cli[p].run \in RunId /\ rows[cli[p].run] \in Row
  BY DEF Typed, WellFormed
<1>2. \A row \in Row : /\ [row EXCEPT !.phase = k, !.tier = t].region = row.region
                       /\ [row EXCEPT !.phase = k, !.tier = t].status = row.status
  BY DEF Row
<1> QED
  BY <1>1, <1>2 DEF Checkpoint, RowStep, Typed, TypeOK

LEMMA StatusRow ==
  ASSUME Typed, NEW j \in RunId, rows[j] \in Row, NEW s \in {"running", "failed", "completed"},
         s = "running" => \E p \in Proc : HasRun(p) /\ cli[p].run = j,
         rows' = [rows EXCEPT ![j].status = s]
  PROVE  \A i \in RunId : RowStep(i)
<1>1. \A row \in Row : /\ [row EXCEPT !.status = s].region = row.region
                       /\ [row EXCEPT !.status = s].status = s
  BY DEF Row
<1> QED
  BY <1>1 DEF RowStep, Typed, TypeOK

LEMMA RowsShape ==
  ASSUME Typed, [Next]_vars, \A p \in Proc, i \in RunId : ~Create(p, i)
  PROVE  \A i \in RunId : RowStep(i)
<1> USE DEF Typed, TypeOK
<1>0. rows' = rows => \A i \in RunId : RowStep(i)
  BY DEF RowStep
<1>1. ASSUME NEW p \in Proc, SetUp(p) PROVE \A i \in RunId : RowStep(i)
  <2>1. CASE Reactivate(p)
    <3>1. HasRun(p) /\ cli[p].run \in RunId /\ rows[cli[p].run] \in Row
      BY <2>1 DEF Reactivate, HasRun, WellFormed
    <3> QED
      BY <2>1, <3>1, StatusRow DEF Reactivate
  <2>2. CASE ResetCheckpoint(p)
    BY <2>2, CheckpointRow DEF ResetCheckpoint, HasRun
  <2> QED
    BY <1>0, <1>1, <2>1, <2>2 DEF SetUp, ReadActive, Lookup, PurgeSnapshots
<1>2. ASSUME NEW p \in Proc, Execute(p) PROVE \A i \in RunId : RowStep(i)
  <2>1. CASE OpenTier(p)
    BY <2>1, CheckpointRow DEF OpenTier, HasRun
  <2>2. CASE EnterPhase(p)
    BY <2>2, CheckpointRow DEF EnterPhase, MustRun, HasRun
  <2>3. CASE SyncTier(p)
    BY <2>3, CheckpointRow DEF SyncTier, InPhase, HasRun
  <2>4. CASE SyncVersion(p)
    <3> DEFINE pin == Given(cli[p].prof.version, latest)
    <3>1. rows' = rows \/ rows' = [rows EXCEPT ![cli[p].run].version = pin]
      BY <2>4 DEF SyncVersion
    <3> HIDE DEF pin
    <3>2. cli[p].run \in RunId /\ rows[cli[p].run] \in Row
      BY <2>4 DEF SyncVersion, InPhase, HasRun, WellFormed
    <3>3. \A row \in Row : /\ [row EXCEPT !.version = pin].region = row.region
                           /\ [row EXCEPT !.version = pin].status = row.status
      BY DEF Row
    <3> QED
      BY <3>1, <3>2, <3>3 DEF RowStep
  <2> QED
    BY <1>0, <1>2, <2>1, <2>2, <2>3, <2>4
    DEF Execute, SkipDone, SkipIdle, Finish, FinishRankSync, CollectMatches, FinishCollect,
        ProcessBatch, FinishDrain
<1>3. ASSUME NEW p \in Proc, Stop(p) PROVE \A i \in RunId : RowStep(i)
  <2>1. CASE Interrupted(p)
    BY <1>0, <2>1 DEF Interrupted
  <2>2. CASE Close(p)
    <3>1. cli[p].run \in RunId /\ rows[cli[p].run] \in Row
      BY <2>2 DEF Close, HasRun, WellFormed
    <3>2. \/ rows' = rows
          \/ rows' = [rows EXCEPT ![cli[p].run].status = "completed"]
          \/ rows' = [rows EXCEPT ![cli[p].run].status = "failed"]
      BY <2>2 DEF Close
    <3> QED
      BY <1>0, <3>1, <3>2, StatusRow
  <2> QED
    BY <1>3, <2>1, <2>2 DEF Stop
<1>4. ASSUME NEW p \in Proc, Disturb(p) PROVE rows' = rows
  BY <1>4 DEF Disturb, AbortSetup, PhaseError, Signal, CloseLost, Crash, LoseSession
<1>5. ASSUME NEW p \in Proc, Start(p) PROVE rows' = rows
  BY <1>5 DEF Start, StartNew, StartResume
<1>6. ASSUME NEW i \in RunId, Cancel(i) PROVE \A j \in RunId : RowStep(j)
  BY <1>6, StatusRow DEF Cancel, Exists
<1>7. CASE NewPatch \/ UNCHANGED vars
  BY <1>0, <1>7 DEF NewPatch, vars
<1> QED
  BY <1>0, <1>1, <1>2, <1>3, <1>4, <1>5, <1>6, <1>7 DEF Next, Work

LEMMA CreateRows ==
  ASSUME Typed, NEW p \in Proc, NEW i \in RunId, Create(p, i)
  PROVE  /\ HasRun(p)' /\ ~HasRun(p) /\ cli'[p].run = i /\ cli'[p].pc = "plan"
         /\ cli'[p].prof = cli[p].prof /\ \A q \in Proc \ {p} : cli'[q] = cli[q]
         /\ rows[i] = None
         /\ rows'[i].region = cli[p].prof.region
         /\ \A j \in RunId \ {i} : rows'[j] = rows[j]
BY DEF Typed, TypeOK, Create, Cli, HasRun, Exists

Exclusive == Typed /\ Guarded /\ Homed /\ FreshCreate

\* Two processes with a run in one region are the same.
LEMMA SameOwner ==
  ASSUME Typed, Guarded, NEW p \in Proc, NEW q \in Proc, Active(p), Active(q),
         cli[p].prof.region = cli[q].prof.region
  PROVE  p = q
BY DEF Guarded

LEMMA HomedStep ==
  ASSUME Exclusive, [Next]_vars, ~SessionsMayDrop, PlainResumes
  PROVE  Homed'
<1> USE DEF Exclusive
<1>1. ASSUME NEW p \in Proc, NEW i \in RunId, Create(p, i) PROVE Homed'
  <2>1. ASSUME NEW q \in Proc \ {p}, HasRun(q)
        PROVE  cli[q].prof.region = rows'[cli[q].run].region
    <3>1. cli[q].run \in RunId /\ rows[cli[q].run] \in Row
      BY <2>1 DEF Typed, WellFormed
    <3>2. cli[q].run # i
      BY <1>1, <3>1, CreateRows, NoneIsNoRow
    <3> QED
      BY <1>1, <2>1, <3>1, <3>2, CreateRows DEF Homed
  <2> QED
    BY <1>1, <2>1, CreateRows DEF Homed, HasRun
<1>2. CASE \A p \in Proc, i \in RunId : ~Create(p, i)
  <2>1. ASSUME NEW q \in Proc, HasRun(q)
        PROVE  cli[q].prof.region = rows'[cli[q].run].region
    <3>1. cli[q].run \in RunId
      BY <2>1 DEF Typed, WellFormed
    <3> QED
      BY <1>2, <2>1, <3>1, RowsShape DEF Homed, RowStep
  <2>2. ASSUME NEW p \in Proc, GoesOn(p), HasRun(p)' => HasRun(p) PROVE Homed'
    BY <2>1, <2>2 DEF GoesOn, Homed, HasRun
  <2>3. ASSUME NEW p \in Proc, Leave(p) PROVE Homed'
    BY <2>1, <2>3, IdleCliType DEF Leave, Homed, HasRun, Typed, TypeOK
  <2>4. ASSUME NEW p \in Proc, Start(p) PROVE Homed'
    <3>1. rows' = rows /\ \A q \in Proc \ {p} : cli'[q] = cli[q]
      BY <2>4 DEF Start, StartNew, StartResume, Typed, TypeOK
    <3>2. HasRun(p)' => cli'[p].prof.region = rows[cli'[p].run].region
      <4>1. ASSUME NEW prof \in Profiles, StartNew(p, prof) PROVE ~HasRun(p)'
        BY <4>1 DEF StartNew, HasRun, Typed, TypeOK, Cli
      <4>2. ASSUME NEW i \in RunId, NEW flags \in ResumeFlags, StartResume(p, i, flags)
            PROVE  cli'[p].prof.region = rows[cli'[p].run].region
        <5>1. flags \in CliProfile /\ flags.region = None
          BY ConstantsAssumption DEF ConstantsAssumption, PlainResumes, CliProfile
        <5> DEFINE prof == [flags EXCEPT !.region = Given(@, rows[i].region),
                                         !.execution = Given(@, rows[i].execution)]
        <5>2. prof.region = rows[i].region
          BY <5>1 DEF Given, CliProfile
        <5>3. cli' = [cli EXCEPT ![p].pc = "lookup", ![p].run = i, ![p].prof = prof]
          BY <4>2 DEF StartResume
        <5> HIDE DEF prof
        <5>4. cli'[p].prof = prof /\ cli'[p].run = i
          BY <5>3 DEF Typed, TypeOK, Cli
        <5> QED
          BY <5>2, <5>4
      <4> QED
        BY <2>4, <4>1, <4>2 DEF Start
    <3> QED
      BY <2>1, <3>1, <3>2 DEF Homed, HasRun
  <2>5. CASE UNCHANGED cli
    BY <2>1, <2>5 DEF Homed, HasRun
  <2>6. ASSUME NEW p \in Proc, Work(p) \/ PhaseError(p) \/ Signal(p)
        PROVE  Leave(p) \/ (GoesOn(p) /\ (HasRun(p)' => HasRun(p)))
    <3>1. CASE ReadActive(p)
      BY <2>6, <3>1, WorkShape DEF ReadActive, HasRun, Typed, TypeOK, Cli
    <3>2. CASE ~ReadActive(p)
      <4>1. HasRun(p)
        BY <1>2, <2>6, <3>2 DEF Work, SetUp, Execute, Stop, PhaseError, Signal,
           Lookup, Reactivate, ResetCheckpoint, PurgeSnapshots,
           SkipDone, OpenTier, SkipIdle, EnterPhase, Finish, MustRun, SyncVersion, SyncTier,
           FinishRankSync, CollectMatches, FinishCollect, ProcessBatch, FinishDrain, InPhase,
           Interrupted, Close, HasRun
      <4> QED
        BY <2>6, <4>1, WorkShape
    <3> QED
      BY <3>1, <3>2
  <2>7. ASSUME NEW p \in Proc, Disturb(p) PROVE PhaseError(p) \/ Signal(p) \/ Leave(p)
    BY <2>7 DEF Disturb, AbortSetup, CloseLost, Crash, LoseSession
  <2> QED
    BY <2>2, <2>3, <2>4, <2>5, <2>6, <2>7 DEF Next, Cancel, NewPatch, vars
<1> QED
  BY <1>1, <1>2

LEMMA FreshStep ==
  ASSUME Exclusive, [Next]_vars, ~SessionsMayDrop
  PROVE  FreshCreate'
<1> USE DEF Exclusive
<1>1. SUFFICES ASSUME NEW q \in Proc, cli'[q].pc = "create", NEW i \in RunId,
                      rows'[i] # None, rows'[i].status = "running",
                      rows'[i].region = cli'[q].prof.region
               PROVE  FALSE
  BY DEF FreshCreate, RunningIn, Exists
<1> DEFINE r == cli'[q].prof.region
<1>2. rows'[i] # None /\ rows'[i].status = "running" /\ rows'[i].region = r
  BY <1>1
\* q was about to create already, or just learned that nothing runs in r
<1>3. cli[q].prof.region = r /\ Active(q) /\ ~HasRun(q) /\ RunningIn(r) = {}
  <2>1. CASE ReadActive(q)
    BY <1>1, <2>1, IdleCliType DEF ReadActive, Leave, Active, HasRun, Typed, TypeOK, Cli
  <2>2. CASE cli'[q] = cli[q]
    BY <1>1, <2>2 DEF FreshCreate, Active, HasRun
  <2>3. ASSUME ~ReadActive(q), cli'[q] # cli[q] PROVE FALSE
    <3>1. UNCHANGED cli \/ (\E p \in Proc : cli'[p].pc # "create" /\ \A o \in Proc \ {p} : cli'[o] = cli[o])
      <4>1. ASSUME NEW p \in Proc, Leave(p)
            PROVE  cli'[p].pc # "create" /\ \A o \in Proc \ {p} : cli'[o] = cli[o]
        BY <4>1, IdleCliType DEF Leave, Typed, TypeOK
      <4>2. ASSUME NEW p \in Proc, Begins(p), Start(p)
            PROVE  cli'[p].pc # "create" /\ \A o \in Proc \ {p} : cli'[o] = cli[o]
        <5>1. ASSUME NEW prof \in Profiles, StartNew(p, prof) PROVE cli'[p].pc = "check"
          BY <5>1 DEF StartNew, Typed, TypeOK, Cli
        <5>2. ASSUME NEW j \in RunId, NEW flags \in ResumeFlags, StartResume(p, j, flags)
              PROVE  cli'[p].pc = "lookup"
          BY <5>2 DEF StartResume, Typed, TypeOK, Cli
        <5> QED
          BY <4>2, <5>1, <5>2 DEF Begins, Start
      <4>3. ASSUME NEW p \in Proc, GoesOn(p), HasRun(p)
            PROVE  cli'[p].pc # "create" /\ \A o \in Proc \ {p} : cli'[o] = cli[o]
        BY <4>3 DEF GoesOn, HasRun
      <4>4. ASSUME NEW p \in Proc, Work(p) \/ PhaseError(p) \/ Signal(p), ~HasRun(p)
            PROVE  ReadActive(p) \/ \E j \in RunId : Create(p, j)
        BY <4>4 DEF Work, SetUp, Execute, Stop, PhaseError, Signal,
           Lookup, Reactivate, ResetCheckpoint, PurgeSnapshots,
           SkipDone, OpenTier, SkipIdle, EnterPhase, Finish, MustRun, SyncVersion, SyncTier,
           FinishRankSync, CollectMatches, FinishCollect, ProcessBatch, FinishDrain, InPhase,
           Interrupted, Close, HasRun
      <4>5. ASSUME NEW p \in Proc, NEW j \in RunId, Create(p, j)
            PROVE  cli'[p].pc # "create" /\ \A o \in Proc \ {p} : cli'[o] = cli[o]
        BY <4>5, CreateRows
      <4>6. ASSUME NEW p \in Proc, ReadActive(p) PROVE p # q => cli'[q] = cli[q]
        BY <4>6 DEF ReadActive, Leave, Typed, TypeOK
      <4>7. ASSUME NEW p \in Proc, Disturb(p) PROVE PhaseError(p) \/ Signal(p) \/ Leave(p)
        BY <4>7 DEF Disturb, AbortSetup, CloseLost, Crash, LoseSession
      <4> QED
        BY <2>3, <4>1, <4>2, <4>3, <4>4, <4>5, <4>6, <4>7, WorkShape, StartShape
        DEF Next, Cancel, NewPatch, vars
    <3> QED
      BY <1>1, <2>3, <3>1
  <2> QED
    BY <2>1, <2>2, <2>3
\* so the row began to run in this step, for a process that holds the lock of r
<1>4. ~(rows[i] # None /\ rows[i].status = "running" /\ rows[i].region = r)
  BY <1>3 DEF RunningIn, Exists
<1>5. ASSUME NEW p \in Proc, NEW j \in RunId, Create(p, j) PROVE FALSE
  <2>1. i = j
    BY <1>2, <1>4, <1>5, CreateRows
  <2>2. cli[p].prof.region = r /\ Active(p) /\ cli'[p].pc = "plan"
    BY <1>2, <1>5, <2>1, CreateRows DEF Create, Active
  <2>3. p = q
    BY <1>3, <2>2, SameOwner
  <2> QED
    BY <1>1, <2>2, <2>3
<1>6. CASE \A p \in Proc, j \in RunId : ~Create(p, j)
  <2>1. RowStep(i)
    BY <1>6, RowsShape
  <2>2. PICK p \in Proc : HasRun(p) /\ cli[p].run = i /\ rows[i].region = r
    BY <1>2, <1>4, <2>1, NoneIsNoRow DEF RowStep
  <2>3. cli[p].prof.region = r /\ Active(p)
    BY <2>2 DEF Homed, HasRun, Active
  <2> QED
    BY <1>3, <2>2, <2>3, SameOwner
<1> QED
  BY <1>5, <1>6

LEMMA ExclusiveInvariant ==
  ASSUME ~SessionsMayDrop, PlainResumes
  PROVE  Spec => []Exclusive
<1>1. Init => Exclusive
  BY TypedInit, IdleCliType
  DEF Init, Exclusive, Guarded, Homed, FreshCreate, Active, HasRun
<1>2. Exclusive /\ [Next]_vars => Exclusive'
  BY TypedStep, GuardedStep, HomedStep, FreshStep DEF Exclusive
<1> QED
  BY <1>1, <1>2, PTL DEF Spec

\* A run is never executed by two processes, for every number of processes,
\* regions, runs and faults: the lock of the region covers the run, because
\* a plain --resume takes the region from the row.
THEOREM OneExecutor ==
  ASSUME ~SessionsMayDrop, PlainResumes
  PROVE  Spec => []OneExecutorPerRun
<1>1. Exclusive => OneExecutorPerRun
  <2> SUFFICES ASSUME Exclusive, NEW p \in Proc, NEW q \in Proc,
                      Running(p), Running(q), cli[p].run = cli[q].run
               PROVE  p = q
    BY DEF OneExecutorPerRun
  <2>1. Active(p) /\ Active(q) /\ HasRun(p) /\ HasRun(q)
    BY DEF Running, Executing, Active, HasRun
  <2> QED
    BY <2>1, SameOwner DEF Exclusive, Homed
<1> QED
  BY <1>1, ExclusiveInvariant, PTL

\* GetActiveRun and the INSERT are two statements, and yet no run is created
\* while another one of its region is 'running': only a holder of the lock of
\* the region can make one run.
THEOREM CreatesWhenIdle ==
  ASSUME ~SessionsMayDrop, PlainResumes
  PROVE  Spec => NewRunOnlyWhenIdle
<1>1. ASSUME Exclusive, [Next]_vars, NEW i \in RunId, ~Exists(i), Exists(i)'
      PROVE  RunningIn(rows'[i].region) = {}
  <2>1. PICK p \in Proc : Create(p, i)
    <3> SUFFICES ASSUME \A p \in Proc : ~Create(p, i) PROVE FALSE
      OBVIOUS
    <3>1. ASSUME NEW p \in Proc, NEW j \in RunId, Create(p, j) PROVE rows'[i] = rows[i]
      <4>1. \A l \in RunId \ {j} : rows'[l] = rows[l]
        BY <1>1, <3>1, CreateRows DEF Exclusive
      <4>2. i # j
        <5> SUFFICES ASSUME i = j PROVE FALSE
          OBVIOUS
        <5> QED
          BY <3>1
      <4> QED
        BY <4>1, <4>2
    <3>2. rows'[i] = rows[i]
      <4>1. CASE \A p \in Proc, j \in RunId : ~Create(p, j)
        <5>1. RowStep(i)
          BY <1>1, <4>1, RowsShape DEF Exclusive
        <5>2. rows[i] \notin Row
          BY <1>1, NoneIsNoRow DEF Exists
        <5> QED
          BY <5>1, <5>2 DEF RowStep
      <4> QED
        BY <3>1, <4>1
    <3> QED
      BY <1>1, <3>2 DEF Exists
  <2>2. rows'[i].region = cli[p].prof.region /\ cli[p].pc = "create"
    BY <1>1, <2>1, CreateRows DEF Exclusive, Create
  <2> QED
    BY <1>1, <2>2 DEF Exclusive, FreshCreate
<1>2. Exclusive /\ [Next]_vars =>
        [\A i \in RunId : ~Exists(i) /\ Exists(i)' => RunningIn(rows'[i].region) = {}]_vars
  BY <1>1
<1> QED
  BY <1>2, ExclusiveInvariant, PTL DEF Spec, NewRunOnlyWhenIdle

-----------------------------------------------------------------------------
(***************************************************************************)
(* CrawlRun implements RegionExecutor: processes, locks and two-statement  *)
(* set-ups together behave as if a region executed one run at a time.      *)
(*                                                                         *)
(* The proof maps every step of CrawlRun to a step of RegionExecutor or to *)
(* a stutter, in the states of the invariant Exclusive above strengthened  *)
(* by what a process knows that is about to reactivate a run.              *)
(***************************************************************************)

\* Nobody but the process changes the status it read before it reactivates,
\* except for an operator who cancels the run, which leaves it failed.
ReopensFailed == \A p \in Proc : cli[p].pc = "reactivate" => rows[cli[p].run].status = "failed"

Refined == Exclusive /\ ReopensFailed

-----------------------------------------------------------------------------
(* The mapping *)

ExecutingIn(r) == {cli[p].run : p \in {q \in Proc : Executed(q) /\ cli[q].prof.region = r}}

LEMMA ExecutedFacts ==
  ASSUME Typed, NEW p \in Proc, Executed(p)
  PROVE  /\ Active(p) /\ HasRun(p)
         /\ cli[p].run \in RunId /\ rows[cli[p].run] \in Row /\ Exists(cli[p].run)
         /\ cli[p].prof.region \in Region
<1>1. Active(p) /\ HasRun(p)
  BY DEF Executed, Running, Executing, Active, HasRun
<1> QED
  BY <1>1, NoneIsNoRow DEF Typed, WellFormed, Exists

\* The lock admits one process to a region, so the set of its runs is known from
\* any process that is active there.
LEMMA OwnRegion ==
  ASSUME Typed, Guarded, NEW p \in Proc, Active(p), NEW r, r = cli[p].prof.region
  PROVE  /\ Executed(p) => ExecutingIn(r) = {cli[p].run}
         /\ ~Executed(p) => ExecutingIn(r) = {}
<1>1. ASSUME NEW q \in Proc, Executed(q), cli[q].prof.region = r PROVE q = p
  BY <1>1, ExecutedFacts, SameOwner
<1> QED
  BY <1>1 DEF ExecutingIn

\* Steps RegionExecutor does not see.
SameRows ==
  \A i \in RunId : /\ Exists(i)' <=> Exists(i)
                   /\ Exists(i) => /\ rows'[i].status = rows[i].status
                                   /\ rows'[i].region = rows[i].region

SameExecution(p) ==
  /\ Executed(p)' <=> Executed(p)
  /\ Executed(p) => cli'[p].run = cli[p].run /\ cli'[p].prof.region = cli[p].prof.region

\* The variables of RegionExecutor, and what a step does to them.
Statuses == [i \in RunId |-> IF Exists(i) THEN rows[i].status ELSE "none"]
Homes == [i \in RunId |-> IF Exists(i) THEN rows[i].region ELSE None]
Executions == [r \in Region |-> ExecutingIn(r)]

LEMMA RowsMapped == ASSUME SameRows PROVE Statuses' = Statuses /\ Homes' = Homes
BY DEF SameRows, Statuses, Homes

LEMMA ExecutionsMapped ==
  ASSUME NEW S \in SUBSET Region,
         \A p \in Proc : SameExecution(p) \/ ((Executed(p) => cli[p].prof.region \in S)
                                              /\ (Executed(p)' => cli'[p].prof.region \in S))
  PROVE  \A r \in Region \ S : ExecutingIn(r)' = ExecutingIn(r)
<1> TAKE r \in Region \ S
<1>1. ASSUME NEW p \in Proc
      PROVE  Executed(p)' /\ cli'[p].prof.region = r <=> Executed(p) /\ cli[p].prof.region = r
  BY <1>1 DEF SameExecution
<1>2. ASSUME NEW p \in Proc, Executed(p), cli[p].prof.region = r
      PROVE  cli'[p].run = cli[p].run
  BY <1>2 DEF SameExecution
<1> QED
  BY <1>1, <1>2 DEF ExecutingIn

LEMMA StutterMapped ==
  ASSUME SameRows, \A p \in Proc : SameExecution(p)
  PROVE  UNCHANGED Abstract!vars
<1>1. Executions' = Executions
  BY ExecutionsMapped DEF Executions
<1> QED
  BY <1>1, RowsMapped DEF Abstract!vars, Statuses, Homes, Executions, ExecutingIn

\* A process that is active in r and stops executing, or never began to.
LEMMA LeaveMapped ==
  ASSUME Typed, Guarded, NEW p \in Proc, Active(p), Leave(p),
         NEW r, r = cli[p].prof.region
  PROVE  r \in Region /\ Executions' = [Executions EXCEPT ![r] = {}]
<1>1. r \in Region
  BY DEF Typed, WellFormed
<1>2. cli'[p] = IdleCli /\ \A q \in Proc \ {p} : cli'[q] = cli[q]
  BY IdleCliType DEF Typed, TypeOK, Leave
<1>3. ~Executed(p)'
  BY <1>2, IdleCliType DEF Executed, Running, Executing
<1>4. \A q \in Proc \ {p} : SameExecution(q)
  BY <1>2 DEF SameExecution, Executed, Running
<1>5. \A s \in Region \ {r} : ExecutingIn(s)' = ExecutingIn(s)
  BY <1>1, <1>3, <1>4, ExecutionsMapped
<1>6. ASSUME NEW q \in Proc, Executed(q)', cli'[q].prof.region = r PROVE FALSE
  <2>1. q # p /\ Executed(q) /\ cli[q].prof.region = r
    BY <1>2, <1>3, <1>6 DEF Executed, Running
  <2> QED
    BY <2>1, ExecutedFacts, SameOwner
<1>7. ExecutingIn(r)' = {}
  BY <1>6 DEF ExecutingIn
<1> QED
  BY <1>1, <1>5, <1>7 DEF Executions

\* A process that holds the lock of r and begins to execute a run.
LEMMA EnterMapped ==
  ASSUME Typed, Guarded, NEW p \in Proc, Active(p), ~Executed(p), Executed(p)',
         NEW r, r = cli[p].prof.region, r = cli'[p].prof.region,
         \A q \in Proc \ {p} : cli'[q] = cli[q]
  PROVE  /\ r \in Region /\ Executions[r] = {}
         /\ Executions' = [Executions EXCEPT ![r] = {cli'[p].run}]
<1>1. r \in Region
  BY DEF Typed, WellFormed
<1>2. ExecutingIn(r) = {}
  BY OwnRegion
<1>4. \A q \in Proc \ {p} : SameExecution(q)
  BY DEF SameExecution, Executed, Running
<1>5. \A s \in Region \ {r} : ExecutingIn(s)' = ExecutingIn(s)
  BY <1>1, <1>4, ExecutionsMapped
<1>6. ASSUME NEW q \in Proc, Executed(q)', cli'[q].prof.region = r PROVE q = p
  <2> SUFFICES ASSUME q # p PROVE FALSE
    OBVIOUS
  <2>1. Executed(q) /\ cli[q].prof.region = r
    BY <1>6 DEF Executed, Running
  <2> QED
    BY <2>1, ExecutedFacts, SameOwner
<1>7. ExecutingIn(r)' = {cli'[p].run}
  BY <1>6 DEF ExecutingIn
<1> QED
  BY <1>1, <1>2, <1>5, <1>7 DEF Executions

\* The last status a process gives its run, or the one it takes back.
LEMMA StatusMapped ==
  ASSUME Typed, NEW i \in RunId, rows[i] \in Row, NEW s \in {"running", "failed", "completed"},
         rows' = [rows EXCEPT ![i].status = s]
  PROVE  Homes' = Homes /\ Statuses' = [Statuses EXCEPT ![i] = s]
<1>1. /\ [rows[i] EXCEPT !.status = s].region = rows[i].region
      /\ [rows[i] EXCEPT !.status = s].status = s
      /\ [rows[i] EXCEPT !.status = s] \in Row
  BY DEF Row
<1>2. /\ rows'[i] = [rows[i] EXCEPT !.status = s]
      /\ \A j \in RunId \ {i} : rows'[j] = rows[j]
  BY DEF Typed, TypeOK
<1>3. Exists(i) /\ Exists(i)' /\ \A j \in RunId \ {i} : Exists(j)' <=> Exists(j)
  BY <1>1, <1>2, NoneIsNoRow DEF Exists
<1>4. \A j \in RunId : Homes'[j] = Homes[j]
  BY <1>1, <1>2, <1>3 DEF Homes
<1>5. ASSUME NEW j \in RunId PROVE Statuses'[j] = IF j = i THEN s ELSE Statuses[j]
  <2>1. CASE j = i
    <3>1. Statuses'[i] = rows'[i].status
      BY <1>3 DEF Statuses
    <3>2. rows'[i].status = s
      BY <1>1, <1>2
    <3> QED
      BY <2>1, <3>1, <3>2
  <2>2. CASE j # i
    <3>1. rows'[j] = rows[j] /\ (Exists(j)' <=> Exists(j))
      BY <1>2, <1>3, <2>2
    <3> QED
      BY <2>2, <3>1 DEF Statuses
  <2> QED
    BY <2>1, <2>2
<1>6. Homes' = Homes
  BY <1>4 DEF Homes
<1>7. Statuses' = [Statuses EXCEPT ![i] = s]
  BY <1>5 DEF Statuses
<1> QED
  BY <1>6, <1>7

-----------------------------------------------------------------------------
(* Steps that only RegionExecutor's stutter answers to *)

LEMMA CheckpointSameRows ==
  ASSUME Typed, NEW p \in Proc, HasRun(p), NEW k \in Phase, NEW t \in Tier \cup {None},
         Checkpoint(p, k, t)
  PROVE  SameRows
<1>1. cli[p].run \in RunId /\ rows[cli[p].run] \in Row
  BY DEF Typed, WellFormed
<1>2. \A row \in Row : /\ [row EXCEPT !.phase = k, !.tier = t].region = row.region
                       /\ [row EXCEPT !.phase = k, !.tier = t].status = row.status
                       /\ [row EXCEPT !.phase = k, !.tier = t] \in Row
  BY DEF Row
<1> QED
  BY <1>1, <1>2, NoneIsNoRow DEF Checkpoint, SameRows, Exists, Typed, TypeOK

Quiet(p) ==
  \/ ResetCheckpoint(p) \/ PurgeSnapshots(p) \/ Execute(p)
  \/ Interrupted(p) \/ PhaseError(p) \/ Signal(p)

Busy == {"plan", "phase", "close", "reset", "purge"}

LEMMA QuietShape ==
  ASSUME Typed, NEW p \in Proc, Quiet(p)
  PROVE  cli[p].pc \in Busy /\ cli'[p].pc \in Busy /\ GoesOn(p)
<1> USE DEF Typed, TypeOK
<1>0. cli[p] \in Cli
  OBVIOUS
<1> USE DEF Busy
<1>1. CASE Execute(p)
  <2>1. ASSUME SyncVersion(p) PROVE cli[p].pc \in Busy /\ cli'[p].pc \in Busy
    <3> DEFINE pin == Given(cli[p].prof.version, latest)
    <3>1. cli[p].pc = "phase" /\ cli' = [Advance(p) EXCEPT ![p].prof.version = pin]
      BY <2>1 DEF SyncVersion, InPhase
    <3> HIDE DEF pin
    <3> QED
      BY <1>0, <3>1 DEF Advance, Cli
  <2>a. ASSUME cli[p].pc \in {"plan", "phase"}, cli' = Advance(p)
        PROVE  cli[p].pc \in Busy /\ cli'[p].pc \in Busy
    BY <1>0, <2>a DEF Advance, Cli
  <2>2. ASSUME SkipDone(p) \/ OpenTier(p) \/ SkipIdle(p) \/ FinishRankSync(p) \/ FinishCollect(p) PROVE cli[p].pc \in Busy /\ cli'[p].pc \in Busy
    BY <2>2, <2>a DEF SkipDone, OpenTier, SkipIdle, MustRun, FinishRankSync, FinishCollect, InPhase
  <2>b. ASSUME EnterPhase(p) PROVE cli[p].pc \in Busy /\ cli'[p].pc \in Busy
    BY <1>0, <2>b DEF EnterPhase, MustRun, Cli
  <2>c. ASSUME Finish(p) PROVE cli[p].pc \in Busy /\ cli'[p].pc \in Busy
    BY <1>0, <2>c DEF Finish, Cli
  <2>d. ASSUME SyncTier(p) PROVE cli[p].pc \in Busy /\ cli'[p].pc \in Busy
    BY <1>0, <2>d DEF SyncTier, InPhase, Cli
  <2>3. ASSUME CollectMatches(p) PROVE cli[p].pc \in Busy /\ cli'[p].pc \in Busy
    BY <1>0, <2>3 DEF CollectMatches, InPhase
  <2>4. ASSUME NEW k \in DrainPhase, ProcessBatch(p, k) \/ FinishDrain(p, k)
        PROVE  cli[p].pc \in Busy /\ cli'[p].pc \in Busy
    BY <2>4, <2>a DEF ProcessBatch, FinishDrain, InPhase
  <2>5. cli[p].pc \in Busy /\ cli'[p].pc \in Busy
    BY <1>1, <2>1, <2>2, <2>3, <2>4, <2>b, <2>c, <2>d DEF Execute
  <2>6. ~Leave(p)
    BY <2>5, IdleCliType DEF Leave
  <2> QED
    BY <1>1, <2>5, <2>6, WorkShape DEF Work
<1>2. CASE ResetCheckpoint(p) \/ PurgeSnapshots(p)
  <2>1. cli[p].pc \in Busy /\ cli'[p].pc \in Busy
    BY <1>0, <1>2 DEF ResetCheckpoint, PurgeSnapshots, Cli
  <2>2. ~Leave(p)
    BY <2>1, IdleCliType DEF Leave
  <2> QED
    BY <1>2, <2>1, <2>2, WorkShape DEF Work, SetUp
<1>3. CASE Interrupted(p) \/ PhaseError(p) \/ Signal(p)
  <2>1. cli[p].pc \in Busy /\ cli'[p].pc \in Busy
    BY <1>0, <1>3 DEF Interrupted, PhaseError, Signal, Cli
  <2>2. ~Leave(p)
    BY <2>1, IdleCliType DEF Leave
  <2> QED
    BY <1>3, <2>1, <2>2, WorkShape DEF Work, Stop
<1> QED
  BY <1>1, <1>2, <1>3 DEF Quiet

LEMMA QuietExecuted ==
  ASSUME Typed, NEW p \in Proc, Quiet(p)
  PROVE  Executed(p) /\ Executed(p)' /\ GoesOn(p)
BY QuietShape DEF Executed, Running, Executing, Busy

LEMMA QuietRows == ASSUME Typed, NEW p \in Proc, Quiet(p) PROVE SameRows
<1> USE DEF Typed, TypeOK
<1>0. HasRun(p) /\ Active(p) /\ WellFormed(p) /\ cli[p] \in Cli
  BY QuietExecuted, ExecutedFacts
<1>1. UNCHANGED rows => SameRows
  BY DEF SameRows, Exists
<1>2. CASE OpenTier(p)
  BY <1>0, <1>2, StepType, CheckpointSameRows DEF OpenTier, PlanStep
<1>3. CASE EnterPhase(p)
  BY <1>0, <1>3, StepType, CheckpointSameRows DEF EnterPhase, MustRun, PlanStep
<1>4. CASE SyncTier(p)
  <2>1. cli[p].prof.tiers[cli[p].synced + 1] \in Tier
    BY <1>0, <1>4 DEF SyncTier, Cli, CliProfile
  <2> QED
    BY <1>0, <1>4, <2>1, PhaseFacts, CheckpointSameRows DEF SyncTier
<1>5. CASE SyncVersion(p)
  <2> DEFINE pin == Given(cli[p].prof.version, latest)
  <2>1. rows' = rows \/ rows' = [rows EXCEPT ![cli[p].run].version = pin]
    BY <1>5 DEF SyncVersion
  <2>2. pin \in Version \cup {None}
    BY <1>0 DEF Given, Cli, CliProfile
  <2> HIDE DEF pin
  <2>3. cli[p].run \in RunId /\ rows[cli[p].run] \in Row
    BY <1>0 DEF WellFormed
  <2>4. \A row \in Row : /\ [row EXCEPT !.version = pin].region = row.region
                         /\ [row EXCEPT !.version = pin].status = row.status
                         /\ [row EXCEPT !.version = pin] \in Row
    BY <2>2 DEF Row
  <2>5. CASE rows' = [rows EXCEPT ![cli[p].run].version = pin]
    BY <2>3, <2>4, <2>5, NoneIsNoRow DEF SameRows, Exists
  <2> QED
    BY <1>1, <2>1, <2>5
<1>6. CASE ResetCheckpoint(p)
  BY <1>0, <1>6, PhaseFacts, CheckpointSameRows DEF ResetCheckpoint
<1> QED
  BY <1>1, <1>2, <1>3, <1>4, <1>5, <1>6
  DEF Quiet, Execute, PurgeSnapshots, SkipDone, SkipIdle, Finish, FinishRankSync, CollectMatches,
      FinishCollect, ProcessBatch, FinishDrain, Interrupted, PhaseError, Signal

LEMMA QuietMapped == ASSUME Typed, NEW p \in Proc, Quiet(p) PROVE UNCHANGED Abstract!vars
<1>1. ASSUME NEW q \in Proc PROVE SameExecution(q)
  <2>1. CASE q = p
    BY <2>1, QuietExecuted, ExecutedFacts DEF SameExecution, GoesOn
  <2>2. CASE q # p
    BY <2>2, QuietExecuted DEF SameExecution, GoesOn, Executed, Running
  <2> QED
    BY <2>1, <2>2
<1> QED
  BY <1>1, QuietRows, StutterMapped

-----------------------------------------------------------------------------
(* The steps of CrawlRun, sorted by what RegionExecutor makes of them *)

\* The process ends without a last word about its run.
Dies(p) == Active(p) /\ Leave(p) /\ UNCHANGED rows

LEMMA StepKinds ==
  ASSUME [Next]_vars, ~SessionsMayDrop
  PROVE  \/ \E p \in Proc : \/ Quiet(p) \/ ReadActive(p) \/ Lookup(p) \/ Reactivate(p)
                            \/ \E i \in RunId : Create(p, i)
                            \/ Start(p) \/ Close(p) \/ Dies(p)
         \/ \E i \in RunId : Cancel(i)
         \/ UNCHANGED <<rows, cli>>
<1>1. ASSUME NEW p \in Proc, Disturb(p) PROVE Quiet(p) \/ Dies(p)
  <2>1. ASSUME AbortSetup(p) PROVE Dies(p)
    BY <2>1 DEF AbortSetup, Dies, Active, Setup
  <2>2. ASSUME CloseLost(p) \/ Crash(p) PROVE Dies(p)
    BY <2>2 DEF CloseLost, Crash, Dies, Active
  <2>3. ~LoseSession(p)
    BY DEF LoseSession
  <2> QED
    BY <1>1, <2>1, <2>2, <2>3 DEF Disturb, Quiet
<1> QED
  BY <1>1 DEF Next, Work, SetUp, Stop, Quiet, NewPatch, vars

\* A process works on the row of its own run only.
LEMMA OwnRow ==
  ASSUME Typed, NEW p \in Proc, Quiet(p) \/ Reactivate(p) \/ Close(p)
  PROVE  \A i \in RunId \ {cli[p].run} : rows'[i] = rows[i]
<1>1. ASSUME NEW k, NEW t, Checkpoint(p, k, t)
      PROVE  \A i \in RunId \ {cli[p].run} : rows'[i] = rows[i]
  BY <1>1 DEF Checkpoint, Typed, TypeOK
<1>2. CASE Reactivate(p)
  BY <1>2 DEF Reactivate, Typed, TypeOK
<1>3. CASE Close(p)
  BY <1>3 DEF Close, Typed, TypeOK
<1>4. CASE SyncVersion(p)
  <2> DEFINE pin == Given(cli[p].prof.version, latest)
  <2>1. rows' = rows \/ rows' = [rows EXCEPT ![cli[p].run].version = pin]
    BY <1>4 DEF SyncVersion
  <2> HIDE DEF pin
  <2> QED
    BY <2>1 DEF Typed, TypeOK
<1> QED
  BY <1>1, <1>2, <1>3, <1>4
  DEF Quiet, Execute, ResetCheckpoint, PurgeSnapshots, SkipDone, OpenTier, SkipIdle, EnterPhase,
      Finish, SyncTier, FinishRankSync, CollectMatches, FinishCollect, ProcessBatch, FinishDrain,
      Interrupted, PhaseError, Signal

\* Two processes that have a run have different ones.
LEMMA OwnRun ==
  ASSUME Exclusive, NEW p \in Proc, NEW q \in Proc, HasRun(p), HasRun(q),
         cli[p].run = cli[q].run
  PROVE  p = q
BY SameOwner DEF Exclusive, Homed, HasRun, Active

LEMMA LookupShape ==
  ASSUME Typed, NEW p \in Proc, Lookup(p), Resumable(rows[cli[p].run])
  PROVE  /\ cli'[p].pc \in {"reactivate", "reset", "plan"}
         /\ cli'[p].pc = "reactivate" => rows[cli[p].run].status = "failed"
         /\ cli'[p].run = cli[p].run /\ cli'[p].prof.region = cli[p].prof.region
         /\ \A q \in Proc \ {p} : cli'[q] = cli[q]
<1>0. cli[p] \in Cli
  BY DEF Typed, TypeOK
<1>1. /\ cli'[p].pc \in {"reactivate", "reset", "plan"}
      /\ cli'[p].pc = "reactivate" => rows[cli[p].run].status = "failed"
      /\ cli'[p].run = cli[p].run
      /\ cli'[p].prof = MergeFlags(rows[cli[p].run], cli[p].prof)
      /\ \A q \in Proc \ {p} : cli'[q] = cli[q]
  BY <1>0 DEF Lookup, Cli, Typed, TypeOK
<1>2. MergeFlags(rows[cli[p].run], cli[p].prof).region = cli[p].prof.region
  BY <1>0 DEF MergeFlags, Cli, CliProfile
<1> QED
  BY <1>1, <1>2

LEMMA ReactivateShape ==
  ASSUME Typed, NEW p \in Proc, Reactivate(p)
  PROVE  /\ cli'[p].pc \in {"reset", "plan"}
         /\ cli'[p].run = cli[p].run /\ cli'[p].prof.region = cli[p].prof.region
         /\ \A q \in Proc \ {p} : cli'[q] = cli[q]
BY DEF Reactivate, Typed, TypeOK, Cli

LEMMA StartPc ==
  ASSUME Typed, NEW p \in Proc, Start(p)
  PROVE  cli[p].pc = "idle" /\ cli'[p].pc \in {"check", "lookup"} /\ UNCHANGED rows
<1>1. ASSUME NEW prof \in Profiles, StartNew(p, prof)
      PROVE  cli[p].pc = "idle" /\ cli'[p].pc = "check" /\ UNCHANGED rows
  BY <1>1 DEF StartNew, Typed, TypeOK, Cli
<1>2. ASSUME NEW j \in RunId, NEW flags \in ResumeFlags, StartResume(p, j, flags)
      PROVE  cli[p].pc = "idle" /\ cli'[p].pc = "lookup" /\ UNCHANGED rows
  BY <1>2 DEF StartResume, Typed, TypeOK, Cli
<1> QED
  BY <1>1, <1>2 DEF Start

LEMMA LeaveShape ==
  ASSUME Typed, NEW p \in Proc, Leave(p)
  PROVE  cli'[p].pc = "idle" /\ \A q \in Proc \ {p} : cli'[q] = cli[q]
BY IdleCliType DEF Typed, TypeOK, Leave

LEMMA ReopensFailedStep ==
  ASSUME Refined, [Next]_vars, ~SessionsMayDrop
  PROVE  ReopensFailed'
<1> USE DEF Refined, Exclusive
<1> SUFFICES ASSUME NEW q \in Proc, cli'[q].pc = "reactivate"
             PROVE  rows'[cli'[q].run].status = "failed"
  BY DEF ReopensFailed
\* another process leaves the row of q alone
<1>1. ASSUME cli[q].pc = "reactivate", cli'[q] = cli[q], rows'[cli[q].run] = rows[cli[q].run]
      PROVE  rows'[cli'[q].run].status = "failed"
  BY <1>1 DEF ReopensFailed
<1>2. cli[q].pc = "reactivate" => HasRun(q) /\ cli[q].run \in RunId /\ rows[cli[q].run] \in Row
  BY DEF Typed, WellFormed, HasRun
<1>3. ASSUME NEW p \in Proc, Quiet(p) \/ Reactivate(p) \/ Close(p)
      PROVE  rows'[cli'[q].run].status = "failed"
  <2>1. HasRun(p) /\ cli'[p].pc # "reactivate" /\ \A o \in Proc \ {p} : cli'[o] = cli[o]
    <3>1. CASE Quiet(p)
      BY <3>1, QuietShape DEF Busy, HasRun, GoesOn
    <3>2. CASE Reactivate(p)
      BY <3>2, ReactivateShape DEF Reactivate, HasRun
    <3>3. CASE Close(p)
      BY <3>3, LeaveShape DEF Close, HasRun
    <3> QED
      BY <1>3, <3>1, <3>2, <3>3
  <2>2. p # q /\ cli'[q] = cli[q]
    BY <2>1
  <2>3. cli[q].run # cli[p].run
    BY <1>2, <2>1, <2>2, OwnRun
  <2> QED
    BY <1>1, <1>2, <1>3, <2>2, <2>3, OwnRow
<1>4. ASSUME NEW p \in Proc, ReadActive(p) \/ Start(p) \/ Dies(p)
      PROVE  rows'[cli'[q].run].status = "failed"
  <2>1. UNCHANGED rows /\ cli'[p].pc # "reactivate" /\ \A o \in Proc \ {p} : cli'[o] = cli[o]
    <3>1. CASE ReadActive(p)
      BY <3>1, LeaveShape DEF ReadActive, Typed, TypeOK, Cli
    <3>2. CASE Start(p)
      BY <3>2, StartPc, StartShape DEF Begins
    <3>3. CASE Dies(p)
      BY <3>3, LeaveShape DEF Dies
    <3> QED
      BY <1>4, <3>1, <3>2, <3>3
  <2> QED
    BY <1>1, <2>1
<1>5. ASSUME NEW p \in Proc, Lookup(p) PROVE rows'[cli'[q].run].status = "failed"
  <2>1. UNCHANGED rows
    BY <1>5 DEF Lookup
  <2>2. CASE ~Resumable(rows[cli[p].run])
    BY <1>1, <1>5, <2>1, <2>2, LeaveShape DEF Lookup
  <2>3. CASE Resumable(rows[cli[p].run])
    BY <1>1, <1>5, <2>1, <2>3, LookupShape
  <2> QED
    BY <2>2, <2>3
<1>6. ASSUME NEW p \in Proc, NEW i \in RunId, Create(p, i)
      PROVE  rows'[cli'[q].run].status = "failed"
  <2>1. p # q /\ cli'[q] = cli[q]
    BY <1>6, CreateRows
  <2>2. cli[q].run # i
    BY <1>2, <1>6, <2>1, CreateRows, NoneIsNoRow
  <2> QED
    BY <1>1, <1>2, <1>6, <2>1, <2>2, CreateRows
<1>7. ASSUME NEW i \in RunId, Cancel(i) PROVE rows'[cli'[q].run].status = "failed"
  <2>1. cli' = cli /\ rows' = [rows EXCEPT ![i].status = "failed"]
    BY <1>7 DEF Cancel
  <2>2. CASE cli[q].run = i
    BY <1>2, <2>1, <2>2 DEF Row, Typed, TypeOK
  <2>3. CASE cli[q].run # i
    BY <1>1, <1>2, <2>1, <2>3 DEF Typed, TypeOK
  <2> QED
    BY <2>2, <2>3
<1> QED
  BY <1>1, <1>3, <1>4, <1>5, <1>6, <1>7, StepKinds

-----------------------------------------------------------------------------
(* The actions of RegionExecutor, in terms of the mapping *)

LEMMA BeginMapped ==
  ASSUME NEW i \in RunId, NEW r \in Region, Executions[r] = {}, Statuses[i] = "none",
         \A j \in RunId : Homes[j] = r => Statuses[j] # "running",
         Statuses' = [Statuses EXCEPT ![i] = "running"], Homes' = [Homes EXCEPT ![i] = r],
         Executions' = [Executions EXCEPT ![r] = {i}]
  PROVE  Abstract!Next
<1>1. Abstract!Begin(i, r)
  BY DEF Abstract!Begin, Abstract!Idle, Statuses, Homes, Executions, ExecutingIn
<1> QED
  BY <1>1 DEF Abstract!Next

LEMMA ResumeMapped ==
  ASSUME NEW i \in RunId, NEW r \in Region, Executions[r] = {}, Homes[i] = r,
         Statuses[i] \in {"running", "failed"},
         Executions' = [Executions EXCEPT ![r] = {i}], Statuses' = Statuses, Homes' = Homes
  PROVE  Abstract!Next
<1>1. Abstract!Resume(i, r)
  BY DEF Abstract!Resume, Abstract!Idle, Statuses, Homes, Executions, ExecutingIn
<1> QED
  BY <1>1 DEF Abstract!Next

LEMMA ReopenMapped ==
  ASSUME NEW i \in RunId, NEW r \in Region, Executions[r] = {i}, Statuses[i] = "failed",
         Statuses' = [Statuses EXCEPT ![i] = "running"], Homes' = Homes, Executions' = Executions
  PROVE  Abstract!Next
<1>1. Abstract!Reopen(i, r)
  BY DEF Abstract!Reopen, Statuses, Homes, Executions, ExecutingIn
<1> QED
  BY <1>1 DEF Abstract!Next

LEMMA SettleMapped ==
  ASSUME NEW i \in RunId, NEW r \in Region, NEW final \in {"completed", "failed"},
         Executions[r] = {i}, Statuses' = [Statuses EXCEPT ![i] = final], Homes' = Homes,
         Executions' = [Executions EXCEPT ![r] = {}]
  PROVE  Abstract!Next
<1>1. Abstract!Settle(i, r, final)
  BY DEF Abstract!Settle, Statuses, Homes, Executions, ExecutingIn
<1> QED
  BY <1>1 DEF Abstract!Next

LEMMA AbandonMapped ==
  ASSUME NEW r \in Region, Statuses' = Statuses, Homes' = Homes,
         Executions' = [Executions EXCEPT ![r] = {}]
  PROVE  Abstract!Next
<1>1. Abstract!Abandon(r)
  BY DEF Abstract!Abandon, Statuses, Homes, Executions, ExecutingIn
<1> QED
  BY <1>1 DEF Abstract!Next

LEMMA CancelMapped ==
  ASSUME NEW i \in RunId, Statuses[i] # "none",
         Statuses' = [Statuses EXCEPT ![i] = "failed"], Homes' = Homes, Executions' = Executions
  PROVE  Abstract!Next
<1>1. Abstract!Cancel(i)
  BY DEF Abstract!Cancel, Statuses, Homes, Executions, ExecutingIn
<1> QED
  BY <1>1 DEF Abstract!Next

-----------------------------------------------------------------------------
(* The steps *)

LEMMA SameRowsUnchanged == ASSUME UNCHANGED rows PROVE SameRows
BY DEF SameRows, Exists

LEMMA CreateStep ==
  ASSUME Exclusive, NEW p \in Proc, NEW i \in RunId, Create(p, i)
  PROVE  Abstract!Next
<1> USE DEF Exclusive
<1> DEFINE r == cli[p].prof.region
<1>1. /\ cli[p].pc = "create" /\ Active(p) /\ ~Executed(p)
      /\ Executed(p)' /\ cli'[p].run = i /\ cli'[p].prof.region = r
      /\ \A q \in Proc \ {p} : cli'[q] = cli[q]
  BY CreateRows DEF Create, Active, Executed, Running, Executing
<1>2. r \in Region /\ Executions[r] = {} /\ Executions' = [Executions EXCEPT ![r] = {i}]
  BY <1>1, EnterMapped
<1>3. Statuses[i] = "none" /\ Homes[i] = None
  BY CreateRows DEF Statuses, Homes, Exists
<1>4. ASSUME NEW j \in RunId, Homes[j] = r PROVE Statuses[j] # "running"
  <2>1. Exists(j) /\ rows[j].region = r
    BY <1>2, <1>4, NoneFresh DEF Homes
  <2> QED
    BY <1>1, <2>1 DEF FreshCreate, RunningIn, Statuses
<1>5. Exists(i)' /\ rows'[i].status = "running" /\ rows'[i].region = r
  <2>1. rows'[i] = [status |-> "running", region |-> r, execution |-> cli[p].prof.execution,
                    tiers |-> cli[p].prof.tiers, version |-> cli[p].prof.version,
                    phase |-> 0, tier |-> None]
    BY DEF Create, Typed, TypeOK
  <2>2. rows'[i] \in Row
    <3>1. cli[p] \in Cli /\ cli[p].prof.execution \in Execution
      BY <1>1 DEF Typed, TypeOK, WellFormed
    <3> QED
      BY <1>2, <2>1, <3>1, PhaseFacts DEF Row, Cli, CliProfile
  <2> QED
    BY <2>1, <2>2, NoneIsNoRow DEF Exists
<1>6. \A j \in RunId \ {i} : rows'[j] = rows[j] /\ (Exists(j)' <=> Exists(j))
  BY CreateRows DEF Exists
<1>7. Statuses' = [Statuses EXCEPT ![i] = "running"]
  <2>1. \A j \in RunId : Statuses'[j] = IF j = i THEN "running" ELSE Statuses[j]
    BY <1>5, <1>6 DEF Statuses
  <2> QED
    BY <2>1 DEF Statuses
<1>8. Homes' = [Homes EXCEPT ![i] = r]
  <2>1. \A j \in RunId : Homes'[j] = IF j = i THEN r ELSE Homes[j]
    BY <1>5, <1>6 DEF Homes
  <2> QED
    BY <2>1 DEF Homes
<1> HIDE DEF r
<1> QED
  BY <1>2, <1>3, <1>4, <1>7, <1>8, BeginMapped

LEMMA LookupStep ==
  ASSUME Exclusive, NEW p \in Proc, Lookup(p)
  PROVE  Abstract!Next
<1> USE DEF Exclusive
<1> DEFINE r == cli[p].prof.region
           i == cli[p].run
<1>1. /\ Active(p) /\ HasRun(p) /\ ~Executed(p) /\ rows' = rows
      /\ i \in RunId /\ rows[i] \in Row
  BY DEF Lookup, Active, HasRun, Executed, Running, Executing, Typed, WellFormed
<1>2. Statuses' = Statuses /\ Homes' = Homes
  BY <1>1, SameRowsUnchanged, RowsMapped
<1>3. CASE ~Resumable(rows[i])
  <2>1. Leave(p)
    BY <1>3 DEF Lookup
  <2> QED
    BY <1>1, <1>2, <2>1, LeaveMapped, AbandonMapped
<1>4. CASE Resumable(rows[i])
  <2>1. Executed(p)' /\ cli'[p].run = i /\ r = cli'[p].prof.region
    BY <1>4, LookupShape DEF Executed, Running, Executing
  <2>2. \A q \in Proc \ {p} : cli'[q] = cli[q]
    BY <1>4, LookupShape
  <2>3. r \in Region /\ Executions[r] = {} /\ Executions' = [Executions EXCEPT ![r] = {i}]
    BY <1>1, <2>1, <2>2, EnterMapped
  <2>4. Exists(i) /\ rows[i].region = r
    BY <1>1, NoneIsNoRow DEF Exists, Homed
  <2>5. Homes[i] = r /\ Statuses[i] \in {"running", "failed"}
    BY <1>1, <1>4, <2>4 DEF Homes, Statuses, Resumable
  <2> HIDE DEF r, i
  <2> QED
    BY <1>1, <1>2, <2>3, <2>5, ResumeMapped
<1> QED
  BY <1>3, <1>4

LEMMA ReactivateStep ==
  ASSUME Refined, NEW p \in Proc, Reactivate(p)
  PROVE  Abstract!Next
<1> USE DEF Refined, Exclusive
<1> DEFINE r == cli[p].prof.region
           i == cli[p].run
<1>1. /\ Executed(p) /\ Executed(p)' /\ cli'[p].run = i /\ cli'[p].prof.region = r
      /\ \A q \in Proc \ {p} : cli'[q] = cli[q]
  BY ReactivateShape DEF Reactivate, Executed, Running, Executing
<1>2. /\ Active(p) /\ r \in Region /\ i \in RunId /\ rows[i] \in Row /\ Exists(i)
      /\ rows[i].status = "failed"
  BY <1>1, ExecutedFacts DEF ReopensFailed, Reactivate
<1>3. Executions[r] = {i}
  BY <1>1, <1>2, OwnRegion DEF Executions
<1>4. ASSUME NEW q \in Proc PROVE SameExecution(q)
  BY <1>1 DEF SameExecution, Executed, Running
<1>5. Executions' = Executions
  BY <1>4, ExecutionsMapped DEF Executions
<1>6. Statuses[i] = "failed"
  BY <1>2 DEF Statuses
<1>7. Homes' = Homes /\ Statuses' = [Statuses EXCEPT ![i] = "running"]
  BY <1>2, StatusMapped DEF Reactivate
<1> HIDE DEF r, i
<1> QED
  BY <1>2, <1>3, <1>5, <1>6, <1>7, ReopenMapped

LEMMA CloseStep ==
  ASSUME Exclusive, NEW p \in Proc, Close(p)
  PROVE  Abstract!Next
<1> USE DEF Exclusive
<1> DEFINE r == cli[p].prof.region
           i == cli[p].run
<1>1. Executed(p) /\ Leave(p)
  BY DEF Close, Executed, Running, Executing
<1>2. Active(p) /\ r \in Region /\ i \in RunId /\ rows[i] \in Row
  BY <1>1, ExecutedFacts
<1>3. Executions[r] = {i} /\ Executions' = [Executions EXCEPT ![r] = {}]
  BY <1>1, <1>2, OwnRegion, LeaveMapped DEF Executions
<1>4. ASSUME NEW final \in {"completed", "failed"}, rows' = [rows EXCEPT ![i].status = final]
      PROVE  Abstract!Next
  <2>1. Homes' = Homes /\ Statuses' = [Statuses EXCEPT ![i] = final]
    BY <1>2, <1>4, StatusMapped
  <2> HIDE DEF r, i
  <2> QED
    BY <1>2, <1>3, <2>1, SettleMapped
<1>5. CASE UNCHANGED rows
  BY <1>2, <1>3, <1>5, SameRowsUnchanged, RowsMapped, AbandonMapped
<1> QED
  BY <1>4, <1>5 DEF Close

LEMMA CancelStep ==
  ASSUME Exclusive, NEW i \in RunId, Cancel(i)
  PROVE  Abstract!Next
<1> USE DEF Exclusive
<1>1. rows[i] \in Row /\ Exists(i) /\ rows[i].status # "none"
  BY DEF Cancel, Exists, Typed, TypeOK, Row
<1>2. Homes' = Homes /\ Statuses' = [Statuses EXCEPT ![i] = "failed"] /\ Statuses[i] # "none"
  BY <1>1, StatusMapped DEF Cancel, Statuses
<1>3. Executions' = Executions
  BY DEF Cancel, Executions, ExecutingIn, Executed, Running
<1> QED
  BY <1>2, <1>3, CancelMapped

LEMMA RefinedStep ==
  ASSUME Refined, [Next]_vars, ~SessionsMayDrop
  PROVE  [Abstract!Next]_(Abstract!vars)
<1> USE DEF Refined, Exclusive
<1>1. ASSUME NEW p \in Proc, ReadActive(p) PROVE [Abstract!Next]_(Abstract!vars)
  <2>1. CASE Leave(p)
    <3>1. Dies(p)
      BY <1>1, <2>1 DEF ReadActive, Dies, Active
    <3> QED
      BY <2>1, <3>1, SameRowsUnchanged, RowsMapped, LeaveMapped, AbandonMapped DEF Dies
  <2>2. CASE ~Leave(p)
    <3>1. cli[p].pc = "check" /\ cli'[p].pc = "create" /\ UNCHANGED rows
          /\ \A q \in Proc \ {p} : cli'[q] = cli[q]
      BY <1>1, <2>2 DEF ReadActive, Typed, TypeOK, Cli
    <3>2. \A q \in Proc : SameExecution(q)
      BY <3>1 DEF SameExecution, Executed, Running, Executing
    <3> QED
      BY <3>1, <3>2, SameRowsUnchanged, StutterMapped
  <2> QED
    BY <2>1, <2>2
<1>2. ASSUME NEW p \in Proc, Start(p) PROVE UNCHANGED Abstract!vars
  <2>1. /\ cli[p].pc = "idle" /\ cli'[p].pc \in {"check", "lookup"} /\ UNCHANGED rows
        /\ \A q \in Proc \ {p} : cli'[q] = cli[q]
    BY <1>2, StartPc, StartShape DEF Begins
  <2>2. \A q \in Proc : SameExecution(q)
    BY <2>1 DEF SameExecution, Executed, Running, Executing
  <2> QED
    BY <2>1, <2>2, SameRowsUnchanged, StutterMapped
<1>3. ASSUME NEW p \in Proc, Dies(p) PROVE Abstract!Next
  BY <1>3, SameRowsUnchanged, RowsMapped, LeaveMapped, AbandonMapped DEF Dies
<1>4. CASE UNCHANGED <<rows, cli>>
  <2>1. \A q \in Proc : SameExecution(q)
    BY <1>4 DEF SameExecution, Executed, Running
  <2> QED
    BY <1>4, <2>1, SameRowsUnchanged, StutterMapped
<1> QED
  BY <1>1, <1>2, <1>3, <1>4, StepKinds, QuietMapped, CreateStep, LookupStep, ReactivateStep,
     CloseStep, CancelStep

\* For every number of processes, regions and runs, every list of phases and any
\* number of crashes, signals, failed calls and cancels, the crawler implements
\* RegionExecutor: one run per region at a time, no run created beside a running
\* one, none executed again once it is completed (runner.go:41-127).  Sessions
\* must last as long as their process, and resumes must not name another region.
THEOREM Implements ==
  ASSUME ~SessionsMayDrop, PlainResumes
  PROVE  Spec => ImplementsRegionExecutor
<1>1. Init => Abstract!Init /\ ReopensFailed
  BY IdleCliType
  DEF Init, ReopensFailed, Abstract!Init, Exists, Executed, Running, Executing
<1>2. Exclusive /\ ReopensFailed /\ [Next]_vars => ReopensFailed'
  BY ReopensFailedStep DEF Refined
<1>3. Exclusive /\ ReopensFailed /\ [Next]_vars => [Abstract!Next]_(Abstract!vars)
  BY RefinedStep DEF Refined
<1> QED
  BY <1>1, <1>2, <1>3, ExclusiveInvariant, PTL
  DEF Spec, ImplementsRegionExecutor, Abstract!Spec

-----------------------------------------------------------------------------
(***************************************************************************)
(* What a run of CrawlRun carries from one execution to the next: the game *)
(* version it is pinned to and the snapshots of its players.               *)
(*                                                                         *)
(* A process reads the row of its run once, in Lookup, and goes on with    *)
(* what it read; the row is the run's own as long as nobody else executes  *)
(* it.  The invariants here relate the two, in the states of Exclusive.    *)
(***************************************************************************)

-----------------------------------------------------------------------------
(* Plans begin with phases 0 and 1 *)

RankSyncOnce == \A n \in 1..Len(PerTierPhaseIDs) : PerTierPhaseIDs[n] # 1

LEMMA PlanBegins ==
  ASSUME NEW prof \in CliProfile, NEW n \in 1..Len(Plan(prof))
  PROVE  /\ n = 1 => Plan(prof)[n].phase = 0
         /\ n = 2 => Plan(prof)[n].phase = 1
         /\ Plan(prof)[n].opensTier => n > 2
         /\ n > 2 /\ RankSyncOnce => Plan(prof)[n].phase # 1
<1>0. PhaseOrder[1] = 0 /\ PhaseOrder[2] = 1 /\ Len(PhaseOrder) \in Nat /\ Len(PhaseOrder) >= 2
  BY ConstantsAssumption DEF ConstantsAssumption
<1>1. CASE prof.execution = "sequential"
  <2>1. n \in 1..Len(PhaseOrder) /\ Plan(prof)[n] = PhaseStep(PhaseOrder[n], None)
    BY <1>0, <1>1 DEF Plan, SequentialPlan
  <2>2. n > 2 => PhaseOrder[n] # 1
    BY <1>0, <2>1, ConstantsAssumption DEF ConstantsAssumption
  <2> QED
    BY <1>0, <2>1, <2>2 DEF PhaseStep
<1>2. CASE prof.execution # "sequential"
  <2> DEFINE w == 1 + Len(PerTierPhaseIDs)
             l == Len(prof.tiers)
             t == prof.tiers[((n - 3) \div w) + 1]
  <2>1. w \in Nat \ {0} /\ l \in Nat /\ Len(PerTierPhaseIDs) \in Nat \ {0}
    BY PhaseFacts DEF CliProfile
  <2>2. n \in 1..(2 + w * l)
    <3>1. Plan(prof) = PipelinePlan(prof.tiers) /\ Plan(prof) \in Seq(PlanStep)
      BY <1>2, PlanType DEF Plan
    <3>2. DOMAIN PipelinePlan(prof.tiers) = 1..(2 + w * l)
      BY DEF PipelinePlan
    <3>3. DOMAIN Plan(prof) = 1..Len(Plan(prof))
      BY <3>1
    <3> HIDE DEF w, l
    <3> QED
      BY <3>1, <3>2, <3>3
  <2>3. Plan(prof)[n] = IF n <= 2 THEN PhaseStep(PhaseOrder[n], None)
                        ELSE IF (n - 3) % w = 0 THEN TierStep(t)
                        ELSE PhaseStep(PerTierPhaseIDs[(n - 3) % w], t)
    BY <1>2, <2>1, <2>2 DEF Plan, PipelinePlan
  <2>4. ASSUME n > 2, RankSyncOnce, (n - 3) % w # 0 PROVE PerTierPhaseIDs[(n - 3) % w] # 1
    <3>1. n - 3 \in Nat
      BY <2>2, <2>4
    <3> HIDE DEF w
    <3>2. (n - 3) % w \in 0..(w - 1)
      BY <2>1, <3>1
    <3>3. (n - 3) % w \in 1..Len(PerTierPhaseIDs)
      BY <2>1, <2>4, <3>2 DEF w
    <3> QED
      BY <2>4, <3>3 DEF RankSyncOnce
  <2>5. RankSyncOnce => PerTierPhaseIDs[1] # 1
    BY <2>1 DEF RankSyncOnce
  <2> HIDE DEF w, l, t
  <2>6. CASE n <= 2
    BY <1>0, <2>2, <2>3, <2>6 DEF PhaseStep
  <2>7. CASE n > 2
    BY <2>2, <2>3, <2>4, <2>5, <2>7 DEF PhaseStep, TierStep
  <2> QED
    BY <2>2, <2>6, <2>7
<1> QED
  BY <1>1, <1>2

LEMMA StepBegins ==
  ASSUME Typed, NEW p \in Proc, Active(p), MorePhases(p)
  PROVE  /\ cli[p].pos = 1 => Step(p).phase = 0
         /\ cli[p].pos = 2 => Step(p).phase = 1
         /\ Step(p).opensTier => cli[p].pos > 2
         /\ cli[p].pos > 2 /\ RankSyncOnce => Step(p).phase # 1
<1>1. cli[p].prof \in CliProfile /\ cli[p].pos \in Nat /\ cli[p].pos >= 1
  BY DEF Typed, TypeOK, Cli, WellFormed
<1>2. cli[p].pos \in 1..Len(Plan(cli[p].prof))
  BY <1>1, PlanType DEF MorePhases, Steps
<1> QED
  BY <1>1, <1>2, PlanBegins DEF Step, Steps

LEMMA DoneBegins ==
  ASSUME NEW k, k \notin {0, 1}
  PROVE  0 \in DoneBefore(k) /\ 1 \in DoneBefore(k)
<1>1. PhaseOrder[1] = 0 /\ PhaseOrder[2] = 1 /\ Len(PhaseOrder) \in Nat /\ Len(PhaseOrder) >= 2
  BY ConstantsAssumption DEF ConstantsAssumption
<1>2. 1 \in {m \in 1..Len(PhaseOrder) : \A j \in 1..m : PhaseOrder[j] # k}
  BY <1>1
<1>3. 2 \in {m \in 1..Len(PhaseOrder) : \A j \in 1..m : PhaseOrder[j] # k}
  BY <1>1
<1> QED
  BY <1>1, <1>2, <1>3 DEF DoneBefore

-----------------------------------------------------------------------------
(* What the set-up hands to a strategy *)

\* The set-up stands in front of the plan; a process that is to rewind counts
\* nothing as done, and one that is not counts phases 0 and 1 as done.
Prepared(p) ==
  /\ cli[p].pc \in Setup \cup {"idle"} => cli[p].pos = 1
  /\ cli[p].pc \in {"idle", "check", "create", "lookup", "reset", "purge"} => cli[p].done = {}
  /\ cli[p].done # {} => 0 \in cli[p].done /\ 1 \in cli[p].done
  /\ cli[p].pc = "phase" => Step(p).phase \notin cli[p].done

AllPrepared == \A p \in Proc : Prepared(p)

LEMMA PreparedOthers ==
  ASSUME NEW q \in Proc, cli'[q] = cli[q], Prepared(q)
  PROVE  Prepared(q)'
BY DEF Prepared, Step, Steps

LEMMA PreparedIdle ==
  ASSUME Typed, NEW p \in Proc, Leave(p)
  PROVE  Prepared(p)'
<1>1. cli'[p] = IdleCli
  BY DEF Leave, Typed, TypeOK
<1> QED
  BY <1>1 DEF Prepared, IdleCli

\* Steps that only move the program counter within an execution.
LEMMA PreparedMove ==
  ASSUME NEW p \in Proc, Prepared(p), cli'[p].done = cli[p].done,
         cli'[p].pc \in {"plan", "close"}
  PROVE  Prepared(p)'
BY DEF Prepared, Setup

LEMMA PreparedStep ==
  ASSUME Typed, AllPrepared, [Next]_vars
  PROVE  AllPrepared'
<1> USE DEF Typed, TypeOK
<1> SUFFICES ASSUME NEW p \in Proc, cli'[p] # cli[p] PROVE Prepared(p)'
  BY PreparedOthers DEF AllPrepared
<1>0. cli[p] \in Cli /\ Prepared(p)
  BY DEF AllPrepared
<1>1. ASSUME Leave(p) PROVE Prepared(p)'
  BY <1>1, PreparedIdle
<1>2. ASSUME cli' = Advance(p) PROVE Prepared(p)'
  <2>1. cli'[p].pc = "plan" /\ cli'[p].done = cli[p].done
    BY <1>0, <1>2 DEF Advance, Cli
  <2> QED
    BY <1>0, <2>1, PreparedMove
<1>3. ASSUME ReadActive(p) \/ (\E i \in RunId : Create(p, i)) PROVE Prepared(p)'
  <2>1. CASE Leave(p)
    BY <1>1, <2>1
  <2>2. CASE ~Leave(p)
    <3>1. /\ cli[p].pc \in {"check", "create"}
          /\ cli'[p].pc \in {"create", "plan"} /\ cli'[p].done = cli[p].done /\ cli'[p].pos = cli[p].pos
      BY <1>0, <1>3, <2>2 DEF ReadActive, Create, Cli
    <3> QED
      BY <1>0, <3>1 DEF Prepared, Setup
  <2> QED
    BY <2>1, <2>2
<1>4. ASSUME Lookup(p) PROVE Prepared(p)'
  <2> DEFINE row == rows[cli[p].run]
  <2>1. CASE Leave(p)
    BY <1>1, <2>1
  <2>2. CASE ~Leave(p)
    <3>1. cli[p].pc = "lookup" /\ cli'[p].pos = cli[p].pos
      BY <1>0, <1>4, <2>2 DEF Lookup, Cli
    <3>2. cli'[p].pc = IF row.status = "failed" THEN "reactivate"
                       ELSE IF Rewinds(row) THEN "reset" ELSE "plan"
      BY <1>0, <1>4, <2>2 DEF Lookup, Cli
    <3>3. cli'[p].done = IF Rewinds(row) THEN {} ELSE DoneBefore(row.phase)
      <4> DEFINE pc == IF row.status = "failed" THEN "reactivate"
                       ELSE IF Rewinds(row) THEN "reset" ELSE "plan"
                 done == IF Rewinds(row) THEN {} ELSE DoneBefore(row.phase)
      <4>1. cli' = [cli EXCEPT ![p].pc = pc, ![p].done = done, ![p].prof = MergeFlags(row, @)]
        BY <1>4, <2>2 DEF Lookup
      <4> HIDE DEF pc, done, row
      <4>2. cli'[p].done = done
        BY <1>0, <4>1 DEF Cli
      <4> QED
        BY <4>2 DEF done
    <3>4. ~Rewinds(row) => row.phase \notin {0, 1}
      BY DEF Rewinds
    <3> HIDE DEF row
    <3> QED
      BY <1>0, <3>1, <3>2, <3>3, <3>4, DoneBegins DEF Prepared, Setup
  <2> QED
    BY <2>1, <2>2
<1>5. ASSUME Reactivate(p) \/ ResetCheckpoint(p) \/ PurgeSnapshots(p) PROVE Prepared(p)'
  <2>1. cli'[p].done = cli[p].done /\ cli'[p].pos = cli[p].pos
    BY <1>0, <1>5 DEF Reactivate, ResetCheckpoint, PurgeSnapshots, Cli
  <2>2. CASE Reactivate(p)
    <3>1. cli[p].pc = "reactivate" /\ cli'[p].pc = IF cli[p].done = {} THEN "reset" ELSE "plan"
      BY <1>0, <2>2 DEF Reactivate, Cli
    <3> QED
      BY <1>0, <2>1, <3>1 DEF Prepared, Setup
  <2>3. CASE ResetCheckpoint(p) \/ PurgeSnapshots(p)
    <3>1. cli[p].pc \in {"reset", "purge"} /\ cli'[p].pc \in {"purge", "plan"}
      BY <1>0, <2>3 DEF ResetCheckpoint, PurgeSnapshots, Cli
    <3> QED
      BY <1>0, <2>1, <3>1 DEF Prepared, Setup
  <2> QED
    BY <1>5, <2>2, <2>3
<1>6. ASSUME EnterPhase(p) PROVE Prepared(p)'
  <2>1. /\ cli'[p].pc = "phase" /\ cli'[p].done = cli[p].done /\ Step(p)' = Step(p)
        /\ Step(p).phase \notin cli[p].done
    BY <1>0, <1>6 DEF EnterPhase, MustRun, Cli, Step, Steps
  <2> QED
    BY <1>0, <2>1 DEF Prepared, Setup
<1>7. ASSUME SyncTier(p) \/ Signal(p) PROVE Prepared(p)'
  <2>1. /\ cli'[p].pc = cli[p].pc /\ cli'[p].pc \in {"plan", "phase"}
        /\ cli'[p].done = cli[p].done /\ Step(p)' = Step(p)
    <3>1. CASE SyncTier(p)
      BY <1>0, <3>1 DEF SyncTier, InPhase, Cli, Step, Steps
    <3>2. CASE Signal(p)
      BY <1>0, <3>2 DEF Signal, Cli, Step, Steps
    <3> QED
      BY <1>7, <3>1, <3>2
  <2> QED
    BY <1>0, <2>1 DEF Prepared, Setup
<1>8. ASSUME SyncVersion(p) PROVE Prepared(p)'
  <2> DEFINE pin == Given(cli[p].prof.version, latest)
  <2>1. cli' = [Advance(p) EXCEPT ![p].prof.version = pin]
    BY <1>8 DEF SyncVersion
  <2> HIDE DEF pin
  <2>2. cli'[p].pc = "plan" /\ cli'[p].done = cli[p].done
    BY <1>0, <2>1 DEF Advance, Cli
  <2> QED
    BY <1>0, <2>2, PreparedMove
<1>9. ASSUME Finish(p) \/ PhaseError(p) \/ Interrupted(p) PROVE Prepared(p)'
  <2>1. cli'[p].pc = "close" /\ cli'[p].done = cli[p].done
    BY <1>0, <1>9 DEF Finish, PhaseError, Interrupted, Cli
  <2> QED
    BY <1>0, <2>1, PreparedMove
<1>10. ASSUME Start(p) PROVE Prepared(p)'
  <2>1. cli'[p].pos = cli[p].pos /\ cli'[p].done = cli[p].done
    <3>1. ASSUME NEW prof \in Profiles, StartNew(p, prof) PROVE <2>1!1 /\ <2>1!2
      BY <1>0, <3>1 DEF StartNew, Cli
    <3>2. ASSUME NEW i \in RunId, NEW flags \in ResumeFlags, StartResume(p, i, flags)
          PROVE  <2>1!1 /\ <2>1!2
      BY <1>0, <3>2 DEF StartResume, Cli
    <3> QED
      BY <1>10, <3>1, <3>2 DEF Start
  <2> QED
    BY <1>0, <1>10, <2>1, StartPc DEF Prepared, Setup
<1>11. ASSUME NEW q \in Proc, q # p, Work(q) \/ Start(q) \/ Disturb(q) PROVE FALSE
  <2>1. ASSUME cli' = Advance(q) PROVE FALSE
    BY <1>11, <2>1 DEF Advance
  <2>2. ASSUME Leave(q) PROVE FALSE
    BY <1>11, <2>2, LeaveShape
  <2>3. ~Work(q) \/ GoesOn(q)
    BY <1>11, <2>2, WorkShape
  <2> QED
    BY <1>11, <2>2, <2>3, StartShape, WorkShape
    DEF Begins, GoesOn, Disturb, AbortSetup, CloseLost, Crash, LoseSession
<1>12. ASSUME Execute(p) PROVE Prepared(p)'
  <2>1. ~CollectMatches(p) /\ \A k \in DrainPhase : ~ProcessBatch(p, k)
    BY DEF CollectMatches, ProcessBatch
  <2> QED
    BY <1>2, <1>6, <1>7, <1>8, <1>9, <1>12, <2>1
    DEF Execute, SkipDone, OpenTier, SkipIdle, FinishRankSync, FinishCollect, FinishDrain
<1>13. ASSUME Work(p) \/ Disturb(p) PROVE Prepared(p)'
  BY <1>1, <1>3, <1>4, <1>5, <1>7, <1>9, <1>12, <1>13
  DEF Work, SetUp, Stop, Disturb, Close, AbortSetup, CloseLost, Crash, LoseSession
<1>14. \E q \in Proc : Work(q) \/ Start(q) \/ Disturb(q)
  BY DEF Next, Cancel, NewPatch, vars
<1> QED
  BY <1>10, <1>11, <1>13, <1>14

-----------------------------------------------------------------------------
(* The version of a run *)

VersionFromRow == \A flags \in ResumeFlags : flags.version = None

\* A checkpoint past phase 0 is only written for a run that has its version, and
\* the process that executes a run works for the version in the row.
PinnedRow(row) == row.phase # 0 => row.version # None

PinnedProc(p) ==
  /\ cli[p].pc = "lookup" => cli[p].prof.version = None
  /\ Executed(p) => cli[p].prof.version = rows[cli[p].run].version
  /\ cli[p].pos > 1 \/ cli[p].done # {} => cli[p].prof.version # None

Pinned == (\A i \in RunId : Exists(i) => PinnedRow(rows[i])) /\ (\A p \in Proc : PinnedProc(p))

\* A step of p that changes the row of no other run.
LEMMA PinnedOwn ==
  ASSUME Exclusive, Pinned, NEW p \in Proc, HasRun(p),
         \A q \in Proc \ {p} : cli'[q] = cli[q],
         \A i \in RunId \ {cli[p].run} : rows'[i] = rows[i],
         PinnedProc(p)', PinnedRow(rows'[cli[p].run])
  PROVE  Pinned'
<1>1. ASSUME NEW i \in RunId PROVE Exists(i)' => PinnedRow(rows'[i])
  BY <1>1 DEF Pinned, Exists
<1>2. ASSUME NEW q \in Proc, q # p PROVE PinnedProc(q)'
  <2>1. Executed(q)' => Executed(q)
    BY <1>2 DEF Executed, Running
  <2>2. Executed(q) => rows'[cli[q].run] = rows[cli[q].run]
    BY <1>2, ExecutedFacts, OwnRun DEF Exclusive
  <2> QED
    BY <1>2, <2>1, <2>2 DEF Pinned, PinnedProc
<1> QED
  BY <1>1, <1>2 DEF Pinned

\* A checkpoint of a run that has its version, or the one of phase 0.
LEMMA PinnedCheckpoint ==
  ASSUME Typed, NEW p \in Proc, Executed(p), PinnedProc(p),
         NEW k \in Phase, NEW t \in Tier \cup {None}, Checkpoint(p, k, t),
         k = 0 \/ cli[p].prof.version # None
  PROVE  /\ PinnedRow(rows'[cli[p].run])
         /\ rows'[cli[p].run].version = rows[cli[p].run].version
         /\ \A i \in RunId \ {cli[p].run} : rows'[i] = rows[i]
<1>1. cli[p].run \in RunId /\ rows[cli[p].run] \in Row
  BY ExecutedFacts
<1>2. \A row \in Row : /\ [row EXCEPT !.phase = k, !.tier = t].version = row.version
                       /\ [row EXCEPT !.phase = k, !.tier = t].phase = k
  BY DEF Row
<1>3. rows'[cli[p].run] = [rows[cli[p].run] EXCEPT !.phase = k, !.tier = t]
  BY <1>1 DEF Checkpoint, Typed, TypeOK
<1> QED
  BY <1>1, <1>2, <1>3 DEF Checkpoint, Typed, TypeOK, PinnedRow, PinnedProc

\* Steps that leave the row of the run alone.
LEMMA PinnedQuietRow ==
  ASSUME Pinned, NEW i \in RunId, rows[i] \in Row, rows'[i] = rows[i]
  PROVE  PinnedRow(rows'[i])
BY NoneIsNoRow DEF Pinned, Exists

\* In front of a phase other than 0, a process knows the version of its run.
LEMMA PastPhase0 ==
  ASSUME Typed, AllPrepared, Pinned, NEW p \in Proc, cli[p].pc \in {"plan", "phase"}, MorePhases(p),
         Step(p).phase # 0 \/ Step(p).opensTier \/ Step(p).phase \in cli[p].done
  PROVE  cli[p].prof.version # None
<1>1. cli[p].pos \in Nat /\ cli[p].pos >= 1 /\ Active(p)
  BY DEF Typed, TypeOK, Cli, WellFormed, Active
<1>2. cli[p].pos > 1 \/ cli[p].done # {}
  BY <1>1, StepBegins
<1> QED
  BY <1>2 DEF Pinned, PinnedProc

LEMMA PinnedExecute ==
  ASSUME Exclusive, AllPrepared, Pinned, NEW p \in Proc, Execute(p)
  PROVE  Pinned'
<1> USE DEF Exclusive
<1>0. /\ cli[p] \in Cli /\ Executed(p) /\ HasRun(p) /\ Active(p) /\ cli[p].run \in RunId
      /\ rows[cli[p].run] \in Row /\ PinnedProc(p)
      /\ Executed(p)' /\ \A q \in Proc \ {p} : cli'[q] = cli[q]
  <2>1. Quiet(p)
    BY DEF Quiet
  <2> QED
    BY <2>1, QuietExecuted, ExecutedFacts DEF Typed, TypeOK, Pinned, GoesOn
<1>r. \A i \in RunId \ {cli[p].run} : rows'[i] = rows[i]
  BY OwnRow DEF Quiet
\* advancing with the same version
<1>1. ASSUME cli[p].prof.version # None, rows'[cli[p].run].version = rows[cli[p].run].version,
             cli'[p].pc \in {"plan", "phase", "close"},
             cli'[p].run = cli[p].run, cli'[p].prof = cli[p].prof
      PROVE  PinnedProc(p)'
  BY <1>0, <1>1 DEF PinnedProc
<1>2. ASSUME cli' = Advance(p)
      PROVE  cli'[p].pc = "plan" /\ cli'[p].run = cli[p].run /\ cli'[p].prof = cli[p].prof
  BY <1>0, <1>2 DEF Advance, Cli, Typed, TypeOK
<1>3. CASE SkipDone(p) \/ SkipIdle(p)
  <2>1. cli[p].pc = "plan" /\ MorePhases(p) /\ cli' = Advance(p) /\ rows' = rows
    BY <1>3 DEF SkipDone, SkipIdle, MustRun
  <2>2. Step(p).phase \in cli[p].done \/ Step(p).phase # 0
    BY <1>3 DEF SkipDone, SkipIdle, IsDone, DrainPhase
  <2>3. cli[p].prof.version # None
    BY <2>1, <2>2, PastPhase0
  <2> QED
    BY <1>0, <1>1, <1>2, <1>r, <2>1, <2>3, PinnedOwn, PinnedQuietRow
<1>4. CASE OpenTier(p)
  <2>1. cli[p].pc = "plan" /\ MorePhases(p) /\ cli' = Advance(p) /\ Step(p) \in PlanStep
        /\ cli[p].prof.version # None
    BY <1>0, <1>4, StepType, PastPhase0 DEF OpenTier
  <2>2. Checkpoint(p, Step(p).phase, Step(p).tier)
    BY <1>4 DEF OpenTier
  <2> QED
    BY <1>0, <1>1, <1>2, <1>r, <2>1, <2>2, PinnedOwn, PinnedCheckpoint DEF PlanStep
<1>5. CASE EnterPhase(p)
  <2>1. /\ cli[p].pc = "plan" /\ MorePhases(p) /\ Step(p) \in PlanStep
        /\ Checkpoint(p, Step(p).phase, Step(p).tier)
    BY <1>0, <1>5, StepType DEF EnterPhase, MustRun
  <2>2. Step(p).phase = 0 \/ cli[p].prof.version # None
    BY <2>1, PastPhase0
  <2>3. PinnedRow(rows'[cli[p].run]) /\ rows'[cli[p].run].version = rows[cli[p].run].version
    BY <1>0, <2>1, <2>2, PinnedCheckpoint DEF PlanStep
  <2>4. /\ cli'[p].run = cli[p].run /\ cli'[p].prof = cli[p].prof /\ cli'[p].pc = "phase"
        /\ cli'[p].pos = cli[p].pos /\ cli'[p].done = cli[p].done
    BY <1>0, <1>5 DEF EnterPhase, Cli, Typed, TypeOK
  <2>5. PinnedProc(p)'
    BY <1>0, <2>3, <2>4 DEF PinnedProc
  <2> QED
    BY <1>0, <1>r, <2>3, <2>5, PinnedOwn
<1>6. CASE SyncTier(p)
  <2>1. Step(p).phase = 1 /\ cli[p].pc = "phase" /\ MorePhases(p)
    BY <1>6 DEF SyncTier, InPhase, Typed, WellFormed
  <2>2. cli[p].prof.version # None
    BY <2>1, PastPhase0
  <2>3. cli[p].prof.tiers[cli[p].synced + 1] \in Tier
    BY <1>0, <1>6 DEF SyncTier, Cli, CliProfile
  <2>4. Checkpoint(p, 1, cli[p].prof.tiers[cli[p].synced + 1])
    BY <1>6 DEF SyncTier
  <2>5. cli'[p].run = cli[p].run /\ cli'[p].prof = cli[p].prof /\ cli'[p].pc = "phase"
    BY <1>0, <1>6 DEF SyncTier, InPhase, Cli, Typed, TypeOK
  <2> QED
    BY <1>0, <1>1, <1>r, <2>2, <2>3, <2>4, <2>5, PhaseFacts, PinnedOwn, PinnedCheckpoint
<1>7. CASE SyncVersion(p)
  <2> DEFINE pin == Given(cli[p].prof.version, latest)
  <2>1. /\ rows' = IF cli[p].prof.version = None
                   THEN [rows EXCEPT ![cli[p].run].version = pin] ELSE rows
        /\ cli' = [Advance(p) EXCEPT ![p].prof.version = pin]
    BY <1>7 DEF SyncVersion
  <2>2. pin # None /\ (cli[p].prof.version # None => pin = cli[p].prof.version)
    BY ConstantsAssumption DEF ConstantsAssumption, Given, Typed, TypeOK
  <2> HIDE DEF pin
  <2>3. cli'[p].pc = "plan" /\ cli'[p].run = cli[p].run /\ cli'[p].prof.version = pin
    BY <1>0, <2>1 DEF Advance, Cli, CliProfile, Typed, TypeOK
  <2>4. \A row \in Row : [row EXCEPT !.version = pin].version = pin
    BY DEF Row
  <2>5. cli[p].prof.version = None => rows'[cli[p].run] = [rows[cli[p].run] EXCEPT !.version = pin]
    BY <1>0, <2>1 DEF Typed, TypeOK
  <2>6. rows'[cli[p].run].version = pin
    BY <1>0, <2>1, <2>2, <2>4, <2>5 DEF PinnedProc
  <2>7. PinnedProc(p)' /\ PinnedRow(rows'[cli[p].run])
    BY <2>2, <2>3, <2>6 DEF PinnedProc, PinnedRow
  <2> QED
    BY <1>0, <1>r, <2>7, PinnedOwn
<1>8. CASE FinishRankSync(p) \/ FinishCollect(p) \/ (\E k \in DrainPhase : FinishDrain(p, k))
  <2>1. cli[p].pc = "phase" /\ MorePhases(p) /\ Step(p).phase # 0 /\ cli' = Advance(p) /\ rows' = rows
    BY <1>8 DEF FinishRankSync, FinishCollect, FinishDrain, InPhase, DrainPhase, Typed, WellFormed
  <2>2. cli[p].prof.version # None
    BY <2>1, PastPhase0
  <2> QED
    BY <1>0, <1>1, <1>2, <1>r, <2>1, <2>2, PinnedOwn, PinnedQuietRow
<1>9. CASE Finish(p) \/ CollectMatches(p) \/ (\E k \in DrainPhase : ProcessBatch(p, k))
  <2>1. /\ rows' = rows /\ cli'[p].run = cli[p].run /\ cli'[p].prof = cli[p].prof
        /\ cli'[p].pos = cli[p].pos /\ cli'[p].done = cli[p].done /\ cli'[p].pc # "lookup"
    <3>1. CASE Finish(p)
      BY <1>0, <3>1 DEF Finish, Cli, Typed, TypeOK
    <3>2. CASE CollectMatches(p) \/ (\E k \in DrainPhase : ProcessBatch(p, k))
      BY <1>0, <3>2 DEF CollectMatches, ProcessBatch, InPhase
    <3> QED
      BY <1>9, <3>1, <3>2
  <2>2. PinnedProc(p)'
    BY <1>0, <2>1 DEF PinnedProc
  <2> QED
    BY <1>0, <1>r, <2>1, <2>2, PinnedOwn, PinnedQuietRow
<1> QED
  BY <1>3, <1>4, <1>5, <1>6, <1>7, <1>8, <1>9 DEF Execute

LEMMA PinnedQuiet ==
  ASSUME Exclusive, AllPrepared, Pinned, NEW p \in Proc, Quiet(p)
  PROVE  Pinned'
<1> USE DEF Exclusive
<1>0. /\ cli[p] \in Cli /\ Executed(p) /\ HasRun(p) /\ cli[p].run \in RunId
      /\ rows[cli[p].run] \in Row /\ PinnedProc(p) /\ Prepared(p)
      /\ \A q \in Proc \ {p} : cli'[q] = cli[q]
      /\ \A i \in RunId \ {cli[p].run} : rows'[i] = rows[i]
  BY QuietExecuted, ExecutedFacts, OwnRow DEF Typed, TypeOK, Pinned, AllPrepared, GoesOn
<1>1. ASSUME cli'[p].run = cli[p].run, cli'[p].prof = cli[p].prof, cli'[p].pc # "lookup",
             cli'[p].pos = cli[p].pos, cli'[p].done = cli[p].done,
             rows'[cli[p].run].version = rows[cli[p].run].version
      PROVE  PinnedProc(p)'
  BY <1>0, <1>1 DEF PinnedProc
<1>2. CASE ResetCheckpoint(p)
  <2>1. /\ cli'[p].run = cli[p].run /\ cli'[p].prof = cli[p].prof /\ cli'[p].pc # "lookup"
        /\ cli'[p].pos = cli[p].pos /\ cli'[p].done = cli[p].done
    BY <1>0, <1>2 DEF ResetCheckpoint, Cli, Typed, TypeOK
  <2>2. /\ PinnedRow(rows'[cli[p].run])
        /\ rows'[cli[p].run].version = rows[cli[p].run].version
    BY <1>0, <1>2, PhaseFacts, PinnedCheckpoint DEF ResetCheckpoint
  <2> QED
    BY <1>0, <1>1, <2>1, <2>2, PinnedOwn
<1>3. CASE PurgeSnapshots(p) \/ Interrupted(p) \/ PhaseError(p) \/ Signal(p)
  <2>1. /\ cli'[p].run = cli[p].run /\ cli'[p].prof = cli[p].prof /\ cli'[p].pc # "lookup"
        /\ cli'[p].pos = cli[p].pos /\ cli'[p].done = cli[p].done /\ rows' = rows
    <3>1. CASE PurgeSnapshots(p)
      BY <1>0, <3>1 DEF PurgeSnapshots, Cli, Typed, TypeOK
    <3>2. CASE Interrupted(p) \/ PhaseError(p)
      BY <1>0, <3>2 DEF Interrupted, PhaseError, Cli, Typed, TypeOK
    <3>3. CASE Signal(p)
      BY <1>0, <3>3 DEF Signal, Cli, Typed, TypeOK
    <3> QED
      BY <1>3, <3>1, <3>2, <3>3
  <2> QED
    BY <1>0, <1>1, <2>1, PinnedOwn, PinnedQuietRow
<1> QED
  BY <1>2, <1>3, PinnedExecute DEF Quiet

LEMMA PinnedSameRows ==
  ASSUME Pinned, UNCHANGED rows, NEW p \in Proc, PinnedProc(p)',
         \A q \in Proc \ {p} : cli'[q] = cli[q]
  PROVE  Pinned'
<1>1. \A q \in Proc \ {p} : PinnedProc(q)'
  BY DEF Pinned, PinnedProc, Executed, Running
<1> QED
  BY <1>1 DEF Pinned, PinnedRow, Exists

LEMMA PinnedLeave ==
  ASSUME Typed, NEW p \in Proc, Leave(p)
  PROVE  PinnedProc(p)'
<1>1. cli'[p] = IdleCli
  BY DEF Leave, Typed, TypeOK
<1> QED
  BY <1>1 DEF PinnedProc, IdleCli, Executed, Running, Executing

LEMMA PinnedLookup ==
  ASSUME Exclusive, AllPrepared, Pinned, NEW p \in Proc, Lookup(p)
  PROVE  PinnedProc(p)'
<1> USE DEF Exclusive
<1> DEFINE row == rows[cli[p].run]
<1>0. cli[p] \in Cli /\ row \in Row /\ PinnedRow(row)
  BY NoneIsNoRow DEF Typed, TypeOK, WellFormed, Lookup, HasRun, Pinned, Exists
<1>1. CASE ~Resumable(row)
  BY <1>1, PinnedLeave DEF Lookup
<1>2. CASE Resumable(row)
  <2> DEFINE pc == IF row.status = "failed" THEN "reactivate"
                   ELSE IF Rewinds(row) THEN "reset" ELSE "plan"
             done == IF Rewinds(row) THEN {} ELSE DoneBefore(row.phase)
  <2>1. /\ cli' = [cli EXCEPT ![p].pc = pc, ![p].done = done, ![p].prof = MergeFlags(row, @)]
        /\ rows' = rows /\ cli[p].pc = "lookup"
    BY <1>2 DEF Lookup
  <2>2. cli[p].prof.version = None /\ cli[p].pos = 1
    BY <2>1 DEF Pinned, PinnedProc, AllPrepared, Prepared, Setup
  <2>3. MergeFlags(row, cli[p].prof).version = row.version
    BY <1>0, <2>2 DEF MergeFlags, Given, Cli, CliProfile
  <2>4. done # {} => row.version # None
    BY <1>0 DEF PinnedRow, Rewinds
  <2>5. pc # "lookup"
    OBVIOUS
  <2> HIDE DEF pc, done, row
  <2>6. /\ cli'[p].pc = pc /\ cli'[p].done = done /\ cli'[p].pos = cli[p].pos
        /\ cli'[p].run = cli[p].run /\ cli'[p].prof = MergeFlags(row, cli[p].prof)
    BY <1>0, <2>1 DEF Cli, Typed, TypeOK
  <2> QED
    <3>1. cli'[p].pos = 1 /\ cli'[p].pc # "lookup"
      BY <2>2, <2>5, <2>6
    <3>2. cli'[p].prof.version = rows'[cli'[p].run].version
      BY <2>1, <2>3, <2>6 DEF row
    <3>3. cli'[p].done # {} => cli'[p].prof.version # None
      BY <2>3, <2>4, <2>6
    <3> QED
      BY <3>1, <3>2, <3>3 DEF PinnedProc
<1> QED
  BY <1>1, <1>2

LEMMA PinnedStart ==
  ASSUME Typed, AllPrepared, Pinned, VersionFromRow, NEW p \in Proc, Start(p)
  PROVE  PinnedProc(p)'
<1>0. cli[p] \in Cli /\ Prepared(p)
  BY DEF Typed, TypeOK, AllPrepared
<1>1. ASSUME NEW prof \in Profiles, StartNew(p, prof) PROVE PinnedProc(p)'
  <2>1. /\ cli[p].pc = "idle" /\ cli'[p].pc = "check"
        /\ cli'[p].pos = cli[p].pos /\ cli'[p].done = cli[p].done
    BY <1>0, <1>1 DEF StartNew, Cli, Typed, TypeOK
  <2> QED
    BY <1>0, <2>1 DEF PinnedProc, Prepared, Executed, Running, Executing
<1>2. ASSUME NEW i \in RunId, NEW flags \in ResumeFlags, StartResume(p, i, flags)
      PROVE  PinnedProc(p)'
  <2> DEFINE prof == [flags EXCEPT !.region = Given(@, rows[i].region),
                                   !.execution = Given(@, rows[i].execution)]
  <2>1. flags.version = None /\ flags \in [region : Region \cup {None},
                            execution : Execution \cup {None},
                            tiers : Seq(Tier), version : Version \cup {None}]
    BY ConstantsAssumption DEF ConstantsAssumption, VersionFromRow
  <2>2. prof.version = None
    BY <2>1
  <2>3. cli' = [cli EXCEPT ![p].pc = "lookup", ![p].run = i, ![p].prof = prof] /\ cli[p].pc = "idle"
    BY <1>2 DEF StartResume
  <2> HIDE DEF prof
  <2>4. /\ cli'[p].pc = "lookup" /\ cli'[p].prof = prof
        /\ cli'[p].pos = cli[p].pos /\ cli'[p].done = cli[p].done
    BY <1>0, <2>3 DEF Cli, Typed, TypeOK
  <2> QED
    <3>1. cli'[p].pos = 1 /\ cli'[p].done = {}
      BY <1>0, <2>3, <2>4 DEF Prepared
    <3>2. ~Executed(p)'
      BY <2>4 DEF Executed, Running, Executing
    <3>3. cli'[p].prof.version = None
      BY <2>2, <2>4
    <3> QED
      BY <3>1, <3>2, <3>3 DEF PinnedProc
<1> QED
  BY <1>1, <1>2 DEF Start

LEMMA PinnedCreate ==
  ASSUME Exclusive, AllPrepared, Pinned, NEW p \in Proc, NEW i \in RunId, Create(p, i)
  PROVE  Pinned'
<1> USE DEF Exclusive
<1>0. cli[p] \in Cli /\ Prepared(p) /\ cli[p].pc = "create" /\ ~Exists(i)
  BY DEF Typed, TypeOK, AllPrepared, Create
<1>1. /\ cli'[p].pc = "plan" /\ cli'[p].run = i /\ cli'[p].prof = cli[p].prof
      /\ cli'[p].pos = cli[p].pos /\ cli'[p].done = cli[p].done
      /\ \A q \in Proc \ {p} : cli'[q] = cli[q]
  BY <1>0 DEF Create, Cli, Typed, TypeOK
<1>2. /\ rows'[i].version = cli[p].prof.version /\ rows'[i].phase = 0
      /\ \A j \in RunId \ {i} : rows'[j] = rows[j]
  BY DEF Create, Typed, TypeOK
<1>3. PinnedProc(p)'
  <2>1. cli'[p].pos = 1 /\ cli'[p].done = {}
    BY <1>0, <1>1 DEF Prepared, Setup
  <2>2. cli'[p].prof.version = rows'[cli'[p].run].version
    BY <1>1, <1>2
  <2> QED
    BY <1>1, <2>1, <2>2 DEF PinnedProc
<1>4. ASSUME NEW q \in Proc, q # p PROVE PinnedProc(q)'
  <2>1. Executed(q) => cli[q].run \in RunId /\ Exists(cli[q].run)
    BY ExecutedFacts
  <2>2. Executed(q) => rows'[cli[q].run] = rows[cli[q].run]
    BY <1>0, <1>2, <2>1
  <2> QED
    BY <1>1, <1>4, <2>2 DEF Pinned, PinnedProc, Executed, Running
<1>5. \A j \in RunId : Exists(j)' => PinnedRow(rows'[j])
  BY <1>2 DEF Pinned, PinnedRow, Exists
<1> QED
  BY <1>3, <1>4, <1>5 DEF Pinned

\* A new status keeps version and checkpoint.
LEMMA PinnedStatus ==
  ASSUME Typed, Pinned, NEW i \in RunId, rows[i] \in Row,
         NEW s \in {"running", "failed", "completed"}, rows' = [rows EXCEPT ![i].status = s]
  PROVE  /\ \A j \in RunId : Exists(j)' => PinnedRow(rows'[j])
         /\ rows'[i].version = rows[i].version
         /\ \A j \in RunId \ {i} : rows'[j] = rows[j]
<1>1. \A row \in Row : /\ [row EXCEPT !.status = s].version = row.version
                       /\ [row EXCEPT !.status = s].phase = row.phase
  BY DEF Row
<1>2. rows'[i] = [rows[i] EXCEPT !.status = s] /\ \A j \in RunId \ {i} : rows'[j] = rows[j]
  BY DEF Typed, TypeOK
<1>3. Exists(i)
  BY NoneIsNoRow DEF Exists
<1> QED
  BY <1>1, <1>2, <1>3 DEF Pinned, PinnedRow, Exists

LEMMA PinnedStep ==
  ASSUME Exclusive, AllPrepared, Pinned, VersionFromRow, ~SessionsMayDrop, [Next]_vars
  PROVE  Pinned'
<1> USE DEF Exclusive
<1>1. ASSUME NEW p \in Proc, ReadActive(p) PROVE Pinned'
  <2>1. CASE Leave(p)
    BY <1>1, <2>1, LeaveShape, PinnedLeave, PinnedSameRows DEF ReadActive
  <2>2. CASE ~Leave(p)
    <3>1. /\ cli[p].pc = "check" /\ cli'[p].pc = "create" /\ rows' = rows
          /\ cli'[p].prof = cli[p].prof /\ cli'[p].pos = cli[p].pos /\ cli'[p].done = cli[p].done
          /\ \A q \in Proc \ {p} : cli'[q] = cli[q]
      BY <1>1, <2>2 DEF ReadActive, Cli, Typed, TypeOK
    <3>2. PinnedProc(p)'
      BY <3>1 DEF PinnedProc, Pinned, Executed, Running, Executing
    <3> QED
      BY <3>1, <3>2, PinnedSameRows
  <2> QED
    BY <2>1, <2>2
<1>2. ASSUME NEW p \in Proc, Lookup(p) PROVE Pinned'
  <2>1. rows' = rows /\ \A q \in Proc \ {p} : cli'[q] = cli[q]
    BY <1>2, LeaveShape, LookupShape DEF Lookup
  <2> QED
    BY <1>2, <2>1, PinnedLookup, PinnedSameRows
<1>3. ASSUME NEW p \in Proc, Start(p) PROVE Pinned'
  BY <1>3, StartPc, StartShape, PinnedStart, PinnedSameRows DEF Begins
<1>4. ASSUME NEW p \in Proc, Dies(p) PROVE Pinned'
  BY <1>4, LeaveShape, PinnedLeave, PinnedSameRows DEF Dies
<1>5. ASSUME NEW p \in Proc, Reactivate(p) PROVE Pinned'
  <2>1. HasRun(p) /\ Executed(p) /\ cli[p].run \in RunId /\ rows[cli[p].run] \in Row
    BY <1>5, ExecutedFacts DEF Reactivate, Executed
  <2>2. /\ cli'[p].pc # "lookup" /\ cli'[p].prof = cli[p].prof /\ cli'[p].run = cli[p].run
        /\ cli'[p].pos = cli[p].pos /\ cli'[p].done = cli[p].done
        /\ \A q \in Proc \ {p} : cli'[q] = cli[q]
    BY <1>5 DEF Reactivate, Cli, Typed, TypeOK
  <2>3. /\ PinnedRow(rows'[cli[p].run]) /\ rows'[cli[p].run].version = rows[cli[p].run].version
        /\ \A j \in RunId \ {cli[p].run} : rows'[j] = rows[j]
    <3>1. rows' = [rows EXCEPT ![cli[p].run].status = "running"]
      BY <1>5 DEF Reactivate
    <3>2. Exists(cli[p].run) /\ [rows[cli[p].run] EXCEPT !.status = "running"] \in Row
      BY <2>1, NoneIsNoRow DEF Exists, Row
    <3>3. rows'[cli[p].run] # None
      BY <2>1, <3>1, <3>2, NoneIsNoRow DEF Typed, TypeOK
    <3> QED
      BY <2>1, <3>1, <3>3, PinnedStatus DEF Exists
  <2>4. PinnedProc(p)'
    BY <2>1, <2>2, <2>3 DEF Pinned, PinnedProc
  <2> QED
    BY <2>1, <2>2, <2>3, <2>4, PinnedOwn
<1>6. ASSUME NEW p \in Proc, Close(p) PROVE Pinned'
  <2>1. HasRun(p) /\ Executed(p) /\ cli[p].run \in RunId /\ rows[cli[p].run] \in Row
    BY <1>6, ExecutedFacts DEF Close, Executed, Running, Executing
  <2>2. PinnedProc(p)' /\ \A q \in Proc \ {p} : cli'[q] = cli[q]
    BY <1>6, LeaveShape, PinnedLeave DEF Close
  <2>3. CASE rows' = rows
    BY <2>2, <2>3, PinnedSameRows
  <2>4. ASSUME NEW s \in {"completed", "failed"}, rows' = [rows EXCEPT ![cli[p].run].status = s]
        PROVE  Pinned'
    <3>1. [rows[cli[p].run] EXCEPT !.status = s] \in Row
      BY <2>1 DEF Row
    <3>2. rows'[cli[p].run] # None
      BY <2>1, <2>4, <3>1, NoneIsNoRow DEF Typed, TypeOK
    <3>3. PinnedRow(rows'[cli[p].run]) /\ \A j \in RunId \ {cli[p].run} : rows'[j] = rows[j]
      BY <2>1, <2>4, <3>2, PinnedStatus DEF Exists
    <3> QED
      BY <2>1, <2>2, <3>3, PinnedOwn
  <2> QED
    BY <1>6, <2>3, <2>4 DEF Close
<1>7. ASSUME NEW i \in RunId, Cancel(i) PROVE Pinned'
  <2>1. cli' = cli /\ rows' = [rows EXCEPT ![i].status = "failed"] /\ rows[i] \in Row
    BY <1>7 DEF Cancel, Exists, Typed, TypeOK
  <2>2. /\ \A j \in RunId : Exists(j)' => PinnedRow(rows'[j])
        /\ rows'[i].version = rows[i].version
        /\ \A j \in RunId \ {i} : rows'[j] = rows[j]
    BY <2>1, PinnedStatus
  <2>3. ASSUME NEW q \in Proc PROVE PinnedProc(q)'
    <3>1. Executed(q) => rows'[cli[q].run].version = rows[cli[q].run].version
      BY <2>2, ExecutedFacts
    <3> QED
      BY <2>1, <3>1 DEF Pinned, PinnedProc, Executed, Running
  <2> QED
    BY <2>2, <2>3 DEF Pinned
<1>8. CASE UNCHANGED <<rows, cli>>
  BY <1>8 DEF Pinned, PinnedProc, Executed, Running, Exists
<1> QED
  BY <1>1, <1>2, <1>3, <1>4, <1>5, <1>6, <1>7, <1>8, StepKinds, PinnedQuiet, PinnedCreate

\* Past phase 0 a process works for the version in the row of its run, for every
\* number of processes, runs, patches, faults and resumes: what phase 0 pinned
\* stays pinned (phase0/phase.go:70-81).  A resume must not name a version.
THEOREM VersionStaysPinned ==
  ASSUME ~SessionsMayDrop, PlainResumes, VersionFromRow
  PROVE  Spec => []VersionPinned
<1>1. Init => AllPrepared /\ Pinned
  BY DEF Init, AllPrepared, Prepared, Pinned, PinnedProc, IdleCli, Exists, Executed, Running,
         Executing, Setup
<1>2. Exclusive /\ AllPrepared /\ Pinned /\ [Next]_vars => AllPrepared' /\ Pinned'
  BY PreparedStep, PinnedStep DEF Exclusive
<1>3. Pinned => VersionPinned
  BY DEF Pinned, PinnedProc, VersionPinned, Executed, Running, Executing
<1> QED
  BY <1>1, <1>2, <1>3, ExclusiveInvariant, PTL DEF Spec

-----------------------------------------------------------------------------
(* The snapshots of a run *)

\* A process that has not begun phase 1 in this execution and will begin it.
Untouched(p) ==
  /\ cli[p].done = {}
  /\ \/ cli[p].pos = 1
     \/ cli[p].pos = 2 /\ (cli[p].pc = "phase" => cli[p].synced = 0)

\* A checkpoint past phase 1 is only written over the snapshots of one execution
\* of phase 1; an execution that will run phase 1 starts from none.
SlateRow(i) == IF Exists(i) THEN rows[i].phase \notin {0, 1} => snaps[i] <= 1
               ELSE snaps[i] = 0

SlateProc(p) ==
  /\ cli[p].pc \in {"plan", "phase"} \/ cli[p].done # {} => snaps[cli[p].run] <= 1
  /\ cli[p].pc \in {"plan", "phase"} /\ Untouched(p) => snaps[cli[p].run] = 0

Slates == (\A i \in RunId : SlateRow(i)) /\ (\A p \in Proc : SlateProc(p))

LEMMA OwnSnaps ==
  ASSUME Typed, NEW p \in Proc, Quiet(p)
  PROVE  \A i \in RunId \ {cli[p].run} : snaps'[i] = snaps[i]
BY DEF Quiet, Execute, ResetCheckpoint, PurgeSnapshots, SkipDone, OpenTier, SkipIdle, EnterPhase,
       Finish, SyncVersion, SyncTier, FinishRankSync, CollectMatches, FinishCollect, ProcessBatch,
       FinishDrain, Interrupted, PhaseError, Signal, Typed, TypeOK

\* A step of p that touches row and snapshots of no other run.
LEMMA SlateOwn ==
  ASSUME Exclusive, AllPrepared, Slates, NEW p \in Proc, HasRun(p), cli[p].run \in RunId,
         \A q \in Proc \ {p} : cli'[q] = cli[q],
         \A i \in RunId \ {cli[p].run} : rows'[i] = rows[i] /\ snaps'[i] = snaps[i],
         SlateProc(p)', Exists(cli[p].run),
         rows'[cli[p].run].phase \notin {0, 1} => snaps'[cli[p].run] <= 1,
         rows'[cli[p].run] # None
  PROVE  Slates'
<1>1. ASSUME NEW i \in RunId PROVE SlateRow(i)'
  <2>1. CASE i = cli[p].run
    BY <2>1 DEF SlateRow, Exists
  <2>2. CASE i # cli[p].run
    BY <2>2 DEF Slates, SlateRow, Exists
  <2> QED
    BY <2>1, <2>2
<1>2. ASSUME NEW q \in Proc, q # p PROVE SlateProc(q)'
  <2>1. CASE Executed(q)
    <3>1. snaps'[cli[q].run] = snaps[cli[q].run]
      BY <1>2, <2>1, ExecutedFacts, OwnRun DEF Exclusive
    <3> QED
      BY <1>2, <3>1 DEF Slates, SlateProc, Untouched
  <2>2. CASE ~Executed(q)
    <3>1. cli[q].pc \notin {"plan", "phase"} /\ cli[q].done = {}
      <4>1. cli[q] \in Cli /\ Prepared(q)
        BY DEF Exclusive, Typed, TypeOK, AllPrepared
      <4> QED
        BY <2>2, <4>1 DEF Prepared, Executed, Running, Executing, Cli, Setup
    <3> QED
      BY <1>2, <3>1 DEF SlateProc
  <2> QED
    BY <2>1, <2>2
<1> QED
  BY <1>1, <1>2 DEF Slates

LEMMA CheckpointPhase ==
  ASSUME Typed, NEW p \in Proc, Executed(p), NEW k \in Phase, NEW t \in Tier \cup {None},
         Checkpoint(p, k, t)
  PROVE  rows'[cli[p].run].phase = k /\ rows'[cli[p].run] # None
<1>1. cli[p].run \in RunId /\ rows[cli[p].run] \in Row
  BY ExecutedFacts
<1> DEFINE new == [rows[cli[p].run] EXCEPT !.phase = k, !.tier = t]
<1>2. new.phase = k /\ new \in Row
  BY <1>1 DEF Row
<1>3. rows'[cli[p].run] = new
  BY <1>1 DEF Checkpoint, Typed, TypeOK
<1> HIDE DEF new
<1> QED
  BY <1>2, <1>3, NoneIsNoRow

\* The run of p after a step: what stays in its row, and what SlateOwn asks for.
LEMMA SlateExecute ==
  ASSUME Exclusive, AllPrepared, Slates, RankSyncOnce, NEW p \in Proc, Execute(p)
  PROVE  Slates'
<1> USE DEF Exclusive
<1> DEFINE i == cli[p].run
<1>0. /\ cli[p] \in Cli /\ Executed(p) /\ HasRun(p) /\ Active(p) /\ i \in RunId
      /\ rows[i] \in Row /\ Exists(i) /\ SlateProc(p) /\ Prepared(p) /\ SlateRow(i)
      /\ \A q \in Proc \ {p} : cli'[q] = cli[q]
      /\ \A j \in RunId \ {i} : rows'[j] = rows[j] /\ snaps'[j] = snaps[j]
      /\ cli'[p].run = i /\ cli[p].pos \in Nat /\ cli[p].pos >= 1
  <2>1. Quiet(p)
    BY DEF Quiet
  <2>2. HasRun(p) /\ Executed(p) /\ GoesOn(p)
    BY <2>1, QuietExecuted, ExecutedFacts
  <2> QED
    BY <2>1, <2>2, ExecutedFacts, OwnRow, OwnSnaps
    DEF Typed, TypeOK, WellFormed, Slates, AllPrepared, GoesOn, Cli
<1>1. ASSUME cli' = Advance(p) PROVE /\ cli'[p].pc = "plan" /\ cli'[p].pos = cli[p].pos + 1
                                     /\ cli'[p].done = cli[p].done
  BY <1>0, <1>1 DEF Advance, Cli, Typed, TypeOK
\* an execution that advances is untouched only from phase 0 to phase 1
<1>2. ASSUME cli[p].pc \in {"plan", "phase"}, cli'[p].pc = "plan", cli'[p].pos = cli[p].pos + 1,
             cli'[p].done = cli[p].done, snaps'[i] = snaps[i]
      PROVE  SlateProc(p)' /\ snaps'[i] <= 1
  <2>1. Untouched(p)' => cli[p].done = {} /\ cli[p].pos = 1
    BY <1>0, <1>2 DEF Untouched
  <2>2. snaps[i] <= 1 /\ (Untouched(p) => snaps[i] = 0)
    BY <1>0, <1>2 DEF SlateProc
  <2> QED
    BY <1>0, <1>2, <2>1, <2>2 DEF SlateProc, Untouched
<1>3. CASE SkipDone(p) \/ SkipIdle(p) \/ FinishRankSync(p) \/ FinishCollect(p)
           \/ (\E k \in DrainPhase : FinishDrain(p, k))
  <2>1. cli[p].pc \in {"plan", "phase"} /\ cli' = Advance(p) /\ rows' = rows /\ snaps' = snaps
    BY <1>3 DEF SkipDone, SkipIdle, MustRun, FinishRankSync, FinishCollect, FinishDrain, InPhase
  <2>2. SlateProc(p)' /\ snaps'[i] <= 1
    BY <1>1, <1>2, <2>1
  <2> QED
    BY <1>0, <2>1, <2>2, SlateOwn DEF Exists
<1>4. CASE OpenTier(p)
  <2>1. /\ cli[p].pc = "plan" /\ cli' = Advance(p) /\ snaps' = snaps /\ Step(p) \in PlanStep
        /\ Checkpoint(p, Step(p).phase, Step(p).tier)
    BY <1>0, <1>4, StepType DEF OpenTier
  <2>2. SlateProc(p)' /\ snaps'[i] <= 1
    BY <1>1, <1>2, <2>1
  <2>3. rows'[i] # None
    BY <1>0, <2>1, CheckpointPhase DEF PlanStep
  <2> QED
    BY <1>0, <2>1, <2>2, <2>3, SlateOwn
<1>5. CASE EnterPhase(p)
  <2>1. /\ cli[p].pc = "plan" /\ snaps' = snaps /\ Step(p) \in PlanStep
        /\ Checkpoint(p, Step(p).phase, Step(p).tier)
    BY <1>0, <1>5, StepType DEF EnterPhase, MustRun
  <2>2. /\ cli'[p].pc = "phase" /\ cli'[p].pos = cli[p].pos /\ cli'[p].done = cli[p].done
    BY <1>0, <1>5 DEF EnterPhase, Cli, Typed, TypeOK
  <2>3. SlateProc(p)' /\ snaps'[i] <= 1
    BY <1>0, <2>1, <2>2 DEF SlateProc, Untouched
  <2>4. rows'[i] # None
    BY <1>0, <2>1, CheckpointPhase DEF PlanStep
  <2> QED
    BY <1>0, <2>3, <2>4, SlateOwn
<1>6. CASE SyncTier(p)
  <2>1. /\ cli[p].pc = "phase" /\ Step(p).phase = 1 /\ MorePhases(p) /\ cli[p].synced \in Nat
        /\ Checkpoint(p, 1, cli[p].prof.tiers[cli[p].synced + 1])
        /\ cli[p].prof.tiers[cli[p].synced + 1] \in Tier
    BY <1>0, <1>6 DEF SyncTier, InPhase, Typed, WellFormed, Cli, CliProfile
  <2>2. cli[p].done = {} /\ cli[p].pos = 2
    BY <1>0, <2>1, StepBegins DEF Prepared
  <2>3. /\ cli'[p].pc = "phase" /\ cli'[p].pos = cli[p].pos /\ cli'[p].done = cli[p].done
        /\ cli'[p].synced = cli[p].synced + 1
    BY <1>0, <1>6, <2>1 DEF SyncTier, Cli, Typed, TypeOK
  <2>4. snaps'[i] = IF cli[p].synced > 0 \/ snaps[i] = 2 THEN snaps[i] ELSE snaps[i] + 1
    BY <1>0, <1>6 DEF SyncTier, Typed, TypeOK
  <2>5. snaps[i] <= 1 /\ (cli[p].synced = 0 => snaps[i] = 0) /\ snaps[i] \in Nat
    BY <1>0, <2>1, <2>2 DEF SlateProc, Untouched, Typed, TypeOK
  <2>6. snaps'[i] <= 1
    BY <2>1, <2>4, <2>5
  <2>7. ~Untouched(p)'
    BY <2>1, <2>2, <2>3 DEF Untouched
  <2>8. SlateProc(p)'
    BY <1>0, <2>6, <2>7 DEF SlateProc
  <2>9. rows'[i] # None
    BY <1>0, <2>1, PhaseFacts, CheckpointPhase
  <2> QED
    BY <1>0, <2>6, <2>8, <2>9, SlateOwn
<1>7. CASE SyncVersion(p)
  <2> DEFINE pin == Given(cli[p].prof.version, latest)
  <2>1. /\ rows' = IF cli[p].prof.version = None
                   THEN [rows EXCEPT ![i].version = pin] ELSE rows
        /\ cli' = [Advance(p) EXCEPT ![p].prof.version = pin]
        /\ cli[p].pc = "phase" /\ snaps' = snaps
    BY <1>7 DEF SyncVersion, InPhase
  <2>2. pin \in Version \cup {None}
    BY <1>0 DEF Given, Cli, CliProfile, Typed, TypeOK
  <2> HIDE DEF pin
  <2>3. cli'[p].pc = "plan" /\ cli'[p].pos = cli[p].pos + 1 /\ cli'[p].done = cli[p].done
    BY <1>0, <2>1 DEF Advance, Cli, CliProfile, Typed, TypeOK
  <2>4. SlateProc(p)' /\ snaps'[i] <= 1
    BY <1>2, <2>1, <2>3
  <2>5. \A row \in Row : [row EXCEPT !.version = pin] \in Row
    BY <2>2 DEF Row
  <2>6. rows'[i] # None
    BY <1>0, <2>1, <2>5, NoneIsNoRow DEF Typed, TypeOK
  <2> QED
    BY <1>0, <2>4, <2>6, SlateOwn
<1>8. CASE Finish(p) \/ CollectMatches(p) \/ (\E k \in DrainPhase : ProcessBatch(p, k))
  <2>1. /\ rows' = rows /\ snaps' = snaps
        /\ cli'[p] = cli[p] \/ (cli'[p].pc = "close" /\ cli'[p].done = cli[p].done)
        /\ cli[p].pc \in {"plan", "phase"}
    <3>1. CASE Finish(p)
      BY <1>0, <3>1 DEF Finish, Cli, Typed, TypeOK
    <3>2. CASE CollectMatches(p) \/ (\E k \in DrainPhase : ProcessBatch(p, k))
      BY <1>0, <3>2 DEF CollectMatches, ProcessBatch, InPhase
    <3> QED
      BY <1>8, <3>1, <3>2
  <2>2. SlateProc(p)' /\ snaps'[i] <= 1
    BY <1>0, <2>1 DEF SlateProc, Untouched
  <2> QED
    BY <1>0, <2>1, <2>2, SlateOwn DEF Exists
<1> QED
  BY <1>3, <1>4, <1>5, <1>6, <1>7, <1>8 DEF Execute

LEMMA SlateQuiet ==
  ASSUME Exclusive, AllPrepared, Slates, RankSyncOnce, NEW p \in Proc, Quiet(p)
  PROVE  Slates'
<1> USE DEF Exclusive
<1> DEFINE i == cli[p].run
<1>0. /\ cli[p] \in Cli /\ Executed(p) /\ HasRun(p) /\ i \in RunId
      /\ rows[i] \in Row /\ Exists(i) /\ SlateProc(p) /\ Prepared(p) /\ SlateRow(i)
      /\ \A q \in Proc \ {p} : cli'[q] = cli[q]
      /\ \A j \in RunId \ {i} : rows'[j] = rows[j] /\ snaps'[j] = snaps[j]
      /\ cli'[p].run = i
  BY QuietExecuted, ExecutedFacts, OwnRow, OwnSnaps
  DEF Typed, TypeOK, Slates, AllPrepared, GoesOn
<1>1. CASE ResetCheckpoint(p)
  <2>1. /\ cli'[p].pc = "purge" /\ cli'[p].done = cli[p].done /\ cli[p].pc = "reset"
    BY <1>0, <1>1 DEF ResetCheckpoint, Cli, Typed, TypeOK
  <2>2. SlateProc(p)'
    BY <1>0, <2>1 DEF SlateProc, Prepared
  <2>3. rows'[i].phase = 0 /\ rows'[i] # None
    BY <1>0, <1>1, PhaseFacts, CheckpointPhase DEF ResetCheckpoint
  <2> QED
    BY <1>0, <2>2, <2>3, SlateOwn
<1>2. CASE PurgeSnapshots(p)
  <2>1. rows' = rows /\ snaps'[i] = 0
    BY <1>0, <1>2 DEF PurgeSnapshots, Typed, TypeOK
  <2>2. SlateProc(p)'
    BY <1>0, <2>1 DEF SlateProc
  <2> QED
    BY <1>0, <2>1, <2>2, SlateOwn DEF Exists
<1>3. CASE Interrupted(p) \/ PhaseError(p) \/ Signal(p)
  <2>1. /\ rows' = rows /\ snaps' = snaps /\ cli[p].pc \in {"plan", "phase"}
        /\ cli'[p].done = cli[p].done
        /\ \/ cli'[p].pc = "close"
           \/ /\ cli'[p].pc = cli[p].pc /\ cli'[p].pos = cli[p].pos
              /\ cli'[p].synced = cli[p].synced
    <3>1. CASE Interrupted(p) \/ PhaseError(p)
      BY <1>0, <3>1 DEF Interrupted, PhaseError, Cli, Typed, TypeOK
    <3>2. CASE Signal(p)
      BY <1>0, <3>2 DEF Signal, Cli, Typed, TypeOK
    <3> QED
      BY <1>3, <3>1, <3>2
  <2>2. SlateProc(p)' /\ snaps'[i] <= 1
    BY <1>0, <2>1 DEF SlateProc, Untouched
  <2> QED
    BY <1>0, <2>1, <2>2, SlateOwn DEF Exists
<1> QED
  BY <1>1, <1>2, <1>3, SlateExecute DEF Quiet

LEMMA SlateSameRows ==
  ASSUME Slates, NEW p \in Proc, SlateProc(p)', UNCHANGED snaps,
         \A i \in RunId : /\ Exists(i)' <=> Exists(i)
                          /\ Exists(i) => rows'[i].phase = rows[i].phase,
         \A q \in Proc \ {p} : cli'[q] = cli[q]
  PROVE  Slates'
<1>1. \A q \in Proc \ {p} : SlateProc(q)'
  BY DEF Slates, SlateProc, Untouched
<1>2. \A i \in RunId : SlateRow(i)'
  BY DEF Slates, SlateRow
<1> QED
  BY <1>1, <1>2 DEF Slates

LEMMA SlateLeave ==
  ASSUME Typed, NEW p \in Proc, Leave(p)
  PROVE  SlateProc(p)'
<1>1. cli'[p] = IdleCli
  BY DEF Leave, Typed, TypeOK
<1> QED
  BY <1>1 DEF SlateProc, IdleCli

\* A new status keeps the checkpoint.
LEMMA SlateStatus ==
  ASSUME Typed, NEW i \in RunId, rows[i] \in Row,
         NEW s \in {"running", "failed", "completed"}, rows' = [rows EXCEPT ![i].status = s]
  PROVE  \A j \in RunId : /\ Exists(j)' <=> Exists(j)
                          /\ Exists(j) => rows'[j].phase = rows[j].phase
<1>1. /\ [rows[i] EXCEPT !.status = s].phase = rows[i].phase
      /\ [rows[i] EXCEPT !.status = s] \in Row
  BY DEF Row
<1>2. rows'[i] = [rows[i] EXCEPT !.status = s] /\ \A j \in RunId \ {i} : rows'[j] = rows[j]
  BY DEF Typed, TypeOK
<1> TAKE j \in RunId
<1>3. CASE j = i
  BY <1>1, <1>2, <1>3, NoneIsNoRow DEF Exists
<1>4. CASE j # i
  BY <1>2, <1>4 DEF Exists
<1> QED
  BY <1>3, <1>4

LEMMA SlateSetUp ==
  ASSUME Exclusive, AllPrepared, Slates, NEW p \in Proc,
         ReadActive(p) \/ Lookup(p) \/ Reactivate(p) \/ Start(p)
  PROVE  SlateProc(p)' /\ UNCHANGED snaps /\ \A q \in Proc \ {p} : cli'[q] = cli[q]
<1> USE DEF Exclusive
<1>0. cli[p] \in Cli /\ Prepared(p) /\ SlateProc(p)
  BY DEF Typed, TypeOK, AllPrepared, Slates
<1>1. CASE ReadActive(p)
  <2>1. CASE Leave(p)
    BY <1>1, <2>1, SlateLeave, LeaveShape DEF ReadActive
  <2>2. CASE ~Leave(p)
    BY <1>0, <1>1, <2>2 DEF ReadActive, Prepared, SlateProc, Cli, Typed, TypeOK
  <2> QED
    BY <2>1, <2>2
<1>2. CASE Lookup(p)
  <2> DEFINE row == rows[cli[p].run]
  <2>1. CASE ~Resumable(row)
    BY <1>2, <2>1, SlateLeave, LeaveShape DEF Lookup
  <2>2. CASE Resumable(row)
    <3> DEFINE pc == IF row.status = "failed" THEN "reactivate"
                     ELSE IF Rewinds(row) THEN "reset" ELSE "plan"
               done == IF Rewinds(row) THEN {} ELSE DoneBefore(row.phase)
    <3>1. /\ cli' = [cli EXCEPT ![p].pc = pc, ![p].done = done, ![p].prof = MergeFlags(row, @)]
          /\ UNCHANGED snaps /\ cli[p].pc = "lookup"
      BY <1>2, <2>2 DEF Lookup
    <3>2. cli[p].run \in RunId /\ Exists(cli[p].run)
      BY <3>1, NoneIsNoRow DEF Typed, WellFormed, HasRun, Exists
    <3>3. Rewinds(row) => done = {} /\ pc \notin {"plan", "phase"}
      OBVIOUS
    <3>4. ~Rewinds(row) => done # {} /\ snaps[cli[p].run] <= 1
      <4>1. ~Rewinds(row) => row.phase \notin {0, 1}
        BY DEF Rewinds
      <4> QED
        BY <3>2, <4>1, DoneBegins DEF Slates, SlateRow
    <3> HIDE DEF pc, done, row
    <3>5. cli'[p].pc = pc /\ cli'[p].done = done /\ cli'[p].run = cli[p].run
          /\ \A q \in Proc \ {p} : cli'[q] = cli[q]
      BY <1>0, <3>1 DEF Cli, Typed, TypeOK
    <3> QED
      BY <3>1, <3>3, <3>4, <3>5 DEF SlateProc, Untouched
  <2> QED
    BY <2>1, <2>2
<1>3. CASE Reactivate(p)
  <2>1. /\ cli'[p].pc = (IF cli[p].done = {} THEN "reset" ELSE "plan")
        /\ cli'[p].done = cli[p].done /\ cli'[p].run = cli[p].run
        /\ UNCHANGED snaps /\ \A q \in Proc \ {p} : cli'[q] = cli[q]
    BY <1>0, <1>3 DEF Reactivate, Cli, Typed, TypeOK
  <2> QED
    BY <1>0, <2>1 DEF SlateProc, Untouched
<1>4. CASE Start(p)
  <2>1. cli'[p].done = cli[p].done /\ UNCHANGED snaps
    <3>1. ASSUME NEW prof \in Profiles, StartNew(p, prof) PROVE <2>1!1 /\ <2>1!2
      BY <1>0, <3>1 DEF StartNew, Cli, Typed, TypeOK
    <3>2. ASSUME NEW i \in RunId, NEW flags \in ResumeFlags, StartResume(p, i, flags)
          PROVE  <2>1!1 /\ <2>1!2
      BY <1>0, <3>2 DEF StartResume, Cli, Typed, TypeOK
    <3> QED
      BY <1>4, <3>1, <3>2 DEF Start
  <2> QED
    BY <1>0, <1>4, <2>1, StartPc, StartShape DEF Prepared, SlateProc, Begins
<1> QED
  BY <1>1, <1>2, <1>3, <1>4

LEMMA SlateCreate ==
  ASSUME Exclusive, AllPrepared, Slates, NEW p \in Proc, NEW i \in RunId, Create(p, i)
  PROVE  Slates'
<1> USE DEF Exclusive
<1>0. /\ cli[p] \in Cli /\ cli[p].pc = "create" /\ ~Exists(i) /\ UNCHANGED snaps
      /\ snaps[i] = 0
  BY DEF Typed, TypeOK, Create, Slates, SlateRow
<1>1. cli'[p].run = i /\ \A q \in Proc \ {p} : cli'[q] = cli[q]
  BY CreateRows
<1>2. rows'[i].phase = 0 /\ \A j \in RunId \ {i} : rows'[j] = rows[j]
  BY DEF Create, Typed, TypeOK
<1>3. \A q \in Proc : SlateProc(q)'
  BY <1>0, <1>1 DEF Slates, SlateProc, Untouched
<1>4. ASSUME NEW j \in RunId PROVE SlateRow(j)'
  BY <1>0, <1>2 DEF Slates, SlateRow, Exists
<1> QED
  BY <1>3, <1>4 DEF Slates

LEMMA SlateStep ==
  ASSUME Exclusive, AllPrepared, Slates, RankSyncOnce, ~SessionsMayDrop, [Next]_vars
  PROVE  Slates'
<1> USE DEF Exclusive
<1>1. ASSUME NEW p \in Proc, ReadActive(p) \/ Lookup(p) \/ Start(p) PROVE Slates'
  <2>1. rows' = rows
    BY <1>1, StartPc DEF ReadActive, Lookup
  <2> QED
    BY <1>1, <2>1, SlateSetUp, SlateSameRows DEF Exists
<1>2. ASSUME NEW p \in Proc, Reactivate(p) PROVE Slates'
  <2>1. cli[p].run \in RunId /\ rows[cli[p].run] \in Row
    BY <1>2, ExecutedFacts DEF Reactivate, Executed
  <2> QED
    BY <1>2, <2>1, SlateSetUp, SlateStatus, SlateSameRows DEF Reactivate
<1>3. ASSUME NEW p \in Proc, Dies(p), UNCHANGED snaps PROVE Slates'
  BY <1>3, LeaveShape, SlateLeave, SlateSameRows DEF Dies, Exists
<1>4. ASSUME NEW p \in Proc, Close(p) PROVE Slates'
  <2>1. Executed(p) /\ cli[p].run \in RunId /\ rows[cli[p].run] \in Row
    BY <1>4, ExecutedFacts DEF Close, Executed, Running, Executing
  <2>2. SlateProc(p)' /\ UNCHANGED snaps /\ \A q \in Proc \ {p} : cli'[q] = cli[q]
    BY <1>4, LeaveShape, SlateLeave DEF Close
  <2>3. \A i \in RunId : /\ Exists(i)' <=> Exists(i)
                         /\ Exists(i) => rows'[i].phase = rows[i].phase
    <3>1. CASE rows' = rows
      BY <3>1 DEF Exists
    <3>2. CASE rows' = [rows EXCEPT ![cli[p].run].status = "completed"]
      BY <2>1, <3>2, SlateStatus
    <3>3. CASE rows' = [rows EXCEPT ![cli[p].run].status = "failed"]
      BY <2>1, <3>3, SlateStatus
    <3> QED
      BY <1>4, <3>1, <3>2, <3>3 DEF Close
  <2> QED
    BY <2>2, <2>3, SlateSameRows
<1>5. ASSUME NEW i \in RunId, Cancel(i) PROVE Slates'
  <2>1. UNCHANGED <<cli, snaps>> /\ rows' = [rows EXCEPT ![i].status = "failed"] /\ rows[i] \in Row
    BY <1>5 DEF Cancel, Exists, Typed, TypeOK
  <2>2. \A j \in RunId : /\ Exists(j)' <=> Exists(j)
                         /\ Exists(j) => rows'[j].phase = rows[j].phase
    BY <2>1, SlateStatus
  <2>3. (\A j \in RunId : SlateRow(j)') /\ \A q \in Proc : SlateProc(q)'
    BY <2>1, <2>2 DEF Slates, SlateRow, SlateProc, Untouched
  <2> QED
    BY <2>3 DEF Slates
<1>6. CASE UNCHANGED <<rows, cli, snaps>>
  BY <1>6 DEF Slates, SlateRow, SlateProc, Untouched, Exists
<1>7. ASSUME NEW p \in Proc, Disturb(p) PROVE UNCHANGED snaps
  BY <1>7 DEF Disturb, AbortSetup, PhaseError, Signal, CloseLost, Crash, LoseSession
<1>8. CASE \E p \in Proc : Work(p) \/ Start(p)
  BY <1>1, <1>2, <1>4, <1>8, SlateQuiet, SlateCreate DEF Work, SetUp, Stop, Quiet
<1>9. ASSUME NEW p \in Proc, Disturb(p) PROVE Slates'
  <2>1. ASSUME AbortSetup(p) \/ CloseLost(p) \/ Crash(p) PROVE Dies(p)
    BY <2>1 DEF AbortSetup, CloseLost, Crash, Dies, Active, Setup
  <2> QED
    BY <1>3, <1>7, <1>9, <2>1, SlateQuiet DEF Disturb, LoseSession, Quiet
<1> QED
  BY <1>5, <1>6, <1>8, <1>9 DEF Next, NewPatch, vars

\* Past phase 1 the snapshots of a run are those of one execution of phase 1, for
\* every number of processes, runs, tiers, faults and resumes: a process may die
\* between the two statements of ResetRunToPhase0, or in the middle of phase 1,
\* and the next resume still starts from none (runner.go:72-80).  Phase 1 must
\* not be one of the phases that are repeated for each tier.
THEOREM SlateIsClean ==
  ASSUME ~SessionsMayDrop, PlainResumes, RankSyncOnce
  PROVE  Spec => []CleanSlate
<1>1. Init => AllPrepared /\ Slates
  BY DEF Init, AllPrepared, Prepared, Slates, SlateRow, SlateProc, IdleCli, Exists, Setup
<1>2. Exclusive /\ AllPrepared /\ Slates /\ [Next]_vars => AllPrepared' /\ Slates'
  BY PreparedStep, SlateStep DEF Exclusive
<1>3. Slates => CleanSlate
  BY DEF Slates, SlateProc, CleanSlate
<1> QED
  BY <1>1, <1>2, <1>3, ExclusiveInvariant, PTL DEF Spec

-----------------------------------------------------------------------------
(***************************************************************************)
(* Where a run of CrawlRun is in its list of phases: the checkpoint, what  *)
(* a resume skips, and the tiers that were collected.                      *)
(*                                                                         *)
(* The invariants: Marked (a sequential process has every phase in front   *)
(* of the checkpoint of its run behind it, or counts it as done), Stored   *)
(* (a process goes by the strategy in its row) and Collects (a checkpoint  *)
(* behind phase 2, a phase 2 counted as done and a phase 2 passed all mean *)
(* that the tiers of the run are collected).                               *)
(***************************************************************************)

-----------------------------------------------------------------------------
(* Places in the list of phases *)

Place == 1..Len(PhaseOrder)

LEMMA PlaceFacts ==
  /\ Len(PhaseOrder) \in Nat /\ 1 \in Place /\ 2 \in Place
  /\ PhaseOrder[1] = 0 /\ PhaseOrder[2] = 1
  /\ \A m, n \in Place : PhaseOrder[m] = PhaseOrder[n] => m = n
  /\ \A n \in Place : PhaseOrder[n] \in Phase
  /\ \A k \in Phase : \E n \in Place : PhaseOrder[n] = k
BY ConstantsAssumption DEF ConstantsAssumption, Place, Phase

LEMMA PositionOf ==
  ASSUME NEW n \in Place
  PROVE  Position(PhaseOrder[n]) = n
<1>1. \A m \in Place : PhaseOrder[m] = PhaseOrder[n] <=> m = n
  BY PlaceFacts
<1>2. Position(PhaseOrder[n]) \in Place /\ PhaseOrder[Position(PhaseOrder[n])] = PhaseOrder[n]
  BY DEF Position, Place
<1> QED
  BY <1>1, <1>2

\* DoneBefore are the phases in front of the checkpoint.
LEMMA DoneBeforePlace ==
  ASSUME NEW m \in Place, NEW c \in Place
  PROVE  PhaseOrder[m] \in DoneBefore(PhaseOrder[c]) <=> m < c
<1> DEFINE S == {n \in 1..Len(PhaseOrder) : \A j \in 1..n : PhaseOrder[j] # PhaseOrder[c]}
<1>1. ASSUME NEW n \in Place PROVE n \in S <=> n < c
  <2>1. \A j \in 1..n : j \in Place
    BY PlaceFacts DEF Place
  <2>2. \A j \in 1..n : PhaseOrder[j] = PhaseOrder[c] <=> j = c
    BY <2>1, PlaceFacts
  <2>3. c \in 1..n <=> ~(n < c)
    BY DEF Place
  <2> QED
    BY <2>2, <2>3 DEF Place
<1>2. PhaseOrder[m] \in {PhaseOrder[n] : n \in S} <=> m \in S
  BY PlaceFacts DEF Place
<1> QED
  BY <1>1, <1>2 DEF DoneBefore

LEMMA DoneBeforeSubset == ASSUME NEW k PROVE DoneBefore(k) \in SUBSET Phase
BY DEF DoneBefore, Phase

\* The plan of the sequential strategy is the list of phases.
LEMMA SequentialPlace ==
  ASSUME NEW prof, prof.execution = "sequential"
  PROVE  /\ Len(Plan(prof)) = Len(PhaseOrder)
         /\ \A n \in Place : Plan(prof)[n] = PhaseStep(PhaseOrder[n], None)
BY PlaceFacts DEF Plan, SequentialPlan, Place

-----------------------------------------------------------------------------
(* The steps of a strategy, as far as its place in the plan is concerned *)

SamePlan(p) ==
  /\ cli'[p].run = cli[p].run /\ cli'[p].done = cli[p].done
  /\ cli'[p].prof.execution = cli[p].prof.execution
  /\ cli'[p].prof.tiers = cli[p].prof.tiers

\* What only Create, Reactivate, Close and Cancel decide about a row.
SameRun(i) ==
  /\ rows[i] \in Row /\ rows'[i] \in Row
  /\ rows'[i].status = rows[i].status /\ rows'[i].region = rows[i].region
  /\ rows'[i].execution = rows[i].execution /\ rows'[i].tiers = rows[i].tiers

Advances(p) ==
  /\ cli[p].pc \in {"plan", "phase"} /\ MorePhases(p)
  /\ cli'[p].pc = "plan" /\ cli'[p].pos = cli[p].pos + 1 /\ cli'[p].out = cli[p].out
  /\ \/ rows'[cli[p].run].phase = rows[cli[p].run].phase
     \/ Step(p).opensTier /\ rows'[cli[p].run].phase = Step(p).phase

Enters(p) ==
  /\ cli[p].pc = "plan" /\ MorePhases(p)
  /\ ~Step(p).opensTier /\ Step(p).phase \notin cli[p].done
  /\ cli'[p].pc = "phase" /\ cli'[p].pos = cli[p].pos /\ cli'[p].out = cli[p].out
  /\ rows'[cli[p].run].phase = Step(p).phase

Continues(p) ==
  /\ cli[p].pc = "phase" /\ MorePhases(p)
  /\ cli'[p].pc = "phase" /\ cli'[p].pos = cli[p].pos /\ cli'[p].out = cli[p].out
  /\ rows'[cli[p].run].phase \in {rows[cli[p].run].phase, Step(p).phase}

Finishes(p) ==
  /\ cli[p].pc = "plan" /\ ~MorePhases(p)
  /\ cli'[p].pc = "close" /\ cli'[p].pos = cli[p].pos /\ cli'[p].out = "ok"
  /\ rows' = rows

LEMMA CheckpointKeeps ==
  ASSUME Typed, NEW p \in Proc, Executed(p), NEW k \in Phase, NEW t \in Tier \cup {None},
         Checkpoint(p, k, t)
  PROVE  SameRun(cli[p].run) /\ rows'[cli[p].run].phase = k
<1>1. cli[p].run \in RunId /\ rows[cli[p].run] \in Row
  BY ExecutedFacts
<1>2. \A row \in Row : /\ [row EXCEPT !.phase = k, !.tier = t].phase = k
                       /\ [row EXCEPT !.phase = k, !.tier = t].status = row.status
                       /\ [row EXCEPT !.phase = k, !.tier = t].region = row.region
                       /\ [row EXCEPT !.phase = k, !.tier = t].execution = row.execution
                       /\ [row EXCEPT !.phase = k, !.tier = t].tiers = row.tiers
                       /\ [row EXCEPT !.phase = k, !.tier = t] \in Row
  BY DEF Row
<1>3. rows'[cli[p].run] = [rows[cli[p].run] EXCEPT !.phase = k, !.tier = t]
  BY <1>1 DEF Checkpoint, Typed, TypeOK
<1> QED
  BY <1>1, <1>2, <1>3 DEF SameRun

LEMMA ExecuteShape ==
  ASSUME Typed, NEW p \in Proc, Execute(p)
  PROVE  /\ SamePlan(p) /\ SameRun(cli[p].run)
         /\ Advances(p) \/ Enters(p) \/ Continues(p) \/ Finishes(p)
<1> USE DEF Typed, TypeOK
<1>0. /\ cli[p] \in Cli /\ Executed(p) /\ Active(p) /\ cli[p].run \in RunId
      /\ rows[cli[p].run] \in Row /\ cli[p].pos \in Nat
  BY QuietExecuted, ExecutedFacts DEF Quiet, Cli
<1>1. rows' = rows => SameRun(cli[p].run)
  BY <1>0 DEF SameRun
<1>2. ASSUME cli' = Advance(p)
      PROVE  /\ SamePlan(p) /\ cli'[p].pc = "plan"
             /\ cli'[p].pos = cli[p].pos + 1 /\ cli'[p].out = cli[p].out
  BY <1>0, <1>2 DEF Advance, SamePlan, Cli
<1>3. CASE SkipDone(p) \/ SkipIdle(p) \/ FinishRankSync(p) \/ FinishCollect(p)
           \/ (\E k \in DrainPhase : FinishDrain(p, k))
  <2>1. cli[p].pc \in {"plan", "phase"} /\ MorePhases(p) /\ cli' = Advance(p) /\ rows' = rows
    BY <1>3 DEF SkipDone, SkipIdle, MustRun, FinishRankSync, FinishCollect, FinishDrain, InPhase,
                WellFormed
  <2> QED
    BY <1>1, <1>2, <2>1 DEF Advances
<1>4. CASE OpenTier(p)
  <2>1. /\ cli[p].pc = "plan" /\ MorePhases(p) /\ Step(p).opensTier /\ cli' = Advance(p)
        /\ Step(p) \in PlanStep /\ Checkpoint(p, Step(p).phase, Step(p).tier)
    BY <1>0, <1>4, StepType DEF OpenTier
  <2>2. SameRun(cli[p].run) /\ rows'[cli[p].run].phase = Step(p).phase
    BY <1>0, <2>1, CheckpointKeeps DEF PlanStep
  <2> QED
    BY <1>2, <2>1, <2>2 DEF Advances
<1>5. CASE EnterPhase(p)
  <2>1. /\ cli[p].pc = "plan" /\ MorePhases(p) /\ ~Step(p).opensTier
        /\ Step(p).phase \notin cli[p].done
        /\ Step(p) \in PlanStep /\ Checkpoint(p, Step(p).phase, Step(p).tier)
    BY <1>0, <1>5, StepType DEF EnterPhase, MustRun
  <2>2. SameRun(cli[p].run) /\ rows'[cli[p].run].phase = Step(p).phase
    BY <1>0, <2>1, CheckpointKeeps DEF PlanStep
  <2>3. SamePlan(p) /\ cli'[p].pc = "phase" /\ cli'[p].pos = cli[p].pos /\ cli'[p].out = cli[p].out
    BY <1>0, <1>5 DEF EnterPhase, SamePlan, Cli
  <2> QED
    BY <2>1, <2>2, <2>3 DEF Enters
<1>6. CASE SyncTier(p)
  <2>1. /\ cli[p].pc = "phase" /\ MorePhases(p) /\ Step(p).phase = 1
        /\ cli[p].prof.tiers[cli[p].synced + 1] \in Tier
        /\ Checkpoint(p, 1, cli[p].prof.tiers[cli[p].synced + 1])
    BY <1>0, <1>6 DEF SyncTier, InPhase, WellFormed, Cli, CliProfile
  <2>2. SameRun(cli[p].run) /\ rows'[cli[p].run].phase = 1
    BY <1>0, <2>1, PhaseFacts, CheckpointKeeps
  <2>3. SamePlan(p) /\ cli'[p].pc = "phase" /\ cli'[p].pos = cli[p].pos /\ cli'[p].out = cli[p].out
    BY <1>0, <1>6, <2>1 DEF SyncTier, SamePlan, Cli
  <2> QED
    BY <2>1, <2>2, <2>3 DEF Continues
<1>7. CASE SyncVersion(p)
  <2> DEFINE pin == Given(cli[p].prof.version, latest)
  <2>1. /\ rows' = IF cli[p].prof.version = None
                   THEN [rows EXCEPT ![cli[p].run].version = pin] ELSE rows
        /\ cli' = [Advance(p) EXCEPT ![p].prof.version = pin]
        /\ cli[p].pc = "phase" /\ MorePhases(p)
    BY <1>7 DEF SyncVersion, InPhase, WellFormed
  <2>2. pin \in Version \cup {None}
    BY <1>0 DEF Given, Cli, CliProfile
  <2> HIDE DEF pin
  <2>3. /\ SamePlan(p) /\ cli'[p].pc = "plan" /\ cli'[p].pos = cli[p].pos + 1
        /\ cli'[p].out = cli[p].out
    BY <1>0, <2>1 DEF Advance, SamePlan, Cli, CliProfile
  <2>4. \A row \in Row : /\ [row EXCEPT !.version = pin].phase = row.phase
                         /\ [row EXCEPT !.version = pin].status = row.status
                         /\ [row EXCEPT !.version = pin].region = row.region
                         /\ [row EXCEPT !.version = pin].execution = row.execution
                         /\ [row EXCEPT !.version = pin].tiers = row.tiers
                         /\ [row EXCEPT !.version = pin] \in Row
    BY <2>2 DEF Row
  <2>5. \/ rows' = rows
        \/ rows'[cli[p].run] = [rows[cli[p].run] EXCEPT !.version = pin]
    BY <1>0, <2>1
  <2>6. SameRun(cli[p].run) /\ rows'[cli[p].run].phase = rows[cli[p].run].phase
    BY <1>0, <2>4, <2>5 DEF SameRun
  <2> QED
    BY <2>1, <2>3, <2>6 DEF Advances
<1>8. CASE Finish(p)
  <2>1. /\ SamePlan(p) /\ cli[p].pc = "plan" /\ ~MorePhases(p) /\ rows' = rows
        /\ cli'[p].pc = "close" /\ cli'[p].pos = cli[p].pos /\ cli'[p].out = "ok"
    BY <1>0, <1>8 DEF Finish, SamePlan, Cli
  <2> QED
    BY <1>1, <2>1 DEF Finishes
<1>9. CASE CollectMatches(p) \/ (\E k \in DrainPhase : ProcessBatch(p, k))
  <2>1. cli' = cli /\ rows' = rows /\ cli[p].pc = "phase" /\ MorePhases(p)
    BY <1>9 DEF CollectMatches, ProcessBatch, InPhase, WellFormed
  <2> QED
    BY <1>1, <2>1 DEF Continues, SamePlan
<1> QED
  BY <1>3, <1>4, <1>5, <1>6, <1>7, <1>8, <1>9 DEF Execute

LEMMA QuietRun ==
  ASSUME Typed, NEW p \in Proc, Quiet(p)
  PROVE  /\ SameRun(cli[p].run) /\ SamePlan(p)
         /\ ~Execute(p) => \/ ResetCheckpoint(p) /\ rows'[cli[p].run].phase = 0
                           \/ UNCHANGED rows
<1>0. Executed(p) /\ rows[cli[p].run] \in Row /\ cli[p] \in Cli
  BY QuietExecuted, ExecutedFacts DEF Typed, TypeOK
<1>1. CASE Execute(p)
  BY <1>1, ExecuteShape
<1>2. CASE ResetCheckpoint(p)
  <2>1. SameRun(cli[p].run) /\ rows'[cli[p].run].phase = 0
    BY <1>0, <1>2, PhaseFacts, CheckpointKeeps DEF ResetCheckpoint
  <2>2. SamePlan(p)
    BY <1>0, <1>2 DEF ResetCheckpoint, SamePlan, Cli, Typed, TypeOK
  <2> QED
    BY <1>2, <2>1, <2>2
<1>3. CASE PurgeSnapshots(p) \/ Interrupted(p) \/ PhaseError(p) \/ Signal(p)
  <2>1. UNCHANGED rows
    BY <1>3 DEF PurgeSnapshots, Interrupted, PhaseError, Signal
  <2>2. SamePlan(p)
    <3>1. CASE PurgeSnapshots(p)
      BY <1>0, <3>1 DEF PurgeSnapshots, SamePlan, Cli, Typed, TypeOK
    <3>2. CASE Interrupted(p) \/ PhaseError(p)
      BY <1>0, <3>2 DEF Interrupted, PhaseError, SamePlan, Cli, Typed, TypeOK
    <3>3. CASE Signal(p)
      BY <1>0, <3>3 DEF Signal, SamePlan, Cli, Typed, TypeOK
    <3> QED
      BY <1>3, <3>1, <3>2, <3>3
  <2> QED
    BY <1>0, <2>1, <2>2 DEF SameRun
<1> QED
  BY <1>1, <1>2, <1>3 DEF Quiet

\* A new status changes nothing else in the table.
LEMMA StatusKeeps ==
  ASSUME Typed, NEW i \in RunId, rows[i] \in Row,
         NEW s \in {"running", "failed", "completed"}, rows' = [rows EXCEPT ![i].status = s]
  PROVE  /\ rows'[i].status = s /\ Exists(i)
         /\ \A j \in RunId \ {i} : rows'[j] = rows[j]
         /\ \A j \in RunId : Exists(j) =>
              /\ rows'[j] \in Row /\ rows'[j].phase = rows[j].phase
              /\ rows'[j].region = rows[j].region
              /\ rows'[j].execution = rows[j].execution /\ rows'[j].tiers = rows[j].tiers
              /\ rows'[j].version = rows[j].version
<1>1. /\ [rows[i] EXCEPT !.status = s].phase = rows[i].phase
      /\ [rows[i] EXCEPT !.status = s].region = rows[i].region
      /\ [rows[i] EXCEPT !.status = s].execution = rows[i].execution
      /\ [rows[i] EXCEPT !.status = s].tiers = rows[i].tiers
      /\ [rows[i] EXCEPT !.status = s].version = rows[i].version
      /\ [rows[i] EXCEPT !.status = s].status = s
      /\ [rows[i] EXCEPT !.status = s] \in Row
  BY DEF Row
<1>2. rows'[i] = [rows[i] EXCEPT !.status = s] /\ \A j \in RunId \ {i} : rows'[j] = rows[j]
  BY DEF Typed, TypeOK
<1>3. ASSUME NEW j \in RunId, Exists(j)
      PROVE  /\ rows'[j] \in Row /\ rows'[j].phase = rows[j].phase
             /\ rows'[j].region = rows[j].region
             /\ rows'[j].execution = rows[j].execution /\ rows'[j].tiers = rows[j].tiers
             /\ rows'[j].version = rows[j].version
  <2>1. CASE j = i
    BY <1>1, <1>2, <2>1
  <2>2. CASE j # i
    BY <1>2, <1>3, <2>2 DEF Typed, TypeOK, Exists
  <2> QED
    BY <2>1, <2>2
<1> QED
  BY <1>1, <1>2, <1>3, NoneIsNoRow DEF Exists

\* Region, strategy and target tiers of a run are written once.
FixedRow(i) ==
  Exists(i) => /\ rows'[i] \in Row /\ rows'[i].region = rows[i].region
               /\ rows'[i].execution = rows[i].execution /\ rows'[i].tiers = rows[i].tiers

LEMMA FixedRows ==
  ASSUME Typed, [Next]_vars, ~SessionsMayDrop
  PROVE  \A i \in RunId : FixedRow(i)
<1>1. UNCHANGED rows => \A i \in RunId : FixedRow(i)
  BY DEF FixedRow, Typed, TypeOK, Exists
<1>2. ASSUME NEW i \in RunId, NEW s \in {"running", "failed", "completed"}, Exists(i),
             rows' = [rows EXCEPT ![i].status = s]
      PROVE  \A j \in RunId : FixedRow(j)
  <2>1. rows[i] \in Row
    BY <1>2 DEF Typed, TypeOK, Exists
  <2> QED
    BY <1>2, <2>1, StatusKeeps DEF FixedRow
<1>3. ASSUME NEW p \in Proc, Quiet(p) PROVE \A i \in RunId : FixedRow(i)
  <2>1. SameRun(cli[p].run) /\ \A i \in RunId \ {cli[p].run} : rows'[i] = rows[i]
    BY <1>3, QuietRun, OwnRow
  <2> QED
    BY <2>1 DEF SameRun, FixedRow, Typed, TypeOK, Exists
<1>4. ASSUME NEW p \in Proc, NEW i \in RunId, Create(p, i) PROVE \A j \in RunId : FixedRow(j)
  BY <1>4, CreateRows DEF FixedRow, Typed, TypeOK, Exists
<1>5. ASSUME NEW p \in Proc, Reactivate(p) \/ Close(p) PROVE \A i \in RunId : FixedRow(i)
  <2>1. cli[p].run \in RunId /\ Exists(cli[p].run)
    <3>1. Executed(p)
      BY <1>5 DEF Reactivate, Close, Executed, Running, Executing
    <3> QED
      BY <3>1, ExecutedFacts
  <2> QED
    BY <1>1, <1>2, <1>5, <2>1 DEF Reactivate, Close
<1>6. ASSUME NEW i \in RunId, Cancel(i) PROVE \A j \in RunId : FixedRow(j)
  BY <1>2, <1>6 DEF Cancel
<1> QED
  BY <1>1, <1>3, <1>4, <1>5, <1>6, StepKinds, StartPc DEF ReadActive, Lookup, Dies

\* A step of one process.
Acts(p) ==
  \/ Quiet(p) \/ ReadActive(p) \/ Lookup(p) \/ Reactivate(p) \/ (\E i \in RunId : Create(p, i))
  \/ Start(p) \/ Close(p) \/ Dies(p)

LEMMA ActsAlone ==
  ASSUME Typed, NEW p \in Proc, Acts(p)
  PROVE  \A q \in Proc \ {p} : cli'[q] = cli[q]
<1>1. CASE Quiet(p)
  BY <1>1, QuietShape DEF GoesOn
<1>2. CASE Start(p)
  BY <1>2, StartShape DEF Begins
<1>3. CASE Leave(p)
  BY <1>3, LeaveShape
<1>4. CASE ~Leave(p) /\ (ReadActive(p) \/ Lookup(p) \/ Reactivate(p) \/ \E i \in RunId : Create(p, i))
  BY <1>4 DEF ReadActive, Lookup, Reactivate, Create, Typed, TypeOK
<1> QED
  BY <1>1, <1>2, <1>3, <1>4 DEF Acts, Close, Dies

\* It leaves the rows of the other executed runs alone.
LEMMA OthersRow ==
  ASSUME Exclusive, NEW p \in Proc, Acts(p), NEW q \in Proc \ {p}, HasRun(q)
  PROVE  rows'[cli[q].run] = rows[cli[q].run]
<1> USE DEF Exclusive
<1>0. cli[q].run \in RunId /\ rows[cli[q].run] \in Row
  BY DEF Typed, WellFormed
<1>1. CASE Quiet(p) \/ Reactivate(p) \/ Close(p)
  <2>1. HasRun(p)
    BY <1>1, QuietExecuted, ExecutedFacts DEF Reactivate, Close, HasRun
  <2> QED
    BY <1>0, <1>1, <2>1, OwnRow, OwnRun
<1>2. ASSUME NEW i \in RunId, Create(p, i) PROVE rows'[cli[q].run] = rows[cli[q].run]
  BY <1>0, <1>2, CreateRows, NoneIsNoRow
<1>3. CASE ReadActive(p) \/ Lookup(p) \/ Start(p) \/ Dies(p)
  BY <1>3, StartPc DEF ReadActive, Lookup, Dies
<1> QED
  BY <1>1, <1>2, <1>3 DEF Acts

-----------------------------------------------------------------------------
(* The strategy of a run *)

\* Resumes that leave the strategy of the run alone.
StrategyFromRow == \A flags \in ResumeFlags : flags.execution = None

Stored == \A p \in Proc : HasRun(p) => cli[p].prof.execution = rows[cli[p].run].execution

LEMMA StoredStep ==
  ASSUME Typed, Stored, StrategyFromRow, ~SessionsMayDrop, [Next]_vars
  PROVE  Stored'
<1> SUFFICES ASSUME NEW q \in Proc, HasRun(q)'
             PROVE  cli'[q].prof.execution = rows'[cli'[q].run].execution
  BY DEF Stored
\* a process that keeps its run and its strategy
<1>1. ASSUME HasRun(q), cli'[q].run = cli[q].run,
             cli'[q].prof.execution = cli[q].prof.execution
      PROVE  cli'[q].prof.execution = rows'[cli'[q].run].execution
  <2>1. cli[q].run \in RunId /\ Exists(cli[q].run)
    BY <1>1, NoneIsNoRow DEF Typed, WellFormed, Exists
  <2> QED
    BY <1>1, <2>1, FixedRows DEF FixedRow, Stored
<1>2. CASE cli'[q] = cli[q]
  BY <1>1, <1>2 DEF HasRun
<1>3. CASE Quiet(q)
  BY <1>1, <1>3, QuietRun, QuietExecuted, ExecutedFacts DEF SamePlan
<1>4. CASE Lookup(q)
  <2>1. /\ HasRun(q) /\ cli'[q].run = cli[q].run
        /\ cli'[q].prof = MergeFlags(rows[cli[q].run], cli[q].prof)
    <3>1. ~Leave(q)
      BY IdleCliType DEF Leave, HasRun, Typed, TypeOK
    <3> QED
      BY <1>4, <3>1 DEF Lookup, HasRun, Typed, TypeOK, Cli
  <2>2. MergeFlags(rows[cli[q].run], cli[q].prof).execution = cli[q].prof.execution
    BY DEF MergeFlags, Typed, TypeOK, Cli, CliProfile
  <2> QED
    BY <1>1, <2>1, <2>2
<1>5. CASE Reactivate(q)
  <2>1. HasRun(q) /\ cli'[q].run = cli[q].run /\ cli'[q].prof = cli[q].prof
    BY <1>5 DEF Reactivate, HasRun, Typed, TypeOK, Cli
  <2> QED
    BY <1>1, <2>1
<1>6. ASSUME NEW i \in RunId, Create(q, i)
      PROVE  cli'[q].prof.execution = rows'[cli'[q].run].execution
  <2>1. cli'[q].run = i /\ cli'[q].prof = cli[q].prof
    BY <1>6, CreateRows
  <2>2. rows'[i].execution = cli[q].prof.execution
    BY <1>6 DEF Create, Typed, TypeOK
  <2> QED
    BY <2>1, <2>2
<1>7. CASE Start(q)
  <2>1. PICK i \in RunId, flags \in ResumeFlags : StartResume(q, i, flags)
    <3>1. ASSUME NEW prof \in Profiles, StartNew(q, prof) PROVE FALSE
      BY <3>1 DEF StartNew, HasRun, Typed, TypeOK, Cli
    <3> QED
      BY <1>7, <3>1 DEF Start
  <2> DEFINE prof == [flags EXCEPT !.region = Given(@, rows[i].region),
                                   !.execution = Given(@, rows[i].execution)]
  <2>2. flags.execution = None /\ flags \in [region : Region \cup {None},
                            execution : Execution \cup {None},
                            tiers : Seq(Tier), version : Version \cup {None}]
    BY ConstantsAssumption DEF ConstantsAssumption, StrategyFromRow
  <2>3. prof.execution = rows[i].execution
    BY <2>2 DEF Given
  <2>4. cli' = [cli EXCEPT ![q].pc = "lookup", ![q].run = i, ![q].prof = prof] /\ rows' = rows
    BY <2>1 DEF StartResume
  <2> HIDE DEF prof
  <2>5. cli'[q].run = i /\ cli'[q].prof = prof
    BY <2>4 DEF Typed, TypeOK, Cli
  <2> QED
    BY <2>3, <2>4, <2>5
<1>8. CASE ReadActive(q) \/ Close(q) \/ Dies(q)
  <2>1. CASE Leave(q)
    BY <2>1, LeaveShape DEF HasRun
  <2>2. CASE ~Leave(q)
    BY <1>8, <2>2 DEF ReadActive, Close, Dies, HasRun, Typed, TypeOK, Cli
  <2> QED
    BY <2>1, <2>2
<1>9. ASSUME NEW p \in Proc, p # q, Acts(p) PROVE cli'[q] = cli[q]
  BY <1>9, ActsAlone
<1>10. UNCHANGED cli => cli'[q] = cli[q]
  OBVIOUS
<1> QED
  BY <1>2, <1>3, <1>4, <1>5, <1>6, <1>7, <1>8, <1>9, <1>10, StepKinds DEF Cancel, Acts

-----------------------------------------------------------------------------
(* The checkpoint *)

\* What a process knows of the checkpoint of its run: a rewind happens in phase 0
\* or 1 only, and a strategy that repeats nothing has every phase in front of the
\* checkpoint behind it or counts it as done.
Marked(p) ==
  LET row == rows[cli[p].run] IN
  /\ cli[p].pc = "reset" => row.phase \in {0, 1}
  /\ cli[p].pc = "purge" => row.phase = 0
  /\ cli[p].pc = "reactivate" => cli[p].done = IF Rewinds(row) THEN {} ELSE DoneBefore(row.phase)
  /\ cli[p].pc \in {"plan", "phase"} /\ row.execution = "sequential" =>
       \A n \in Place : PhaseOrder[n] \in DoneBefore(row.phase) =>
                          n < cli[p].pos \/ PhaseOrder[n] \in cli[p].done

AllMarked == \A p \in Proc : Marked(p)

LEMMA RewindsIs == ASSUME NEW row \in Row PROVE Rewinds(row) <=> row.phase \in {0, 1}
<1>1. Phase \subseteq {0, 1, 2, 3, 35, 4, 5, 55}
  BY ConstantsAssumption DEF ConstantsAssumption, Phase
<1>2. row.phase \in Phase
  BY DEF Row
<1>3. row.phase \in {0, 1, 2, 3, 35, 4, 5, 55}
  BY <1>1, <1>2
<1>4. row.phase <= 1 <=> row.phase \in {0, 1}
  BY <1>3
<1> QED
  BY <1>4 DEF Rewinds

LEMMA NoneDoneBefore0 == \A n \in Place : PhaseOrder[n] \notin DoneBefore(0)
<1>1. \A n \in Place : ~(n < 1)
  BY PlaceFacts DEF Place
<1> QED
  BY <1>1, DoneBeforePlace, PlaceFacts

\* The step a sequential execution stands at.
LEMMA SequentialStep ==
  ASSUME Typed, NEW p \in Proc, Active(p), MorePhases(p), cli[p].prof.execution = "sequential"
  PROVE  cli[p].pos \in Place /\ Step(p) = PhaseStep(PhaseOrder[cli[p].pos], None)
         /\ ~Step(p).opensTier /\ Step(p).phase = PhaseOrder[cli[p].pos]
<1>1. cli[p].pos \in Nat /\ cli[p].pos >= 1
  BY DEF Typed, TypeOK, Cli, WellFormed
<1>2. cli[p].pos \in Place
  BY <1>1, SequentialPlace, PlaceFacts DEF MorePhases, Steps, Place
<1> QED
  BY <1>2, SequentialPlace DEF Step, Steps, PhaseStep

LEMMA MarkedExecute ==
  ASSUME Typed, AllMarked, Stored, NEW p \in Proc, Execute(p)
  PROVE  Marked(p)'
<1> DEFINE row == rows[cli[p].run]
           new == rows'[cli[p].run]
<1>0. /\ SamePlan(p) /\ SameRun(cli[p].run)
      /\ Advances(p) \/ Enters(p) \/ Continues(p) \/ Finishes(p)
      /\ Active(p) /\ HasRun(p)
  BY ExecuteShape, QuietExecuted, ExecutedFacts DEF Quiet
<1>1. CASE Finishes(p)
  BY <1>1 DEF Finishes, Marked
<1>2. CASE ~Finishes(p)
  <2>1. MorePhases(p) /\ cli'[p].pc \in {"plan", "phase"} /\ cli[p].pc \in {"plan", "phase"}
    BY <1>0, <1>2 DEF Advances, Enters, Continues
  <2>2. SUFFICES ASSUME new.execution = "sequential", NEW n \in Place,
                        PhaseOrder[n] \in DoneBefore(new.phase)
                 PROVE  n < cli'[p].pos \/ PhaseOrder[n] \in cli[p].done
    BY <1>0, <2>1 DEF Marked, SamePlan
  <2>3. row.execution = "sequential" /\ cli[p].prof.execution = "sequential"
    BY <1>0, <2>2 DEF SameRun, Stored
  <2>4. cli[p].pos \in Place /\ ~Step(p).opensTier /\ Step(p).phase = PhaseOrder[cli[p].pos]
    BY <1>0, <2>1, <2>3, SequentialStep
  <2>5. \/ new.phase = row.phase /\ cli'[p].pos >= cli[p].pos
        \/ new.phase = PhaseOrder[cli[p].pos] /\ cli'[p].pos = cli[p].pos
    BY <1>0, <1>2, <2>4 DEF Advances, Enters, Continues, Place
  <2>6. CASE new.phase = row.phase /\ cli'[p].pos >= cli[p].pos
    <3>1. n < cli[p].pos \/ PhaseOrder[n] \in cli[p].done
      BY <2>1, <2>2, <2>3, <2>6 DEF AllMarked, Marked
    <3>2. cli'[p].pos \in Nat /\ cli[p].pos \in Nat /\ n \in Nat
      <4>1. Place \subseteq Nat
        BY PlaceFacts DEF Place
      <4>2. cli[p].pos \in Nat /\ n \in Nat
        BY <2>4, <4>1
      <4>3. cli'[p].pos = cli[p].pos \/ cli'[p].pos = cli[p].pos + 1
        BY <1>0, <1>2 DEF Advances, Enters, Continues
      <4> QED
        BY <4>2, <4>3
    <3> QED
      BY <2>6, <3>1, <3>2
  <2>7. CASE new.phase = PhaseOrder[cli[p].pos] /\ cli'[p].pos = cli[p].pos
    BY <2>2, <2>4, <2>7, DoneBeforePlace
  <2> QED
    BY <2>5, <2>6, <2>7
<1> QED
  BY <1>1, <1>2

LEMMA MarkedQuiet ==
  ASSUME Typed, AllPrepared, AllMarked, Stored, NEW p \in Proc, Quiet(p)
  PROVE  Marked(p)'
<1>0. cli[p] \in Cli /\ cli[p].run \in RunId /\ rows[cli[p].run] \in Row
  BY QuietExecuted, ExecutedFacts DEF Typed, TypeOK
<1>1. CASE Execute(p)
  BY <1>1, MarkedExecute
<1>2. CASE ResetCheckpoint(p)
  <2>1. rows'[cli[p].run].phase = 0
    BY <1>0, <1>2, PhaseFacts, CheckpointPhase DEF ResetCheckpoint, Executed
  <2>2. cli'[p].pc = "purge" /\ cli'[p].run = cli[p].run
    BY <1>0, <1>2 DEF ResetCheckpoint, Typed, TypeOK, Cli
  <2> QED
    BY <2>1, <2>2 DEF Marked
<1>3. CASE PurgeSnapshots(p)
  <2>1. /\ rows' = rows /\ rows[cli[p].run].phase = 0
        /\ cli'[p].pc = "plan" /\ cli'[p].run = cli[p].run
    BY <1>0, <1>3 DEF PurgeSnapshots, AllMarked, Marked, Typed, TypeOK, Cli
  <2> QED
    BY <2>1, NoneDoneBefore0 DEF Marked
<1>4. CASE Interrupted(p) \/ PhaseError(p)
  <2>1. cli'[p].pc = "close"
    BY <1>0, <1>4 DEF Interrupted, PhaseError, Typed, TypeOK, Cli
  <2> QED
    BY <2>1 DEF Marked
<1>5. CASE Signal(p)
  <2>1. /\ rows' = rows /\ cli'[p].pc = cli[p].pc /\ cli'[p].run = cli[p].run
        /\ cli'[p].pos = cli[p].pos /\ cli'[p].done = cli[p].done
    BY <1>0, <1>5 DEF Signal, Typed, TypeOK, Cli
  <2> QED
    BY <2>1 DEF AllMarked, Marked
<1> QED
  BY <1>1, <1>2, <1>3, <1>4, <1>5 DEF Quiet

\* What Lookup hands over.
LEMMA LookupHands ==
  ASSUME Typed, NEW p \in Proc, Lookup(p), ~Leave(p)
  PROVE  LET row == rows[cli[p].run] IN
         /\ cli[p].run \in RunId /\ row \in Row /\ Exists(cli[p].run) /\ Resumable(row)
         /\ rows' = rows /\ cli'[p].run = cli[p].run /\ cli'[p].pos = cli[p].pos
         /\ cli'[p].out = cli[p].out
         /\ cli'[p].pc = IF row.status = "failed" THEN "reactivate"
                         ELSE IF Rewinds(row) THEN "reset" ELSE "plan"
         /\ cli'[p].done = IF Rewinds(row) THEN {} ELSE DoneBefore(row.phase)
         /\ cli'[p].prof = MergeFlags(row, cli[p].prof)
<1> DEFINE row == rows[cli[p].run]
           pc == IF row.status = "failed" THEN "reactivate"
                 ELSE IF Rewinds(row) THEN "reset" ELSE "plan"
           done == IF Rewinds(row) THEN {} ELSE DoneBefore(row.phase)
<1>1. /\ cli' = [cli EXCEPT ![p].pc = pc, ![p].done = done, ![p].prof = MergeFlags(row, @)]
      /\ rows' = rows /\ cli[p].pc = "lookup" /\ Resumable(row)
  BY DEF Lookup
<1>2. cli[p].run \in RunId /\ row \in Row /\ Exists(cli[p].run) /\ cli[p] \in Cli
  BY <1>1, NoneIsNoRow DEF Typed, TypeOK, WellFormed, HasRun, Exists
<1> HIDE DEF pc, done, row
<1>3. /\ cli'[p].pc = pc /\ cli'[p].done = done /\ cli'[p].run = cli[p].run
      /\ cli'[p].pos = cli[p].pos /\ cli'[p].out = cli[p].out
      /\ cli'[p].prof = MergeFlags(row, cli[p].prof)
  BY <1>1, <1>2 DEF Typed, TypeOK, Cli
<1> QED
  BY <1>1, <1>2, <1>3 DEF pc, done, row

LEMMA MarkedStep ==
  ASSUME Exclusive, AllPrepared, AllMarked, Stored, ~SessionsMayDrop, [Next]_vars
  PROVE  AllMarked'
<1> USE DEF Exclusive
<1>1. ASSUME NEW p \in Proc, Acts(p), NEW q \in Proc \ {p} PROVE Marked(q)'
  <2>1. cli'[q] = cli[q]
    BY <1>1, ActsAlone
  <2>2. HasRun(q) => rows'[cli[q].run] = rows[cli[q].run]
    BY <1>1, OthersRow
  <2> QED
    BY <2>1, <2>2 DEF AllMarked, Marked, HasRun
<1>2. ASSUME NEW p \in Proc, Acts(p) PROVE Marked(p)'
  <2>0. cli[p] \in Cli
    BY DEF Typed, TypeOK
  <2>1. CASE Leave(p)
    BY <2>1, LeaveShape DEF Marked
  <2>2. CASE Quiet(p)
    BY <2>2, MarkedQuiet
  <2>3. CASE ReadActive(p) /\ ~Leave(p)
    <3>1. cli'[p].pc = "create"
      BY <2>0, <2>3 DEF ReadActive, Typed, TypeOK, Cli
    <3> QED
      BY <3>1 DEF Marked
  <2>4. CASE Lookup(p) /\ ~Leave(p)
    <3> DEFINE row == rows[cli[p].run]
    <3>1. /\ row \in Row /\ rows' = rows /\ cli'[p].run = cli[p].run
          /\ cli'[p].pc = IF row.status = "failed" THEN "reactivate"
                          ELSE IF Rewinds(row) THEN "reset" ELSE "plan"
          /\ cli'[p].done = IF Rewinds(row) THEN {} ELSE DoneBefore(row.phase)
      BY <2>4, LookupHands
    <3>2. Rewinds(row) <=> row.phase \in {0, 1}
      BY <3>1, RewindsIs
    <3> QED
      BY <3>1, <3>2 DEF Marked
  <2>5. CASE Reactivate(p)
    <3> DEFINE row == rows[cli[p].run]
    <3>1. cli[p].run \in RunId /\ row \in Row /\ cli[p].pc = "reactivate"
      BY <2>5, ExecutedFacts DEF Reactivate, Executed
    <3>2. rows'[cli[p].run].phase = row.phase
      BY <2>5, <3>1, StatusKeeps DEF Reactivate
    <3>3. /\ cli'[p].run = cli[p].run /\ cli'[p].done = cli[p].done
          /\ cli'[p].pc = IF cli[p].done = {} THEN "reset" ELSE "plan"
      BY <2>0, <2>5 DEF Reactivate, Typed, TypeOK, Cli
    <3>4. cli[p].done = IF Rewinds(row) THEN {} ELSE DoneBefore(row.phase)
      BY <3>1 DEF AllMarked, Marked
    <3>5. (Rewinds(row) <=> row.phase \in {0, 1}) /\ (~Rewinds(row) => DoneBefore(row.phase) # {})
      BY <3>1, RewindsIs, DoneBegins
    <3> HIDE DEF row
    <3> QED
      BY <3>2, <3>3, <3>4, <3>5 DEF Marked
  <2>6. ASSUME NEW i \in RunId, Create(p, i) PROVE Marked(p)'
    <3>1. cli'[p].pc = "plan" /\ cli'[p].run = i /\ rows'[i].phase = 0
      BY <2>0, <2>6 DEF Create, Typed, TypeOK, Cli
    <3> QED
      BY <3>1, NoneDoneBefore0 DEF Marked
  <2>7. CASE Start(p)
    BY <2>7, StartPc DEF Marked
  <2> QED
    BY <1>2, <2>1, <2>2, <2>3, <2>4, <2>5, <2>6, <2>7 DEF Acts, Close, Dies
<1>3. ASSUME NEW i \in RunId, Cancel(i) PROVE AllMarked'
  <2>1. cli' = cli /\ rows' = [rows EXCEPT ![i].status = "failed"] /\ rows[i] \in Row
    BY <1>3 DEF Cancel, Exists, Typed, TypeOK
  <2>2. ASSUME NEW q \in Proc PROVE Marked(q)'
    <3>1. HasRun(q) => /\ rows'[cli[q].run].phase = rows[cli[q].run].phase
                       /\ rows'[cli[q].run].execution = rows[cli[q].run].execution
      BY <2>1, StatusKeeps, NoneIsNoRow DEF Typed, WellFormed, Exists
    <3> QED
      BY <2>1, <3>1 DEF AllMarked, Marked, HasRun, Rewinds
  <2> QED
    BY <2>2 DEF AllMarked
<1>4. CASE UNCHANGED <<rows, cli>>
  BY <1>4 DEF AllMarked, Marked
<1> QED
  BY <1>1, <1>2, <1>3, <1>4, StepKinds DEF Acts, AllMarked

\* A checkpoint that a sequential execution writes is not behind the old one.
Forward(i) ==
  \/ Position(rows'[i].phase) >= Position(rows[i].phase)
  \/ rows[i].phase = 1 /\ rows'[i].phase = 0

LEMMA SamePhaseForward ==
  ASSUME Typed, NEW i \in RunId, Exists(i), rows'[i].phase = rows[i].phase
  PROVE  Forward(i)
<1>1. rows[i].phase \in Phase
  BY DEF Typed, TypeOK, Exists, Row
<1>2. PICK n \in Place : rows[i].phase = PhaseOrder[n]
  BY <1>1, PlaceFacts
<1> QED
  BY <1>2, PositionOf, PlaceFacts DEF Forward, Place

LEMMA ForwardExecute ==
  ASSUME Typed, AllPrepared, AllMarked, Stored, NEW p \in Proc, Execute(p),
         NEW i \in RunId, i = cli[p].run, rows[i].execution = "sequential"
  PROVE  Forward(i)
<1>0. /\ Advances(p) \/ Enters(p) \/ Continues(p) \/ Finishes(p)
      /\ Active(p) /\ HasRun(p) /\ Exists(i) /\ rows[i] \in Row
      /\ cli[p].prof.execution = "sequential"
  BY ExecuteShape, QuietExecuted, ExecutedFacts DEF Quiet, Stored
<1>1. CASE rows'[i].phase = rows[i].phase
  BY <1>0, <1>1, SamePhaseForward
<1>2. CASE rows'[i].phase # rows[i].phase
  <2>1. MorePhases(p) /\ cli[p].pc \in {"plan", "phase"}
    BY <1>0, <1>2 DEF Advances, Enters, Continues, Finishes
  <2>2. cli[p].pos \in Place /\ ~Step(p).opensTier /\ Step(p).phase = PhaseOrder[cli[p].pos]
    BY <1>0, <2>1, SequentialStep
  <2>3. rows'[i].phase = PhaseOrder[cli[p].pos] /\ PhaseOrder[cli[p].pos] \notin cli[p].done
    BY <1>0, <1>2, <2>2 DEF Advances, Enters, Continues, Finishes, AllPrepared, Prepared
  <2>4. PICK c \in Place : rows[i].phase = PhaseOrder[c]
    BY <1>0, PlaceFacts DEF Row
  <2>5. ~(cli[p].pos < c)
    <3> SUFFICES ASSUME cli[p].pos < c PROVE FALSE
      OBVIOUS
    <3>1. PhaseOrder[cli[p].pos] \in DoneBefore(rows[i].phase)
      BY <2>2, <2>4, DoneBeforePlace
    <3>2. cli[p].pos < cli[p].pos \/ PhaseOrder[cli[p].pos] \in cli[p].done
      BY <2>1, <2>2, <3>1 DEF AllMarked, Marked
    <3> QED
      BY <2>2, <2>3, <3>2, PlaceFacts DEF Place
  <2>6. cli[p].pos >= c
    BY <2>2, <2>4, <2>5, PlaceFacts DEF Place
  <2> QED
    BY <2>2, <2>3, <2>4, <2>6, PositionOf DEF Forward
<1> QED
  BY <1>1, <1>2

LEMMA ForwardStep ==
  ASSUME Exclusive, AllPrepared, AllMarked, Stored, ~SessionsMayDrop, [Next]_vars,
         NEW i \in RunId, Exists(i), rows[i].execution = "sequential"
  PROVE  Forward(i)
<1> USE DEF Exclusive
<1>1. ASSUME NEW p \in Proc, Quiet(p) PROVE Forward(i)
  <2>1. CASE i # cli[p].run
    BY <1>1, <2>1, OwnRow, SamePhaseForward
  <2>2. CASE i = cli[p].run
    <3>1. CASE Execute(p)
      BY <2>2, <3>1, ForwardExecute
    <3>2. CASE UNCHANGED rows
      BY <3>2, SamePhaseForward
    <3>3. CASE ResetCheckpoint(p) /\ rows'[i].phase = 0
      <4>1. rows[i].phase \in {0, 1}
        BY <2>2, <3>3 DEF ResetCheckpoint, AllMarked, Marked
      <4> QED
        BY <3>3, <4>1, SamePhaseForward DEF Forward
    <3> QED
      BY <1>1, <2>2, <3>1, <3>2, <3>3, QuietRun
  <2> QED
    BY <2>1, <2>2
<1>2. ASSUME NEW j \in RunId, NEW s \in {"running", "failed", "completed"}, Exists(j),
             rows' = [rows EXCEPT ![j].status = s]
      PROVE  Forward(i)
  <2>1. rows[j] \in Row
    BY <1>2 DEF Typed, TypeOK, Exists
  <2> QED
    BY <1>2, <2>1, StatusKeeps, SamePhaseForward
<1>3. ASSUME NEW p \in Proc, Reactivate(p) \/ Close(p) PROVE Forward(i)
  <2>1. cli[p].run \in RunId /\ Exists(cli[p].run)
    <3>1. Executed(p)
      BY <1>3 DEF Reactivate, Close, Executed, Running, Executing
    <3> QED
      BY <3>1, ExecutedFacts
  <2> QED
    BY <1>2, <1>3, <2>1, SamePhaseForward DEF Reactivate, Close
<1>4. ASSUME NEW p \in Proc, NEW j \in RunId, Create(p, j) PROVE Forward(i)
  BY <1>4, CreateRows, SamePhaseForward DEF Exists
<1>5. ASSUME NEW j \in RunId, Cancel(j) PROVE Forward(i)
  BY <1>2, <1>5 DEF Cancel
<1> QED
  BY <1>1, <1>3, <1>4, <1>5, StepKinds, StartPc, SamePhaseForward DEF ReadActive, Lookup, Dies

\* The checkpoint of a sequential run only moves forward, except from phase 1 to
\* phase 0, for every list of phases and any number of processes, resumes, faults
\* and cancels: what lies in front of it is not done again (run_state.go).
\* Resumes must not name another strategy.
THEOREM CheckpointsMoveForward ==
  ASSUME ~SessionsMayDrop, PlainResumes, StrategyFromRow
  PROVE  Spec => CheckpointMovesForward
<1>1. Init => AllPrepared /\ AllMarked /\ Stored
  BY DEF Init, AllPrepared, Prepared, AllMarked, Marked, Stored, HasRun, IdleCli, Setup
<1>2. Exclusive /\ AllPrepared /\ AllMarked /\ Stored /\ [Next]_vars
        => AllPrepared' /\ AllMarked' /\ Stored'
  BY PreparedStep, MarkedStep, StoredStep DEF Exclusive
<1>3. Exclusive /\ AllPrepared /\ AllMarked /\ Stored /\ [Next]_vars =>
        [\A i \in RunId :
           Exists(i) /\ rows[i].execution = "sequential" =>
             \/ Position(rows'[i].phase) >= Position(rows[i].phase)
             \/ rows[i].phase = 1 /\ rows'[i].phase = 0]_vars
  BY ForwardStep DEF Forward
<1> QED
  BY <1>1, <1>2, <1>3, ExclusiveInvariant, PTL DEF Spec, CheckpointMovesForward

-----------------------------------------------------------------------------
(* The match ids of a run *)

\* Phase 2 comes first in the turn of a tier, as NewPipelineStrategy has it.
CollectsFirst == PerTierPhaseIDs[1] = 2

\* Resumes that leave the target tiers of the run alone.
TiersFromRow == \A flags \in ResumeFlags : flags.tiers = <<>>

CollectStep(step) == step.phase = 2 /\ ~step.opensTier

LEMMA NotDoneBeforeItself == ASSUME NEW k \in Phase PROVE k \notin DoneBefore(k)
<1>1. PICK n \in Place : PhaseOrder[n] = k
  BY PlaceFacts
<1> QED
  BY <1>1, DoneBeforePlace, PlaceFacts DEF Place

\* A plan that passes phase 2 once does so in front of every later phase, and
\* collects all target tiers with it.
LEMMA CollectPlaced ==
  ASSUME CollectsFirst, NEW prof \in CliProfile, OnePass(prof)
  PROVE  LET plan == Plan(prof) IN
         /\ \E m \in 1..Len(plan) : CollectStep(plan[m])
         /\ \A n \in 1..Len(plan) :
              /\ 2 \in DoneBefore(plan[n].phase) => \E m \in 1..(n - 1) : CollectStep(plan[m])
              /\ CollectStep(plan[n]) =>
                   Range(prof.tiers) \subseteq
                     (IF plan[n].tier = None THEN Range(prof.tiers) ELSE {plan[n].tier})
<1>0. /\ 2 \in Phase /\ Len(PerTierPhaseIDs) \in Nat \ {0}
      /\ \A k \in Phase : k \notin DoneBefore(k)
  BY PhaseFacts, NotDoneBeforeItself DEF CollectsFirst
<1>1. 2 \notin DoneBefore(0) /\ 2 \notin DoneBefore(1)
  <2>1. PICK c \in Place : PhaseOrder[c] = 2
    BY <1>0, PlaceFacts
  <2>2. ~(c < 1) /\ ~(c < 2)
    BY <2>1, PlaceFacts DEF Place
  <2> QED
    BY <2>1, <2>2, DoneBeforePlace, PlaceFacts
<1>2. CASE prof.execution = "sequential"
  <2> DEFINE plan == Plan(prof)
  <2>1. PICK c \in Place : PhaseOrder[c] = 2
    BY <1>0, PlaceFacts
  <2>2. /\ Len(plan) = Len(PhaseOrder)
        /\ \A n \in Place : /\ plan[n].phase = PhaseOrder[n] /\ ~plan[n].opensTier
                            /\ plan[n].tier = None
    <3>1. Len(plan) = Len(PhaseOrder) /\ \A n \in Place : plan[n] = PhaseStep(PhaseOrder[n], None)
      BY <1>2, SequentialPlace
    <3> HIDE DEF plan
    <3>2. ASSUME NEW n \in Place
          PROVE  plan[n].phase = PhaseOrder[n] /\ ~plan[n].opensTier /\ plan[n].tier = None
      <4>1. plan[n] = PhaseStep(PhaseOrder[n], None)
        BY <3>1
      <4> QED
        BY <4>1 DEF PhaseStep
    <3> QED
      BY <3>1, <3>2
  <2>3. CollectStep(plan[c])
    BY <2>1, <2>2 DEF CollectStep
  <2>4. \A n \in Place : 2 \in DoneBefore(plan[n].phase) => c \in 1..(n - 1)
    BY <2>1, <2>2, DoneBeforePlace, PlaceFacts DEF Place
  <2> HIDE DEF plan
  <2>5. /\ \E m \in 1..Len(plan) : CollectStep(plan[m])
        /\ \A n \in 1..Len(plan) : 
              /\ 2 \in DoneBefore(plan[n].phase) => \E m \in 1..(n - 1) : CollectStep(plan[m])
              /\ plan[n].tier = None
    BY <2>1, <2>2, <2>3, <2>4 DEF Place
  <2> QED
    BY <2>5 DEF plan
<1>3. CASE prof.execution # "sequential" /\ Len(prof.tiers) = 1
  <2> DEFINE w == 1 + Len(PerTierPhaseIDs)
             plan == Plan(prof)
             t == prof.tiers[1]
  <2>1. w \in Nat /\ w >= 2 /\ Len(plan) = 2 + w
    <3>1. w \in Nat /\ w >= 2 /\ 2 + w * Len(prof.tiers) \in Nat /\ w * Len(prof.tiers) = w
      BY <1>0, <1>3
    <3>2. Plan(prof) = PipelinePlan(prof.tiers) /\ Plan(prof) \in Seq(PlanStep)
      BY <1>3, PlanType DEF Plan
    <3>3. DOMAIN PipelinePlan(prof.tiers) = 1..(2 + w * Len(prof.tiers))
      BY DEF PipelinePlan
    <3>4. DOMAIN Plan(prof) = 1..Len(Plan(prof)) /\ Len(Plan(prof)) \in Nat
      BY <3>2
    <3> HIDE DEF w
    <3> QED
      BY <3>1, <3>2, <3>3, <3>4
  <2>2. \A n \in 1..(2 + w) :
          plan[n] = IF n <= 2 THEN PhaseStep(PhaseOrder[n], None)
                    ELSE IF (n - 3) % w = 0 THEN TierStep(prof.tiers[((n - 3) \div w) + 1])
                    ELSE PhaseStep(PerTierPhaseIDs[(n - 3) % w], prof.tiers[((n - 3) \div w) + 1])
    BY <1>3, <2>1 DEF Plan, PipelinePlan
  <2>3. ASSUME NEW n \in 3..(2 + w)
        PROVE  (n - 3) \div w = 0 /\ (n - 3) % w = n - 3
    <3>1. n - 3 \in Nat /\ n - 3 < w * 1 /\ w \in Nat \ {0}
      BY <2>1
    <3> HIDE DEF w
    <3>2. (n - 3) \div w \in 0..(1 - 1)
      BY <3>1, 1 \in Nat, Pieces
    <3>3. n - 3 = w * ((n - 3) \div w) + ((n - 3) % w)
      BY <3>1
    <3> QED
      BY <3>1, <3>2, <3>3
  <2> HIDE DEF w, plan
  <2>4. \A n \in 3..(2 + w) : plan[n] = IF n = 3 THEN TierStep(t)
                                        ELSE PhaseStep(PerTierPhaseIDs[n - 3], t)
    BY <2>1, <2>2, <2>3
  <2>5. plan[1].phase = 0 /\ plan[2].phase = 1 /\ plan[3].phase = 2 /\ plan[4] = PhaseStep(2, t)
    BY <2>1, <2>2, <2>4, PlaceFacts DEF PhaseStep, TierStep, CollectsFirst
  <2>6. CollectStep(plan[4]) /\ 4 \in 1..Len(plan)
    BY <2>1, <2>5 DEF CollectStep, PhaseStep
  <2>7. ASSUME NEW n \in 1..Len(plan), 2 \in DoneBefore(plan[n].phase)
        PROVE  4 \in 1..(n - 1)
    <3>1. n # 1 /\ n # 2 /\ n # 3 /\ n # 4
      BY <1>0, <1>1, <2>5, <2>7 DEF PhaseStep
    <3> QED
      BY <2>1, <3>1
  <2>8. ASSUME NEW n \in 1..Len(plan), CollectStep(plan[n])
        PROVE  plan[n].tier = t
    <3>1. n # 1 /\ n # 2
      BY <2>5, <2>8 DEF CollectStep
    <3>2. n \in 3..(2 + w)
      BY <2>1, <3>1
    <3>3. plan[n] = TierStep(t) \/ plan[n] = PhaseStep(PerTierPhaseIDs[n - 3], t)
      BY <2>4, <3>2
    <3> HIDE DEF t
    <3> QED
      BY <3>3 DEF PhaseStep, TierStep
  <2>9. Range(prof.tiers) = {t}
    BY <1>3 DEF Range
  <2>10. /\ \E m \in 1..Len(plan) : CollectStep(plan[m])
         /\ \A n \in 1..Len(plan) :
              /\ 2 \in DoneBefore(plan[n].phase) => \E m \in 1..(n - 1) : CollectStep(plan[m])
              /\ CollectStep(plan[n]) =>
                   Range(prof.tiers) \subseteq
                     (IF plan[n].tier = None THEN Range(prof.tiers) ELSE {plan[n].tier})
    BY <2>6, <2>7, <2>8, <2>9
  <2> QED
    BY <2>10 DEF plan
<1> QED
  BY <1>2, <1>3 DEF OnePass

PassedCollect(p) == \E m \in 1..(cli[p].pos - 1) : CollectStep(Steps(p)[m])

\* A checkpoint past phase 2, a phase 2 counted as done and a phase 2 passed in
\* this execution all mean that the target tiers of the run are collected.
RowCollects(i) ==
  Exists(i) /\ OnePass(rows[i]) /\ (rows[i].status = "completed" \/ 2 \in DoneBefore(rows[i].phase))
    => CollectedAll(i)

ProcCollects(p) ==
  LET i == cli[p].run IN
  /\ cli[p].pc = "lookup" => cli[p].prof.tiers = <<>>
  /\ Executed(p) => cli[p].prof.tiers = rows[i].tiers
  /\ cli[p].out = "ok" => cli[p].pc = "close" /\ ~MorePhases(p)
  /\ Executed(p) /\ OnePass(rows[i]) /\ (2 \in cli[p].done \/ PassedCollect(p)) => CollectedAll(i)

Collects == (\A i \in RunId : RowCollects(i)) /\ (\A p \in Proc : ProcCollects(p))

LEMMA CollectedGrows ==
  ASSUME Typed, [Next]_vars, ~SessionsMayDrop, NEW i \in RunId, Exists(i), CollectedAll(i)
  PROVE  Range(rows'[i].tiers) \subseteq collected'[i]
<1>1. rows'[i].tiers = rows[i].tiers
  BY FixedRows DEF FixedRow
<1>2. collected[i] \subseteq collected'[i]
  <2>1. UNCHANGED collected => collected[i] \subseteq collected'[i]
    OBVIOUS
  <2>2. ASSUME NEW p \in Proc, FinishCollect(p) PROVE collected[i] \subseteq collected'[i]
    BY <2>2 DEF FinishCollect, Typed, TypeOK
  <2>3. ASSUME NEW p \in Proc, Work(p) PROVE collected[i] \subseteq collected'[i]
    BY <2>1, <2>2, <2>3
    DEF Work, SetUp, Execute, Stop, ReadActive, Lookup, Reactivate, ResetCheckpoint,
        PurgeSnapshots, Create, SkipDone, OpenTier, SkipIdle, EnterPhase, Finish, SyncVersion,
        SyncTier, FinishRankSync, CollectMatches, ProcessBatch, FinishDrain, Interrupted, Close
  <2>4. ASSUME NEW p \in Proc, Start(p) \/ Disturb(p) PROVE UNCHANGED collected
    BY <2>4
    DEF Start, StartNew, StartResume, Disturb, AbortSetup, PhaseError, Signal, CloseLost, Crash,
        LoseSession
  <2>5. ASSUME \/ \E j \in RunId : Cancel(j)
               \/ NewPatch
               \/ UNCHANGED vars
        PROVE  UNCHANGED collected
    BY <2>5 DEF Cancel, NewPatch, vars
  <2> QED
    BY <2>1, <2>3, <2>4, <2>5 DEF Next
<1> QED
  BY <1>1, <1>2 DEF CollectedAll

\* The run of a process that goes on executing it with the same plan.
LEMMA CollectsExecute ==
  ASSUME Exclusive, Stored, Collects, CollectsFirst, ~SessionsMayDrop, [Next]_vars,
         NEW p \in Proc, Execute(p), NEW i \in RunId, i = cli[p].run
  PROVE  RowCollects(i)' /\ ProcCollects(p)'
<1> USE DEF Exclusive
<1>0. /\ SamePlan(p) /\ SameRun(i)
      /\ Advances(p) \/ Enters(p) \/ Continues(p) \/ Finishes(p)
      /\ Executed(p) /\ Executed(p)' /\ Active(p) /\ HasRun(p) /\ Exists(i) /\ rows[i] \in Row
      /\ cli[p] \in Cli /\ cli[p].pos \in Nat /\ cli[p].pos >= 1 /\ cli[p].prof \in CliProfile
      /\ ProcCollects(p) /\ RowCollects(i) /\ Steps(p)' = Steps(p)
      /\ cli'[p].pc # "lookup"
  <2>1. Executed(p) /\ Executed(p)' /\ Active(p) /\ HasRun(p) /\ Exists(i) /\ rows[i] \in Row
    BY QuietExecuted, ExecutedFacts DEF Quiet
  <2>2. SamePlan(p) /\ SameRun(i) /\ (Advances(p) \/ Enters(p) \/ Continues(p) \/ Finishes(p))
    BY ExecuteShape
  <2>3. Steps(p)' = Steps(p)
    BY <2>2 DEF SamePlan, Steps, Plan
  <2>4. /\ cli[p] \in Cli /\ cli[p].pos \in Nat /\ cli[p].pos >= 1 /\ cli[p].prof \in CliProfile
        /\ ProcCollects(p) /\ RowCollects(i)
    BY DEF Typed, TypeOK, WellFormed, Cli, Collects
  <2>5. cli'[p].pc # "lookup"
    BY <2>2 DEF Advances, Enters, Continues, Finishes
  <2> QED
    BY <2>1, <2>2, <2>3, <2>4, <2>5
<1>1. cli[p].prof.execution = rows[i].execution /\ cli[p].prof.tiers = rows[i].tiers
  BY <1>0 DEF Stored, ProcCollects
<1>2. OnePass(rows[i]) <=> OnePass(cli[p].prof)
  BY <1>1 DEF OnePass
<1>3. OnePass(rows[i])' <=> OnePass(rows[i])
  BY <1>0 DEF OnePass, SameRun
<1>4. CollectedAll(i) => CollectedAll(i)'
  BY <1>0, CollectedGrows DEF CollectedAll
\* a phase that follows phase 2 in the plan follows it in the execution
<1>5. ASSUME OnePass(rows[i]), MorePhases(p), 2 \in DoneBefore(Step(p).phase) PROVE CollectedAll(i)
  <2>1. cli[p].pos \in 1..Len(Plan(cli[p].prof))
    BY <1>0, <1>5, PlanType DEF MorePhases, Steps
  <2>2. PassedCollect(p)
    BY <1>0, <1>2, <1>5, <2>1, CollectPlaced DEF PassedCollect, Steps, Step
  <2> QED
    BY <1>0, <1>5, <2>2 DEF ProcCollects
\* the step that passes phase 2 collects the tiers
<1>6. ASSUME OnePass(rows[i]), Advances(p), CollectStep(Step(p)) PROVE CollectedAll(i)'
  <2>1. SkipDone(p) \/ FinishCollect(p)
    <3>1. ~Enters(p) /\ ~Continues(p) /\ ~Finishes(p)
      BY <1>6 DEF Advances, Enters, Continues, Finishes
    <3>2. Step(p).phase = 2 /\ ~Step(p).opensTier
      BY <1>6 DEF CollectStep
    <3>3. ~(CollectMatches(p) \/ (\E k \in DrainPhase : ProcessBatch(p, k)) \/ Finish(p))
      <4>1. cli'[p].pc = "plan" /\ cli'[p].pos = cli[p].pos + 1
        BY <1>6 DEF Advances
      <4>2. cli[p].pos + 1 # cli[p].pos
        BY <1>0
      <4> QED
        BY <1>0, <4>1, <4>2 DEF CollectMatches, ProcessBatch, Finish, Typed, TypeOK, Cli
    <3>4. ~EnterPhase(p)
      <4>1. EnterPhase(p) => cli'[p].pc = "phase"
        BY <1>0 DEF EnterPhase, Typed, TypeOK, Cli
      <4> QED
        BY <1>6, <4>1 DEF Advances
    <3> QED
      BY <3>2, <3>3, <3>4
      DEF Execute, OpenTier, SkipIdle, IsDone, DrainPhase, SyncVersion, SyncTier, FinishRankSync,
          FinishDrain, InPhase
  <2>2. CASE SkipDone(p)
    BY <1>0, <1>4, <1>6, <2>2 DEF SkipDone, ProcCollects, CollectStep
  <2>3. CASE FinishCollect(p)
    <3>1. cli[p].pos \in 1..Len(Plan(cli[p].prof))
      BY <1>0, <1>6, PlanType DEF Advances, MorePhases, Steps
    <3>2. Range(cli[p].prof.tiers) \subseteq
            (IF Step(p).tier = None THEN Range(cli[p].prof.tiers) ELSE {Step(p).tier})
      BY <1>0, <1>2, <1>6, <3>1, CollectPlaced DEF Step, Steps
    <3>3. collected'[i] = collected[i] \cup
            (IF Step(p).tier = None THEN Range(cli[p].prof.tiers) ELSE {Step(p).tier})
      BY <2>3 DEF FinishCollect, Typed, TypeOK
    <3>4. Range(rows'[i].tiers) \subseteq collected'[i]
      BY <1>0, <1>1, <3>2, <3>3 DEF SameRun
    <3> QED
      BY <3>4 DEF CollectedAll
  <2> QED
    BY <2>1, <2>2, <2>3
<1>7. ASSUME OnePass(rows[i]), 2 \in cli'[p].done \/ PassedCollect(p)' PROVE CollectedAll(i)'
  <2>1. CASE 2 \in cli[p].done \/ PassedCollect(p)
    BY <1>0, <1>4, <1>7, <2>1 DEF ProcCollects
  <2>2. CASE ~(2 \in cli[p].done \/ PassedCollect(p))
    <3>1. PICK m \in 1..(cli'[p].pos - 1) : CollectStep(Steps(p)[m])
      BY <1>0, <1>7, <2>2 DEF SamePlan, PassedCollect
    <3>2. cli'[p].pos = cli[p].pos + 1 /\ m = cli[p].pos /\ Advances(p)
      BY <1>0, <2>2, <3>1 DEF PassedCollect, Advances, Enters, Continues, Finishes
    <3> QED
      BY <1>6, <1>7, <3>1, <3>2 DEF Step
  <2> QED
    BY <2>1, <2>2
<1>8. ProcCollects(p)'
  <2>1. cli'[p].out = "ok" => cli'[p].pc = "close" /\ ~MorePhases(p)'
    BY <1>0 DEF Advances, Enters, Continues, Finishes, MorePhases, ProcCollects
  <2>2. cli'[p].run = i /\ cli'[p].prof.tiers = rows'[i].tiers
    BY <1>0, <1>1 DEF SamePlan, SameRun
  <2> QED
    BY <1>0, <1>3, <1>7, <2>1, <2>2 DEF ProcCollects, OnePass, CollectedAll
<1>9. RowCollects(i)'
  <2> SUFFICES ASSUME OnePass(rows[i]),
                      rows'[i].status = "completed" \/ 2 \in DoneBefore(rows'[i].phase)
               PROVE  CollectedAll(i)
    BY <1>3, <1>4 DEF RowCollects
  <2>1. CASE rows'[i].status = "completed" \/ 2 \in DoneBefore(rows[i].phase)
    BY <1>0, <2>1 DEF RowCollects, SameRun
  <2>2. CASE rows'[i].phase # rows[i].phase
    <3>1. MorePhases(p) /\ rows'[i].phase = Step(p).phase
      BY <1>0, <2>2 DEF Advances, Enters, Continues, Finishes
    <3> QED
      BY <1>0, <1>5, <2>1, <3>1
  <2> QED
    BY <2>1, <2>2
<1> QED
  BY <1>8, <1>9

LEMMA CollectsOthers ==
  ASSUME Exclusive, Collects, ~SessionsMayDrop, [Next]_vars, NEW p \in Proc, Acts(p)
  PROVE  /\ \A q \in Proc \ {p} : ProcCollects(q)'
         /\ \A i \in RunId : rows'[i] = rows[i] => RowCollects(i)'
<1> USE DEF Exclusive
<1>1. ASSUME NEW i \in RunId, rows'[i] = rows[i] PROVE RowCollects(i)'
  <2> SUFFICES ASSUME Exists(i), OnePass(rows[i]),
                      rows[i].status = "completed" \/ 2 \in DoneBefore(rows[i].phase)
               PROVE  CollectedAll(i)'
    BY <1>1 DEF RowCollects, Exists, OnePass
  <2>1. CollectedAll(i)
    BY DEF Collects, RowCollects
  <2> QED
    BY <2>1, CollectedGrows DEF CollectedAll
<1>2. ASSUME NEW q \in Proc, q # p PROVE ProcCollects(q)'
  <2>1. cli'[q] = cli[q]
    BY <1>2, ActsAlone
  <2>2. CASE Executed(q)
    <3>1. HasRun(q) /\ cli[q].run \in RunId /\ Exists(cli[q].run)
      BY <2>2, ExecutedFacts
    <3>2. rows'[cli[q].run] = rows[cli[q].run]
      BY <1>2, <3>1, OthersRow
    <3>3. CollectedAll(cli[q].run) => Range(rows[cli[q].run].tiers) \subseteq collected'[cli[q].run]
      BY <3>1, <3>2, CollectedGrows
    <3>4. ProcCollects(q)
      BY DEF Collects
    <3> QED
      BY <2>1, <2>2, <3>2, <3>3, <3>4
      DEF ProcCollects, OnePass, CollectedAll, PassedCollect, MorePhases, Steps, Executed, Running
  <2>3. CASE ~Executed(q)
    BY <2>1, <2>3 DEF Collects, ProcCollects, MorePhases, Steps, Executed, Running
  <2> QED
    BY <2>2, <2>3
<1> QED
  BY <1>1, <1>2

\* Within an execution, but not in front of a phase.
LEMMA CollectsQuiet ==
  ASSUME Exclusive, Stored, Collects, CollectsFirst, ~SessionsMayDrop, [Next]_vars,
         NEW p \in Proc, Quiet(p), NEW i \in RunId, i = cli[p].run
  PROVE  RowCollects(i)' /\ ProcCollects(p)'
<1> USE DEF Exclusive
<1>1. CASE Execute(p)
  BY <1>1, CollectsExecute
<1>2. CASE ~Execute(p)
  <2>0. /\ Executed(p) /\ Executed(p)' /\ cli[p] \in Cli /\ SamePlan(p) /\ SameRun(i)
        /\ Acts(p) /\ Exists(i) /\ ProcCollects(p) /\ RowCollects(i)
    BY QuietExecuted, ExecutedFacts, QuietRun DEF Acts, Collects, Typed, TypeOK
  <2>1. /\ cli'[p].pos = cli[p].pos /\ cli'[p].pc # "lookup"
        /\ cli'[p].out = "ok" => cli[p].out = "ok" /\ cli[p].pc # "close"
    <3>1. CASE ResetCheckpoint(p) \/ PurgeSnapshots(p)
      BY <2>0, <3>1 DEF ResetCheckpoint, PurgeSnapshots, Typed, TypeOK, Cli
    <3>2. CASE Interrupted(p) \/ PhaseError(p)
      BY <2>0, <3>2 DEF Interrupted, PhaseError, Typed, TypeOK, Cli
    <3>3. CASE Signal(p)
      BY <2>0, <3>3 DEF Signal, Typed, TypeOK, Cli
    <3> QED
      BY <1>2, <3>1, <3>2, <3>3 DEF Quiet
  <2>2. CollectedAll(i) => CollectedAll(i)'
    BY <2>0, CollectedGrows DEF CollectedAll
  <2>3. PassedCollect(p)' <=> PassedCollect(p)
    BY <2>0, <2>1 DEF PassedCollect, Steps, Plan, SamePlan
  <2>4. OnePass(rows[i])' <=> OnePass(rows[i])
    BY <2>0 DEF OnePass, SameRun
  <2>5. cli'[p].out # "ok"
    BY <2>0, <2>1 DEF ProcCollects
  <2>6. ProcCollects(p)'
    BY <2>0, <2>1, <2>2, <2>3, <2>4, <2>5 DEF ProcCollects, SamePlan, SameRun, OnePass, CollectedAll
  <2>7. RowCollects(i)'
    <3>1. CASE UNCHANGED rows
      BY <2>0, <3>1, CollectsOthers
    <3>2. CASE rows'[i].phase = 0
      <4>1. 2 \notin DoneBefore(0)
        BY PhaseFacts, PlaceFacts, NoneDoneBefore0 DEF CollectsFirst
      <4> QED
        BY <2>0, <2>2, <2>4, <3>2, <4>1 DEF RowCollects, SameRun
    <3> QED
      BY <1>2, <3>1, <3>2, QuietRun
  <2> QED
    BY <2>6, <2>7
<1> QED
  BY <1>1, <1>2

\* At the end of its plan a process passed phase 2.
LEMMA CollectsAtEnd ==
  ASSUME Typed, Stored, Collects, CollectsFirst, NEW p \in Proc, Executed(p), ~MorePhases(p),
         OnePass(rows[cli[p].run])
  PROVE  CollectedAll(cli[p].run)
<1>0. /\ cli[p].pos \in Nat /\ cli[p].prof \in CliProfile /\ HasRun(p) /\ ProcCollects(p)
  BY ExecutedFacts DEF Typed, TypeOK, Cli, Collects
<1>1. OnePass(cli[p].prof)
  BY <1>0 DEF Stored, ProcCollects, OnePass
<1>2. PICK m \in 1..Len(Plan(cli[p].prof)) : CollectStep(Plan(cli[p].prof)[m])
  BY <1>0, <1>1, CollectPlaced
<1>3. Len(Plan(cli[p].prof)) \in Nat
  BY <1>0, PlanType
<1>4. PassedCollect(p)
  BY <1>0, <1>2, <1>3 DEF PassedCollect, MorePhases, Steps
<1> QED
  BY <1>0, <1>4 DEF ProcCollects

LEMMA CollectsLeave ==
  ASSUME Typed, NEW p \in Proc, Leave(p)
  PROVE  ProcCollects(p)'
<1>1. cli'[p] = IdleCli
  BY DEF Leave, Typed, TypeOK
<1> QED
  BY <1>1 DEF ProcCollects, IdleCli, Executed, Running, Executing

LEMMA CollectsLookup ==
  ASSUME Exclusive, AllPrepared, Collects, NEW p \in Proc, Lookup(p),
         ~SessionsMayDrop, [Next]_vars
  PROVE  ProcCollects(p)'
<1> USE DEF Exclusive
<1>1. CASE Leave(p)
  BY <1>1, CollectsLeave
<1>2. CASE ~Leave(p)
  <2> DEFINE row == rows[cli[p].run]
  <2>1. /\ cli[p].run \in RunId /\ row \in Row /\ Exists(cli[p].run)
        /\ rows' = rows /\ cli'[p].run = cli[p].run /\ cli'[p].pos = cli[p].pos
        /\ cli'[p].out = cli[p].out
        /\ cli'[p].pc \in {"reactivate", "reset", "plan"}
        /\ cli'[p].done = IF Rewinds(row) THEN {} ELSE DoneBefore(row.phase)
        /\ cli'[p].prof = MergeFlags(row, cli[p].prof)
    BY <1>2, LookupHands
  <2>2. cli[p].pc = "lookup" /\ cli[p].prof.tiers = <<>> /\ cli[p].out # "ok" /\ cli[p].pos = 1
    BY DEF Lookup, Collects, ProcCollects, AllPrepared, Prepared, Setup
  <2>3. MergeFlags(row, cli[p].prof).tiers = row.tiers
    BY <2>2 DEF MergeFlags, Typed, TypeOK, Cli, CliProfile
  <2>4. ~PassedCollect(p)'
    BY <2>1, <2>2 DEF PassedCollect
  <2>5. 2 \in cli'[p].done /\ OnePass(row) => CollectedAll(cli[p].run)
    BY <2>1 DEF Collects, RowCollects
  <2>6. collected' = collected
    BY DEF Lookup
  <2> QED
    BY <2>1, <2>2, <2>3, <2>4, <2>5, <2>6 DEF ProcCollects, OnePass, CollectedAll
<1> QED
  BY <1>1, <1>2

LEMMA CollectsStart ==
  ASSUME Typed, Collects, TiersFromRow, NEW p \in Proc, Start(p)
  PROVE  ProcCollects(p)'
<1>0. cli[p] \in Cli /\ ProcCollects(p)
  BY DEF Typed, TypeOK, Collects
<1>1. ASSUME NEW prof \in Profiles, StartNew(p, prof) PROVE ProcCollects(p)'
  <2>1. cli[p].pc = "idle" /\ cli'[p].pc = "check" /\ cli'[p].out = cli[p].out
    BY <1>0, <1>1 DEF StartNew, Cli, Typed, TypeOK
  <2> QED
    BY <1>0, <2>1 DEF ProcCollects, Executed, Running, Executing
<1>2. ASSUME NEW i \in RunId, NEW flags \in ResumeFlags, StartResume(p, i, flags)
      PROVE  ProcCollects(p)'
  <2> DEFINE prof == [flags EXCEPT !.region = Given(@, rows[i].region),
                                   !.execution = Given(@, rows[i].execution)]
  <2>1. flags.tiers = <<>> /\ flags \in [region : Region \cup {None},
                            execution : Execution \cup {None},
                            tiers : Seq(Tier), version : Version \cup {None}]
    BY ConstantsAssumption DEF ConstantsAssumption, TiersFromRow
  <2>2. prof.tiers = <<>>
    BY <2>1
  <2>3. cli' = [cli EXCEPT ![p].pc = "lookup", ![p].run = i, ![p].prof = prof] /\ cli[p].pc = "idle"
    BY <1>2 DEF StartResume
  <2> HIDE DEF prof
  <2>4. /\ cli'[p].pc = "lookup" /\ cli'[p].prof = prof /\ cli'[p].out = cli[p].out
    BY <1>0, <2>3 DEF Cli, Typed, TypeOK
  <2>5. cli'[p].prof.tiers = <<>> /\ cli'[p].out # "ok" /\ ~Executed(p)'
    BY <1>0, <2>2, <2>3, <2>4 DEF ProcCollects, Executed, Running, Executing
  <2> QED
    BY <2>5 DEF ProcCollects
<1> QED
  BY <1>1, <1>2 DEF Start

LEMMA CollectsStep ==
  ASSUME Exclusive, AllPrepared, Stored, Collects, CollectsFirst, TiersFromRow,
         ~SessionsMayDrop, [Next]_vars
  PROVE  Collects'
<1> USE DEF Exclusive
<1>1. ASSUME NEW p \in Proc, Acts(p), ProcCollects(p)',
             \A i \in RunId : rows'[i] = rows[i] \/ RowCollects(i)'
      PROVE  Collects'
  BY <1>1, CollectsOthers DEF Collects
<1>2. ASSUME NEW p \in Proc, Quiet(p) PROVE Collects'
  <2>1. cli[p].run \in RunId /\ \A i \in RunId \ {cli[p].run} : rows'[i] = rows[i]
    BY <1>2, QuietExecuted, ExecutedFacts, OwnRow
  <2>2. ProcCollects(p)' /\ \A i \in RunId : i = cli[p].run => RowCollects(i)'
    BY <1>2, <2>1, CollectsQuiet
  <2> QED
    BY <1>1, <1>2, <2>1, <2>2 DEF Acts
<1>3. ASSUME NEW p \in Proc, Lookup(p) \/ Start(p) PROVE Collects'
  <2>1. UNCHANGED rows
    BY <1>3, StartPc DEF Lookup
  <2> QED
    BY <1>1, <1>3, <2>1, CollectsLookup, CollectsStart DEF Acts
<1>4. ASSUME NEW p \in Proc, ReadActive(p) PROVE Collects'
  <2>1. CASE Leave(p)
    BY <1>1, <1>4, <2>1, CollectsLeave DEF ReadActive, Acts
  <2>2. CASE ~Leave(p)
    <3>1. cli[p].pc = "check" /\ cli'[p].pc = "create" /\ cli'[p].out = cli[p].out /\ rows' = rows
      BY <1>4, <2>2 DEF ReadActive, Typed, TypeOK, Cli
    <3>2. ProcCollects(p)'
      BY <3>1 DEF Collects, ProcCollects, Executed, Running, Executing
    <3> QED
      BY <1>1, <1>4, <3>1, <3>2 DEF Acts
  <2> QED
    BY <2>1, <2>2
<1>5. ASSUME NEW p \in Proc, Dies(p) PROVE Collects'
  BY <1>1, <1>5, CollectsLeave DEF Dies, Acts
<1>6. ASSUME NEW p \in Proc, Reactivate(p) PROVE Collects'
  <2> DEFINE i == cli[p].run
  <2>1. /\ Executed(p) /\ i \in RunId /\ rows[i] \in Row /\ Exists(i) /\ cli[p] \in Cli
        /\ ProcCollects(p) /\ RowCollects(i)
    BY <1>6, ExecutedFacts DEF Reactivate, Executed, Typed, TypeOK, Collects
  <2>2. /\ cli'[p].run = i /\ cli'[p].prof = cli[p].prof /\ cli'[p].done = cli[p].done
        /\ cli'[p].pos = cli[p].pos /\ cli'[p].out = cli[p].out /\ cli'[p].pc \in {"reset", "plan"}
        /\ cli[p].pc = "reactivate" /\ collected' = collected
    BY <1>6, <2>1 DEF Reactivate, Typed, TypeOK, Cli
  <2>3. /\ rows'[i].status = "running" /\ \A j \in RunId \ {i} : rows'[j] = rows[j]
        /\ rows'[i].phase = rows[i].phase /\ rows'[i].tiers = rows[i].tiers
        /\ rows'[i].execution = rows[i].execution
    BY <1>6, <2>1, StatusKeeps DEF Reactivate
  <2>4. PassedCollect(p)' <=> PassedCollect(p)
    BY <2>2 DEF PassedCollect, Steps
  <2>5. ProcCollects(p)'
    BY <2>1, <2>2, <2>3, <2>4 DEF ProcCollects, OnePass, CollectedAll
  <2>6. \A j \in RunId : j = i => RowCollects(j)'
    BY <2>1, <2>2, <2>3 DEF RowCollects, OnePass, CollectedAll
  <2> QED
    BY <1>1, <1>6, <2>3, <2>5, <2>6 DEF Acts
<1>7. ASSUME NEW p \in Proc, NEW i \in RunId, Create(p, i) PROVE Collects'
  <2>1. /\ cli[p].pc = "create" /\ cli[p].pos = 1 /\ cli[p].done = {} /\ cli[p].out # "ok"
    BY <1>7 DEF Create, AllPrepared, Prepared, Setup, Collects, ProcCollects
  <2>2. /\ cli'[p].run = i /\ cli'[p].pc = "plan" /\ cli'[p].prof = cli[p].prof
        /\ cli'[p].pos = cli[p].pos /\ cli'[p].done = cli[p].done /\ cli'[p].out = cli[p].out
    BY <1>7 DEF Create, Typed, TypeOK, Cli
  <2>3. /\ rows'[i].status = "running" /\ rows'[i].phase = 0 /\ rows'[i].tiers = cli[p].prof.tiers
        /\ \A j \in RunId \ {i} : rows'[j] = rows[j]
    BY <1>7 DEF Create, Typed, TypeOK
  <2>4. 2 \notin DoneBefore(0)
    BY PhaseFacts, PlaceFacts, NoneDoneBefore0 DEF CollectsFirst
  <2>5. \A j \in RunId : j = i => RowCollects(j)'
    BY <2>3, <2>4 DEF RowCollects
  <2>6. ~PassedCollect(p)'
    BY <2>1, <2>2 DEF PassedCollect
  <2>7. ProcCollects(p)'
    BY <2>1, <2>2, <2>3, <2>6 DEF ProcCollects
  <2>8. Acts(p)
    BY <1>7 DEF Acts
  <2> QED
    BY <1>1, <2>3, <2>5, <2>7, <2>8
<1>8. ASSUME NEW p \in Proc, Close(p) PROVE Collects'
  <2> DEFINE i == cli[p].run
  <2>1. /\ Executed(p) /\ i \in RunId /\ rows[i] \in Row /\ ProcCollects(p) /\ RowCollects(i)
    BY <1>8, ExecutedFacts DEF Close, Executed, Running, Executing, Collects
  <2>2. ProcCollects(p)' /\ collected' = collected /\ Acts(p)
    BY <1>8, CollectsLeave DEF Close, Acts
  <2>3. CASE rows' = rows
    BY <1>1, <2>2, <2>3
  <2>4. ASSUME NEW s \in {"completed", "failed"}, rows' = [rows EXCEPT ![i].status = s],
               s = "completed" => cli[p].out = "ok"
        PROVE  Collects'
    <3>1. /\ rows'[i].status = s /\ \A j \in RunId \ {i} : rows'[j] = rows[j]
          /\ rows'[i].phase = rows[i].phase /\ rows'[i].tiers = rows[i].tiers
          /\ rows'[i].execution = rows[i].execution /\ Exists(i)
      BY <2>1, <2>4, StatusKeeps
    <3>2. s = "completed" /\ OnePass(rows[i]) => CollectedAll(i)
      BY <2>1, <2>4, CollectsAtEnd DEF ProcCollects
    <3>3. \A j \in RunId : j = i => RowCollects(j)'
      BY <2>1, <2>2, <3>1, <3>2 DEF RowCollects, OnePass, CollectedAll
    <3> QED
      BY <1>1, <2>2, <3>1, <3>3
  <2> QED
    BY <1>8, <2>3, <2>4 DEF Close
<1>9. ASSUME NEW i \in RunId, Cancel(i) PROVE Collects'
  <2>1. /\ cli' = cli /\ collected' = collected /\ Exists(i) /\ rows[i] \in Row
        /\ rows' = [rows EXCEPT ![i].status = "failed"]
    BY <1>9 DEF Cancel, Exists, Typed, TypeOK
  <2>2. /\ rows'[i].status = "failed" /\ \A j \in RunId \ {i} : rows'[j] = rows[j]
        /\ \A j \in RunId : Exists(j) =>
              /\ rows'[j].phase = rows[j].phase /\ rows'[j].tiers = rows[j].tiers
              /\ rows'[j].execution = rows[j].execution
    BY <2>1, StatusKeeps
  <2>3. ASSUME NEW j \in RunId PROVE RowCollects(j)'
    BY <2>1, <2>2 DEF Collects, RowCollects, OnePass, CollectedAll, Exists
  <2>4. ASSUME NEW q \in Proc PROVE ProcCollects(q)'
    <3>1. Executed(q) => /\ rows'[cli[q].run].tiers = rows[cli[q].run].tiers
                         /\ rows'[cli[q].run].execution = rows[cli[q].run].execution
      BY <2>2, ExecutedFacts
    <3> QED
      BY <2>1, <3>1
      DEF Collects, ProcCollects, OnePass, CollectedAll, PassedCollect, MorePhases, Steps, Executed, Running
  <2> QED
    BY <2>3, <2>4 DEF Collects
<1>10. CASE UNCHANGED <<rows, cli>>
  <2>1. ASSUME NEW i \in RunId PROVE RowCollects(i)'
    <3>1. Exists(i) /\ CollectedAll(i) => CollectedAll(i)'
      BY CollectedGrows DEF CollectedAll
    <3> QED
      BY <1>10, <3>1 DEF Collects, RowCollects, OnePass, Exists
  <2>2. ASSUME NEW q \in Proc PROVE ProcCollects(q)'
    <3>1. Executed(q) /\ CollectedAll(cli[q].run) => Range(rows'[cli[q].run].tiers) \subseteq collected'[cli[q].run]
      BY ExecutedFacts, CollectedGrows
    <3> QED
      BY <1>10, <3>1
      DEF Collects, ProcCollects, OnePass, CollectedAll, PassedCollect, MorePhases, Steps, Executed, Running
  <2> QED
    BY <2>1, <2>2 DEF Collects
<1> QED
  BY <1>2, <1>3, <1>4, <1>5, <1>6, <1>7, <1>8, <1>9, <1>10, StepKinds

\* A completed run that passes phase 2 once went through it for each of its target
\* tiers, for every plan, every checkpoint a resume may find and any number of
\* processes and faults: what a resume skips was collected before (strategy.go).
\* Resumes must not name another region, strategy or list of tiers.
THEOREM OnePassRunsCollect ==
  ASSUME ~SessionsMayDrop, PlainResumes, StrategyFromRow, TiersFromRow, CollectsFirst
  PROVE  Spec => []OnePassRunCollectedEveryTier
<1>1. Init => AllPrepared /\ Stored /\ Collects
  BY DEF Init, AllPrepared, Prepared, Stored, HasRun, IdleCli, Setup, Collects, RowCollects,
         ProcCollects, Executed, Running, Executing, Exists
<1>2. Exclusive /\ AllPrepared /\ Stored /\ Collects /\ [Next]_vars
        => AllPrepared' /\ Stored' /\ Collects'
  BY PreparedStep, StoredStep, CollectsStep DEF Exclusive
<1>3. Collects => OnePassRunCollectedEveryTier
  BY DEF Collects, RowCollects, OnePassRunCollectedEveryTier, Completed
<1> QED
  BY <1>1, <1>2, <1>3, ExclusiveInvariant, PTL DEF Spec

-----------------------------------------------------------------------------
(***************************************************************************)
(* A completed run has no matches left that wait for phase 3, 4, 5 or 55.  *)
(*                                                                         *)
(* The argument: a batch that waits for a phase is never behind the        *)
(* checkpoint of its run, never among the phases its process skips and     *)
(* never behind the place of its process in the plan.  A plan goes on to   *)
(* its next phase when nothing of the run waits for the last one, and ends *)
(* with the last phase of the list.                                        *)
(***************************************************************************)

-----------------------------------------------------------------------------
(* What the argument takes from the configuration *)

\* NewPipelineStrategy repeats every phase but the first two (root.go:86-99).
PerTierMirrors ==
  /\ Len(PhaseOrder) = Len(PerTierPhaseIDs) + 2
  /\ \A n \in 1..Len(PerTierPhaseIDs) : PerTierPhaseIDs[n] = PhaseOrder[n + 2]

\* Phase 2 leaves matches to phase 3, the other phases to those of NextPhases.
HandsTo(k, n) == (k = 2 /\ n = 3) \/ \E next \in NextPhases(k) : n \in next

\* A phase is followed, not preceded, by the ones it leaves matches to.
HandsOn == /\ 3 \in Phase
           /\ \A a, b \in Place : HandsTo(PhaseOrder[a], PhaseOrder[b]) => a < b

\* RunProfile.Validate refuses an empty list (config/profile.go:43).
ProfilesHaveTiers == \A prof \in Profiles : prof.tiers # <<>>

-----------------------------------------------------------------------------
(* Plans *)

LEMMA Division ==
  ASSUME NEW w \in Nat \ {0}, NEW q \in Nat, NEW s \in 0..(w - 1), NEW a \in Nat, a = w * q + s
  PROVE  a \div w = q /\ a % w = s
<1>1. PICK d \in Nat, r \in 0..(w - 1) : d = a \div w /\ r = a % w /\ a = w * d + r
  <2>1. a \div w \in Nat /\ a % w \in 0..(w - 1) /\ a = w * (a \div w) + (a % w)
    OBVIOUS
  <2> QED
    BY <2>1
<1>2. CASE d >= q + 1
  <2>1. PICK e \in Nat : d = q + 1 + e
    BY <1>2
  <2>2. w * d = w * q + w + w * e /\ w * e \in Nat /\ w * q \in Nat
    BY <2>1
  <2> HIDE DEF Division
  <2> QED
    BY <1>1, <2>2
<1>3. CASE q >= d + 1
  <2>1. PICK e \in Nat : q = d + 1 + e
    BY <1>3
  <2>2. w * q = w * d + w + w * e /\ w * e \in Nat /\ w * d \in Nat
    BY <2>1
  <2> QED
    BY <1>1, <2>2
<1>4. CASE d = q
  BY <1>1, <1>4
<1> QED
  BY <1>2, <1>3, <1>4

LEMMA Product ==
  ASSUME NEW a \in Nat, NEW b \in Nat
  PROVE  a * b \in Nat /\ 2 + a * b \in Nat /\ 2 + a * b >= 2
<1>1. a * b \in Nat
  OBVIOUS
<1>2. \A c \in Nat : 2 + c \in Nat /\ 2 + c >= 2
  OBVIOUS
<1> QED
  BY <1>1, <1>2

LEMMA SameLength ==
  ASSUME NEW f, NEW a \in Nat, NEW b \in Nat, b >= 2, DOMAIN f = 1..a, DOMAIN f = 1..b
  PROVE  a = b
OBVIOUS

\* The steps of a tier: its checkpoint, then the phases after the first two.
LEMMA PipelineShape ==
  ASSUME PerTierMirrors, NEW prof \in CliProfile, prof.execution # "sequential",
         NEW w, w = 1 + Len(PerTierPhaseIDs)
  PROVE  LET plan == Plan(prof) IN
         /\ w \in Nat /\ w >= 2 /\ Len(PhaseOrder) = w + 1
         /\ w * Len(prof.tiers) \in Nat /\ Len(plan) = 2 + w * Len(prof.tiers)
         /\ plan[1].phase = 0 /\ ~plan[1].opensTier /\ plan[2].phase = 1 /\ ~plan[2].opensTier
         /\ \A n \in 3..Len(plan) :
              LET s == (n - 3) % w IN
              /\ s \in 0..(w - 1)
              /\ plan[n].opensTier <=> s = 0
              /\ plan[n].phase = PhaseOrder[IF s = 0 THEN 3 ELSE s + 2]
<1> DEFINE plan == Plan(prof)
           tierOf(n) == prof.tiers[((n - 3) \div w) + 1]
<1>1. /\ Len(PerTierPhaseIDs) \in Nat \ {0} /\ Len(prof.tiers) \in Nat
      /\ w \in Nat /\ w >= 2 /\ Len(PhaseOrder) = w + 1
  BY PhaseFacts DEF PerTierMirrors, CliProfile
<1> DEFINE len == 2 + w * Len(prof.tiers)
<1>2. w * Len(prof.tiers) \in Nat /\ len \in Nat /\ len >= 2
  <2>1. w \in Nat /\ Len(prof.tiers) \in Nat
    BY <1>1
  <2> QED
    BY <2>1, Product
<1>3. plan = [n \in 1..len |->
                IF n <= 2 THEN PhaseStep(PhaseOrder[n], None)
                ELSE IF (n - 3) % w = 0 THEN TierStep(tierOf(n))
                ELSE PhaseStep(PerTierPhaseIDs[(n - 3) % w], tierOf(n))]
  BY DEF Plan, PipelinePlan
<1>4. Len(plan) = len
  <2>1. DOMAIN plan = 1..Len(plan) /\ Len(plan) \in Nat
    BY PlanType
  <2> HIDE DEF len
  <2>2. DOMAIN plan = 1..len
    BY <1>3
  <2> HIDE DEF plan
  <2> QED
    BY <1>2, <2>1, <2>2, SameLength
<1> HIDE DEF plan, tierOf, len
<1>5. /\ plan[1] = PhaseStep(PhaseOrder[1], None) /\ plan[2] = PhaseStep(PhaseOrder[2], None)
  BY <1>2, <1>3
<1>6. ASSUME NEW n \in 3..Len(plan), NEW s, s = (n - 3) % w
      PROVE  /\ s \in 0..(w - 1)
             /\ plan[n].opensTier <=> s = 0
             /\ plan[n].phase = PhaseOrder[IF s = 0 THEN 3 ELSE s + 2]
  <2>1. n - 3 \in Nat /\ s \in 0..(w - 1)
    BY <1>1, <1>2, <1>4, <1>6
  <2>2. plan[n] = IF s = 0 THEN TierStep(tierOf(n)) ELSE PhaseStep(PerTierPhaseIDs[s], tierOf(n))
    BY <1>1, <1>2, <1>3, <1>4, <1>6
  <2>3. CASE s = 0
    BY <1>1, <2>1, <2>2, <2>3 DEF TierStep, PerTierMirrors
  <2>4. CASE s # 0
    <3>1. s \in 1..Len(PerTierPhaseIDs)
      BY <1>1, <2>1, <2>4
    <3>2. PerTierPhaseIDs[s] = PhaseOrder[s + 2]
      BY <3>1 DEF PerTierMirrors
    <3> QED
      BY <2>1, <2>2, <2>4, <3>2 DEF PhaseStep
  <2> QED
    BY <2>3, <2>4
<1>7. plan[1].phase = 0 /\ ~plan[1].opensTier /\ plan[2].phase = 1 /\ ~plan[2].opensTier
  BY <1>5, PlaceFacts DEF PhaseStep
<1>8. /\ w \in Nat /\ w >= 2 /\ Len(PhaseOrder) = w + 1
      /\ w * Len(prof.tiers) \in Nat /\ Len(plan) = 2 + w * Len(prof.tiers)
      /\ plan[1].phase = 0 /\ ~plan[1].opensTier /\ plan[2].phase = 1 /\ ~plan[2].opensTier
      /\ \A n \in 3..Len(plan) :
           LET s == (n - 3) % w IN
           /\ s \in 0..(w - 1)
           /\ plan[n].opensTier <=> s = 0
           /\ plan[n].phase = PhaseOrder[IF s = 0 THEN 3 ELSE s + 2]
  BY <1>1, <1>2, <1>4, <1>6, <1>7 DEF len
<1> QED
  BY <1>8 DEF plan

LEMMA SequentialShape ==
  ASSUME NEW prof, prof.execution = "sequential"
  PROVE  LET plan == Plan(prof) IN
         /\ Len(plan) = Len(PhaseOrder)
         /\ \A n \in Place : plan[n].phase = PhaseOrder[n] /\ ~plan[n].opensTier
<1> DEFINE plan == Plan(prof)
<1>1. Len(plan) = Len(PhaseOrder) /\ \A n \in Place : plan[n] = PhaseStep(PhaseOrder[n], None)
  BY SequentialPlace
<1> HIDE DEF plan
<1>2. ASSUME NEW n \in Place PROVE plan[n].phase = PhaseOrder[n] /\ ~plan[n].opensTier
  <2>1. plan[n] = PhaseStep(PhaseOrder[n], None)
    BY <1>1
  <2> QED
    BY <2>1 DEF PhaseStep
<1>3. /\ Len(plan) = Len(PhaseOrder)
      /\ \A n \in Place : plan[n].phase = PhaseOrder[n] /\ ~plan[n].opensTier
  BY <1>1, <1>2
<1> QED
  BY <1>3 DEF plan

LEMMA NextSlot ==
  ASSUME NEW w \in Nat, w >= 2, NEW a \in Nat
  PROVE  /\ a % w \in 0..(w - 1)
         /\ (a + 1) % w = IF a % w = w - 1 THEN 0 ELSE (a % w) + 1
<1>1. PICK q \in Nat, s \in 0..(w - 1) : s = a % w /\ a = w * q + s
  <2>1. w \in Nat \ {0}
    OBVIOUS
  <2>2. a \div w \in Nat /\ a % w \in 0..(w - 1) /\ a = w * (a \div w) + (a % w)
    BY <2>1
  <2> QED
    BY <2>2
<1>2. CASE s = w - 1
  <2>1. w * (q + 1) = w * q + w /\ w * q \in Nat
    OBVIOUS
  <2>2. a + 1 = w * (q + 1) + 0 /\ a + 1 \in Nat /\ q + 1 \in Nat /\ 0 \in 0..(w - 1)
    BY <1>1, <1>2, <2>1
  <2>3. w \in Nat \ {0}
    OBVIOUS
  <2>4. w * (q + 1) + 0 \in Nat
    BY <2>2
  <2>5. (w * (q + 1) + 0) % w = 0
    BY <2>2, <2>3, <2>4, Division
  <2> QED
    BY <1>1, <1>2, <2>2, <2>5
<1>3. CASE s # w - 1
  <2> DEFINE next == s + 1
  <2>1. w * q \in Nat /\ next \in 0..(w - 1)
    BY <1>3
  <2>2. a + 1 = w * q + next /\ w * q + next \in Nat /\ w \in Nat \ {0}
    BY <1>1, <2>1
  <2> HIDE DEF next
  <2>3. (w * q + next) % w = next
    BY <2>1, <2>2, Division
  <2> QED
    BY <1>1, <1>3, <2>2, <2>3 DEF next
<1> QED
  BY <1>2, <1>3

LEMMA LastSlot ==
  ASSUME NEW w \in Nat, w >= 2, NEW l \in Nat \ {0}
  PROVE  2 + w * l >= 3 /\ (2 + w * l - 3) % w = w - 1
<1>1. PICK q \in Nat : l = q + 1
  <2>1. l - 1 \in Nat /\ l = (l - 1) + 1
    OBVIOUS
  <2> QED
    BY <2>1
<1>2. w * l = w * q + w /\ w * q \in Nat
  BY <1>1
<1>3. \A m \in Nat : 2 + (m + w) >= 3 /\ 2 + (m + w) - 3 = m + (w - 1) /\ m + (w - 1) \in Nat
  OBVIOUS
<1>4. 2 + w * l >= 3 /\ 2 + w * l - 3 = w * q + (w - 1) /\ w * q + (w - 1) \in Nat
  BY <1>2, <1>3
<1>5. w - 1 \in 0..(w - 1) /\ w \in Nat \ {0}
  OBVIOUS
<1> HIDE DEF Division
<1>6. (w * q + (w - 1)) % w = w - 1
  BY <1>4, <1>5, Division
<1> QED
  BY <1>4, <1>6

\* DoneBefore of two neighbours of the list.
LEMMA DoneBeforeNext ==
  ASSUME NEW a \in Place, NEW b \in Place, b <= a + 1
  PROVE  DoneBefore(PhaseOrder[b]) \subseteq DoneBefore(PhaseOrder[a]) \cup {PhaseOrder[a]}
<1> SUFFICES ASSUME NEW k \in DoneBefore(PhaseOrder[b])
             PROVE  k \in DoneBefore(PhaseOrder[a]) \cup {PhaseOrder[a]}
  OBVIOUS
<1>1. k \in Phase
  BY DoneBeforeSubset
<1>2. PICK m \in Place : PhaseOrder[m] = k
  BY <1>1, PlaceFacts
<1>3. m < b
  BY <1>2, DoneBeforePlace
<1>4. m < a \/ m = a
  BY <1>3 DEF Place
<1> QED
  BY <1>2, <1>4, DoneBeforePlace

\* The phase of a step only has phases in front of it that the step before it has
\* in front of it, or is itself; a tier starts again after the first two.
LEMMA PlanNext ==
  ASSUME PerTierMirrors, NEW prof \in CliProfile, NEW n \in 1..Len(Plan(prof)),
         n + 1 \in 1..Len(Plan(prof))
  PROVE  LET plan == Plan(prof) IN
         DoneBefore(plan[n + 1].phase) \subseteq
           DoneBefore(plan[n].phase) \cup {0, 1}
             \cup (IF plan[n].opensTier THEN {} ELSE {plan[n].phase})
<1> DEFINE plan == Plan(prof)
           w == 1 + Len(PerTierPhaseIDs)
<1>0. Len(plan) \in Nat /\ n \in Nat /\ n >= 1 /\ n + 1 \in 1..Len(plan)
  <2>1. Len(plan) \in Nat
    BY PlanType
  <2> QED
    BY <2>1
<1>1. CASE prof.execution = "sequential"
  <2>1. /\ Len(plan) = Len(PhaseOrder)
        /\ \A m \in Place : plan[m].phase = PhaseOrder[m] /\ ~plan[m].opensTier
    BY <1>1, SequentialShape
  <2>2. n \in Place /\ n + 1 \in Place /\ n + 1 <= n + 1
    BY <2>1 DEF Place
  <2> HIDE DEF plan
  <2>3. plan[n].phase = PhaseOrder[n] /\ ~plan[n].opensTier /\ plan[n + 1].phase = PhaseOrder[n + 1]
    BY <2>1, <2>2
  <2>4. DoneBefore(PhaseOrder[n + 1]) \subseteq DoneBefore(PhaseOrder[n]) \cup {PhaseOrder[n]}
    BY <2>2, DoneBeforeNext
  <2> QED
    BY <2>3, <2>4 DEF plan
<1>2. CASE prof.execution # "sequential"
  <2>1. /\ w \in Nat /\ w >= 2 /\ Len(PhaseOrder) = w + 1
        /\ w * Len(prof.tiers) \in Nat /\ Len(plan) = 2 + w * Len(prof.tiers)
        /\ plan[1].phase = 0 /\ ~plan[1].opensTier /\ plan[2].phase = 1 /\ ~plan[2].opensTier
        /\ \A m \in 3..Len(plan) :
             LET s == (m - 3) % w IN
             /\ s \in 0..(w - 1)
             /\ plan[m].opensTier <=> s = 0
             /\ plan[m].phase = PhaseOrder[IF s = 0 THEN 3 ELSE s + 2]
    BY <1>2, PipelineShape
  <2> DEFINE slot(m) == (m - 3) % w
  <2>2. \A m \in 3..Len(plan) :
          /\ slot(m) \in 0..(w - 1)
          /\ plan[m].opensTier <=> slot(m) = 0
          /\ plan[m].phase = PhaseOrder[IF slot(m) = 0 THEN 3 ELSE slot(m) + 2]
    BY <2>1
  <2> HIDE DEF plan, w
  <2>9. \A m \in 3..Len(plan) : slot(m + 1) = IF slot(m) = w - 1 THEN 0 ELSE slot(m) + 1
    <3> SUFFICES ASSUME NEW m \in 3..Len(plan)
                 PROVE  slot(m + 1) = IF slot(m) = w - 1 THEN 0 ELSE slot(m) + 1
      OBVIOUS
    <3>1. m - 3 \in Nat /\ (m - 3) + 1 = m + 1 - 3
      BY <1>0
    <3>2. (m - 3 + 1) % w = IF slot(m) = w - 1 THEN 0 ELSE slot(m) + 1
      BY <2>1, <3>1, NextSlot
    <3> QED
      BY <3>1, <3>2
  <2>10. slot(3) = 0
    BY <2>1, 3 - 3 = 0
  <2>11. w \in Nat /\ w >= 2 /\ Len(PhaseOrder) = w + 1
    BY <2>1
  <2> HIDE DEF slot
  <2>3. 3 \in Place /\ 1 \in Place
    BY <2>1 DEF Place
  \* in front of the first phase of a tier are the first two phases
  <2>4. DoneBefore(PhaseOrder[3]) \subseteq {0, 1} /\ DoneBefore(1) \subseteq {0, 1}
    <3>1. DoneBefore(PhaseOrder[2]) \subseteq DoneBefore(PhaseOrder[1]) \cup {PhaseOrder[1]}
      BY PlaceFacts, DoneBeforeNext
    <3>2. DoneBefore(PhaseOrder[3]) \subseteq DoneBefore(PhaseOrder[2]) \cup {PhaseOrder[2]}
      BY <2>3, PlaceFacts, 3 <= 2 + 1, DoneBeforeNext
    <3>3. DoneBefore(PhaseOrder[1]) \subseteq {}
      <4>1. \A m \in Place : PhaseOrder[m] \notin DoneBefore(PhaseOrder[1])
        BY PlaceFacts, DoneBeforePlace DEF Place
      <4> QED
        BY <4>1, PlaceFacts, DoneBeforeSubset
    <3> QED
      BY <3>1, <3>2, <3>3, PlaceFacts
  <2>5. CASE n = 1
    BY <2>1, <2>4, <2>5 DEF plan
  <2>6. CASE n >= 2 /\ plan[n + 1].opensTier
    <3>1. n + 1 \in 3..Len(plan)
      BY <1>0, <2>6
    <3>2. plan[n + 1].phase = PhaseOrder[3]
      BY <2>2, <2>6, <3>1
    <3> QED
      BY <2>4, <3>2 DEF plan
  <2>7. CASE n = 2
    <3>1. 3 \in 3..Len(plan) /\ n + 1 = 3
      BY <1>0, <2>7
    <3>2. plan[n + 1].phase = PhaseOrder[3]
      BY <2>2, <2>10, <3>1
    <3> QED
      BY <2>4, <3>2 DEF plan
  <2>8. CASE n >= 3 /\ ~plan[n + 1].opensTier
    <3>1. n \in 3..Len(plan) /\ n + 1 \in 3..Len(plan)
      BY <1>0, <2>8
    <3>2. /\ slot(n) \in 0..(w - 1) /\ (plan[n].opensTier <=> slot(n) = 0)
          /\ plan[n].phase = PhaseOrder[IF slot(n) = 0 THEN 3 ELSE slot(n) + 2]
      BY <2>2, <3>1
    <3>3. /\ slot(n + 1) = slot(n) + 1 /\ slot(n + 1) \in 1..(w - 1)
          /\ plan[n + 1].phase = PhaseOrder[slot(n) + 1 + 2]
      <4>1. slot(n + 1) \in 0..(w - 1) /\ slot(n + 1) # 0
        BY <2>2, <2>8, <3>1
      <4>2. slot(n + 1) = slot(n) + 1
        BY <2>9, <3>1, <4>1
      <4>3. plan[n + 1].phase = PhaseOrder[slot(n + 1) + 2]
        BY <2>2, <3>1, <4>1
      <4> QED
        BY <2>11, <4>1, <4>2, <4>3
    <3>4. CASE slot(n) = 0
      BY <2>4, <3>2, <3>3, <3>4 DEF plan
    <3>5. CASE slot(n) # 0
      <4> DEFINE a == slot(n) + 2
      <4>1. a \in Place /\ a + 1 \in Place /\ a + 1 <= a + 1 /\ slot(n) + 1 + 2 = a + 1
        <5>1. slot(n) \in Nat /\ slot(n) >= 1 /\ slot(n) + 1 <= w - 1
          BY <2>11, <3>2, <3>3, <3>5
        <5> QED
          BY <2>11, <5>1 DEF Place
      <4>2. plan[n].phase = PhaseOrder[a] /\ plan[n + 1].phase = PhaseOrder[a + 1]
        BY <3>2, <3>3, <3>5, <4>1
      <4> HIDE DEF a
      <4> QED
        BY <3>2, <3>5, <4>1, <4>2, DoneBeforeNext DEF plan
    <3> QED
      BY <3>4, <3>5
  <2> QED
    BY <1>0, <2>5, <2>6, <2>7, <2>8
<1> QED
  BY <1>1, <1>2

\* A plan begins with the first phase and ends with the last one.
LEMMA PlanEnds ==
  ASSUME PerTierMirrors, NEW prof \in CliProfile
  PROVE  LET plan == Plan(prof) IN
         /\ Len(plan) \in Nat /\ Len(plan) >= 2
         /\ prof.tiers # <<>> =>
              /\ ~plan[Len(plan)].opensTier
              /\ Phase \subseteq DoneBefore(plan[Len(plan)].phase) \cup {plan[Len(plan)].phase}
<1> DEFINE plan == Plan(prof)
           w == 1 + Len(PerTierPhaseIDs)
           last == Len(PhaseOrder)
<1>0. last \in Place /\ Phase \subseteq DoneBefore(PhaseOrder[last]) \cup {PhaseOrder[last]}
  <2>1. last \in Place
    BY PlaceFacts DEF Place
  <2>2. ASSUME NEW k \in Phase PROVE k \in DoneBefore(PhaseOrder[last]) \cup {PhaseOrder[last]}
    <3>1. PICK m \in Place : PhaseOrder[m] = k
      BY PlaceFacts
    <3>2. m < last \/ m = last
      BY PlaceFacts DEF Place
    <3> QED
      BY <2>1, <3>1, <3>2, DoneBeforePlace
  <2> QED
    BY <2>1, <2>2
<1>1. CASE prof.execution = "sequential"
  <2>1. /\ Len(plan) = last
        /\ \A m \in Place : plan[m].phase = PhaseOrder[m] /\ ~plan[m].opensTier
    BY <1>1, SequentialShape
  <2> HIDE DEF plan
  <2>2. plan[last].phase = PhaseOrder[last] /\ ~plan[last].opensTier
    BY <1>0, <2>1
  <2>3. last \in Nat /\ last >= 2
    BY PlaceFacts DEF Place
  <2> QED
    BY <1>0, <2>1, <2>2, <2>3 DEF plan
<1>2. CASE prof.execution # "sequential"
  <2> DEFINE l == Len(prof.tiers)
  <2>1. /\ w \in Nat /\ w >= 2 /\ last = w + 1
        /\ w * l \in Nat /\ Len(plan) = 2 + w * l
        /\ \A m \in 3..Len(plan) :
             LET s == (m - 3) % w IN
             /\ s \in 0..(w - 1)
             /\ plan[m].opensTier <=> s = 0
             /\ plan[m].phase = PhaseOrder[IF s = 0 THEN 3 ELSE s + 2]
    BY <1>2, PipelineShape
  <2> HIDE DEF plan, w, last
  <2>2. Len(plan) \in Nat /\ Len(plan) >= 2
    BY <2>1
  <2>3. ASSUME prof.tiers # <<>>
        PROVE  /\ ~plan[Len(plan)].opensTier
               /\ plan[Len(plan)].phase = PhaseOrder[last]
    <3>1. l \in Nat \ {0}
      <4>1. prof.tiers \in Seq(Tier)
        BY DEF CliProfile
      <4> QED
        BY <2>3, <4>1
    <3>4. Len(plan) >= 3 /\ (Len(plan) - 3) % w = w - 1
      <4>1. 2 + w * l >= 3 /\ (2 + w * l - 3) % w = w - 1
        BY <2>1, <3>1, LastSlot
      <4> HIDE DEF l
      <4> QED
        BY <2>1, <4>1
    <3>5. Len(plan) \in 3..Len(plan) /\ w - 1 # 0 /\ w - 1 + 2 = last
      BY <2>1, <2>2, <3>4
    <3> QED
      BY <2>1, <3>4, <3>5
  <2> QED
    BY <1>0, <2>2, <2>3 DEF plan
<1> QED
  BY <1>1, <1>2

\* What waits for phase k and is handed to phase n is in front of the same
\* checkpoints.
LEMMA HandedLater ==
  ASSUME HandsOn, NEW k \in Phase, NEW n \in Phase, HandsTo(k, n), NEW c \in Phase,
         n \in DoneBefore(c)
  PROVE  k \in DoneBefore(c)
<1>1. PICK a \in Place, b \in Place, d \in Place :
        PhaseOrder[a] = k /\ PhaseOrder[b] = n /\ PhaseOrder[d] = c
  BY PlaceFacts
<1>2. a < b /\ b < d
  BY <1>1, DoneBeforePlace DEF HandsOn
<1> QED
  BY <1>1, <1>2, DoneBeforePlace DEF Place

-----------------------------------------------------------------------------
(* The invariant *)

Waits(b) == b.phase # 35

DownwardClosed(done) == done = {} \/ \E k \in Phase : done = DoneBefore(k)

\* A batch belongs to the region and the version of its run.
BatchOwned(b) ==
  /\ Exists(b.run) /\ b.region = rows[b.run].region
  /\ b.version = rows[b.run].version /\ b.version # None
  /\ b.phase \in Phase

RowDrains(b) ==
  Waits(b) => rows[b.run].status # "completed" /\ b.phase \notin DoneBefore(rows[b.run].phase)

\* The process still comes to the phase the batch waits for.
ComesTo(p, b) ==
  /\ b.phase \notin cli[p].done /\ cli[p].out # "ok"
  /\ cli[p].pc \in {"plan", "phase"} => MorePhases(p) /\ b.phase \notin DoneBefore(Step(p).phase)

ProcDrains(p) ==
  /\ cli[p].out = "ok" => cli[p].pc = "close"
  /\ cli[p].pc \notin {"idle", "lookup"} => cli[p].prof.tiers # <<>>
  /\ Executed(p) =>
       /\ rows[cli[p].run].status # "completed"
       /\ DownwardClosed(cli[p].done)
       /\ cli[p].pc = "phase" => rows[cli[p].run].phase = Step(p).phase
       /\ \A b \in backlog : b.run = cli[p].run /\ Waits(b) => ComesTo(p, b)

RowHasTiers(i) == Exists(i) => rows[i].tiers # <<>>

Drains ==
  /\ \A b \in backlog : BatchOwned(b) /\ RowDrains(b)
  /\ \A p \in Proc : ProcDrains(p)
  /\ \A i \in RunId : RowHasTiers(i)

Configured == PerTierMirrors /\ HandsOn /\ ProfilesHaveTiers

LEMMA BatchFacts ==
  ASSUME Typed, NEW b \in backlog
  PROVE  b \in BatchType /\ b.run \in RunId /\ b.phase \in DrainPhase /\ b.phase \notin {0, 1, 2}
BY DEF Typed, TypeOK, BatchType, DrainPhase

\* Only phases touch the matches.
LEMMA BacklogKept ==
  ASSUME [Next]_vars
  PROVE  \/ backlog' = backlog
         \/ \E p \in Proc : CollectMatches(p) \/ \E k \in DrainPhase : ProcessBatch(p, k)
<1>1. ASSUME NEW p \in Proc, Work(p)
      PROVE  \/ backlog' = backlog
             \/ CollectMatches(p) \/ \E k \in DrainPhase : ProcessBatch(p, k)
  BY <1>1
  DEF Work, SetUp, Execute, Stop, ReadActive, Lookup, Reactivate, ResetCheckpoint, PurgeSnapshots,
      Create, SkipDone, OpenTier, SkipIdle, EnterPhase, Finish, SyncVersion, SyncTier,
      FinishRankSync, FinishCollect, FinishDrain, Interrupted, Close
<1>2. ASSUME NEW p \in Proc, Start(p) \/ Disturb(p) PROVE backlog' = backlog
  BY <1>2 DEF Start, StartNew, StartResume, Disturb, AbortSetup, PhaseError, Signal, CloseLost,
              Crash, LoseSession
<1> QED
  BY <1>1, <1>2 DEF Next, vars, Cancel, NewPatch

\* The version of a run that has one does not change.
LEMMA VersionKept ==
  ASSUME Exclusive, Pinned, [Next]_vars, ~SessionsMayDrop
  PROVE  \A i \in RunId : Exists(i) /\ rows[i].version # None =>
           Exists(i)' /\ rows'[i].version = rows[i].version
<1> USE DEF Exclusive
<1> DEFINE Kept(i) == Exists(i) /\ rows[i].version # None =>
                        Exists(i)' /\ rows'[i].version = rows[i].version
<1> SUFFICES ASSUME NEW i \in RunId PROVE Kept(i)
  OBVIOUS
<1>1. CASE rows'[i] = rows[i]
  BY <1>1 DEF Exists
<1>2. ASSUME NEW j \in RunId, NEW s \in {"running", "failed", "completed"}, Exists(j),
             rows' = [rows EXCEPT ![j].status = s]
      PROVE  Kept(i)
  <2>1. rows[j] \in Row
    BY <1>2 DEF Typed, TypeOK, Exists
  <2> QED
    BY <1>2, <2>1, StatusKeeps, NoneIsNoRow DEF Exists
<1>3. ASSUME NEW p \in Proc, Quiet(p) PROVE Kept(i)
  <2>0. /\ Executed(p) /\ cli[p].run \in RunId /\ rows[cli[p].run] \in Row
        /\ cli[p].prof.version = rows[cli[p].run].version
    BY <1>3, QuietExecuted, ExecutedFacts DEF Pinned, PinnedProc
  <2>1. SameRun(cli[p].run) /\ \A j \in RunId \ {cli[p].run} : rows'[j] = rows[j]
    BY <1>3, QuietRun, OwnRow
  <2>2. ASSUME NEW k, NEW t, Checkpoint(p, k, t)
        PROVE  rows'[cli[p].run].version = rows[cli[p].run].version
    <3>1. rows'[cli[p].run] = [rows[cli[p].run] EXCEPT !.phase = k, !.tier = t]
      BY <2>0, <2>2 DEF Checkpoint, Typed, TypeOK
    <3>2. \A row \in Row : [row EXCEPT !.phase = k, !.tier = t].version = row.version
      BY DEF Row
    <3> QED
      BY <2>0, <3>1, <3>2
  <2>3. \/ UNCHANGED rows
        \/ rows'[cli[p].run].version = rows[cli[p].run].version
        \/ SyncVersion(p)
    BY <1>3, <2>2
    DEF Quiet, Execute, ResetCheckpoint, PurgeSnapshots, Interrupted, PhaseError, Signal, SkipDone,
        OpenTier, SkipIdle, EnterPhase, Finish, SyncTier, FinishRankSync, CollectMatches,
        FinishCollect, ProcessBatch, FinishDrain
  <2>4. SyncVersion(p) => UNCHANGED rows \/ rows[cli[p].run].version = None
    BY <2>0 DEF SyncVersion
  <2>5. rows'[cli[p].run] # None
    BY <2>1, NoneIsNoRow DEF SameRun
  <2>6. rows'[cli[p].run].version = rows[cli[p].run].version \/ rows[cli[p].run].version = None
    BY <2>3, <2>4
  <2> QED
    BY <1>1, <2>1, <2>5, <2>6 DEF Exists
<1>4. ASSUME NEW p \in Proc, NEW j \in RunId, Create(p, j) PROVE Kept(i)
  BY <1>1, <1>4, CreateRows DEF Exists
<1>5. ASSUME NEW p \in Proc, Reactivate(p) \/ Close(p) PROVE Kept(i)
  <2>1. cli[p].run \in RunId /\ Exists(cli[p].run)
    BY <1>5, ExecutedFacts DEF Reactivate, Close, Executed, Running, Executing
  <2> QED
    BY <1>1, <1>2, <1>5, <2>1 DEF Reactivate, Close
<1>6. ASSUME NEW j \in RunId, Cancel(j) PROVE Kept(i)
  BY <1>2, <1>6 DEF Cancel
<1> QED
  BY <1>1, <1>3, <1>4, <1>5, <1>6, StepKinds, StartPc DEF ReadActive, Lookup, Dies

\* What a step of one process leaves to show when it touches no match.
LEMMA DrainsOwn ==
  ASSUME Exclusive, Pinned, Drains, [Next]_vars, ~SessionsMayDrop, backlog' = backlog,
         NEW p \in Proc, Acts(p), ProcDrains(p)',
         \A b \in backlog : rows'[b.run] = rows[b.run] \/ RowDrains(b)',
         \A i \in RunId : Exists(i) \/ RowHasTiers(i)'
  PROVE  Drains'
<1> USE DEF Exclusive
<1>1. ASSUME NEW q \in Proc, q # p PROVE ProcDrains(q)'
  <2>1. cli'[q] = cli[q] /\ ProcDrains(q)
    BY <1>1, ActsAlone DEF Drains
  <2>2. Executed(q) => rows'[cli[q].run] = rows[cli[q].run]
    BY <1>1, ExecutedFacts, OthersRow
  <2> QED
    BY <2>1, <2>2 DEF ProcDrains, ComesTo, Executed, Running, MorePhases, Step, Steps
<1>2. ASSUME NEW b \in backlog PROVE BatchOwned(b)' /\ RowDrains(b)'
  <2>1. b.run \in RunId /\ BatchOwned(b) /\ RowDrains(b)
    BY BatchFacts DEF Drains
  <2>2. /\ rows'[b.run].region = rows[b.run].region
        /\ Exists(b.run)' /\ rows'[b.run].version = rows[b.run].version
    BY <2>1, FixedRows, VersionKept DEF BatchOwned, FixedRow
  <2>3. BatchOwned(b)'
    BY <2>1, <2>2 DEF BatchOwned
  <2> QED
    BY <2>1, <2>3 DEF RowDrains
<1>3. ASSUME NEW i \in RunId PROVE RowHasTiers(i)'
  BY FixedRows DEF FixedRow, Drains, RowHasTiers
<1> QED
  BY <1>1, <1>2, <1>3 DEF Drains

\* No match of the run waits for a phase a process passes.
LEMMA LeavesNothing ==
  ASSUME Exclusive, AllPrepared, Pinned, Drains, NEW p \in Proc, Execute(p), Advances(p),
         ~Step(p).opensTier, NEW b \in backlog, b.run = cli[p].run, Waits(b)
  PROVE  b.phase # Step(p).phase
<1> USE DEF Exclusive
<1>0. /\ Executed(p) /\ HasRun(p) /\ cli[p] \in Cli /\ ComesTo(p, b) /\ BatchOwned(b)
      /\ b.phase \in DrainPhase /\ b.phase \notin {0, 1, 2} /\ cli[p].pos \in Nat
  BY QuietExecuted, ExecutedFacts, BatchFacts DEF Quiet, Drains, ProcDrains, Typed, TypeOK, Cli
<1>1. b.region = cli[p].prof.region /\ b.version = cli[p].prof.version
  BY <1>0 DEF BatchOwned, Homed, Pinned, PinnedProc
<1>2. \A k : Pending(p, k) = {} => b.phase # k
  BY <1>1 DEF Pending
<1>3. CASE SkipDone(p)
  BY <1>0, <1>3 DEF SkipDone, ComesTo
<1>4. CASE SkipIdle(p)
  BY <1>2, <1>4 DEF SkipIdle, IsDone
<1>5. ASSUME NEW k \in DrainPhase, FinishDrain(p, k) PROVE b.phase # Step(p).phase
  BY <1>2, <1>5 DEF FinishDrain, InPhase, Waits
<1>6. CASE SyncVersion(p) \/ FinishRankSync(p) \/ FinishCollect(p) \/ SyncTier(p)
           \/ CollectMatches(p)
  BY <1>0, <1>6 DEF SyncVersion, FinishRankSync, FinishCollect, SyncTier, CollectMatches, InPhase
<1>7. CASE OpenTier(p)
  BY <1>7 DEF OpenTier
<1>8. ~EnterPhase(p) /\ ~Finish(p)
  <2>1. cli'[p].pc = "plan"
    BY DEF Advances
  <2> QED
    BY <1>0, <2>1 DEF EnterPhase, Finish, Typed, TypeOK, Cli
<1>9. ASSUME NEW k \in DrainPhase PROVE ~ProcessBatch(p, k)
  <2>1. cli[p].pos + 1 # cli[p].pos
    BY <1>0
  <2> QED
    BY <2>1 DEF ProcessBatch, Advances
<1> QED
  BY <1>3, <1>4, <1>5, <1>6, <1>7, <1>8, <1>9 DEF Execute

LEMMA DrainsExecute ==
  ASSUME Exclusive, AllPrepared, Pinned, Drains, Configured, NEW p \in Proc, Execute(p),
         backlog' = backlog
  PROVE  /\ ProcDrains(p)'
         /\ \A b \in backlog : b.run = cli[p].run => RowDrains(b)'
<1> USE DEF Exclusive
<1> DEFINE i == cli[p].run
<1>0. /\ SamePlan(p) /\ SameRun(i)
      /\ Advances(p) \/ Enters(p) \/ Continues(p) \/ Finishes(p)
      /\ Executed(p) /\ Executed(p)' /\ Active(p) /\ HasRun(p) /\ Exists(i) /\ i \in RunId
      /\ cli[p].pos \in Nat /\ cli[p].pos >= 1 /\ cli[p].prof \in CliProfile
      /\ ProcDrains(p) /\ Steps(p)' = Steps(p)
  <2>1. /\ Executed(p) /\ Executed(p)' /\ Active(p) /\ HasRun(p) /\ Exists(i) /\ i \in RunId
    BY QuietExecuted, ExecutedFacts DEF Quiet
  <2>2. SamePlan(p) /\ SameRun(i) /\ (Advances(p) \/ Enters(p) \/ Continues(p) \/ Finishes(p))
    BY ExecuteShape
  <2>3. Steps(p)' = Steps(p)
    BY <2>2 DEF SamePlan, Steps, Plan
  <2>4. cli[p].pos \in Nat /\ cli[p].pos >= 1 /\ cli[p].prof \in CliProfile /\ ProcDrains(p)
    BY DEF Typed, TypeOK, WellFormed, Cli, Drains
  <2> QED
    BY <2>1, <2>2, <2>3, <2>4
<1>1. Steps(p) = Plan(cli[p].prof) /\ Len(Steps(p)) \in Nat /\ cli[p].prof.tiers # <<>>
  <2>1. cli[p].pc \notin {"idle", "lookup"}
    BY <1>0 DEF Executed, Running, Executing
  <2> QED
    BY <1>0, <2>1, PlanEnds DEF Steps, ProcDrains, Configured
\* the row
<1>2. ASSUME NEW b \in backlog, b.run = i, Waits(b) PROVE RowDrains(b)' /\ ~Finishes(p)
  <2>1. RowDrains(b) /\ ComesTo(p, b)
    BY <1>0, <1>2 DEF Drains, ProcDrains
  <2>2. ~Finishes(p)
    BY <2>1 DEF Finishes, ComesTo
  <2>3. /\ cli[p].pc \in {"plan", "phase"}
        /\ rows'[i].phase = rows[i].phase \/ rows'[i].phase = Step(p).phase
    BY <1>0, <2>2 DEF Advances, Enters, Continues
  <2>4. b.phase \notin DoneBefore(rows'[i].phase) /\ rows'[i].status # "completed"
    BY <1>0, <1>2, <2>1, <2>3 DEF RowDrains, ComesTo, SameRun
  <2> QED
    BY <1>2, <2>2, <2>4 DEF RowDrains
\* the process
<1>3. ASSUME NEW b \in backlog, b.run = i, Waits(b) PROVE ComesTo(p, b)'
  <2>1. /\ ComesTo(p, b) /\ b.phase \notin {0, 1, 2} /\ b.phase \in Phase
        /\ b.phase \notin cli'[p].done
    BY <1>0, <1>3, BatchFacts DEF Drains, ProcDrains, BatchOwned, ComesTo, SamePlan
  <2>2. CASE Enters(p) \/ Continues(p)
    BY <1>0, <2>1, <2>2 DEF Enters, Continues, ComesTo, MorePhases, Step
  <2>3. CASE Advances(p)
    <3> DEFINE n == cli[p].pos
    <3>1. /\ n \in 1..Len(Steps(p)) /\ cli'[p].pos = n + 1 /\ cli'[p].out = cli[p].out
          /\ b.phase \notin DoneBefore(Step(p).phase)
      BY <1>0, <1>1, <2>1, <2>3 DEF Advances, MorePhases, ComesTo
    <3>2. ~Step(p).opensTier => b.phase # Step(p).phase
      BY <1>3, <2>3, LeavesNothing
    <3>3. n # Len(Steps(p))
      <4>1. /\ ~Steps(p)[Len(Steps(p))].opensTier
            /\ Phase \subseteq DoneBefore(Steps(p)[Len(Steps(p))].phase)
                                 \cup {Steps(p)[Len(Steps(p))].phase}
        BY <1>0, <1>1, PlanEnds DEF Configured
      <4> QED
        BY <2>1, <3>1, <3>2, <4>1 DEF Step
    <3>4. n + 1 \in 1..Len(Steps(p))
      BY <1>1, <3>1, <3>3
    <3>5. DoneBefore(Steps(p)[n + 1].phase) \subseteq
            DoneBefore(Step(p).phase) \cup {0, 1} \cup (IF Step(p).opensTier THEN {} ELSE {Step(p).phase})
      BY <1>0, <1>1, <3>1, <3>4, PlanNext DEF Configured, Step
    <3>6. b.phase \notin DoneBefore(Steps(p)[n + 1].phase)
      BY <2>1, <3>1, <3>2, <3>5
    <3> QED
      BY <1>0, <1>1, <2>1, <3>1, <3>4, <3>6 DEF ComesTo, MorePhases, Step
  <2> QED
    BY <1>0, <1>2, <1>3, <2>2, <2>3
<1>4. ProcDrains(p)'
  <2>1. cli'[p].out = "ok" => cli'[p].pc = "close"
    BY <1>0 DEF ProcDrains, Advances, Enters, Continues, Finishes
  <2>2. cli'[p].prof.tiers # <<>> /\ cli'[p].run = i /\ DownwardClosed(cli'[p].done)
        /\ rows'[i].status # "completed"
    BY <1>0, <1>1 DEF SamePlan, SameRun, ProcDrains
  <2>3. cli'[p].pc = "phase" => rows'[i].phase = Step(p)'.phase
    BY <1>0 DEF ProcDrains, Advances, Enters, Continues, Finishes, Step
  <2> QED
    BY <1>3, <2>1, <2>2, <2>3 DEF ProcDrains
<1>5. ASSUME NEW b \in backlog, b.run = i PROVE RowDrains(b)'
  BY <1>2, <1>5 DEF RowDrains, Waits
<1> QED
  BY <1>4, <1>5

LEMMA PlanStart ==
  ASSUME PerTierMirrors, NEW prof \in CliProfile
  PROVE  1 <= Len(Plan(prof)) /\ \A k \in Phase : k \notin DoneBefore(Plan(prof)[1].phase)
<1>1. 1 \in 1..Len(Plan(prof)) /\ 1 <= Len(Plan(prof))
  BY PlanEnds
<1>2. Plan(prof)[1].phase = 0
  BY <1>1, PlanBegins
<1> QED
  BY <1>1, <1>2, NoneDoneBefore0, PlaceFacts

\* At the start of its plan a process comes to whatever it does not count as done.
LEMMA ComesToStart ==
  ASSUME Typed', PerTierMirrors, NEW p \in Proc, cli'[p].pos = 1, cli'[p].out # "ok",
         NEW b, b.phase \in Phase, b.phase \notin cli'[p].done
  PROVE  ComesTo(p, b)'
<1>1. cli'[p].prof \in CliProfile
  BY DEF Typed, TypeOK, Cli
<1>2. 1 <= Len(Plan(cli'[p].prof)) /\ b.phase \notin DoneBefore(Plan(cli'[p].prof)[1].phase)
  BY <1>1, PlanStart
<1> QED
  BY <1>2 DEF ComesTo, MorePhases, Step, Steps

LEMMA DrainsQuiet ==
  ASSUME Exclusive, AllPrepared, Pinned, Drains, Configured, NEW p \in Proc, Quiet(p),
         backlog' = backlog, Typed'
  PROVE  /\ ProcDrains(p)'
         /\ \A b \in backlog : b.run = cli[p].run => RowDrains(b)'
<1> USE DEF Exclusive
<1> DEFINE i == cli[p].run
<1>1. CASE Execute(p)
  BY <1>1, DrainsExecute
<1>2. CASE ~Execute(p)
  <2>0. /\ Executed(p) /\ Executed(p)' /\ cli[p] \in Cli /\ SamePlan(p) /\ SameRun(i)
        /\ i \in RunId /\ ProcDrains(p) /\ Prepared(p)
    BY QuietExecuted, ExecutedFacts, QuietRun DEF Drains, Typed, TypeOK, AllPrepared
  <2>1. \A b \in backlog : b.phase \in Phase
    BY DEF Drains, BatchOwned
  <2>2. \/ UNCHANGED rows
        \/ rows'[i].phase = 0 /\ ResetCheckpoint(p)
    BY <1>2, QuietRun
  <2>3. ASSUME NEW b \in backlog, b.run = i PROVE RowDrains(b)'
    <3>1. RowDrains(b) /\ b.phase \notin DoneBefore(0)
      BY <2>1, NoneDoneBefore0, PlaceFacts DEF Drains
    <3> QED
      BY <2>0, <2>2, <2>3, <3>1 DEF RowDrains, SameRun
  <2>4. CASE ResetCheckpoint(p)
    <3>1. cli'[p].pc = "purge" /\ cli'[p].pos = cli[p].pos /\ cli'[p].out = cli[p].out
      BY <2>0, <2>4 DEF ResetCheckpoint, Typed, TypeOK, Cli
    <3>2. cli[p].pc = "reset"
      BY <2>4 DEF ResetCheckpoint
    <3> QED
      BY <2>0, <2>3, <3>1, <3>2 DEF ProcDrains, ComesTo, SamePlan, SameRun
  <2>5. CASE PurgeSnapshots(p)
    <3>1. /\ cli'[p].pc = "plan" /\ cli'[p].pos = 1 /\ cli'[p].out = cli[p].out
          /\ cli[p].pc = "purge" /\ rows' = rows
      BY <2>0, <2>5 DEF PurgeSnapshots, Typed, TypeOK, Cli, Prepared, Setup
    <3>2. \A b \in backlog : b.run = i /\ Waits(b) => ComesTo(p, b)'
      <4> SUFFICES ASSUME NEW b \in backlog, b.run = i, Waits(b) PROVE ComesTo(p, b)'
        OBVIOUS
      <4>1. cli'[p].out # "ok" /\ b.phase \notin cli'[p].done /\ b.phase \in Phase
        BY <2>0, <2>1, <3>1 DEF ProcDrains, ComesTo, SamePlan
      <4> QED
        BY <3>1, <4>1, ComesToStart DEF Configured
    <3> QED
      BY <2>0, <2>3, <3>1, <3>2 DEF ProcDrains, SamePlan
  <2>6. CASE Interrupted(p) \/ PhaseError(p)
    <3>1. /\ cli'[p].pc = "close" /\ cli'[p].out # "ok" /\ rows' = rows
          /\ cli[p].pc \in {"plan", "phase"}
      BY <2>0, <2>6 DEF Interrupted, PhaseError, Typed, TypeOK, Cli
    <3> QED
      BY <2>0, <2>3, <3>1 DEF ProcDrains, ComesTo, SamePlan
  <2>7. CASE Signal(p)
    <3>1. /\ cli'[p].pc = cli[p].pc /\ cli'[p].out = cli[p].out /\ cli'[p].pos = cli[p].pos
          /\ cli'[p].prof = cli[p].prof /\ rows' = rows
      BY <2>0, <2>7 DEF Signal, Typed, TypeOK, Cli
    <3> QED
      BY <2>0, <2>3, <3>1 DEF ProcDrains, ComesTo, SamePlan, MorePhases, Step, Steps
  <2> QED
    BY <1>2, <2>4, <2>5, <2>6, <2>7 DEF Quiet
<1> QED
  BY <1>1, <1>2

LEMMA DrainsLeave ==
  ASSUME Typed, NEW p \in Proc, Leave(p)
  PROVE  ProcDrains(p)'
<1>1. cli'[p] = IdleCli
  BY DEF Leave, Typed, TypeOK
<1> QED
  BY <1>1 DEF ProcDrains, IdleCli, Executed, Running, Executing

LEMMA DrainsLookup ==
  ASSUME Exclusive, AllPrepared, Drains, Configured, NEW p \in Proc, Lookup(p), Typed'
  PROVE  ProcDrains(p)'
<1> USE DEF Exclusive
<1>1. CASE Leave(p)
  BY <1>1, DrainsLeave
<1>2. CASE ~Leave(p)
  <2> DEFINE row == rows[cli[p].run]
  <2>1. /\ cli[p].run \in RunId /\ row \in Row /\ Exists(cli[p].run) /\ Resumable(row)
        /\ rows' = rows /\ cli'[p].run = cli[p].run /\ cli'[p].pos = cli[p].pos
        /\ cli'[p].out = cli[p].out
        /\ cli'[p].pc \in {"reactivate", "reset", "plan"}
        /\ cli'[p].done = IF Rewinds(row) THEN {} ELSE DoneBefore(row.phase)
        /\ cli'[p].prof = MergeFlags(row, cli[p].prof)
    BY <1>2, LookupHands
  <2>2. cli[p].pc = "lookup" /\ cli[p].out # "ok" /\ cli[p].pos = 1
    BY DEF Lookup, Drains, ProcDrains, AllPrepared, Prepared, Setup
  <2>3. MergeFlags(row, cli[p].prof).tiers # <<>>
    BY <2>1 DEF MergeFlags, Typed, TypeOK, Cli, CliProfile, Drains, RowHasTiers
  <2>4. row.status # "completed" /\ row.phase \in Phase
    BY <2>1 DEF Resumable, Row
  <2>5. DownwardClosed(cli'[p].done)
    BY <2>1, <2>4 DEF DownwardClosed
  <2>6. backlog' = backlog
    BY DEF Lookup
  <2>7. ASSUME NEW b \in backlog, b.run = cli[p].run, Waits(b) PROVE ComesTo(p, b)'
    <3>1. b.phase \in Phase /\ b.phase \notin cli'[p].done
      BY <2>1, <2>7 DEF Drains, BatchOwned, RowDrains
    <3> QED
      BY <2>1, <2>2, <3>1, ComesToStart DEF Configured
  <2> QED
    BY <2>1, <2>2, <2>3, <2>4, <2>5, <2>6, <2>7 DEF ProcDrains
<1> QED
  BY <1>1, <1>2

LEMMA DrainsStart ==
  ASSUME Typed, Drains, Configured, NEW p \in Proc, Start(p)
  PROVE  ProcDrains(p)'
<1>0. cli[p] \in Cli /\ ProcDrains(p)
  BY DEF Typed, TypeOK, Drains
<1>1. ASSUME NEW prof \in Profiles, StartNew(p, prof) PROVE ProcDrains(p)'
  <2>1. /\ cli[p].pc = "idle" /\ cli'[p].pc = "check" /\ cli'[p].out = cli[p].out
        /\ cli'[p].prof = prof
    BY <1>0, <1>1 DEF StartNew, Cli, Typed, TypeOK
  <2> QED
    BY <1>0, <2>1 DEF ProcDrains, Executed, Running, Executing, Configured, ProfilesHaveTiers
<1>2. ASSUME NEW i \in RunId, NEW flags \in ResumeFlags, StartResume(p, i, flags)
      PROVE  ProcDrains(p)'
  <2>1. cli[p].pc = "idle" /\ cli'[p].pc = "lookup" /\ cli'[p].out = cli[p].out
    BY <1>0, <1>2 DEF StartResume, Cli, Typed, TypeOK
  <2> QED
    BY <1>0, <2>1 DEF ProcDrains, Executed, Running, Executing
<1> QED
  BY <1>1, <1>2 DEF Start

LEMMA DrainsCreate ==
  ASSUME Exclusive, AllPrepared, Drains, NEW p \in Proc, NEW i \in RunId, Create(p, i)
  PROVE  /\ ProcDrains(p)' /\ RowHasTiers(i)' /\ \A j \in RunId \ {i} : rows'[j] = rows[j]
         /\ \A b \in backlog : b.run # i
<1> USE DEF Exclusive
<1>1. /\ cli[p].pc = "create" /\ cli[p].done = {} /\ cli[p].out # "ok"
      /\ cli[p].prof.tiers # <<>>
  BY DEF Create, AllPrepared, Prepared, Setup, Drains, ProcDrains
<1>2. /\ cli'[p].run = i /\ cli'[p].pc = "plan" /\ cli'[p].prof = cli[p].prof
      /\ cli'[p].done = cli[p].done /\ cli'[p].out = cli[p].out
  BY DEF Create, Typed, TypeOK, Cli
<1>3. /\ rows'[i].status = "running" /\ rows'[i].tiers = cli[p].prof.tiers
      /\ \A j \in RunId \ {i} : rows'[j] = rows[j]
      /\ ~Exists(i) /\ backlog' = backlog
  BY DEF Create, Typed, TypeOK
<1>4. \A b \in backlog : b.run # i
  BY <1>3 DEF Drains, BatchOwned
<1>5. ProcDrains(p)'
  BY <1>1, <1>2, <1>3, <1>4 DEF ProcDrains, DownwardClosed
<1> QED
  BY <1>1, <1>3, <1>4, <1>5 DEF RowHasTiers

\* A batch that enters the table, or one handed on, is as good as the ones there.
LEMMA DrainsNewBatches ==
  ASSUME Typed, Drains, UNCHANGED <<rows, cli>>,
         \A c \in backlog' : c \in backlog \/
           /\ BatchOwned(c) /\ RowDrains(c)
           /\ \A p \in Proc : Executed(p) /\ c.run = cli[p].run /\ Waits(c) => ComesTo(p, c)
  PROVE  Drains'
<1>1. ASSUME NEW c \in backlog' PROVE BatchOwned(c)' /\ RowDrains(c)'
  <2>1. BatchOwned(c) /\ RowDrains(c)
    BY DEF Drains
  <2> QED
    BY <2>1 DEF BatchOwned, RowDrains, Exists
<1>2. ASSUME NEW p \in Proc PROVE ProcDrains(p)'
  <2>1. ASSUME NEW c \in backlog', Executed(p), c.run = cli[p].run, Waits(c) PROVE ComesTo(p, c)'
    <3>1. ComesTo(p, c)
      BY <2>1 DEF Drains, ProcDrains
    <3> QED
      BY <3>1 DEF ComesTo, MorePhases, Step, Steps
  <2> QED
    BY <2>1 DEF Drains, ProcDrains, Executed, Running, Step, Steps
<1>3. ASSUME NEW i \in RunId PROVE RowHasTiers(i)'
  BY DEF Drains, RowHasTiers, Exists
<1> QED
  BY <1>1, <1>2, <1>3 DEF Drains

LEMMA DrainsCollect ==
  ASSUME Exclusive, AllPrepared, Pinned, Drains, Configured, NEW p \in Proc, CollectMatches(p)
  PROVE  Drains'
<1> USE DEF Exclusive
<1> DEFINE c == Batch(p, 3)
<1>1. /\ cli[p].pc = "phase" /\ Step(p).phase = 2 /\ backlog' = backlog \cup {c}
      /\ UNCHANGED <<rows, cli>>
  BY DEF CollectMatches, InPhase
<1>2. /\ Executed(p) /\ HasRun(p) /\ Active(p) /\ cli[p].run \in RunId /\ Exists(cli[p].run)
      /\ rows[cli[p].run] \in Row /\ MorePhases(p) /\ ProcDrains(p)
  <2>1. Executed(p) /\ MorePhases(p)
    BY <1>1 DEF Executed, Running, Executing, Typed, WellFormed
  <2> QED
    BY <2>1, ExecutedFacts DEF Drains
<1>3. /\ c.run = cli[p].run /\ c.region = cli[p].prof.region /\ c.version = cli[p].prof.version
      /\ c.phase = 3
  BY DEF Batch
<1>4. /\ cli[p].prof.version = rows[cli[p].run].version
      /\ cli[p].prof.region = rows[cli[p].run].region /\ cli[p].prof.version # None
  BY <1>1, <1>2, PastPhase0 DEF Homed, Pinned, PinnedProc
<1>5. 2 \in Phase /\ 3 \in Phase
  <2>1. Step(p) \in PlanStep
    BY <1>2, StepType
  <2> QED
    BY <1>1, <2>1 DEF PlanStep, Configured, HandsOn
\* what does not have phase 2 behind it does not have phase 3 behind it
<1>6. ASSUME NEW k \in Phase, 3 \in DoneBefore(k) PROVE 2 \in DoneBefore(k)
  BY <1>5, <1>6, HandedLater DEF HandsTo, Configured
<1>7. 3 \notin DoneBefore(2)
  BY <1>5, <1>6, NotDoneBeforeItself
<1>8. BatchOwned(c)
  BY <1>2, <1>3, <1>4, <1>5 DEF BatchOwned
<1>9. RowDrains(c)
  BY <1>1, <1>2, <1>3, <1>7 DEF RowDrains, ProcDrains
<1>10. ASSUME NEW q \in Proc, Executed(q), c.run = cli[q].run PROVE ComesTo(q, c)
  <2>1. q = p
    BY <1>2, <1>3, <1>10, ExecutedFacts, OwnRun
  <2>2. 2 \notin cli[p].done /\ DownwardClosed(cli[p].done)
    BY <1>1, <1>2 DEF AllPrepared, Prepared, ProcDrains
  <2>3. 3 \notin cli[p].done
    BY <1>6, <2>2 DEF DownwardClosed
  <2>4. cli[p].out # "ok"
    BY <1>1, <1>2 DEF ProcDrains
  <2> QED
    BY <1>1, <1>2, <1>3, <1>7, <2>1, <2>3, <2>4 DEF ComesTo
<1> HIDE DEF c
<1>11. \A d \in backlog' : d \in backlog \/ d = c
  BY <1>1
<1> QED
  BY <1>1, <1>8, <1>9, <1>10, <1>11, DrainsNewBatches

LEMMA DrainsProcess ==
  ASSUME Exclusive, Drains, Configured, NEW p \in Proc, NEW k \in DrainPhase, ProcessBatch(p, k)
  PROVE  Drains'
<1> USE DEF Exclusive
<1>1. UNCHANGED <<rows, cli>>
  BY DEF ProcessBatch
<1>2. PICK b \in Pending(p, k), next \in NextPhases(k), rest \in {{}, {k}} :
        backlog' = (backlog \ {b}) \cup {[b EXCEPT !.phase = n] : n \in (next \cup rest) \cap Phase}
  BY DEF ProcessBatch
<1>3. b \in backlog /\ b.phase = k /\ b \in BatchType /\ BatchOwned(b) /\ RowDrains(b) /\ k \in Phase
  BY <1>2, BatchFacts DEF Pending, Drains, BatchOwned
<1>4. ASSUME NEW n \in (next \cup rest) \cap Phase
      PROVE  LET c == [b EXCEPT !.phase = n] IN
             c \in backlog \/
               /\ BatchOwned(c) /\ RowDrains(c)
               /\ \A q \in Proc : Executed(q) /\ c.run = cli[q].run /\ Waits(c) => ComesTo(q, c)
  <2> DEFINE c == [b EXCEPT !.phase = n]
  <2>1. /\ c.run = b.run /\ c.region = b.region /\ c.version = b.version /\ c.phase = n
        /\ n = k => c = b
    BY <1>3 DEF BatchType
  <2>2. CASE n \in rest
    BY <1>2, <1>3, <2>1, <2>2
  <2>3. CASE n \in next
    <3>1. HandsTo(k, n) /\ k # 35 /\ n \in Phase
      <4>1. HandsTo(k, n)
        BY <1>2, <2>3 DEF HandsTo
      <4>2. k # 35
        BY <1>2, <2>3 DEF NextPhases
      <4> QED
        BY <4>1, <4>2
    <3>2. ASSUME NEW d \in Phase, n \in DoneBefore(d) PROVE k \in DoneBefore(d)
      BY <1>3, <3>1, <3>2, HandedLater DEF Configured
    <3> HIDE DEF c
    <3>3. BatchOwned(c)
      BY <1>3, <2>1, <3>1 DEF BatchOwned
    <3>4. RowDrains(c)
      <4>1. rows[b.run] \in Row
        BY <1>3 DEF BatchType, BatchOwned, Exists, Typed, TypeOK
      <4>2. rows[b.run].phase \in Phase
        BY <4>1 DEF Row
      <4> QED
        BY <1>3, <2>1, <3>1, <3>2, <4>2 DEF RowDrains, Waits
    <3>5. ASSUME NEW q \in Proc, Executed(q), c.run = cli[q].run PROVE ComesTo(q, c)
      <4>1. ComesTo(q, b) /\ DownwardClosed(cli[q].done) /\ Active(q)
        BY <1>3, <2>1, <3>1, <3>5, ExecutedFacts DEF Drains, ProcDrains, Waits
      <4>2. n \notin cli[q].done
        BY <1>3, <3>2, <4>1 DEF ComesTo, DownwardClosed
      <4>3. MorePhases(q) => Step(q).phase \in Phase
        BY <4>1, StepType DEF PlanStep
      <4> QED
        BY <1>3, <2>1, <3>2, <4>1, <4>2, <4>3 DEF ComesTo
    <3>6. BatchOwned(c) /\ RowDrains(c) /\ \A q \in Proc : Executed(q) /\ c.run = cli[q].run /\ Waits(c) => ComesTo(q, c)
      BY <3>3, <3>4, <3>5
    <3> QED
      BY <3>6 DEF c
  <2> QED
    BY <2>2, <2>3
<1>5. ASSUME NEW c \in backlog', c \notin backlog
      PROVE  /\ BatchOwned(c) /\ RowDrains(c)
             /\ \A q \in Proc : Executed(q) /\ c.run = cli[q].run /\ Waits(c) => ComesTo(q, c)
  <2>1. PICK n \in (next \cup rest) \cap Phase : c = [b EXCEPT !.phase = n]
    BY <1>2, <1>5
  <2> QED
    BY <1>4, <1>5, <2>1
<1> QED
  BY <1>1, <1>5, DrainsNewBatches

LEMMA DrainsStep ==
  ASSUME Exclusive, Exclusive', AllPrepared, Pinned, Drains, Configured, ~SessionsMayDrop, [Next]_vars
  PROVE  Drains'
<1> USE DEF Exclusive
<1>0. ASSUME ~(backlog' = backlog) PROVE Drains'
  BY <1>0, BacklogKept, DrainsCollect, DrainsProcess
<1>1. ASSUME backlog' = backlog, NEW p \in Proc, Acts(p), ProcDrains(p)',
             \A b \in backlog : rows'[b.run] = rows[b.run] \/ RowDrains(b)',
             \A i \in RunId : Exists(i) \/ RowHasTiers(i)'
      PROVE  Drains'
  BY <1>1, DrainsOwn
<1>01. ASSUME UNCHANGED rows PROVE \A i \in RunId : Exists(i) \/ RowHasTiers(i)'
  BY <1>01 DEF RowHasTiers, Exists
<1>2. ASSUME backlog' = backlog, NEW p \in Proc, Quiet(p) PROVE Drains'
  <2>1. /\ cli[p].run \in RunId /\ \A i \in RunId \ {cli[p].run} : rows'[i] = rows[i]
        /\ Exists(cli[p].run)
    BY <1>2, QuietExecuted, ExecutedFacts, OwnRow
  <2>2. ProcDrains(p)' /\ \A b \in backlog : b.run = cli[p].run => RowDrains(b)'
    BY <1>2, DrainsQuiet
  <2>3. \A b \in backlog : rows'[b.run] = rows[b.run] \/ RowDrains(b)'
    BY <2>1, <2>2, BatchFacts
  <2>4. \A i \in RunId : Exists(i) \/ RowHasTiers(i)'
    BY <2>1 DEF RowHasTiers, Exists
  <2> QED
    BY <1>1, <1>2, <2>2, <2>3, <2>4 DEF Acts
<1>3. ASSUME backlog' = backlog, NEW p \in Proc, Lookup(p) \/ Start(p) PROVE Drains'
  <2>1. UNCHANGED rows
    BY <1>3, StartPc DEF Lookup
  <2> QED
    BY <1>1, <1>01, <1>3, <2>1, DrainsLookup, DrainsStart DEF Acts
<1>4. ASSUME backlog' = backlog, NEW p \in Proc, ReadActive(p) PROVE Drains'
  <2>0. Acts(p) /\ rows' = rows
    BY <1>4 DEF ReadActive, Acts
  <2>1. CASE Leave(p)
    BY <1>1, <1>01, <1>4, <2>0, <2>1, DrainsLeave
  <2>2. CASE ~Leave(p)
    <3>1. /\ cli[p].pc = "check" /\ cli'[p].pc = "create" /\ cli'[p].out = cli[p].out
          /\ cli'[p].prof = cli[p].prof
      BY <1>4, <2>2 DEF ReadActive, Typed, TypeOK, Cli
    <3>2. ProcDrains(p)'
      BY <3>1 DEF Drains, ProcDrains, Executed, Running, Executing
    <3> QED
      BY <1>1, <1>01, <1>4, <2>0, <3>2
  <2> QED
    BY <2>1, <2>2
<1>5. ASSUME backlog' = backlog, NEW p \in Proc, Dies(p) PROVE Drains'
  BY <1>1, <1>01, <1>5, DrainsLeave DEF Dies, Acts
<1>6. ASSUME backlog' = backlog, NEW p \in Proc, Reactivate(p) PROVE Drains'
  <2> DEFINE i == cli[p].run
  <2>1. /\ Executed(p) /\ i \in RunId /\ rows[i] \in Row /\ Exists(i) /\ cli[p] \in Cli
        /\ ProcDrains(p) /\ Acts(p)
    BY <1>6, ExecutedFacts DEF Reactivate, Executed, Typed, TypeOK, Drains, Acts
  <2>2. /\ cli'[p].run = i /\ cli'[p].prof = cli[p].prof /\ cli'[p].done = cli[p].done
        /\ cli'[p].pos = cli[p].pos /\ cli'[p].out = cli[p].out /\ cli'[p].pc \in {"reset", "plan"}
        /\ cli[p].pc = "reactivate"
    BY <1>6, <2>1 DEF Reactivate, Typed, TypeOK, Cli
  <2>3. /\ rows'[i].status = "running" /\ \A j \in RunId \ {i} : rows'[j] = rows[j]
        /\ rows'[i].phase = rows[i].phase
    BY <1>6, <2>1, StatusKeeps DEF Reactivate
  <2>4. cli'[p].pos = 1 /\ cli'[p].out # "ok"
    BY <2>1, <2>2 DEF AllPrepared, Prepared, Setup, ProcDrains
  <2>5. ASSUME NEW b \in backlog, b.run = i, Waits(b) PROVE ComesTo(p, b)'
    <3>1. b.phase \in Phase /\ b.phase \notin cli'[p].done
      BY <2>1, <2>2, <2>5 DEF Drains, BatchOwned, ProcDrains, ComesTo
    <3> QED
      BY <2>4, <3>1, ComesToStart DEF Configured
  <2>6. ProcDrains(p)'
    BY <1>6, <2>1, <2>2, <2>3, <2>4, <2>5 DEF ProcDrains
  <2>7. \A b \in backlog : rows'[b.run] = rows[b.run] \/ RowDrains(b)'
    BY <2>3, BatchFacts DEF Drains, RowDrains
  <2>8. \A j \in RunId : Exists(j) \/ RowHasTiers(j)'
    BY <2>1, <2>3 DEF RowHasTiers, Exists
  <2> QED
    BY <1>1, <1>6, <2>1, <2>6, <2>7, <2>8
<1>7. ASSUME backlog' = backlog, NEW p \in Proc, NEW i \in RunId, Create(p, i) PROVE Drains'
  <2>1. /\ ProcDrains(p)' /\ RowHasTiers(i)' /\ \A j \in RunId \ {i} : rows'[j] = rows[j]
        /\ \A b \in backlog : b.run # i
    BY <1>7, DrainsCreate
  <2>2. \A b \in backlog : rows'[b.run] = rows[b.run]
    BY <2>1, BatchFacts
  <2>3. \A j \in RunId : Exists(j) \/ RowHasTiers(j)'
    BY <2>1 DEF RowHasTiers, Exists
  <2>4. Acts(p)
    BY <1>7 DEF Acts
  <2> QED
    BY <1>1, <1>7, <2>1, <2>2, <2>3, <2>4
<1>8. ASSUME backlog' = backlog, NEW p \in Proc, Close(p) PROVE Drains'
  <2> DEFINE i == cli[p].run
  <2>1. /\ Executed(p) /\ i \in RunId /\ rows[i] \in Row /\ ProcDrains(p) /\ Acts(p)
    BY <1>8, ExecutedFacts DEF Close, Executed, Running, Executing, Drains, Acts
  <2>2. ProcDrains(p)'
    BY <1>8, DrainsLeave DEF Close
  <2>3. CASE rows' = rows
    BY <1>1, <1>01, <1>8, <2>1, <2>2, <2>3
  <2>4. ASSUME NEW s \in {"completed", "failed"}, rows' = [rows EXCEPT ![i].status = s],
               s = "completed" => cli[p].out = "ok"
        PROVE  Drains'
    <3>1. /\ rows'[i].status = s /\ \A j \in RunId \ {i} : rows'[j] = rows[j]
          /\ rows'[i].phase = rows[i].phase /\ Exists(i)
      BY <2>1, <2>4, StatusKeeps
    <3>2. ASSUME NEW b \in backlog, b.run = i PROVE RowDrains(b)'
      <4>1. Waits(b) => cli[p].out # "ok"
        BY <2>1, <3>2 DEF ProcDrains, ComesTo
      <4> QED
        BY <2>4, <3>1, <3>2, <4>1 DEF Drains, RowDrains
    <3>3. \A b \in backlog : rows'[b.run] = rows[b.run] \/ RowDrains(b)'
      BY <3>1, <3>2, BatchFacts
    <3>4. \A j \in RunId : Exists(j) \/ RowHasTiers(j)'
      BY <3>1 DEF RowHasTiers, Exists
    <3> QED
      BY <1>1, <1>8, <2>1, <2>2, <3>3, <3>4
  <2> QED
    BY <1>8, <2>3, <2>4 DEF Close
<1>9. ASSUME backlog' = backlog, NEW i \in RunId, Cancel(i) PROVE Drains'
  <2>1. /\ cli' = cli /\ Exists(i) /\ rows[i] \in Row
        /\ rows' = [rows EXCEPT ![i].status = "failed"]
    BY <1>9 DEF Cancel, Exists, Typed, TypeOK
  <2>2. /\ rows'[i].status = "failed" /\ \A j \in RunId \ {i} : rows'[j] = rows[j]
        /\ rows'[i].phase = rows[i].phase /\ rows'[i].tiers = rows[i].tiers
        /\ rows'[i].region = rows[i].region /\ rows'[i].version = rows[i].version
        /\ rows'[i] # None
    <3>1. /\ rows'[i].status = "failed" /\ \A j \in RunId \ {i} : rows'[j] = rows[j]
          /\ \A j \in RunId : Exists(j) =>
               /\ rows'[j] \in Row /\ rows'[j].phase = rows[j].phase
               /\ rows'[j].region = rows[j].region
               /\ rows'[j].execution = rows[j].execution /\ rows'[j].tiers = rows[j].tiers
               /\ rows'[j].version = rows[j].version
      BY <2>1, StatusKeeps
    <3> QED
      BY <2>1, <3>1, NoneIsNoRow
  <2>3. ASSUME NEW b \in backlog PROVE BatchOwned(b)' /\ RowDrains(b)'
    <3>1. b.run \in RunId /\ BatchOwned(b) /\ RowDrains(b)
      BY BatchFacts DEF Drains
    <3>2. CASE b.run = i
      BY <2>2, <3>1, <3>2 DEF BatchOwned, RowDrains, Exists
    <3>3. CASE b.run # i
      BY <2>2, <3>1, <3>3 DEF BatchOwned, RowDrains, Exists
    <3> QED
      BY <3>2, <3>3
  <2>4. ASSUME NEW q \in Proc PROVE ProcDrains(q)'
    <3>1. Executed(q) => cli[q].run \in RunId
      BY ExecutedFacts
    <3>2. Executed(q) => /\ rows'[cli[q].run].phase = rows[cli[q].run].phase
                         /\ rows'[cli[q].run].status \in {rows[cli[q].run].status, "failed"}
      BY <2>2, <3>1
    <3> QED
      BY <1>9, <2>1, <3>2
      DEF Drains, ProcDrains, ComesTo, MorePhases, Step, Steps, Executed, Running
  <2>5. ASSUME NEW j \in RunId PROVE RowHasTiers(j)'
    BY <2>1, <2>2 DEF RowHasTiers, Drains, Exists
  <2> QED
    BY <1>9, <2>3, <2>4, <2>5 DEF Drains
<1>10. CASE backlog' = backlog /\ UNCHANGED <<rows, cli>>
  BY <1>10, DrainsNewBatches
<1> QED
  BY <1>0, <1>2, <1>3, <1>4, <1>5, <1>6, <1>7, <1>8, <1>9, <1>10, StepKinds

\* When a run is completed none of its matches waits for phase 3, 4, 5 or 55, for
\* any list of phases that hands matches on to later phases, any number of
\* processes, runs, regions and tiers, any faults, and although runs of a region
\* work on each other's matches (strategy.go, phase*/phase.go).  Resumes must not
\* name another region or version.
THEOREM CompletedRunsAreDrained ==
  ASSUME ~SessionsMayDrop, PlainResumes, VersionFromRow, PerTierMirrors, HandsOn,
         ProfilesHaveTiers
  PROVE  Spec => []CompletedRunDrained
<1>1. Init => AllPrepared /\ Pinned /\ Drains
  BY DEF Init, AllPrepared, Prepared, IdleCli, Setup, Pinned, PinnedProc, Drains, ProcDrains,
         RowHasTiers, Executed, Running, Executing, Exists
<1>2. Exclusive /\ Exclusive' /\ AllPrepared /\ Pinned /\ Drains /\ [Next]_vars
        => AllPrepared' /\ Pinned' /\ Drains'
  BY PreparedStep, PinnedStep, DrainsStep DEF Exclusive, Configured
<1>3. Typed /\ Drains => CompletedRunDrained
  <2> SUFFICES ASSUME Drains, NEW b \in backlog, Completed(b.run) PROVE b.phase = 35
    BY DEF CompletedRunDrained
  <2> QED
    BY DEF Drains, RowDrains, Waits, Completed
<1> QED
  BY <1>1, <1>2, <1>3, ExclusiveInvariant, PTL DEF Spec, Exclusive
=============================================================================
