------------------------- MODULE TemporalCrawlProofs -------------------------
(***************************************************************************)
(* What CrawlRegionWorkflow promises, for any number of workflows of any   *)
(* profiles, tiers, later phases, retry policies and faults.               *)
(*                                                                         *)
(* The invariant follows the list of calls of a workflow.  Placed says of  *)
(* every activity the server tracks and of every attempt, ghosts included, *)
(* that the calls in front of its own had their effect.  Answered says     *)
(* that an attempt that did its statement, and an answer the server took,  *)
(* stand for the effect of that call.  Both are stable, because a workflow *)
(* never goes back (Steady) and because no two workflows know one run      *)
(* (OwnRuns), although their attempts outlive the calls they were made for.*)
(***************************************************************************)
EXTENDS TemporalCrawl, TLAPS

Beyond(w, n) == wf[w].pc = 0 \/ wf[w].pc >= n

Run(w) == wf[w].run

\* The row of a run holds what its workflow was started with.
RowOf(w, i) ==
  /\ i \in RunId /\ rows[i] # None
  /\ rows[i].tiers = wf[w].prof.tiers
  /\ wf[w].prof.version # None => rows[i].version = wf[w].prof.version

RowPinned(w) == wf[w].version # None /\ rows[Run(w)].version = wf[w].version

AllCollected(w) == Elems(wf[w].prof.tiers) \subseteq collected[Run(w)]

\* What a call leaves behind for the later ones.
Effect(w, act) ==
  /\ act = "PinRunVersion" => RowPinned(w)
  /\ act = "Phase2" => AllCollected(w)
  /\ act \in Elems(LatePhases) => act \in drained[Run(w)]

Behind(w, n) ==
  /\ Beyond(w, n)
  /\ \A m \in 1..(n - 1) : Effect(w, Calls(wf[w].prof)[m])

Placed(w, act, tier) ==
  \/ act = "FailRun" /\ tier = None /\ wf[w].pc = 0
  \/ \E n \in 1..Len(Calls(wf[w].prof)) :
       /\ act = Calls(wf[w].prof)[n] /\ tier \in Elems(Futures(wf[w].prof, act))
       /\ Behind(w, n)

Answered(w, act, tier, res) ==
  /\ act = "CreateRun" => RowOf(w, res)
  /\ act = "Phase0" => /\ res \in Version \cup {None}
                       /\ wf[w].prof.version # None => res = wf[w].prof.version
  /\ act = "PinRunVersion" => RowPinned(w)
  /\ act = "Phase2" => /\ tier = None => AllCollected(w)
                       /\ tier # None => tier \in collected[Run(w)]
  /\ act \in Elems(LatePhases) => act \in drained[Run(w)]
  /\ act \in {"CompleteRun", "FailRun"} => rows[Run(w)].status # "running"
  /\ act = "CompleteRun" /\ wf[w].pc # 0 => rows[Run(w)].status = "completed"

\* A workflow by its place in the list.
WfOK(w) ==
  /\ Run(w) # None <=> Beyond(w, 3)
  /\ Run(w) # None => RowOf(w, Run(w))
  /\ wf[w].prof.version # None => wf[w].version = wf[w].prof.version
  /\ wf[w].pc # 0 => Behind(w, wf[w].pc)
  /\ wf[w].pc = 0 => wf[w].outcome # "completed"
  /\ wf[w].status = "completed" =>
       wf[w].pc # 0 /\ Run(w) # None /\ rows[Run(w)].status = "completed"
  /\ wf[w].status \in {"failed", "canceled"} /\ Run(w) # None =>
       /\ wf[w].pc = 0
       /\ rows[Run(w)].status # "running" \/ wf[w].tried = MaxAttempts["FailRun"]

TaskOK(t) ==
  /\ Placed(t.wf, t.act, t.tier)
  /\ wf[t.wf].pc # 0 => t.act = Call(t.wf)
  /\ t.st = "ok" => Answered(t.wf, t.act, t.tier, t.res)
  /\ t.st = "failed" => t.n = MaxAttempts[t.act]

AttemptOK(x) ==
  /\ Placed(x.wf, x.act, x.tier)
  /\ x.did => Answered(x.wf, x.act, x.tier, x.res)

\* The runs a workflow knows or will be told of.
Known(w) ==
  {i \in RunId :
     \/ Exists(w) /\ Run(w) = i
     \/ \E x \in attempts : x.wf = w /\ x.act = "CreateRun" /\ x.did /\ x.res = i
     \/ \E t \in tasks : t.wf = w /\ t.act = "CreateRun" /\ t.st = "ok" /\ t.res = i}

OwnRuns == \A v, w \in WfId : v # w => Known(v) \cap Known(w) = {}

RunOK(i) ==
  rows[i] # None /\ rows[i].status = "completed" =>
    Elems(rows[i].tiers) \subseteq collected[i] /\ Elems(LatePhases) \subseteq drained[i]

Inv ==
  /\ TypeOK /\ OwnRuns
  /\ \A w \in WfId : Exists(w) => WfOK(w)
  /\ \A t \in tasks : TaskOK(t)
  /\ \A x \in attempts : AttemptOK(x)
  /\ \A i \in RunId : RunOK(i)
-----------------------------------------------------------------------------
(* Lists of calls *)

LEMMA Late ==
  /\ LatePhases \in Seq(PhaseActivity) /\ Len(LatePhases) \in Nat
  /\ \A n \in 1..Len(LatePhases) :
       LatePhases[n] \in PhaseActivity \ {"Phase0", "Phase1", "Phase2"}
  /\ Elems(LatePhases) = {LatePhases[n] : n \in 1..Len(LatePhases)}
BY ConstantsAssumption DEF ConstantsAssumption, Elems

LEMMA ProfileFacts ==
  ASSUME NEW prof \in Profiles
  PROVE  /\ prof.tiers \in Seq(Tier) /\ prof.tiers # <<>>
         /\ prof.version \in Version \cup {None}
BY ConstantsAssumption DEF ConstantsAssumption

\* The calls before the phases from 3 on.
Early(prof) ==
  <<"ResolveProfile", "CreateRun", "Phase0">>
    \o (IF prof.version = None THEN <<"PinRunVersion">> ELSE <<>>)
    \o <<"Phase1", "Phase2">>

LEMMA EarlyFacts ==
  ASSUME NEW prof
  PROVE  /\ Early(prof) \in Seq(Activity)
         /\ prof.version = None =>
              /\ Len(Early(prof)) = 6
              /\ Early(prof)[1] = "ResolveProfile" /\ Early(prof)[2] = "CreateRun"
              /\ Early(prof)[3] = "Phase0" /\ Early(prof)[4] = "PinRunVersion"
              /\ Early(prof)[5] = "Phase1" /\ Early(prof)[6] = "Phase2"
         /\ prof.version # None =>
              /\ Len(Early(prof)) = 5
              /\ Early(prof)[1] = "ResolveProfile" /\ Early(prof)[2] = "CreateRun"
              /\ Early(prof)[3] = "Phase0" /\ Early(prof)[4] = "Phase1"
              /\ Early(prof)[5] = "Phase2"
<1>0. {"ResolveProfile", "CreateRun", "Phase0", "PinRunVersion", "Phase1", "Phase2"} \subseteq Activity
  BY DEF Activity, Bookkeeping, PhaseActivity
<1>1. CASE prof.version = None
  <2> DEFINE e == <<"ResolveProfile", "CreateRun", "Phase0">> \o <<"PinRunVersion">>
                    \o <<"Phase1", "Phase2">>
  <2>1. Early(prof) = e
    BY <1>1 DEF Early
  <2>2. e \in Seq(Activity)
    BY <1>0
  <2>3. /\ Len(e) = 6 /\ e[1] = "ResolveProfile" /\ e[2] = "CreateRun" /\ e[3] = "Phase0"
        /\ e[4] = "PinRunVersion" /\ e[5] = "Phase1" /\ e[6] = "Phase2"
    OBVIOUS
  <2> HIDE DEF e
  <2> QED
    BY <1>1, <2>1, <2>2, <2>3
<1>2. CASE prof.version # None
  <2> DEFINE e == <<"ResolveProfile", "CreateRun", "Phase0">> \o <<>> \o <<"Phase1", "Phase2">>
  <2>1. Early(prof) = e
    BY <1>2 DEF Early
  <2>2. e \in Seq(Activity)
    BY <1>0
  <2>3. /\ Len(e) = 5 /\ e[1] = "ResolveProfile" /\ e[2] = "CreateRun" /\ e[3] = "Phase0"
        /\ e[4] = "Phase1" /\ e[5] = "Phase2"
    OBVIOUS
  <2> HIDE DEF e
  <2> QED
    BY <1>2, <2>1, <2>2, <2>3
<1> QED
  BY <1>1, <1>2

LEMMA CallsShape ==
  ASSUME NEW prof \in Profiles
  PROVE  /\ Calls(prof) \in Seq(Activity)
         /\ Len(Calls(prof)) = Len(Early(prof)) + Len(LatePhases) + 1
         /\ \A n \in 1..Len(Early(prof)) : Calls(prof)[n] = Early(prof)[n]
         /\ \A n \in 1..Len(LatePhases) : Calls(prof)[Len(Early(prof)) + n] = LatePhases[n]
         /\ Calls(prof)[Len(Calls(prof))] = "CompleteRun"
<1> DEFINE e == Early(prof)
           l == LatePhases
           el == e \o l
<1>1. e \in Seq(Activity) /\ l \in Seq(Activity) /\ "CompleteRun" \in Activity
  BY EarlyFacts, Late DEF Activity, Bookkeeping
<1>2. Calls(prof) = el \o <<"CompleteRun">>
  BY DEF Calls, Early
<1> HIDE DEF e
<1>3. el \in Seq(Activity) /\ Len(el) = Len(e) + Len(l)
  BY <1>1
<1>4. \A n \in 1..Len(e) : el[n] = e[n]
  BY <1>1
<1>5. \A n \in 1..Len(l) : el[Len(e) + n] = l[n]
  BY <1>1
<1> HIDE DEF el
<1>6. Calls(prof) \in Seq(Activity)
  BY <1>1, <1>2, <1>3
<1>7. Len(Calls(prof)) = Len(el) + 1 /\ Calls(prof)[Len(el) + 1] = "CompleteRun"
  BY <1>2, <1>3
<1>8. \A n \in 1..Len(el) : Calls(prof)[n] = el[n]
  BY <1>2, <1>3
<1>9. Len(e) \in Nat /\ Len(l) \in Nat
  BY <1>1
<1>10. \A n \in 1..Len(e) : Calls(prof)[n] = e[n]
  BY <1>3, <1>4, <1>8, <1>9
<1>11. ASSUME NEW n \in 1..Len(l)
       PROVE  Calls(prof)[Len(e) + n] = l[n]
  <2>1. Len(e) + n \in 1..Len(el)
    BY <1>3, <1>9
  <2> QED
    BY <1>5, <1>8, <2>1
<1> QED
  BY <1>3, <1>6, <1>7, <1>10, <1>11 DEF e

\* Where a call can stand in the list.
LEMMA CallsFacts ==
  ASSUME NEW prof \in Profiles
  PROVE  /\ Len(Calls(prof)) \in Nat /\ Len(Calls(prof)) >= 6
         /\ \A n \in 1..Len(Calls(prof)) : Calls(prof)[n] \in Activity \ {"FailRun"}
         /\ Calls(prof)[1] = "ResolveProfile"
         /\ \A n \in 1..Len(Calls(prof)) :
              /\ Calls(prof)[n] = "CreateRun" <=> n = 2
              /\ Calls(prof)[n] = "Phase0" <=> n = 3
              /\ Calls(prof)[n] = "PinRunVersion" <=> n = 4 /\ prof.version = None
              /\ Calls(prof)[n] = "CompleteRun" <=> n = Len(Calls(prof))
              /\ Calls(prof)[n] \in PhaseActivity \ {"Phase0"} /\ prof.version = None => n > 4
              /\ Calls(prof)[n] = "Phase2" \/ Calls(prof)[n] \in Elems(LatePhases) => n > 3
         /\ \E n \in 1..(Len(Calls(prof)) - 1) : Calls(prof)[n] = "Phase2"
         /\ \A act \in Elems(LatePhases) : \E n \in 1..(Len(Calls(prof)) - 1) : Calls(prof)[n] = act
<1> DEFINE C == Calls(prof)
           e == Len(Early(prof))
           l == Len(LatePhases)
<1>1. /\ C \in Seq(Activity) /\ e \in {5, 6} /\ l \in Nat /\ Len(C) = e + l + 1
      /\ \A n \in 1..l : C[e + n] = LatePhases[n]
      /\ C[e + l + 1] = "CompleteRun"
  <2>1. e \in {5, 6}
    BY EarlyFacts
  <2> QED
    BY <2>1, CallsShape, Late
<1>2. prof.version = None =>
        /\ e = 6 /\ C[1] = "ResolveProfile" /\ C[2] = "CreateRun" /\ C[3] = "Phase0"
        /\ C[4] = "PinRunVersion" /\ C[5] = "Phase1" /\ C[6] = "Phase2"
  <2> SUFFICES ASSUME prof.version = None
               PROVE  /\ e = 6 /\ C[1] = "ResolveProfile" /\ C[2] = "CreateRun" /\ C[3] = "Phase0"
                      /\ C[4] = "PinRunVersion" /\ C[5] = "Phase1" /\ C[6] = "Phase2"
    OBVIOUS
  <2>1. e = 6
    BY EarlyFacts
  <2>2. \A n \in 1..6 : C[n] = Early(prof)[n]
    BY <2>1, CallsShape
  <2> HIDE DEF C, e
  <2>3. C[1] = Early(prof)[1] /\ C[2] = Early(prof)[2] /\ C[3] = Early(prof)[3] /\ C[4] = Early(prof)[4] /\ C[5] = Early(prof)[5] /\ C[6] = Early(prof)[6]
    BY <2>2
  <2> QED
    BY <2>1, <2>3, EarlyFacts
<1>3. prof.version # None =>
        /\ e = 5 /\ C[1] = "ResolveProfile" /\ C[2] = "CreateRun" /\ C[3] = "Phase0"
        /\ C[4] = "Phase1" /\ C[5] = "Phase2"
  <2> SUFFICES ASSUME prof.version # None
               PROVE  /\ e = 5 /\ C[1] = "ResolveProfile" /\ C[2] = "CreateRun" /\ C[3] = "Phase0"
                      /\ C[4] = "Phase1" /\ C[5] = "Phase2"
    OBVIOUS
  <2>1. e = 5
    BY EarlyFacts
  <2>2. \A n \in 1..5 : C[n] = Early(prof)[n]
    BY <2>1, CallsShape
  <2> HIDE DEF C, e
  <2>3. C[1] = Early(prof)[1] /\ C[2] = Early(prof)[2] /\ C[3] = Early(prof)[3] /\ C[4] = Early(prof)[4] /\ C[5] = Early(prof)[5]
    BY <2>2
  <2> QED
    BY <2>1, <2>3, EarlyFacts
<1> HIDE DEF C, e, l
<1>4. \A n \in 1..Len(C) : n \in 1..e \/ (n - e \in 1..l /\ C[n] = LatePhases[n - e]) \/ n = Len(C)
  <2>1. ASSUME NEW n \in 1..Len(C), n > e, n # Len(C)
        PROVE  n - e \in 1..l /\ n = e + (n - e)
    BY <1>1, <2>1
  <2> QED
    BY <1>1, <2>1
<1>5. ASSUME NEW n \in 1..Len(C), n - e \in 1..l, C[n] = LatePhases[n - e]
      PROVE  /\ C[n] \in PhaseActivity \ {"Phase0", "Phase1", "Phase2"}
             /\ n > 4 /\ (prof.version = None => n > 5) /\ n # Len(C)
  <2>1. C[n] \in PhaseActivity \ {"Phase0", "Phase1", "Phase2"}
    BY <1>5, Late DEF l
  <2> QED
    BY <1>1, <1>2, <1>5, <2>1
<1>6. ASSUME NEW n \in 1..Len(C)
      PROVE  /\ C[n] \in Activity \ {"FailRun"}
             /\ C[n] = "CreateRun" <=> n = 2
             /\ C[n] = "Phase0" <=> n = 3
             /\ C[n] = "PinRunVersion" <=> n = 4 /\ prof.version = None
             /\ C[n] = "CompleteRun" <=> n = Len(C)
             /\ C[n] \in PhaseActivity \ {"Phase0"} /\ prof.version = None => n > 4
             /\ C[n] = "Phase2" \/ C[n] \in Elems(LatePhases) => n > 3
  <2>1. CASE n \in 1..e /\ prof.version = None
    <3>1. n \in {1, 2, 3, 4, 5, 6} /\ Len(C) > 6
      BY <1>1, <1>2, <2>1
    <3> QED
      BY <1>2, <2>1, <3>1, Late DEF Activity, Bookkeeping, PhaseActivity
  <2>2. CASE n \in 1..e /\ prof.version # None
    <3>1. n \in {1, 2, 3, 4, 5} /\ Len(C) > 5
      BY <1>1, <1>3, <2>2
    <3> QED
      BY <1>3, <2>2, <3>1, Late DEF Activity, Bookkeeping, PhaseActivity
  <2>3. CASE n - e \in 1..l /\ C[n] = LatePhases[n - e]
    BY <1>5, <2>3 DEF Activity, Bookkeeping, PhaseActivity
  <2>4. CASE n = Len(C)
    <3>1. C[n] = "CompleteRun" /\ n > 5
      BY <1>1, <2>4
    <3> QED
      BY <2>4, <3>1, Late DEF Activity, Bookkeeping, PhaseActivity
  <2> QED
    BY <1>4, <2>1, <2>2, <2>3, <2>4
<1>7. Len(C) \in Nat /\ Len(C) >= 6 /\ C[1] = "ResolveProfile"
  BY <1>1, <1>2, <1>3
<1>8. \E n \in 1..(Len(C) - 1) : C[n] = "Phase2"
  <2>1. e \in 1..(Len(C) - 1) /\ C[e] = "Phase2"
    BY <1>1, <1>2, <1>3
  <2> QED
    BY <2>1
<1>9. ASSUME NEW act \in Elems(LatePhases)
      PROVE  \E n \in 1..(Len(C) - 1) : C[n] = act
  <2>1. PICK n \in 1..l : act = LatePhases[n]
    BY Late DEF l
  <2>2. e + n \in 1..(Len(C) - 1) /\ C[e + n] = act
    BY <1>1, <2>1
  <2> QED
    BY <2>2
<1> QED
  BY <1>6, <1>7, <1>8, <1>9 DEF C

LEMMA FuturesFacts ==
  ASSUME NEW prof \in Profiles, NEW act
  PROVE  /\ Elems(Futures(prof, act)) \subseteq Tier \cup {None}
         /\ Elems(Futures(prof, act)) = {Futures(prof, act)[m] : m \in DOMAIN Futures(prof, act)}
         /\ 1 \in DOMAIN Futures(prof, act)
         /\ act # "Phase2" => Futures(prof, act) = <<None>> /\ Elems(Futures(prof, act)) = {None}
         /\ act = "Phase2" => \/ Elems(Futures(prof, act)) = {None}
                              \/ /\ Elems(Futures(prof, act)) = Elems(prof.tiers)
                                 /\ None \notin Elems(prof.tiers)
<1>1. Elems(<<None>>) = {None} /\ 1 \in DOMAIN <<None>>
  BY DEF Elems
<1>2. /\ Elems(prof.tiers) \subseteq Tier /\ None \notin Elems(prof.tiers)
      /\ 1 \in DOMAIN prof.tiers
  <2>1. DOMAIN prof.tiers = 1..Len(prof.tiers) /\ Len(prof.tiers) \in Nat /\ Len(prof.tiers) > 0
    BY ProfileFacts
  <2>2. \A n \in DOMAIN prof.tiers : prof.tiers[n] \in Tier
    BY ProfileFacts
  <2> QED
    BY <2>1, <2>2, ConstantsAssumption DEF Elems, ConstantsAssumption
<1>3. Futures(prof, act) = <<None>> \/ (act = "Phase2" /\ Futures(prof, act) = prof.tiers)
  BY DEF Futures
<1>4. Elems(Futures(prof, act)) = {Futures(prof, act)[m] : m \in DOMAIN Futures(prof, act)}
  BY DEF Elems
<1>5. act # "Phase2" => Futures(prof, act) = <<None>>
  BY DEF Futures
<1> QED
  BY <1>1, <1>2, <1>3, <1>4, <1>5
-----------------------------------------------------------------------------
(* What a step may not undo *)

\* A workflow does not go back in its list, and keeps the run and the version
\* it was given.
Steady(w) ==
  /\ Exists(w)' /\ wf'[w].prof = wf[w].prof
  /\ wf'[w].pc \in {0, wf[w].pc, wf[w].pc + 1} /\ (wf[w].pc = 0 => wf'[w].pc = 0)
  /\ Beyond(w, 3) => wf'[w].run = wf[w].run
  /\ Beyond(w, 4) => wf'[w].version = wf[w].version

\* What is in the tables about the runs it knows stays.
RowsKept(w) ==
  /\ \A i \in RunId :
       /\ collected[i] \subseteq collected'[i] /\ drained[i] \subseteq drained'[i]
       /\ rows[i] # None =>
            /\ rows'[i] # None /\ rows'[i].tiers = rows[i].tiers
            /\ rows[i].status # "running" => rows'[i].status # "running"
  /\ \A i \in Known(w) :
       wf[w].prof.version # None /\ rows[i].version = wf[w].prof.version =>
         rows'[i].version = wf[w].prof.version
  /\ Run(w) # None /\ Beyond(w, 4) /\ RowPinned(w) => rows'[Run(w)].version = wf[w].version
  /\ Run(w) # None /\ wf[w].pc # 0 /\ rows[Run(w)].status = "completed" =>
       rows'[Run(w)].status = "completed"

LEMMA WfFacts ==
  ASSUME Inv, NEW w \in WfId, Exists(w)
  PROVE  /\ wf[w] \in Wf /\ WfOK(w)
         /\ wf[w].prof \in Profiles /\ wf[w].pc \in Nat
         /\ wf[w].pc \in 0..Len(Calls(wf[w].prof))
         /\ Beyond(w, 3) => /\ Run(w) \in RunId /\ Run(w) # None /\ Run(w) \in Known(w)
                            /\ rows[Run(w)] # None /\ rows[Run(w)] \in Row
<1>1. wf[w] \in Wf /\ WfOK(w) /\ wf[w].pc <= Len(Calls(wf[w].prof))
  BY DEF Inv, TypeOK, Exists
<1>2. wf[w].prof \in Profiles /\ wf[w].pc \in Nat
  BY <1>1 DEF Wf
<1>3. Len(Calls(wf[w].prof)) \in Nat
  BY <1>2, CallsFacts
<1>4. ASSUME Beyond(w, 3)
      PROVE  /\ Run(w) \in RunId /\ Run(w) # None /\ rows[Run(w)] # None /\ rows[Run(w)] \in Row
  BY <1>1, <1>4 DEF WfOK, RowOf, Inv, TypeOK
<1>5. Beyond(w, 3) => Run(w) \in Known(w)
  BY <1>4 DEF Known
<1> QED
  BY <1>1, <1>2, <1>3, <1>4, <1>5

LEMMA BeyondStable ==
  ASSUME Inv, NEW w \in WfId, Exists(w), Steady(w), NEW n \in Nat, Beyond(w, n)
  PROVE  Beyond(w, n)'
<1>1. wf[w].pc \in Nat
  BY WfFacts
<1> QED
  BY <1>1 DEF Steady, Beyond

LEMMA EffectStable ==
  ASSUME Inv, NEW w \in WfId, Exists(w), Steady(w), RowsKept(w), Beyond(w, 4),
         NEW act, Effect(w, act)
  PROVE  Effect(w, act)'
<1>0. Beyond(w, 3)
  <2>1. wf[w].pc \in Nat
    BY WfFacts
  <2> QED
    BY <2>1 DEF Beyond
<1>1. Run(w) \in RunId /\ Run(w) # None
  BY <1>0, WfFacts
<1>2. Run(w)' = Run(w) /\ wf'[w].version = wf[w].version /\ wf'[w].prof = wf[w].prof
  BY <1>0 DEF Steady, Run
<1>3. RowPinned(w) => RowPinned(w)'
  BY <1>1, <1>2 DEF RowsKept, RowPinned
<1>4. AllCollected(w) => AllCollected(w)'
  BY <1>1, <1>2 DEF RowsKept, AllCollected
<1>5. act \in drained[Run(w)] => act \in drained'[Run(w)']
  BY <1>1, <1>2 DEF RowsKept
<1> QED
  BY <1>3, <1>4, <1>5 DEF Effect

LEMMA BehindStable ==
  ASSUME Inv, NEW w \in WfId, Exists(w), Steady(w), RowsKept(w),
         NEW n \in 1..Len(Calls(wf[w].prof)), Behind(w, n)
  PROVE  Behind(w, n)'
<1> DEFINE C == Calls(wf[w].prof)
<1>1. wf[w].prof \in Profiles /\ wf[w].pc \in Nat
  BY WfFacts
<1>2. Len(C) \in Nat
  BY <1>1, CallsFacts
<1>3. Beyond(w, n)'
  BY BeyondStable DEF Behind
<1>4. Calls(wf[w].prof)' = C
  BY DEF Steady
<1>5. ASSUME NEW m \in 1..(n - 1)
      PROVE  Effect(w, C[m])'
  <2>1. m \in 1..Len(C) /\ m < n
    BY <1>2
  <2>2. PICK act : act = C[m]
    OBVIOUS
  <2>3. C[m]' = act
    BY <1>4, <2>2
  <2>4. Effect(w, act)
    BY <2>2 DEF Behind
  <2>5. Effect(w, act)'
    <3>1. CASE m > 3
      <4>1. Beyond(w, 4)
        BY <1>1, <2>1, <3>1 DEF Behind, Beyond
      <4> QED
        BY <2>4, <4>1, EffectStable
    <3>2. CASE ~(m > 3)
      <4>1. act # "PinRunVersion" /\ act # "Phase2" /\ act \notin Elems(LatePhases)
        BY <1>1, <2>1, <2>2, <3>2, CallsFacts
      <4> QED
        BY <4>1 DEF Effect
    <3> QED
      BY <3>1, <3>2
  <2> HIDE DEF C
  <2> QED
    BY <2>3, <2>5 DEF Effect
<1> QED
  BY <1>3, <1>4, <1>5 DEF Behind

LEMMA PlacedStable ==
  ASSUME Inv, NEW w \in WfId, Exists(w), Steady(w), RowsKept(w),
         NEW act, NEW tier, Placed(w, act, tier)
  PROVE  Placed(w, act, tier)'
<1>1. wf'[w].prof = wf[w].prof /\ (wf[w].pc = 0 => wf'[w].pc = 0)
  BY DEF Steady
<1>2. CASE act = "FailRun" /\ tier = None /\ wf[w].pc = 0
  BY <1>1, <1>2 DEF Placed
<1>3. CASE \E n \in 1..Len(Calls(wf[w].prof)) :
             /\ act = Calls(wf[w].prof)[n] /\ tier \in Elems(Futures(wf[w].prof, act))
             /\ Behind(w, n)
  <2>1. PICK n \in 1..Len(Calls(wf[w].prof)) :
             /\ act = Calls(wf[w].prof)[n] /\ tier \in Elems(Futures(wf[w].prof, act))
             /\ Behind(w, n)
    BY <1>3
  <2>2. Behind(w, n)'
    BY <2>1, BehindStable
  <2> QED
    BY <1>1, <2>1, <2>2 DEF Placed
<1> QED
  BY <1>2, <1>3 DEF Placed

\* A placed call from phase 0 on knows its run.
LEMMA PlacedFacts ==
  ASSUME Inv, NEW w \in WfId, Exists(w), NEW act, NEW tier, Placed(w, act, tier)
  PROVE  /\ act \in Activity
         /\ act \notin {"ResolveProfile", "CreateRun"} => Beyond(w, 3)
         /\ act \notin {"ResolveProfile", "CreateRun", "Phase0"} => Beyond(w, 4)
         /\ act = "FailRun" => wf[w].pc = 0
         /\ tier \in Elems(Futures(wf[w].prof, act))
         /\ act = "PinRunVersion" => wf[w].prof.version = None
<1> DEFINE C == Calls(wf[w].prof)
<1>1. wf[w].prof \in Profiles /\ wf[w].pc \in Nat
  BY WfFacts
<1>2. CASE act = "FailRun" /\ tier = None /\ wf[w].pc = 0
  BY <1>1, <1>2, FuturesFacts DEF Beyond, Activity, Bookkeeping
<1>3. CASE \E n \in 1..Len(C) :
             /\ act = C[n] /\ tier \in Elems(Futures(wf[w].prof, act)) /\ Behind(w, n)
  <2>1. PICK n \in 1..Len(C) :
             /\ act = C[n] /\ tier \in Elems(Futures(wf[w].prof, act)) /\ Behind(w, n)
    BY <1>3
  <2>2. Beyond(w, n) /\ n \in Nat
    BY <2>1 DEF Behind
  <2>3. act \in Activity /\ act # "FailRun" /\ (act = "PinRunVersion" => wf[w].prof.version = None)
    BY <1>1, <2>1, CallsFacts
  <2>4. n = 1 => act = "ResolveProfile"
    BY <1>1, <2>1, CallsFacts
  <2>5. n = 2 => act = "CreateRun"
    BY <1>1, <2>1, CallsFacts
  <2>6. n = 3 => act = "Phase0"
    BY <1>1, <2>1, CallsFacts
  <2>7. n >= 1
    BY <2>1
  <2> QED
    BY <1>1, <2>1, <2>2, <2>3, <2>4, <2>5, <2>6, <2>7 DEF Beyond
<1> QED
  BY <1>2, <1>3 DEF Placed

LEMMA RowOfStable ==
  ASSUME Inv, NEW w \in WfId, Exists(w), Steady(w), RowsKept(w), NEW i \in Known(w), RowOf(w, i)
  PROVE  RowOf(w, i)'
<1>1. wf'[w].prof = wf[w].prof /\ i \in RunId
  BY DEF Steady, Known
<1> QED
  BY <1>1 DEF RowsKept, RowOf

LEMMA AnsweredStable ==
  ASSUME Inv, NEW w \in WfId, Exists(w), Steady(w), RowsKept(w),
         NEW act, NEW tier, NEW res, Placed(w, act, tier), Answered(w, act, tier, res),
         act = "CreateRun" => res \in Known(w)
  PROVE  Answered(w, act, tier, res)'
<1>1. wf'[w].prof = wf[w].prof /\ (wf[w].pc = 0 => wf'[w].pc = 0)
  BY DEF Steady
<1>2. CASE act = "CreateRun"
  <2>1. RowOf(w, res)'
    BY <1>2, RowOfStable DEF Answered
  <2>2. act \notin Elems(LatePhases)
    BY <1>2, Late DEF PhaseActivity
  <2> QED
    BY <1>2, <2>1, <2>2 DEF Answered
<1>3. CASE act \in {"ResolveProfile", "Phase0"}
  <2>1. act \notin Elems(LatePhases)
    BY <1>3, Late DEF PhaseActivity
  <2> QED
    BY <1>1, <1>3, <2>1 DEF Answered
<1>4. CASE act \notin {"ResolveProfile", "CreateRun", "Phase0"}
  <2>1. Beyond(w, 3) /\ Beyond(w, 4)
    BY <1>4, PlacedFacts
  <2>2. Run(w) \in RunId /\ Run(w) # None /\ rows[Run(w)] # None
    BY <2>1, WfFacts
  <2>3. Run(w)' = Run(w) /\ wf'[w].version = wf[w].version
    BY <2>1 DEF Steady, Run
  <2>4. RowPinned(w) => RowPinned(w)'
    BY <2>1, <2>2, <2>3 DEF RowsKept, RowPinned
  <2>5. /\ AllCollected(w) => AllCollected(w)'
        /\ tier \in collected[Run(w)] => tier \in collected'[Run(w)']
        /\ act \in drained[Run(w)] => act \in drained'[Run(w)']
    BY <1>1, <2>2, <2>3 DEF RowsKept, AllCollected
  <2>6. rows[Run(w)].status # "running" => rows'[Run(w)'].status # "running"
    BY <2>2, <2>3 DEF RowsKept
  <2>7. wf'[w].pc # 0 /\ rows[Run(w)].status = "completed" => rows'[Run(w)'].status = "completed"
    BY <1>1, <2>2, <2>3 DEF RowsKept
  <2> QED
    BY <1>1, <1>4, <2>4, <2>5, <2>6, <2>7 DEF Answered
<1> QED
  BY <1>2, <1>3, <1>4
-----------------------------------------------------------------------------
(* Steps of the server and of attempts that change no table *)

LEMMA Unmoved ==
  ASSUME UNCHANGED <<wf, rows, collected, drained>>
  PROVE  /\ \A w, act, tier : Placed(w, act, tier)' <=> Placed(w, act, tier)
         /\ \A w, act, tier, res : Answered(w, act, tier, res)' <=> Answered(w, act, tier, res)
         /\ \A w : WfOK(w)' <=> WfOK(w)
         /\ \A i : RunOK(i)' <=> RunOK(i)
         /\ \A w : (Exists(w)' <=> Exists(w)) /\ (Open(w)' <=> Open(w))
<1>1. \A w, n : Behind(w, n)' <=> Behind(w, n)
  BY DEF Behind, Beyond, Effect, RowPinned, AllCollected, Run
<1>2. \A w, act, tier : Placed(w, act, tier)' <=> Placed(w, act, tier)
  BY <1>1 DEF Placed
<1>3. \A w, act, tier, res : Answered(w, act, tier, res)' <=> Answered(w, act, tier, res)
  BY DEF Answered, RowOf, RowPinned, AllCollected, Run
<1>4. \A w : WfOK(w)' <=> WfOK(w)
  BY <1>1 DEF WfOK, RowOf, Beyond, Run
<1>5. \A i : RunOK(i)' <=> RunOK(i)
  BY DEF RunOK
<1>6. \A w : (Exists(w)' <=> Exists(w)) /\ (Open(w)' <=> Open(w))
  BY DEF Exists, Open
<1> QED
  BY <1>2, <1>3, <1>4, <1>5, <1>6

SameJob(a, b) == a.wf = b.wf /\ a.act = b.act /\ a.tier = b.tier

\* Every task has a successor, and what is answered an attempt did; attempts are
\* those there were, or those of a task.
LEMMA Tracked ==
  ASSUME Inv, UNCHANGED <<schedules, wf, rows, collected, drained, latest>>,
         faults' \in 0..MaxFaults,
         NEW f, tasks' = {f[t] : t \in tasks},
         \A t \in tasks :
           /\ f[t] \in Task /\ SameJob(f[t], t) /\ f[t].n <= MaxAttempts[t.act]
           /\ f[t].st = "failed" => f[t].n = MaxAttempts[t.act]
           /\ f[t].st = "ok" =>
                \/ t.st = "ok" /\ f[t].res = t.res
                \/ \E x \in attempts : SameJob(x, t) /\ x.did /\ f[t].res = x.res,
         \A y \in attempts' :
           /\ y \in AttemptType /\ y.n <= MaxAttempts[y.act]
           /\ \E z \in attempts \cup tasks : SameJob(y, z)
           /\ y.did => \E x \in attempts : SameJob(y, x) /\ x.did /\ x.res = y.res
  PROVE  Inv'
<1>1. \A t \in tasks : t \in Task /\ Open(t.wf) /\ TaskOK(t)
  BY DEF Inv, TypeOK
<1>2. \A x \in attempts : x \in AttemptType /\ Exists(x.wf) /\ AttemptOK(x)
  BY DEF Inv, TypeOK
<1>3. \A z \in attempts \cup tasks : Exists(z.wf) /\ Placed(z.wf, z.act, z.tier)
  BY <1>1, <1>2 DEF TaskOK, AttemptOK, Open
<1>4. ASSUME NEW t \in tasks
      PROVE  TaskOK(f[t])' /\ Open(f[t].wf)'
  <2> DEFINE u == f[t]
  <2>1. SameJob(u, t) /\ Open(t.wf) /\ TaskOK(t)
    BY <1>1
  <2>2. Placed(u.wf, u.act, u.tier)
    BY <2>1 DEF TaskOK, SameJob
  <2>3. wf[u.wf].pc # 0 => u.act = Call(u.wf)
    BY <2>1 DEF TaskOK, SameJob
  <2>4. u.st = "ok" => Answered(u.wf, u.act, u.tier, u.res)
    <3>1. CASE t.st = "ok" /\ u.res = t.res
      BY <2>1, <3>1 DEF TaskOK, SameJob
    <3>2. CASE \E x \in attempts : SameJob(x, t) /\ x.did /\ u.res = x.res
      <4>1. PICK x \in attempts : SameJob(x, t) /\ x.did /\ u.res = x.res
        BY <3>2
      <4>2. Answered(x.wf, x.act, x.tier, x.res)
        BY <1>2, <4>1 DEF AttemptOK
      <4> QED
        BY <2>1, <4>1, <4>2 DEF SameJob
    <3> QED
      BY <3>1, <3>2
  <2>5. u.st = "failed" => u.n = MaxAttempts[u.act]
    BY <2>1 DEF SameJob
  <2> HIDE DEF u
  <2>6. TaskOK(u)
    BY <2>2, <2>3, <2>4, <2>5 DEF TaskOK
  <2>7. PICK v : v = u
    OBVIOUS
  <2>8. TaskOK(v)' /\ Open(v.wf)'
    <3>1. TaskOK(v) /\ Open(v.wf)
      BY <2>1, <2>6, <2>7 DEF SameJob
    <3>2. (wf'[v.wf].pc # 0 => v.act = Call(v.wf)')
      BY <3>1 DEF TaskOK, Call
    <3> QED
      BY <3>1, <3>2, Unmoved DEF TaskOK
  <2> QED
    BY <2>7, <2>8 DEF u
<1>5. ASSUME NEW y \in attempts'
      PROVE  AttemptOK(y)' /\ Exists(y.wf)'
  <2>1. PICK z \in attempts \cup tasks : SameJob(y, z)
    OBVIOUS
  <2>2. Exists(y.wf) /\ Placed(y.wf, y.act, y.tier)
    BY <1>3, <2>1 DEF SameJob
  <2>3. ASSUME y.did PROVE Answered(y.wf, y.act, y.tier, y.res)
    <3>1. PICK x \in attempts : SameJob(y, x) /\ x.did /\ x.res = y.res
      BY <2>3
    <3>2. Answered(x.wf, x.act, x.tier, x.res)
      BY <1>2, <3>1 DEF AttemptOK
    <3> QED
      BY <3>1, <3>2 DEF SameJob
  <2> QED
    BY <2>2, <2>3, Unmoved DEF AttemptOK
<1>6. ASSUME NEW w \in WfId
      PROVE  Known(w)' \subseteq Known(w)
  <2>1. SUFFICES ASSUME NEW i \in Known(w)' PROVE i \in Known(w)
    OBVIOUS
  <2>2. i \in RunId
    BY DEF Known
  <2>3. CASE Exists(w)' /\ Run(w)' = i
    BY <2>2, <2>3, Unmoved DEF Known, Run
  <2>4. ASSUME NEW y \in attempts', y.wf = w, y.act = "CreateRun", y.did, y.res = i
        PROVE  i \in Known(w)
    <3>1. PICK x \in attempts : SameJob(y, x) /\ x.did /\ x.res = y.res
      BY <2>4
    <3> QED
      BY <2>2, <2>4, <3>1 DEF Known, SameJob
  <2>5. ASSUME NEW u \in tasks', u.wf = w, u.act = "CreateRun", u.st = "ok", u.res = i
        PROVE  i \in Known(w)
    <3>1. PICK t \in tasks : u = f[t]
      OBVIOUS
    <3>2. SameJob(u, t)
      BY <3>1
    <3>3. CASE t.st = "ok" /\ u.res = t.res
      BY <2>2, <2>5, <3>2, <3>3 DEF Known, SameJob
    <3>4. CASE \E x \in attempts : SameJob(x, t) /\ x.did /\ u.res = x.res
      BY <2>2, <2>5, <3>2, <3>4 DEF Known, SameJob
    <3> QED
      BY <2>5, <3>1, <3>3, <3>4
  <2> QED
    BY <2>3, <2>4, <2>5 DEF Known
<1>7. OwnRuns'
  BY <1>6 DEF Inv, OwnRuns
<1>8. TypeOK'
  <2>1. \A w \in WfId : Exists(w)' => wf'[w].pc <= Len(Calls(wf'[w].prof))
    BY DEF Inv, TypeOK, Exists
  <2>2. tasks' \subseteq Task /\ \A u \in tasks' : Open(u.wf)' /\ u.n <= MaxAttempts[u.act]
    BY <1>4 DEF SameJob
  <2>3. ASSUME NEW u \in tasks', NEW v \in tasks', u.wf = v.wf, u.act = v.act, u.tier = v.tier
        PROVE  u = v
    <3>1. PICK s \in tasks, t \in tasks : u = f[s] /\ v = f[t]
      OBVIOUS
    <3>2. SameJob(u, s) /\ SameJob(v, t)
      BY <3>1
    <3>3. \A a, b \in tasks : SameJob(a, b) => a = b
      BY DEF Inv, TypeOK, SameJob
    <3>4. SameJob(s, t)
      BY <2>3, <3>2 DEF SameJob
    <3>5. s = t
      BY <3>3, <3>4
    <3> QED
      BY <3>1, <3>5
  <2>4. attempts' \subseteq AttemptType /\ \A y \in attempts' : Exists(y.wf)' /\ y.n <= MaxAttempts[y.act]
    BY <1>5
  <2>5. UNCHANGED <<schedules, wf, rows, collected, drained, latest>>
    OBVIOUS
  <2> QED
    BY <2>1, <2>2, <2>3, <2>4, <2>5 DEF Inv, TypeOK
<1>9. \A w \in WfId : Exists(w)' => WfOK(w)'
  BY Unmoved DEF Inv
<1>10. \A i \in RunId : RunOK(i)'
  BY Unmoved DEF Inv
<1>11. \A u \in tasks' : TaskOK(u)'
  BY <1>4
<1>12. \A y \in attempts' : AttemptOK(y)'
  BY <1>5
<1> QED
  BY <1>7, <1>8, <1>9, <1>10, <1>11, <1>12 DEF Inv

\* Attempts that are removed, or expire, beside tasks that are given another try.
LEMMA AfterFailureFacts ==
  ASSUME NEW t \in Task, t.n <= MaxAttempts[t.act]
  PROVE  /\ AfterFailure(t) \in Task /\ SameJob(AfterFailure(t), t)
         /\ AfterFailure(t).n <= MaxAttempts[t.act]
         /\ AfterFailure(t).st = "failed" => AfterFailure(t).n = MaxAttempts[t.act]
         /\ AfterFailure(t).st # "ok"
<1>1. MaxAttempts[t.act] \in Nat \ {0} /\ t.n \in Nat \ {0}
  BY ConstantsAssumption DEF ConstantsAssumption, Task
<1>2. CASE t.n < MaxAttempts[t.act]
  <2> DEFINE u == [t EXCEPT !.st = "waiting", !.n = t.n + 1]
  <2>1. AfterFailure(t) = u
    BY <1>2 DEF AfterFailure
  <2>2. t.n + 1 \in Nat \ {0} /\ t.n + 1 <= MaxAttempts[t.act]
    BY <1>1, <1>2
  <2>3. /\ u.wf = t.wf /\ u.act = t.act /\ u.tier = t.tier /\ u.st = "waiting" /\ u.n = t.n + 1
    BY DEF Task
  <2>4. u \in Task
    BY <2>2 DEF Task
  <2> QED
    BY <2>1, <2>2, <2>3, <2>4 DEF SameJob
<1>3. CASE ~(t.n < MaxAttempts[t.act])
  <2>1. AfterFailure(t) = [t EXCEPT !.st = "failed"]
    BY <1>3 DEF AfterFailure
  <2> QED
    BY <1>1, <1>3, <2>1 DEF Task, SameJob
<1> QED
  BY <1>2, <1>3

LEMMA GivenUp ==
  ASSUME Inv, UNCHANGED <<schedules, wf, rows, collected, drained, latest>>,
         faults' \in 0..MaxFaults,
         NEW T \in SUBSET tasks,
         tasks' = (tasks \ T) \cup {AfterFailure(t) : t \in T},
         \A y \in attempts' :
           \E x \in attempts : y = x \/ y = [x EXCEPT !.ctx = "expired"]
  PROVE  Inv'
<1>1. PICK f : f = [t \in tasks |-> IF t \in T THEN AfterFailure(t) ELSE t]
  OBVIOUS
<1>2. tasks' = {f[t] : t \in tasks}
  BY <1>1
<1>3. ASSUME NEW t \in tasks
      PROVE  /\ f[t] \in Task /\ SameJob(f[t], t) /\ f[t].n <= MaxAttempts[t.act]
             /\ f[t].st = "failed" => f[t].n = MaxAttempts[t.act]
             /\ f[t].st = "ok" => t.st = "ok" /\ f[t].res = t.res
  <2>1. t \in Task /\ t.n <= MaxAttempts[t.act] /\ TaskOK(t)
    BY DEF Inv, TypeOK
  <2>2. CASE t \in T
    BY <1>1, <2>1, <2>2, AfterFailureFacts
  <2>3. CASE t \notin T
    BY <1>1, <2>1, <2>3 DEF TaskOK, SameJob
  <2> QED
    BY <2>2, <2>3
<1>4. ASSUME NEW y \in attempts'
      PROVE  /\ y \in AttemptType /\ y.n <= MaxAttempts[y.act]
             /\ \E x \in attempts : SameJob(y, x) /\ x.did = y.did /\ x.res = y.res
  <2>1. PICK x \in attempts : y = x \/ y = [x EXCEPT !.ctx = "expired"]
    OBVIOUS
  <2>2. x \in AttemptType /\ x.n <= MaxAttempts[x.act]
    BY DEF Inv, TypeOK
  <2>3. /\ y \in AttemptType /\ y.n = x.n /\ y.act = x.act /\ y.wf = x.wf /\ y.tier = x.tier
        /\ y.did = x.did /\ y.res = x.res
    BY <2>1, <2>2 DEF AttemptType
  <2> QED
    BY <2>2, <2>3 DEF SameJob
<1> HIDE DEF Inv
<1> QED
  BY <1>2, <1>3, <1>4, Tracked

LEMMA PollStep ==
  ASSUME Inv, NEW t \in tasks, Poll(t)
  PROVE  Inv'
<1> DEFINE new == [wf |-> t.wf, act |-> t.act, tier |-> t.tier, n |-> t.n,
                   ctx |-> "live", did |-> FALSE, res |-> None]
           moved == [t EXCEPT !.st = "running"]
<1>1. PICK f : f = [u \in tasks |-> IF u = t THEN moved ELSE u]
  OBVIOUS
<1>2. /\ tasks' = (tasks \ {t}) \cup {moved} /\ attempts' = attempts \cup {new}
      /\ UNCHANGED <<schedules, wf, rows, collected, drained, latest, faults>>
  BY DEF Poll
<1>3. t \in Task /\ t.n <= MaxAttempts[t.act]
  BY DEF Inv, TypeOK
<1>4. moved \in Task /\ SameJob(moved, t) /\ moved.n = t.n /\ moved.st = "running"
  BY <1>3 DEF Task, SameJob
<1>5. /\ new \in AttemptType /\ SameJob(new, t) /\ new.n <= MaxAttempts[new.act]
      /\ new.did = FALSE
  BY <1>3 DEF Task, AttemptType, SameJob, Answer
<1> HIDE DEF new, moved
<1>6. tasks' = {f[u] : u \in tasks}
  BY <1>1, <1>2
<1>7. ASSUME NEW u \in tasks
      PROVE  /\ f[u] \in Task /\ SameJob(f[u], u) /\ f[u].n <= MaxAttempts[u.act]
             /\ f[u].st = "failed" => f[u].n = MaxAttempts[u.act]
             /\ f[u].st = "ok" => u.st = "ok" /\ f[u].res = u.res
  <2>1. u \in Task /\ u.n <= MaxAttempts[u.act] /\ TaskOK(u)
    BY DEF Inv, TypeOK
  <2>2. CASE u = t
    BY <1>1, <1>3, <1>4, <2>2
  <2>3. CASE u # t
    BY <1>1, <2>1, <2>3 DEF TaskOK, SameJob
  <2> QED
    BY <2>2, <2>3
<1>8. ASSUME NEW y \in attempts'
      PROVE  /\ y \in AttemptType /\ y.n <= MaxAttempts[y.act]
             /\ \E z \in attempts \cup tasks : SameJob(y, z)
             /\ y.did => \E x \in attempts : SameJob(y, x) /\ x.did /\ x.res = y.res
  <2>1. CASE y \in attempts
    BY <2>1 DEF Inv, TypeOK, SameJob
  <2>2. CASE y = new
    BY <1>5, <2>2
  <2> QED
    BY <1>2, <2>1, <2>2
<1>9. faults' \in 0..MaxFaults
  BY <1>2 DEF Inv, TypeOK
<1> HIDE DEF Inv
<1> QED
  BY <1>2, <1>6, <1>7, <1>8, <1>9, Tracked

LEMMA ReportStep ==
  ASSUME Inv, NEW x \in attempts, Report(x)
  PROVE  Inv'
<1> DEFINE T == TaskOf(x)
           ok(t) == [t EXCEPT !.st = "ok", !.res = x.res]
<1>1. PICK f : f = [u \in tasks |-> IF u \in T THEN ok(u) ELSE u]
  OBVIOUS
<1>2. /\ tasks' = (tasks \ T) \cup {ok(t) : t \in T} /\ attempts' = attempts \ {x} /\ x.did
      /\ UNCHANGED <<schedules, wf, rows, collected, drained, latest, faults>>
  BY DEF Report
<1>3. x \in AttemptType /\ T \subseteq tasks /\ \A t \in T : SameJob(x, t)
  BY DEF Inv, TypeOK, TaskOf, SameJob
<1>4. ASSUME NEW t \in T
      PROVE  /\ ok(t) \in Task /\ SameJob(ok(t), t) /\ ok(t).n = t.n
             /\ ok(t).st = "ok" /\ ok(t).res = x.res
  <2>1. t \in Task
    BY <1>3 DEF Inv, TypeOK
  <2> QED
    BY <1>3, <2>1 DEF Task, AttemptType, SameJob
<1> HIDE DEF T, ok
<1>6. tasks' = {f[u] : u \in tasks}
  BY <1>1, <1>2, <1>3
<1>7. ASSUME NEW u \in tasks
      PROVE  /\ f[u] \in Task /\ SameJob(f[u], u) /\ f[u].n <= MaxAttempts[u.act]
             /\ f[u].st = "failed" => f[u].n = MaxAttempts[u.act]
             /\ f[u].st = "ok" =>
                  \/ u.st = "ok" /\ f[u].res = u.res
                  \/ \E y \in attempts : SameJob(y, u) /\ y.did /\ f[u].res = y.res
  <2>1. u \in Task /\ u.n <= MaxAttempts[u.act] /\ TaskOK(u)
    BY DEF Inv, TypeOK
  <2>2. CASE u \in T
    BY <1>1, <1>2, <1>3, <1>4, <2>1, <2>2
  <2>3. CASE u \notin T
    BY <1>1, <2>1, <2>3 DEF TaskOK, SameJob
  <2> QED
    BY <2>2, <2>3
<1>8. ASSUME NEW y \in attempts'
      PROVE  /\ y \in AttemptType /\ y.n <= MaxAttempts[y.act]
             /\ \E z \in attempts \cup tasks : SameJob(y, z)
             /\ y.did => \E z \in attempts : SameJob(y, z) /\ z.did /\ z.res = y.res
  BY <1>2 DEF Inv, TypeOK, SameJob
<1>9. faults' \in 0..MaxFaults
  BY <1>2 DEF Inv, TypeOK
<1> HIDE DEF Inv
<1> QED
  BY <1>2, <1>6, <1>7, <1>8, <1>9, Tracked

LEMMA FaultFacts ==
  ASSUME Inv, Fault
  PROVE  faults' \in 0..MaxFaults
BY ConstantsAssumption DEF Inv, TypeOK, Fault, ConstantsAssumption

LEMMA ReturnStep ==
  ASSUME Inv, NEW x \in attempts,
         FailAttempt(x) \/ RejectVersion(x) \/ RejectRegion(x) \/ ContextExpired(x)
  PROVE  Inv'
<1>1. Return(x) /\ faults' \in 0..MaxFaults
  <2>1. CASE FailAttempt(x)
    BY <2>1, FaultFacts DEF FailAttempt
  <2>2. CASE RejectVersion(x) \/ RejectRegion(x) \/ ContextExpired(x)
    BY <2>2 DEF RejectVersion, RejectRegion, ContextExpired, Inv, TypeOK
  <2> QED
    BY <2>1, <2>2
<1>2. /\ attempts' = attempts \ {x}
      /\ tasks' = (tasks \ TaskOf(x)) \cup {AfterFailure(t) : t \in TaskOf(x)}
      /\ UNCHANGED <<schedules, wf, rows, collected, drained, latest>>
  BY <1>1 DEF Return
<1>3. TaskOf(x) \in SUBSET tasks
  BY DEF TaskOf
<1>4. \A y \in attempts' : \E z \in attempts : y = z \/ y = [z EXCEPT !.ctx = "expired"]
  BY <1>2
<1> HIDE DEF Inv
<1> QED
  BY <1>1, <1>2, <1>3, <1>4, GivenUp

LEMMA TimeOutStep ==
  ASSUME Inv, NEW x \in attempts, TimeOut(x)
  PROVE  Inv'
<1>1. /\ attempts' = (attempts \ {x}) \cup {Expire(x)} /\ Fault
      /\ tasks' = (tasks \ TaskOf(x)) \cup {AfterFailure(t) : t \in TaskOf(x)}
      /\ UNCHANGED <<schedules, wf, rows, collected, drained, latest>>
  BY DEF TimeOut
<1>2. TaskOf(x) \in SUBSET tasks
  BY DEF TaskOf
<1>3. \A y \in attempts' : \E z \in attempts : y = z \/ y = [z EXCEPT !.ctx = "expired"]
  BY <1>1 DEF Expire
<1>4. faults' \in 0..MaxFaults
  BY <1>1, FaultFacts
<1> HIDE DEF Inv
<1> QED
  BY <1>1, <1>2, <1>3, <1>4, GivenUp

LEMMA TimeOutLostStep ==
  ASSUME Inv, NEW t \in tasks, TimeOutLost(t)
  PROVE  Inv'
<1>1. /\ UNCHANGED <<schedules, wf, attempts, rows, collected, drained, latest, faults>>
      /\ tasks' = (tasks \ {t}) \cup {AfterFailure(t)}
  BY DEF TimeOutLost
<1>2. tasks' = (tasks \ {t}) \cup {AfterFailure(u) : u \in {t}} /\ {t} \in SUBSET tasks
  BY <1>1
<1>3. \A y \in attempts' : \E z \in attempts : y = z \/ y = [z EXCEPT !.ctx = "expired"]
  BY <1>1
<1>4. faults' \in 0..MaxFaults
  BY <1>1 DEF Inv, TypeOK
<1> HIDE DEF Inv
<1> QED
  BY <1>1, <1>2, <1>3, <1>4, GivenUp

LEMMA CrashStep ==
  ASSUME Inv, CrashWorker
  PROVE  Inv'
<1>1. attempts' = {} /\ Fault /\ UNCHANGED <<schedules, wf, tasks, rows, collected, drained, latest>>
  BY DEF CrashWorker
<1>2. tasks' = (tasks \ {}) \cup {AfterFailure(u) : u \in {}} /\ {} \in SUBSET tasks
  BY <1>1
<1>3. \A y \in attempts' : \E z \in attempts : y = z \/ y = [z EXCEPT !.ctx = "expired"]
  BY <1>1
<1>4. faults' \in 0..MaxFaults
  BY <1>1, FaultFacts
<1> HIDE DEF Inv
<1> QED
  BY <1>1, <1>2, <1>3, <1>4, GivenUp

LEMMA QuietStep ==
  ASSUME Inv, Upsert \/ NewPatch \/ UNCHANGED vars
  PROVE  Inv'
<1>1. /\ UNCHANGED <<wf, tasks, attempts, rows, collected, drained, faults>>
      /\ schedules' \subseteq Profiles /\ latest' \in 0..MaxVersion
  <2>1. CASE Upsert
    BY <2>1 DEF Upsert, Inv, TypeOK
  <2>2. CASE NewPatch
    BY <2>2, ConstantsAssumption DEF NewPatch, Inv, TypeOK, ConstantsAssumption
  <2>3. CASE UNCHANGED vars
    BY <2>3 DEF vars, Inv, TypeOK
  <2> QED
    BY <2>1, <2>2, <2>3
<1>2. TypeOK'
  BY <1>1 DEF Inv, TypeOK, Exists, Open
<1>3. OwnRuns'
  BY <1>1 DEF Inv, OwnRuns, Known, Exists, Run
<1>4. \A w \in WfId : Exists(w)' => WfOK(w)'
  BY <1>1, Unmoved DEF Inv
<1>5. ASSUME NEW t \in tasks' PROVE TaskOK(t)'
  <2>1. TaskOK(t)
    BY <1>1 DEF Inv
  <2> QED
    BY <1>1, <2>1, Unmoved DEF TaskOK, Call
<1>6. ASSUME NEW x \in attempts' PROVE AttemptOK(x)'
  <2>1. AttemptOK(x)
    BY <1>1 DEF Inv
  <2> QED
    BY <1>1, <2>1, Unmoved DEF AttemptOK
<1>7. \A i \in RunId : RunOK(i)'
  BY <1>1, Unmoved DEF Inv
<1> QED
  BY <1>2, <1>3, <1>4, <1>5, <1>6, <1>7 DEF Inv
-----------------------------------------------------------------------------
(* Activities *)

LEMMA KnownFacts ==
  ASSUME Inv, NEW w \in WfId, NEW i \in Known(w)
  PROVE  i \in RunId /\ rows[i] # None
<1>1. i \in RunId
  BY DEF Known
<1>2. CASE Exists(w) /\ Run(w) = i
  BY <1>1, <1>2, ConstantsAssumption DEF Inv, WfOK, RowOf, ConstantsAssumption
<1>3. CASE \E x \in attempts : x.wf = w /\ x.act = "CreateRun" /\ x.did /\ x.res = i
  BY <1>1, <1>3 DEF Inv, AttemptOK, Answered, RowOf
<1>4. CASE \E t \in tasks : t.wf = w /\ t.act = "CreateRun" /\ t.st = "ok" /\ t.res = i
  BY <1>1, <1>4 DEF Inv, TaskOK, Answered, RowOf
<1> QED
  BY <1>1, <1>2, <1>3, <1>4 DEF Known

LEMMA Performed ==
  ASSUME Inv, NEW x \in attempts, NEW res \in Answer,
         UNCHANGED <<schedules, wf, tasks, latest, faults>>, attempts' = Finished(x, res),
         rows' \in [RunId -> Row \cup {None}],
         collected' \in [RunId -> SUBSET Tier], drained' \in [RunId -> SUBSET PhaseActivity],
         \A w \in WfId : Exists(w) => RowsKept(w),
         Answered(x.wf, x.act, x.tier, res)',
         x.act = "CreateRun" => res \in RunId /\ rows[res] = None,
         \A i \in RunId : RunOK(i)'
  PROVE  Inv'
<1> DEFINE done == [x EXCEPT !.did = TRUE, !.res = res]
<1>1. attempts' = (attempts \ {x}) \cup {done}
  BY DEF Finished
<1>2. x \in AttemptType /\ x.wf \in WfId /\ Exists(x.wf) /\ x.n <= MaxAttempts[x.act] /\ AttemptOK(x)
  BY DEF Inv, TypeOK, AttemptType
<1>3. /\ done \in AttemptType /\ done.wf = x.wf /\ done.act = x.act /\ done.tier = x.tier
      /\ done.n = x.n /\ done.did /\ done.res = res
  BY <1>2 DEF AttemptType
<1> HIDE DEF done
<1>4. ASSUME NEW w \in WfId
      PROVE  (Exists(w)' <=> Exists(w)) /\ (Open(w)' <=> Open(w)) /\ (Exists(w) => Steady(w))
  <2>1. Exists(w) => wf[w].pc \in Nat
    BY WfFacts
  <2> QED
    BY <2>1 DEF Exists, Open, Steady, Beyond
<1>5. ASSUME NEW w \in WfId, Exists(w)
      PROVE  WfOK(w)'
  <2> DEFINE C == Calls(wf[w].prof)
  <2>1. /\ wf[w] \in Wf /\ WfOK(w) /\ wf[w].prof \in Profiles /\ wf[w].pc \in 0..Len(C)
        /\ Beyond(w, 3) => Run(w) \in Known(w)
    BY <1>5, WfFacts
  <2>2. Run(w)' = Run(w) /\ (Beyond(w, 3)' <=> Beyond(w, 3)) /\ wf'[w] = wf[w]
    BY DEF Run, Beyond
  <2>3. Run(w) # None => RowOf(w, Run(w))'
    <3>1. SUFFICES ASSUME Run(w) # None PROVE RowOf(w, Run(w))'
      OBVIOUS
    <3>2. Run(w) \in Known(w) /\ RowOf(w, Run(w))
      BY <2>1, <3>1 DEF WfOK
    <3>3. PICK i \in Known(w) : i = Run(w)
      BY <3>2
    <3>4. RowOf(w, i)'
      BY <1>4, <1>5, <3>2, <3>3, RowOfStable
    <3> QED
      BY <2>2, <3>3, <3>4 DEF RowOf
  <2>4. wf[w].pc # 0 => Behind(w, wf[w].pc)'
    <3>1. SUFFICES ASSUME wf[w].pc # 0 PROVE Behind(w, wf[w].pc)'
      OBVIOUS
    <3>2. PICK n : n = wf[w].pc
      OBVIOUS
    <3>3. n \in 1..Len(C) /\ Behind(w, n)
      BY <2>1, <3>1, <3>2 DEF WfOK
    <3>4. Behind(w, n)'
      BY <1>4, <1>5, <3>3, BehindStable
    <3> QED
      BY <2>2, <3>2, <3>4 DEF Behind
  <2>5. Run(w) # None =>
          /\ wf[w].pc # 0 /\ rows[Run(w)].status = "completed" => rows'[Run(w)].status = "completed"
          /\ rows[Run(w)].status # "running" => rows'[Run(w)].status # "running"
    <3>1. SUFFICES ASSUME Run(w) # None
                   PROVE  /\ wf[w].pc # 0 /\ rows[Run(w)].status = "completed" =>
                               rows'[Run(w)].status = "completed"
                          /\ rows[Run(w)].status # "running" => rows'[Run(w)].status # "running"
      OBVIOUS
    <3>2. Run(w) \in RunId /\ rows[Run(w)] # None
      BY <2>1, <3>1 DEF WfOK, RowOf
    <3> QED
      BY <1>5, <3>1, <3>2 DEF RowsKept
  <2> QED
    BY <2>1, <2>2, <2>3, <2>4, <2>5 DEF WfOK
<1>6. ASSUME NEW w \in WfId, Exists(w), NEW act, NEW tier, NEW r,
             Placed(w, act, tier), Answered(w, act, tier, r), act = "CreateRun" => r \in Known(w)
      PROVE  Answered(w, act, tier, r)'
  BY <1>4, <1>6, AnsweredStable
<1>7. ASSUME NEW w \in WfId, Exists(w), NEW act, NEW tier, Placed(w, act, tier)
      PROVE  Placed(w, act, tier)'
  BY <1>4, <1>7, PlacedStable
<1>8. ASSUME NEW t \in tasks'
      PROVE  TaskOK(t)'
  <2>1. t \in tasks /\ TaskOK(t) /\ t.wf \in WfId /\ Exists(t.wf)
    BY DEF Inv, TypeOK, Task, Open
  <2>2. t.st = "ok" /\ t.act = "CreateRun" => t.res \in Known(t.wf)
    BY <2>1 DEF TaskOK, Answered, RowOf, Known
  <2>3. t.st = "ok" => Answered(t.wf, t.act, t.tier, t.res)'
    BY <1>6, <2>1, <2>2 DEF TaskOK
  <2>4. Placed(t.wf, t.act, t.tier)'
    BY <1>7, <2>1 DEF TaskOK
  <2> QED
    BY <2>1, <2>3, <2>4 DEF TaskOK, Call
<1>9. ASSUME NEW y \in attempts'
      PROVE  AttemptOK(y)' /\ y \in AttemptType /\ Exists(y.wf)' /\ y.n <= MaxAttempts[y.act]
  <2>1. CASE y = done
    <3>1. Placed(y.wf, y.act, y.tier)'
      BY <1>2, <1>3, <1>7, <2>1 DEF AttemptOK
    <3>2. Answered(y.wf, y.act, y.tier, y.res)'
      BY <1>3, <2>1 DEF Answered
    <3> QED
      BY <1>2, <1>3, <1>4, <2>1, <3>1, <3>2 DEF AttemptOK
  <2>2. CASE y \in attempts
    <3>1. AttemptOK(y) /\ y \in AttemptType /\ y.wf \in WfId /\ Exists(y.wf) /\ y.n <= MaxAttempts[y.act]
      BY <2>2 DEF Inv, TypeOK, AttemptType
    <3>2. y.did /\ y.act = "CreateRun" => y.res \in Known(y.wf)
      BY <2>2, <3>1 DEF AttemptOK, Answered, RowOf, Known
    <3>3. y.did => Answered(y.wf, y.act, y.tier, y.res)'
      BY <1>6, <3>1, <3>2 DEF AttemptOK
    <3>4. Placed(y.wf, y.act, y.tier)'
      BY <1>7, <3>1 DEF AttemptOK
    <3> QED
      BY <1>4, <3>1, <3>3, <3>4 DEF AttemptOK
  <2> QED
    BY <1>1, <2>1, <2>2
<1>10. ASSUME NEW w \in WfId
       PROVE  Known(w)' \subseteq Known(w) \cup
                (IF w = x.wf /\ x.act = "CreateRun" THEN {res} ELSE {})
  <2>1. SUFFICES ASSUME NEW i \in Known(w)', i \notin Known(w)
                 PROVE  i = res /\ w = x.wf /\ x.act = "CreateRun"
    OBVIOUS
  <2>2. i \in RunId
    BY DEF Known
  <2>3. ~(Exists(w)' /\ Run(w)' = i)
    BY <1>4, <2>1, <2>2 DEF Known, Run
  <2>4. ~\E t \in tasks' : t.wf = w /\ t.act = "CreateRun" /\ t.st = "ok" /\ t.res = i
    BY <2>1, <2>2 DEF Known
  <2>5. PICK y \in attempts' : y.wf = w /\ y.act = "CreateRun" /\ y.did /\ y.res = i
    BY <2>3, <2>4 DEF Known
  <2>6. y \notin attempts
    BY <2>1, <2>2, <2>5 DEF Known
  <2> QED
    BY <1>1, <1>3, <2>5, <2>6
<1>11. OwnRuns'
  <2>1. SUFFICES ASSUME NEW v \in WfId, NEW w \in WfId, v # w, NEW i \in Known(v)', i \in Known(w)'
                 PROVE  FALSE
    BY DEF OwnRuns
  <2>2. CASE x.act # "CreateRun"
    BY <1>10, <2>1, <2>2 DEF Inv, OwnRuns
  <2>3. CASE x.act = "CreateRun"
    <3>1. res \notin Known(v) /\ res \notin Known(w)
      BY <2>3, KnownFacts
    <3> QED
      BY <1>10, <2>1, <2>3, <3>1 DEF Inv, OwnRuns
  <2> QED
    BY <2>2, <2>3
<1>12. TypeOK'
  <2>1. \A w \in WfId : Exists(w)' => wf'[w].pc <= Len(Calls(wf'[w].prof))
    BY <1>4 DEF Inv, TypeOK
  <2>2. tasks' \subseteq Task /\ \A t \in tasks' : Open(t.wf)' /\ t.n <= MaxAttempts[t.act]
    BY DEF Inv, TypeOK, Open, Exists
  <2>3. \A t, u \in tasks' : t.wf = u.wf /\ t.act = u.act /\ t.tier = u.tier => t = u
    BY DEF Inv, TypeOK
  <2>4. attempts' \subseteq AttemptType /\ \A y \in attempts' : Exists(y.wf)' /\ y.n <= MaxAttempts[y.act]
    BY <1>9
  <2> QED
    BY <2>1, <2>2, <2>3, <2>4 DEF Inv, TypeOK
<1>13. \A w \in WfId : Exists(w)' => WfOK(w)'
  BY <1>4, <1>5
<1> QED
  BY <1>8, <1>9, <1>11, <1>12, <1>13 DEF Inv

LEMMA AttemptFacts ==
  ASSUME Inv, NEW x \in attempts
  PROVE  /\ x \in AttemptType /\ x.wf \in WfId /\ Exists(x.wf) /\ wf[x.wf] \in Wf
         /\ wf[x.wf].prof \in Profiles
         /\ Placed(x.wf, x.act, x.tier)
         /\ x.act \notin {"ResolveProfile", "CreateRun"} =>
              Run(x.wf) \in RunId /\ Run(x.wf) \in Known(x.wf) /\ rows[Run(x.wf)] \in Row
         /\ x.act \in Elems(LatePhases) =>
              x.act \in PhaseActivity \ {"Phase0", "Phase1", "Phase2"}
<1>1. x \in AttemptType /\ x.wf \in WfId /\ Exists(x.wf) /\ AttemptOK(x)
  BY DEF Inv, TypeOK, AttemptType
<1>2. Placed(x.wf, x.act, x.tier)
  BY <1>1 DEF AttemptOK
<1>3. x.act \notin {"ResolveProfile", "CreateRun"} => Beyond(x.wf, 3)
  BY <1>1, <1>2, PlacedFacts
<1> QED
  BY <1>1, <1>2, <1>3, WfFacts, Late

\* Tables that only grow.
LEMMA Grown ==
  ASSUME Inv, UNCHANGED <<wf, rows>>,
         \A i \in RunId : collected[i] \subseteq collected'[i] /\ drained[i] \subseteq drained'[i]
  PROVE  /\ \A w \in WfId : Exists(w) => RowsKept(w)
         /\ \A i \in RunId : RunOK(i)'
<1>1. ASSUME NEW w \in WfId, Exists(w) PROVE RowsKept(w)
  BY DEF RowsKept, RowPinned, Run
<1>2. ASSUME NEW i \in RunId PROVE RunOK(i)'
  BY DEF RunOK, Inv
<1> QED
  BY <1>1, <1>2

LEMMA PlainStep ==
  ASSUME Inv, NEW x \in attempts,
         ResolveProfile(x) \/ Phase1RankSnapshot(x) \/ Phase0VersionSync(x)
  PROVE  Inv'
<1>1. /\ x.act \in {"ResolveProfile", "Phase1", "Phase0"}
      /\ UNCHANGED <<schedules, wf, tasks, rows, collected, drained, latest, faults>>
  BY DEF ResolveProfile, Phase1RankSnapshot, Phase0VersionSync
<1>2. PICK res : /\ attempts' = Finished(x, res) /\ res \in Version \cup {None}
                 /\ x.act = "Phase0" /\ wf[x.wf].prof.version # None => res = wf[x.wf].prof.version
  <2>1. wf[x.wf].prof.version \in Version \cup {None}
    BY AttemptFacts, ProfileFacts
  <2>2. latest # 0 => latest \in Version
    BY DEF Inv, TypeOK, Version
  <2> QED
    BY <2>1, <2>2 DEF ResolveProfile, Phase1RankSnapshot, Phase0VersionSync
<1>3. x.act \notin Elems(LatePhases)
  BY <1>1, AttemptFacts DEF PhaseActivity
<1>4. Answered(x.wf, x.act, x.tier, res)'
  BY <1>1, <1>2, <1>3 DEF Answered
<1>5. /\ \A w \in WfId : Exists(w) => RowsKept(w)
      /\ \A i \in RunId : RunOK(i)'
  BY <1>1, Grown
<1>6. /\ rows' \in [RunId -> Row \cup {None}]
      /\ collected' \in [RunId -> SUBSET Tier] /\ drained' \in [RunId -> SUBSET PhaseActivity]
  BY <1>1 DEF Inv, TypeOK
<1>7. res \in Answer /\ x.act # "CreateRun"
  BY <1>1, <1>2 DEF Answer
<1> HIDE DEF Inv
<1> QED
  BY <1>1, <1>2, <1>4, <1>5, <1>6, <1>7, Performed

LEMMA DrainStep ==
  ASSUME Inv, NEW x \in attempts, Drain(x), x.act \in PhaseActivity \ {"Phase0", "Phase1", "Phase2"}
  PROVE  Inv'
<1> DEFINE r == Run(x.wf)
<1>1. /\ drained' = [drained EXCEPT ![r] = @ \cup {x.act}] /\ attempts' = Finished(x, None)
      /\ UNCHANGED <<schedules, wf, tasks, rows, collected, latest, faults>>
  BY DEF Drain, Run
<1>2. r \in RunId
  BY AttemptFacts DEF PhaseActivity
<1>3. /\ rows \in [RunId -> Row \cup {None}]
      /\ collected \in [RunId -> SUBSET Tier] /\ drained \in [RunId -> SUBSET PhaseActivity]
  BY DEF Inv, TypeOK
<1>4. /\ drained' \in [RunId -> SUBSET PhaseActivity] /\ x.act \in drained'[r]
      /\ \A i \in RunId : drained[i] \subseteq drained'[i]
  BY <1>1, <1>2, <1>3
<1>5. Answered(x.wf, x.act, x.tier, None)'
  BY <1>1, <1>4 DEF Answered, Run, PhaseActivity
<1>6. /\ \A w \in WfId : Exists(w) => RowsKept(w)
      /\ \A i \in RunId : RunOK(i)'
  BY <1>1, <1>4, Grown
<1>7. x.act # "CreateRun" /\ None \in Answer
  BY DEF PhaseActivity, Answer
<1> HIDE DEF Inv, r
<1> QED
  BY <1>1, <1>3, <1>4, <1>5, <1>6, <1>7, Performed

LEMMA Phase2Step ==
  ASSUME Inv, NEW x \in attempts, Phase2MatchIDCollection(x)
  PROVE  Inv'
<1> DEFINE r == Run(x.wf)
           new == IF x.tier = None THEN Elems(wf[x.wf].prof.tiers) ELSE {x.tier}
<1>1. /\ x.act = "Phase2"
      /\ collected' = [collected EXCEPT ![r] = @ \cup new] /\ attempts' = Finished(x, None)
      /\ UNCHANGED <<schedules, wf, tasks, rows, drained, latest, faults>>
  BY DEF Phase2MatchIDCollection, Run
<1>2. r \in RunId
  BY <1>1, AttemptFacts
<1>3. /\ rows \in [RunId -> Row \cup {None}]
      /\ collected \in [RunId -> SUBSET Tier] /\ drained \in [RunId -> SUBSET PhaseActivity]
  BY DEF Inv, TypeOK
<1>4. new \subseteq Tier
  <2>1. Elems(wf[x.wf].prof.tiers) \subseteq Tier
    BY AttemptFacts, ProfileFacts DEF Elems
  <2>2. x.tier \in Tier \cup {None}
    BY AttemptFacts DEF AttemptType
  <2> QED
    BY <2>1, <2>2
<1> HIDE DEF new
<1>5. /\ collected' \in [RunId -> SUBSET Tier] /\ new \subseteq collected'[r]
      /\ \A i \in RunId : collected[i] \subseteq collected'[i]
  BY <1>1, <1>2, <1>3, <1>4
<1>6. Answered(x.wf, x.act, x.tier, None)'
  <2>1. x.act \notin Elems(LatePhases)
    BY <1>1, AttemptFacts
  <2> QED
    BY <1>1, <1>5, <2>1 DEF Answered, Run, AllCollected, new
<1>7. /\ \A w \in WfId : Exists(w) => RowsKept(w)
      /\ \A i \in RunId : RunOK(i)'
  BY <1>1, <1>5, Grown
<1>8. x.act # "CreateRun" /\ None \in Answer
  BY <1>1 DEF Answer
<1> HIDE DEF Inv, r
<1> QED
  BY <1>1, <1>3, <1>5, <1>6, <1>7, <1>8, Performed

LEMMA CreateRunStep ==
  ASSUME Inv, NEW x \in attempts, NEW i \in RunId, CreateRun(x, i)
  PROVE  Inv'
<1> DEFINE prof == wf[x.wf].prof
           new == [status |-> "running", version |-> prof.version, tiers |-> prof.tiers]
<1>1. /\ x.act = "CreateRun" /\ rows[i] = None
      /\ rows' = [rows EXCEPT ![i] = new] /\ attempts' = Finished(x, i)
      /\ UNCHANGED <<schedules, wf, tasks, collected, drained, latest, faults>>
  BY DEF CreateRun
<1>2. /\ rows \in [RunId -> Row \cup {None}]
      /\ collected \in [RunId -> SUBSET Tier] /\ drained \in [RunId -> SUBSET PhaseActivity]
  BY DEF Inv, TypeOK
<1>3. new \in Row /\ new # None
  BY AttemptFacts, ProfileFacts, NoneIsNoRecord DEF Row
<1>4. /\ new.status = "running" /\ new.version = prof.version /\ new.tiers = prof.tiers
  OBVIOUS
<1> HIDE DEF new
<1>5. /\ rows' \in [RunId -> Row \cup {None}] /\ rows'[i] = new
      /\ \A j \in RunId : j # i => rows'[j] = rows[j]
  BY <1>1, <1>2, <1>3
<1>6. ASSUME NEW w \in WfId, Exists(w)
      PROVE  RowsKept(w)
  <2>1. \A j \in Known(w) : j \in RunId /\ j # i
    BY <1>1, KnownFacts
  <2>2. Run(w) # None => Run(w) \in RunId /\ Run(w) # i
    BY <1>1, <1>6, WfFacts DEF WfOK, RowOf
  <2> QED
    BY <1>1, <1>5, <2>1, <2>2 DEF RowsKept, RowPinned
<1>7. ASSUME NEW j \in RunId
      PROVE  RunOK(j)'
  <2>1. RunOK(j)
    BY DEF Inv
  <2> QED
    BY <1>1, <1>4, <1>5, <2>1 DEF RunOK
<1>8. Answered(x.wf, x.act, x.tier, i)'
  <2>1. x.act \notin Elems(LatePhases)
    BY <1>1, AttemptFacts DEF PhaseActivity
  <2> QED
    BY <1>1, <1>3, <1>4, <1>5, <2>1 DEF Answered, RowOf
<1>9. i \in Answer
  BY DEF Answer
<1> HIDE DEF Inv
<1> QED
  BY <1>1, <1>2, <1>5, <1>6, <1>7, <1>8, <1>9, Performed

LEMMA PinStep ==
  ASSUME Inv, NEW x \in attempts, PinRunVersion(x)
  PROVE  Inv'
<1> DEFINE r == Run(x.wf)
           v == wf[x.wf].version
<1>1. /\ x.act = "PinRunVersion" /\ v # None
      /\ rows' = [rows EXCEPT ![r].version = v] /\ attempts' = Finished(x, None)
      /\ UNCHANGED <<schedules, wf, tasks, collected, drained, latest, faults>>
  BY DEF PinRunVersion, Run
<1>2. /\ rows \in [RunId -> Row \cup {None}]
      /\ collected \in [RunId -> SUBSET Tier] /\ drained \in [RunId -> SUBSET PhaseActivity]
  BY DEF Inv, TypeOK
<1>3. /\ r \in RunId /\ rows[r] \in Row /\ r \in Known(x.wf) /\ v \in Version \cup {None}
      /\ x.wf \in WfId /\ Exists(x.wf) /\ wf[x.wf].prof.version = None
  <2>1. v \in Version \cup {None}
    BY AttemptFacts DEF Wf
  <2> QED
    BY <1>1, <2>1, AttemptFacts, PlacedFacts
<1>4. /\ rows' \in [RunId -> Row \cup {None}]
      /\ rows'[r] # None /\ rows'[r].status = rows[r].status /\ rows'[r].tiers = rows[r].tiers
      /\ rows'[r].version = v
      /\ \A j \in RunId : j # r => rows'[j] = rows[j]
  <2> DEFINE new == [rows[r] EXCEPT !.version = v]
  <2>1. new \in Row /\ new # None
    BY <1>3, NoneIsNoRecord DEF Row
  <2>2. new.status = rows[r].status /\ new.tiers = rows[r].tiers /\ new.version = v
    BY <1>3 DEF Row
  <2>3. rows' = [rows EXCEPT ![r] = new]
    BY <1>1
  <2> HIDE DEF new, r, v
  <2> QED
    BY <1>2, <1>3, <2>1, <2>2, <2>3
<1>5. ASSUME NEW w \in WfId, Exists(w)
      PROVE  RowsKept(w)
  <2>1. w # x.wf => r \notin Known(w)
    BY <1>3 DEF Inv, OwnRuns
  <2>2. Run(w) # None => Run(w) \in RunId /\ Run(w) \in Known(w)
    BY <1>5, WfFacts DEF WfOK
  <2>3. \A i \in Known(w) : i \in RunId
    BY DEF Known
  <2>4. \A j \in RunId :
          /\ collected[j] \subseteq collected'[j] /\ drained[j] \subseteq drained'[j]
          /\ rows[j] # None =>
               /\ rows'[j] # None /\ rows'[j].tiers = rows[j].tiers
               /\ rows[j].status # "running" => rows'[j].status # "running"
    BY <1>1, <1>4
  <2>5. \A j \in Known(w) :
          wf[w].prof.version # None /\ rows[j].version = wf[w].prof.version =>
            rows'[j].version = wf[w].prof.version
    BY <1>3, <1>4, <2>1, <2>3
  <2>6. Run(w) # None /\ RowPinned(w) => rows'[Run(w)].version = wf[w].version
    BY <1>4, <2>1, <2>2 DEF RowPinned
  <2>7. Run(w) # None /\ rows[Run(w)].status = "completed" => rows'[Run(w)].status = "completed"
    BY <1>4, <2>2
  <2> QED
    BY <2>4, <2>5, <2>6, <2>7 DEF RowsKept
<1>6. ASSUME NEW j \in RunId
      PROVE  RunOK(j)'
  <2>1. RunOK(j)
    BY DEF Inv
  <2> QED
    BY <1>1, <1>3, <1>4, <2>1, NoneIsNoRecord DEF RunOK
<1>7. Answered(x.wf, x.act, x.tier, None)'
  <2>1. x.act \notin Elems(LatePhases)
    BY <1>1, AttemptFacts DEF PhaseActivity
  <2> QED
    BY <1>1, <1>4, <2>1 DEF Answered, RowPinned, Run
<1>8. x.act # "CreateRun" /\ None \in Answer
  BY <1>1 DEF Answer
<1> HIDE DEF Inv, r, v
<1> QED
  BY <1>1, <1>2, <1>4, <1>5, <1>6, <1>7, <1>8, Performed

LEMMA StampStep ==
  ASSUME Inv, NEW x \in attempts, StampRun(x)
  PROVE  Inv'
<1> DEFINE r == Run(x.wf)
           st == IF x.act = "CompleteRun" THEN "completed" ELSE "failed"
<1>1. /\ x.act \in {"CompleteRun", "FailRun"}
      /\ rows' = [rows EXCEPT ![r].status = st] /\ attempts' = Finished(x, None)
      /\ UNCHANGED <<schedules, wf, tasks, collected, drained, latest, faults>>
  BY DEF StampRun, Run
<1>2. /\ rows \in [RunId -> Row \cup {None}]
      /\ collected \in [RunId -> SUBSET Tier] /\ drained \in [RunId -> SUBSET PhaseActivity]
  BY DEF Inv, TypeOK
<1>3. /\ r \in RunId /\ rows[r] \in Row /\ r \in Known(x.wf)
      /\ x.wf \in WfId /\ Exists(x.wf) /\ (x.act = "FailRun" => wf[x.wf].pc = 0)
  BY <1>1, AttemptFacts, PlacedFacts
<1>4. /\ rows' \in [RunId -> Row \cup {None}]
      /\ rows'[r] # None /\ rows'[r].status = st /\ rows'[r].tiers = rows[r].tiers
      /\ rows'[r].version = rows[r].version
      /\ \A j \in RunId : j # r => rows'[j] = rows[j]
  <2> DEFINE new == [rows[r] EXCEPT !.status = st]
  <2>1. new \in Row /\ new # None
    BY <1>3, NoneIsNoRecord DEF Row
  <2>2. new.tiers = rows[r].tiers /\ new.version = rows[r].version /\ new.status = st
    BY <1>3 DEF Row
  <2>3. rows' = [rows EXCEPT ![r] = new]
    BY <1>1
  <2> HIDE DEF new, r, st
  <2> QED
    BY <1>2, <1>3, <2>1, <2>2, <2>3
<1>5. ASSUME NEW w \in WfId, Exists(w)
      PROVE  RowsKept(w)
  <2>1. w # x.wf => r \notin Known(w)
    BY <1>3 DEF Inv, OwnRuns
  <2>2. Run(w) # None => Run(w) \in RunId /\ Run(w) \in Known(w)
    BY <1>5, WfFacts DEF WfOK
  <2>3. \A i \in Known(w) : i \in RunId
    BY DEF Known
  <2>4. \A j \in RunId :
          /\ collected[j] \subseteq collected'[j] /\ drained[j] \subseteq drained'[j]
          /\ rows[j] # None =>
               /\ rows'[j] # None /\ rows'[j].tiers = rows[j].tiers
               /\ rows[j].status # "running" => rows'[j].status # "running"
    BY <1>1, <1>4
  <2>5. \A j \in Known(w) : rows'[j].version = rows[j].version
    BY <1>4, <2>3
  <2>6. Run(w) # None /\ RowPinned(w) => rows'[Run(w)].version = wf[w].version
    BY <2>2, <2>5 DEF RowPinned
  <2>7. Run(w) # None /\ wf[w].pc # 0 /\ rows[Run(w)].status = "completed" =>
          rows'[Run(w)].status = "completed"
    BY <1>1, <1>3, <1>4, <2>1, <2>2
  <2> QED
    BY <2>4, <2>5, <2>6, <2>7 DEF RowsKept
<1>6. ASSUME NEW j \in RunId
      PROVE  RunOK(j)'
  <2>1. RunOK(j)
    BY DEF Inv
  <2>2. CASE j # r
    BY <1>1, <1>4, <2>1, <2>2 DEF RunOK
  <2>3. CASE j = r /\ x.act = "FailRun"
    BY <1>4, <2>3 DEF RunOK
  <2>4. CASE j = r /\ x.act = "CompleteRun"
    <3> DEFINE prof == wf[x.wf].prof
               C == Calls(prof)
    <3>1. Placed(x.wf, x.act, x.tier) /\ prof \in Profiles
      BY AttemptFacts
    <3>2. PICK n \in 1..Len(C) : x.act = C[n] /\ Behind(x.wf, n)
      BY <2>4, <3>1 DEF Placed
    <3>3. n = Len(C) /\ Len(C) \in Nat
      BY <2>4, <3>1, <3>2, CallsFacts
    <3>4. \A m \in 1..(Len(C) - 1) : Effect(x.wf, C[m])
      BY <3>2, <3>3 DEF Behind
    <3>5. AllCollected(x.wf)
      <4>1. PICK m \in 1..(Len(C) - 1) : C[m] = "Phase2"
        BY <3>1, CallsFacts
      <4> QED
        BY <3>4, <4>1 DEF Effect
    <3>6. ASSUME NEW act \in Elems(LatePhases)
          PROVE  act \in drained[r]
      <4>1. PICK m \in 1..(Len(C) - 1) : C[m] = act
        BY <3>1, CallsFacts
      <4> QED
        BY <3>4, <4>1 DEF Effect
    <3>7. rows[r].tiers = prof.tiers
      <4>1. Run(x.wf) # None /\ WfOK(x.wf)
        BY <1>3, WfFacts, ConstantsAssumption DEF ConstantsAssumption
      <4> QED
        BY <4>1 DEF WfOK, RowOf
    <3> QED
      BY <1>1, <1>4, <2>4, <3>5, <3>6, <3>7 DEF RunOK, AllCollected
  <2> QED
    BY <1>1, <2>2, <2>3, <2>4
<1>7. Answered(x.wf, x.act, x.tier, None)'
  <2>1. x.act \notin Elems(LatePhases)
    BY <1>1, AttemptFacts DEF PhaseActivity
  <2> QED
    BY <1>1, <1>4, <2>1 DEF Answered, Run
<1>8. x.act # "CreateRun" /\ None \in Answer
  BY <1>1 DEF Answer
<1> HIDE DEF Inv, r, st
<1> QED
  BY <1>1, <1>2, <1>4, <1>5, <1>6, <1>7, <1>8, Performed

LEMMA PerformStep ==
  ASSUME Inv, NEW x \in attempts, Perform(x)
  PROVE  Inv'
<1>1. CASE \E i \in RunId : CreateRun(x, i)
  BY <1>1, CreateRunStep
<1>2. CASE ResolveProfile(x) \/ Phase1RankSnapshot(x) \/ Phase0VersionSync(x)
  BY <1>2, PlainStep
<1>3. CASE PinRunVersion(x)
  BY <1>3, PinStep
<1>4. CASE Phase2MatchIDCollection(x)
  BY <1>4, Phase2Step
<1>5. CASE StampRun(x)
  BY <1>5, StampStep
<1>6. CASE \/ Phase3MatchDetails(x) \/ Phase35OnDemandRank(x) \/ Phase4AvgTierCalc(x)
           \/ Phase5Timeline(x) \/ Phase55ItemClassify(x)
  <2>1. Drain(x) /\ x.act \in PhaseActivity \ {"Phase0", "Phase1", "Phase2"}
    BY <1>6 DEF Phase3MatchDetails, Phase35OnDemandRank, Phase4AvgTierCalc, Phase5Timeline,
                Phase55ItemClassify, PhaseActivity
  <2> HIDE DEF Inv
  <2> QED
    BY <2>1, DrainStep
<1> HIDE DEF Inv
<1> QED
  BY <1>1, <1>2, <1>3, <1>4, <1>5, <1>6 DEF Perform
-----------------------------------------------------------------------------
(* Steps of a workflow *)

LEMMA SameWorkflow ==
  ASSUME UNCHANGED <<rows, collected, drained>>, NEW v, wf'[v] = wf[v]
  PROVE  /\ WfOK(v)' <=> WfOK(v)
         /\ \A act, tier : Placed(v, act, tier)' <=> Placed(v, act, tier)
         /\ \A act, tier, res : Answered(v, act, tier, res)' <=> Answered(v, act, tier, res)
         /\ Call(v)' = Call(v) /\ (Exists(v)' <=> Exists(v)) /\ (Open(v)' <=> Open(v))
<1>1. \A n : Behind(v, n)' <=> Behind(v, n)
  BY DEF Behind, Beyond, Effect, RowPinned, AllCollected, Run
<1>2. \A act, tier : Placed(v, act, tier)' <=> Placed(v, act, tier)
  BY <1>1 DEF Placed
<1>3. \A act, tier, res : Answered(v, act, tier, res)' <=> Answered(v, act, tier, res)
  BY DEF Answered, RowOf, RowPinned, AllCollected, Run
<1>4. WfOK(v)' <=> WfOK(v)
  BY <1>1 DEF WfOK, RowOf, Beyond, Run
<1>5. Call(v)' = Call(v) /\ (Exists(v)' <=> Exists(v)) /\ (Open(v)' <=> Open(v))
  BY DEF Call, Exists, Open
<1> QED
  BY <1>2, <1>3, <1>4, <1>5

LEMMA RowsKeptSame ==
  ASSUME UNCHANGED <<rows, collected, drained>>, NEW w
  PROVE  RowsKept(w)
BY DEF RowsKept, RowPinned

\* One workflow moves on, and the server tracks what is proper for its place.
LEMMA Moved ==
  ASSUME Inv, NEW w \in WfId, NEW g \in Wf, wf' = [wf EXCEPT ![w] = g],
         UNCHANGED <<schedules, attempts, rows, collected, drained, latest>>,
         faults' \in 0..MaxFaults,
         Exists(w) => Steady(w), g.pc <= Len(Calls(g.prof)), g.run \in Known(w) \cup {None},
         WfOK(w)',
         \A t \in tasks' :
           /\ t.wf # w => t \in tasks
           /\ t.wf = w => /\ t \in Task /\ g.status = "open" /\ t.n <= MaxAttempts[t.act]
                          /\ TaskOK(t)' /\ (t.st = "ok" => t \in tasks),
         \A t, u \in tasks' : t.wf = w /\ u.wf = w /\ t.act = u.act /\ t.tier = u.tier => t = u
  PROVE  Inv'
<1>1. /\ wf \in [WfId -> Wf \cup {None}] /\ wf'[w] = g /\ g # None
      /\ \A v \in WfId : v # w => wf'[v] = wf[v]
  BY NoneIsNoRecord DEF Inv, TypeOK
<1>2. ASSUME NEW v \in WfId, Exists(v)
      PROVE  Steady(v) /\ RowsKept(v)
  <2>1. wf[v].pc \in Nat
    BY <1>2, WfFacts
  <2>2. CASE v # w
    BY <1>1, <1>2, <2>1, <2>2, RowsKeptSame DEF Steady, Exists, Beyond
  <2>3. CASE v = w
    BY <1>2, <2>3, RowsKeptSame
  <2> QED
    BY <2>2, <2>3
<1>3. ASSUME NEW x \in attempts'
      PROVE  AttemptOK(x)' /\ Exists(x.wf)'
  <2>1. /\ x \in attempts /\ AttemptOK(x) /\ x.wf \in WfId /\ Exists(x.wf)
    BY DEF Inv, TypeOK, AttemptType
  <2>2. x.did /\ x.act = "CreateRun" => x.res \in Known(x.wf)
    BY <2>1 DEF AttemptOK, Answered, RowOf, Known
  <2>3. Placed(x.wf, x.act, x.tier)'
    BY <1>2, <2>1, PlacedStable DEF AttemptOK
  <2>4. x.did => Answered(x.wf, x.act, x.tier, x.res)'
    BY <1>2, <2>1, <2>2, AnsweredStable DEF AttemptOK
  <2>5. Exists(x.wf)'
    BY <1>2, <2>1 DEF Steady
  <2> QED
    BY <2>3, <2>4, <2>5 DEF AttemptOK
<1>4. ASSUME NEW t \in tasks'
      PROVE  TaskOK(t)' /\ t \in Task /\ Open(t.wf)' /\ t.n <= MaxAttempts[t.act]
  <2>1. CASE t.wf = w
    BY <1>1, <2>1 DEF Open, Exists
  <2>2. CASE t.wf # w
    <3>1. t \in tasks /\ TaskOK(t) /\ t \in Task /\ Open(t.wf) /\ t.n <= MaxAttempts[t.act]
      BY <2>2 DEF Inv, TypeOK
    <3>2. wf'[t.wf] = wf[t.wf]
      BY <1>1, <2>2, <3>1 DEF Task
    <3>3. TaskOK(t)' /\ Open(t.wf)'
      BY <3>1, <3>2, SameWorkflow DEF TaskOK
    <3> QED
      BY <3>1, <3>3
  <2> QED
    BY <2>1, <2>2
<1>5. ASSUME NEW v \in WfId
      PROVE  Known(v)' \subseteq Known(v)
  <2>1. SUFFICES ASSUME NEW i \in Known(v)' PROVE i \in Known(v)
    OBVIOUS
  <2>2. i \in RunId
    BY DEF Known
  <2>3. CASE Exists(v)' /\ Run(v)' = i
    <3>1. CASE v = w
      BY <1>1, <2>2, <2>3, <3>1, ConstantsAssumption DEF Run, ConstantsAssumption
    <3>2. CASE v # w
      BY <1>1, <2>2, <2>3, <3>2 DEF Known, Run, Exists
    <3> QED
      BY <3>1, <3>2
  <2>4. CASE \E x \in attempts' : x.wf = v /\ x.act = "CreateRun" /\ x.did /\ x.res = i
    BY <2>2, <2>4 DEF Known
  <2>5. ASSUME NEW t \in tasks', t.wf = v, t.act = "CreateRun", t.st = "ok", t.res = i
        PROVE  i \in Known(v)
    <3>1. t \in tasks
      BY <2>5
    <3> QED
      BY <2>2, <2>5, <3>1 DEF Known
  <2> QED
    BY <2>3, <2>4, <2>5 DEF Known
<1>6. OwnRuns'
  BY <1>5 DEF Inv, OwnRuns
<1>7. ASSUME NEW v \in WfId, Exists(v)'
      PROVE  WfOK(v)' /\ wf'[v].pc <= Len(Calls(wf'[v].prof))
  <2>1. CASE v = w
    BY <1>1, <2>1
  <2>2. CASE v # w
    BY <1>1, <1>7, <2>2, SameWorkflow DEF Inv, TypeOK, Exists
  <2> QED
    BY <2>1, <2>2
<1>8. TypeOK'
  <2>1. wf' \in [WfId -> Wf \cup {None}]
    BY <1>1
  <2>2. ASSUME NEW t \in tasks', NEW u \in tasks', t.wf = u.wf, t.act = u.act, t.tier = u.tier
        PROVE  t = u
    <3>1. CASE t.wf = w
      BY <2>2, <3>1
    <3>2. CASE t.wf # w
      BY <2>2, <3>2 DEF Inv, TypeOK
    <3> QED
      BY <3>1, <3>2
  <2>3. tasks' \subseteq Task /\ \A t \in tasks' : Open(t.wf)' /\ t.n <= MaxAttempts[t.act]
    BY <1>4
  <2>4. attempts' \subseteq AttemptType
        /\ \A x \in attempts' : Exists(x.wf)' /\ x.n <= MaxAttempts[x.act]
    BY <1>3 DEF Inv, TypeOK
  <2> QED
    BY <1>7, <2>1, <2>2, <2>3, <2>4 DEF Inv, TypeOK
<1>9. \A i \in RunId : RunOK(i)'
  BY DEF Inv, RunOK
<1>10. /\ \A v \in WfId : Exists(v)' => WfOK(v)'
       /\ \A t \in tasks' : TaskOK(t)'
       /\ \A x \in attempts' : AttemptOK(x)'
  BY <1>3, <1>4, <1>7
<1> QED
  BY <1>6, <1>8, <1>9, <1>10 DEF Inv

LEMMA ScheduledFacts ==
  ASSUME NEW w \in WfId, NEW prof \in Profiles, NEW act \in Activity
  PROVE  /\ \A t \in Scheduled(w, prof, act) :
              /\ t \in Task /\ t.wf = w /\ t.act = act /\ t.tier \in Elems(Futures(prof, act))
              /\ t.st = "waiting" /\ t.n <= MaxAttempts[act]
         /\ \A t, u \in Scheduled(w, prof, act) : t.tier = u.tier => t = u
<1>1. Elems(Futures(prof, act)) \subseteq Tier \cup {None}
  BY FuturesFacts
<1>2. MaxAttempts[act] \in Nat \ {0}
  BY ConstantsAssumption DEF ConstantsAssumption
<1>3. 1 <= MaxAttempts[act] /\ 1 \in Nat \ {0}
  BY <1>2
<1> QED
  BY <1>1, <1>3 DEF Scheduled, Task, Answer

LEMMA FireStep ==
  ASSUME Inv, NEW prof \in Profiles, NEW w \in WfId, Fire(prof, w)
  PROVE  Inv'
<1> DEFINE g == [prof |-> prof, pc |-> 1, run |-> None, tried |-> 0, version |-> prof.version,
                 status |-> "open", outcome |-> "completed"]
           new == Scheduled(w, prof, "ResolveProfile")
<1>1. /\ ~Exists(w) /\ wf' = [wf EXCEPT ![w] = g] /\ tasks' = tasks \cup new
      /\ UNCHANGED <<schedules, attempts, rows, collected, drained, latest, faults>>
  BY DEF Fire
<1>2. g \in Wf
  BY ProfileFacts DEF Wf
<1>3. /\ g.prof = prof /\ g.pc = 1 /\ g.run = None /\ g.version = prof.version
      /\ g.status = "open" /\ g.outcome = "completed"
  OBVIOUS
<1> HIDE DEF g
<1>4. wf'[w] = g
  BY <1>1 DEF Inv, TypeOK
<1>5. Len(Calls(prof)) \in Nat /\ Len(Calls(prof)) >= 6 /\ Calls(prof)[1] = "ResolveProfile"
  BY CallsFacts
<1>6. Behind(w, 1)'
  BY <1>3, <1>4 DEF Behind, Beyond
<1>7. WfOK(w)'
  <2>1. Run(w)' = None /\ ~Beyond(w, 3)'
    BY <1>3, <1>4 DEF Run, Beyond
  <2> QED
    BY <1>3, <1>4, <1>6, <2>1 DEF WfOK, Behind
<1>8. \A t \in new :
        /\ t \in Task /\ t.wf = w /\ t.act = "ResolveProfile"
        /\ t.tier \in Elems(Futures(prof, "ResolveProfile"))
        /\ t.st = "waiting" /\ t.n <= MaxAttempts[t.act]
  BY ScheduledFacts DEF Activity, Bookkeeping
<1>9. \A t \in tasks : t.wf # w
  BY <1>1 DEF Inv, TypeOK, Open
<1>10. ASSUME NEW t \in new
       PROVE  TaskOK(t)'
  <2>1. Placed(t.wf, t.act, t.tier)'
    <3>1. 1 \in 1..Len(Calls(prof))
      BY <1>5
    <3> QED
      BY <1>3, <1>4, <1>5, <1>6, <1>8, <3>1 DEF Placed
  <2>2. Call(w)' = "ResolveProfile"
    BY <1>3, <1>4, <1>5 DEF Call
  <2> QED
    BY <1>8, <2>1, <2>2 DEF TaskOK
<1>11. \A t, u \in tasks' : t.wf = w /\ u.wf = w /\ t.act = u.act /\ t.tier = u.tier => t = u
  BY <1>1, <1>9, ScheduledFacts DEF Activity, Bookkeeping
<1>12. \A t \in tasks' :
         /\ t.wf # w => t \in tasks
         /\ t.wf = w => /\ t \in Task /\ g.status = "open" /\ t.n <= MaxAttempts[t.act]
                        /\ TaskOK(t)' /\ (t.st = "ok" => t \in tasks)
  BY <1>1, <1>3, <1>8, <1>9, <1>10
<1>13. g.pc <= Len(Calls(g.prof)) /\ g.run \in Known(w) \cup {None} /\ faults' \in 0..MaxFaults
  BY <1>1, <1>3, <1>5 DEF Inv, TypeOK
<1> HIDE DEF Inv, new
<1> QED
  BY <1>1, <1>2, <1>7, <1>11, <1>12, <1>13, Moved

\* The workflow is closed.
LEMMA ClosedStep ==
  ASSUME Inv, NEW w \in WfId, Open(w), NEW s \in {"completed", "failed", "canceled", "timedout"},
         NEW k \in Nat, wf' = [wf EXCEPT ![w].status = s, ![w].tried = k],
         tasks' = tasks \ TasksOf(w),
         UNCHANGED <<schedules, attempts, rows, collected, drained, latest>>,
         faults' \in 0..MaxFaults,
         s = "completed" => wf[w].pc # 0 /\ Run(w) # None /\ rows[Run(w)].status = "completed",
         s \in {"failed", "canceled"} /\ Run(w) # None =>
           /\ wf[w].pc = 0
           /\ rows[Run(w)].status # "running" \/ k = MaxAttempts["FailRun"]
  PROVE  Inv'
<1> DEFINE g == [wf[w] EXCEPT !.status = s, !.tried = k]
<1>1. /\ Exists(w) /\ wf[w] \in Wf /\ WfOK(w) /\ wf[w].pc \in Nat
      /\ wf[w].pc <= Len(Calls(wf[w].prof))
      /\ Run(w) # None => Run(w) \in Known(w)
  <2>1. Exists(w)
    BY DEF Open
  <2> QED
    BY <2>1, WfFacts DEF WfOK, Inv, TypeOK
<1>2. /\ g \in Wf /\ g.prof = wf[w].prof /\ g.pc = wf[w].pc /\ g.run = wf[w].run
      /\ g.version = wf[w].version /\ g.outcome = wf[w].outcome /\ g.status = s /\ g.tried = k
  BY <1>1 DEF Wf
<1>3. wf' = [wf EXCEPT ![w] = g]
  BY DEF Inv, TypeOK
<1> HIDE DEF g
<1>4. wf'[w] = g /\ Exists(w)'
  BY <1>2, <1>3, NoneIsNoRecord DEF Inv, TypeOK, Exists
<1>5. Steady(w)
  BY <1>1, <1>2, <1>4 DEF Steady
<1>6. WfOK(w)'
  <2>1. Run(w)' = Run(w) /\ \A n : Beyond(w, n)' <=> Beyond(w, n)
    BY <1>2, <1>4 DEF Run, Beyond
  <2>2. \A n : Behind(w, n)' <=> Behind(w, n)
    BY <1>2, <1>4, <2>1 DEF Behind, Effect, RowPinned, AllCollected
  <2>3. \A i : RowOf(w, i)' <=> RowOf(w, i)
    BY <1>2, <1>4 DEF RowOf
  <2>4. wf[w].pc # 0 => Behind(w, wf[w].pc)'
    <3>1. PICK n : n = wf[w].pc
      OBVIOUS
    <3>2. wf[w].pc # 0 => Behind(w, n)'
      BY <1>1, <2>2, <3>1 DEF WfOK
    <3> QED
      BY <1>2, <1>4, <3>1, <3>2 DEF Behind
  <2>5. Run(w) # None => RowOf(w, Run(w))'
    <3>1. PICK i : i = Run(w)
      OBVIOUS
    <3>2. Run(w) # None => RowOf(w, i)'
      BY <1>1, <2>3, <3>1 DEF WfOK
    <3> QED
      BY <2>1, <3>1, <3>2 DEF RowOf
  <2> QED
    BY <1>1, <1>2, <1>4, <2>1, <2>4, <2>5 DEF WfOK, Behind, RowOf
<1>7. \A t \in tasks' : t.wf # w /\ t \in tasks
  BY DEF TasksOf
<1>8. g.pc <= Len(Calls(g.prof)) /\ g.run \in Known(w) \cup {None}
  BY <1>1, <1>2 DEF Run
<1> HIDE DEF Inv
<1> QED
  BY <1>2, <1>3, <1>5, <1>6, <1>7, <1>8, Moved

\* FailRun is called, beside what the server keeps of the other calls.
LEMMA GiveUpStep ==
  ASSUME Inv, NEW w \in WfId, Open(w), wf[w].pc > 0, NEW o \in {"failed", "canceled"},
         NEW kept \in SUBSET TasksOf(w), GiveUp(w, o, kept),
         UNCHANGED <<schedules, attempts, rows, collected, drained, latest>>,
         faults' \in 0..MaxFaults
  PROVE  Inv'
<1>1. /\ Exists(w) /\ wf[w] \in Wf /\ WfOK(w) /\ wf[w].pc \in Nat
      /\ wf[w].prof \in Profiles /\ wf[w].status = "open"
      /\ wf[w].pc \in 1..Len(Calls(wf[w].prof)) /\ Len(Calls(wf[w].prof)) \in Nat
  <2>1. Exists(w) /\ wf[w].status = "open"
    BY DEF Open
  <2> QED
    BY <2>1, WfFacts, CallsFacts
<1>2. CASE Run(w) = None
  <2>1. /\ wf' = [wf EXCEPT ![w].status = o, ![w].tried = wf[w].tried]
        /\ tasks' = tasks \ TasksOf(w)
    <3>1. wf' = [wf EXCEPT ![w].status = o] /\ tasks' = tasks \ TasksOf(w)
      BY <1>2 DEF GiveUp, CloseAs, Run
    <3>2. [wf[w] EXCEPT !.status = o] = [wf[w] EXCEPT !.status = o, !.tried = wf[w].tried]
      BY <1>1 DEF Wf
    <3> QED
      BY <3>1, <3>2 DEF Inv, TypeOK
  <2>2. wf[w].tried \in Nat
    BY <1>1 DEF Wf
  <2> HIDE DEF Inv
  <2> QED
    BY <1>2, <2>1, <2>2, ClosedStep
<1>3. CASE Run(w) # None
  <2> DEFINE g == [wf[w] EXCEPT !.pc = 0, !.outcome = o]
             new == Scheduled(w, wf[w].prof, "FailRun")
  <2>1. /\ wf' = [wf EXCEPT ![w] = g]
        /\ tasks' = (tasks \ (TasksOf(w) \ kept)) \cup new
    BY <1>3 DEF GiveUp, Run, Inv, TypeOK
  <2>2. /\ g \in Wf /\ g.prof = wf[w].prof /\ g.pc = 0 /\ g.run = wf[w].run
        /\ g.version = wf[w].version /\ g.outcome = o /\ g.status = "open"
    BY <1>1 DEF Wf
  <2> HIDE DEF g
  <2>3. wf'[w] = g /\ Exists(w)'
    BY <2>1, <2>2, NoneIsNoRecord DEF Inv, TypeOK, Exists
  <2>4. Steady(w) /\ RowsKept(w)
    BY <1>1, <2>2, <2>3, RowsKeptSame DEF Steady
  <2>5. Run(w) \in Known(w) /\ RowOf(w, Run(w))
    BY <1>1, <1>3, WfFacts DEF WfOK
  <2>6. WfOK(w)'
    <3>1. Run(w)' = Run(w) /\ Beyond(w, 3)'
      BY <2>2, <2>3 DEF Run, Beyond
    <3>2. RowOf(w, Run(w))'
      BY <2>2, <2>3, <2>5, <3>1 DEF RowOf
    <3> QED
      BY <1>1, <1>3, <2>2, <2>3, <3>1, <3>2 DEF WfOK
  <2>7. \A t \in new :
          /\ t \in Task /\ t.wf = w /\ t.act = "FailRun" /\ t.tier = None
          /\ t.st = "waiting" /\ t.n <= MaxAttempts[t.act]
    BY <1>1, ScheduledFacts, FuturesFacts DEF Activity, Bookkeeping
  <2>8. ASSUME NEW t \in new
        PROVE  TaskOK(t)'
    BY <2>2, <2>3, <2>7 DEF TaskOK, Placed
  <2>9. ASSUME NEW t \in kept
        PROVE  /\ t \in tasks /\ t.wf = w /\ t \in Task /\ t.n <= MaxAttempts[t.act]
               /\ t.act # "FailRun" /\ TaskOK(t)'
    <3>1. t \in tasks /\ t.wf = w /\ t \in Task /\ t.n <= MaxAttempts[t.act] /\ TaskOK(t)
      BY DEF TasksOf, Inv, TypeOK
    <3>2. t.act # "FailRun"
      BY <1>1, <3>1, CallsFacts DEF TaskOK, Call
    <3>3. t.st = "ok" /\ t.act = "CreateRun" => t.res \in Known(w)
      BY <3>1 DEF TaskOK, Answered, RowOf, Known
    <3>4. Placed(w, t.act, t.tier)' /\ (t.st = "ok" => Answered(w, t.act, t.tier, t.res)')
      BY <1>1, <2>4, <3>1, <3>3, PlacedStable, AnsweredStable DEF TaskOK
    <3>5. TaskOK(t)'
      BY <2>2, <2>3, <3>1, <3>4 DEF TaskOK
    <3> QED
      BY <3>1, <3>2, <3>5
  <2>10. \A t \in tasks' : t \in new \/ t \in kept \/ (t \in tasks /\ t.wf # w)
    BY <2>1 DEF TasksOf
  <2>11. \A t \in tasks' :
           /\ t.wf # w => t \in tasks
           /\ t.wf = w => /\ t \in Task /\ g.status = "open" /\ t.n <= MaxAttempts[t.act]
                          /\ TaskOK(t)' /\ (t.st = "ok" => t \in tasks)
    BY <2>2, <2>7, <2>8, <2>9, <2>10
  <2>12. \A t, u \in tasks' : t.wf = w /\ u.wf = w /\ t.act = u.act /\ t.tier = u.tier => t = u
    <3>1. \A t, u \in new : t.tier = u.tier => t = u
      BY <1>1, ScheduledFacts DEF Activity, Bookkeeping
    <3>2. \A t, u \in tasks : t.wf = u.wf /\ t.act = u.act /\ t.tier = u.tier => t = u
      BY DEF Inv, TypeOK
    <3> QED
      BY <2>7, <2>9, <2>10, <3>1, <3>2
  <2>13. g.pc <= Len(Calls(g.prof)) /\ g.run \in Known(w) \cup {None}
    BY <1>1, <2>2, <2>5 DEF Run
  <2> HIDE DEF Inv, new
  <2> QED
    BY <2>1, <2>2, <2>4, <2>6, <2>11, <2>12, <2>13, Moved
<1> QED
  BY <1>2, <1>3

\* All futures of a call answered: the call had its effect.
LEMMA AllOkFacts ==
  ASSUME Inv, NEW w \in WfId, Open(w), wf[w].pc # 0, AllOk(w)
  PROVE  /\ Awaited(w) # {}
         /\ \A t \in Awaited(w) : t \in tasks /\ t \in Task /\ t.wf = w /\ t.act = Call(w) /\ t.st = "ok"
                                  /\ Answered(w, Call(w), t.tier, t.res)
         /\ Effect(w, Call(w))
<1> DEFINE prof == wf[w].prof
           F == Futures(prof, Call(w))
<1>1. /\ Exists(w) /\ prof \in Profiles
  <2>1. Exists(w)
    BY DEF Open
  <2> QED
    BY <2>1, WfFacts
<1>2. ASSUME NEW t \in Awaited(w)
      PROVE  /\ t \in tasks /\ t \in Task /\ t.wf = w /\ t.act = Call(w)
             /\ t.tier \in Elems(F) /\ TaskOK(t)
  <2>1. t \in tasks /\ t \in Task /\ t.wf = w /\ t.act = Call(w) /\ TaskOK(t)
    BY DEF Awaited, Inv, TypeOK
  <2>2. t.tier \in Elems(F)
    BY <1>1, <2>1, PlacedFacts DEF TaskOK
  <2> QED
    BY <2>1, <2>2
<1>3. ASSUME NEW tier \in Elems(F)
      PROVE  \E t \in Awaited(w) : t.tier = tier /\ t.st = "ok" /\ Answered(w, Call(w), tier, t.res)
  <2>1. PICK m \in DOMAIN F : tier = F[m]
    BY DEF Elems
  <2>2. PICK t \in Awaited(w) : t.tier = tier /\ t.st = "ok"
    BY <2>1 DEF AllOk, Resolved
  <2> QED
    BY <1>2, <2>2 DEF TaskOK
<1>4. ASSUME NEW t \in Awaited(w)
      PROVE  t.st = "ok" /\ Answered(w, Call(w), t.tier, t.res)
  <2>1. PICK u \in Awaited(w) : u.tier = t.tier /\ u.st = "ok" /\ Answered(w, Call(w), t.tier, u.res)
    BY <1>2, <1>3
  <2>2. u = t
    BY <1>2, <2>1 DEF Inv, TypeOK
  <2> QED
    BY <2>1, <2>2
<1>5. Elems(F) # {}
  <2>1. 1 \in DOMAIN F
    BY <1>1, FuturesFacts
  <2> HIDE DEF F
  <2> QED
    BY <2>1 DEF Elems
<1>6. Effect(w, Call(w))
  <2>1. PICK t \in Awaited(w) : Answered(w, Call(w), t.tier, t.res)
    BY <1>3, <1>5
  <2>2. Call(w) = "Phase2" => AllCollected(w)
    <3>1. SUFFICES ASSUME Call(w) = "Phase2" PROVE AllCollected(w)
      OBVIOUS
    <3>2. CASE Elems(F) = {None}
      <4>1. t.tier = None
        BY <1>2, <3>2
      <4> QED
        BY <2>1, <3>1, <4>1 DEF Answered
    <3>3. CASE Elems(F) = Elems(prof.tiers) /\ None \notin Elems(prof.tiers)
      <4>1. \A tier \in Elems(prof.tiers) : tier \in collected[Run(w)]
        BY <1>3, <3>1, <3>3 DEF Answered
      <4> QED
        BY <4>1 DEF AllCollected
    <3> QED
      BY <1>1, <3>1, <3>2, <3>3, FuturesFacts
  <2> QED
    BY <2>1, <2>2 DEF Effect, Answered
<1>7. Awaited(w) # {}
  BY <1>3, <1>5
<1> QED
  BY <1>2, <1>4, <1>6, <1>7

\* The place of an open workflow.
LEMMA OpenFacts ==
  ASSUME Inv, NEW w \in WfId, Open(w), wf[w].pc # 0
  PROVE  /\ Exists(w) /\ wf[w] \in Wf /\ WfOK(w) /\ wf[w].status = "open"
         /\ wf[w].prof \in Profiles /\ wf[w].pc \in 1..Len(Calls(wf[w].prof))
         /\ Len(Calls(wf[w].prof)) \in Nat /\ Len(Calls(wf[w].prof)) >= 6
         /\ Call(w) = Calls(wf[w].prof)[wf[w].pc] /\ Behind(w, wf[w].pc)
<1>1. Exists(w) /\ wf[w].status = "open"
  BY DEF Open
<1>2. wf[w] \in Wf /\ WfOK(w) /\ wf[w].prof \in Profiles /\ wf[w].pc \in 0..Len(Calls(wf[w].prof))
  BY <1>1, WfFacts
<1>3. Len(Calls(wf[w].prof)) \in Nat /\ Len(Calls(wf[w].prof)) >= 6
  BY <1>2, CallsFacts
<1> QED
  BY <1>1, <1>2, <1>3 DEF Call, WfOK

LEMMA ProceedStep ==
  ASSUME Inv, NEW w \in WfId, Proceed(w)
  PROVE  Inv'
<1> DEFINE prof == wf[w].prof
           C == Calls(prof)
<1>1. PICK n : n = wf[w].pc
  OBVIOUS
<1>2. PICK act : act = C[n]
  OBVIOUS
<1>3. PICK next : next = C[n + 1]
  OBVIOUS
<1> DEFINE new == Scheduled(w, prof, next)
<1>4. /\ Open(w) /\ n \in 1..(Len(C) - 1) /\ AllOk(w)
      /\ UNCHANGED <<schedules, attempts, rows, collected, drained, latest, faults>>
  BY <1>1 DEF Proceed
<1>5. /\ Exists(w) /\ wf[w] \in Wf /\ WfOK(w) /\ wf[w].status = "open"
      /\ prof \in Profiles /\ Len(C) \in Nat /\ Len(C) >= 6
      /\ Call(w) = act /\ Behind(w, n) /\ n \in 1..Len(C) /\ n + 1 \in 1..Len(C)
  BY <1>1, <1>2, <1>4, OpenFacts
<1>6. PICK t \in Awaited(w) :
        wf' = [wf EXCEPT ![w] = Kept(w, t.res)]
        /\ tasks' = (tasks \ TasksOf(w)) \cup new
  BY <1>1, <1>3 DEF Proceed
<1>7. PICK res : res = t.res
  OBVIOUS
<1>8. PICK g : g = Kept(w, res)
  OBVIOUS
<1>9. /\ t \in tasks /\ t \in Task /\ t.wf = w /\ t.act = act /\ t.st = "ok"
      /\ Answered(w, act, t.tier, res) /\ Effect(w, act)
  BY <1>1, <1>4, <1>5, <1>7, AllOkFacts
<1>10. /\ act = "CreateRun" <=> n = 2
       /\ act = "Phase0" <=> n = 3
       /\ act = "PinRunVersion" \/ act = "Phase2" \/ act \in Elems(LatePhases) => n > 3
  BY <1>2, <1>5, CallsFacts
<1>11. act = "CreateRun" => res \in Known(w) /\ res \in RunId /\ RowOf(w, res)
  BY <1>7, <1>9 DEF Answered, RowOf, Known
<1>12. act = "Phase0" => /\ res \in Version \cup {None}
                         /\ prof.version # None => res = prof.version
  BY <1>9 DEF Answered
<1>13. /\ g \in Wf /\ g.prof = prof /\ g.pc = n + 1 /\ g.status = "open"
       /\ g.outcome = wf[w].outcome
       /\ g.run = (IF act = "CreateRun" THEN res ELSE wf[w].run)
       /\ g.version = (IF act = "Phase0" THEN res ELSE wf[w].version)
  <2>1. g = [wf[w] EXCEPT !.pc = n + 1,
                          !.run = IF act = "CreateRun" THEN res ELSE wf[w].run,
                          !.version = IF act = "Phase0" THEN res ELSE wf[w].version]
    BY <1>1, <1>5, <1>8 DEF Kept
  <2>2. /\ (IF act = "CreateRun" THEN res ELSE wf[w].run) \in RunId \cup {None}
        /\ (IF act = "Phase0" THEN res ELSE wf[w].version) \in Version \cup {None}
        /\ n + 1 \in Nat
    BY <1>4, <1>5, <1>11, <1>12 DEF Wf
  <2> QED
    BY <1>5, <2>1, <2>2 DEF Wf
<1>14. /\ wf' = [wf EXCEPT ![w] = g] /\ wf'[w] = g /\ Exists(w)'
  BY <1>6, <1>7, <1>8, <1>13, NoneIsNoRecord DEF Inv, TypeOK, Exists
<1>15. /\ Beyond(w, 3) => n > 2
       /\ Beyond(w, 4) => n > 3
  BY <1>1, <1>4 DEF Beyond
<1>16. Steady(w) /\ RowsKept(w)
  BY <1>1, <1>4, <1>5, <1>10, <1>13, <1>14, <1>15, RowsKeptSame DEF Steady
<1>17. Calls(wf[w].prof)' = C
  BY <1>13, <1>14
<1>18. Behind(w, n + 1)'
  <2>1. Behind(w, n)'
    BY <1>5, <1>16, BehindStable
  <2>2. PICK CC : CC = C
    OBVIOUS
  <2>3. ASSUME NEW m \in 1..n
        PROVE  Effect(w, CC[m])'
    <3>1. CASE m = n
      <4>1. CASE n > 3
        <5>1. Beyond(w, 4)
          BY <1>1, <1>4, <4>1 DEF Beyond
        <5>2. Effect(w, act)'
          BY <1>5, <1>9, <1>16, <5>1, EffectStable
        <5> QED
          BY <1>2, <2>2, <3>1, <5>2 DEF Effect
      <4>2. CASE ~(n > 3)
        <5>1. CC[m] # "PinRunVersion" /\ CC[m] # "Phase2" /\ CC[m] \notin Elems(LatePhases)
          BY <1>2, <1>10, <2>2, <3>1, <4>2
        <5> QED
          BY <5>1 DEF Effect
      <4> QED
        BY <4>1, <4>2
    <3>2. CASE m # n
      <4>1. m \in 1..(n - 1)
        BY <1>4, <3>2
      <4>2. Calls(wf'[w].prof) = CC
        BY <1>17, <2>2
      <4> QED
        BY <2>1, <4>1, <4>2 DEF Behind
    <3> QED
      BY <3>1, <3>2
  <2>4. Calls(wf'[w].prof) = CC /\ wf'[w].pc = n + 1 /\ (n + 1) - 1 = n
    BY <1>4, <1>13, <1>14, <1>17, <2>2
  <2> QED
    BY <1>4, <2>3, <2>4 DEF Behind, Beyond
<1>19. Run(w)' = (IF act = "CreateRun" THEN res ELSE Run(w)) /\ (Beyond(w, 3)' <=> n >= 2)
  BY <1>4, <1>13, <1>14 DEF Run, Beyond
<1>20. PICK r : r = Run(w)'
  OBVIOUS
<1>21. /\ r # None <=> n >= 2
       /\ r # None => r \in Known(w) /\ RowOf(w, r)
  <2>1. CASE n = 1
    <3>1. ~Beyond(w, 3)
      BY <1>15, <2>1
    <3> QED
      BY <1>5, <1>10, <1>19, <1>20, <2>1, <3>1 DEF WfOK
  <2>2. CASE n = 2
    BY <1>10, <1>11, <1>19, <1>20, <2>2, ConstantsAssumption DEF ConstantsAssumption
  <2>3. CASE n > 2
    <3>1. Beyond(w, 3)
      BY <1>1, <1>4, <2>3 DEF Beyond
    <3> QED
      BY <1>5, <1>10, <1>19, <1>20, <2>3, <3>1, WfFacts DEF WfOK
  <2> QED
    BY <1>4, <2>1, <2>2, <2>3
<1>22. WfOK(w)'
  <2>1. r # None => RowOf(w, r)'
    BY <1>5, <1>16, <1>21, RowOfStable
  <2>2. Run(w)' # None => RowOf(w, Run(w))'
    BY <1>20, <2>1 DEF RowOf
  <2>3. Behind(w, wf[w].pc)'
    BY <1>13, <1>14, <1>18 DEF Behind
  <2>4. wf'[w].prof.version # None => wf'[w].version = wf'[w].prof.version
    BY <1>5, <1>12, <1>13, <1>14 DEF WfOK
  <2>5. wf'[w].pc # 0 /\ wf'[w].status = "open"
    BY <1>4, <1>13, <1>14
  <2> QED
    BY <1>19, <1>20, <1>21, <2>2, <2>3, <2>4, <2>5 DEF WfOK
<1>23. next \in Activity
  BY <1>3, <1>5, CallsFacts
<1>24. ASSUME NEW u \in new
       PROVE  u \in Task /\ u.wf = w /\ u.n <= MaxAttempts[u.act] /\ u.st = "waiting" /\ TaskOK(u)'
  <2>1. /\ u \in Task /\ u.wf = w /\ u.act = next /\ u.tier \in Elems(Futures(prof, next))
        /\ u.st = "waiting" /\ u.n <= MaxAttempts[next]
    BY <1>5, <1>23, ScheduledFacts
  <2>2. Placed(w, u.act, u.tier)'
    BY <1>3, <1>5, <1>13, <1>14, <1>17, <1>18, <2>1 DEF Placed
  <2>3. Call(w)' = next
    BY <1>3, <1>4, <1>13, <1>14 DEF Call
  <2> QED
    BY <2>1, <2>2, <2>3 DEF TaskOK
<1>25. \A u \in tasks' :
         /\ u.wf # w => u \in tasks
         /\ u.wf = w => /\ u \in Task /\ g.status = "open" /\ u.n <= MaxAttempts[u.act]
                        /\ TaskOK(u)' /\ (u.st = "ok" => u \in tasks)
  BY <1>6, <1>13, <1>24 DEF TasksOf
<1>26. \A u, v \in tasks' : u.wf = w /\ v.wf = w /\ u.act = v.act /\ u.tier = v.tier => u = v
  BY <1>5, <1>6, <1>23, ScheduledFacts DEF TasksOf
<1>27. g.pc <= Len(Calls(g.prof)) /\ g.run \in Known(w) \cup {None} /\ faults' \in 0..MaxFaults
  <2>1. g.run = r
    BY <1>14, <1>20 DEF Run
  <2> QED
    BY <1>4, <1>5, <1>13, <1>21, <2>1 DEF Inv, TypeOK
<1> HIDE DEF Inv, new
<1> QED
  BY <1>4, <1>13, <1>14, <1>16, <1>22, <1>25, <1>26, <1>27, Moved

LEMMA CloseAsStep ==
  ASSUME Inv, NEW w \in WfId, Open(w), NEW s \in {"completed", "timedout"}, CloseAs(w, s),
         UNCHANGED <<schedules, attempts, rows, collected, drained, latest>>,
         faults' \in 0..MaxFaults,
         s = "completed" => wf[w].pc # 0 /\ Run(w) # None /\ rows[Run(w)].status = "completed"
  PROVE  Inv'
<1>1. wf[w] \in Wf
  BY DEF Inv, TypeOK, Open, Exists
<1>2. wf[w].tried \in Nat
  BY <1>1 DEF Wf
<1>3. /\ wf' = [wf EXCEPT ![w].status = s, ![w].tried = wf[w].tried]
      /\ tasks' = tasks \ TasksOf(w)
  <2>1. [wf[w] EXCEPT !.status = s] = [wf[w] EXCEPT !.status = s, !.tried = wf[w].tried]
    BY <1>1 DEF Wf
  <2> QED
    BY <2>1 DEF CloseAs, Inv, TypeOK
<1> HIDE DEF Inv
<1> QED
  BY <1>2, <1>3, ClosedStep

LEMMA CompleteStep ==
  ASSUME Inv, NEW w \in WfId, Complete(w)
  PROVE  Inv'
<1>1. /\ Open(w) /\ wf[w].pc = Len(Calls(wf[w].prof)) /\ AllOk(w) /\ CloseAs(w, "completed")
      /\ UNCHANGED <<schedules, attempts, rows, collected, drained, latest, faults>>
  BY DEF Complete
<1>2. wf[w].pc # 0
  <2>1. Exists(w)
    BY <1>1 DEF Open
  <2> QED
    BY <1>1, <2>1, WfFacts, CallsFacts
<1>3. Call(w) = "CompleteRun"
  BY <1>1, <1>2, OpenFacts, CallsFacts
<1>4. rows[Run(w)].status = "completed"
  BY <1>1, <1>2, <1>3, AllOkFacts DEF Answered
<1>5. Run(w) # None
  <2>1. Beyond(w, 3)
    BY <1>1, <1>2, OpenFacts DEF Beyond
  <2> QED
    BY <1>1, <1>2, <2>1, OpenFacts DEF WfOK
<1>6. faults' \in 0..MaxFaults
  BY <1>1 DEF Inv, TypeOK
<1> HIDE DEF Inv
<1> QED
  BY <1>1, <1>2, <1>4, <1>5, <1>6, CloseAsStep

LEMMA CloseFailedStep ==
  ASSUME Inv, NEW w \in WfId, CloseFailed(w)
  PROVE  Inv'
<1>1. /\ Open(w) /\ wf[w].pc = 0 /\ tasks' = tasks \ TasksOf(w)
      /\ UNCHANGED <<schedules, attempts, rows, collected, drained, latest, faults>>
  BY DEF CloseFailed
<1>2. PICK t \in Awaited(w) :
        /\ t.st \in {"ok", "failed"}
        /\ wf' = [wf EXCEPT ![w].status = wf[w].outcome, ![w].tried = IF t.st = "ok" THEN 0 ELSE t.n]
  BY DEF CloseFailed
<1>3. PICK k : k = IF t.st = "ok" THEN 0 ELSE t.n
  OBVIOUS
<1>4. PICK s : s = wf[w].outcome
  OBVIOUS
<1>5. t \in Task /\ t.wf = w /\ t.act = "FailRun" /\ TaskOK(t)
  BY <1>1 DEF Awaited, Call, Inv, TypeOK
<1>6. k \in Nat
  BY <1>3, <1>5 DEF Task
<1>7. s \in {"failed", "canceled"}
  <2>1. Exists(w)
    BY <1>1 DEF Open
  <2>2. wf[w] \in Wf /\ WfOK(w)
    BY <2>1, WfFacts
  <2> QED
    BY <1>1, <1>4, <2>2 DEF WfOK, Wf
<1>8. rows[Run(w)].status # "running" \/ k = MaxAttempts["FailRun"]
  BY <1>2, <1>3, <1>5 DEF TaskOK, Answered
<1>9. faults' \in 0..MaxFaults
  BY <1>1 DEF Inv, TypeOK
<1>10. wf' = [wf EXCEPT ![w].status = s, ![w].tried = k]
  BY <1>2, <1>3, <1>4
<1> HIDE DEF Inv
<1> QED
  BY <1>1, <1>6, <1>7, <1>8, <1>9, <1>10, ClosedStep

LEMMA WorkflowStep ==
  ASSUME Inv, NEW w \in WfId, Workflow(w) \/ Cancel(w) \/ ExecutionTimeOut(w)
  PROVE  Inv'
<1>1. CASE Proceed(w)
  BY <1>1, ProceedStep
<1>2. CASE Complete(w)
  BY <1>2, CompleteStep
<1>3. CASE CloseFailed(w)
  BY <1>3, CloseFailedStep
<1>4. CASE SeeError(w)
  <2>1. /\ Open(w) /\ wf[w].pc > 0 /\ GiveUp(w, "failed", TasksOf(w))
        /\ UNCHANGED <<schedules, attempts, rows, collected, drained, latest, faults>>
    BY <1>4 DEF SeeError
  <2>2. faults' \in 0..MaxFaults
    BY <2>1 DEF Inv, TypeOK
  <2> HIDE DEF Inv
  <2> QED
    BY <2>1, <2>2, GiveUpStep
<1>5. CASE Cancel(w)
  <2>1. /\ Open(w) /\ wf[w].pc > 0 /\ Fault /\ GiveUp(w, "canceled", {})
        /\ UNCHANGED <<schedules, attempts, rows, collected, drained, latest>>
    BY <1>5 DEF Cancel
  <2>2. faults' \in 0..MaxFaults
    BY <2>1, FaultFacts
  <2>3. {} \in SUBSET TasksOf(w)
    OBVIOUS
  <2> HIDE DEF Inv
  <2> QED
    BY <2>1, <2>2, <2>3, GiveUpStep
<1>6. CASE ExecutionTimeOut(w)
  <2>1. /\ Open(w) /\ Fault /\ CloseAs(w, "timedout")
        /\ UNCHANGED <<schedules, attempts, rows, collected, drained, latest>>
    BY <1>6 DEF ExecutionTimeOut
  <2>2. faults' \in 0..MaxFaults
    BY <2>1, FaultFacts
  <2> HIDE DEF Inv
  <2> QED
    BY <2>1, <2>2, CloseAsStep
<1> HIDE DEF Inv
<1> QED
  BY <1>1, <1>2, <1>3, <1>4, <1>5, <1>6 DEF Workflow
-----------------------------------------------------------------------------
(* The invariant *)

LEMMA InitInv ==
  ASSUME Init
  PROVE  Inv
<1>1. /\ \A w \in WfId : wf[w] = None
      /\ tasks = {} /\ attempts = {} /\ \A i \in RunId : rows[i] = None
  BY DEF Init
<1>2. TypeOK
  <2>1. latest \in 0..MaxVersion /\ faults \in 0..MaxFaults
    BY ConstantsAssumption DEF Init, ConstantsAssumption
  <2> QED
    BY <1>1, <2>1 DEF Init, TypeOK, Exists
<1>3. OwnRuns
  BY <1>1 DEF OwnRuns, Known, Exists
<1> QED
  BY <1>1, <1>2, <1>3 DEF Inv, Exists, RunOK

LEMMA StepInv ==
  ASSUME Inv, [Next]_vars
  PROVE  Inv'
<1>1. CASE Upsert \/ NewPatch \/ UNCHANGED vars
  BY <1>1, QuietStep
<1>2. CASE \E prof \in Profiles, w \in WfId : Fire(prof, w)
  BY <1>2, FireStep
<1>3. CASE \E t \in tasks : Serve(t)
  <2>1. PICK t \in tasks : Serve(t)
    BY <1>3
  <2> HIDE DEF Inv
  <2> QED
    BY <2>1, PollStep, TimeOutLostStep DEF Serve
<1>4. CASE \E x \in attempts : Attempt(x) \/ FailAttempt(x) \/ TimeOut(x)
  <2>1. PICK x \in attempts : Attempt(x) \/ FailAttempt(x) \/ TimeOut(x)
    BY <1>4
  <2> HIDE DEF Inv
  <2> QED
    BY <2>1, PerformStep, ReportStep, ReturnStep, TimeOutStep DEF Attempt
<1>5. CASE \E w \in WfId : Workflow(w) \/ Cancel(w) \/ ExecutionTimeOut(w)
  BY <1>5, WorkflowStep
<1>6. CASE CrashWorker
  BY <1>6, CrashStep
<1> HIDE DEF Inv
<1> QED
  BY <1>1, <1>2, <1>3, <1>4, <1>5, <1>6 DEF Next

LEMMA Invariant == Spec => []Inv
<1>1. Init => Inv
  BY InitInv
<1>2. Inv /\ [Next]_vars => Inv'
  BY StepInv
<1> QED
  BY <1>1, <1>2, PTL DEF Spec
-----------------------------------------------------------------------------
(* The properties *)

\* The server never tracks one activity of a workflow twice, tracks none of a
\* workflow that is closed, and no activity is attempted more often than its retry
\* policy allows (activity options of workflow.go:29-97).
THEOREM TypeCorrect == Spec => []TypeOK
<1>1. Inv => TypeOK
  BY DEF Inv
<1> QED
  BY <1>1, Invariant, PTL

\* A run is stamped 'completed' only after every target tier was collected for it
\* and every later phase ran to its end, whatever fails, is retried, timed out,
\* cancelled or left behind as a ghost (workflow.go:228-286 and 341-359).
THEOREM CompletedIsComplete == Spec => []CompletedRunCollectedEveryTier
<1>1. Inv => CompletedRunCollectedEveryTier
  BY DEF Inv, RunOK, CompletedRunCollectedEveryTier
<1> QED
  BY <1>1, Invariant, PTL

\* Every attempt from phase 1 on works for the version its run is pinned to: the
\* one of the profile, or the one phase 0 answered and PinRunVersion wrote, and no
\* workflow pins the run of another (workflow.go:203-213).
THEOREM AttemptsAgreeOnTheVersion == Spec => []VersionPinned
<1>1. Inv => VersionPinned
  <2> SUFFICES ASSUME Inv, NEW x \in attempts, x.act \in PhaseActivity \ {"Phase0"}
               PROVE  RowPinned(x.wf)
    BY DEF VersionPinned, RowPinned, Run
  <2> DEFINE w == x.wf
             prof == wf[w].prof
             C == Calls(prof)
  <2>1. /\ w \in WfId /\ Exists(w) /\ prof \in Profiles /\ Placed(w, x.act, x.tier) /\ WfOK(w)
    BY AttemptFacts, WfFacts
  <2>2. PICK n \in 1..Len(C) : x.act = C[n] /\ Behind(w, n)
    BY <2>1 DEF Placed, PhaseActivity
  <2>3. CASE prof.version = None
    <3>1. n > 4 /\ C[4] = "PinRunVersion"
      <4>1. n > 4
        BY <2>1, <2>2, <2>3, CallsFacts
      <4>2. 4 \in 1..Len(C)
        BY <2>1, CallsFacts
      <4> QED
        BY <2>1, <2>3, <4>1, <4>2, CallsFacts
    <3>2. 4 \in 1..(n - 1)
      BY <3>1
    <3>3. Effect(w, "PinRunVersion")
      BY <2>2, <3>1, <3>2 DEF Behind
    <3> QED
      BY <3>3 DEF Effect
  <2>4. CASE prof.version # None
    <3>1. Run(w) # None
      <4>1. Beyond(w, 3)
        BY <2>1, PlacedFacts DEF PhaseActivity
      <4> QED
        BY <2>1, <4>1, WfFacts
    <3>2. rows[Run(w)].version = prof.version /\ wf[w].version = prof.version
      BY <2>1, <2>4, <3>1 DEF WfOK, RowOf
    <3> QED
      BY <2>4, <3>2 DEF RowPinned
  <2> QED
    BY <2>3, <2>4
<1> QED
  BY <1>1, Invariant, PTL

\* A workflow that returned leaves the run it knows with a final status, and a
\* completed one leaves it 'completed', unless FailRun failed in every attempt or
\* the server closed the workflow by its time-out; no late CreateRun, CompleteRun
\* or FailRun of this or another workflow takes that back (workflow.go:152-189).
THEOREM RunsAreSettled == Spec => []WorkflowSettlesItsRun
<1>1. Inv => WorkflowSettlesItsRun
  <2> SUFFICES ASSUME Inv, NEW w \in WfId, Closed(w), wf[w].run # None
               PROVE  CASE wf[w].status = "completed" -> rows[wf[w].run].status = "completed"
                        [] wf[w].status = "timedout" -> TRUE
                        [] OTHER -> \/ rows[wf[w].run].status # "running"
                                    \/ wf[w].tried = MaxAttempts["FailRun"]
    BY DEF WorkflowSettlesItsRun
  <2>1. wf[w] \in Wf /\ WfOK(w) /\ wf[w].status # "open"
    BY WfFacts DEF Closed, Open
  <2>2. wf[w].status \in {"completed", "failed", "canceled", "timedout"}
    BY <2>1 DEF Wf
  <2>3. CASE wf[w].status = "completed"
    BY <2>1, <2>3 DEF WfOK, Run
  <2>4. CASE wf[w].status = "timedout"
    BY <2>4
  <2>5. CASE wf[w].status \in {"failed", "canceled"}
    BY <2>1, <2>5 DEF WfOK, Run
  <2> QED
    BY <2>2, <2>3, <2>4, <2>5
<1> QED
  BY <1>1, Invariant, PTL
=============================================================================
