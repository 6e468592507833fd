-------------------------- MODULE PlayerSyncProofs --------------------------
(***************************************************************************)
(* What PlayerSync promises, for any number of runs, players, ticks,       *)
(* patches and failures.                                                   *)
(*                                                                         *)
(* The invariants: Versions (there is a newest version, and a next one     *)
(* after each that has one), OneRun, Pinned (what a run knows of the       *)
(* versions), Collects (a match of the window is stored or still on the    *)
(* list of the player), Covered (the window behind a sync time) and Serves *)
(* (what became of every player of the run).  Labels comes on top of them  *)
(* and needs NoGap whenever a window is opened.                            *)
(***************************************************************************)
EXTENDS PlayerSync, TLAPS

HasMin(S) == \E v \in S : \A u \in S : v <= u
HasMax(S) == \E v \in S : \A u \in S : u <= v
Later(k) == {v \in known : v > k}
Until(k) == {v \in released : v <= k}

Versions ==
  /\ released \subseteq 0..now /\ HasMax(released)
  /\ \A k \in Time : Until(k) # {} => HasMax(Until(k))
  /\ \A k \in Time : Later(k) # {} => HasMin(Later(k))

OneRun ==
  \A r, s \in RunId : runs[r].status = "active" /\ runs[s].status = "active" => r = s

\* The list of phase 0 has every version released before the run started, and
\* from the end of phase 0 on the run has a version and knows the list.  Before
\* phase 2 it has no player in hand.
Pinned(r) ==
  /\ runs[r].started <= now
  /\ runs[r].list \subseteq released
  /\ runs[r].version \in released \cup {None}
  /\ runs[r].status = "new" => runs[r].pc = "fetch"
  /\ runs[r].status = "new" \/ (runs[r].status = "active" /\ runs[r].pc # "players") =>
       runs[r].player = None /\ runs[r].ids = {}
  /\ runs[r].pc # "fetch" =>
       HasMax(runs[r].list) /\ \A v \in released \ runs[r].list : v > runs[r].started
  /\ runs[r].pc \in {"window", "players"} =>
       runs[r].version # None /\ runs[r].list \subseteq known

\* A window of run r.
IsWindow(r, from, to) ==
  /\ from = runs[r].version /\ to <= now
  /\ to = runs[r].started \/ (to \in released /\ to > runs[r].version)

Collects(r) ==
  At(r, "players") =>
    /\ IsWindow(r, runs[r].from, runs[r].to)
    /\ runs[r].player = None => runs[r].ids = {}
    /\ runs[r].player # None =>
         \A t \in Time : runs[r].from <= t /\ t < runs[r].to =>
           label[<<runs[r].player, t>>] # None \/ <<runs[r].player, t>> \in runs[r].ids

Covered(q) ==
  /\ sync[q] # None <=> coverage[q] # None
  /\ coverage[q] # None =>
       /\ \A t \in Time : coverage[q].from <= t /\ t < coverage[q].to => label[<<q, t>>] # None
       /\ runs[coverage[q].run].pc \in {"window", "players"}
       /\ IsWindow(coverage[q].run, coverage[q].from, coverage[q].to)

Served(r, q) ==
  \/ coverage[q] # None /\ coverage[q].run # r /\ sync[q] >= runs[r].started
  \/ \A t \in Time : runs[r].version <= t /\ t < runs[r].started /\ PatchOf(t) = runs[r].version =>
       label[<<q, t>>] # None

Serves(r) ==
  At(r, "players") => \A q \in runs[r].active :
    q \in runs[r].todo \/ q = runs[r].player \/ q \in runs[r].failed \/ Served(r, q)

IInv ==
  /\ TypeOK /\ Versions /\ OneRun
  /\ \A r \in RunId : Pinned(r) /\ Collects(r) /\ Serves(r)
  /\ \A q \in Player : Covered(q)

-----------------------------------------------------------------------------
(* Steps of one run *)

\* Run r becomes x, the others stay as they are.
Becomes(r, x) ==
  /\ x \in Run /\ runs' \in [RunId -> Run] /\ runs'[r] = x
  /\ \A s \in RunId \ {r} : runs'[s] = runs[s]

LEMMA BecomesFrom ==
  ASSUME TypeOK, NEW r \in RunId, NEW x \in Run, runs' = [runs EXCEPT ![r] = x]
  PROVE  Becomes(r, x)
BY DEF TypeOK, Becomes

LEMMA RunFacts ==
  ASSUME TypeOK, NEW r \in RunId
  PROVE  runs[r] \in Run
BY DEF TypeOK

\* Time, versions and labels only grow, and a new version comes after now.
Grows ==
  /\ now' \in Time /\ now <= now'
  /\ released' \subseteq Time /\ released \subseteq released'
  /\ \A v \in released' : v \in released \/ v > now
  /\ known \subseteq known'
  /\ label' \in [Match -> Time \cup {None}]
  /\ \A m \in Match : label[m] # None => label'[m] = label[m]

LEMMA TimesAreNumbers == Time \subseteq Nat /\ None \notin Time
BY ConstantsAssumption DEF Time, ConstantsAssumption

LEMMA SameGrows ==
  ASSUME TypeOK, UNCHANGED <<now, released, known, label>>
  PROVE  Grows
BY TimesAreNumbers DEF TypeOK, Grows

LEMMA PatchLasts ==
  ASSUME TypeOK, Grows, NEW t \in Time, t <= now
  PROVE  PatchOf(t)' = PatchOf(t)
<1>1. now \in Nat /\ t \in Nat /\ released' \subseteq Nat
      /\ \A v \in released' : v \in released \/ v > now
  BY TimesAreNumbers DEF TypeOK, Grows
<1>2. {v \in released' : v <= t} = {v \in released : v <= t}
  <2>1. \A v \in released : v \in released'
    BY DEF Grows
  <2>2. \A v \in released : v \in Nat
    BY TimesAreNumbers DEF TypeOK
  <2>3. ASSUME NEW v \in released', v <= t
        PROVE  v \in released
    <3>1. v \in Nat /\ ~(v > now)
      BY <2>3, <1>1
    <3> QED
      BY <3>1, <1>1
  <2> QED
    BY <2>1, <2>3
<1> QED
  BY <1>2 DEF PatchOf, Newest

-----------------------------------------------------------------------------
(* What lasts while time goes on *)

LEMMA WindowLasts ==
  ASSUME TypeOK, Grows, NEW r \in RunId, NEW from, NEW to \in Time, IsWindow(r, from, to),
         runs'[r].version = runs[r].version, runs'[r].started = runs[r].started
  PROVE  IsWindow(r, from, to)'
<1>1. now \in Nat /\ now' \in Nat /\ to \in Nat
  BY TimesAreNumbers DEF TypeOK, Grows
<1> QED
  BY <1>1 DEF IsWindow, Grows

LEMMA PinnedLasts ==
  ASSUME TypeOK, Grows, NEW r \in RunId, Pinned(r), runs'[r] = runs[r]
  PROVE  Pinned(r)'
<1>1. /\ now \in Nat /\ now' \in Nat /\ runs[r].started \in Nat /\ released' \subseteq Nat
      /\ runs[r].started <= now
  BY TimesAreNumbers, RunFacts DEF TypeOK, Grows, Run, Pinned
<1>2. runs[r].started <= now'
  BY <1>1 DEF Grows
<1>3. ASSUME runs[r].pc # "fetch", NEW v \in released' \ runs[r].list
      PROVE  v > runs[r].started
  <2>1. v \in released \/ v > now
    BY DEF Grows
  <2> QED
    BY <2>1, <1>1, <1>3 DEF Pinned
<1>4. /\ runs[r].list \subseteq released' /\ runs[r].version \in released' \cup {None}
      /\ runs[r].pc # "fetch" => HasMax(runs[r].list)
      /\ runs[r].pc \in {"window", "players"} =>
           runs[r].version # None /\ runs[r].list \subseteq known'
      /\ runs[r].status = "new" => runs[r].pc = "fetch"
      /\ runs[r].status = "new" \/ (runs[r].status = "active" /\ runs[r].pc # "players") =>
           runs[r].player = None /\ runs[r].ids = {}
  BY DEF Pinned, Grows
<1> QED
  BY <1>2, <1>3, <1>4 DEF Pinned, HasMax

LEMMA CollectsLasts ==
  ASSUME TypeOK, Grows, NEW r \in RunId, Collects(r), runs'[r] = runs[r]
  PROVE  Collects(r)'
<1> SUFFICES ASSUME At(r, "players")
             PROVE  /\ IsWindow(r, runs[r].from, runs[r].to)'
                    /\ runs[r].player = None => runs[r].ids = {}
                    /\ runs[r].player # None =>
                         \A t \in Time : runs[r].from <= t /\ t < runs[r].to =>
                           label'[<<runs[r].player, t>>] # None \/ <<runs[r].player, t>> \in runs[r].ids
  BY DEF Collects, At, IsWindow
<1>1. runs[r] \in Run
  BY RunFacts
<1>2. IsWindow(r, runs[r].from, runs[r].to)'
  <2>1. runs[r].to \in Time /\ IsWindow(r, runs[r].from, runs[r].to)
    BY <1>1 DEF Run, Collects
  <2>2. ASSUME NEW from, from = runs[r].from, NEW to \in Time, to = runs[r].to
        PROVE  IsWindow(r, from, to)'
    BY <2>1, <2>2, WindowLasts
  <2> QED
    BY <2>1, <2>2 DEF IsWindow
<1>3. ASSUME runs[r].player # None, NEW t \in Time, runs[r].from <= t, t < runs[r].to
      PROVE  label'[<<runs[r].player, t>>] # None \/ <<runs[r].player, t>> \in runs[r].ids
  <2>1. <<runs[r].player, t>> \in Match
    BY <1>1, <1>3 DEF Run, Match
  <2> QED
    BY <2>1, <1>3 DEF Collects, Grows
<1> QED
  BY <1>2, <1>3 DEF Collects

LEMMA CoveredLasts ==
  ASSUME TypeOK, Grows, NEW q \in Player, Covered(q), coverage'[q] = coverage[q], sync'[q] = sync[q],
         coverage[q] # None =>
           LET r == coverage[q].run
           IN  /\ runs'[r].pc \in {"window", "players"}
               /\ runs'[r].version = runs[r].version /\ runs'[r].started = runs[r].started
  PROVE  Covered(q)'
<1>1. CASE coverage[q] = None
  BY <1>1 DEF Covered
<1>2. CASE coverage[q] # None
  <2> DEFINE c == coverage[q]
  <2>1. c \in Window
    BY <1>2 DEF TypeOK
  <2>2. IsWindow(c.run, c.from, c.to)
    BY <1>2 DEF Covered
  <2>3. ASSUME NEW r \in RunId, r = c.run, NEW from, from = c.from, NEW to \in Time, to = c.to
        PROVE  IsWindow(r, from, to)'
    BY <2>2, <2>3, <1>2, WindowLasts
  <2>4. IsWindow(c.run, c.from, c.to)'
    BY <2>1, <2>3 DEF Window, IsWindow
  <2>5. \A t \in Time : c.from <= t /\ t < c.to => label'[<<q, t>>] # None
    BY <1>2 DEF Covered, Grows, Match
  <2> QED
    BY <1>2, <2>4, <2>5 DEF Covered, IsWindow
<1> QED
  BY <1>1, <1>2

LEMMA ServedLasts ==
  ASSUME TypeOK, Grows, NEW r \in RunId, NEW q \in Player, Served(r, q), runs[r].started <= now,
         coverage'[q] = coverage[q], sync'[q] = sync[q],
         runs'[r].version = runs[r].version, runs'[r].started = runs[r].started
  PROVE  Served(r, q)'
<1>1. CASE coverage[q] # None /\ coverage[q].run # r /\ sync[q] >= runs[r].started
  BY <1>1 DEF Served
<1>2. CASE \A t \in Time : runs[r].version <= t /\ t < runs[r].started /\ PatchOf(t) = runs[r].version =>
             label[<<q, t>>] # None
  <2>1. ASSUME NEW t \in Time, runs[r].version <= t, t < runs[r].started, PatchOf(t)' = runs[r].version
        PROVE  label'[<<q, t>>] # None
    <3>1. runs[r].started \in Nat /\ t \in Nat /\ now \in Nat
      BY TimesAreNumbers, RunFacts DEF TypeOK, Run
    <3>2. PatchOf(t)' = PatchOf(t)
      BY <2>1, <3>1, PatchLasts
    <3> QED
      BY <1>2, <2>1, <3>2 DEF Grows, Match
  <2> QED
    BY <2>1 DEF Served
<1> QED
  BY <1>1, <1>2 DEF Served

LEMMA ServesLasts ==
  ASSUME TypeOK, Grows, NEW r \in RunId, Serves(r), runs'[r] = runs[r], runs[r].started <= now,
         UNCHANGED <<coverage, sync>>
  PROVE  Serves(r)'
<1> SUFFICES ASSUME At(r, "players"), NEW q \in runs[r].active
             PROVE  \/ q \in runs[r].todo \/ q = runs[r].player \/ q \in runs[r].failed
                    \/ Served(r, q)'
  BY DEF Serves, At
<1>1. q \in Player
  BY RunFacts DEF Run
<1> QED
  BY <1>1, ServedLasts DEF Serves

LEMMA OnlyRun ==
  ASSUME IInv, Grows, NEW r \in RunId, NEW x, Becomes(r, x), TypeOK', Versions',
         Pinned(r)', Collects(r)', Serves(r)', UNCHANGED <<coverage, sync>>,
         x.status = "active" => runs[r].status = "active" \/ Idle,
         runs[r].pc \in {"window", "players"} =>
           /\ x.pc \in {"window", "players"}
           /\ x.version = runs[r].version /\ x.started = runs[r].started
  PROVE  IInv'
<1>1. /\ TypeOK /\ OneRun /\ \A s \in RunId : Pinned(s) /\ Collects(s) /\ Serves(s)
      /\ \A q \in Player : Covered(q)
      /\ runs'[r] = x /\ \A s \in RunId \ {r} : runs'[s] = runs[s]
  BY DEF IInv, Becomes
<1>2. OneRun'
  BY <1>1 DEF OneRun, Idle
<1>3. ASSUME NEW s \in RunId
      PROVE  Pinned(s)' /\ Collects(s)' /\ Serves(s)'
  <2>1. CASE s = r
    BY <2>1
  <2>2. CASE s # r
    <3>1. runs'[s] = runs[s] /\ Pinned(s) /\ Collects(s) /\ Serves(s) /\ runs[s].started <= now
      BY <1>1, <2>2 DEF Pinned
    <3> QED
      BY <1>1, <3>1, PinnedLasts, CollectsLasts, ServesLasts
  <2> QED
    BY <2>1, <2>2
<1>4. ASSUME NEW q \in Player
      PROVE  Covered(q)'
  <2>1. Covered(q) /\ coverage'[q] = coverage[q] /\ sync'[q] = sync[q]
    BY <1>1
  <2>2. ASSUME coverage[q] # None
        PROVE  LET c == coverage[q].run
               IN  /\ runs'[c].pc \in {"window", "players"}
                   /\ runs'[c].version = runs[c].version /\ runs'[c].started = runs[c].started
    <3>1. coverage[q].run \in RunId /\ runs[coverage[q].run].pc \in {"window", "players"}
      BY <1>1, <2>1, <2>2 DEF TypeOK, Window, Covered
    <3> QED
      BY <1>1, <3>1
  <2> QED
    BY <1>1, <2>1, <2>2, CoveredLasts
<1> QED
  BY <1>2, <1>3, <1>4 DEF IInv

\* What the steps of a run need of the invariant.
LEMMA InvFacts ==
  ASSUME IInv, NEW r \in RunId
  PROVE  /\ TypeOK /\ Versions /\ Pinned(r) /\ Collects(r) /\ Serves(r)
         /\ runs[r] \in Run /\ now \in Nat /\ runs[r].started \in Nat /\ runs[r].started <= now
         /\ released \subseteq Nat /\ Time \subseteq Nat /\ None \notin Time
BY RunFacts, TimesAreNumbers DEF IInv, Pinned, TypeOK, Run

-----------------------------------------------------------------------------
(* Every step keeps the invariant *)

LEMMA StartRunKeeps ==
  ASSUME IInv, NEW r \in RunId, NEW version \in released \cup {None}, StartRun(r, version)
  PROVE  IInv'
<1> DEFINE x == [runs[r] EXCEPT !.status = "active", !.started = now + 1, !.version = version]
<1>1. /\ TypeOK /\ Versions /\ Pinned(r) /\ runs[r] \in Run /\ now \in Nat /\ released \subseteq Nat
      /\ runs[r].started \in Nat /\ Time \subseteq Nat
  BY InvFacts
<1>2. /\ now < MaxTime /\ now' = now + 1 /\ Idle /\ runs[r].status = "new" /\ runs[r].pc = "fetch"
      /\ UNCHANGED <<released, known, label, sync, coverage, faults>>
  BY <1>1 DEF StartRun, Pinned
<1>3. now' \in Time /\ now + 1 \in Time
  BY <1>1, <1>2, ConstantsAssumption DEF Time, ConstantsAssumption
<1>4. /\ x \in Run /\ x.status = "active" /\ x.pc = "fetch" /\ x.started = now + 1
      /\ x.version = version /\ x.list = runs[r].list
      /\ x.player = runs[r].player /\ x.ids = runs[r].ids
  BY <1>1, <1>2, <1>3 DEF Run, TypeOK
<1>5. runs' = [runs EXCEPT ![r] = x]
  BY DEF StartRun
<1> HIDE DEF x
<1>6. Becomes(r, x) /\ runs'[r] = x
  BY <1>1, <1>4, <1>5, BecomesFrom DEF Becomes
<1>7. Grows
  BY <1>1, <1>2, <1>3 DEF Grows, TypeOK
<1>8. TypeOK'
  BY <1>1, <1>2, <1>3, <1>6 DEF TypeOK, Becomes
<1>9. Versions'
  <2>1. released \subseteq 0..now'
    BY <1>1, <1>2 DEF Versions
  <2> QED
    BY <1>1, <1>2, <2>1 DEF Versions, HasMax, HasMin, Later, Until
<1>10. Pinned(r)'
  BY <1>1, <1>2, <1>4, <1>6 DEF Pinned
<1>11. Collects(r)' /\ Serves(r)'
  BY <1>4, <1>6 DEF Collects, Serves, At
<1> QED
  BY <1>2, <1>4, <1>6, <1>7, <1>8, <1>9, <1>10, <1>11, OnlyRun

LEMMA InterruptKeeps ==
  ASSUME IInv, NEW r \in RunId, NEW status \in {"failed", "parked"}, Interrupt(r, status)
  PROVE  IInv'
<1> DEFINE x == [runs[r] EXCEPT !.status = status]
<1>1. TypeOK /\ Versions /\ Pinned(r) /\ runs[r] \in Run
  BY InvFacts
<1>2. /\ UNCHANGED <<now, released, known, label, sync, coverage>> /\ runs[r].status = "active"
      /\ faults' \in 0..MaxFaults
  BY <1>1, ConstantsAssumption DEF Interrupt, Fault, TypeOK, ConstantsAssumption
<1>3. /\ x \in Run /\ x.status = status /\ x.pc = runs[r].pc /\ x.started = runs[r].started
      /\ x.version = runs[r].version /\ x.list = runs[r].list
  BY <1>1 DEF Run
<1>4. runs' = [runs EXCEPT ![r] = x]
  BY DEF Interrupt
<1> HIDE DEF x
<1>5. Becomes(r, x) /\ runs'[r] = x
  BY <1>1, <1>3, <1>4, BecomesFrom DEF Becomes
<1>6. Grows
  BY <1>1, <1>2, SameGrows
<1>7. TypeOK' /\ Versions'
  BY <1>1, <1>2, <1>5 DEF TypeOK, Becomes, Versions, Later, Until
<1>8. Pinned(r)' /\ Collects(r)' /\ Serves(r)'
  BY <1>1, <1>2, <1>3, <1>5 DEF Pinned, Collects, Serves, At
<1> QED
  BY <1>2, <1>3, <1>5, <1>6, <1>7, <1>8, OnlyRun

LEMMA ResumeKeeps ==
  ASSUME IInv, NEW r \in RunId, Resume(r)
  PROVE  IInv'
<1> DEFINE pc == IF runs[r].pc \in {"fetch", "insert"} THEN "fetch" ELSE "window"
           x == [runs[r] EXCEPT !.status = "active", !.player = None, !.ids = {}, !.pc = pc]
<1>1. TypeOK /\ Versions /\ Pinned(r) /\ runs[r] \in Run
  BY InvFacts
<1>2. UNCHANGED <<now, released, known, label, sync, coverage, faults>> /\ Idle
  BY DEF Resume
<1>3. /\ x \in Run /\ x.status = "active" /\ x.pc = pc /\ x.started = runs[r].started
      /\ x.version = runs[r].version /\ x.list = runs[r].list /\ x.player = None /\ x.ids = {}
  BY <1>1 DEF Run
<1>4. runs' = [runs EXCEPT ![r] = x]
  BY DEF Resume
<1> HIDE DEF x
<1>5. Becomes(r, x) /\ runs'[r] = x
  BY <1>1, <1>3, <1>4, BecomesFrom DEF Becomes
<1>6. Grows
  BY <1>1, <1>2, SameGrows
<1>7. TypeOK' /\ Versions'
  BY <1>1, <1>2, <1>5 DEF TypeOK, Becomes, Versions, Later, Until
<1>8. runs[r].pc \in {"fetch", "insert", "window", "players"}
  BY <1>1 DEF Run
<1>9. Pinned(r)' /\ Collects(r)' /\ Serves(r)'
  BY <1>1, <1>2, <1>3, <1>5, <1>8 DEF Pinned, Collects, Serves, At
<1> QED
  BY <1>2, <1>3, <1>5, <1>6, <1>7, <1>9, OnlyRun

LEMMA CompleteKeeps ==
  ASSUME IInv, NEW r \in RunId, Complete(r)
  PROVE  IInv'
<1> DEFINE x == [runs[r] EXCEPT !.status = "completed"]
<1>1. TypeOK /\ Versions /\ Pinned(r) /\ runs[r] \in Run
  BY InvFacts
<1>2. UNCHANGED <<now, released, known, label, sync, coverage, faults>>
  BY DEF Complete
<1>3. /\ x \in Run /\ x.status = "completed" /\ x.pc = runs[r].pc /\ x.started = runs[r].started
      /\ x.version = runs[r].version /\ x.list = runs[r].list
  BY <1>1 DEF Run
<1>4. runs' = [runs EXCEPT ![r] = x]
  BY DEF Complete
<1> HIDE DEF x
<1>5. Becomes(r, x) /\ runs'[r] = x
  BY <1>1, <1>3, <1>4, BecomesFrom DEF Becomes
<1>6. Grows
  BY <1>1, <1>2, SameGrows
<1>7. TypeOK' /\ Versions'
  BY <1>1, <1>2, <1>5 DEF TypeOK, Becomes, Versions, Later, Until
<1>8. Pinned(r)' /\ Collects(r)' /\ Serves(r)'
  BY <1>1, <1>2, <1>3, <1>5 DEF Pinned, Collects, Serves, At, Complete
<1> QED
  BY <1>2, <1>3, <1>5, <1>6, <1>7, <1>8, OnlyRun

LEMMA GetAllVersionsKeeps ==
  ASSUME IInv, NEW r \in RunId, GetAllVersions(r)
  PROVE  IInv'
<1> DEFINE x == [runs[r] EXCEPT !.pc = "insert", !.list = released]
<1>1. TypeOK /\ Versions /\ Pinned(r) /\ runs[r] \in Run
  BY InvFacts
<1>2. /\ UNCHANGED <<now, released, known, label, sync, coverage, faults>>
      /\ runs[r].status = "active" /\ runs[r].pc = "fetch"
  BY DEF GetAllVersions, At
<1>3. /\ x \in Run /\ x.status = "active" /\ x.pc = "insert" /\ x.started = runs[r].started
      /\ x.version = runs[r].version /\ x.list = released
      /\ x.player = runs[r].player /\ x.ids = runs[r].ids
  BY <1>1, <1>2 DEF Run, TypeOK
<1>4. runs' = [runs EXCEPT ![r] = x]
  BY DEF GetAllVersions
<1> HIDE DEF x
<1>5. Becomes(r, x) /\ runs'[r] = x
  BY <1>1, <1>3, <1>4, BecomesFrom DEF Becomes
<1>6. Grows
  BY <1>1, <1>2, SameGrows
<1>7. TypeOK' /\ Versions'
  BY <1>1, <1>2, <1>5 DEF TypeOK, Becomes, Versions, Later, Until
<1>8. Pinned(r)' /\ Collects(r)' /\ Serves(r)'
  BY <1>1, <1>2, <1>3, <1>5 DEF Pinned, Collects, Serves, At, Versions
<1> QED
  BY <1>2, <1>3, <1>5, <1>6, <1>7, <1>8, OnlyRun

LEMMA NewestIsThere ==
  ASSUME NEW S, HasMax(S)
  PROVE  Newest(S) \in S /\ \A u \in S : u <= Newest(S)
BY DEF HasMax, Newest

LEMMA PinVersionKeeps ==
  ASSUME IInv, NEW r \in RunId, NEW active \in SUBSET Player, PinVersion(r, active)
  PROVE  IInv'
<1> DEFINE version == IF runs[r].version = None THEN Newest(runs[r].list) ELSE runs[r].version
           x == [runs[r] EXCEPT !.pc = "window", !.active = active, !.version = version]
<1>1. TypeOK /\ Versions /\ Pinned(r) /\ runs[r] \in Run /\ None \notin Time
  BY InvFacts
<1>2. /\ UNCHANGED <<now, released, known, label, sync, coverage, faults>>
      /\ runs[r].status = "active" /\ runs[r].pc = "insert" /\ runs[r].list \subseteq known
  BY DEF PinVersion, At
<1>3. version \in released /\ version \in Time /\ version # None
  BY <1>1, <1>2, NewestIsThere DEF Pinned, TypeOK
<1> HIDE DEF version
<1>4. /\ x \in Run /\ x.status = "active" /\ x.pc = "window" /\ x.started = runs[r].started
      /\ x.version = version /\ x.list = runs[r].list
      /\ x.player = runs[r].player /\ x.ids = runs[r].ids
  BY <1>1, <1>2, <1>3 DEF Run
<1>5. runs' = [runs EXCEPT ![r] = x]
  BY DEF PinVersion, version
<1> HIDE DEF x
<1>6. Becomes(r, x) /\ runs'[r] = x
  BY <1>1, <1>4, <1>5, BecomesFrom DEF Becomes
<1>7. Grows
  BY <1>1, <1>2, SameGrows
<1>8. TypeOK' /\ Versions'
  BY <1>1, <1>2, <1>6 DEF TypeOK, Becomes, Versions, Later, Until
<1>9. Pinned(r)' /\ Collects(r)' /\ Serves(r)'
  BY <1>1, <1>2, <1>3, <1>4, <1>6 DEF Pinned, Collects, Serves, At
<1> QED
  BY <1>2, <1>4, <1>6, <1>7, <1>8, <1>9, OnlyRun

\* The end of the window of r does not cut off a match of its version that was
\* played before r started.
LEMMA WindowCovers ==
  ASSUME IInv, NEW r \in RunId, NEW from, NEW to \in Time, IsWindow(r, from, to),
         runs[r].version # None, NEW t \in Time, runs[r].version <= t, t < runs[r].started,
         PatchOf(t) = runs[r].version
  PROVE  from <= t /\ t < to
<1>1. /\ TypeOK /\ Versions /\ Pinned(r) /\ runs[r] \in Run /\ released \subseteq Nat /\ Time \subseteq Nat
      /\ runs[r].started \in Nat
  BY InvFacts
<1>2. runs[r].version \in released /\ runs[r].version \in Nat /\ t \in Nat /\ to \in Nat
  BY <1>1 DEF Pinned
<1>3. CASE to = runs[r].started
  BY <1>3 DEF IsWindow
<1>4. CASE to \in released /\ to > runs[r].version
  <2>1. HasMax(Until(t))
    BY <1>1, <1>2 DEF Until, Versions
  <2>2. \A v \in Until(t) : v <= runs[r].version
    BY <2>1, NewestIsThere DEF PatchOf, Until
  <2>3. to \notin Until(t)
    BY <1>2, <1>4, <2>2
  <2> QED
    BY <1>2, <1>4, <2>3 DEF IsWindow, Until
<1> QED
  BY <1>3, <1>4 DEF IsWindow

LEMMA EndTimeFacts ==
  ASSUME IInv, NEW r \in RunId, runs[r].version # None
  PROVE  /\ EndTime(r) \in Time /\ IsWindow(r, runs[r].version, EndTime(r))
         /\ Later(runs[r].version) = {} => EndTime(r) = runs[r].started
         /\ Later(runs[r].version) # {} =>
              \A v \in Later(runs[r].version) : EndTime(r) <= v
<1> DEFINE later == Later(runs[r].version)
<1>1. /\ TypeOK /\ Versions /\ Pinned(r) /\ runs[r] \in Run /\ now \in Nat /\ runs[r].started <= now
      /\ Time \subseteq Nat
  BY InvFacts
<1>2. runs[r].version \in Time /\ runs[r].started \in Time
  BY <1>1 DEF Run
<1>3. EndTime(r) = IF later = {} THEN runs[r].started ELSE CHOOSE v \in later : \A u \in later : v <= u
  BY DEF EndTime, Later
<1>4. CASE later = {}
  BY <1>1, <1>2, <1>3, <1>4 DEF IsWindow
<1>5. CASE later # {}
  <2>1. HasMin(later)
    BY <1>1, <1>2, <1>5 DEF Versions
  <2>2. EndTime(r) \in later /\ \A u \in later : EndTime(r) <= u
    BY <1>3, <1>5, <2>1 DEF HasMin
  <2>3. EndTime(r) \in released /\ EndTime(r) > runs[r].version /\ EndTime(r) \in Time /\ EndTime(r) <= now
    <3>1. released \subseteq 0..now /\ known \subseteq released /\ released \subseteq Time
      BY <1>1 DEF TypeOK, Versions
    <3>2. EndTime(r) \in known /\ EndTime(r) > runs[r].version
      BY <2>2 DEF Later
    <3>3. EndTime(r) \in 0..now /\ EndTime(r) \in released /\ EndTime(r) \in Time
      BY <3>1, <3>2
    <3> QED
      BY <1>1, <3>2, <3>3
  <2> QED
    BY <1>5, <2>2, <2>3 DEF IsWindow
<1> QED
  BY <1>4, <1>5

LEMMA OpenWindowKeeps ==
  ASSUME IInv, NEW r \in RunId, OpenWindow(r)
  PROVE  IInv'
<1> DEFINE x == [runs[r] EXCEPT !.pc = "players", !.todo = runs[r].active, !.failed = {},
                                !.from = runs[r].version, !.to = EndTime(r)]
<1>1. TypeOK /\ Versions /\ Pinned(r) /\ runs[r] \in Run
  BY InvFacts
<1>2. /\ UNCHANGED <<now, released, known, label, sync, coverage, faults>>
      /\ runs[r].status = "active" /\ runs[r].pc = "window" /\ runs[r].version # None
      /\ runs[r].player = None /\ runs[r].ids = {}
  BY <1>1 DEF OpenWindow, At, Pinned
<1>3. EndTime(r) \in Time /\ IsWindow(r, runs[r].version, EndTime(r)) /\ runs[r].version \in Time
  BY <1>1, <1>2, EndTimeFacts DEF Run
<1>4. /\ x \in Run /\ x.status = "active" /\ x.pc = "players" /\ x.started = runs[r].started
      /\ x.version = runs[r].version /\ x.list = runs[r].list /\ x.active = runs[r].active
      /\ x.player = None /\ x.ids = {} /\ x.todo = runs[r].active
      /\ x.from = runs[r].version /\ x.to = EndTime(r)
  BY <1>1, <1>2, <1>3 DEF Run
<1>5. runs' = [runs EXCEPT ![r] = x]
  BY DEF OpenWindow, GetActivePUUIDsByTiers
<1> HIDE DEF x
<1>6. Becomes(r, x) /\ runs'[r] = x
  BY <1>1, <1>4, <1>5, BecomesFrom DEF Becomes
<1>7. Grows
  BY <1>1, <1>2, SameGrows
<1>8. TypeOK' /\ Versions'
  BY <1>1, <1>2, <1>6 DEF TypeOK, Becomes, Versions, Later, Until
<1>9. Pinned(r)'
  BY <1>1, <1>2, <1>4, <1>6 DEF Pinned
<1>10. Collects(r)' /\ Serves(r)'
  BY <1>2, <1>3, <1>4, <1>6 DEF Collects, Serves, IsWindow
<1> QED
  BY <1>2, <1>4, <1>6, <1>7, <1>8, <1>9, <1>10, OnlyRun

\* A player that some run synced after r started needs nothing more of r.
LEMMA SyncedIsServed ==
  ASSUME IInv, NEW r \in RunId, At(r, "players"), NEW q \in Player, Synced(r, q)
  PROVE  Served(r, q)
<1>1. /\ TypeOK /\ Pinned(r) /\ Covered(q) /\ runs[r].version # None
  BY InvFacts DEF IInv, Pinned, At
<1>2. coverage[q] # None /\ coverage[q] \in Window
  BY <1>1 DEF Synced, Covered, TypeOK
<1>3. CASE coverage[q].run # r
  BY <1>2, <1>3 DEF Served, Synced
<1>4. CASE coverage[q].run = r
  <2>1. IsWindow(r, coverage[q].from, coverage[q].to) /\ coverage[q].to \in Time
    BY <1>1, <1>2, <1>4 DEF Covered, Window
  <2>2. ASSUME NEW t \in Time, runs[r].version <= t, t < runs[r].started, PatchOf(t) = runs[r].version
        PROVE  label[<<q, t>>] # None
    <3>1. coverage[q].from <= t /\ t < coverage[q].to
      BY <1>1, <2>1, <2>2, WindowCovers
    <3> QED
      BY <1>1, <1>2, <3>1 DEF Covered
  <2> QED
    BY <2>2 DEF Served
<1> QED
  BY <1>3, <1>4

LEMMA SkipKeeps ==
  ASSUME IInv, NEW r \in RunId, NEW q \in Player, Skip(r, q)
  PROVE  IInv'
<1> DEFINE x == [runs[r] EXCEPT !.todo = @ \ {q}]
<1>1. TypeOK /\ Versions /\ Pinned(r) /\ Collects(r) /\ Serves(r) /\ runs[r] \in Run
      /\ runs[r].started <= now
  BY InvFacts
<1>2. /\ UNCHANGED <<now, released, known, label, sync, coverage, faults>>
      /\ runs[r].status = "active" /\ runs[r].pc = "players" /\ At(r, "players") /\ Synced(r, q)
  BY DEF Skip, At
<1>3. /\ x \in Run /\ x.status = "active" /\ x.pc = "players" /\ x.started = runs[r].started
      /\ x.version = runs[r].version /\ x.list = runs[r].list /\ x.active = runs[r].active
      /\ x.player = runs[r].player /\ x.ids = runs[r].ids /\ x.todo = runs[r].todo \ {q}
      /\ x.from = runs[r].from /\ x.to = runs[r].to /\ x.failed = runs[r].failed
  BY <1>1, <1>2 DEF Run
<1>4. runs' = [runs EXCEPT ![r] = x]
  BY DEF Skip
<1> HIDE DEF x
<1>5. Becomes(r, x) /\ runs'[r] = x
  BY <1>1, <1>3, <1>4, BecomesFrom DEF Becomes
<1>6. Grows
  BY <1>1, <1>2, SameGrows
<1>7. TypeOK' /\ Versions'
  BY <1>1, <1>2, <1>5 DEF TypeOK, Becomes, Versions, Later, Until
<1>8. Pinned(r)' /\ Collects(r)'
  BY <1>1, <1>2, <1>3, <1>5 DEF Pinned, Collects, IsWindow, At
<1>9. Serves(r)'
  <2>1. ASSUME NEW o \in runs[r].active
        PROVE  o \in x.todo \/ o = x.player \/ o \in x.failed \/ Served(r, o)'
    <3>1. o \in runs[r].todo \ {q} \/ o = runs[r].player \/ o \in runs[r].failed \/ Served(r, o)
      BY <1>1, <1>2, <2>1, SyncedIsServed DEF Serves
    <3>2. Served(r, o) => Served(r, o)'
      BY <1>1, <1>2, <1>3, <1>5, <1>6, ServedLasts DEF Run
    <3> QED
      BY <1>3, <3>1, <3>2
  <2> QED
    BY <1>3, <1>5, <2>1 DEF Serves
<1> QED
  BY <1>2, <1>3, <1>5, <1>6, <1>7, <1>8, <1>9, OnlyRun

LEMMA ListMatchesKeeps ==
  ASSUME IInv, NEW r \in RunId, NEW q \in Player, ListMatches(r, q)
  PROVE  IInv'
<1> DEFINE ids == {<<q, t>> : t \in {u \in Time : runs[r].from <= u /\ u < runs[r].to /\ u < now}}
           x == [runs[r] EXCEPT !.player = q, !.todo = @ \ {q}, !.ids = ids]
<1>1. TypeOK /\ Versions /\ Pinned(r) /\ Collects(r) /\ Serves(r) /\ runs[r] \in Run
      /\ runs[r].started <= now /\ now \in Nat /\ Time \subseteq Nat
  BY InvFacts
<1>2. /\ UNCHANGED <<now, released, known, label, sync, coverage, faults>>
      /\ runs[r].status = "active" /\ runs[r].pc = "players" /\ At(r, "players") /\ runs[r].player = None
      /\ q \in runs[r].todo
  BY DEF ListMatches, At
<1>3. /\ ids \in SUBSET Match
      /\ \A t \in Time : runs[r].from <= t /\ t < runs[r].to /\ t < now => <<q, t>> \in ids
  BY DEF Match
<1> HIDE DEF ids
<1>4. /\ x \in Run /\ x.status = "active" /\ x.pc = "players" /\ x.started = runs[r].started
      /\ x.version = runs[r].version /\ x.list = runs[r].list /\ x.active = runs[r].active
      /\ x.player = q /\ x.ids = ids /\ x.todo = runs[r].todo \ {q}
      /\ x.from = runs[r].from /\ x.to = runs[r].to /\ x.failed = runs[r].failed
  BY <1>1, <1>2, <1>3 DEF Run
<1>5. runs' = [runs EXCEPT ![r] = x]
  BY DEF ListMatches, ids
<1> HIDE DEF x
<1>6. Becomes(r, x) /\ runs'[r] = x
  BY <1>1, <1>4, <1>5, BecomesFrom DEF Becomes
<1>7. Grows
  BY <1>1, <1>2, SameGrows
<1>8. TypeOK' /\ Versions'
  BY <1>1, <1>2, <1>6 DEF TypeOK, Becomes, Versions, Later, Until
<1>9. Pinned(r)'
  BY <1>1, <1>2, <1>4, <1>6 DEF Pinned
<1>10. Collects(r)'
  <2>1. IsWindow(r, runs[r].from, runs[r].to)
    BY <1>1, <1>2 DEF Collects
  <2>2. runs[r].to \in Nat /\ runs[r].to <= now
    BY <1>1, <2>1 DEF IsWindow, Run
  <2>3. \A t \in Time : runs[r].from <= t /\ t < runs[r].to => <<q, t>> \in ids
    BY <1>1, <1>3, <2>2
  <2>4. q # None
    BY ConstantsAssumption DEF ConstantsAssumption
  <2> QED
    BY <1>2, <1>4, <1>6, <2>1, <2>3, <2>4 DEF Collects, IsWindow
<1>11. Serves(r)'
  <2>1. ASSUME NEW o \in runs[r].active
        PROVE  o \in x.todo \/ o = x.player \/ o \in x.failed \/ Served(r, o)'
    <3>1. o \in Player /\ o # None
      BY <1>1, <2>1, ConstantsAssumption DEF Run, ConstantsAssumption
    <3>2. o \in runs[r].todo \ {q} \/ o = q \/ o \in runs[r].failed \/ Served(r, o)
      BY <1>1, <1>2, <2>1, <3>1 DEF Serves
    <3>3. Served(r, o) => Served(r, o)'
      BY <1>1, <1>2, <1>4, <1>6, <1>7, <3>1, ServedLasts
    <3> QED
      BY <1>4, <3>2, <3>3
  <2> QED
    BY <1>4, <1>6, <2>1 DEF Serves
<1> QED
  BY <1>2, <1>4, <1>6, <1>7, <1>8, <1>9, <1>10, <1>11, OnlyRun

LEMMA PlayerFailsKeeps ==
  ASSUME IInv, NEW r \in RunId, PlayerFails(r)
  PROVE  IInv'
<1> DEFINE x == [runs[r] EXCEPT !.player = None, !.ids = {}, !.failed = @ \cup {runs[r].player}]
<1>1. TypeOK /\ Versions /\ Pinned(r) /\ Collects(r) /\ Serves(r) /\ runs[r] \in Run
      /\ runs[r].started <= now
  BY InvFacts
<1>2. /\ UNCHANGED <<now, released, known, label, sync, coverage>> /\ faults' \in 0..MaxFaults
      /\ runs[r].status = "active" /\ runs[r].pc = "players" /\ At(r, "players") /\ runs[r].player # None
  BY <1>1, ConstantsAssumption DEF PlayerFails, At, Fault, TypeOK, ConstantsAssumption
<1>3. /\ x \in Run /\ x.status = "active" /\ x.pc = "players" /\ x.started = runs[r].started
      /\ x.version = runs[r].version /\ x.list = runs[r].list /\ x.active = runs[r].active
      /\ x.player = None /\ x.ids = {} /\ x.todo = runs[r].todo
      /\ x.from = runs[r].from /\ x.to = runs[r].to /\ x.failed = runs[r].failed \cup {runs[r].player}
  BY <1>1, <1>2 DEF Run
<1>4. runs' = [runs EXCEPT ![r] = x]
  BY DEF PlayerFails
<1> HIDE DEF x
<1>5. Becomes(r, x) /\ runs'[r] = x
  BY <1>1, <1>3, <1>4, BecomesFrom DEF Becomes
<1>6. Grows
  BY <1>1, <1>2, SameGrows
<1>7. TypeOK' /\ Versions'
  BY <1>1, <1>2, <1>5 DEF TypeOK, Becomes, Versions, Later, Until
<1>8. Pinned(r)' /\ Collects(r)'
  BY <1>1, <1>2, <1>3, <1>5 DEF Pinned, Collects, IsWindow, At
<1>9. Serves(r)'
  <2>1. ASSUME NEW o \in runs[r].active
        PROVE  o \in x.todo \/ o = x.player \/ o \in x.failed \/ Served(r, o)'
    <3>1. o \in runs[r].todo \/ o \in x.failed \/ Served(r, o)
      BY <1>1, <1>2, <1>3, <2>1 DEF Serves
    <3>2. Served(r, o) => Served(r, o)'
      BY <1>1, <1>2, <1>3, <1>5, <1>6, ServedLasts DEF Run
    <3> QED
      BY <1>3, <3>1, <3>2
  <2> QED
    BY <1>3, <1>5, <2>1 DEF Serves
<1> QED
  BY <1>2, <1>3, <1>5, <1>6, <1>7, <1>8, <1>9, OnlyRun

LEMMA StoreMatchKeeps ==
  ASSUME IInv, NEW r \in RunId, StoreMatch(r)
  PROVE  IInv'
<1>1. TypeOK /\ Versions /\ Pinned(r) /\ Collects(r) /\ Serves(r) /\ runs[r] \in Run
      /\ runs[r].started <= now /\ now \in Nat
  BY InvFacts
<1>2. /\ UNCHANGED <<now, released, known, sync, coverage, faults>>
      /\ runs[r].status = "active" /\ runs[r].pc = "players" /\ At(r, "players")
      /\ runs[r].version \in Time /\ runs[r].version # None
  BY <1>1 DEF StoreMatch, At, Pinned, Run
<1>3. PICK m \in runs[r].ids :
        /\ label' = [label EXCEPT ![m] = IF @ = None THEN runs[r].version ELSE @]
        /\ runs' = [runs EXCEPT ![r].ids = @ \ {m}]
  BY DEF StoreMatch
<1>4. m \in Match
  BY <1>1 DEF Run
<1>5. /\ label' \in [Match -> Time \cup {None}] /\ label'[m] # None
      /\ \A o \in Match : label[o] # None => label'[o] = label[o]
  BY <1>1, <1>2, <1>3, <1>4 DEF TypeOK
<1>6. Grows
  BY <1>1, <1>2, <1>5 DEF Grows, TypeOK
<1> DEFINE x == [runs[r] EXCEPT !.ids = @ \ {m}]
<1>7. /\ x \in Run /\ x.status = "active" /\ x.pc = "players" /\ x.started = runs[r].started
      /\ x.version = runs[r].version /\ x.list = runs[r].list /\ x.active = runs[r].active
      /\ x.player = runs[r].player /\ x.ids = runs[r].ids \ {m} /\ x.todo = runs[r].todo
      /\ x.from = runs[r].from /\ x.to = runs[r].to /\ x.failed = runs[r].failed
  BY <1>1, <1>2 DEF Run
<1>8. runs' = [runs EXCEPT ![r] = x]
  BY <1>3
<1> HIDE DEF x
<1>9. Becomes(r, x) /\ runs'[r] = x
  BY <1>1, <1>7, <1>8, BecomesFrom DEF Becomes
<1>10. TypeOK' /\ Versions'
  BY <1>1, <1>2, <1>5, <1>9 DEF TypeOK, Becomes, Versions, Later, Until
<1>11. Pinned(r)'
  BY <1>1, <1>2, <1>7, <1>9 DEF Pinned
<1>12. Collects(r)'
  <2>1. /\ IsWindow(r, runs[r].from, runs[r].to) /\ (runs[r].player = None => runs[r].ids = {})
        /\ runs[r].player # None =>
             \A t \in Time : runs[r].from <= t /\ t < runs[r].to =>
               label[<<runs[r].player, t>>] # None \/ <<runs[r].player, t>> \in runs[r].ids
    BY <1>1, <1>2 DEF Collects
  <2>2. ASSUME runs[r].player # None, NEW t \in Time, runs[r].from <= t, t < runs[r].to
        PROVE  label'[<<runs[r].player, t>>] # None \/ <<runs[r].player, t>> \in x.ids
    <3>1. <<runs[r].player, t>> \in Match
      BY <1>1, <2>2 DEF Run, Match
    <3> QED
      BY <1>5, <1>7, <2>1, <2>2, <3>1
  <2> QED
    BY <1>2, <1>7, <1>9, <2>1, <2>2 DEF Collects, IsWindow
<1>13. Serves(r)'
  <2>1. ASSUME NEW o \in runs[r].active
        PROVE  o \in x.todo \/ o = x.player \/ o \in x.failed \/ Served(r, o)'
    <3>1. o \in runs[r].todo \/ o = runs[r].player \/ o \in runs[r].failed \/ Served(r, o)
      BY <1>1, <1>2, <2>1 DEF Serves
    <3>2. Served(r, o) => Served(r, o)'
      BY <1>1, <1>2, <1>6, <1>7, <1>9, ServedLasts DEF Run
    <3> QED
      BY <1>7, <3>1, <3>2
  <2> QED
    BY <1>7, <1>9, <2>1 DEF Serves
<1> QED
  BY <1>2, <1>6, <1>7, <1>9, <1>10, <1>11, <1>12, <1>13, OnlyRun

LEMMA MarkSyncedKeeps ==
  ASSUME IInv, NEW r \in RunId, MarkSynced(r)
  PROVE  IInv'
<1> DEFINE q == runs[r].player
           c == [run |-> r, from |-> runs[r].from, to |-> runs[r].to]
           x == [runs[r] EXCEPT !.player = None]
<1>1. TypeOK /\ Versions /\ OneRun /\ Pinned(r) /\ Collects(r) /\ Serves(r) /\ runs[r] \in Run
      /\ runs[r].started <= now /\ now \in Nat /\ None \notin Time
  BY InvFacts DEF IInv
<1>2. /\ UNCHANGED <<now, released, known, label, faults>>
      /\ runs[r].status = "active" /\ runs[r].pc = "players" /\ At(r, "players")
      /\ q \in Player /\ q # None /\ runs[r].ids = {} /\ runs[r].version # None
  BY <1>1 DEF MarkSynced, At, Run, Pinned
<1>3. /\ IsWindow(r, runs[r].from, runs[r].to) /\ runs[r].from \in Time /\ runs[r].to \in Time
      /\ \A t \in Time : runs[r].from <= t /\ t < runs[r].to => label[<<q, t>>] # None
  BY <1>1, <1>2 DEF Collects, Run
<1>4. /\ c \in Window /\ c # None /\ c.run = r /\ c.from = runs[r].from /\ c.to = runs[r].to
  BY <1>3, NoneIsNoWindow DEF Window, NoneIsNoWindow
<1>5. /\ x \in Run /\ x.status = "active" /\ x.pc = "players" /\ x.started = runs[r].started
      /\ x.version = runs[r].version /\ x.list = runs[r].list /\ x.active = runs[r].active
      /\ x.player = None /\ x.ids = {} /\ x.todo = runs[r].todo
      /\ x.from = runs[r].from /\ x.to = runs[r].to /\ x.failed = runs[r].failed
  BY <1>1, <1>2 DEF Run
<1>6. /\ runs' = [runs EXCEPT ![r] = x] /\ coverage' = [coverage EXCEPT ![q] = c]
      /\ sync' = [sync EXCEPT ![q] = now]
  BY DEF MarkSynced
<1> HIDE DEF x, c
<1>7. Becomes(r, x) /\ runs'[r] = x /\ \A s \in RunId \ {r} : runs'[s] = runs[s]
  BY <1>1, <1>5, <1>6, BecomesFrom DEF Becomes
<1>8. /\ coverage' \in [Player -> Window \cup {None}] /\ coverage'[q] = c
      /\ sync' \in [Player -> Time \cup {None}] /\ sync'[q] = now
      /\ \A o \in Player \ {q} : coverage'[o] = coverage[o] /\ sync'[o] = sync[o]
  BY <1>1, <1>2, <1>4, <1>6 DEF TypeOK
<1>9. TypeOK' /\ Versions'
  BY <1>1, <1>2, <1>7, <1>8 DEF TypeOK, Becomes, Versions, Later, Until
<1>10. Grows
  BY <1>1, <1>2, SameGrows
<1>11. OneRun'
  BY <1>1, <1>2, <1>5, <1>7 DEF OneRun
<1>12. \A s \in RunId \ {r} : ~At(s, "players")'
  BY <1>1, <1>2, <1>7 DEF OneRun, At
<1>13. ASSUME NEW o \in Player
       PROVE  Covered(o)'
  <2>1. CASE o = q
    <3>1. sync'[q] # None
      BY <1>1, <1>8 DEF TypeOK
    <3> QED
      BY <2>1, <3>1, <1>2, <1>3, <1>4, <1>5, <1>7, <1>8 DEF Covered, IsWindow
  <2>2. CASE o # q
    <3>1. Covered(o) /\ coverage'[o] = coverage[o] /\ sync'[o] = sync[o]
      BY <1>8, <2>2 DEF IInv
    <3>2. ASSUME coverage[o] # None
          PROVE  LET d == coverage[o].run
                 IN  /\ runs'[d].pc \in {"window", "players"}
                     /\ runs'[d].version = runs[d].version /\ runs'[d].started = runs[d].started
      <4>1. coverage[o].run \in RunId /\ runs[coverage[o].run].pc \in {"window", "players"}
        BY <1>1, <3>1, <3>2 DEF TypeOK, Window, Covered
      <4> QED
        BY <1>5, <1>7, <4>1
    <3> QED
      BY <1>1, <1>10, <3>1, <3>2, CoveredLasts
  <2> QED
    BY <2>1, <2>2
<1>14. \A t \in Time : runs[r].version <= t /\ t < runs[r].started /\ PatchOf(t) = runs[r].version =>
         label[<<q, t>>] # None
  BY <1>2, <1>3, WindowCovers
<1>15. Serves(r)'
  <2>1. ASSUME NEW o \in runs[r].active
        PROVE  o \in x.todo \/ o = x.player \/ o \in x.failed \/ Served(r, o)'
    <3>1. CASE o = q
      <4>1. \A t \in Time : PatchOf(t)' = PatchOf(t)
        BY <1>2 DEF PatchOf
      <4>2. /\ runs'[r].version = runs[r].version /\ runs'[r].started = runs[r].started
            /\ label' = label
        BY <1>2, <1>5, <1>7
      <4> QED
        BY <1>14, <3>1, <4>1, <4>2 DEF Served
    <3>2. CASE o # q
      <4>1. o \in runs[r].todo \/ o \in runs[r].failed \/ Served(r, o)
        BY <1>1, <1>2, <2>1, <3>2 DEF Serves
      <4>2. Served(r, o) => Served(r, o)'
        <5>1. o \in Player \ {q}
          BY <1>1, <2>1, <3>2 DEF Run
        <5>2. coverage'[o] = coverage[o] /\ sync'[o] = sync[o]
          BY <1>8, <5>1
        <5>3. runs'[r].version = runs[r].version /\ runs'[r].started = runs[r].started
          BY <1>5, <1>7
        <5> QED
          BY <1>1, <1>10, <5>1, <5>2, <5>3, ServedLasts
      <4> QED
        BY <1>5, <4>1, <4>2
    <3> QED
      BY <3>1, <3>2
  <2> QED
    BY <1>5, <1>7, <2>1 DEF Serves
<1>16. ASSUME NEW s \in RunId
       PROVE  Pinned(s)' /\ Collects(s)' /\ Serves(s)'
  <2>1. CASE s = r
    <3>1. Pinned(r)'
      BY <1>1, <1>2, <1>5, <1>7 DEF Pinned
    <3>2. Collects(r)'
      BY <1>2, <1>3, <1>5, <1>7 DEF Collects, IsWindow
    <3> QED
      BY <2>1, <3>1, <3>2, <1>15
  <2>2. CASE s # r
    <3>1. Pinned(s)'
      BY <1>1, <1>7, <1>10, <2>2, PinnedLasts DEF IInv
    <3> QED
      BY <1>12, <2>2, <3>1 DEF Collects, Serves
  <2> QED
    BY <2>1, <2>2
<1> QED
  BY <1>9, <1>11, <1>13, <1>16 DEF IInv

\* Steps that leave the runs alone: time, versions.
LEMMA NoRun ==
  ASSUME IInv, Grows, TypeOK', Versions', UNCHANGED <<runs, coverage, sync>>
  PROVE  IInv'
<1>1. OneRun'
  BY DEF IInv, OneRun
<1>2. ASSUME NEW r \in RunId
      PROVE  Pinned(r)' /\ Collects(r)' /\ Serves(r)'
  <2>1. TypeOK /\ Pinned(r) /\ Collects(r) /\ Serves(r) /\ runs[r].started <= now
    BY InvFacts
  <2> QED
    BY <2>1, PinnedLasts, CollectsLasts, ServesLasts
<1>3. ASSUME NEW q \in Player
      PROVE  Covered(q)'
  BY CoveredLasts DEF IInv, Covered
<1> QED
  BY <1>1, <1>2, <1>3 DEF IInv

LEMMA InsertVersionKeeps ==
  ASSUME IInv, NEW r \in RunId, InsertVersion(r)
  PROVE  IInv'
<1>1. TypeOK /\ Versions /\ Pinned(r) /\ released \subseteq Nat /\ Time \subseteq Nat
  BY InvFacts
<1>2. UNCHANGED <<now, released, label, sync, coverage, runs, faults>>
  BY DEF InsertVersion
<1>3. PICK v \in runs[r].list \ known : known' = known \cup {v}
  BY DEF InsertVersion
<1>4. v \in released /\ v \in Nat /\ known \subseteq Nat
  BY <1>1, <1>3 DEF Pinned, TypeOK
<1>5. TypeOK'
  BY <1>1, <1>2, <1>3, <1>4 DEF TypeOK
<1>6. Grows
  BY <1>1, <1>2, <1>3 DEF Grows, TypeOK
<1>7. ASSUME NEW k \in Time, Later(k)' # {}
      PROVE  HasMin(Later(k))'
  <2>1. k \in Nat /\ Later(k)' = {u \in known \cup {v} : u > k}
    BY <1>1, <1>3 DEF Later
  <2>2. CASE Later(k) = {}
    <3>1. Later(k)' = {v}
      BY <1>7, <2>1, <2>2 DEF Later
    <3> QED
      BY <1>4, <3>1 DEF HasMin
  <2>3. CASE Later(k) # {}
    <3>1. PICK least \in Later(k) : \A u \in Later(k) : least <= u
      BY <1>1, <2>3 DEF Versions, HasMin
    <3>2. least \in Nat /\ least > k /\ least \in known
      BY <1>4, <3>1 DEF Later
    <3>3. \A u \in Later(k)' : u \in Nat /\ (u = v \/ least <= u)
      BY <1>4, <2>1, <3>1 DEF Later
    <3>4. CASE v > k /\ v < least
      <4>1. \A u \in Later(k)' : v <= u
        BY <1>4, <3>2, <3>4, <3>3
      <4>2. v \in Later(k)'
        BY <2>1, <3>4
      <4> QED
        BY <4>1, <4>2 DEF HasMin
    <3>5. CASE ~(v > k /\ v < least)
      <4>1. \A u \in Later(k)' : least <= u
        BY <1>4, <2>1, <3>2, <3>3, <3>5
      <4>2. least \in Later(k)'
        BY <2>1, <3>2
      <4> QED
        BY <4>1, <4>2 DEF HasMin
    <3> QED
      BY <3>4, <3>5
  <2> QED
    BY <2>2, <2>3
<1>8. Versions'
  BY <1>1, <1>2, <1>7 DEF Versions, HasMax, Until
<1> QED
  BY <1>2, <1>5, <1>6, <1>8, NoRun

LEMMA TickKeeps ==
  ASSUME IInv, Tick
  PROVE  IInv'
<1>1. TypeOK /\ Versions /\ now \in Nat /\ Time \subseteq Nat
  BY TimesAreNumbers DEF IInv, TypeOK
<1>2. UNCHANGED <<released, known, label, sync, coverage, runs, faults>> /\ now' = now + 1 /\ now < MaxTime
  BY DEF Tick
<1>3. now' \in Time
  BY <1>1, <1>2, ConstantsAssumption DEF Time, ConstantsAssumption
<1>4. TypeOK'
  BY <1>1, <1>2, <1>3 DEF TypeOK
<1>5. Grows
  BY <1>1, <1>2, <1>3 DEF Grows, TypeOK
<1>6. released \subseteq 0..now'
  BY <1>1, <1>2 DEF Versions
<1>7. Versions'
  BY <1>1, <1>2, <1>6 DEF Versions, HasMax, HasMin, Later, Until
<1> QED
  BY <1>2, <1>4, <1>5, <1>7, NoRun

LEMMA ReleaseKeeps ==
  ASSUME IInv, Release
  PROVE  IInv'
<1>1. TypeOK /\ Versions /\ now \in Nat /\ Time \subseteq Nat /\ released \subseteq 0..now
  BY TimesAreNumbers DEF IInv, TypeOK, Versions
<1>2. /\ UNCHANGED <<known, label, sync, coverage, runs, faults>> /\ now' = now + 1 /\ now < MaxTime
      /\ released' = released \cup {now + 1}
  BY DEF Release
<1>3. now' \in Time
  BY <1>1, <1>2, ConstantsAssumption DEF Time, ConstantsAssumption
<1>4. TypeOK'
  BY <1>1, <1>2, <1>3 DEF TypeOK
<1>5. Grows
  BY <1>1, <1>2, <1>3 DEF Grows, TypeOK
<1>6. released' \subseteq 0..now'
  BY <1>1, <1>2
<1>7. \A v \in released : v \in Nat /\ v <= now + 1
  BY <1>1
<1>8. HasMax(released)'
  BY <1>1, <1>2, <1>7 DEF HasMax
<1>9. ASSUME NEW k \in Time, Until(k)' # {}
      PROVE  HasMax(Until(k))'
  <2>1. k \in Nat
    BY <1>1
  <2>2. CASE now + 1 <= k
    <3>1. \A v \in released' : v \in Nat /\ v <= now + 1
      BY <1>1, <1>2, <1>7
    <3>2. \A v \in released' : v <= k
      BY <1>1, <2>1, <2>2, <3>1
    <3>3. Until(k)' = released'
      BY <3>2 DEF Until
    <3> QED
      BY <1>8, <3>3 DEF HasMax
  <2>3. CASE ~(now + 1 <= k)
    <3>1. Until(k)' = Until(k)
      BY <1>2, <2>3 DEF Until
    <3> QED
      BY <1>1, <1>9, <3>1 DEF Versions, HasMax
  <2> QED
    BY <2>2, <2>3
<1>10. Versions'
  BY <1>1, <1>2, <1>6, <1>8, <1>9 DEF Versions, HasMin, Later
<1> QED
  BY <1>2, <1>4, <1>5, <1>10, NoRun

-----------------------------------------------------------------------------
(* The invariant and what it is for *)

LEMMA InvInit == Init => IInv
<1> SUFFICES ASSUME Init
             PROVE  IInv
  OBVIOUS
<1>1. /\ now = 1 /\ released = {0} /\ known = {} /\ faults = 0
      /\ label = [m \in Match |-> None] /\ sync = [q \in Player |-> None]
      /\ coverage = [q \in Player |-> None] /\ runs = [r \in RunId |-> Fresh]
  BY DEF Init
<1>2. 0 \in Time
  BY ConstantsAssumption DEF ConstantsAssumption, Time
<1>3. Fresh \in Run
  BY <1>2 DEF Fresh, Run
<1>4. Fresh.status = "new" /\ Fresh.pc = "fetch" /\ Fresh.started = 0 /\ Fresh.list = {}
      /\ Fresh.version = None /\ Fresh.player = None /\ Fresh.ids = {}
  BY DEF Fresh
<1>5. \A r \in RunId : runs[r] = Fresh
  BY <1>1
<1>6. TypeOK
  <2>1. 1 \in Time
    BY ConstantsAssumption DEF Time, ConstantsAssumption
  <2> QED
    BY <1>1, <1>2, <1>3, <2>1, ConstantsAssumption DEF TypeOK, ConstantsAssumption
<1>7. Versions
  BY <1>1 DEF Versions, HasMax, Until, Later
<1>8. OneRun
  BY <1>4, <1>5 DEF OneRun
<1>9. ASSUME NEW r \in RunId
      PROVE  Pinned(r) /\ Collects(r) /\ Serves(r)
  BY <1>1, <1>4, <1>5, <1>9 DEF Pinned, Collects, Serves, At
<1>10. ASSUME NEW q \in Player
       PROVE  Covered(q)
  BY <1>1, <1>10 DEF Covered
<1> QED
  BY <1>6, <1>7, <1>8, <1>9, <1>10 DEF IInv

LEMMA InvNext == IInv /\ [Next]_vars => IInv'
<1> SUFFICES ASSUME IInv, [Next]_vars
             PROVE  IInv'
  OBVIOUS
<1>1. ASSUME NEW r \in RunId, Execute(r) \/ Resume(r) \/ PlayerFails(r)
      PROVE  IInv'
  <2>1. ASSUME NEW active \in SUBSET Player, PinVersion(r, active)
        PROVE  IInv'
    BY <2>1, PinVersionKeeps
  <2>2. ASSUME NEW q \in Player, Skip(r, q) \/ ListMatches(r, q)
        PROVE  IInv'
    BY <2>2, SkipKeeps, ListMatchesKeeps
  <2> QED
    BY <1>1, <2>1, <2>2, GetAllVersionsKeeps, InsertVersionKeeps, OpenWindowKeeps, StoreMatchKeeps,
       MarkSyncedKeeps, CompleteKeeps, ResumeKeeps, PlayerFailsKeeps DEF Execute
<1>2. ASSUME NEW r \in RunId, NEW v \in released \cup {None}, StartRun(r, v)
      PROVE  IInv'
  BY <1>2, StartRunKeeps
<1>3. ASSUME NEW r \in RunId, NEW s \in {"failed", "parked"}, Interrupt(r, s)
      PROVE  IInv'
  BY <1>3, InterruptKeeps
<1>4. CASE UNCHANGED vars
  <2>1. UNCHANGED <<now, released, known, label, sync, coverage, runs, faults>> /\ TypeOK /\ Versions
    BY <1>4 DEF vars, IInv
  <2>2. Grows
    BY <2>1, SameGrows
  <2>3. TypeOK' /\ Versions'
    BY <2>1 DEF TypeOK, Versions, Later, Until
  <2> QED
    BY <2>1, <2>2, <2>3, NoRun
<1> QED
  BY <1>1, <1>2, <1>3, <1>4, TickKeeps, ReleaseKeeps DEF Next

LEMMA Invariance == Spec => []IInv
BY InvInit, InvNext, PTL DEF Spec

\* Every variable has its type, and known versions are released.
THEOREM TypeCorrect == Spec => []TypeOK
<1>1. IInv => TypeOK
  BY DEF IInv
<1> QED
  BY <1>1, Invariance, PTL

\* A sync time promises a complete window, wherever executions were interrupted
\* and however many runs followed: SetPlayerSyncTime comes after the last upsert,
\* and what is stored stays stored (phase2/phase.go:118-121).
THEOREM SyncTimesAreKept == Spec => []SyncTimeIsKept
<1>1. IInv => SyncTimeIsKept
  <2> SUFFICES ASSUME IInv, NEW q \in Player, coverage[q] # None,
                      NEW t \in coverage[q].from..(coverage[q].to - 1)
               PROVE  label[<<q, t>>] # None
    BY DEF SyncTimeIsKept
  <2>1. coverage[q].from \in Time /\ coverage[q].to \in Time
    BY DEF IInv, TypeOK, Window
  <2>2. t \in Time /\ coverage[q].from <= t /\ t < coverage[q].to
    BY <2>1, ConstantsAssumption DEF Time, ConstantsAssumption
  <2> QED
    BY <2>2 DEF IInv, Covered
<1> QED
  BY <1>1, Invariance, PTL

\* A run that went through its players has every match of its version, up to its
\* start, of every player that did not fail and that no other run has synced since
\* (phase2/phase.go:87-90): the resume of a run may rely on its own sync times.
THEOREM UndisturbedRunsAreComplete == Spec => []UndisturbedRunIsComplete
<1>1. IInv => UndisturbedRunIsComplete
  <2> SUFFICES ASSUME IInv, NEW r \in RunId, At(r, "players"), runs[r].todo = {}, runs[r].player = None,
                      NEW q \in runs[r].active \ runs[r].failed
               PROVE  \/ coverage[q] # None /\ coverage[q].run # r /\ sync[q] >= runs[r].started
                      \/ \A t \in runs[r].version..(runs[r].started - 1) :
                           PatchOf(t) = runs[r].version => label[<<q, t>>] # None
    BY DEF UndisturbedRunIsComplete
  <2>1. /\ Serves(r) /\ runs[r] \in Run /\ runs[r].version # None
    BY InvFacts DEF Pinned, At
  <2>2. q \in Player /\ q # None
    BY <2>1, ConstantsAssumption DEF Run, ConstantsAssumption
  <2>3. Served(r, q)
    BY <2>1, <2>2 DEF Serves
  <2>4. runs[r].version \in Time /\ runs[r].started \in Time
    BY <2>1 DEF Run
  <2>5. \A t \in runs[r].version..(runs[r].started - 1) :
          t \in Time /\ runs[r].version <= t /\ t < runs[r].started
    BY <2>4, ConstantsAssumption DEF Time, ConstantsAssumption
  <2> QED
    BY <2>3, <2>5 DEF Served
<1> QED
  BY <1>1, Invariance, PTL

-----------------------------------------------------------------------------
(* Labels, as long as the versions are known in the order of the releases *)

Labelled == \A m \in Match : label[m] # None => m[2] <= now /\ label[m] = PatchOf(m[2])

\* The window of run r lies within the time of one version, as do its match ids.
OneVersion(r) ==
  At(r, "players") =>
    /\ \A v \in released : v > runs[r].version => v >= runs[r].to
    /\ \A m \in runs[r].ids : runs[r].from <= m[2] /\ m[2] < runs[r].to

LInv == Labelled /\ \A r \in RunId : OneVersion(r)

LEMMA NextGrows ==
  ASSUME IInv, IInv', [Next]_vars
  PROVE  Grows
<1>1. /\ now \in Nat /\ TypeOK /\ TypeOK' /\ now \in Time /\ now' \in Time
  BY TimesAreNumbers DEF IInv, TypeOK
<1>2. CASE UNCHANGED <<now, released, known, label>>
  BY <1>1, <1>2, SameGrows
<1>3. ASSUME NEW r \in RunId, InsertVersion(r)
      PROVE  Grows
  BY <1>1, <1>3 DEF InsertVersion, Grows, TypeOK
<1>4. ASSUME NEW r \in RunId, StoreMatch(r)
      PROVE  Grows
  <2>1. PICK m \in runs[r].ids : label' = [label EXCEPT ![m] = IF @ = None THEN runs[r].version ELSE @]
    BY <1>4 DEF StoreMatch
  <2>2. \A o \in Match : label[o] # None => label'[o] = label[o]
    BY <1>1, <2>1 DEF TypeOK
  <2> QED
    BY <1>1, <1>4, <2>2 DEF StoreMatch, Grows, TypeOK
<1>5. ASSUME NEW r \in RunId, NEW v, StartRun(r, v)
      PROVE  Grows
  BY <1>1, <1>5 DEF StartRun, Grows, TypeOK
<1>6. CASE Tick
  BY <1>1, <1>6 DEF Tick, Grows, TypeOK
<1>7. CASE Release
  BY <1>1, <1>7 DEF Release, Grows, TypeOK
<1>8. ASSUME NEW r \in RunId,
             \/ GetAllVersions(r) \/ OpenWindow(r) \/ PlayerFails(r) \/ MarkSynced(r)
             \/ Complete(r) \/ Resume(r) \/ (\E s \in {"failed", "parked"} : Interrupt(r, s))
             \/ (\E active \in SUBSET Player : PinVersion(r, active))
             \/ (\E q \in Player : Skip(r, q) \/ ListMatches(r, q))
      PROVE  UNCHANGED <<now, released, known, label>>
  BY <1>8 DEF GetAllVersions, OpenWindow, PlayerFails, ListMatches, MarkSynced, Complete, PinVersion,
              Skip, Interrupt, Resume
<1> QED
  BY <1>2, <1>3, <1>4, <1>5, <1>6, <1>7, <1>8 DEF Next, vars, Execute

LEMMA LabelledLasts ==
  ASSUME IInv, Grows, Labelled, label' = label
  PROVE  Labelled'
<1> SUFFICES ASSUME NEW m \in Match, label[m] # None
             PROVE  m[2] <= now' /\ label[m] = PatchOf(m[2])'
  BY DEF Labelled
<1>1. TypeOK /\ m[2] \in Time /\ m[2] <= now /\ label[m] = PatchOf(m[2])
  BY DEF IInv, Labelled, Match
<1>2. m[2] \in Nat /\ now \in Nat /\ now' \in Nat /\ now <= now'
  BY <1>1, TimesAreNumbers DEF TypeOK, Grows
<1>3. ASSUME NEW t \in Time, t = m[2]
      PROVE  PatchOf(t)' = PatchOf(t)
  BY <1>1, <1>3, PatchLasts
<1> QED
  BY <1>1, <1>2, <1>3 DEF PatchOf

\* No run enters phase 2 or learns match ids.
Proceeds(r) ==
  At(r, "players")' =>
    /\ At(r, "players") /\ runs'[r].version = runs[r].version
    /\ runs'[r].from = runs[r].from /\ runs'[r].to = runs[r].to /\ runs'[r].ids \subseteq runs[r].ids

LEMMA OneVersionLasts ==
  ASSUME IInv, Grows, NEW r \in RunId, OneVersion(r), Proceeds(r)
  PROVE  OneVersion(r)'
<1> SUFFICES ASSUME At(r, "players")'
             PROVE  /\ \A v \in released' : v > runs[r].version => v >= runs[r].to
                    /\ \A m \in runs[r].ids : runs[r].from <= m[2] /\ m[2] < runs[r].to
  BY DEF OneVersion, Proceeds
<1>1. At(r, "players") /\ TypeOK /\ Collects(r) /\ runs[r] \in Run /\ now \in Nat /\ Time \subseteq Nat
  BY InvFacts DEF Proceeds
<1>2. runs[r].to <= now /\ runs[r].to \in Nat
  BY <1>1 DEF Collects, IsWindow, Run
<1>3. ASSUME NEW v \in released', v > runs[r].version
      PROVE  v >= runs[r].to
  <2>1. v \in Nat /\ (v \in released \/ v > now)
    BY <1>1 DEF Grows
  <2> QED
    BY <1>1, <1>2, <1>3, <2>1 DEF OneVersion
<1> QED
  BY <1>1, <1>3 DEF OneVersion

\* The next version that is known is the next one there is.
LEMMA OpenWindowIsOneVersion ==
  ASSUME IInv, NoGap, NEW r \in RunId, OpenWindow(r)
  PROVE  OneVersion(r)'
<1>1. /\ TypeOK /\ Versions /\ Pinned(r) /\ runs[r] \in Run /\ released \subseteq Nat /\ Time \subseteq Nat
      /\ runs[r].started \in Nat
  BY InvFacts
<1>2. /\ At(r, "window") /\ runs[r].version # None /\ runs[r].list \subseteq known /\ runs[r].ids = {}
      /\ \A v \in released \ runs[r].list : v > runs[r].started
  BY <1>1 DEF OpenWindow, At, Pinned
<1>3. /\ released' = released /\ runs'[r].version = runs[r].version /\ runs'[r].to = EndTime(r)
      /\ runs'[r].ids = {}
  BY <1>1, <1>2 DEF OpenWindow, TypeOK, Run
<1>4. runs[r].version \in Nat /\ EndTime(r) \in Nat
  BY <1>1, <1>2, EndTimeFacts DEF Run
<1>5. ASSUME NEW v \in released, v > runs[r].version
      PROVE  v >= EndTime(r)
  <2>1. v \in Nat /\ known \subseteq released
    BY <1>1 DEF TypeOK
  <2>2. CASE Later(runs[r].version) = {}
    <3>1. v \notin known
      BY <1>5, <2>2 DEF Later
    <3>2. v > runs[r].started
      BY <1>2, <3>1
    <3> QED
      BY <1>1, <1>2, <2>1, <2>2, <3>2, EndTimeFacts
  <2>3. CASE Later(runs[r].version) # {} /\ v \in known
    <3>1. v \in Later(runs[r].version)
      BY <1>5, <2>3 DEF Later
    <3>2. EndTime(r) <= v
      BY <1>2, <2>3, <3>1, EndTimeFacts
    <3> QED
      BY <1>4, <2>1, <3>2
  <2>4. CASE Later(runs[r].version) # {} /\ v \notin known
    <3>1. PICK u \in Later(runs[r].version) : TRUE
      BY <2>4
    <3>2. u \in known /\ u \in Nat /\ EndTime(r) <= u
      BY <1>1, <1>2, <2>1, <2>4, <3>1, EndTimeFacts DEF Later
    <3>3. ~(v < u)
      BY <2>4, <3>2, <1>5, <3>1 DEF NoGap, OpenWindow, Later
    <3> QED
      BY <1>4, <2>1, <3>2, <3>3
  <2> QED
    BY <2>2, <2>3, <2>4
<1> QED
  BY <1>3, <1>5 DEF OneVersion

LEMMA StoreMatchLabels ==
  ASSUME IInv, Grows, Labelled, NEW r \in RunId, OneVersion(r), StoreMatch(r)
  PROVE  Labelled'
<1>1. /\ TypeOK /\ Versions /\ Pinned(r) /\ Collects(r) /\ runs[r] \in Run /\ released \subseteq Nat
      /\ Time \subseteq Nat /\ now \in Nat
  BY InvFacts
<1>2. /\ At(r, "players") /\ UNCHANGED <<now, released>> /\ runs[r].version # None
      /\ IsWindow(r, runs[r].from, runs[r].to)
  BY <1>1 DEF StoreMatch, Pinned, Collects, At
<1>3. PICK m \in runs[r].ids : label' = [label EXCEPT ![m] = IF @ = None THEN runs[r].version ELSE @]
  BY DEF StoreMatch
<1>4. m \in Match /\ m[2] \in Time /\ runs[r].version \in released /\ runs[r].to \in Nat
  BY <1>1, <1>2 DEF Run, Match, Pinned
<1>5. runs[r].version <= m[2] /\ m[2] < runs[r].to /\ m[2] <= now
      /\ \A v \in released : v > runs[r].version => v >= runs[r].to
  <2>1. /\ runs[r].from = runs[r].version /\ runs[r].to <= now
        /\ runs[r].from <= m[2] /\ m[2] < runs[r].to
        /\ \A v \in released : v > runs[r].version => v >= runs[r].to
    BY <1>2, <1>3 DEF OneVersion, IsWindow
  <2>2. m[2] \in Nat
    BY <1>1, <1>4
  <2>3. runs[r].version <= m[2]
    BY <2>1
  <2>4. m[2] <= now
    <3>1. \A a, b, c \in Nat : a < b /\ b <= c => a <= c
      OBVIOUS
    <3>2. runs[r].to \in Nat /\ now \in Nat
      BY <1>1, <1>4
    <3> QED
      BY <2>1, <2>2, <3>1, <3>2
  <2> QED
    BY <2>1, <2>3, <2>4
<1>6. PatchOf(m[2]) = runs[r].version
  <2>1. runs[r].version \in Until(m[2])
    BY <1>4, <1>5 DEF Until
  <2>2. HasMax(Until(m[2]))
    BY <1>1, <1>4, <2>1 DEF Versions
  <2>3. PatchOf(m[2]) \in Until(m[2]) /\ \A u \in Until(m[2]) : u <= PatchOf(m[2])
    BY <2>2, NewestIsThere DEF PatchOf, Until
  <2>4. ASSUME NEW p \in Until(m[2]), \A u \in Until(m[2]) : u <= p
        PROVE  p = runs[r].version
    <3>1. p \in Nat /\ p \in released /\ p <= m[2] /\ runs[r].version \in Nat /\ m[2] \in Nat
      BY <1>1, <1>4 DEF Until
    <3>2. runs[r].version <= p
      BY <2>1, <2>4
    <3>3. ~(p > runs[r].version)
      BY <1>4, <1>5, <3>1
    <3> QED
      BY <3>1, <3>2, <3>3
  <2> QED
    BY <2>3, <2>4
<1>7. \A t : PatchOf(t)' = PatchOf(t)
  BY <1>2 DEF PatchOf
<1> SUFFICES ASSUME NEW o \in Match, label'[o] # None
             PROVE  o[2] <= now /\ label'[o] = PatchOf(o[2])
  BY <1>2, <1>7 DEF Labelled
<1>8. CASE label[o] # None
  BY <1>8 DEF Grows, Labelled
<1>9. CASE label[o] = None
  <2>1. o = m /\ label'[o] = runs[r].version
    BY <1>1, <1>3, <1>4, <1>9 DEF TypeOK
  <2> QED
    BY <2>1, <1>5, <1>6
<1> QED
  BY <1>8, <1>9

LEMMA LabelsNext ==
  ASSUME IInv, IInv', NoGap, LInv, [Next]_vars
  PROVE  LInv'
<1>1. Grows /\ TypeOK /\ Labelled /\ \A s \in RunId : OneVersion(s)
  BY NextGrows DEF IInv, LInv
<1>2. ASSUME label' = label, \A s \in RunId : Proceeds(s)
      PROVE  LInv'
  BY <1>1, <1>2, LabelledLasts, OneVersionLasts DEF LInv
<1>3. ASSUME NEW r \in RunId, \A s \in RunId \ {r} : runs'[s] = runs[s]
      PROVE  \A s \in RunId \ {r} : OneVersion(s)'
  <2>1. \A s \in RunId \ {r} : Proceeds(s)
    BY <1>3 DEF Proceeds, At
  <2> QED
    BY <1>1, <2>1, OneVersionLasts
<1>4. ASSUME NEW r \in RunId, OpenWindow(r)
      PROVE  LInv'
  <2>1. label' = label /\ \A s \in RunId \ {r} : runs'[s] = runs[s]
    BY <1>1, <1>4 DEF OpenWindow, TypeOK
  <2>2. OneVersion(r)'
    BY <1>4, OpenWindowIsOneVersion
  <2> QED
    BY <1>1, <1>3, <2>1, <2>2, LabelledLasts DEF LInv
<1>5. ASSUME NEW r \in RunId, NEW q \in Player, ListMatches(r, q)
      PROVE  LInv'
  <2>1. label' = label /\ \A s \in RunId \ {r} : runs'[s] = runs[s]
    BY <1>1, <1>5 DEF ListMatches, TypeOK
  <2>2. /\ At(r, "players") /\ released' = released /\ runs'[r].version = runs[r].version
        /\ runs'[r].from = runs[r].from /\ runs'[r].to = runs[r].to
        /\ \A m \in runs'[r].ids : runs[r].from <= m[2] /\ m[2] < runs[r].to
    BY <1>1, <1>5, RunFacts DEF ListMatches, TypeOK, Run
  <2>3. OneVersion(r)'
    BY <1>1, <2>2 DEF OneVersion
  <2> QED
    BY <1>1, <1>3, <2>1, <2>3, LabelledLasts DEF LInv
<1>6. ASSUME NEW r \in RunId, StoreMatch(r)
      PROVE  LInv'
  <2>1. PICK m \in runs[r].ids : runs' = [runs EXCEPT ![r].ids = @ \ {m}]
    BY <1>6 DEF StoreMatch
  <2>2. \A s \in RunId : Proceeds(s)
    BY <1>1, <2>1, RunFacts DEF TypeOK, Run, Proceeds, At
  <2> QED
    BY <1>1, <1>6, <2>2, StoreMatchLabels, OneVersionLasts DEF LInv
<1>7. ASSUME NEW r \in RunId, InsertVersion(r)
      PROVE  LInv'
  BY <1>2, <1>7 DEF InsertVersion, Proceeds, At
<1>8. ASSUME NEW r \in RunId, GetAllVersions(r) \/ Resume(r)
      PROVE  LInv'
  BY <1>1, <1>2, <1>8, RunFacts DEF GetAllVersions, Resume, TypeOK, Run, Proceeds, At
<1>9. ASSUME NEW r \in RunId, MarkSynced(r) \/ Complete(r) \/ PlayerFails(r)
      PROVE  LInv'
  BY <1>1, <1>2, <1>9, RunFacts DEF MarkSynced, Complete, PlayerFails, TypeOK, Run, Proceeds, At
<1>10. ASSUME NEW r \in RunId, NEW active \in SUBSET Player, PinVersion(r, active)
       PROVE  LInv'
  BY <1>1, <1>2, <1>10, RunFacts DEF PinVersion, TypeOK, Run, Proceeds, At
<1>11. ASSUME NEW r \in RunId, NEW q \in Player, Skip(r, q)
       PROVE  LInv'
  BY <1>1, <1>2, <1>11, RunFacts DEF Skip, TypeOK, Run, Proceeds, At
<1>12. ASSUME NEW r \in RunId, NEW v, StartRun(r, v)
       PROVE  LInv'
  <2>1. runs[r].pc = "fetch"
    BY <1>12, InvFacts DEF StartRun, Pinned
  <2> QED
    BY <1>1, <1>2, <1>12, <2>1, RunFacts DEF StartRun, TypeOK, Run, Proceeds, At
<1>13. ASSUME NEW r \in RunId, NEW status \in {"failed", "parked"}, Interrupt(r, status)
       PROVE  LInv'
  BY <1>1, <1>2, <1>13, RunFacts DEF Interrupt, TypeOK, Run, Proceeds, At
<1>14. CASE Tick \/ Release \/ UNCHANGED vars
  BY <1>2, <1>14 DEF Tick, Release, vars, Proceeds, At
<1> QED
  BY <1>4, <1>5, <1>6, <1>7, <1>8, <1>9, <1>10, <1>11, <1>12, <1>13, <1>14 DEF Next, Execute

\* A match is labelled with the version it was played in, by every run and after
\* every resume, if no window is opened over a gap in the versions known
\* (phase2/phase.go:54-59): a window never reaches into the time of another version.
THEOREM LabelsArePatches == Spec /\ []NoGap => []LabelIsPatch
<1>1. Init => LInv
  BY DEF Init, LInv, Labelled, OneVersion, At, Fresh
<1>2. LInv => LabelIsPatch
  BY DEF LInv, Labelled, LabelIsPatch
<1> QED
  BY <1>1, <1>2, Invariance, LabelsNext, PTL DEF Spec
=============================================================================
