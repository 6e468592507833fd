----------------------------- MODULE PlayerSync -----------------------------
(***************************************************************************)
(* Phases 0 and 2 from the side of single players: the versions a run      *)
(* learns, the time window it asks Riot for, the match ids it stores and   *)
(* the sync time it leaves with every player.                              *)
(*                                                                         *)
(* Code: internal/crawler/phase0, phase2, internal/storage/{players,       *)
(* versions,matches,snapshots}.go.                                         *)
(*                                                                         *)
(* Runs of one region; CrawlRun shows that they exclude each other.  Time  *)
(* is counted in ticks.  Every player plays one match per tick, and a      *)
(* version is named by the tick of its patch.                              *)
(***************************************************************************)
EXTENDS Naturals, FiniteSets

CONSTANTS
  RunId,
  Player,     \* ranked players of the region
  MaxTime,    \* last tick (bound)
  MaxPatches, \* versions released after the first one (bound)
  MaxFaults,  \* failed calls, interruptions (bound)
  None

Time == 0..MaxTime
Match == Player \X Time

ASSUME ConstantsAssumption ==
  /\ MaxTime \in Nat \ {0} /\ MaxPatches \in Nat /\ MaxFaults \in Nat
  /\ None \notin Time \cup RunId \cup Player

VARIABLES
  now,
  released, \* versions CommunityDragon lists
  known,    \* rows of game_versions
  label,    \* matches: the version a stored match carries, None = not stored
  sync,     \* player_match_sync.last_synced_at
  coverage, \* the run and the window behind a sync time (history)
  runs,     \* run -> state of its row and of its executor
  faults

vars == <<now, released, known, label, sync, coverage, runs, faults>>

Newest(versions) == CHOOSE v \in versions : \A u \in versions : u <= v
PatchOf(t) == Newest({v \in released : v <= t})

Fresh == [status |-> "new", pc |-> "fetch", started |-> 0, version |-> None, list |-> {}, active |-> {},
          todo |-> {}, player |-> None, from |-> 0, to |-> 0, ids |-> {}, failed |-> {}]

At(r, pc) == runs[r].status = "active" /\ runs[r].pc = pc
Goto(r, pc) == runs' = [runs EXCEPT ![r].pc = pc]
Fault == faults < MaxFaults /\ faults' = faults + 1

Init ==
  /\ now = 1
  /\ released = {0} /\ known = {}
  /\ label = [m \in Match |-> None]
  /\ sync = [q \in Player |-> None]
  /\ coverage = [q \in Player |-> None]
  /\ runs = [r \in RunId |-> Fresh]
  /\ faults = 0

-----------------------------------------------------------------------------
(* Runs *)

Idle == \A r \in RunId : runs[r].status # "active"

\* A run begins at a tick of its own: its started_at lies after the sync times
\* of earlier runs.
StartRun(r, version) ==
  /\ runs[r].status = "new" /\ Idle
  /\ \A s \in RunId : runs[s].status # "parked"
  /\ now < MaxTime
  /\ now' = now + 1
  /\ runs' = [runs EXCEPT ![r].status = "active", ![r].started = now + 1, ![r].version = version]
  /\ UNCHANGED <<released, known, label, sync, coverage, faults>>

\* An error ends an execution as 'failed', Ctrl-C or a crash leaves 'running'.
Interrupt(r, status) ==
  /\ runs[r].status = "active"
  /\ Fault
  /\ runs' = [runs EXCEPT ![r].status = status]
  /\ UNCHANGED <<now, released, known, label, sync, coverage>>

\* A checkpoint in phase 2 begins it again, one before it begins the run again.
Resume(r) ==
  /\ runs[r].status \in {"failed", "parked"} /\ Idle
  /\ runs' = [runs EXCEPT ![r].status = "active", ![r].player = None, ![r].ids = {},
                          ![r].pc = IF @ \in {"fetch", "insert"} THEN "fetch" ELSE "window"]
  /\ UNCHANGED <<now, released, known, label, sync, coverage, faults>>

Complete(r) ==
  /\ At(r, "players") /\ runs[r].todo = {} /\ runs[r].player = None
  /\ runs' = [runs EXCEPT ![r].status = "completed"]
  /\ UNCHANGED <<now, released, known, label, sync, coverage, faults>>

-----------------------------------------------------------------------------
(* Phase 0 *)

GetAllVersions(r) ==
  /\ At(r, "fetch")
  /\ runs' = [runs EXCEPT ![r].pc = "insert", ![r].list = released]
  /\ UNCHANGED <<now, released, known, label, sync, coverage, faults>>

\* INSERT ... ON CONFLICT DO NOTHING, one version at a time.
InsertVersion(r) ==
  /\ At(r, "insert")
  /\ \E v \in runs[r].list \ known : known' = known \cup {v}
  /\ UNCHANGED <<now, released, label, sync, coverage, runs, faults>>

\* The run is pinned to the newest version of the list, unless it has one.  Then
\* phase 1 leaves snapshots of the players it finds in the target tiers.
PinVersion(r, active) ==
  /\ At(r, "insert") /\ runs[r].list \subseteq known
  /\ runs' = [runs EXCEPT ![r].pc = "window", ![r].active = active,
                          ![r].version = IF @ = None THEN Newest(runs[r].list) ELSE @]
  /\ UNCHANGED <<now, released, known, label, sync, coverage, faults>>

-----------------------------------------------------------------------------
(* Phase 2 *)

EndAtStart(r) == runs[r].started                                     \* mutant

\* The window ends where the next version begins, or at the start of the run.
EndTime(r) ==
  LET later == {v \in known : v > runs[r].version}
  IN  IF later = {} THEN runs[r].started ELSE CHOOSE v \in later : \A u \in later : v <= u

\* The players with a snapshot of this very run, not of earlier ones.
GetActivePUUIDsByTiers(r) == runs[r].active

OpenWindow(r) ==
  /\ At(r, "window")
  /\ runs' = [runs EXCEPT ![r].pc = "players", ![r].todo = GetActivePUUIDsByTiers(r), ![r].failed = {},
                          ![r].from = runs[r].version, ![r].to = EndTime(r)]
  /\ UNCHANGED <<now, released, known, label, sync, coverage, faults>>

SyncedThisPatch(r, q) == sync[q] # None /\ sync[q] >= runs[r].version  \* mutant

\* "already synced during this run": by whichever run.
Synced(r, q) == sync[q] # None /\ sync[q] >= runs[r].started

Skip(r, q) ==
  /\ At(r, "players") /\ runs[r].player = None /\ q \in runs[r].todo
  /\ Synced(r, q)
  /\ runs' = [runs EXCEPT ![r].todo = @ \ {q}]
  /\ UNCHANGED <<now, released, known, label, sync, coverage, faults>>

\* The pages of the player's matches in the window.
ListMatches(r, q) ==
  /\ At(r, "players") /\ runs[r].player = None /\ q \in runs[r].todo
  /\ ~Synced(r, q)
  /\ runs' = [runs EXCEPT ![r].player = q, ![r].todo = @ \ {q},
                ![r].ids = {<<q, t>> : t \in {u \in Time : runs[r].from <= u /\ u < runs[r].to /\ u < now}}]
  /\ UNCHANGED <<now, released, known, label, sync, coverage, faults>>

\* UpsertMatchID; a match that is stored keeps its version.
StoreMatch(r) ==
  /\ At(r, "players")
  /\ \E m \in runs[r].ids :
       /\ label' = [label EXCEPT ![m] = IF @ = None THEN runs[r].version ELSE @]
       /\ runs' = [runs EXCEPT ![r].ids = @ \ {m}]
  /\ UNCHANGED <<now, released, known, sync, coverage, faults>>

MarkBeforeStoring(r) ==                                              \* mutant
  LET q == runs[r].player
  IN  /\ At(r, "players") /\ q # None
      /\ sync' = [sync EXCEPT ![q] = now]
      /\ coverage' = [coverage EXCEPT ![q] = [run |-> r, from |-> runs[r].from, to |-> runs[r].to]]
      /\ runs' = [runs EXCEPT ![r].player = None]
      /\ UNCHANGED <<now, released, known, label, faults>>

\* SetPlayerSyncTime, "only after all IDs are written".
MarkSynced(r) ==
  LET q == runs[r].player
  IN  /\ At(r, "players") /\ q # None /\ runs[r].ids = {}
      /\ sync' = [sync EXCEPT ![q] = now]
      /\ coverage' = [coverage EXCEPT ![q] = [run |-> r, from |-> runs[r].from, to |-> runs[r].to]]
      /\ runs' = [runs EXCEPT ![r].player = None]
      /\ UNCHANGED <<now, released, known, label, faults>>

\* Any call for one player fails: it is logged and the next player follows.
PlayerFails(r) ==
  /\ At(r, "players") /\ runs[r].player # None
  /\ Fault
  /\ runs' = [runs EXCEPT ![r].player = None, ![r].ids = {}, ![r].failed = @ \cup {runs[r].player}]
  /\ UNCHANGED <<now, released, known, label, sync, coverage>>

-----------------------------------------------------------------------------
Tick ==
  /\ now < MaxTime
  /\ now' = now + 1
  /\ UNCHANGED <<released, known, label, sync, coverage, runs, faults>>

Release ==
  /\ now < MaxTime /\ Cardinality(released) <= MaxPatches
  /\ now' = now + 1
  /\ released' = released \cup {now + 1}
  /\ UNCHANGED <<known, label, sync, coverage, runs, faults>>

Execute(r) ==
  \/ GetAllVersions(r) \/ InsertVersion(r) \/ OpenWindow(r)
  \/ StoreMatch(r) \/ MarkSynced(r) \/ Complete(r)
  \/ \E active \in SUBSET Player : PinVersion(r, active)
  \/ \E q \in Player : Skip(r, q) \/ ListMatches(r, q)

Next ==
  \/ \E r \in RunId : Execute(r) \/ Resume(r) \/ PlayerFails(r)
  \/ \E r \in RunId, v \in released \cup {None} : StartRun(r, v)
  \/ \E r \in RunId, s \in {"failed", "parked"} : Interrupt(r, s)
  \/ Tick \/ Release

Spec == Init /\ [][Next]_vars

-----------------------------------------------------------------------------
(* Properties *)

Run ==
  [status : {"new", "active", "failed", "parked", "completed"},
   pc : {"fetch", "insert", "window", "players"},
   started : Time, version : Time \cup {None}, list : SUBSET Time, active : SUBSET Player,
   todo : SUBSET Player, player : Player \cup {None}, from : Time, to : Time,
   ids : SUBSET Match, failed : SUBSET Player]

Window == [run : RunId, from : Time, to : Time]

ASSUME NoneIsNoWindow == None \notin Window

\* Every variable has its type, and known versions are released.
TypeOK ==
  /\ now \in Time /\ released \subseteq Time /\ known \subseteq released
  /\ label \in [Match -> Time \cup {None}]
  /\ sync \in [Player -> Time \cup {None}]
  /\ coverage \in [Player -> Window \cup {None}]
  /\ runs \in [RunId -> Run]
  /\ faults \in 0..MaxFaults

\* A sync time promises that the whole window of the run that set it is stored,
\* wherever earlier executions were interrupted (phase2/phase.go:118-121).
SyncTimeIsKept ==
  \A q \in Player : coverage[q] # None =>
    \A t \in coverage[q].from..(coverage[q].to - 1) : label[<<q, t>>] # None

\* A match is labelled with the version it was played in, also by runs for an
\* older version and by runs resumed after a patch (phase2/phase.go:54-59).  This
\* needs NoGap.
LabelIsPatch == \A m \in Match : label[m] # None => label[m] = PatchOf(m[2])

\* Behind the version of a run that opens its window no version is missing in
\* front of one that is known: what LabelIsPatch rests on.  Phase 0 inserts in the
\* order of the listing (phase0/phase.go:47-56), so that a run that fails between
\* the inserts of two newer versions can leave such a gap.
NoGap ==
  \A r \in RunId : At(r, "window") =>
    \A u \in known : \A v \in released :
      runs[r].version < v /\ v < u => v \in known

\* A run that went through phase 2 has stored every match its version had when
\* the run started, of every player whose calls did not fail, unless another run
\* synced that player after this one started (phase2/phase.go:87-90).
UndisturbedRunIsComplete ==
  \A r \in RunId : At(r, "players") /\ runs[r].todo = {} /\ runs[r].player = None =>
    \A q \in runs[r].active \ runs[r].failed :
      \/ coverage[q] # None /\ coverage[q].run # r /\ sync[q] >= runs[r].started
      \/ \A t \in runs[r].version..(runs[r].started - 1) :
           PatchOf(t) = runs[r].version => label[<<q, t>>] # None
=============================================================================
