--------------------------- MODULE RegionExecutor ---------------------------
(***************************************************************************)
(* What the crawler promises about runs, whatever processes, locks,        *)
(* strategies and phases are behind it: a region executes at most one run; *)
(* a run is born executing, into a region none of whose runs is 'running'; *)
(* only an execution completes a run; and only a run that is not completed *)
(* is taken up again.  Module CrawlRun implements this specification       *)
(* (CrawlRun!ImplementsRegionExecutor).                                    *)
(***************************************************************************)
CONSTANTS Region, RunId, None

VARIABLES
  status,     \* run -> "none" before it is created, or its status
  home,       \* run -> its region
  executing   \* region -> the set of runs executed there

vars == <<status, home, executing>>

Init ==
  /\ status = [i \in RunId |-> "none"]
  /\ home = [i \in RunId |-> None]
  /\ executing = [r \in Region |-> {}]

Idle(r) == executing[r] = {}

Begin(i, r) ==
  /\ Idle(r)
  /\ status[i] = "none"
  /\ \A j \in RunId : home[j] = r => status[j] # "running"
  /\ status' = [status EXCEPT ![i] = "running"]
  /\ home' = [home EXCEPT ![i] = r]
  /\ executing' = [executing EXCEPT ![r] = {i}]

\* A run left 'running' by a crash, or a failed one, is executed again.
Resume(i, r) ==
  /\ Idle(r) /\ home[i] = r
  /\ status[i] \in {"running", "failed"}
  /\ executing' = [executing EXCEPT ![r] = {i}]
  /\ UNCHANGED <<status, home>>

\* The execution takes back that the run failed.
Reopen(i, r) ==
  /\ executing[r] = {i} /\ status[i] = "failed"
  /\ status' = [status EXCEPT ![i] = "running"]
  /\ UNCHANGED <<home, executing>>

Settle(i, r, final) ==
  /\ executing[r] = {i}
  /\ status' = [status EXCEPT ![i] = final]
  /\ executing' = [executing EXCEPT ![r] = {}]
  /\ UNCHANGED home

\* A crash, a signal, or a last UPDATE that fails.
Abandon(r) ==
  /\ executing' = [executing EXCEPT ![r] = {}]
  /\ UNCHANGED <<status, home>>

\* An operator cancels any run, executed or not.
Cancel(i) ==
  /\ status[i] # "none"
  /\ status' = [status EXCEPT ![i] = "failed"]
  /\ UNCHANGED <<home, executing>>

Next ==
  \/ \E r \in Region :
       \/ Abandon(r)
       \/ \E i \in RunId :
            \/ Begin(i, r) \/ Resume(i, r) \/ Reopen(i, r)
            \/ \E final \in {"completed", "failed"} : Settle(i, r, final)
  \/ \E i \in RunId : Cancel(i)

Spec == Init /\ [][Next]_vars
=============================================================================
