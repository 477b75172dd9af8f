-------------------------------- MODULE DoerRuns --------------------------------
(***************************************************************************)
(* The OpenClaw doer (packages/openclaw-doer): a process of its own that   *)
(* carries a task out, for a draft that is triaged or by itself, and says  *)
(* in JSON what it did.  The API waits for it to close; it has no limit of *)
(* its own, the process is only told one.  OutboundDrafts has what becomes *)
(* of the draft; here is how the API comes to say that a doer has done its *)
(* task, or has not.                                                       *)
(***************************************************************************)
EXTENDS Naturals, FiniteSets

CONSTANTS
  Runs,       \* requests with a doer
  MaxFaults

VARIABLES
  configured, \* MIRACHAT_OPENCLAW_AGENT_ID, SESSION_ID or TO is set
  run,        \* the requests
  child,      \* the process of each, and what it has written
  acted,      \* the task is carried out
  log,        \* delegation_events
  faults

vars == <<configured, run, child, acted, log, faults>>

Idle    == [at |-> "idle", draft |-> FALSE, result |-> "none", unlogged |-> FALSE]
NoChild == [at |-> "none", wrote |-> "nothing", code |-> "none"]

Init ==
  /\ configured \in BOOLEAN
  /\ run = [r \in Runs |-> Idle] /\ child = [r \in Runs |-> NoChild]
  /\ acted = {} /\ log = {} /\ faults = 0

Fault == faults < MaxFaults /\ faults' = faults + 1
Event(type, r) == [type |-> type, run |-> r]

-----------------------------------------------------------------------------
\* resolveSelector: somebody must be named to act, by the request or by default.
Selects(names) == names \/ configured

\* OpenClawDoerClient.run: the process is spawned, or the run refused at once.
Begins(r, names) == IF Selects(names) THEN "running" ELSE "refused"
Spawns(r, names) == child' = IF Selects(names) THEN [child EXCEPT ![r].at = "running"] ELSE child

\* POST /mirachat/doer/openclaw/run.
RunTask(r, names) ==
  /\ run[r].at = "idle" /\ Spawns(r, names)
  /\ run' = [run EXCEPT ![r].at = Begins(r, names)]
  /\ UNCHANGED <<configured, acted, log, faults>>

\* parseOpenClawDoerRequest has found a doer in the request of a triage; what it says of
\* the draft is there.
RunForDraft(r) ==
  /\ run[r].at = "idle"
  /\ run' = [run EXCEPT ![r].at = "starting", ![r].draft = TRUE]
  /\ UNCHANGED <<configured, child, acted, log, faults>>

\* runOpenClawDoerForDraft: first the start is logged.
LogStart(r, names) ==
  /\ run[r].at = "starting"
  /\ log' = log \cup {Event("doer.started", r)} /\ Spawns(r, names)
  /\ run' = [run EXCEPT ![r].at = Begins(r, names)]
  /\ UNCHANGED <<configured, acted, faults>>

\* An insert fails.  That of the end of a run is inside the same try as the run.
LogFails(r) ==
  /\ run[r].at \in {"starting", "completing", "failing"} /\ Fault
  /\ run' = [run EXCEPT ![r] =
       IF @.at = "completing" THEN [@ EXCEPT !.at = "failing", !.result = "error", !.unlogged = TRUE]
       ELSE [@ EXCEPT !.at = "answered", !.result = "error"]]
  /\ UNCHANGED <<configured, child, acted, log>>

-----------------------------------------------------------------------------
\* The agent, as the API knows it: it acts, then writes what it did, in pieces, and exits.
Acts(r) ==
  /\ child[r].at = "running" /\ acted' = acted \cup {r}
  /\ UNCHANGED <<configured, run, child, log, faults>>

Writes(r) ==
  /\ child[r].at = "running" /\ r \in acted
  /\ \/ child[r].wrote = "nothing" /\ child' = [child EXCEPT ![r].wrote = "part"]
     \/ child[r].wrote = "part" /\ child' = [child EXCEPT ![r].wrote = "whole"]
  /\ UNCHANGED <<configured, run, acted, log, faults>>

Exits(r) ==
  /\ child[r].at = "running" /\ child[r].wrote = "whole"
  /\ child' = [child EXCEPT ![r].at = "closed", ![r].code = "zero"]
  /\ UNCHANGED <<configured, run, acted, log, faults>>

\* It gives up, or is killed by a signal, whatever it has done.
Breaks(r) ==
  /\ child[r].at = "running" /\ Fault
  /\ child' = [child EXCEPT ![r].at = "closed", ![r].code = "nonzero"]
  /\ UNCHANGED <<configured, run, acted, log>>

Killed(r) ==
  /\ child[r].at = "running" /\ Fault
  /\ child' = [child EXCEPT ![r].at = "closed", ![r].code = "none"]
  /\ UNCHANGED <<configured, run, acted, log>>

\* The program that was chosen by detectPreferredNodeBin is not there.
NotSpawned(r) ==
  /\ child[r].at = "running" /\ child[r].wrote = "nothing" /\ r \notin acted /\ Fault
  /\ child' = [child EXCEPT ![r].at = "missing"]
  /\ UNCHANGED <<configured, run, acted, log>>

-----------------------------------------------------------------------------
\* Mutant: the output is not parsed.
TrustsCode(r) == child[r].at = "closed" /\ child[r].code # "nonzero"

\* run, once the process has closed: a signal leaves no code, which counts as zero; then
\* what was written must be JSON.
IsDone(r) == child[r].at = "closed" /\ child[r].code # "nonzero" /\ child[r].wrote = "whole"

\* runCommand resolves or rejects, and run throws or returns.
Ends(r) ==
  /\ \/ run[r].at = "running" /\ child[r].at # "running"
     \/ run[r].at = "refused"
  /\ run' = [run EXCEPT ![r].result = IF IsDone(r) THEN "done" ELSE "error",
                        ![r].at = IF ~run[r].draft THEN "answered"
                                  ELSE IF IsDone(r) THEN "completing" ELSE "failing"]
  /\ UNCHANGED <<configured, child, acted, log, faults>>

\* The end is logged before the route goes on with the draft, or answers 502.
LogEnd(r) ==
  /\ run[r].at \in {"completing", "failing"}
  /\ log' = log \cup {Event(IF run[r].at = "completing" THEN "doer.completed" ELSE "doer.failed", r)}
  /\ run' = [run EXCEPT ![r].at = "answered"]
  /\ UNCHANGED <<configured, child, acted, faults>>

\* The API exits; the processes it has spawned go on.
ApiCrash ==
  /\ Fault /\ \E r \in Runs : run[r].at \notin {"idle", "answered", "lost"}
  /\ run' = [r \in Runs |-> IF run[r].at \in {"idle", "answered"} THEN run[r]
                            ELSE [run[r] EXCEPT !.at = "lost", !.result = "none"]]
  /\ UNCHANGED <<configured, child, acted, log>>

Next ==
  \/ \E r \in Runs :
       \/ \E names \in BOOLEAN : RunTask(r, names) \/ LogStart(r, names)
       \/ RunForDraft(r) \/ LogFails(r)
       \/ Acts(r) \/ Writes(r) \/ Exits(r) \/ Breaks(r) \/ Killed(r) \/ NotSpawned(r)
       \/ Ends(r) \/ LogEnd(r)
  \/ ApiCrash

Spec == Init /\ [][Next]_vars

-----------------------------------------------------------------------------
\* The type of what is under way.
TypeOK ==
  /\ configured \in BOOLEAN /\ faults \in 0..MaxFaults /\ acted \subseteq Runs
  /\ run \in [Runs -> [at : {"idle", "starting", "running", "refused", "completing", "failing", "answered", "lost"},
                       draft : BOOLEAN, result : {"none", "done", "error"}, unlogged : BOOLEAN]]
  /\ child \in [Runs -> [at : {"none", "running", "closed", "missing"}, wrote : {"nothing", "part", "whole"},
                         code : {"none", "zero", "nonzero"}]]
  /\ log \subseteq [type : {"doer.started", "doer.completed", "doer.failed"}, run : Runs]

Logged(type, r) == Event(type, r) \in log

\* Who is told that a task was done can rely on it, and so can the log: it was carried
\* out and reported whole, and nothing is left running.
DoneWasDone ==
  \A r \in Runs :
    run[r].result = "done" \/ Logged("doer.completed", r) =>
      r \in acted /\ child[r].wrote = "whole" /\ child[r].at = "closed"

\* Who is told that it failed cannot: it was done all the same if the process broke or was
\* cut short after it had acted, or if the log could not take that it was done.
FailedMayBeDone ==
  \A r \in Runs :
    run[r].result = "error" /\ r \in acted =>
      child[r].code = "nonzero" \/ child[r].wrote # "whole" \/ run[r].unlogged

\* A doer acts for a draft only where the log has its start; it has one end, if any, and
\* an answered run for a draft that has none failed with its log.
RunsAreLogged ==
  \A r \in Runs : run[r].draft =>
    /\ child[r].at # "none" \/ Logged("doer.completed", r) \/ Logged("doer.failed", r) => Logged("doer.started", r)
    /\ ~(Logged("doer.completed", r) /\ Logged("doer.failed", r))
    /\ run[r].at = "answered" /\ run[r].result = "done" => Logged("doer.completed", r)
    /\ run[r].at = "answered" /\ faults = 0 =>
         Logged("doer.completed", r) \/ Logged("doer.failed", r)

DoersAreTold == DoneWasDone /\ FailedMayBeDone /\ RunsAreLogged
=============================================================================
