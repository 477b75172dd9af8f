--------------------------- MODULE MemoryEnrichment ---------------------------
(***************************************************************************)
(* Structured memory of one user: the worker of the memory-enrich queue    *)
(* (processMemoryEnrichJob) has a language model extract entities, events  *)
(* and a narrative from an answered inbound message and stores each with   *)
(* statements of their own, then records the outcome.  An error in between *)
(* is recorded as "failed" and ends the job; only an exception outside the *)
(* try block is retried.                                                   *)
(*                                                                         *)
(* As in InboundPipeline, executions overlap only through one that has     *)
(* outlived its job.                                                       *)
(***************************************************************************)
EXTENDS JobQueue, FiniteSets

CONSTANTS
  Runs,       \* executions of processMemoryEnrichJob
  LowSignal,  \* messages isLowSignalInboundText holds of
  MaxEvents,  \* cap on the events of one answer of the model
  MaxSends,   \* cap on the jobs enqueued for each message
  MaxFaults

ASSUME LowSignalAreMessages == LowSignal \subseteq Messages
ASSUME EventsAreCounted == MaxEvents \in Nat
ASSUME FaultsAreCounted == MaxFaults \in Nat

VARIABLES
  done,       \* inbound_messages.status = 'DONE'
  sends,      \* jobs enqueued for a message
  record,     \* memory_enrichment_runs.status
  entities,   \* messages whose entities are in memory_entities
  events,     \* how many rows of memory_events come from a message
  narrative,  \* memory_narrative_snapshots; version 0 while there is no row
  hasKey,     \* the process was started with OPENROUTER_API_KEY
  promised,   \* messages recorded as success whose answer had a narrative
  waiting, orphaned, runs, outlived, faults

vars == <<done, sends, record, entities, events, narrative, hasKey, promised,
          waiting, orphaned, runs, outlived, faults>>
stored == <<entities, events, narrative>>
queued == <<done, sends, waiting, orphaned, outlived, hasKey>>

NoRow == [version |-> 0, covers |-> {}]
IdleRun == [pc |-> "idle"]

Init ==
  /\ done = [m \in Messages |-> FALSE]
  /\ sends = [m \in Messages |-> 0]
  /\ record = [m \in Messages |-> "none"]
  /\ entities = {}
  /\ events = [m \in Messages |-> 0]
  /\ narrative = NoRow
  /\ hasKey \in BOOLEAN
  /\ promised = {}
  /\ waiting = EmptyQueue /\ orphaned = EmptyQueue
  /\ runs = [r \in Runs |-> IdleRun]
  /\ outlived = {}
  /\ faults = 0

Fault == faults < MaxFaults /\ faults' = faults + 1

MsgOf(r) == runs[r].job.msg
Attached == {r \in Runs : runs[r].pc # "idle" /\ runs[r].attached}
Goto(r, pc) == runs' = [runs EXCEPT ![r].pc = pc]
Return(r) == runs' = [runs EXCEPT ![r] = IdleRun]

\* The answer to a statement may be lost after it was carried out.
Answered(r, pc) == \/ Goto(r, pc) /\ UNCHANGED faults
                   \/ Fault /\ Goto(r, "failing")

-----------------------------------------------------------------------------
\* The inbound worker marks the message DONE and enqueues it; executions that
\* outlive their jobs do so again.
Finish(m) ==
  /\ sends[m] < MaxSends[m]
  /\ done' = [done EXCEPT ![m] = TRUE]
  /\ sends' = [sends EXCEPT ![m] = @ + 1]
  /\ waiting' = Put(waiting, NewJob(m))
  /\ UNCHANGED <<record, stored, hasKey, promised, orphaned, runs, outlived, faults>>

\* Such an execution claims or fails a message that was DONE.
Reclaim(m) ==
  /\ done[m]
  /\ Fault
  /\ done' = [done EXCEPT ![m] = FALSE]
  /\ UNCHANGED <<sends, record, stored, hasKey, promised, waiting, orphaned, runs, outlived>>

-----------------------------------------------------------------------------
\* processMemoryEnrichJob.

StartJob(r, job) ==
  /\ runs[r].pc = "idle"
  /\ Attached = {}
  /\ waiting[job] > 0
  /\ waiting' = Take(waiting, job)
  /\ runs' = [runs EXCEPT ![r] =
       [pc |-> "reading", job |-> job, attached |-> TRUE, prior |-> NoRow,
        answer |-> [events |-> 0, delta |-> FALSE]]]
  /\ UNCHANGED <<done, sends, record, stored, hasKey, promised, orphaned, outlived, faults>>

ReadInbound(r) ==
  /\ runs[r].pc = "reading"
  /\ IF done[MsgOf(r)] THEN Goto(r, "checking") ELSE Return(r)
  /\ UNCHANGED <<record, stored, promised, queued, faults>>

\* Mutant: only a success ends the job, as if a skipped message could be tried again.
CheckSuccessOnly(r) ==
  /\ runs[r].pc = "checking"
  /\ \/ record[MsgOf(r)] = "success" /\ Return(r)
     \/ /\ record[MsgOf(r)] # "success"
        /\ Goto(r, IF MsgOf(r) \in LowSignal \/ ~hasKey THEN "skipping" ELSE "recalling")
  /\ UNCHANGED <<record, stored, promised, queued, faults>>

CheckRecord(r) ==
  /\ runs[r].pc = "checking"
  /\ \/ record[MsgOf(r)] \in {"success", "skipped"} /\ Return(r)
     \/ /\ record[MsgOf(r)] \notin {"success", "skipped"}
        /\ Goto(r, IF MsgOf(r) \in LowSignal \/ ~hasKey THEN "skipping" ELSE "recalling")
  /\ UNCHANGED <<record, stored, promised, queued, faults>>

\* Mutant: the reason is stored as the status.
SkipReason(r) ==
  /\ runs[r].pc = "skipping"
  /\ record' = [record EXCEPT ![MsgOf(r)] = "low_signal"]
  /\ Return(r)
  /\ UNCHANGED <<stored, promised, queued, faults>>

Skip(r) ==
  /\ runs[r].pc = "skipping"
  /\ record' = [record EXCEPT ![MsgOf(r)] = "skipped"]
  /\ Return(r)
  /\ UNCHANGED <<stored, promised, queued, faults>>

\* The prompt quotes the narrative; its version is kept for the upsert.
ReadNarrative(r) ==
  /\ runs[r].pc = "recalling"
  /\ runs' = [runs EXCEPT ![r].pc = "asking", ![r].prior = narrative]
  /\ UNCHANGED <<record, stored, promised, queued, faults>>

\* Mutant: a null answer just ends the job.
AskFailsSilently(r) ==
  /\ runs[r].pc = "asking"
  /\ Return(r)
  /\ UNCHANGED <<record, stored, promised, queued, faults>>

\* openRouterMemoryEnrichment answers null whatever went wrong: the outcome is
\* recorded and the job is over.
AskFails(r) ==
  /\ runs[r].pc = "asking"
  /\ Goto(r, "failing")
  /\ UNCHANGED <<record, stored, promised, queued, faults>>

Ask(r, n, delta) ==
  /\ runs[r].pc = "asking"
  /\ runs' = [runs EXCEPT ![r].pc = "entities",
                          ![r].answer = [events |-> n, delta |-> delta]]
  /\ UNCHANGED <<record, stored, promised, queued, faults>>

UpsertEntities(r) ==
  /\ runs[r].pc = "entities"
  /\ entities' = entities \cup {MsgOf(r)}
  /\ Answered(r, "events")
  /\ UNCHANGED <<record, events, narrative, promised, queued>>

InsertEvent(r) ==
  /\ runs[r].pc = "events"
  /\ runs[r].answer.events > 0
  /\ events' = [events EXCEPT ![MsgOf(r)] = @ + 1]
  /\ \/ runs' = [runs EXCEPT ![r].answer.events = @ - 1] /\ UNCHANGED faults
     \/ Fault /\ Goto(r, "failing")
  /\ UNCHANGED <<record, entities, narrative, promised, queued>>

EventsInserted(r) ==
  /\ runs[r].pc = "events"
  /\ runs[r].answer.events = 0
  /\ Goto(r, IF runs[r].answer.delta THEN "narrating" ELSE "recording")
  /\ UNCHANGED <<record, stored, promised, queued, faults>>

\* Mutant: an upsert without the version.
UpsertedBlindly(r) ==
  [version |-> narrative.version + 1,
   covers |-> runs[r].prior.covers \cup {MsgOf(r)}]

\* Mutant: only an INSERT can succeed.
UpsertedOnce(r) ==
  IF narrative.version = 0
  THEN [version |-> 1, covers |-> {MsgOf(r)}]
  ELSE narrative

\* INSERT, or UPDATE where the version is still the one that was read.  A
\* conflict is logged and the execution goes on.
Upserted(r) ==
  IF narrative.version \in {0, runs[r].prior.version}
  THEN [version |-> narrative.version + 1,
        covers |-> runs[r].prior.covers \cup {MsgOf(r)}]
  ELSE narrative

UpsertNarrative(r) ==
  /\ runs[r].pc = "narrating"
  /\ narrative' = Upserted(r)
  /\ Answered(r, "recording")
  /\ UNCHANGED <<record, entities, events, promised, queued>>

\* Mutant: the outcome is not recorded.
RecordNothing(r) ==
  /\ runs[r].pc = "recording"
  /\ Return(r)
  /\ UNCHANGED <<record, promised, faults, stored, queued>>

RecordSuccess(r) ==
  /\ runs[r].pc = "recording"
  /\ record' = [record EXCEPT ![MsgOf(r)] = "success"]
  /\ promised' = IF runs[r].answer.delta THEN promised \cup {MsgOf(r)} ELSE promised
  /\ \/ Return(r) /\ UNCHANGED faults
     \/ Fault /\ Goto(r, "failing")
  /\ UNCHANGED <<stored, queued>>

\* A statement of the try block is not carried out.
StepFails(r) ==
  /\ runs[r].pc \in {"recalling", "entities", "events", "narrating", "recording"}
  /\ Fault
  /\ Goto(r, "failing")
  /\ UNCHANGED <<record, stored, promised, queued>>

RecordFailure(r) ==
  /\ runs[r].pc = "failing"
  /\ record' = [record EXCEPT ![MsgOf(r)] = "failed"]
  /\ promised' = promised \ {MsgOf(r)}
  /\ Return(r)
  /\ UNCHANGED <<stored, queued, faults>>

-----------------------------------------------------------------------------
\* Outside the try block, an exception reaches pg-boss.
Throws(r) ==
  /\ runs[r].pc \in {"reading", "checking", "skipping", "failing"}
  /\ Fault
  /\ \/ UNCHANGED <<record, promised>>
     \/ /\ runs[r].pc = "skipping"
        /\ record' = [record EXCEPT ![MsgOf(r)] = "skipped"]
        /\ UNCHANGED promised
     \/ /\ runs[r].pc = "failing"
        /\ record' = [record EXCEPT ![MsgOf(r)] = "failed"]
        /\ promised' = promised \ {MsgOf(r)}
  /\ waiting' = IF runs[r].attached THEN Retry(waiting, runs[r].job) ELSE waiting
  /\ Return(r)
  /\ UNCHANGED <<done, sends, stored, hasKey, orphaned, outlived>>

Expire(r) ==
  /\ runs[r].pc # "idle"
  /\ runs[r].attached
  /\ Fault
  /\ waiting' = Retry(waiting, runs[r].job)
  /\ outlived' = outlived \cup {MsgOf(r)}
  /\ runs' = [runs EXCEPT ![r].attached = FALSE]
  /\ UNCHANGED <<done, sends, record, stored, hasKey, promised, orphaned>>

\* The API crashes and is started again, perhaps with other settings.
ApiCrash ==
  /\ Fault
  /\ orphaned' = [job \in Job |->
       orphaned[job] + Cardinality({r \in Attached : runs[r].job = job})]
  /\ runs' = [r \in Runs |-> IdleRun]
  /\ hasKey' \in BOOLEAN
  /\ UNCHANGED <<done, sends, record, stored, promised, waiting, outlived>>

OrphanExpires(job) ==
  /\ orphaned[job] > 0
  /\ orphaned' = Take(orphaned, job)
  /\ waiting' = Retry(waiting, job)
  /\ UNCHANGED <<done, sends, record, stored, hasKey, promised, runs, outlived, faults>>

-----------------------------------------------------------------------------
RunStep(r) ==
  \/ \E job \in Job : StartJob(r, job)
  \/ ReadInbound(r) \/ CheckRecord(r) \/ Skip(r) \/ ReadNarrative(r)
  \/ AskFails(r)
  \/ \E n \in 0..MaxEvents, delta \in BOOLEAN : Ask(r, n, delta)
  \/ UpsertEntities(r) \/ InsertEvent(r) \/ EventsInserted(r)
  \/ UpsertNarrative(r) \/ RecordSuccess(r) \/ RecordFailure(r)

Next ==
  \/ \E m \in Messages : Finish(m) \/ Reclaim(m)
  \/ \E r \in Runs : RunStep(r) \/ StepFails(r) \/ Throws(r) \/ Expire(r)
  \/ ApiCrash
  \/ \E job \in Job : OrphanExpires(job)

Spec == Init /\ [][Next]_vars

\* As for the inbound queue: the worker polls, awaits end, orphans expire.
Fairness ==
  /\ \A r \in Runs : WF_vars(RunStep(r))
  /\ \A job \in Job : WF_vars(OrphanExpires(job))

FairSpec == Spec /\ Fairness

-----------------------------------------------------------------------------
Narratives == [version : Nat, covers : SUBSET Messages]

RunStates ==
  {IdleRun} \cup
  [pc : {"reading", "checking", "skipping", "recalling", "asking", "entities",
         "events", "narrating", "recording", "failing"},
   job : Job, attached : BOOLEAN, prior : Narratives,
   answer : [events : 0..MaxEvents, delta : BOOLEAN]]

\* The type of every variable.
TypeOK ==
  /\ done \in [Messages -> BOOLEAN]
  /\ sends \in [Messages -> Nat]
  /\ record \in [Messages -> {"none", "skipped", "success", "failed"}]
  /\ entities \subseteq Messages
  /\ events \in [Messages -> Nat]
  /\ narrative \in Narratives
  /\ hasKey \in BOOLEAN
  /\ promised \subseteq Messages
  /\ waiting \in Queues /\ orphaned \in Queues
  /\ runs \in [Runs -> RunStates]
  /\ outlived \subseteq Messages
  /\ faults \in 0..MaxFaults

\* No lost update: an enrichment never replaces the narrative by one composed
\* from an older narrative, overlapping executions included.
NarrativeKeeps == [][narrative.covers \subseteq narrative'.covers]_vars

\* A message recorded as a success is in the narrative if the model gave it a
\* part there, unless an execution outlived its job: the version conflict that
\* can cause is logged and recorded as a success all the same.
SuccessIsNarrated == outlived = {} => promised \subseteq narrative.covers

\* A settled outcome stands, whatever jobs are enqueued or delivered again.  An
\* execution that outlived its job, or whose record was made and the answer to
\* it lost, replaces it by its own.
SettledRecordStands ==
  [][\A m \in Messages \ outlived :
       (record[m] \in {"success", "skipped"} /\ record'[m] # record[m]) =>
         \E r \in Runs : runs[r].pc = "failing" /\ MsgOf(r) = m]_vars

\* Events are inserted once per successful run, and again only after faults.
EventsExplained ==
  \A m \in Messages : events[m] <= MaxEvents * (1 + faults)

\* A message whose job waits gets an outcome recorded, if there are no more
\* faults than retries, or its answer is being redone.
EnqueuedIsRecorded ==
  \A m \in Messages :
    (\E job \in Job : job.msg = m /\ waiting[job] > 0)
      ~> (record[m] # "none" \/ ~done[m])

-----------------------------------------------------------------------------
\* What docs/system-design-proxy-self.md (14.9) says and the code does not do.

\* "upserts are merges, not blind inserts": processing a message again adds no
\* events to those of its answer.
EventsAreMerged == \A m \in Messages : events[m] <= MaxEvents
=============================================================================
