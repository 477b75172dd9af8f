--------------------------- MODULE InboundPipeline ---------------------------
(***************************************************************************)
(* From POST /mirachat/inbound to a draft: the API stores the message and  *)
(* enqueues a job, the worker of the queue (processInboundJob) claims the  *)
(* message, has a draft composed, inserts it, rejects the drafts it        *)
(* supersedes, marks the message DONE and enqueues its memory enrichment.  *)
(*                                                                         *)
(* The worker handles one job at a time.  A job that outlasts its expiry   *)
(* is delivered again while its first execution still runs: executions     *)
(* (Runs) overlap only through such detached ones.  A crash of the API     *)
(* process loses the executions and leaves their jobs to expire.           *)
(*                                                                         *)
(* Draft <<m, n>> is the n-th draft written for message m.                 *)
(***************************************************************************)
EXTENDS DraftStore, JobQueue

CONSTANTS
  Runs,       \* executions of processInboundJob, detached ones included
  MaxDrafts,  \* cap on the drafts of one message
  MaxSweeps,  \* cap on the calls of process-pending
  MaxFaults

ASSUME BoundsAreCounts == {MaxDrafts, MaxSweeps, MaxFaults} \subseteq Nat
ASSUME DraftsAreNumbered == Drafts = Messages \X (1..MaxDrafts)
ASSUME MessagesHaveThreads ==
  \A d, e \in Drafts : d[1] = e[1] => ThreadOf[d] = ThreadOf[e]

VARIABLES
  inbound,    \* inbound_messages.status
  drafts,     \* the table outbound_drafts
  now,        \* the clock of the database
  posting,    \* messages stored by requests that have yet to enqueue them
  listed,     \* messages that process-pending read as PENDING and has to enqueue
  waiting,    \* jobs of the inbound queue
  orphaned,   \* active jobs whose worker died
  runs,       \* what each execution is doing
  enrich,     \* how many memory-enrich jobs were enqueued for a message
  outlived,   \* messages with an execution that outlived its job
  sweeps,
  faults

vars == <<inbound, drafts, now, posting, listed, waiting, orphaned, runs,
          enrich, outlived, sweeps, faults>>

InboundStatus == {Absent, "PENDING", "PROCESSING", "DONE", "FAILED"}

NoDraft == <<"none", 0>>
IdleRun == [pc |-> "idle"]

DraftsOf(m) == {d \in Drafts : d[1] = m /\ drafts[d].status # Absent}

Init ==
  /\ inbound = [m \in Messages |-> Absent]
  /\ drafts = EmptyTable
  /\ now = 1
  /\ posting = {} /\ listed = {}
  /\ waiting = EmptyQueue /\ orphaned = EmptyQueue
  /\ runs = [r \in Runs |-> IdleRun]
  /\ enrich = [m \in Messages |-> 0]
  /\ outlived = {}
  /\ sweeps = 0 /\ faults = 0

Fault == faults < MaxFaults /\ faults' = faults + 1

-----------------------------------------------------------------------------
\* The API.

\* Mutant: a message that its gateway posts again takes the row of the first time.
PostOver(m) ==
  /\ inbound[m] \notin {"PENDING", "PROCESSING"}
  /\ inbound' = [inbound EXCEPT ![m] = "PENDING"]
  /\ posting' = posting \cup {m}
  /\ UNCHANGED <<drafts, now, listed, waiting, orphaned, runs, enrich, outlived, sweeps, faults>>

PostInbound(m) ==
  /\ inbound[m] = Absent
  /\ inbound' = [inbound EXCEPT ![m] = "PENDING"]
  /\ posting' = posting \cup {m}
  /\ UNCHANGED <<drafts, now, listed, waiting, orphaned, runs, enrich, outlived, sweeps, faults>>

EnqueuePosted(m) ==
  /\ m \in posting
  /\ posting' = posting \ {m}
  /\ waiting' = Put(waiting, NewJob(m))
  /\ UNCHANGED <<inbound, drafts, now, listed, orphaned, runs, enrich, outlived, sweeps, faults>>

\* boss.send throws: the message is stored, nobody will process it.
EnqueueFails(m) ==
  /\ m \in posting
  /\ Fault
  /\ posting' = posting \ {m}
  /\ UNCHANGED <<inbound, drafts, now, listed, waiting, orphaned, runs, enrich, outlived, sweeps>>

\* process-pending lists the PENDING messages and enqueues them one by one,
\* those that have a job already included.
ProcessPending ==
  /\ listed = {}
  /\ sweeps < MaxSweeps
  /\ listed' = {m \in Messages : inbound[m] = "PENDING"}
  /\ listed' # {}
  /\ sweeps' = sweeps + 1
  /\ UNCHANGED <<inbound, drafts, now, posting, waiting, orphaned, runs, enrich, outlived, faults>>

EnqueueListed(m) ==
  /\ m \in listed
  /\ listed' = listed \ {m}
  /\ waiting' = Put(waiting, NewJob(m))
  /\ UNCHANGED <<inbound, drafts, now, posting, orphaned, runs, enrich, outlived, sweeps, faults>>

-----------------------------------------------------------------------------
\* The worker: processInboundJob.

Attached == {r \in Runs : runs[r].pc # "idle" /\ runs[r].attached}

StartJob(r, job) ==
  /\ runs[r].pc = "idle"
  /\ Attached = {}
  /\ waiting[job] > 0
  /\ waiting' = Take(waiting, job)
  /\ runs' = [runs EXCEPT ![r] =
       [pc |-> "reading", job |-> job, attached |-> TRUE, draft |-> NoDraft]]
  /\ UNCHANGED <<inbound, drafts, now, posting, listed, orphaned, enrich, outlived, sweeps, faults>>

MsgOf(r) == runs[r].job.msg
Goto(r, pc) == runs' = [runs EXCEPT ![r].pc = pc]

\* The handler returns; pg-boss completes the job if it still waits for it.
Return(r) == runs' = [runs EXCEPT ![r] = IdleRun]

\* Inside the try block a statement may also be carried out and its answer be
\* lost, which throws just the same.
Answered(r, pc) == \/ Goto(r, pc) /\ UNCHANGED faults
                   \/ Fault /\ Goto(r, "failing")

\* Mutant: a message in PROCESSING belongs to somebody else.
ReadPendingOnly(r) ==
  /\ runs[r].pc = "reading"
  /\ IF inbound[MsgOf(r)] = "PENDING" THEN Goto(r, "claiming") ELSE Return(r)
  /\ UNCHANGED <<inbound, drafts, now, posting, listed, waiting, orphaned, enrich, outlived, sweeps, faults>>

ReadInbound(r) ==
  /\ runs[r].pc = "reading"
  /\ IF inbound[MsgOf(r)] \in {"PENDING", "PROCESSING"}
     THEN Goto(r, "claiming") ELSE Return(r)
  /\ UNCHANGED <<inbound, drafts, now, posting, listed, waiting, orphaned, enrich, outlived, sweeps, faults>>

Claim(r) ==
  /\ runs[r].pc = "claiming"
  /\ inbound' = [inbound EXCEPT ![MsgOf(r)] = "PROCESSING"]
  /\ Goto(r, "composing")
  /\ UNCHANGED <<drafts, now, posting, listed, waiting, orphaned, enrich, outlived, sweeps, faults>>

\* Context, language model and policy end in one of the three actions.
Compose(r, status) ==
  /\ runs[r].pc = "composing"
  /\ LET d == <<MsgOf(r), Cardinality(DraftsOf(MsgOf(r))) + 1>>
     IN  /\ d \in Drafts
         /\ drafts' = InsertOutboundDraft(drafts, d, status,
                        IF status = "APPROVED" THEN now ELSE 0, now)
         /\ \/ /\ runs' = [runs EXCEPT ![r].pc = "superseding", ![r].draft = d]
               /\ UNCHANGED faults
            \/ Fault /\ Goto(r, "failing")
  /\ now' = now + 1
  /\ UNCHANGED <<inbound, posting, listed, waiting, orphaned, enrich, outlived, sweeps>>

\* Mutant: only a draft that waits for review supersedes the older ones.
SupersedeForReview(r) ==
  /\ runs[r].pc = "superseding"
  /\ drafts' = IF drafts[runs[r].draft].status = "DRAFTED"
               THEN RejectSupersededDraftsForThread(drafts, runs[r].draft) ELSE drafts
  /\ Answered(r, "finishing")
  /\ UNCHANGED <<inbound, now, posting, listed, waiting, orphaned, enrich, outlived, sweeps>>

Supersede(r) ==
  /\ runs[r].pc = "superseding"
  /\ drafts' = RejectSupersededDraftsForThread(drafts, runs[r].draft)
  /\ Answered(r, "finishing")
  /\ UNCHANGED <<inbound, now, posting, listed, waiting, orphaned, enrich, outlived, sweeps>>

\* Mutant: only what a person has to look at is enriched.
FinishSent(r) ==
  /\ runs[r].pc = "finishing"
  /\ inbound' = [inbound EXCEPT ![MsgOf(r)] = "DONE"]
  /\ IF drafts[runs[r].draft].status = "DRAFTED" THEN Answered(r, "enriching")
     ELSE Return(r) /\ UNCHANGED faults
  /\ UNCHANGED <<drafts, now, posting, listed, waiting, orphaned, enrich, outlived, sweeps>>

Finish(r) ==
  /\ runs[r].pc = "finishing"
  /\ inbound' = [inbound EXCEPT ![MsgOf(r)] = "DONE"]
  /\ Answered(r, "enriching")
  /\ UNCHANGED <<drafts, now, posting, listed, waiting, orphaned, enrich, outlived, sweeps>>

\* A failed send of the enrichment job is only logged.
EnqueueEnrichment(r) ==
  /\ runs[r].pc = "enriching"
  /\ \/ enrich' = [enrich EXCEPT ![MsgOf(r)] = @ + 1] /\ UNCHANGED faults
     \/ Fault /\ UNCHANGED enrich
  /\ Return(r)
  /\ UNCHANGED <<inbound, drafts, now, posting, listed, waiting, orphaned, outlived, sweeps>>

\* The language model gives up, or a statement of the try block is not carried
\* out (a fault).
StepFails(r) ==
  /\ \/ runs[r].pc = "composing" /\ UNCHANGED faults
     \/ runs[r].pc \in {"superseding", "finishing"} /\ Fault
  /\ Goto(r, "failing")
  /\ UNCHANGED <<inbound, drafts, now, posting, listed, waiting, orphaned, enrich, outlived, sweeps>>

MarkFailed(r) ==
  /\ runs[r].pc = "failing"
  /\ inbound' = [inbound EXCEPT ![MsgOf(r)] = "FAILED"]
  /\ Return(r)
  /\ UNCHANGED <<drafts, now, posting, listed, waiting, orphaned, enrich, outlived, sweeps, faults>>

\* Outside the try block an exception reaches pg-boss, which retries the job.
Throws(r) ==
  /\ runs[r].pc \in {"reading", "claiming", "failing"}
  /\ Fault
  /\ \/ UNCHANGED inbound
     \/ runs[r].pc = "claiming" /\ inbound' = [inbound EXCEPT ![MsgOf(r)] = "PROCESSING"]
     \/ runs[r].pc = "failing" /\ inbound' = [inbound EXCEPT ![MsgOf(r)] = "FAILED"]
  /\ waiting' = IF runs[r].attached THEN Retry(waiting, runs[r].job) ELSE waiting
  /\ Return(r)
  /\ UNCHANGED <<drafts, now, posting, listed, orphaned, enrich, outlived, sweeps>>

\* The job expires under a live execution, which runs on.
Expire(r) ==
  /\ runs[r].pc # "idle"
  /\ runs[r].attached
  /\ Fault
  /\ waiting' = Retry(waiting, runs[r].job)
  /\ outlived' = outlived \cup {MsgOf(r)}
  /\ runs' = [runs EXCEPT ![r].attached = FALSE]
  /\ UNCHANGED <<inbound, drafts, now, posting, listed, orphaned, enrich, sweeps>>

ApiCrash ==
  /\ Fault
  /\ orphaned' = [job \in Job |->
       orphaned[job] + Cardinality({r \in Attached : runs[r].job = job})]
  /\ runs' = [r \in Runs |-> IdleRun]
  /\ posting' = {} /\ listed' = {}
  /\ UNCHANGED <<inbound, drafts, now, waiting, enrich, outlived, sweeps>>

OrphanExpires(job) ==
  /\ orphaned[job] > 0
  /\ orphaned' = Take(orphaned, job)
  /\ waiting' = Retry(waiting, job)
  /\ UNCHANGED <<inbound, drafts, now, posting, listed, runs, enrich, outlived, sweeps, faults>>

-----------------------------------------------------------------------------
Api ==
  \/ \E m \in Messages : \/ PostInbound(m)
                         \/ EnqueuePosted(m)
                         \/ EnqueueFails(m)
                         \/ EnqueueListed(m)
  \/ ProcessPending
  \/ ApiCrash

RunStep(r) ==
  \/ \E job \in Job : StartJob(r, job)
  \/ ReadInbound(r)
  \/ Claim(r)
  \/ \E status \in {"DRAFTED", "APPROVED", "REJECTED"} : Compose(r, status)
  \/ Supersede(r)
  \/ Finish(r)
  \/ EnqueueEnrichment(r)
  \/ StepFails(r)
  \/ MarkFailed(r)

Next ==
  \/ Api
  \/ \E r \in Runs : RunStep(r) \/ Throws(r) \/ Expire(r)
  \/ \E job \in Job : OrphanExpires(job)

Spec == Init /\ [][Next]_vars

\* The worker polls its queue, every await of an execution ends, and pg-boss
\* expires what nobody works on.  Nothing here goes in circles, so it is enough
\* that one of them goes on as long as one can.
GoesOn   == (\E r \in Runs : RunStep(r)) \/ (\E job \in Job : OrphanExpires(job))
Fairness == WF_vars(GoesOn)

FairSpec == Spec /\ Fairness

-----------------------------------------------------------------------------
RunStates ==
  {IdleRun} \cup
  [pc : {"reading", "claiming", "composing", "superseding", "finishing",
         "enriching", "failing"},
   job : Job, attached : BOOLEAN, draft : Drafts \cup {NoDraft}]

\* The type of every variable.
TypeOK ==
  /\ inbound \in [Messages -> InboundStatus]
  /\ drafts \in [Drafts -> Row]
  /\ now \in Nat
  /\ posting \subseteq Messages /\ listed \subseteq Messages
  /\ waiting \in Queues /\ orphaned \in Queues
  /\ runs \in [Runs -> RunStates]
  /\ enrich \in [Messages -> Nat]
  /\ outlived \subseteq Messages
  /\ sweeps \in 0..MaxSweeps /\ faults \in 0..MaxFaults

Settled == {"DONE", "FAILED"}

\* A DONE message has been answered: one of its drafts has no older draft of
\* its thread left to review beside it.
DoneIsAnswered ==
  \A m \in Messages : inbound[m] = "DONE" =>
    \E d \in DraftsOf(m) : Superseded(drafts, d) = {}

\* A message is drafted again, and may be sent again, only after faults: jobs
\* that process-pending adds do not redraft it by themselves.
RedraftsExplained ==
  \A m \in Messages : Cardinality(DraftsOf(m)) <= 1 + 2 * faults

\* A message that was answered or failed is never taken up again, crashes and
\* redeliveries included, unless an execution outlived its job: that one claims
\* the message whatever became of it since it read its status.
SettledStands ==
  [][\A m \in Messages \ outlived :
       inbound[m] \in Settled => inbound'[m] \in Settled]_vars

\* Enrichment is only enqueued for a message that was answered, and again only
\* if the message was processed again; and of a message that is DONE it is only
\* left out by a fault, since no redelivery makes up for it.
EnrichmentFollowsDraft ==
  \A m \in Messages :
    /\ enrich[m] <= Cardinality(DraftsOf(m))
    /\ inbound[m] = "DONE" /\ faults = 0 =>
         enrich[m] = 1 \/ \E r \in Runs : runs[r].pc = "enriching" /\ MsgOf(r) = m

\* Drafts and enrichments of a message repeat only as far as faults explain it.
DraftsAreExplained == RedraftsExplained /\ EnrichmentFollowsDraft

\* A message whose job waits is answered or failed in the end, if there are no
\* more faults than retries.
QueuedIsSettled ==
  \A m \in Messages :
    (\E job \in Job : job.msg = m /\ waiting[job] > 0) ~> inbound[m] \in Settled
=============================================================================
