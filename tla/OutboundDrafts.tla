--------------------------- MODULE OutboundDrafts ---------------------------
(***************************************************************************)
(* The life of an outbound draft: the worker of the inbound queue inserts  *)
(* it, people triage it through the API (and may have a doer carry it      *)
(* out), and one gateway polls the approved drafts of its account, sends   *)
(* them over its channel and reports the outcome.                          *)
(*                                                                         *)
(* Everybody runs concurrently and meets only in the table: an API handler *)
(* reads a row, awaits, and writes it; a gateway's poll works through the  *)
(* list it fetched, while the next poll, started by setInterval, may       *)
(* already run.  The wording of a message is all that is kept of it.       *)
(*                                                                         *)
(* The gateways differ in two ways that matter, so they are constants:     *)
(*   GuardsInFlight   wechaty skips a draft another poll is sending;       *)
(*   ReportsFailures  telegram, twilio and wecom call mark-send-failed;    *)
(*                    wechaty and whatsapp only log.                       *)
(* Faults (crashes, lost calls, failed queries, sends that fail although   *)
(* the target exists) are bounded by MaxFaults, so that what must hold     *)
(* without them can be told apart.                                         *)
(***************************************************************************)
EXTENDS DraftStore

CONSTANTS
  Handlers,         \* concurrent triage requests in the API process
  Pollers,          \* overlapping polls of the gateway
  GuardsInFlight,
  ReportsFailures,
  Deliverable,      \* drafts whose room or contact the channel can resolve
  MaxFaults,
  MaxDoerRuns       \* cap on how often a doer is run for one draft

ASSUME GatewayIsDescribed == GuardsInFlight \in BOOLEAN /\ ReportsFailures \in BOOLEAN
ASSUME DeliverableAreDrafts == Deliverable \subseteq Drafts
ASSUME PollersFinite == IsFiniteSet(Pollers)
ASSUME FaultsBounded == MaxFaults \in Nat

VARIABLES
  drafts,      \* the table outbound_drafts
  now,         \* the clock of the database
  worker,      \* inserted drafts whose worker has yet to reject older ones
  handlers,    \* what each triage request is doing
  polls,       \* what each poll of the gateway is doing
  inFlight,    \* inFlightDraftIds of the gateway
  said,        \* how often a draft reached the other side of the channel
  heard,       \* the wordings it arrived in
  worked,      \* how often a doer carried a draft out
  abandoned,   \* drafts whose worker died before rejecting older ones
  faults

vars == <<drafts, now, worker, handlers, polls, inFlight, said, heard,
          worked, abandoned, faults>>
world == <<said, heard, worked>>

Item  == [id : Drafts, text : Texts]
Nobody == [id |-> "none", text |-> "none"]
Requests == [kind : {"approve"}, text : {NoEdit}, doer : BOOLEAN]
       \cup [kind : {"edit"},    text : Edits,    doer : BOOLEAN]
       \cup [kind : {"select"},  text : Edits \ {Blank}, doer : BOOLEAN]

IdleHandler == [pc |-> "idle"]
IdlePoll    == [pc |-> "idle", todo |-> {}, item |-> Nobody]

Init ==
  /\ drafts = EmptyTable
  /\ now = 1
  /\ worker = {} /\ abandoned = {}
  /\ handlers = [h \in Handlers |-> IdleHandler]
  /\ polls = [p \in Pollers |-> IdlePoll]
  /\ inFlight = {}
  /\ said = [d \in Drafts |-> 0]
  /\ heard = [d \in Drafts |-> {}]
  /\ worked = [d \in Drafts |-> 0]
  /\ faults = 0

Fault == faults < MaxFaults /\ faults' = faults + 1

-----------------------------------------------------------------------------
\* The worker of the inbound queue (processInboundJob), as far as drafts go.

\* Mutant: the action of the policy is stored as it is.
StatusUnmapped(action) == action

StatusOf(action) == CASE action = "BLOCK"     -> "REJECTED"
                      [] action = "AUTO_SEND" -> "APPROVED"
                      [] action = "REVIEW"    -> "DRAFTED"

\* The worker stamps an automatic approval before it summarises the thread, so
\* approvals and drafts of that time may be older or newer.
InsertDraft(d, action) ==
  /\ drafts[d].status = Absent
  /\ \E approvedAt \in IF action = "AUTO_SEND" THEN 1..now ELSE {0} :
       drafts' = InsertOutboundDraft(drafts, d, StatusOf(action), approvedAt, now)
  /\ now' = now + 1
  /\ worker' = worker \cup {d}
  /\ UNCHANGED <<handlers, polls, inFlight, world, abandoned, faults>>

SupersedeOlder(d) ==
  /\ d \in worker
  /\ drafts' = RejectSupersededDraftsForThread(drafts, d)
  /\ worker' = worker \ {d}
  /\ UNCHANGED <<now, handlers, polls, inFlight, world, abandoned, faults>>

\* The statement throws: the job's catch block fails the inbound message and
\* leaves the draft it inserted.
SupersedeFails(d) ==
  /\ d \in worker
  /\ Fault
  /\ worker' = worker \ {d}
  /\ abandoned' = abandoned \cup {d}
  /\ UNCHANGED <<drafts, now, handlers, polls, inFlight, world>>

-----------------------------------------------------------------------------
\* Triage: POST /mirachat/drafts/:id/{approve,edit,select-option,reject}.

\* The handler reads the row and answers 404 unless it is DRAFTED.
ReadForTriage(h, d, req) ==
  /\ handlers[h].pc = "idle"
  /\ drafts[d].status = "DRAFTED"
  /\ handlers' = [handlers EXCEPT ![h] =
       [pc |-> IF req.doer THEN "starting" ELSE "deciding",
        draft |-> d, req |-> req]]
  /\ UNCHANGED <<drafts, now, worker, polls, inFlight, world, abandoned, faults>>

\* runOpenClawDoerForDraft: doer.started is recorded, the doer acts on the
\* world, doer.completed is recorded.  Only then is the row written.
DoerWorks(h) ==
  /\ handlers[h].pc = "starting"
  /\ worked[handlers[h].draft] < MaxDoerRuns
  /\ worked' = [worked EXCEPT ![handlers[h].draft] = @ + 1]
  /\ handlers' = [handlers EXCEPT ![h].pc = "worked"]
  /\ UNCHANGED <<drafts, now, worker, polls, inFlight, said, heard, abandoned, faults>>

DoerCompletes(h) ==
  /\ handlers[h].pc = "worked"
  /\ handlers' = [handlers EXCEPT ![h].pc = "deciding"]
  /\ UNCHANGED <<drafts, now, worker, polls, inFlight, world, abandoned, faults>>

\* Mutant: a failed run is taken for a completed one.
DoerFailureSwallowed(h) ==
  /\ handlers[h].pc \in {"starting", "worked"}
  /\ handlers' = [handlers EXCEPT ![h].pc = "deciding"]
  /\ UNCHANGED <<drafts, now, worker, polls, inFlight, world, abandoned, faults>>

\* The run fails before or after it acted (or recording it fails): doer.failed,
\* 502, and the row stays as it is.
DoerFails(h) ==
  /\ handlers[h].pc \in {"starting", "worked"}
  /\ handlers' = [handlers EXCEPT ![h] = IdleHandler]
  /\ UNCHANGED <<drafts, now, worker, polls, inFlight, world, abandoned, faults>>

\* The conditional UPDATE of the request.
Decision(d, req) ==
  CASE req.kind = "approve" /\ ~req.doer -> ApproveOutboundDraft(drafts, d, now)
    [] req.kind = "approve" /\ req.doer ->
         ApproveAndMarkSentOutboundDraft(drafts, d, now)
    [] req.kind = "edit" /\ ~req.doer ->
         EditAndApproveOutboundDraft(drafts, d, req.text, now)
    [] req.kind = "edit" /\ req.doer ->
         EditApproveAndMarkSentOutboundDraft(drafts, d, req.text, now)
    [] req.kind = "select" /\ ~req.doer ->
         SelectReplyOptionAndApprove(drafts, d, req.text, now)
    [] req.kind = "select" /\ req.doer ->
         SelectReplyOptionApproveAndMarkSent(drafts, d, req.text, now)

\* now() is read by a statement that writes; one that matches no row is a 404.
Tick == now' = IF drafts' = drafts THEN now ELSE now + 1

DecideDraft(h) ==
  /\ handlers[h].pc = "deciding"
  /\ drafts' = Decision(handlers[h].draft, handlers[h].req)
  /\ Tick
  /\ handlers' = [handlers EXCEPT ![h] = IdleHandler]
  /\ UNCHANGED <<worker, polls, inFlight, world, abandoned, faults>>

\* The mini program's endpoints do not read the row first and know no doer.
MiniProgramTriage(d, req) ==
  /\ ~req.doer
  /\ drafts[d].status = "DRAFTED"
  /\ drafts' = Decision(d, req)
  /\ now' = now + 1
  /\ UNCHANGED <<worker, handlers, polls, inFlight, world, abandoned, faults>>

RejectDraft(d) ==
  /\ drafts[d].status = "DRAFTED"
  /\ drafts' = RejectOutboundDraft(drafts, d)
  /\ UNCHANGED <<now, worker, handlers, polls, inFlight, world, abandoned, faults>>

\* The API process also runs the worker: both lose what they were doing.
ApiCrash ==
  /\ Fault
  /\ handlers' = [h \in Handlers |-> IdleHandler]
  /\ abandoned' = abandoned \cup worker
  /\ worker' = {}
  /\ UNCHANGED <<drafts, now, polls, inFlight, world>>

-----------------------------------------------------------------------------
\* The gateway: one poll of setInterval works through the list it fetched.

FetchPending(p) ==
  /\ polls[p].pc = "idle"
  /\ ListPendingSend(drafts) # {}
  /\ polls' = [polls EXCEPT ![p] =
       [pc |-> "next",
        todo |-> {[id |-> d, text |-> Wording(drafts[d])] :
                    d \in ListPendingSend(drafts)},
        item |-> Nobody]]
  /\ UNCHANGED <<drafts, now, worker, handlers, inFlight, world, abandoned, faults>>

\* The list is ordered by approved_at, which a listed row never changes.
First(todo) == {i \in todo : \A j \in todo : ~Before(drafts, j.id, i.id)}

\* Mutant: the skip is inside the try, so its finally block frees the draft.
TakeNextFreesSkipped(p) ==
  /\ polls[p].pc = "next"
  /\ \E i \in First(polls[p].todo) :
       LET skip == GuardsInFlight /\ i.id \in inFlight
       IN  /\ polls' = [polls EXCEPT
                ![p] = [pc   |-> IF skip THEN "next" ELSE "sending",
                        todo |-> polls[p].todo \ {i},
                        item |-> IF skip THEN Nobody ELSE i]]
           /\ inFlight' = IF skip THEN inFlight \ {i.id}
                          ELSE IF GuardsInFlight THEN inFlight \cup {i.id} ELSE inFlight
  /\ UNCHANGED <<drafts, now, worker, handlers, world, abandoned, faults>>

TakeNext(p) ==
  /\ polls[p].pc = "next"
  /\ \E i \in First(polls[p].todo) :
       LET skip == GuardsInFlight /\ i.id \in inFlight
       IN  /\ polls' = [polls EXCEPT
                ![p] = [pc   |-> IF skip THEN "next" ELSE "sending",
                        todo |-> polls[p].todo \ {i},
                        item |-> IF skip THEN Nobody ELSE i]]
           /\ inFlight' = IF GuardsInFlight THEN inFlight \cup {i.id} ELSE inFlight
  /\ UNCHANGED <<drafts, now, worker, handlers, world, abandoned, faults>>

FinishPoll(p) ==
  /\ polls[p].pc = "next"
  /\ polls[p].todo = {}
  /\ polls' = [polls EXCEPT ![p] = IdlePoll]
  /\ UNCHANGED <<drafts, now, worker, handlers, inFlight, world, abandoned, faults>>

\* Mutant: no finally block.
ReleaseLeaks(p) ==
  /\ polls' = [polls EXCEPT ![p] = [pc |-> "next", todo |-> @.todo, item |-> Nobody]]
  /\ UNCHANGED inFlight

\* The finally block: on to the next draft of the list.
Release(p) ==
  /\ polls' = [polls EXCEPT ![p] = [pc |-> "next", todo |-> @.todo, item |-> Nobody]]
  /\ inFlight' = inFlight \ {polls[p].item.id}

\* An exception while actuating a draft: the reporting gateways still have to
\* call mark-send-failed, the others log it.
Caught(p) ==
  IF ReportsFailures
  THEN /\ polls' = [polls EXCEPT ![p].pc = "reporting"]
       /\ UNCHANGED inFlight
  ELSE Release(p)

Arrives(i) ==
  /\ said' = [said EXCEPT ![i.id] = @ + 1]
  /\ heard' = [heard EXCEPT ![i.id] = @ \cup {i.text}]

Say(p) ==
  /\ polls[p].pc = "sending"
  /\ polls[p].item.id \in Deliverable
  /\ Arrives(polls[p].item)
  /\ polls' = [polls EXCEPT ![p].pc = "marking"]
  /\ UNCHANGED <<drafts, now, worker, handlers, inFlight, worked, abandoned, faults>>

\* No room or contact for the thread: a warning or an exception, no message.
NoTarget(p) ==
  /\ polls[p].pc = "sending"
  /\ polls[p].item.id \notin Deliverable
  /\ Caught(p)
  /\ UNCHANGED <<drafts, now, worker, handlers, world, abandoned, faults>>

\* A send that throws although the target exists; the message may have left.
SayFails(p) ==
  /\ polls[p].pc = "sending"
  /\ polls[p].item.id \in Deliverable
  /\ Fault
  /\ Arrives(polls[p].item) \/ UNCHANGED <<said, heard>>
  /\ Caught(p)
  /\ UNCHANGED <<drafts, now, worker, handlers, worked, abandoned>>

MarkSent(p) ==
  /\ polls[p].pc = "marking"
  /\ drafts' = MarkOutboundSent(drafts, polls[p].item.id)
  /\ Release(p)
  /\ UNCHANGED <<now, worker, handlers, world, abandoned, faults>>

\* mark-sent is answered with an error, or the call or its answer is lost.
\* Only the latter throw in the gateway.
MarkSentFails(p) ==
  /\ polls[p].pc = "marking"
  /\ Fault
  /\ \/ UNCHANGED drafts /\ Release(p)
     \/ UNCHANGED drafts /\ Caught(p)
     \/ drafts' = MarkOutboundSent(drafts, polls[p].item.id) /\ Caught(p)
  /\ UNCHANGED <<now, worker, handlers, world, abandoned>>

ReportFailure(p) ==
  /\ polls[p].pc = "reporting"
  /\ drafts' = MarkOutboundSendFailed(drafts, polls[p].item.id)
  /\ Release(p)
  /\ UNCHANGED <<now, worker, handlers, world, abandoned, faults>>

ReportLost(p) ==
  /\ polls[p].pc = "reporting"
  /\ Fault
  /\ Release(p)
  /\ UNCHANGED <<drafts, now, worker, handlers, world, abandoned>>

GatewayCrash ==
  /\ Fault
  /\ polls' = [p \in Pollers |-> IdlePoll]
  /\ inFlight' = {}
  /\ UNCHANGED <<drafts, now, worker, handlers, world, abandoned>>

\* now() passes next_send_after.
RetryDelayElapses(d) ==
  /\ drafts[d].backoff
  /\ drafts' = [drafts EXCEPT ![d].backoff = FALSE]
  /\ UNCHANGED <<now, worker, handlers, polls, inFlight, world, abandoned, faults>>

-----------------------------------------------------------------------------
Worker ==
  \E d \in Drafts : \/ \E action \in {"BLOCK", "AUTO_SEND", "REVIEW"} : InsertDraft(d, action)
                    \/ SupersedeOlder(d)
                    \/ SupersedeFails(d)

Triage ==
  \/ \E h \in Handlers : \/ \E d \in Drafts, req \in Requests : ReadForTriage(h, d, req)
                         \/ DoerWorks(h)
                         \/ DoerCompletes(h)
                         \/ DoerFails(h)
                         \/ DecideDraft(h)
  \/ \E d \in Drafts, req \in Requests : MiniProgramTriage(d, req)
  \/ \E d \in Drafts : RejectDraft(d)

PollStep(p) == FetchPending(p) \/ TakeNext(p) \/ FinishPoll(p) \/ Say(p)
            \/ NoTarget(p) \/ MarkSent(p) \/ ReportFailure(p)

Gateway ==
  \E p \in Pollers : PollStep(p) \/ SayFails(p) \/ MarkSentFails(p) \/ ReportLost(p)

Next ==
  \/ Worker
  \/ Triage
  \/ Gateway
  \/ ApiCrash
  \/ GatewayCrash
  \/ \E d \in Drafts : RetryDelayElapses(d)

Spec == Init /\ [][Next]_vars

\* setInterval keeps polling, a poll works its list to the end and time passes.
Fairness ==
  /\ \A p \in Pollers : WF_vars(PollStep(p))
  /\ \A d \in Drafts : WF_vars(RetryDelayElapses(d))

FairSpec == Spec /\ Fairness

-----------------------------------------------------------------------------
HandlerStates ==
  {IdleHandler} \cup [pc : {"starting", "worked", "deciding"},
                      draft : Drafts, req : Requests]

PollStates ==
  [pc : {"idle", "next"}, todo : SUBSET Item, item : {Nobody}]
    \cup [pc : {"sending", "marking", "reporting"}, todo : SUBSET Item, item : Item]

\* The type of every variable.
TypeOK ==
  /\ drafts \in [Drafts -> Row]
  /\ now \in Nat
  /\ worker \subseteq Drafts /\ abandoned \subseteq Drafts
  /\ handlers \in [Handlers -> HandlerStates]
  /\ polls \in [Pollers -> PollStates]
  /\ inFlight \subseteq Drafts
  /\ said \in [Drafts -> Nat]
  /\ heard \in [Drafts -> SUBSET Texts]
  /\ worked \in [Drafts -> Nat]
  /\ faults \in 0..MaxFaults

Busy    == {"sending", "marking", "reporting"}
Final   == {"REJECTED", "SENT", "FAILED"}
Cleared == {"APPROVED", "SENT", "FAILED"}

\* Policy containment: whatever reaches the channel is a draft that a person
\* or the policy approved.  No handler, supersession or late poll may leave a
\* message sent whose draft ends up undecided or rejected.
PolicyContainment ==
  \A d \in Drafts : said[d] > 0 => drafts[d].status \in Cleared

\* A gateway works from the wording it fetched, perhaps long ago; it is still
\* the wording the approval gave the draft.
SaidAsApproved ==
  \A d \in Drafts : heard[d] \subseteq {Wording(drafts[d])}

\* SENT is never claimed of a draft that neither a gateway nor a doer acted on.
SentWasActuated ==
  \A d \in Drafts : drafts[d].status = "SENT" => said[d] + worked[d] > 0

\* Attempts, retry time and dead letter agree with the status, whichever of
\* several overlapping reports came first.
RetryBudget ==
  \A d \in Drafts :
    LET row == drafts[d]
    IN  /\ row.attempts <= MaxAttempts
        /\ row.status = "APPROVED" => row.attempts < MaxAttempts
        /\ row.status = "FAILED" => row.attempts = MaxAttempts
        /\ row.dead <=> row.status = "FAILED"
        /\ row.sent <=> row.status = "SENT"
        /\ row.backoff => row.status = "APPROVED" /\ row.error
        /\ row.status \in {Absent, "DRAFTED", "REJECTED"} => row.attempts = 0

\* A fault can make the gateway say a draft again, once per overlapping poll;
\* without faults and without overlap a draft is said at most once.
DuplicatesExplained ==
  \A d \in Drafts : said[d] <= Cardinality(Pollers) * (faults + 1)

\* Where the gateway guards drafts in flight, two polls never actuate one draft
\* at the same time, whatever failed or was skipped before.
OneActuationAtATime ==
  GuardsInFlight =>
    \A p, q \in Pollers : p # q /\ {polls[p].pc, polls[q].pc} \subseteq Busy
                           => polls[p].item.id # polls[q].item.id

\* In one thread an older draft stays triageable beside a newer one only while
\* the newer one's worker has yet to reject it, or died before it could.
OneReviewPerThread ==
  \A d, e \in Drafts :
    /\ drafts[d].status = "DRAFTED"
    /\ drafts[e].status # Absent
    /\ ThreadOf[d] = ThreadOf[e]
    /\ drafts[d].createdAt < drafts[e].createdAt
    => e \in worker \cup abandoned

\* No interleaving of triage, supersession and reports reopens a decided draft.
DecisionsAreFinal ==
  [][\A d \in Drafts :
       drafts[d].status \in Final => drafts'[d].status = drafts[d].status]_vars

\* With a gateway that reports failures every approved draft is settled: sent,
\* or given up after MaxAttempts.
ApprovedIsSettled ==
  \A d \in Drafts :
    drafts[d].status = "APPROVED" ~> drafts[d].status \in {"SENT", "FAILED"}

\* Delivery of every approved draft is attempted (PRD-wechaty-gateway, FR-5).
ApprovedIsAttempted ==
  \A d \in Drafts :
    drafts[d].status = "APPROVED" ~>
      \/ drafts[d].status # "APPROVED"
      \/ \E p \in Pollers : polls[p].item.id = d

\* Doers own only approved execution (system-design-proxy-self.md, section 3):
\* what a doer carried out is never a rejected draft.
DoerWorkIsApproved ==
  \A d \in Drafts : worked[d] > 0 => drafts[d].status # "REJECTED"

-----------------------------------------------------------------------------
\* What the safety properties rest on: everything a poll holds was cleared and
\* still has the wording it was fetched with, a poll about to mark a draft sent
\* has said it, a handler that will write SENT had its doer do the work, and
\* only what was said is heard.
Valid(i) ==
  /\ drafts[i.id].status \in Cleared
  /\ i.text = Wording(drafts[i.id])

PollsHoldCleared ==
  \A p \in Pollers :
    /\ \A i \in polls[p].todo : Valid(i)
    /\ polls[p].pc \in {"sending", "marking", "reporting"} => Valid(polls[p].item)
    /\ polls[p].pc = "marking" => said[polls[p].item.id] > 0

HandlersHoldWork ==
  \A h \in Handlers : handlers[h].pc # "idle" =>
    LET handler == handlers[h]
    IN  /\ drafts[handler.draft].status # Absent
        /\ handler.pc \in {"starting", "worked"} => handler.req.doer
        /\ handler.req.doer /\ handler.pc # "starting" => worked[handler.draft] > 0

HeardWasSaid == \A d \in Drafts : heard[d] # {} => said[d] > 0

IInv ==
  /\ TypeOK
  /\ RetryBudget
  /\ PollsHoldCleared
  /\ HandlersHoldWork
  /\ HeardWasSaid
  /\ PolicyContainment
  /\ SaidAsApproved
  /\ SentWasActuated

\* What the bounds on races rest on: drafts are stamped in the order of their
\* insertion, what a poll has in hand is in flight where that is guarded, a list
\* names a draft once, and the polls that may still say a draft before the next
\* fault are those that hold it or could fetch it and are not marking it.
StampedBefore == \A d \in Drafts : drafts[d].createdAt < now

InFlightIsBusy ==
  GuardsInFlight =>
    \A p \in Pollers : polls[p].pc \in Busy => polls[p].item.id \in inFlight

ListedOnce ==
  \A p \in Pollers : \A i \in polls[p].todo :
    /\ \A j \in polls[p].todo : i.id = j.id => i = j
    /\ polls[p].pc \in Busy => i.id # polls[p].item.id

InHand(p, d, pc) == polls[p].pc = pc /\ polls[p].item.id = d

MayStillSay(d) ==
  {p \in Pollers : \/ \E i \in polls[p].todo : i.id = d
                   \/ InHand(p, d, "sending")
                   \/ Sendable(drafts[d]) /\ ~InHand(p, d, "marking")}

ChancesAreBounded ==
  \A d \in Drafts :
    said[d] + Cardinality(MayStillSay(d)) <= Cardinality(Pollers) * (faults + 1)

RacesInv ==
  /\ StampedBefore
  /\ OneReviewPerThread
  /\ InFlightIsBusy /\ OneActuationAtATime
  /\ ListedOnce
  /\ ChancesAreBounded

\* The table with its faults, overlapping polls and stale reads implements what
\* MiraChat promises about a draft.
Contract == INSTANCE DraftContract WITH
              status <- [d \in Drafts |-> drafts[d].status]

ImplementsContract == Contract!Spec
=============================================================================
