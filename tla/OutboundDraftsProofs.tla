------------------------ MODULE OutboundDraftsProofs ------------------------
(***************************************************************************)
(* Proofs about OutboundDrafts for any number of drafts, handlers and      *)
(* overlapping polls, any gateway and any bounds: what is said is cleared  *)
(* and in the wording of its approval, and the system implements the       *)
(* contract of a draft (DraftContract).  Then what races cannot do: leave  *)
(* two drafts of a thread to review, have two polls actuate one draft at   *)
(* the same time, or say a draft more often than polls overlap and faults  *)
(* occur (RacesInv, inductive relative to IInv).                           *)
(***************************************************************************)
EXTENDS OutboundDrafts, FiniteSetTheorems, TLAPS

\* How a row may change in one step: an approval stands with its wording, a
\* decision is final, a row never disappears.
Evolves(row, next) ==
  /\ row.status \in Cleared => next.status \in Cleared /\ next.edited = row.edited
  /\ row.status \in Final => next.status = row.status
  /\ row.status # Absent => next.status # Absent

\* The part of RetryBudget that concerns one row.
Consistent(row) ==
  /\ row.attempts <= MaxAttempts
  /\ row.status = "APPROVED" => row.attempts < MaxAttempts
  /\ row.status = "FAILED" => row.attempts = MaxAttempts
  /\ row.dead <=> row.status = "FAILED"
  /\ row.sent <=> row.status = "SENT"
  /\ row.backoff => row.status = "APPROVED" /\ row.error
  /\ row.status \in {Absent, "DRAFTED", "REJECTED"} => row.attempts = 0

Good(row) == row \in Row /\ Consistent(row)

\* RetryBudget, row by row.
LEMMA RetryBudgetIsConsistent ==
  RetryBudget <=> \A d \in Drafts : Consistent(drafts[d])
BY DEF RetryBudget, Consistent

\* The columns of a row that are Booleans, and its attempts.
LEMMA Booleans ==
  ASSUME NEW row \in Row
  PROVE  /\ row.dead \in BOOLEAN /\ row.sent \in BOOLEAN
         /\ row.backoff \in BOOLEAN /\ row.error \in BOOLEAN
         /\ row.attempts \in Nat
BY DEF Row

-----------------------------------------------------------------------------
\* What the statements write is a consistent row.  Each lemma computes the
\* columns first, so that the comparison of statuses is left to the last step.

\* An inserted row is good.
LEMMA NewRowGood ==
  ASSUME NEW status \in {Absent, "DRAFTED", "APPROVED", "REJECTED"},
         NEW approvedAt \in Nat, NEW createdAt \in Nat
  PROVE  Good(NewRow(status, approvedAt, createdAt))
BY MaxAttemptsPositive DEF Good, Consistent, NewRow, Row, OutboundStatus, Absent

\* An approval keeps a row good and lets it evolve.
LEMMA ApprovedGood ==
  ASSUME NEW row, Good(row), row.status = "DRAFTED",
         NEW text \in Edits \cup {NoEdit}, NEW t \in Nat
  PROVE  Good(Approved(row, text, t)) /\ Evolves(row, Approved(row, text, t))
<1> DEFINE new == Approved(row, text, t)
<1>1. new \in Row
  BY DEF Good, Approved, Row, OutboundStatus
<1>2. /\ new.status = "APPROVED" /\ new.attempts = row.attempts
      /\ new.dead = row.dead /\ new.sent = row.sent /\ new.backoff = row.backoff
  BY DEF Good, Approved, Row
<1> HIDE DEF new
<1>3. Good(new)
  BY <1>1, <1>2, Booleans, MaxAttemptsPositive DEF Good, Consistent, Absent
<1>4. Evolves(row, new)
  BY <1>2 DEF Evolves, Cleared, Final, Absent
<1> QED BY <1>3, <1>4 DEF new

\* mark-sent keeps a row good and lets it evolve.
LEMMA MarkedSentGood ==
  ASSUME NEW row, Good(row), Sendable(row)
  PROVE  Good(MarkedSent(row)) /\ Evolves(row, MarkedSent(row))
<1> DEFINE new == MarkedSent(row)
<1>0. PICK n \in Nat : n = row.attempts + 1
  BY DEF Good, Row
<1>1. new \in Row
  <2>1. new = [row EXCEPT !.status = "SENT", !.sent = TRUE, !.attempts = n,
                          !.error = FALSE, !.backoff = FALSE, !.dead = FALSE]
    BY <1>0 DEF MarkedSent
  <2> QED BY <2>1 DEF Good, Row, OutboundStatus
<1>2. /\ new.status = "SENT" /\ new.attempts = row.attempts + 1
      /\ new.dead = FALSE /\ new.sent = TRUE /\ new.backoff = FALSE
      /\ new.edited = row.edited
  BY DEF Good, MarkedSent, Row
<1> HIDE DEF new
<1>3. Good(new)
  BY <1>1, <1>2, Booleans, MaxAttemptsPositive DEF Good, Consistent, Sendable, Absent
<1>4. Evolves(row, new)
  BY <1>2 DEF Evolves, Sendable, Cleared, Final, Absent
<1> QED BY <1>3, <1>4 DEF new

\* So do an approval and mark-sent in one request, after a doer.
LEMMA ApprovedAndSentGood ==
  ASSUME NEW row, Good(row), row.status = "DRAFTED",
         NEW text \in Edits \cup {NoEdit}, NEW t \in Nat
  PROVE  /\ Good(MarkedSent(Approved(row, text, t)))
         /\ Evolves(row, MarkedSent(Approved(row, text, t)))
<1> DEFINE mid == Approved(row, text, t)
           new == MarkedSent(mid)
<1>1. Good(mid)
  BY ApprovedGood
<1>2. mid.status = "APPROVED"
  BY DEF Good, Approved, Row
<1> HIDE DEF mid
<1>3. Sendable(mid)
  BY <1>1, <1>2, Booleans DEF Good, Consistent, Sendable
<1>4. Good(new)
  BY <1>1, <1>3, MarkedSentGood
<1>5. new.status = "SENT"
  BY <1>1 DEF Good, MarkedSent, Row
<1>6. Evolves(row, new)
  BY <1>5 DEF Evolves, Cleared, Final, Absent
<1> QED BY <1>4, <1>6 DEF mid

\* mark-send-failed keeps a row good: the last attempt makes a dead letter.
LEMMA MarkedFailedGood ==
  ASSUME NEW row, Good(row), Sendable(row)
  PROVE  Good(MarkedFailed(row)) /\ Evolves(row, MarkedFailed(row))
<1>0. PICK n \in Nat : n = row.attempts + 1
  BY DEF Good, Row
<1>a. row.attempts \in Nat /\ row.attempts < MaxAttempts /\ ~row.sent
  BY DEF Good, Row, Consistent, Sendable
<1>b. row.sent \in BOOLEAN
  BY DEF Good, Row
<1>1. CASE n >= MaxAttempts
  <2> DEFINE new == [row EXCEPT !.status = "FAILED", !.attempts = n, !.error = TRUE,
                                !.backoff = FALSE, !.dead = TRUE]
  <2>1. MarkedFailed(row) = new
    BY <1>0, <1>1 DEF MarkedFailed
  <2>2. new \in Row
    BY DEF Good, Row, OutboundStatus
  <2>3. /\ new.status = "FAILED" /\ new.attempts = n /\ new.dead = TRUE
        /\ new.sent = row.sent /\ new.backoff = FALSE /\ new.edited = row.edited
    BY DEF Good, Row
  <2>4. n = MaxAttempts
    BY <1>0, <1>1, <1>a, MaxAttemptsPositive
  <2> HIDE DEF new
  <2>5. Good(new)
    BY <1>a, <1>b, <2>2, <2>3, <2>4, MaxAttemptsPositive DEF Good, Consistent, Absent
  <2>6. Evolves(row, new)
    BY <2>3 DEF Evolves, Sendable, Cleared, Final, Absent
  <2> QED BY <2>1, <2>5, <2>6
<1>2. CASE ~(n >= MaxAttempts)
  <2> DEFINE new == [row EXCEPT !.status = "APPROVED", !.attempts = n, !.error = TRUE,
                                !.backoff = TRUE, !.dead = FALSE]
  <2>1. MarkedFailed(row) = new
    BY <1>0, <1>2 DEF MarkedFailed
  <2>2. new \in Row
    BY DEF Good, Row, OutboundStatus
  <2>3. /\ new.status = "APPROVED" /\ new.attempts = n /\ new.dead = FALSE
        /\ new.sent = row.sent /\ new.backoff = TRUE /\ new.edited = row.edited
        /\ new.error = TRUE
    BY DEF Good, Row
  <2>4. n < MaxAttempts
    BY <1>2, MaxAttemptsPositive
  <2> HIDE DEF new
  <2>5. Good(new)
    BY <1>a, <1>b, <2>2, <2>3, <2>4, MaxAttemptsPositive DEF Good, Consistent, Absent
  <2>6. Evolves(row, new)
    BY <2>3 DEF Evolves, Sendable, Cleared, Final, Absent
  <2> QED BY <2>1, <2>5, <2>6
<1> QED BY <1>1, <1>2

\* A rejection keeps a row good and lets it evolve.
LEMMA RejectedGood ==
  ASSUME NEW row, Good(row), row.status = "DRAFTED"
  PROVE  Good(Rejected(row)) /\ Evolves(row, Rejected(row))
<1> DEFINE new == Rejected(row)
<1>1. new \in Row
  BY DEF Good, Rejected, Row, OutboundStatus
<1>2. /\ new.status = "REJECTED" /\ new.attempts = row.attempts
      /\ new.dead = row.dead /\ new.sent = row.sent /\ new.backoff = row.backoff
  BY DEF Good, Rejected, Row
<1> HIDE DEF new
<1>3. Good(new)
  BY <1>1, <1>2, Booleans, MaxAttemptsPositive DEF Good, Consistent, Absent
<1>4. Evolves(row, new)
  BY <1>2 DEF Evolves, Cleared, Final, Absent
<1> QED BY <1>3, <1>4 DEF new

\* The end of a delay keeps a row good and lets it evolve.
LEMMA DelayElapsedGood ==
  ASSUME NEW row, Good(row)
  PROVE  /\ Good([row EXCEPT !.backoff = FALSE])
         /\ Evolves(row, [row EXCEPT !.backoff = FALSE])
<1> DEFINE new == [row EXCEPT !.backoff = FALSE]
<1>1. new \in Row
  BY DEF Good, Row, OutboundStatus
<1>2. /\ new.status = row.status /\ new.attempts = row.attempts
      /\ new.dead = row.dead /\ new.sent = row.sent /\ new.backoff = FALSE
      /\ new.edited = row.edited
  BY DEF Good, Row
<1> HIDE DEF new
<1>3. Good(new)
  BY <1>1, <1>2, Booleans, MaxAttemptsPositive DEF Good, Consistent, Absent
<1>4. Evolves(row, new)
  BY <1>2 DEF Evolves
<1> QED BY <1>3, <1>4 DEF new
-----------------------------------------------------------------------------
\* Every statement keeps the table consistent and lets its rows only evolve.

Steps(table, next) ==
  /\ next \in [Drafts -> Row]
  /\ \A d \in Drafts : Good(next[d]) /\ Evolves(table[d], next[d])

\* A conditional UPDATE lets the table evolve if its row does.
LEMMA UpdateSteps ==
  ASSUME NEW table \in [Drafts -> Row], \A d \in Drafts : Good(table[d]),
         NEW d \in Drafts, NEW matches, NEW row,
         matches => Good(row) /\ Evolves(table[d], row)
  PROVE  Steps(table, Update(table, d, matches, row))
<1>1. CASE matches
  BY <1>1 DEF Update, Steps, Evolves, Good
<1>2. CASE ~matches
  BY <1>2 DEF Update, Steps, Evolves, Good
<1> QED BY <1>1, <1>2

\* Each decision of a triage handler lets the table evolve.
LEMMA DecisionSteps ==
  ASSUME TypeOK, RetryBudget, NEW d \in Drafts, NEW req \in Requests
  PROVE  Steps(drafts, Decision(d, req))
<1> DEFINE row == drafts[d]
<1>1. /\ drafts \in [Drafts -> Row] /\ \A e \in Drafts : Good(drafts[e])
      /\ Good(row) /\ row.edited \in Edits \cup {NoEdit} /\ now \in Nat
  BY RetryBudgetIsConsistent DEF TypeOK, Good, Row
<1>2. /\ req.kind \in {"approve", "edit", "select"} /\ req.doer \in BOOLEAN
      /\ req.text \in Edits \cup {NoEdit}
  BY DEF Requests
<1>3. ASSUME NEW text \in Edits \cup {NoEdit}, row.status = "DRAFTED"
      PROVE  /\ Good(Approved(row, text, now))
             /\ Evolves(row, Approved(row, text, now))
             /\ Good(MarkedSent(Approved(row, text, now)))
             /\ Evolves(row, MarkedSent(Approved(row, text, now)))
  BY <1>1, <1>3, ApprovedGood, ApprovedAndSentGood
<1>4. Steps(drafts, ApproveOutboundDraft(drafts, d, now))
  BY <1>1, <1>3, UpdateSteps DEF ApproveOutboundDraft
<1>5. Steps(drafts, ApproveAndMarkSentOutboundDraft(drafts, d, now))
  BY <1>1, <1>3, UpdateSteps DEF ApproveAndMarkSentOutboundDraft
<1>6. Steps(drafts, EditAndApproveOutboundDraft(drafts, d, req.text, now))
  BY <1>1, <1>2, <1>3, UpdateSteps DEF EditAndApproveOutboundDraft
<1>7. Steps(drafts, EditApproveAndMarkSentOutboundDraft(drafts, d, req.text, now))
  BY <1>1, <1>2, <1>3, UpdateSteps DEF EditApproveAndMarkSentOutboundDraft
<1>8. Steps(drafts, SelectReplyOptionAndApprove(drafts, d, req.text, now))
  BY <1>1, <1>2, <1>3, UpdateSteps DEF SelectReplyOptionAndApprove
<1>9. Steps(drafts, SelectReplyOptionApproveAndMarkSent(drafts, d, req.text, now))
  BY <1>1, <1>2, <1>3, UpdateSteps DEF SelectReplyOptionApproveAndMarkSent
<1> QED BY <1>2, <1>4, <1>5, <1>6, <1>7, <1>8, <1>9 DEF Decision

\* So do mark-sent, mark-send-failed, a rejection and the end of a delay.
LEMMA MarkSteps ==
  ASSUME TypeOK, RetryBudget, NEW d \in Drafts
  PROVE  /\ Steps(drafts, MarkOutboundSent(drafts, d))
         /\ Steps(drafts, MarkOutboundSendFailed(drafts, d))
         /\ Steps(drafts, RejectOutboundDraft(drafts, d))
         /\ Steps(drafts, [drafts EXCEPT ![d].backoff = FALSE])
         /\ Steps(drafts, drafts)
<1>1. /\ drafts \in [Drafts -> Row] /\ \A e \in Drafts : Good(drafts[e])
      /\ Good(drafts[d])
  BY RetryBudgetIsConsistent DEF TypeOK, Good
<1>2. Steps(drafts, MarkOutboundSent(drafts, d))
  BY <1>1, UpdateSteps, MarkedSentGood DEF MarkOutboundSent
<1>3. Steps(drafts, MarkOutboundSendFailed(drafts, d))
  BY <1>1, UpdateSteps, MarkedFailedGood DEF MarkOutboundSendFailed
<1>4. Steps(drafts, RejectOutboundDraft(drafts, d))
  BY <1>1, UpdateSteps, RejectedGood DEF RejectOutboundDraft
<1>5. Steps(drafts, [drafts EXCEPT ![d].backoff = FALSE])
  <2>1. Steps(drafts, Update(drafts, d, TRUE, [drafts[d] EXCEPT !.backoff = FALSE]))
    BY <1>1, UpdateSteps, DelayElapsedGood
  <2> QED BY <2>1 DEF Update
<1>6. Steps(drafts, drafts)
  BY <1>1 DEF Steps, Evolves
<1> QED BY <1>2, <1>3, <1>4, <1>5, <1>6

\* So does the statement that supersedes the drafts of a thread.
LEMMA SupersedeSteps ==
  ASSUME TypeOK, RetryBudget, NEW d \in Drafts
  PROVE  Steps(drafts, RejectSupersededDraftsForThread(drafts, d))
<1>1. /\ drafts \in [Drafts -> Row] /\ \A e \in Drafts : Good(drafts[e])
  BY RetryBudgetIsConsistent DEF TypeOK, Good
<1>2. ASSUME NEW e \in Drafts
      PROVE  LET next == RejectSupersededDraftsForThread(drafts, d)[e]
             IN  Good(next) /\ Evolves(drafts[e], next)
  <2>1. CASE e \in Superseded(drafts, d)
    BY <1>1, <2>1, RejectedGood DEF RejectSupersededDraftsForThread, Superseded
  <2>2. CASE e \notin Superseded(drafts, d)
    BY <1>1, <2>2 DEF RejectSupersededDraftsForThread, Evolves
  <2> QED BY <2>1, <2>2
<1> QED BY <1>2 DEF Steps, RejectSupersededDraftsForThread, Good

\* So does an insertion.
LEMMA InsertSteps ==
  ASSUME TypeOK, RetryBudget, NEW d \in Drafts, drafts[d].status = Absent,
         NEW status \in {"DRAFTED", "APPROVED", "REJECTED"}, NEW approvedAt \in Nat
  PROVE  Steps(drafts, InsertOutboundDraft(drafts, d, status, approvedAt, now))
<1> DEFINE row == NewRow(status, approvedAt, now)
<1>1. drafts \in [Drafts -> Row] /\ (\A e \in Drafts : Good(drafts[e])) /\ now \in Nat
  BY RetryBudgetIsConsistent DEF TypeOK, Good
<1>2. Good(row)
  BY <1>1, NewRowGood
<1>3. row.status = status
  BY DEF NewRow
<1> HIDE DEF row
<1>4. Evolves(drafts[d], row)
  BY <1>3 DEF Evolves, Cleared, Final, Absent
<1>5. Steps(drafts, Update(drafts, d, TRUE, row))
  BY <1>1, <1>2, <1>4, UpdateSteps
<1> QED BY <1>5 DEF Update, InsertOutboundDraft, row
-----------------------------------------------------------------------------
\* Every step of the system lets the rows only evolve.

\* What the state of a poll holds.
LEMMA PollTypes ==
  ASSUME TypeOK, NEW p \in Pollers
  PROVE  /\ polls[p] \in PollStates /\ polls[p].todo \subseteq Item
         /\ polls[p].pc \in {"sending", "marking", "reporting"} =>
              polls[p].item \in Item /\ polls[p].item.id \in Drafts
         /\ polls[p].pc \in {"idle", "next"} => polls[p].item = Nobody
BY DEF TypeOK, PollStates, Item

\* What the state of a busy handler holds.
LEMMA HandlerTypes ==
  ASSUME TypeOK, NEW h \in Handlers, handlers[h].pc # "idle"
  PROVE  /\ handlers[h].pc \in {"starting", "worked", "deciding"}
         /\ handlers[h].draft \in Drafts /\ handlers[h].req \in Requests
         /\ handlers[h] \in [pc : {"starting", "worked", "deciding"},
                             draft : Drafts, req : Requests]
<1>1. handlers[h] \in HandlerStates
  BY DEF TypeOK
<1>2. CASE handlers[h] = IdleHandler
  BY <1>2 DEF IdleHandler
<1>3. CASE handlers[h] \in [pc : {"starting", "worked", "deciding"},
                            draft : Drafts, req : Requests]
  BY <1>3
<1> QED BY <1>1, <1>2, <1>3 DEF HandlerStates

\* Every step lets the table evolve.
LEMMA TableStep ==
  ASSUME TypeOK, RetryBudget, [Next]_vars
  PROVE  Steps(drafts, drafts')
<1>0. Steps(drafts, drafts)
  BY RetryBudgetIsConsistent DEF Steps, Evolves, TypeOK, Good
<1>1. ASSUME NEW d \in Drafts, NEW action \in {"BLOCK", "AUTO_SEND", "REVIEW"},
             InsertDraft(d, action)
      PROVE  Steps(drafts, drafts')
  <2>1. StatusOf(action) \in {"DRAFTED", "APPROVED", "REJECTED"}
    BY DEF StatusOf
  <2>2. PICK approvedAt \in Nat :
          drafts' = InsertOutboundDraft(drafts, d, StatusOf(action), approvedAt, now)
    BY <1>1 DEF InsertDraft, TypeOK
  <2> QED BY <1>1, <2>1, <2>2, InsertSteps DEF InsertDraft
<1>2. ASSUME NEW d \in Drafts, SupersedeOlder(d)
      PROVE  Steps(drafts, drafts')
  BY <1>2, SupersedeSteps DEF SupersedeOlder
<1>3. ASSUME NEW h \in Handlers, DecideDraft(h)
      PROVE  Steps(drafts, drafts')
  BY <1>3, HandlerTypes, DecisionSteps DEF DecideDraft
<1>4. ASSUME NEW d \in Drafts, NEW req \in Requests, MiniProgramTriage(d, req)
      PROVE  Steps(drafts, drafts')
  BY <1>4, DecisionSteps DEF MiniProgramTriage
<1>5. ASSUME NEW d \in Drafts, RejectDraft(d)
      PROVE  Steps(drafts, drafts')
  BY <1>5, MarkSteps DEF RejectDraft
<1>6. ASSUME NEW p \in Pollers, MarkSent(p) \/ MarkSentFails(p)
      PROVE  Steps(drafts, drafts')
  BY <1>0, <1>6, PollTypes, MarkSteps DEF MarkSent, MarkSentFails
<1>7. ASSUME NEW p \in Pollers, ReportFailure(p)
      PROVE  Steps(drafts, drafts')
  BY <1>7, PollTypes, MarkSteps DEF ReportFailure
<1>8. ASSUME NEW d \in Drafts, RetryDelayElapses(d)
      PROVE  Steps(drafts, drafts')
  BY <1>8, MarkSteps DEF RetryDelayElapses
<1>9. ASSUME UNCHANGED drafts
      PROVE  Steps(drafts, drafts')
  BY <1>0, <1>9
<1>10. ASSUME NEW d \in Drafts, SupersedeFails(d)
       PROVE  UNCHANGED drafts
  BY <1>10 DEF SupersedeFails
<1>11. ASSUME NEW h \in Handlers,
              \/ \E d \in Drafts, req \in Requests : ReadForTriage(h, d, req)
              \/ DoerWorks(h) \/ DoerCompletes(h) \/ DoerFails(h)
       PROVE  UNCHANGED drafts
  BY <1>11 DEF ReadForTriage, DoerWorks, DoerCompletes, DoerFails
<1>12. ASSUME NEW p \in Pollers,
              \/ FetchPending(p) \/ TakeNext(p) \/ FinishPoll(p) \/ Say(p)
              \/ NoTarget(p) \/ SayFails(p) \/ ReportLost(p)
       PROVE  UNCHANGED drafts
  BY <1>12 DEF FetchPending, TakeNext, FinishPoll, Say, NoTarget, SayFails, ReportLost
<1>13. CASE ApiCrash \/ GatewayCrash \/ UNCHANGED vars
  BY <1>9, <1>13 DEF ApiCrash, GatewayCrash, vars
<1> QED
  BY <1>1, <1>2, <1>3, <1>4, <1>5, <1>6, <1>7, <1>8, <1>9, <1>10, <1>11, <1>12, <1>13
  DEF Next, Worker, Triage, Gateway, PollStep
-----------------------------------------------------------------------------
\* Types.

\* The states that a poll with a draft in hand moves to.
LEMMA BusyPollTypes ==
  ASSUME TypeOK, NEW p \in Pollers, polls[p].pc \in Busy, NEW pc \in Busy
  PROVE  /\ polls[p].item.id \in Drafts /\ polls[p].item.text \in Texts
         /\ [polls EXCEPT ![p].pc = pc] \in [Pollers -> PollStates]
         /\ [polls EXCEPT ![p] = [pc |-> "next", todo |-> @.todo, item |-> Nobody]]
              \in [Pollers -> PollStates]
         /\ inFlight \ {polls[p].item.id} \subseteq Drafts
<1>1. /\ polls \in [Pollers -> PollStates] /\ inFlight \subseteq Drafts
      /\ polls[p].item \in Item /\ polls[p].todo \in SUBSET Item
  BY PollTypes DEF TypeOK, Busy
<1>2. polls[p] \in [pc : Busy, todo : SUBSET Item, item : Item]
  BY <1>1 DEF PollStates, Busy
<1>3. [polls[p] EXCEPT !.pc = pc] \in PollStates
  BY <1>2 DEF PollStates, Busy
<1>4. [pc |-> "next", todo |-> polls[p].todo, item |-> Nobody] \in PollStates
  BY <1>1 DEF PollStates
<1> QED BY <1>1, <1>3, <1>4 DEF Item

\* The two ends of a failing delivery keep the types.
LEMMA CaughtTypes ==
  ASSUME TypeOK, NEW p \in Pollers, polls[p].pc \in Busy, Caught(p) \/ Release(p)
  PROVE  polls' \in [Pollers -> PollStates] /\ inFlight' \subseteq Drafts
<1>1. CASE Release(p)
  BY <1>1, BusyPollTypes DEF Release, Busy
<1>2. CASE ~Release(p)
  <2>1. polls' = [polls EXCEPT ![p].pc = "reporting"] /\ UNCHANGED inFlight
    BY <1>2 DEF Caught
  <2>2. "reporting" \in Busy
    BY DEF Busy
  <2> QED BY <2>1, <2>2, BusyPollTypes DEF TypeOK
<1> QED BY <1>1, <1>2

\* Counting one more keeps a count of drafts.
LEMMA Counted ==
  ASSUME NEW count \in [Drafts -> Nat], NEW d \in Drafts
  PROVE  [count EXCEPT ![d] = @ + 1] \in [Drafts -> Nat]
<1>1. count[d] + 1 \in Nat
  OBVIOUS
<1> QED BY <1>1

\* A message that arrives keeps the types of what was said.
LEMMA ArrivesTypes ==
  ASSUME TypeOK, NEW i, i.id \in Drafts, i.text \in Texts, Arrives(i)
  PROVE  said' \in [Drafts -> Nat] /\ heard' \in [Drafts -> SUBSET Texts]
<1>1. said' \in [Drafts -> Nat]
  BY Counted DEF Arrives, TypeOK
<1>2. heard[i.id] \cup {i.text} \in SUBSET Texts
  BY DEF TypeOK
<1> QED BY <1>1, <1>2 DEF Arrives, TypeOK

\* A step of a handler keeps the type of the handlers.
LEMMA HandlersStep ==
  ASSUME TypeOK, NEW h \in Handlers,
         \/ \E d \in Drafts, req \in Requests : ReadForTriage(h, d, req)
         \/ DoerWorks(h) \/ DoerCompletes(h) \/ DoerFails(h) \/ DecideDraft(h)
  PROVE  handlers' \in [Handlers -> HandlerStates]
<1>1. handlers \in [Handlers -> HandlerStates] /\ IdleHandler \in HandlerStates
  BY DEF TypeOK, HandlerStates
<1>2. ASSUME NEW d \in Drafts, NEW req \in Requests, ReadForTriage(h, d, req)
      PROVE  handlers' \in [Handlers -> HandlerStates]
  <2>1. [pc |-> IF req.doer THEN "starting" ELSE "deciding", draft |-> d, req |-> req]
          \in HandlerStates
    BY DEF HandlerStates
  <2> QED BY <1>1, <1>2, <2>1 DEF ReadForTriage
<1>3. ASSUME handlers[h].pc # "idle", NEW pc \in {"worked", "deciding"}
      PROVE  [handlers EXCEPT ![h].pc = pc] \in [Handlers -> HandlerStates]
  <2>1. [handlers[h] EXCEPT !.pc = pc] \in
          [pc : {"starting", "worked", "deciding"}, draft : Drafts, req : Requests]
    BY <1>3, HandlerTypes
  <2> QED BY <1>1, <2>1 DEF HandlerStates
<1>4. CASE DoerWorks(h) \/ DoerCompletes(h)
  BY <1>3, <1>4 DEF DoerWorks, DoerCompletes
<1>5. CASE DoerFails(h) \/ DecideDraft(h)
  BY <1>1, <1>5 DEF DoerFails, DecideDraft
<1> QED BY <1>2, <1>4, <1>5

\* Every step keeps TypeOK.
LEMMA TypeStep ==
  ASSUME TypeOK, RetryBudget, [Next]_vars
  PROVE  TypeOK'
<1> USE DEF TypeOK
<1>0. drafts' \in [Drafts -> Row]
  BY TableStep DEF Steps
<1>f. ASSUME Fault PROVE faults' \in 0..MaxFaults
  BY <1>f, FaultsBounded DEF Fault
<1>1. ASSUME NEW d \in Drafts, NEW action \in {"BLOCK", "AUTO_SEND", "REVIEW"},
             InsertDraft(d, action)
      PROVE  TypeOK'
  BY <1>0, <1>1 DEF InsertDraft, world
<1>2. ASSUME NEW d \in Drafts, SupersedeOlder(d)
      PROVE  TypeOK'
  BY <1>0, <1>2 DEF SupersedeOlder, world
<1>3. ASSUME NEW d \in Drafts, SupersedeFails(d)
      PROVE  TypeOK'
  BY <1>0, <1>f, <1>3 DEF SupersedeFails, world
<1>4. ASSUME NEW h \in Handlers, NEW d \in Drafts, NEW req \in Requests,
             ReadForTriage(h, d, req)
      PROVE  TypeOK'
  BY <1>0, <1>4, HandlersStep DEF ReadForTriage, world
<1>5. ASSUME NEW h \in Handlers, DoerWorks(h)
      PROVE  TypeOK'
  <2>1. handlers[h].draft \in Drafts
    BY <1>5, HandlerTypes DEF DoerWorks
  <2>2. worked' \in [Drafts -> Nat]
    BY <1>5, <2>1, Counted DEF DoerWorks
  <2> QED BY <1>0, <1>5, <2>2, HandlersStep DEF DoerWorks
<1>6. ASSUME NEW h \in Handlers, DoerCompletes(h)
      PROVE  TypeOK'
  BY <1>0, <1>6, HandlersStep DEF DoerCompletes, world
<1>7. ASSUME NEW h \in Handlers, DoerFails(h)
      PROVE  TypeOK'
  BY <1>0, <1>7, HandlersStep DEF DoerFails, world
<1>8. ASSUME NEW h \in Handlers, DecideDraft(h)
      PROVE  TypeOK'
  <2>1. now' \in Nat
    BY <1>8 DEF DecideDraft, Tick
  <2>2. handlers' \in [Handlers -> HandlerStates]
    BY <1>8, HandlersStep
  <2> QED BY <1>0, <1>8, <2>1, <2>2 DEF DecideDraft, world
<1>9. ASSUME NEW d \in Drafts, NEW req \in Requests, MiniProgramTriage(d, req)
      PROVE  TypeOK'
  BY <1>0, <1>9 DEF MiniProgramTriage, world
<1>10. ASSUME NEW d \in Drafts, RejectDraft(d)
       PROVE  TypeOK'
  BY <1>0, <1>10 DEF RejectDraft, world
<1>11. CASE ApiCrash
  BY <1>0, <1>f, <1>11 DEF ApiCrash, HandlerStates, world
<1>12. ASSUME NEW p \in Pollers, FetchPending(p)
       PROVE  TypeOK'
  <2>1. ASSUME NEW d \in Drafts PROVE Wording(drafts[d]) \in Texts
    BY DEF Wording, Texts, Row
  <2>2. [pc |-> "next", todo |-> {[id |-> d, text |-> Wording(drafts[d])] :
                                    d \in ListPendingSend(drafts)}, item |-> Nobody]
          \in PollStates
    <3>1. ListPendingSend(drafts) \subseteq Drafts
      BY DEF ListPendingSend, Pending
    <3>2. {[id |-> d, text |-> Wording(drafts[d])] : d \in ListPendingSend(drafts)}
            \in SUBSET Item
      BY <2>1, <3>1 DEF Item
    <3> QED BY <3>2 DEF PollStates
  <2> QED BY <1>0, <1>12, <2>2 DEF FetchPending, world
<1>13. ASSUME NEW p \in Pollers, TakeNext(p)
       PROVE  TypeOK'
  <2>1. PICK i \in First(polls[p].todo) :
          LET skip == GuardsInFlight /\ i.id \in inFlight
          IN  /\ polls' = [polls EXCEPT
                   ![p] = [pc   |-> IF skip THEN "next" ELSE "sending",
                           todo |-> polls[p].todo \ {i},
                           item |-> IF skip THEN Nobody ELSE i]]
              /\ inFlight' = IF GuardsInFlight THEN inFlight \cup {i.id} ELSE inFlight
    BY <1>13 DEF TakeNext
  <2>2. i \in Item /\ i.id \in Drafts /\ polls[p].todo \ {i} \in SUBSET Item
    BY PollTypes DEF First, Item
  <2>3. /\ [pc |-> "next", todo |-> polls[p].todo \ {i}, item |-> Nobody] \in PollStates
        /\ [pc |-> "sending", todo |-> polls[p].todo \ {i}, item |-> i] \in PollStates
    BY <2>2 DEF PollStates
  <2>4. polls' \in [Pollers -> PollStates] /\ inFlight' \subseteq Drafts
    BY <2>1, <2>2, <2>3
  <2> QED BY <1>0, <1>13, <2>4 DEF TakeNext, world
<1>14. ASSUME NEW p \in Pollers, FinishPoll(p)
       PROVE  TypeOK'
  BY <1>0, <1>14 DEF FinishPoll, IdlePoll, PollStates, world
<1>15. ASSUME NEW p \in Pollers, Say(p)
       PROVE  TypeOK'
  <2>1. polls[p].pc \in Busy /\ "marking" \in Busy
    BY <1>15 DEF Say, Busy
  <2>2. polls[p].item.id \in Drafts /\ polls[p].item.text \in Texts
    BY <2>1, BusyPollTypes
  <2>3. said' \in [Drafts -> Nat] /\ heard' \in [Drafts -> SUBSET Texts]
    BY <1>15, <2>2, ArrivesTypes DEF Say
  <2>4. polls' \in [Pollers -> PollStates]
    BY <1>15, <2>1, BusyPollTypes DEF Say
  <2> QED BY <1>0, <1>15, <2>3, <2>4 DEF Say
<1>16. ASSUME NEW p \in Pollers, NoTarget(p)
       PROVE  TypeOK'
  <2>1. polls[p].pc \in Busy
    BY <1>16 DEF NoTarget, Busy
  <2> QED BY <1>0, <1>16, <2>1, CaughtTypes DEF NoTarget, world
<1>17. ASSUME NEW p \in Pollers, SayFails(p)
       PROVE  TypeOK'
  <2>1. polls[p].pc \in Busy
    BY <1>17 DEF SayFails, Busy
  <2>2. said' \in [Drafts -> Nat] /\ heard' \in [Drafts -> SUBSET Texts]
    BY <1>17, <2>1, BusyPollTypes, ArrivesTypes DEF SayFails
  <2> QED BY <1>0, <1>f, <1>17, <2>1, <2>2, CaughtTypes DEF SayFails
<1>18. ASSUME NEW p \in Pollers, MarkSent(p)
       PROVE  TypeOK'
  <2>1. polls[p].pc \in Busy
    BY <1>18 DEF MarkSent, Busy
  <2> QED BY <1>0, <1>18, <2>1, CaughtTypes DEF MarkSent, world
<1>19. ASSUME NEW p \in Pollers, MarkSentFails(p)
       PROVE  TypeOK'
  <2>1. polls[p].pc \in Busy
    BY <1>19 DEF MarkSentFails, Busy
  <2> QED BY <1>0, <1>f, <1>19, <2>1, CaughtTypes DEF MarkSentFails, world
<1>20. ASSUME NEW p \in Pollers, ReportFailure(p)
       PROVE  TypeOK'
  <2>1. polls[p].pc \in Busy
    BY <1>20 DEF ReportFailure, Busy
  <2> QED BY <1>0, <1>20, <2>1, CaughtTypes DEF ReportFailure, world
<1>21. ASSUME NEW p \in Pollers, ReportLost(p)
       PROVE  TypeOK'
  <2>1. polls[p].pc \in Busy
    BY <1>21 DEF ReportLost, Busy
  <2> QED BY <1>0, <1>f, <1>21, <2>1, CaughtTypes DEF ReportLost, world
<1>22. CASE GatewayCrash
  BY <1>0, <1>f, <1>22 DEF GatewayCrash, IdlePoll, PollStates, world
<1>23. ASSUME NEW d \in Drafts, RetryDelayElapses(d)
       PROVE  TypeOK'
  BY <1>0, <1>23 DEF RetryDelayElapses, world
<1>24. CASE UNCHANGED vars
  BY <1>24 DEF vars
<1> QED
  BY <1>1, <1>2, <1>3, <1>4, <1>5, <1>6, <1>7, <1>8, <1>9, <1>10, <1>11, <1>12, <1>13,
     <1>14, <1>15, <1>16, <1>17, <1>18, <1>19, <1>20, <1>21, <1>22, <1>23, <1>24
  DEF Next, Worker, Triage, Gateway, PollStep
-----------------------------------------------------------------------------
\* The initial state.

\* The invariant holds initially.
LEMMA InitIInv ==
  ASSUME Init
  PROVE  IInv
<1> USE DEF Init
<1>1. \A d \in Drafts : drafts[d] = NewRow(Absent, 0, 0) /\ Good(drafts[d])
  BY NewRowGood DEF EmptyTable
<1>2. TypeOK
  <2>1. handlers \in [Handlers -> HandlerStates] /\ polls \in [Pollers -> PollStates]
    BY DEF HandlerStates, PollStates, IdlePoll
  <2>2. faults \in 0..MaxFaults
    BY FaultsBounded
  <2>3. drafts \in [Drafts -> Row]
    BY <1>1 DEF EmptyTable, Good
  <2> QED BY <2>1, <2>2, <2>3 DEF TypeOK
<1>3. RetryBudget
  BY <1>1, RetryBudgetIsConsistent DEF Good
<1>4. PollsHoldCleared /\ HandlersHoldWork
  BY DEF PollsHoldCleared, HandlersHoldWork, IdlePoll, IdleHandler
<1>5. HeardWasSaid /\ PolicyContainment /\ SaidAsApproved
  BY DEF HeardWasSaid, PolicyContainment, SaidAsApproved
<1>6. SentWasActuated
  BY <1>1 DEF SentWasActuated, NewRow, Absent
<1> QED BY <1>2, <1>3, <1>4, <1>5, <1>6 DEF IInv
-----------------------------------------------------------------------------
\* What reaches the world in a step comes from a poll that is sending it or a
\* handler that starts its doer.

Sends(p, d) == polls[p].pc = "sending" /\ polls[p].item.id = d

\* A message that arrives was in the hand of the poll that sends it.
LEMMA ArrivesStep ==
  ASSUME TypeOK, NEW p \in Pollers, polls[p].pc = "sending",
         Arrives(polls[p].item), NEW d \in Drafts
  PROVE  /\ said'[d] >= said[d] /\ (heard'[d] # {} => said'[d] > 0 \/ heard[d] # {})
         /\ \/ said'[d] = said[d] /\ heard'[d] = heard[d]
            \/ Sends(p, d) /\ heard'[d] \subseteq heard[d] \cup {polls[p].item.text}
<1>1. polls[p].item.id \in Drafts
  BY PollTypes
<1>2. said[d] \in Nat
  BY DEF TypeOK
<1>3. CASE polls[p].item.id = d
  BY <1>1, <1>2, <1>3 DEF Arrives, TypeOK, Sends
<1>4. CASE polls[p].item.id # d
  BY <1>1, <1>2, <1>4 DEF Arrives, TypeOK
<1> QED BY <1>3, <1>4

\* What was said and worked only grows, and by a poll that sends.
LEMMA WorldStep ==
  ASSUME TypeOK, [Next]_vars, NEW d \in Drafts
  PROVE  /\ said'[d] >= said[d] /\ (heard'[d] # {} => said'[d] > 0 \/ heard[d] # {})
         /\ worked'[d] >= worked[d]
         /\ \/ said'[d] = said[d] /\ heard'[d] = heard[d]
            \/ \E p \in Pollers :
                 Sends(p, d) /\ heard'[d] \subseteq heard[d] \cup {polls[p].item.text}
<1>0. said[d] \in Nat /\ worked[d] \in Nat
  BY DEF TypeOK
<1>1. CASE UNCHANGED world
  BY <1>0, <1>1 DEF world
<1>2. ASSUME NEW h \in Handlers, DoerWorks(h)
      PROVE  worked'[d] >= worked[d] /\ UNCHANGED <<said, heard>>
  BY <1>0, <1>2, HandlerTypes DEF DoerWorks, TypeOK
<1>3. ASSUME NEW p \in Pollers, Say(p) \/ SayFails(p)
      PROVE  /\ Arrives(polls[p].item) \/ UNCHANGED <<said, heard>>
             /\ polls[p].pc = "sending" /\ UNCHANGED worked
  BY <1>3 DEF Say, SayFails
<1>4. ASSUME NEW h \in Handlers,
             \/ \E e \in Drafts, req \in Requests : ReadForTriage(h, e, req)
             \/ DoerCompletes(h) \/ DoerFails(h) \/ DecideDraft(h)
      PROVE  UNCHANGED world
  BY <1>4 DEF ReadForTriage, DoerCompletes, DoerFails, DecideDraft
<1>5. ASSUME NEW p \in Pollers,
             \/ FetchPending(p) \/ TakeNext(p) \/ FinishPoll(p) \/ NoTarget(p)
             \/ MarkSent(p) \/ MarkSentFails(p) \/ ReportFailure(p) \/ ReportLost(p)
      PROVE  UNCHANGED world
  BY <1>5 DEF FetchPending, TakeNext, FinishPoll, NoTarget, MarkSent, MarkSentFails,
              ReportFailure, ReportLost
<1>6. ASSUME NEW e \in Drafts,
             \/ \E action \in {"BLOCK", "AUTO_SEND", "REVIEW"} : InsertDraft(e, action)
             \/ SupersedeOlder(e) \/ SupersedeFails(e) \/ RejectDraft(e)
             \/ \E req \in Requests : MiniProgramTriage(e, req)
             \/ RetryDelayElapses(e)
      PROVE  UNCHANGED world
  BY <1>6 DEF InsertDraft, SupersedeOlder, SupersedeFails, RejectDraft,
              MiniProgramTriage, RetryDelayElapses
<1>7. CASE ApiCrash \/ GatewayCrash \/ UNCHANGED vars
  BY <1>1, <1>7 DEF ApiCrash, GatewayCrash, vars, world
<1>8. ASSUME NEW p \in Pollers, Say(p) \/ SayFails(p)
      PROVE  /\ said'[d] >= said[d] /\ (heard'[d] # {} => said'[d] > 0 \/ heard[d] # {})
             /\ \/ said'[d] = said[d] /\ heard'[d] = heard[d]
                \/ Sends(p, d) /\ heard'[d] \subseteq heard[d] \cup {polls[p].item.text}
  BY <1>0, <1>3, <1>8, ArrivesStep
<1> QED
  BY <1>0, <1>1, <1>2, <1>3, <1>4, <1>5, <1>6, <1>7, <1>8
  DEF Next, Worker, Triage, Gateway, PollStep
-----------------------------------------------------------------------------
\* Polls keep holding cleared drafts in the wording they were approved in.

ValidIn(table, i) ==
  i.id \in Drafts /\ table[i.id].status \in Cleared /\ i.text = Wording(table[i.id])

Holds(poll, table, count) ==
  /\ \A i \in poll.todo : ValidIn(table, i)
  /\ poll.pc \in Busy => ValidIn(table, poll.item)
  /\ poll.pc = "marking" => count[poll.item.id] > 0

\* PollsHoldCleared, poll by poll.
LEMMA PollsHold ==
  ASSUME TypeOK
  PROVE  PollsHoldCleared <=> \A p \in Pollers : Holds(polls[p], drafts, said)
<1>1. ASSUME NEW p \in Pollers
      PROVE  /\ \A i \in polls[p].todo : i.id \in Drafts
             /\ polls[p].pc \in Busy => polls[p].item.id \in Drafts
  BY PollTypes DEF Item, Busy
<1> QED BY <1>1 DEF PollsHoldCleared, Valid, Holds, ValidIn, Busy

\* An approved wording stays approved.
LEMMA ValidStep ==
  ASSUME NEW table, NEW next, Steps(table, next), NEW i, ValidIn(table, i)
  PROVE  ValidIn(next, i)
BY DEF Steps, Evolves, ValidIn, Wording

\* What a poll holds stays cleared while the table evolves.
LEMMA HoldsStep ==
  ASSUME NEW table, NEW next, Steps(table, next), NEW count, NEW more,
         \A d \in Drafts : count[d] > 0 => more[d] > 0,
         NEW poll, Holds(poll, table, count)
  PROVE  Holds(poll, next, more)
<1>1. \A i : ValidIn(table, i) => ValidIn(next, i)
  BY ValidStep
<1>2. poll.pc = "marking" => more[poll.item.id] > 0
  BY DEF Holds, ValidIn, Busy
<1> QED BY <1>1, <1>2 DEF Holds

\* What the polls' own steps leave in their list is still held, but an idle or
\* waiting poll holds nothing in hand.
LEMMA PollStepHolds ==
  ASSUME IInv, NEW p \in Pollers,
         \/ FetchPending(p) \/ TakeNext(p) \/ FinishPoll(p) \/ Say(p) \/ NoTarget(p)
         \/ SayFails(p) \/ MarkSent(p) \/ MarkSentFails(p) \/ ReportFailure(p)
         \/ ReportLost(p),
         \A d \in Drafts : said[d] > 0 => said'[d] > 0
  PROVE  /\ Holds(polls'[p], drafts, said')
         /\ \A q \in Pollers \ {p} : polls'[q] = polls[q]
<1>1. TypeOK /\ Holds(polls[p], drafts, said)
  BY PollsHold DEF IInv
<1>2. polls \in [Pollers -> PollStates]
  BY <1>1 DEF TypeOK, PollStates
<1>3. CASE FetchPending(p)
  <2>1. polls'[p].pc = "next" /\ polls'[p].todo =
          {[id |-> d, text |-> Wording(drafts[d])] : d \in ListPendingSend(drafts)}
    BY <1>2, <1>3 DEF FetchPending
  <2>2. \A d \in ListPendingSend(drafts) : d \in Drafts /\ drafts[d].status \in Cleared
    BY DEF ListPendingSend, Pending, Sendable, Cleared
  <2>3. \A i \in polls'[p].todo : ValidIn(drafts, i)
    BY <2>1, <2>2 DEF ValidIn
  <2> QED BY <1>2, <1>3, <2>1, <2>3 DEF FetchPending, Holds, Busy
<1>4. CASE TakeNext(p)
  <2>1. PICK i \in polls[p].todo :
          /\ polls'[p].todo = polls[p].todo \ {i}
          /\ \/ polls'[p].pc = "next"
             \/ polls'[p].pc = "sending" /\ polls'[p].item = i
    BY <1>2, <1>4 DEF TakeNext, First
  <2>2. \A q \in Pollers \ {p} : polls'[q] = polls[q]
    BY <1>2, <1>4 DEF TakeNext
  <2> QED BY <1>1, <2>1, <2>2 DEF Holds, Busy
<1>5. CASE FinishPoll(p)
  BY <1>2, <1>5 DEF FinishPoll, IdlePoll, Holds, Busy
<1>6. ASSUME Release(p)
      PROVE  /\ Holds(polls'[p], drafts, said')
             /\ \A q \in Pollers \ {p} : polls'[q] = polls[q]
  <2>1. polls'[p].pc = "next" /\ polls'[p].todo = polls[p].todo
    BY <1>2, <1>6 DEF Release
  <2> QED BY <1>1, <1>2, <1>6, <2>1 DEF Release, Holds, Busy
<1>7. ASSUME polls[p].pc \in Busy, NEW pc \in Busy, polls' = [polls EXCEPT ![p].pc = pc],
             pc = "marking" => said'[polls[p].item.id] > 0
      PROVE  /\ Holds(polls'[p], drafts, said')
             /\ \A q \in Pollers \ {p} : polls'[q] = polls[q]
  <2>1. polls'[p] = [polls[p] EXCEPT !.pc = pc]
    BY <1>2, <1>7
  <2>2. /\ polls'[p].pc = pc /\ polls'[p].todo = polls[p].todo
        /\ polls'[p].item = polls[p].item
    BY <1>2, <2>1 DEF PollStates
  <2> QED BY <1>1, <1>2, <1>7, <2>2 DEF Holds
<1>8. CASE Say(p)
  <2>1. polls[p].item.id \in Drafts /\ said[polls[p].item.id] \in Nat
    BY <1>1, <1>8, PollTypes DEF Say, TypeOK
  <2>2. said'[polls[p].item.id] > 0
    BY <1>1, <1>8, <2>1 DEF Say, Arrives, TypeOK
  <2> QED BY <1>7, <1>8, <2>2 DEF Say, Busy
<1>9. ASSUME polls[p].pc \in Busy, Caught(p)
      PROVE  /\ Holds(polls'[p], drafts, said')
             /\ \A q \in Pollers \ {p} : polls'[q] = polls[q]
  BY <1>6, <1>7, <1>9 DEF Caught, Busy
<1>10. CASE NoTarget(p) \/ SayFails(p) \/ MarkSentFails(p)
  BY <1>6, <1>9, <1>10 DEF NoTarget, SayFails, MarkSentFails, Busy
<1>11. CASE MarkSent(p) \/ ReportFailure(p) \/ ReportLost(p)
  BY <1>6, <1>11 DEF MarkSent, ReportFailure, ReportLost
<1> QED BY <1>3, <1>4, <1>5, <1>8, <1>10, <1>11

\* Every step keeps what polls hold cleared.
LEMMA PollsHoldStep ==
  ASSUME IInv, [Next]_vars
  PROVE  PollsHoldCleared'
<1>1. TypeOK /\ RetryBudget /\ \A p \in Pollers : Holds(polls[p], drafts, said)
  BY PollsHold DEF IInv
<1>2. TypeOK'
  BY <1>1, TypeStep
<1>3. Steps(drafts, drafts')
  BY <1>1, TableStep
<1>4. \A d \in Drafts : said[d] > 0 => said'[d] > 0
  BY <1>1, <1>2, WorldStep DEF TypeOK
<1>5. ASSUME NEW p \in Pollers, Holds(polls'[p], drafts, said')
      PROVE  Holds(polls'[p], drafts', said')
  BY <1>3, <1>5, HoldsStep
<1>6. \A p \in Pollers : Holds(polls[p], drafts', said')
  BY <1>1, <1>3, <1>4, HoldsStep
<1>7. ASSUME NEW p \in Pollers,
             \/ FetchPending(p) \/ TakeNext(p) \/ FinishPoll(p) \/ Say(p) \/ NoTarget(p)
             \/ SayFails(p) \/ MarkSent(p) \/ MarkSentFails(p) \/ ReportFailure(p)
             \/ ReportLost(p)
      PROVE  \A q \in Pollers : Holds(polls'[q], drafts', said')
  BY <1>4, <1>5, <1>6, <1>7, PollStepHolds
<1>8. CASE GatewayCrash
  <2>1. \A p \in Pollers : polls'[p] = IdlePoll
    BY <1>8 DEF GatewayCrash
  <2> QED BY <1>2, <2>1 DEF PollsHoldCleared, IdlePoll
<1>9. CASE UNCHANGED polls
  BY <1>2, <1>6, <1>9, PollsHold DEF PollsHoldCleared, Holds, Valid, ValidIn, Busy
<1>10. ASSUME NEW h \in Handlers,
             \/ \E e \in Drafts, req \in Requests : ReadForTriage(h, e, req)
             \/ DoerWorks(h) \/ DoerCompletes(h) \/ DoerFails(h) \/ DecideDraft(h)
      PROVE  UNCHANGED polls
  BY <1>10 DEF ReadForTriage, DoerWorks, DoerCompletes, DoerFails, DecideDraft
<1>11. ASSUME NEW e \in Drafts,
             \/ \E action \in {"BLOCK", "AUTO_SEND", "REVIEW"} : InsertDraft(e, action)
             \/ SupersedeOlder(e) \/ SupersedeFails(e) \/ RejectDraft(e)
             \/ \E req \in Requests : MiniProgramTriage(e, req)
             \/ RetryDelayElapses(e)
      PROVE  UNCHANGED polls
  BY <1>11 DEF InsertDraft, SupersedeOlder, SupersedeFails, RejectDraft,
               MiniProgramTriage, RetryDelayElapses
<1>12. ASSUME NEW p \in Pollers,
             \/ FetchPending(p) \/ TakeNext(p) \/ FinishPoll(p) \/ Say(p) \/ NoTarget(p)
             \/ SayFails(p) \/ MarkSent(p) \/ MarkSentFails(p) \/ ReportFailure(p)
             \/ ReportLost(p)
      PROVE  PollsHoldCleared'
  BY <1>7, <1>12 DEF PollsHoldCleared, Holds, Valid, ValidIn, Busy
<1> QED
  BY <1>8, <1>9, <1>10, <1>11, <1>12
  DEF Next, Worker, Triage, Gateway, PollStep, ApiCrash, vars
-----------------------------------------------------------------------------
\* Handlers about to write SENT keep the work of their doer behind them.

HandlerHolds(handler, table, count) ==
  handler.pc # "idle" =>
    /\ handler.draft \in Drafts /\ table[handler.draft].status # Absent
    /\ handler.pc \in {"starting", "worked"} => handler.req.doer
    /\ handler.req.doer /\ handler.pc # "starting" => count[handler.draft] > 0

\* HandlersHoldWork, handler by handler.
LEMMA HandlersHold ==
  ASSUME TypeOK
  PROVE  HandlersHoldWork <=>
           \A h \in Handlers : HandlerHolds(handlers[h], drafts, worked)
BY HandlerTypes DEF HandlersHoldWork, HandlerHolds

\* What a handler holds stays true while the table evolves.
LEMMA HandlerHoldsStep ==
  ASSUME NEW table, NEW next, Steps(table, next), NEW count, NEW more,
         \A d \in Drafts : count[d] > 0 => more[d] > 0,
         NEW handler, HandlerHolds(handler, table, count)
  PROVE  HandlerHolds(handler, next, more)
BY DEF Steps, Evolves, HandlerHolds

\* A step of a handler keeps what it holds and touches no other handler.
LEMMA HandlerStepHolds ==
  ASSUME IInv, NEW h \in Handlers,
         \/ \E d \in Drafts, req \in Requests : ReadForTriage(h, d, req)
         \/ DoerWorks(h) \/ DoerCompletes(h) \/ DoerFails(h) \/ DecideDraft(h),
         \A d \in Drafts : worked[d] > 0 => worked'[d] > 0
  PROVE  /\ HandlerHolds(handlers'[h], drafts, worked')
         /\ \A g \in Handlers \ {h} : handlers'[g] = handlers[g]
<1>1. /\ TypeOK /\ HandlerHolds(handlers[h], drafts, worked)
      /\ handlers \in [Handlers -> HandlerStates]
  BY HandlersHold DEF IInv, TypeOK
<1>2. ASSUME NEW d \in Drafts, NEW req \in Requests, ReadForTriage(h, d, req)
      PROVE  HandlerHolds(handlers'[h], drafts, worked')
  <2>1. handlers'[h] = [pc |-> IF req.doer THEN "starting" ELSE "deciding",
                        draft |-> d, req |-> req]
    BY <1>1, <1>2 DEF ReadForTriage
  <2>2. drafts[d].status # Absent
    BY <1>2 DEF ReadForTriage, Absent
  <2> QED BY <2>1, <2>2 DEF HandlerHolds
<1>3. ASSUME handlers[h].pc # "idle", NEW pc \in {"worked", "deciding"},
             handlers' = [handlers EXCEPT ![h].pc = pc],
             handlers[h].req.doer, worked'[handlers[h].draft] > 0
      PROVE  HandlerHolds(handlers'[h], drafts, worked')
  <2>1. handlers'[h] = [handlers[h] EXCEPT !.pc = pc]
    BY <1>1, <1>3
  <2>2. /\ handlers'[h].pc = pc /\ handlers'[h].draft = handlers[h].draft
        /\ handlers'[h].req = handlers[h].req
    BY <1>1, <1>3, <2>1, HandlerTypes
  <2> QED BY <1>1, <1>3, <2>2 DEF HandlerHolds
<1>4. CASE DoerWorks(h)
  <2>1. handlers[h].draft \in Drafts /\ worked[handlers[h].draft] \in Nat
    BY <1>1, <1>4, HandlerTypes DEF DoerWorks, TypeOK
  <2>2. worked'[handlers[h].draft] > 0
    BY <1>1, <1>4, <2>1 DEF DoerWorks, TypeOK
  <2> QED BY <1>1, <1>3, <1>4, <2>2 DEF DoerWorks, HandlerHolds
<1>5. CASE DoerCompletes(h)
  BY <1>1, <1>3, <1>5 DEF DoerCompletes, HandlerHolds
<1>6. CASE DoerFails(h) \/ DecideDraft(h)
  BY <1>1, <1>6 DEF DoerFails, DecideDraft, HandlerHolds, IdleHandler
<1>7. \A g \in Handlers \ {h} : handlers'[g] = handlers[g]
  BY <1>1 DEF ReadForTriage, DoerWorks, DoerCompletes, DoerFails, DecideDraft
<1> QED BY <1>2, <1>4, <1>5, <1>6, <1>7

\* Every step keeps what handlers hold.
LEMMA HandlersHoldStep ==
  ASSUME IInv, [Next]_vars
  PROVE  HandlersHoldWork'
<1>1. /\ TypeOK /\ RetryBudget
      /\ \A h \in Handlers : HandlerHolds(handlers[h], drafts, worked)
  BY HandlersHold DEF IInv
<1>2. TypeOK'
  BY <1>1, TypeStep
<1>3. Steps(drafts, drafts')
  BY <1>1, TableStep
<1>4. \A d \in Drafts : worked[d] > 0 => worked'[d] > 0
  BY <1>1, <1>2, WorldStep DEF TypeOK
<1>5. ASSUME NEW h \in Handlers, HandlerHolds(handlers'[h], drafts, worked')
      PROVE  HandlerHolds(handlers'[h], drafts', worked')
  BY <1>3, <1>5, HandlerHoldsStep
<1>6. \A h \in Handlers : HandlerHolds(handlers[h], drafts', worked')
  BY <1>1, <1>3, <1>4, HandlerHoldsStep
<1>7. ASSUME NEW h \in Handlers,
             \/ \E d \in Drafts, req \in Requests : ReadForTriage(h, d, req)
             \/ DoerWorks(h) \/ DoerCompletes(h) \/ DoerFails(h) \/ DecideDraft(h)
      PROVE  \A g \in Handlers : HandlerHolds(handlers'[g], drafts', worked')
  BY <1>4, <1>5, <1>6, <1>7, HandlerStepHolds
<1>8. CASE ApiCrash
  <2>1. \A h \in Handlers : handlers'[h] = IdleHandler
    BY <1>8 DEF ApiCrash
  <2> QED BY <1>2, <2>1 DEF HandlersHoldWork, IdleHandler
<1>9. CASE UNCHANGED handlers
  BY <1>6, <1>9 DEF HandlersHoldWork, HandlerHolds
<1>10. ASSUME NEW p \in Pollers,
             \/ FetchPending(p) \/ TakeNext(p) \/ FinishPoll(p) \/ Say(p) \/ NoTarget(p)
             \/ SayFails(p) \/ MarkSent(p) \/ MarkSentFails(p) \/ ReportFailure(p)
             \/ ReportLost(p)
       PROVE  UNCHANGED handlers
  BY <1>10 DEF FetchPending, TakeNext, FinishPoll, Say, NoTarget, SayFails, MarkSent,
               MarkSentFails, ReportFailure, ReportLost
<1>11. ASSUME NEW e \in Drafts,
             \/ \E action \in {"BLOCK", "AUTO_SEND", "REVIEW"} : InsertDraft(e, action)
             \/ SupersedeOlder(e) \/ SupersedeFails(e) \/ RejectDraft(e)
             \/ \E req \in Requests : MiniProgramTriage(e, req)
             \/ RetryDelayElapses(e)
      PROVE  UNCHANGED handlers
  BY <1>11 DEF InsertDraft, SupersedeOlder, SupersedeFails, RejectDraft,
               MiniProgramTriage, RetryDelayElapses
<1>12. ASSUME NEW h \in Handlers,
             \/ \E d \in Drafts, req \in Requests : ReadForTriage(h, d, req)
             \/ DoerWorks(h) \/ DoerCompletes(h) \/ DoerFails(h) \/ DecideDraft(h)
      PROVE  HandlersHoldWork'
  BY <1>7, <1>12 DEF HandlersHoldWork, HandlerHolds
<1> QED
  BY <1>8, <1>9, <1>10, <1>11, <1>12
  DEF Next, Worker, Triage, Gateway, PollStep, GatewayCrash, vars
-----------------------------------------------------------------------------
\* A draft becomes SENT by a poll that has said it or by a doer that did it.

Backed(d) == \/ \E p \in Pollers : polls[p].pc = "marking" /\ polls[p].item.id = d
             \/ \E h \in Handlers : /\ handlers[h].pc = "deciding"
                                     /\ handlers[h].draft = d /\ handlers[h].req.doer

\* The statements that do not make a draft SENT.
LEMMA StatusUnlessSent ==
  ASSUME NEW row \in Row, NEW text \in Edits \cup {NoEdit}, NEW t \in Nat
  PROVE  /\ Approved(row, text, t).status = "APPROVED"
         /\ MarkedFailed(row).status # "SENT"
         /\ Rejected(row).status = "REJECTED"
         /\ [row EXCEPT !.backoff = FALSE].status = row.status
BY DEF Approved, MarkedFailed, Rejected, Row

\* A draft becomes SENT only after its message or its doer.
LEMMA SentStep ==
  ASSUME TypeOK, [Next]_vars, NEW d \in Drafts,
         drafts[d].status # "SENT", drafts'[d].status = "SENT"
  PROVE  Backed(d)
<1>0. drafts \in [Drafts -> Row] /\ drafts[d] \in Row /\ now \in Nat
      /\ drafts[d].edited \in Edits \cup {NoEdit}
  BY DEF TypeOK, Row
<1>1. ASSUME NEW e \in Drafts, NEW action \in {"BLOCK", "AUTO_SEND", "REVIEW"},
             InsertDraft(e, action)
      PROVE  FALSE
  BY <1>0, <1>1 DEF InsertDraft, InsertOutboundDraft, NewRow, StatusOf
<1>2. ASSUME NEW e \in Drafts, SupersedeOlder(e)
      PROVE  FALSE
  BY <1>0, <1>2, StatusUnlessSent DEF SupersedeOlder, RejectSupersededDraftsForThread
<1>3. ASSUME NEW e \in Drafts, NEW req \in Requests, drafts' = Decision(e, req)
      PROVE  e = d /\ req.doer
  <2>1. req.text \in Edits \cup {NoEdit} /\ req.kind \in {"approve", "edit", "select"}
        /\ req.doer \in BOOLEAN
    BY DEF Requests
  <2>2. CASE ~req.doer
    BY <1>0, <1>3, <2>1, <2>2, StatusUnlessSent
    DEF Decision, Update, ApproveOutboundDraft, EditAndApproveOutboundDraft,
        SelectReplyOptionAndApprove
  <2>3. CASE e # d
    BY <1>0, <1>3, <2>1, <2>3
    DEF Decision, Update, ApproveOutboundDraft, EditAndApproveOutboundDraft,
        SelectReplyOptionAndApprove, ApproveAndMarkSentOutboundDraft,
        EditApproveAndMarkSentOutboundDraft, SelectReplyOptionApproveAndMarkSent
  <2> QED BY <2>1, <2>2, <2>3
<1>4. ASSUME NEW h \in Handlers, DecideDraft(h)
      PROVE  Backed(d)
  BY <1>3, <1>4, HandlerTypes DEF DecideDraft, Backed
<1>5. ASSUME NEW e \in Drafts, NEW req \in Requests, MiniProgramTriage(e, req)
      PROVE  FALSE
  BY <1>3, <1>5 DEF MiniProgramTriage
<1>6. ASSUME NEW e \in Drafts, RejectDraft(e)
      PROVE  FALSE
  BY <1>0, <1>6, StatusUnlessSent DEF RejectDraft, RejectOutboundDraft, Update
<1>7. ASSUME NEW p \in Pollers, MarkSent(p) \/ MarkSentFails(p)
      PROVE  Backed(d)
  <2>1. polls[p].pc = "marking"
    BY <1>7 DEF MarkSent, MarkSentFails
  <2>2. drafts' = drafts \/ drafts' = MarkOutboundSent(drafts, polls[p].item.id)
    BY <1>7 DEF MarkSent, MarkSentFails
  <2>3. polls[p].item.id = d
    BY <1>0, <2>2 DEF MarkOutboundSent, Update
  <2> QED BY <2>1, <2>3 DEF Backed
<1>8. ASSUME NEW p \in Pollers, ReportFailure(p)
      PROVE  FALSE
  BY <1>0, <1>8, StatusUnlessSent DEF ReportFailure, MarkOutboundSendFailed, Update
<1>9. ASSUME NEW e \in Drafts, RetryDelayElapses(e)
      PROVE  FALSE
  <2>1. drafts' = [drafts EXCEPT ![e] = [drafts[e] EXCEPT !.backoff = FALSE]]
    BY <1>9 DEF RetryDelayElapses
  <2> QED BY <1>0, <2>1, StatusUnlessSent
<1>10. drafts' # drafts
  OBVIOUS
<1>11. ASSUME NEW e \in Drafts, SupersedeFails(e)
       PROVE  FALSE
  BY <1>10, <1>11 DEF SupersedeFails
<1>12. ASSUME NEW h \in Handlers,
              \/ \E e \in Drafts, req \in Requests : ReadForTriage(h, e, req)
              \/ DoerWorks(h) \/ DoerCompletes(h) \/ DoerFails(h)
       PROVE  FALSE
  BY <1>10, <1>12 DEF ReadForTriage, DoerWorks, DoerCompletes, DoerFails
<1>13. ASSUME NEW p \in Pollers,
              \/ FetchPending(p) \/ TakeNext(p) \/ FinishPoll(p) \/ Say(p)
              \/ NoTarget(p) \/ SayFails(p) \/ ReportLost(p)
       PROVE  FALSE
  BY <1>10, <1>13 DEF FetchPending, TakeNext, FinishPoll, Say, NoTarget, SayFails, ReportLost
<1>14. CASE ApiCrash \/ GatewayCrash \/ UNCHANGED vars
  BY <1>10, <1>14 DEF ApiCrash, GatewayCrash, vars
<1> QED
  BY <1>1, <1>2, <1>4, <1>5, <1>6, <1>7, <1>8, <1>9, <1>11, <1>12, <1>13, <1>14
  DEF Next, Worker, Triage, Gateway, PollStep
-----------------------------------------------------------------------------
\* The inductive invariant.

\* Every step keeps what was said contained and as approved.
LEMMA SaidStep ==
  ASSUME IInv, [Next]_vars
  PROVE  HeardWasSaid' /\ PolicyContainment' /\ SaidAsApproved'
<1>1. TypeOK /\ Steps(drafts, drafts')
  BY TableStep DEF IInv
<1>2. ASSUME NEW d \in Drafts
      PROVE  /\ heard'[d] # {} => said'[d] > 0
             /\ said'[d] > 0 => drafts'[d].status \in Cleared
             /\ heard'[d] \subseteq {Wording(drafts'[d])}
  <2>1. /\ said[d] \in Nat /\ said'[d] >= said[d]
        /\ heard'[d] # {} => said'[d] > 0 \/ heard[d] # {}
    BY <1>1, WorldStep DEF TypeOK
  <2>2. /\ said[d] > 0 => drafts[d].status \in Cleared
        /\ heard[d] # {} => said[d] > 0
        /\ heard[d] \subseteq {Wording(drafts[d])}
    BY DEF IInv, PolicyContainment, HeardWasSaid, SaidAsApproved
  <2>3. drafts[d].status \in Cleared =>
          drafts'[d].status \in Cleared /\ Wording(drafts'[d]) = Wording(drafts[d])
    BY <1>1 DEF Steps, Evolves, Wording
  <2>4. said'[d] \in Nat
    BY <1>1, TypeStep DEF IInv, TypeOK
  <2>5. CASE said'[d] = said[d] /\ heard'[d] = heard[d]
    BY <2>2, <2>3, <2>5
  <2>6. ASSUME NEW p \in Pollers, Sends(p, d),
               heard'[d] \subseteq heard[d] \cup {polls[p].item.text}
        PROVE  /\ drafts'[d].status \in Cleared
               /\ heard'[d] \subseteq {Wording(drafts'[d])}
    <3>1. drafts[d].status \in Cleared /\ polls[p].item.text = Wording(drafts[d])
      BY <2>6 DEF IInv, PollsHoldCleared, Valid, Sends
    <3> QED BY <2>2, <2>3, <2>6, <3>1
  <2>7. heard'[d] # {} => said'[d] > 0
    BY <2>1, <2>2, <2>4
  <2> QED BY <1>1, <2>5, <2>6, <2>7, WorldStep
<1> QED BY <1>2 DEF HeardWasSaid, PolicyContainment, SaidAsApproved

\* Every step keeps SENT backed.
LEMMA SentWasActuatedStep ==
  ASSUME IInv, [Next]_vars
  PROVE  SentWasActuated'
<1>1. TypeOK /\ TypeOK'
  BY TypeStep DEF IInv
<1>2. ASSUME NEW d \in Drafts, drafts'[d].status = "SENT"
      PROVE  said'[d] + worked'[d] > 0
  <2>1. /\ said[d] \in Nat /\ worked[d] \in Nat
        /\ said'[d] >= said[d] /\ worked'[d] >= worked[d]
        /\ said'[d] \in Nat /\ worked'[d] \in Nat
    BY <1>1, WorldStep DEF TypeOK
  <2>2. CASE drafts[d].status = "SENT"
    BY <2>1, <2>2 DEF IInv, SentWasActuated
  <2>3. CASE drafts[d].status # "SENT"
    <3>1. Backed(d)
      BY <1>1, <1>2, <2>3, SentStep
    <3>2. said[d] > 0 \/ worked[d] > 0
      BY <3>1 DEF Backed, IInv, PollsHoldCleared, HandlersHoldWork
    <3> QED BY <2>1, <3>2
  <2> QED BY <2>2, <2>3
<1> QED BY <1>2 DEF SentWasActuated

\* Every step keeps the invariant.
LEMMA IInvStep ==
  ASSUME IInv, [Next]_vars
  PROVE  IInv'
<1>1. TypeOK'
  BY TypeStep DEF IInv
<1>2. RetryBudget'
  <2>1. \A d \in Drafts : Consistent(drafts'[d])
    BY TableStep DEF IInv, Steps, Good
  <2> QED BY <2>1 DEF RetryBudget, Consistent
<1> QED BY <1>1, <1>2, PollsHoldStep, HandlersHoldStep, SaidStep, SentWasActuatedStep DEF IInv

\* IInv holds in every state: the conjuncts that are not themselves promises
\* (what polls and handlers hold, what was heard) are what the others rest on.
THEOREM InductiveInvariant == Spec => []IInv
<1>1. Init => IInv
  BY InitIInv
<1>2. IInv /\ [Next]_vars => IInv'
  BY IInvStep
<1> QED BY <1>1, <1>2, PTL DEF Spec

\* Every variable keeps its type.
THEOREM TypeCorrect == Spec => []TypeOK
<1>1. IInv => TypeOK
  BY DEF IInv
<1> QED BY <1>1, InductiveInvariant, PTL

\* Nothing is said over a channel that was not approved, however triage,
\* supersession and late polls interleave and whatever crashes.
THEOREM PolicyContainmentHolds == Spec => []PolicyContainment
<1>1. IInv => PolicyContainment
  BY DEF IInv
<1> QED BY <1>1, InductiveInvariant, PTL

\* A draft is only ever said in the wording its approval gave it.
THEOREM SaidAsApprovedHolds == Spec => []SaidAsApproved
<1>1. IInv => SaidAsApproved
  BY DEF IInv
<1> QED BY <1>1, InductiveInvariant, PTL

\* SENT is backed by a message or by the work of a doer.
THEOREM SentWasActuatedHolds == Spec => []SentWasActuated
<1>1. IInv => SentWasActuated
  BY DEF IInv
<1> QED BY <1>1, InductiveInvariant, PTL

\* Attempts, retry time and dead letter agree with the status.
THEOREM RetryBudgetHolds == Spec => []RetryBudget
<1>1. IInv => RetryBudget
  BY DEF IInv
<1> QED BY <1>1, InductiveInvariant, PTL

\* No step changes the status of a rejected, sent or dead draft.
THEOREM DecisionsAreFinalHolds == Spec => DecisionsAreFinal
<1>1. IInv /\ [Next]_vars =>
        [\A d \in Drafts :
           drafts[d].status \in Final => drafts'[d].status = drafts[d].status]_vars
  BY TableStep DEF IInv, Steps, Evolves
<1> QED BY <1>1, InductiveInvariant, PTL DEF Spec, DecisionsAreFinal

-----------------------------------------------------------------------------
\* The refinement: the table with its faults, overlapping polls and stale reads
\* implements DraftContract.  Every step is one of the contract or leaves it as
\* it is.

Status == [d \in Drafts |-> drafts[d].status]

\* The contract sees a table only through its statuses.
LEMMA StatusOfUpdate ==
  ASSUME TypeOK, NEW d \in Drafts, NEW row, drafts' = [drafts EXCEPT ![d] = row]
  PROVE  Status' = [Status EXCEPT ![d] = row.status]
<1>1. drafts \in [Drafts -> Row]
  BY DEF TypeOK
<1>2. drafts'[d] = row /\ \A e \in Drafts \ {d} : drafts'[e] = drafts[e]
  BY <1>1
<1>3. Status' = [e \in Drafts |-> IF e = d THEN row.status ELSE drafts[e].status]
  <2>1. \A e \in Drafts :
          drafts'[e].status = IF e = d THEN row.status ELSE drafts[e].status
    BY <1>2
  <2> QED BY <2>1 DEF Status
<1> QED BY <1>3 DEF Status

-----------------------------------------------------------------------------
\* One step of the contract for each kind of statement.

\* An insertion proposes a draft.
LEMMA InsertDraftRefines ==
  ASSUME TypeOK, NEW d \in Drafts, NEW action \in {"BLOCK", "AUTO_SEND", "REVIEW"},
         InsertDraft(d, action)
  PROVE  Contract!Propose(d)
<1>1. PICK t \in Nat : drafts' = InsertOutboundDraft(drafts, d, StatusOf(action), t, now)
  BY DEF InsertDraft, TypeOK
<1>2. Status' = [Status EXCEPT ![d] = NewRow(StatusOf(action), t, now).status]
  BY <1>1, StatusOfUpdate DEF InsertOutboundDraft
<1>3. StatusOf(action) \in {"DRAFTED", "APPROVED", "REJECTED"}
  BY DEF StatusOf
<1>4. Status[d] = "ABSENT" /\ UNCHANGED <<said, worked>>
  BY DEF InsertDraft, Status, Absent, world
<1>5. NewRow(StatusOf(action), t, now).status = StatusOf(action)
  BY DEF NewRow
<1> QED BY <1>2, <1>3, <1>4, <1>5 DEF Contract!Propose, Contract!Becomes, Status

\* Supersession rejects drafts that await a review.
LEMMA SupersedeRefines ==
  ASSUME TypeOK, NEW d \in Drafts, SupersedeOlder(d)
  PROVE  Contract!Next
<1>0. PICK rejected \in SUBSET Drafts : rejected = Superseded(drafts, d)
  BY DEF Superseded
<1>1. \A e \in rejected : Status[e] = "DRAFTED"
  BY <1>0 DEF Superseded, Status
<1>2. drafts \in [Drafts -> Row] /\ \A e \in Drafts : Rejected(drafts[e]).status = "REJECTED"
  BY DEF TypeOK, Row, Rejected
<1>3. Status' = [e \in Drafts |-> IF e \in rejected THEN "REJECTED" ELSE Status[e]]
  BY <1>0, <1>2 DEF SupersedeOlder, RejectSupersededDraftsForThread, Status
<1>4. Contract!Reject(rejected)
  BY <1>1, <1>3 DEF Contract!Reject, Status, SupersedeOlder, world
<1> QED BY <1>4 DEF Contract!Next

\* A decision approves a draft, or completes one whose doer did the work.
LEMMA DecisionRefines ==
  ASSUME TypeOK, NEW d \in Drafts, NEW req \in Requests, req.doer => worked[d] > 0,
         drafts' = Decision(d, req), UNCHANGED <<said, worked>>
  PROVE  Contract!Approve(d) \/ Contract!CompleteByDoer(d) \/ Status' = Status
<1>1. drafts \in [Drafts -> Row] /\ drafts[d] \in Row
      /\ drafts[d].edited \in Edits \cup {NoEdit} /\ now \in Nat
  BY DEF TypeOK, Row
<1>2. req.text \in Edits \cup {NoEdit} /\ req.kind \in {"approve", "edit", "select"}
      /\ req.doer \in BOOLEAN
  BY DEF Requests
<1>3. CASE drafts' = drafts
  BY <1>3 DEF Status
<1>4. CASE drafts' # drafts
  <2>1. drafts[d].status = "DRAFTED"
        /\ \E text \in Edits \cup {NoEdit} :
             drafts' = [drafts EXCEPT ![d] =
               IF req.doer THEN MarkedSent(Approved(drafts[d], text, now))
                           ELSE Approved(drafts[d], text, now)]
    BY <1>1, <1>2, <1>4
    DEF Decision, Update, ApproveOutboundDraft, EditAndApproveOutboundDraft,
        SelectReplyOptionAndApprove, ApproveAndMarkSentOutboundDraft,
        EditApproveAndMarkSentOutboundDraft, SelectReplyOptionApproveAndMarkSent
  <2>2. PICK text \in Edits \cup {NoEdit} :
          drafts' = [drafts EXCEPT ![d] =
            IF req.doer THEN MarkedSent(Approved(drafts[d], text, now))
                        ELSE Approved(drafts[d], text, now)]
    BY <2>1
  <2>3. /\ Approved(drafts[d], text, now).status = "APPROVED"
        /\ MarkedSent(Approved(drafts[d], text, now)).status = "SENT"
    BY <1>1 DEF Approved, MarkedSent, Row
  <2>4. Status[d] = "DRAFTED"
    BY <2>1 DEF Status
  <2>5. CASE req.doer
    <3>1. drafts' = [drafts EXCEPT ![d] = MarkedSent(Approved(drafts[d], text, now))]
      BY <2>2, <2>5
    <3>2. Status' = [Status EXCEPT ![d] = MarkedSent(Approved(drafts[d], text, now)).status]
      BY <3>1, StatusOfUpdate
    <3> QED BY <2>3, <2>4, <2>5, <3>2 DEF Contract!CompleteByDoer, Contract!Becomes, Status
  <2>6. CASE ~req.doer
    <3>1. drafts' = [drafts EXCEPT ![d] = Approved(drafts[d], text, now)]
      BY <2>2, <2>6
    <3>2. Status' = [Status EXCEPT ![d] = Approved(drafts[d], text, now).status]
      BY <3>1, StatusOfUpdate
    <3> QED BY <2>3, <2>4, <3>2 DEF Contract!Approve, Contract!Becomes, Status
  <2> QED BY <1>2, <2>5, <2>6
<1> QED BY <1>3, <1>4

\* A rejection by a person.
LEMMA RejectRefines ==
  ASSUME TypeOK, NEW d \in Drafts, RejectDraft(d)
  PROVE  Contract!Next
<1>1. drafts' = [drafts EXCEPT ![d] = Rejected(drafts[d])] /\ drafts[d].status = "DRAFTED"
  BY DEF RejectDraft, RejectOutboundDraft, Update
<1>2. Rejected(drafts[d]).status = "REJECTED"
  BY DEF TypeOK, Row, Rejected
<1>3. Status' = [Status EXCEPT ![d] = "REJECTED"]
  BY <1>1, <1>2, StatusOfUpdate
<1>4. Status' = [e \in Drafts |-> IF e \in {d} THEN "REJECTED" ELSE Status[e]]
  BY <1>3 DEF Status
<1>5. Contract!Reject({d})
  BY <1>1, <1>4 DEF Contract!Reject, Status, RejectDraft, world
<1> QED BY <1>5 DEF Contract!Next

\* What a gateway reports completes a draft it has said, or gives it up.
LEMMA ReportRefines ==
  ASSUME TypeOK, NEW d \in Drafts, UNCHANGED <<said, worked>>,
         \/ drafts' = MarkOutboundSent(drafts, d) /\ said[d] > 0
         \/ drafts' = MarkOutboundSendFailed(drafts, d)
  PROVE  Contract!Complete(d) \/ Contract!GiveUp(d) \/ Status' = Status
<1>1. drafts \in [Drafts -> Row] /\ drafts[d] \in Row
  BY DEF TypeOK
<1>2. CASE drafts' = drafts
  BY <1>2 DEF Status
<1>3. CASE drafts' # drafts /\ drafts' = MarkOutboundSent(drafts, d) /\ said[d] > 0
  <2>1. drafts' = [drafts EXCEPT ![d] = MarkedSent(drafts[d])] /\ drafts[d].status = "APPROVED"
    BY <1>3 DEF MarkOutboundSent, Update, Sendable
  <2>2. MarkedSent(drafts[d]).status = "SENT"
    BY <1>1 DEF MarkedSent, Row
  <2>3. Status' = [Status EXCEPT ![d] = MarkedSent(drafts[d]).status]
    BY <2>1, StatusOfUpdate
  <2> QED BY <1>3, <2>1, <2>2, <2>3 DEF Contract!Complete, Contract!Becomes, Status
<1>4. CASE drafts' # drafts /\ drafts' = MarkOutboundSendFailed(drafts, d)
  <2>1. drafts' = [drafts EXCEPT ![d] = MarkedFailed(drafts[d])]
        /\ drafts[d].status = "APPROVED"
    BY <1>4 DEF MarkOutboundSendFailed, Update, Sendable
  <2>2. MarkedFailed(drafts[d]).status \in {"APPROVED", "FAILED"}
    BY <1>1 DEF MarkedFailed, Row
  <2>3. Status' = [Status EXCEPT ![d] = MarkedFailed(drafts[d]).status]
    BY <2>1, StatusOfUpdate
  <2>4. CASE MarkedFailed(drafts[d]).status = "FAILED"
    BY <2>1, <2>3, <2>4 DEF Contract!GiveUp, Contract!Becomes, Status
  <2>5. CASE MarkedFailed(drafts[d]).status = "APPROVED"
    BY <2>1, <2>3, <2>5 DEF Status
  <2> QED BY <2>2, <2>4, <2>5
<1> QED BY <1>2, <1>3, <1>4

\* A message that arrives is delivered: its draft was cleared when it was
\* fetched and still is.
LEMMA ArrivesRefines ==
  ASSUME TypeOK, PollsHoldCleared, NEW p \in Pollers, polls[p].pc = "sending",
         Arrives(polls[p].item), UNCHANGED <<drafts, worked>>
  PROVE  Contract!Next
<1> DEFINE d == polls[p].item.id
<1>1. d \in Drafts /\ drafts[d].status \in Cleared
  BY PollTypes DEF PollsHoldCleared, Valid
<1>2. Status[d] \in {"APPROVED", "SENT", "FAILED"}
  BY <1>1 DEF Status, Cleared
<1>3. Contract!Deliver(d)
  BY <1>2 DEF Contract!Deliver, Arrives, Status
<1> QED BY <1>1, <1>3 DEF Contract!Next

-----------------------------------------------------------------------------
\* Every step of the system maps to a step of the contract or to none.
LEMMA NextRefines ==
  ASSUME IInv, [Next]_vars
  PROVE  [Contract!Next]_(Contract!vars)
<1> DEFINE Goal == Contract!Next \/ (UNCHANGED <<said, worked>> /\ Status' = Status)
<1>0. TypeOK /\ PollsHoldCleared /\ HandlersHoldWork
  BY DEF IInv
<1>1. ASSUME NEW d \in Drafts, NEW action \in {"BLOCK", "AUTO_SEND", "REVIEW"},
             InsertDraft(d, action)
      PROVE  Goal
  BY <1>0, <1>1, InsertDraftRefines DEF Contract!Next
<1>2. ASSUME NEW d \in Drafts, SupersedeOlder(d)
      PROVE  Goal
  BY <1>0, <1>2, SupersedeRefines
<1>3. ASSUME NEW h \in Handlers, DecideDraft(h)
      PROVE  Goal
  <2>1. /\ handlers[h].draft \in Drafts /\ handlers[h].req \in Requests
        /\ handlers[h].req.doer => worked[handlers[h].draft] > 0
    BY <1>0, <1>3, HandlerTypes DEF DecideDraft, HandlersHoldWork
  <2> QED BY <1>0, <1>3, <2>1, DecisionRefines DEF DecideDraft, world, Contract!Next
<1>4. ASSUME NEW d \in Drafts, NEW req \in Requests, MiniProgramTriage(d, req)
      PROVE  Goal
  BY <1>0, <1>4, DecisionRefines DEF MiniProgramTriage, world, Contract!Next
<1>5. ASSUME NEW d \in Drafts, RejectDraft(d)
      PROVE  Goal
  BY <1>0, <1>5, RejectRefines
<1>6. ASSUME NEW p \in Pollers, MarkSent(p) \/ MarkSentFails(p) \/ ReportFailure(p)
      PROVE  Goal
  <2>1. polls[p].item.id \in Drafts
    BY <1>0, <1>6, PollTypes DEF MarkSent, MarkSentFails, ReportFailure
  <2>2. polls[p].pc = "marking" => said[polls[p].item.id] > 0
    BY <1>0 DEF PollsHoldCleared
  <2>3. /\ UNCHANGED <<said, worked>>
        /\ \/ UNCHANGED drafts
           \/ drafts' = MarkOutboundSent(drafts, polls[p].item.id) /\ polls[p].pc = "marking"
           \/ drafts' = MarkOutboundSendFailed(drafts, polls[p].item.id)
    BY <1>6 DEF MarkSent, MarkSentFails, ReportFailure, world
  <2>4. CASE UNCHANGED drafts
    BY <2>3, <2>4 DEF Status
  <2> QED BY <1>0, <2>1, <2>2, <2>3, <2>4, ReportRefines DEF Contract!Next
<1>7. ASSUME NEW p \in Pollers, Say(p) \/ SayFails(p)
      PROVE  Goal
  <2>1. /\ polls[p].pc = "sending" /\ UNCHANGED <<drafts, worked>>
        /\ Arrives(polls[p].item) \/ UNCHANGED <<said, heard>>
    BY <1>7 DEF Say, SayFails
  <2> QED BY <1>0, <2>1, ArrivesRefines DEF Status
<1>8. ASSUME NEW h \in Handlers, DoerWorks(h)
      PROVE  Goal
  <2> DEFINE d == handlers[h].draft
  <2>1. d \in Drafts /\ drafts[d].status # Absent
    BY <1>0, <1>8, HandlerTypes DEF DoerWorks, HandlersHoldWork
  <2>2. Contract!CarryOut(d)
    BY <1>8, <2>1 DEF DoerWorks, Contract!CarryOut, Absent
  <2> QED BY <2>1, <2>2 DEF Contract!Next
<1>9. ASSUME NEW d \in Drafts, RetryDelayElapses(d)
      PROVE  Goal
  <2>1. drafts' = [drafts EXCEPT ![d] = [drafts[d] EXCEPT !.backoff = FALSE]]
        /\ UNCHANGED <<said, worked>>
    BY <1>9 DEF RetryDelayElapses, world
  <2>2. [drafts[d] EXCEPT !.backoff = FALSE].status = drafts[d].status
    BY <1>0 DEF TypeOK, Row
  <2>3. Status' = [Status EXCEPT ![d] = drafts[d].status]
    BY <1>0, <2>1, <2>2, StatusOfUpdate
  <2> QED BY <2>1, <2>3 DEF Status
<1>10. ASSUME UNCHANGED <<drafts, said, worked>>
       PROVE  Goal
  BY <1>10 DEF Status
<1>11. ASSUME NEW d \in Drafts, SupersedeFails(d)
       PROVE  UNCHANGED <<drafts, said, worked>>
  BY <1>11 DEF SupersedeFails, world
<1>12. ASSUME NEW h \in Handlers,
              \/ \E d \in Drafts, req \in Requests : ReadForTriage(h, d, req)
              \/ DoerCompletes(h) \/ DoerFails(h)
       PROVE  UNCHANGED <<drafts, said, worked>>
  BY <1>12 DEF ReadForTriage, DoerCompletes, DoerFails, world
<1>13. ASSUME NEW p \in Pollers,
              \/ FetchPending(p) \/ TakeNext(p) \/ FinishPoll(p) \/ NoTarget(p)
              \/ ReportLost(p)
       PROVE  UNCHANGED <<drafts, said, worked>>
  BY <1>13 DEF FetchPending, TakeNext, FinishPoll, NoTarget, ReportLost, world
<1>14. ASSUME ApiCrash \/ GatewayCrash \/ UNCHANGED vars
       PROVE  UNCHANGED <<drafts, said, worked>>
  BY <1>14 DEF ApiCrash, GatewayCrash, vars, world
<1>15. Goal
  <2> HIDE DEF Goal
  <2> QED BY <1>1, <1>2, <1>3, <1>4, <1>5, <1>6, <1>7, <1>8, <1>9, <1>10, <1>11,
             <1>12, <1>13, <1>14
          DEF Next, Worker, Triage, Gateway, PollStep
<1> QED BY <1>15, Zenon DEF Contract!vars, Status

\* The initial states of the system are initial states of the contract.
LEMMA InitRefines == Init => Contract!Init
BY DEF Init, Contract!Init, EmptyTable, NewRow, Absent

\* What people were promised about a draft holds of the system, with its
\* retries, crashes and overlapping polls.
THEOREM ImplementsContractHolds == Spec => ImplementsContract
<1>1. Init => Contract!Init
  BY InitRefines
<1>2. IInv /\ [Next]_vars => [Contract!Next]_(Contract!vars)
  BY NextRefines
<1> QED BY <1>1, <1>2, InductiveInvariant, PTL DEF Spec, ImplementsContract, Contract!Spec

-----------------------------------------------------------------------------
\* What the statements keep of a row, but for an insertion.
Kept(row, next) ==
  /\ next.createdAt = row.createdAt
  /\ next.status = Absent <=> row.status = Absent
  /\ next.status = "DRAFTED" => row.status = "DRAFTED"
  /\ Sendable(next) => Sendable(row) \/ row.status = "DRAFTED"

AllKept(table, next) == \A d \in Drafts : Kept(table[d], next[d])

\* What each statement writes keeps its row.
LEMMA RowsKept ==
  ASSUME NEW row \in Row, NEW text \in Edits \cup {NoEdit}, NEW t \in Nat
  PROVE  /\ Kept(row, row)
         /\ Kept(row, [row EXCEPT !.backoff = FALSE])
         /\ row.status = "DRAFTED" =>
              /\ Kept(row, Approved(row, text, t))
              /\ Kept(row, MarkedSent(Approved(row, text, t)))
              /\ Kept(row, Rejected(row))
         /\ Sendable(row) => Kept(row, MarkedSent(row)) /\ Kept(row, MarkedFailed(row))
<1>1. row.status \in {"DRAFTED", "APPROVED", "REJECTED", "SENT", "FAILED", Absent}
  BY DEF Row, OutboundStatus
<1>2. Kept(row, row)
  BY DEF Kept
<1>3. Kept(row, [row EXCEPT !.backoff = FALSE])
  BY DEF Kept, Row, Sendable
<1>4. ASSUME row.status = "DRAFTED"
      PROVE  /\ Kept(row, Approved(row, text, t))
             /\ Kept(row, MarkedSent(Approved(row, text, t)))
             /\ Kept(row, Rejected(row))
  BY <1>4 DEF Kept, Row, Sendable, Approved, MarkedSent, Rejected, Absent
<1>5. ASSUME Sendable(row)
      PROVE  Kept(row, MarkedSent(row)) /\ Kept(row, MarkedFailed(row))
  BY <1>5 DEF Kept, Row, Sendable, MarkedSent, MarkedFailed, Absent
<1> QED BY <1>2, <1>3, <1>4, <1>5

\* A conditional UPDATE keeps every row if it keeps the one it matches.
LEMMA UpdateKeeps ==
  ASSUME NEW table \in [Drafts -> Row], NEW d \in Drafts, NEW matches, NEW row,
         matches => Kept(table[d], row)
  PROVE  AllKept(table, Update(table, d, matches, row))
<1>1. \A e \in Drafts : Kept(table[e], table[e])
  BY DEF Kept
<1> QED BY <1>1 DEF Update, AllKept

\* A decision keeps every row.
LEMMA DecisionKeeps ==
  ASSUME TypeOK, NEW d \in Drafts, NEW req \in Requests
  PROVE  AllKept(drafts, Decision(d, req))
<1> DEFINE row == drafts[d]
<1>1. /\ drafts \in [Drafts -> Row] /\ row \in Row
      /\ row.edited \in Edits \cup {NoEdit} /\ now \in Nat
  BY DEF TypeOK, Row
<1>2. /\ req.text \in Edits \cup {NoEdit} /\ req.doer \in BOOLEAN
      /\ req.kind \in {"approve", "edit", "select"}
  BY DEF Requests
<1>3. ASSUME NEW text \in Edits \cup {NoEdit}, row.status = "DRAFTED"
      PROVE  Kept(row, Approved(row, text, now)) /\ Kept(row, MarkedSent(Approved(row, text, now)))
  BY <1>1, <1>3, RowsKept
<1>4. /\ AllKept(drafts, ApproveOutboundDraft(drafts, d, now))
      /\ AllKept(drafts, ApproveAndMarkSentOutboundDraft(drafts, d, now))
  BY <1>1, <1>3, UpdateKeeps DEF ApproveOutboundDraft, ApproveAndMarkSentOutboundDraft
<1>5. /\ AllKept(drafts, EditAndApproveOutboundDraft(drafts, d, req.text, now))
      /\ AllKept(drafts, EditApproveAndMarkSentOutboundDraft(drafts, d, req.text, now))
  BY <1>1, <1>2, <1>3, UpdateKeeps
  DEF EditAndApproveOutboundDraft, EditApproveAndMarkSentOutboundDraft
<1>6. /\ AllKept(drafts, SelectReplyOptionAndApprove(drafts, d, req.text, now))
      /\ AllKept(drafts, SelectReplyOptionApproveAndMarkSent(drafts, d, req.text, now))
  BY <1>1, <1>2, <1>3, UpdateKeeps
  DEF SelectReplyOptionAndApprove, SelectReplyOptionApproveAndMarkSent
<1> QED BY <1>2, <1>4, <1>5, <1>6 DEF Decision

\* Reports, rejections and the end of a delay keep every row.
LEMMA MarksKeep ==
  ASSUME TypeOK, NEW d \in Drafts
  PROVE  /\ AllKept(drafts, MarkOutboundSent(drafts, d))
         /\ AllKept(drafts, MarkOutboundSendFailed(drafts, d))
         /\ AllKept(drafts, RejectOutboundDraft(drafts, d))
         /\ AllKept(drafts, [drafts EXCEPT ![d].backoff = FALSE])
         /\ AllKept(drafts, drafts)
         /\ AllKept(drafts, RejectSupersededDraftsForThread(drafts, d))
<1>1. /\ drafts \in [Drafts -> Row] /\ \A e \in Drafts : drafts[e] \in Row
      /\ NoEdit \in Edits \cup {NoEdit} /\ 0 \in Nat
  BY DEF TypeOK
<1>2. \A e \in Drafts :
        /\ Kept(drafts[e], drafts[e])
        /\ Kept(drafts[e], [drafts[e] EXCEPT !.backoff = FALSE])
        /\ drafts[e].status = "DRAFTED" => Kept(drafts[e], Rejected(drafts[e]))
        /\ Sendable(drafts[e]) => /\ Kept(drafts[e], MarkedSent(drafts[e]))
                                  /\ Kept(drafts[e], MarkedFailed(drafts[e]))
  BY <1>1, RowsKept
<1>3. AllKept(drafts, MarkOutboundSent(drafts, d))
  BY <1>1, <1>2, UpdateKeeps DEF MarkOutboundSent
<1>4. AllKept(drafts, MarkOutboundSendFailed(drafts, d))
  BY <1>1, <1>2, UpdateKeeps DEF MarkOutboundSendFailed
<1>5. AllKept(drafts, RejectOutboundDraft(drafts, d))
  BY <1>1, <1>2, UpdateKeeps DEF RejectOutboundDraft
<1>6. AllKept(drafts, [drafts EXCEPT ![d].backoff = FALSE])
  BY <1>1, <1>2 DEF AllKept
<1>7. AllKept(drafts, RejectSupersededDraftsForThread(drafts, d))
  BY <1>2 DEF AllKept, RejectSupersededDraftsForThread, Superseded
<1> QED BY <1>2, <1>3, <1>4, <1>5, <1>6, <1>7 DEF AllKept

\* Every step keeps every row, but for the one it inserts.
LEMMA TableKept ==
  ASSUME TypeOK, [Next]_vars
  PROVE  \/ AllKept(drafts, drafts')
         \/ \E d \in Drafts, action \in {"BLOCK", "AUTO_SEND", "REVIEW"} :
              InsertDraft(d, action)
<1> DEFINE Goal == \/ AllKept(drafts, drafts')
                   \/ \E d \in Drafts, action \in {"BLOCK", "AUTO_SEND", "REVIEW"} :
                        InsertDraft(d, action)
<1>0. AllKept(drafts, drafts)
  BY DEF AllKept, Kept
<1>1. ASSUME NEW d \in Drafts, SupersedeOlder(d) \/ RejectDraft(d) \/ RetryDelayElapses(d)
      PROVE  Goal
  BY <1>1, MarksKeep DEF SupersedeOlder, RejectDraft, RetryDelayElapses
<1>2. ASSUME NEW h \in Handlers, DecideDraft(h)
      PROVE  Goal
  BY <1>2, HandlerTypes, DecisionKeeps DEF DecideDraft
<1>3. ASSUME NEW d \in Drafts, NEW req \in Requests, MiniProgramTriage(d, req)
      PROVE  Goal
  BY <1>3, DecisionKeeps DEF MiniProgramTriage
<1>4. ASSUME NEW p \in Pollers, MarkSent(p) \/ MarkSentFails(p) \/ ReportFailure(p)
      PROVE  Goal
  <2>1. polls[p].item.id \in Drafts
    BY <1>4, PollTypes DEF MarkSent, MarkSentFails, ReportFailure
  <2> QED BY <1>0, <1>4, <2>1, MarksKeep DEF MarkSent, MarkSentFails, ReportFailure
<1>5. ASSUME UNCHANGED drafts
      PROVE  Goal
  BY <1>0, <1>5
<1>6. ASSUME NEW d \in Drafts, SupersedeFails(d)
      PROVE  UNCHANGED drafts
  BY <1>6 DEF SupersedeFails
<1>7. ASSUME NEW h \in Handlers,
             \/ \E d \in Drafts, req \in Requests : ReadForTriage(h, d, req)
             \/ DoerWorks(h) \/ DoerCompletes(h) \/ DoerFails(h)
      PROVE  UNCHANGED drafts
  BY <1>7 DEF ReadForTriage, DoerWorks, DoerCompletes, DoerFails
<1>8. ASSUME NEW p \in Pollers,
             \/ FetchPending(p) \/ TakeNext(p) \/ FinishPoll(p) \/ Say(p)
             \/ NoTarget(p) \/ SayFails(p) \/ ReportLost(p)
      PROVE  UNCHANGED drafts
  BY <1>8 DEF FetchPending, TakeNext, FinishPoll, Say, NoTarget, SayFails, ReportLost
<1>9. ASSUME ApiCrash \/ GatewayCrash \/ UNCHANGED vars
      PROVE  UNCHANGED drafts
  BY <1>9 DEF ApiCrash, GatewayCrash, vars
<1>10. ASSUME NEW d \in Drafts, NEW action \in {"BLOCK", "AUTO_SEND", "REVIEW"},
              InsertDraft(d, action)
       PROVE  Goal
  BY <1>10
<1> HIDE DEF Goal
<1>11. Goal
  BY <1>1, <1>2, <1>3, <1>4, <1>5, <1>6, <1>7, <1>8, <1>9, <1>10
  DEF Next, Worker, Triage, Gateway, PollStep
<1> QED BY <1>11 DEF Goal

\* What an insertion does to the table.
LEMMA Inserted ==
  ASSUME TypeOK, NEW d \in Drafts, NEW action \in {"BLOCK", "AUTO_SEND", "REVIEW"},
         InsertDraft(d, action)
  PROVE  /\ drafts'[d].createdAt = now /\ now' = now + 1
         /\ drafts[d].status = Absent
         /\ worker' = worker \cup {d} /\ UNCHANGED <<abandoned, polls, inFlight, said, faults>>
         /\ \A e \in Drafts \ {d} : drafts'[e] = drafts[e]
<1>1. drafts \in [Drafts -> Row]
  BY DEF TypeOK
<1>2. PICK t : drafts' = InsertOutboundDraft(drafts, d, StatusOf(action), t, now)
  BY DEF InsertDraft
<1>3. drafts'[d] = NewRow(StatusOf(action), t, now)
      /\ \A e \in Drafts \ {d} : drafts'[e] = drafts[e]
  BY <1>1, <1>2 DEF InsertOutboundDraft
<1>4. NewRow(StatusOf(action), t, now).createdAt = now
  BY DEF NewRow
<1> QED BY <1>3, <1>4 DEF InsertDraft, world

-----------------------------------------------------------------------------
\* Time and supersession.

\* The clock does not go back.
LEMMA ClockGrows ==
  ASSUME TypeOK, [Next]_vars
  PROVE  now' \in Nat /\ now' >= now
<1>0. now \in Nat
  BY DEF TypeOK
<1>1. CASE UNCHANGED now
  BY <1>0, <1>1
<1>2. CASE now' = now + 1
  BY <1>0, <1>2
<1>3. ASSUME NEW d \in Drafts,
             \/ \E action \in {"BLOCK", "AUTO_SEND", "REVIEW"} : InsertDraft(d, action)
             \/ SupersedeOlder(d) \/ SupersedeFails(d)
             \/ RejectDraft(d) \/ RetryDelayElapses(d)
             \/ \E req \in Requests : MiniProgramTriage(d, req)
      PROVE  UNCHANGED now \/ now' = now + 1
  BY <1>3 DEF InsertDraft, SupersedeOlder, SupersedeFails, RejectDraft, RetryDelayElapses,
              MiniProgramTriage
<1>4. ASSUME NEW h \in Handlers,
             \/ \E d \in Drafts, req \in Requests : ReadForTriage(h, d, req)
             \/ DoerWorks(h) \/ DoerCompletes(h) \/ DoerFails(h) \/ DecideDraft(h)
      PROVE  UNCHANGED now \/ now' = now + 1
  BY <1>4 DEF ReadForTriage, DoerWorks, DoerCompletes, DoerFails, DecideDraft, Tick
<1>5. ASSUME NEW p \in Pollers,
             PollStep(p) \/ SayFails(p) \/ MarkSentFails(p) \/ ReportLost(p)
      PROVE  UNCHANGED now
  BY <1>5 DEF PollStep, FetchPending, TakeNext, FinishPoll, Say, NoTarget, SayFails,
              MarkSent, MarkSentFails, ReportFailure, ReportLost
<1>6. CASE ApiCrash \/ GatewayCrash \/ UNCHANGED vars
  BY <1>1, <1>6 DEF ApiCrash, GatewayCrash, vars
<1> QED BY <1>1, <1>2, <1>3, <1>4, <1>5, <1>6 DEF Next, Worker, Triage, Gateway

\* The worker of a draft rejects the older ones, dies, or has yet to do either.
LEMMA WorkerKept ==
  ASSUME TypeOK, [Next]_vars, NEW e \in worker \cup abandoned
  PROVE  e \in worker' \cup abandoned' \/ SupersedeOlder(e)
<1>1. CASE UNCHANGED <<worker, abandoned>>
  BY <1>1
<1>2. ASSUME NEW d \in Drafts,
             \/ \E action \in {"BLOCK", "AUTO_SEND", "REVIEW"} : InsertDraft(d, action)
             \/ SupersedeOlder(d) \/ SupersedeFails(d)
      PROVE  e \in worker' \cup abandoned' \/ SupersedeOlder(e)
  BY <1>2 DEF InsertDraft, SupersedeOlder, SupersedeFails
<1>3. CASE ApiCrash
  BY <1>3 DEF ApiCrash
<1>4. ASSUME NEW d \in Drafts,
             \/ RejectDraft(d) \/ RetryDelayElapses(d)
             \/ \E req \in Requests : MiniProgramTriage(d, req)
      PROVE  UNCHANGED <<worker, abandoned>>
  BY <1>4 DEF RejectDraft, RetryDelayElapses, MiniProgramTriage
<1>5. ASSUME NEW h \in Handlers,
             \/ \E d \in Drafts, req \in Requests : ReadForTriage(h, d, req)
             \/ DoerWorks(h) \/ DoerCompletes(h) \/ DoerFails(h) \/ DecideDraft(h)
      PROVE  UNCHANGED <<worker, abandoned>>
  BY <1>5 DEF ReadForTriage, DoerWorks, DoerCompletes, DoerFails, DecideDraft
<1>6. ASSUME NEW p \in Pollers,
             PollStep(p) \/ SayFails(p) \/ MarkSentFails(p) \/ ReportLost(p)
      PROVE  UNCHANGED <<worker, abandoned>>
  BY <1>6 DEF PollStep, FetchPending, TakeNext, FinishPoll, Say, NoTarget, SayFails,
              MarkSent, MarkSentFails, ReportFailure, ReportLost
<1>7. CASE GatewayCrash \/ UNCHANGED vars
  BY <1>1, <1>7 DEF GatewayCrash, vars
<1> QED BY <1>1, <1>2, <1>3, <1>4, <1>5, <1>6, <1>7 DEF Next, Worker, Triage, Gateway

\* Stamps stay behind the clock.
LEMMA StampedStep ==
  ASSUME TypeOK, StampedBefore, [Next]_vars
  PROVE  StampedBefore'
<1>0. now \in Nat /\ now' \in Nat /\ now' >= now /\ \A d \in Drafts : drafts[d].createdAt \in Nat
  BY ClockGrows DEF TypeOK, Row
<1>1. CASE AllKept(drafts, drafts')
  BY <1>0, <1>1 DEF AllKept, Kept, StampedBefore
<1>2. ASSUME NEW d \in Drafts, NEW action \in {"BLOCK", "AUTO_SEND", "REVIEW"},
             InsertDraft(d, action)
      PROVE  StampedBefore'
  BY <1>0, <1>2, Inserted DEF StampedBefore
<1> QED BY <1>1, <1>2, TableKept

\* Every step leaves at most the newest draft of a thread to review, but for
\* workers that have yet to reject the older ones or died before.
LEMMA OneReviewStep ==
  ASSUME TypeOK, StampedBefore, OneReviewPerThread, [Next]_vars
  PROVE  OneReviewPerThread'
<1> SUFFICES ASSUME NEW d \in Drafts, NEW e \in Drafts,
                    drafts'[d].status = "DRAFTED", drafts'[e].status # Absent,
                    ThreadOf[d] = ThreadOf[e],
                    drafts'[d].createdAt < drafts'[e].createdAt
             PROVE  e \in worker' \cup abandoned'
  BY DEF OneReviewPerThread
<1>0. now \in Nat /\ \A x \in Drafts : drafts[x].createdAt \in Nat
  BY DEF TypeOK, Row
<1>1. CASE AllKept(drafts, drafts')
  <2>1. /\ drafts[d].status = "DRAFTED" /\ drafts[e].status # Absent
        /\ drafts[d].createdAt < drafts[e].createdAt
    BY <1>1 DEF AllKept, Kept
  <2>2. e \in worker \cup abandoned
    BY <2>1 DEF OneReviewPerThread
  <2>3. CASE SupersedeOlder(e)
    <3>1. d \in Superseded(drafts, e)
      BY <1>0, <2>1 DEF Superseded
    <3>2. drafts'[d] = Rejected(drafts[d])
      BY <2>3, <3>1 DEF SupersedeOlder, RejectSupersededDraftsForThread
    <3>3. Rejected(drafts[d]).status = "REJECTED"
      BY DEF Rejected, TypeOK, Row
    <3> QED BY <3>2, <3>3
  <2> QED BY <2>2, <2>3, WorkerKept
<1>2. ASSUME NEW x \in Drafts, NEW action \in {"BLOCK", "AUTO_SEND", "REVIEW"},
             InsertDraft(x, action)
      PROVE  e \in worker' \cup abandoned'
  <2>1. CASE e = x
    BY <1>2, <2>1, Inserted
  <2>2. CASE d = x /\ e # x
    <3>1. drafts'[d].createdAt = now /\ drafts'[e] = drafts[e]
      BY <1>2, <2>2, Inserted
    <3>2. drafts[e].createdAt < now
      BY DEF StampedBefore
    <3> QED BY <1>0, <3>1, <3>2
  <2>3. CASE d # x /\ e # x
    <3>1. drafts'[d] = drafts[d] /\ drafts'[e] = drafts[e] /\ worker' = worker \cup {x}
          /\ abandoned' = abandoned
      BY <1>2, <2>3, Inserted
    <3> QED BY <3>1 DEF OneReviewPerThread
  <2> QED BY <2>1, <2>2, <2>3
<1> QED BY <1>1, <1>2, TableKept

-----------------------------------------------------------------------------
\* What a poll has in hand.

\* A poll that is done with a draft has the rest of its list and nothing else.
LEMMA ReleaseMoves ==
  ASSUME TypeOK, NEW p \in Pollers, polls[p].pc \in Busy, Release(p)
  PROVE  /\ \A q \in Pollers \ {p} : polls'[q] = polls[q]
         /\ polls'[p].pc = "next" /\ polls'[p].todo = polls[p].todo
         /\ inFlight' = inFlight \ {polls[p].item.id}
BY DEF Release, TypeOK

\* After an exception it is done or has yet to report it.
LEMMA CaughtMoves ==
  ASSUME TypeOK, NEW p \in Pollers, polls[p].pc \in Busy, Caught(p)
  PROVE  \/ Release(p)
         \/ /\ \A q \in Pollers \ {p} : polls'[q] = polls[q]
            /\ polls'[p].pc = "reporting" /\ polls'[p].todo = polls[p].todo
            /\ polls'[p].item = polls[p].item
            /\ inFlight' = inFlight
<1>1. CASE ReportsFailures
  <2>1. polls' = [polls EXCEPT ![p] = [polls[p] EXCEPT !.pc = "reporting"]]
        /\ inFlight' = inFlight
    BY <1>1 DEF Caught
  <2>2. polls[p] \in [pc : Busy, todo : SUBSET Item, item : Item]
    BY DEF TypeOK, PollStates, Busy
  <2>3. /\ [polls[p] EXCEPT !.pc = "reporting"].pc = "reporting"
        /\ [polls[p] EXCEPT !.pc = "reporting"].todo = polls[p].todo
        /\ [polls[p] EXCEPT !.pc = "reporting"].item = polls[p].item
    BY <2>2
  <2> QED BY <2>1, <2>3 DEF TypeOK
<1>2. CASE ~ReportsFailures
  BY <1>2 DEF Caught
<1> QED BY <1>1, <1>2

\* A message that was said has yet to be marked.
LEMMA SayMoves ==
  ASSUME TypeOK, NEW p \in Pollers, Say(p)
  PROVE  /\ \A q \in Pollers \ {p} : polls'[q] = polls[q]
         /\ polls'[p].pc = "marking" /\ polls'[p].todo = polls[p].todo
         /\ polls'[p].item = polls[p].item
         /\ inFlight' = inFlight
<1>1. polls' = [polls EXCEPT ![p] = [polls[p] EXCEPT !.pc = "marking"]]
      /\ inFlight' = inFlight
  BY DEF Say
<1>2. polls[p] \in [pc : Busy, todo : SUBSET Item, item : Item]
  BY DEF TypeOK, PollStates, Busy, Say
<1>3. /\ [polls[p] EXCEPT !.pc = "marking"].pc = "marking"
      /\ [polls[p] EXCEPT !.pc = "marking"].todo = polls[p].todo
      /\ [polls[p] EXCEPT !.pc = "marking"].item = polls[p].item
  BY <1>2
<1> QED BY <1>1, <1>3 DEF TypeOK

\* The next draft of a list is skipped or taken in hand.
LEMMA TakeNextMoves ==
  ASSUME TypeOK, NEW p \in Pollers, TakeNext(p)
  PROVE  \E i \in polls[p].todo :
           /\ polls[p].pc = "next"
           /\ \A q \in Pollers \ {p} : polls'[q] = polls[q]
           /\ polls'[p].todo = polls[p].todo \ {i}
           /\ \/ polls'[p].pc = "next" /\ inFlight' = inFlight
              \/ /\ polls'[p].pc = "sending" /\ polls'[p].item = i
                 /\ GuardsInFlight => i.id \notin inFlight /\ inFlight' = inFlight \cup {i.id}
<1>1. PICK i \in First(polls[p].todo) :
        LET skip == GuardsInFlight /\ i.id \in inFlight
        IN  /\ polls' = [polls EXCEPT
                 ![p] = [pc   |-> IF skip THEN "next" ELSE "sending",
                         todo |-> polls[p].todo \ {i},
                         item |-> IF skip THEN Nobody ELSE i]]
            /\ inFlight' = IF GuardsInFlight THEN inFlight \cup {i.id} ELSE inFlight
  BY DEF TakeNext
<1>2. i \in polls[p].todo /\ polls[p].pc = "next" /\ polls \in [Pollers -> PollStates]
  BY DEF First, TakeNext, TypeOK
<1>3. CASE GuardsInFlight /\ i.id \in inFlight
  <2>1. polls' = [polls EXCEPT ![p] = [pc |-> "next", todo |-> polls[p].todo \ {i},
                                       item |-> Nobody]]
        /\ inFlight' = inFlight
    BY <1>1, <1>3
  <2> QED BY <1>2, <2>1
<1>4. CASE ~(GuardsInFlight /\ i.id \in inFlight)
  <2>1. /\ polls' = [polls EXCEPT ![p] = [pc |-> "sending", todo |-> polls[p].todo \ {i},
                                          item |-> i]]
        /\ GuardsInFlight => i.id \notin inFlight /\ inFlight' = inFlight \cup {i.id}
    BY <1>1, <1>4
  <2>2. /\ polls'[p] = [pc |-> "sending", todo |-> polls[p].todo \ {i}, item |-> i]
        /\ \A q \in Pollers \ {p} : polls'[q] = polls[q]
    BY <1>2, <2>1
  <2>3. polls'[p].pc = "sending" /\ polls'[p].todo = polls[p].todo \ {i} /\ polls'[p].item = i
    BY <2>2
  <2> QED BY <1>2, <2>1, <2>2, <2>3
<1> QED BY <1>3, <1>4

\* A fetch lists drafts that can be sent, each of them once.
LEMMA FetchMoves ==
  ASSUME TypeOK, NEW p \in Pollers, FetchPending(p)
  PROVE  /\ polls[p].pc = "idle"
         /\ \A q \in Pollers \ {p} : polls'[q] = polls[q]
         /\ polls'[p].pc = "next" /\ inFlight' = inFlight
         /\ \A i, j \in polls'[p].todo : i.id = j.id => i = j
         /\ \A i \in polls'[p].todo : Sendable(drafts[i.id])
<1> DEFINE todo == {[id |-> d, text |-> Wording(drafts[d])] : d \in ListPendingSend(drafts)}
<1>1. \A i, j \in todo : i.id = j.id => i = j
  OBVIOUS
<1>2. \A d \in ListPendingSend(drafts) : Sendable(drafts[d])
  BY DEF ListPendingSend, Pending
<1>3. \A i \in todo : Sendable(drafts[i.id])
  BY <1>2
<1>4. polls' = [polls EXCEPT ![p] = [pc |-> "next", todo |-> todo, item |-> Nobody]]
      /\ polls[p].pc = "idle" /\ inFlight' = inFlight
  BY DEF FetchPending
<1> HIDE DEF todo
<1> QED BY <1>1, <1>3, <1>4 DEF TypeOK

\* A poll that has come to the end of its list rests.
LEMMA FinishMoves ==
  ASSUME TypeOK, NEW p \in Pollers, FinishPoll(p)
  PROVE  /\ polls[p].pc = "next"
         /\ \A q \in Pollers \ {p} : polls'[q] = polls[q]
         /\ polls'[p].pc = "idle" /\ polls'[p].todo = {} /\ inFlight' = inFlight
BY DEF FinishPoll, IdlePoll, TypeOK

\* What a step does to the polls: p lets go of a draft, reports, says, takes,
\* fetches or finishes, all of them stop, or nothing changes.
LEMMA PollsMove ==
  ASSUME TypeOK, [Next]_vars
  PROVE  \/ UNCHANGED <<polls, inFlight>>
         \/ GatewayCrash
         \/ \E p \in Pollers : \/ /\ polls[p].pc \in Busy /\ (Release(p) \/ Caught(p))
                                  /\ polls[p].pc = "marking" => MarkSent(p) \/ Fault
                               \/ Say(p) \/ TakeNext(p) \/ FetchPending(p) \/ FinishPoll(p)
<1>1. ASSUME NEW d \in Drafts,
             \/ \E action \in {"BLOCK", "AUTO_SEND", "REVIEW"} : InsertDraft(d, action)
             \/ SupersedeOlder(d) \/ SupersedeFails(d)
             \/ RejectDraft(d) \/ RetryDelayElapses(d)
             \/ \E req \in Requests : MiniProgramTriage(d, req)
      PROVE  UNCHANGED <<polls, inFlight>>
  BY <1>1 DEF InsertDraft, SupersedeOlder, SupersedeFails, RejectDraft, RetryDelayElapses,
              MiniProgramTriage
<1>2. ASSUME NEW h \in Handlers,
             \/ \E d \in Drafts, req \in Requests : ReadForTriage(h, d, req)
             \/ DoerWorks(h) \/ DoerCompletes(h) \/ DoerFails(h) \/ DecideDraft(h)
      PROVE  UNCHANGED <<polls, inFlight>>
  BY <1>2 DEF ReadForTriage, DoerWorks, DoerCompletes, DoerFails, DecideDraft
<1>3. ASSUME NEW p \in Pollers,
             \/ NoTarget(p) \/ SayFails(p) \/ MarkSent(p) \/ MarkSentFails(p)
             \/ ReportFailure(p) \/ ReportLost(p)
      PROVE  /\ polls[p].pc \in Busy /\ (Release(p) \/ Caught(p))
             /\ polls[p].pc = "marking" => MarkSent(p) \/ Fault
  BY <1>3 DEF NoTarget, SayFails, MarkSent, MarkSentFails, ReportFailure, ReportLost, Busy
<1>4. CASE ApiCrash \/ UNCHANGED vars
  BY <1>4 DEF ApiCrash, vars
<1> QED BY <1>1, <1>2, <1>3, <1>4 DEF Next, Worker, Triage, Gateway, PollStep

\* Polls keep off each other's drafts: a draft in flight is not taken, and the
\* one in hand leaves the set only with its own poll.
LEMMA InFlightStep ==
  ASSUME TypeOK, InFlightIsBusy, OneActuationAtATime, [Next]_vars
  PROVE  InFlightIsBusy' /\ OneActuationAtATime'
<1> SUFFICES ASSUME GuardsInFlight
             PROVE  \A p \in Pollers : polls'[p].pc \in Busy =>
                      /\ polls'[p].item.id \in inFlight'
                      /\ \A q \in Pollers \ {p} :
                           polls'[q].pc \in Busy => polls'[q].item.id # polls'[p].item.id
  BY DEF InFlightIsBusy, OneActuationAtATime
<1> DEFINE Apart(p, q) == p # q /\ polls'[p].pc \in Busy /\ polls'[q].pc \in Busy
                            => polls'[q].item.id # polls'[p].item.id
           Covered(p) == polls'[p].pc \in Busy => polls'[p].item.id \in inFlight'
<1> SUFFICES \A p, q \in Pollers : Covered(p) /\ Apart(p, q)
  OBVIOUS
<1>0. \A p \in Pollers : polls[p].pc \in Busy =>
        /\ polls[p].item.id \in inFlight
        /\ \A q \in Pollers \ {p} : polls[q].pc \in Busy => polls[q].item.id # polls[p].item.id
  BY DEF InFlightIsBusy, OneActuationAtATime
<1>1. CASE UNCHANGED <<polls, inFlight>>
  BY <1>0, <1>1
<1>2. CASE GatewayCrash
  <2>1. \A p \in Pollers : polls'[p].pc = "idle"
    BY <1>2 DEF GatewayCrash, IdlePoll
  <2> QED BY <2>1 DEF Busy
<1>3. ASSUME NEW p \in Pollers, polls[p].pc \in Busy, Release(p)
      PROVE  \A q, r \in Pollers : Covered(q) /\ Apart(q, r)
  <2>1. /\ \A q \in Pollers \ {p} : polls'[q] = polls[q]
        /\ polls'[p].pc \notin Busy
        /\ inFlight' = inFlight \ {polls[p].item.id}
    BY <1>3, ReleaseMoves DEF Busy
  <2> QED BY <1>0, <1>3, <2>1
<1>4. ASSUME NEW p \in Pollers, polls[p].pc \in Busy, polls'[p].item = polls[p].item,
             \A q \in Pollers \ {p} : polls'[q] = polls[q], inFlight' = inFlight
      PROVE  \A q, r \in Pollers : Covered(q) /\ Apart(q, r)
  BY <1>0, <1>4
<1>5. ASSUME NEW p \in Pollers, polls[p].pc \in Busy, Caught(p)
      PROVE  \A q, r \in Pollers : Covered(q) /\ Apart(q, r)
  BY <1>3, <1>4, <1>5, CaughtMoves
<1>6. ASSUME NEW p \in Pollers, Say(p)
      PROVE  \A q, r \in Pollers : Covered(q) /\ Apart(q, r)
  <2>1. polls[p].pc \in Busy
    BY <1>6 DEF Say, Busy
  <2> QED BY <1>4, <1>6, <2>1, SayMoves
<1>7. ASSUME NEW p \in Pollers, TakeNext(p)
      PROVE  \A q, r \in Pollers : Covered(q) /\ Apart(q, r)
  <2>1. PICK i \in polls[p].todo :
          /\ \A q \in Pollers \ {p} : polls'[q] = polls[q]
          /\ \/ polls'[p].pc \notin Busy /\ inFlight' = inFlight
             \/ /\ polls'[p].item = i
                /\ i.id \notin inFlight /\ inFlight' = inFlight \cup {i.id}
    BY <1>7, TakeNextMoves DEF Busy
  <2> QED BY <1>0, <2>1
<1>8. ASSUME NEW p \in Pollers, FetchPending(p) \/ FinishPoll(p)
      PROVE  \A q, r \in Pollers : Covered(q) /\ Apart(q, r)
  <2>1. /\ \A q \in Pollers \ {p} : polls'[q] = polls[q]
        /\ polls'[p].pc \notin Busy /\ inFlight' = inFlight
    BY <1>8, FetchMoves, FinishMoves DEF Busy
  <2> QED BY <1>0, <2>1
<1> HIDE DEF Apart, Covered
<1> QED BY <1>1, <1>2, <1>3, <1>5, <1>6, <1>7, <1>8, PollsMove

\* A list names a draft once, and no more once it is in hand.
LEMMA ListedStep ==
  ASSUME TypeOK, ListedOnce, [Next]_vars
  PROVE  ListedOnce'
<1> DEFINE Once(poll) == \A i \in poll.todo :
                           /\ \A j \in poll.todo : i.id = j.id => i = j
                           /\ poll.pc \in Busy => i.id # poll.item.id
<1>0. \A p \in Pollers : Once(polls[p])
  BY DEF ListedOnce
<1> SUFFICES \A p \in Pollers : Once(polls'[p])
  BY DEF ListedOnce
<1>1. CASE UNCHANGED <<polls, inFlight>>
  BY <1>0, <1>1
<1>2. CASE GatewayCrash
  <2>1. \A p \in Pollers : polls'[p].todo = {}
    BY <1>2 DEF GatewayCrash, IdlePoll
  <2> QED BY <2>1
<1>3. ASSUME NEW p \in Pollers, polls[p].pc \in Busy, Release(p)
      PROVE  \A q \in Pollers : Once(polls'[q])
  <2>1. /\ \A q \in Pollers \ {p} : polls'[q] = polls[q]
        /\ polls'[p].pc \notin Busy /\ polls'[p].todo = polls[p].todo
    BY <1>3, ReleaseMoves DEF Busy
  <2> QED BY <1>0, <2>1
<1>4. ASSUME NEW p \in Pollers, polls[p].pc \in Busy, polls'[p].item = polls[p].item,
             polls'[p].todo = polls[p].todo,
             \A q \in Pollers \ {p} : polls'[q] = polls[q]
      PROVE  \A q \in Pollers : Once(polls'[q])
  BY <1>0, <1>4
<1>5. ASSUME NEW p \in Pollers, polls[p].pc \in Busy, Caught(p)
      PROVE  \A q \in Pollers : Once(polls'[q])
  BY <1>3, <1>4, <1>5, CaughtMoves
<1>6. ASSUME NEW p \in Pollers, Say(p)
      PROVE  \A q \in Pollers : Once(polls'[q])
  <2>1. polls[p].pc \in Busy
    BY <1>6 DEF Say, Busy
  <2> QED BY <1>4, <1>6, <2>1, SayMoves
<1>7. ASSUME NEW p \in Pollers, TakeNext(p)
      PROVE  \A q \in Pollers : Once(polls'[q])
  <2>1. PICK i \in polls[p].todo :
          /\ \A q \in Pollers \ {p} : polls'[q] = polls[q]
          /\ polls'[p].todo = polls[p].todo \ {i}
          /\ polls'[p].pc \notin Busy \/ polls'[p].item = i
    BY <1>7, TakeNextMoves DEF Busy
  <2> QED BY <1>0, <2>1
<1>8. ASSUME NEW p \in Pollers, FetchPending(p) \/ FinishPoll(p)
      PROVE  \A q \in Pollers : Once(polls'[q])
  <2>1. /\ \A q \in Pollers \ {p} : polls'[q] = polls[q]
        /\ polls'[p].pc \notin Busy
        /\ \A i, j \in polls'[p].todo : i.id = j.id => i = j
    BY <1>8, FetchMoves, FinishMoves DEF Busy
  <2> QED BY <1>0, <2>1
<1> HIDE DEF Once
<1> QED BY <1>1, <1>2, <1>3, <1>5, <1>6, <1>7, <1>8, PollsMove
-----------------------------------------------------------------------------
\* How often a draft is said.

\* Counting sets of polls.
LEMMA PollsCounted ==
  ASSUME NEW S \in SUBSET Pollers
  PROVE  /\ IsFiniteSet(S) /\ Cardinality(S) \in Nat /\ Cardinality(Pollers) \in Nat
         /\ Cardinality(S) <= Cardinality(Pollers)
         /\ \A T \in SUBSET S : Cardinality(T) \in Nat /\ Cardinality(T) <= Cardinality(S)
         /\ \A p \in S : \A T \in SUBSET (S \ {p}) :
              Cardinality(T) \in Nat /\ Cardinality(T) + 1 <= Cardinality(S)
<1>1. IsFiniteSet(S) /\ Cardinality(S) <= Cardinality(Pollers)
  BY PollersFinite, FS_Subset
<1>2. Cardinality(S) \in Nat /\ Cardinality(Pollers) \in Nat
  BY <1>1, PollersFinite, FS_CardinalityType
<1>3. ASSUME NEW T \in SUBSET S
      PROVE  Cardinality(T) \in Nat /\ Cardinality(T) <= Cardinality(S)
  BY <1>1, FS_Subset, FS_CardinalityType
<1>4. ASSUME NEW p \in S, NEW T \in SUBSET (S \ {p})
      PROVE  Cardinality(T) \in Nat /\ Cardinality(T) + 1 <= Cardinality(S)
  <2>1. IsFiniteSet(S \ {p}) /\ Cardinality(S \ {p}) = Cardinality(S) - 1
    BY <1>1, FS_RemoveElement
  <2>2. Cardinality(T) \in Nat /\ Cardinality(T) <= Cardinality(S \ {p})
    BY <2>1, FS_Subset, FS_CardinalityType
  <2> QED BY <1>2, <2>1, <2>2
<1> QED BY <1>1, <1>2, <1>3, <1>4

\* A step is a fault or leaves their number as it is.
LEMMA FaultStep ==
  ASSUME [Next]_vars
  PROVE  UNCHANGED faults \/ Fault
<1>1. ASSUME NEW d \in Drafts,
             \/ \E action \in {"BLOCK", "AUTO_SEND", "REVIEW"} : InsertDraft(d, action)
             \/ SupersedeOlder(d) \/ SupersedeFails(d)
             \/ RejectDraft(d) \/ RetryDelayElapses(d)
             \/ \E req \in Requests : MiniProgramTriage(d, req)
      PROVE  UNCHANGED faults \/ Fault
  BY <1>1 DEF InsertDraft, SupersedeOlder, SupersedeFails, RejectDraft, RetryDelayElapses,
              MiniProgramTriage
<1>2. ASSUME NEW h \in Handlers,
             \/ \E d \in Drafts, req \in Requests : ReadForTriage(h, d, req)
             \/ DoerWorks(h) \/ DoerCompletes(h) \/ DoerFails(h) \/ DecideDraft(h)
      PROVE  UNCHANGED faults
  BY <1>2 DEF ReadForTriage, DoerWorks, DoerCompletes, DoerFails, DecideDraft
<1>3. ASSUME NEW p \in Pollers,
             PollStep(p) \/ SayFails(p) \/ MarkSentFails(p) \/ ReportLost(p)
      PROVE  UNCHANGED faults \/ Fault
  BY <1>3 DEF PollStep, FetchPending, TakeNext, FinishPoll, Say, NoTarget, SayFails,
              MarkSent, MarkSentFails, ReportFailure, ReportLost
<1>4. CASE ApiCrash \/ GatewayCrash \/ UNCHANGED vars
  BY <1>4 DEF ApiCrash, GatewayCrash, vars
<1> QED BY <1>1, <1>2, <1>3, <1>4 DEF Next, Worker, Triage, Gateway

\* A draft is said once more only by a poll that has it in hand to send.
LEMMA SaidOnceMore ==
  ASSUME TypeOK, [Next]_vars, NEW d \in Drafts
  PROVE  \/ said'[d] = said[d]
         \/ /\ said'[d] = said[d] + 1
            /\ \E p \in Pollers : InHand(p, d, "sending") /\ (Say(p) \/ Fault)
<1> DEFINE Goal == \/ said'[d] = said[d]
                   \/ /\ said'[d] = said[d] + 1
                      /\ \E p \in Pollers : InHand(p, d, "sending") /\ (Say(p) \/ Fault)
<1>0. said \in [Drafts -> Nat]
  BY DEF TypeOK
<1>1. CASE UNCHANGED said
  BY <1>1
<1>2. ASSUME NEW p \in Pollers, Say(p) \/ SayFails(p)
      PROVE  Goal
  <2>1. /\ polls[p].pc = "sending" /\ (Say(p) \/ Fault)
        /\ UNCHANGED said \/ said' = [said EXCEPT ![polls[p].item.id] = @ + 1]
    BY <1>2 DEF Say, SayFails, Arrives
  <2> QED BY <1>0, <2>1 DEF InHand
<1>3. ASSUME NEW e \in Drafts,
             \/ \E action \in {"BLOCK", "AUTO_SEND", "REVIEW"} : InsertDraft(e, action)
             \/ SupersedeOlder(e) \/ SupersedeFails(e)
             \/ RejectDraft(e) \/ RetryDelayElapses(e)
             \/ \E req \in Requests : MiniProgramTriage(e, req)
      PROVE  UNCHANGED said
  BY <1>3 DEF InsertDraft, SupersedeOlder, SupersedeFails, RejectDraft, RetryDelayElapses,
              MiniProgramTriage, world
<1>4. ASSUME NEW h \in Handlers,
             \/ \E e \in Drafts, req \in Requests : ReadForTriage(h, e, req)
             \/ DoerWorks(h) \/ DoerCompletes(h) \/ DoerFails(h) \/ DecideDraft(h)
      PROVE  UNCHANGED said
  BY <1>4 DEF ReadForTriage, DoerWorks, DoerCompletes, DoerFails, DecideDraft, world
<1>5. ASSUME NEW p \in Pollers,
             \/ FetchPending(p) \/ TakeNext(p) \/ FinishPoll(p) \/ NoTarget(p)
             \/ MarkSent(p) \/ MarkSentFails(p) \/ ReportFailure(p) \/ ReportLost(p)
      PROVE  UNCHANGED said
  BY <1>5 DEF FetchPending, TakeNext, FinishPoll, NoTarget, MarkSent, MarkSentFails,
              ReportFailure, ReportLost, world
<1>6. CASE ApiCrash \/ GatewayCrash \/ UNCHANGED vars
  BY <1>1, <1>6 DEF ApiCrash, GatewayCrash, vars, world
<1>7. ASSUME UNCHANGED said
      PROVE  Goal
  BY <1>7
<1>8. ASSUME ApiCrash \/ GatewayCrash \/ UNCHANGED vars
      PROVE  UNCHANGED said
  BY <1>8 DEF ApiCrash, GatewayCrash, vars, world
<1> HIDE DEF Goal
<1>9. Goal
  BY <1>2, <1>3, <1>4, <1>5, <1>7, <1>8 DEF Next, Worker, Triage, Gateway, PollStep
<1> QED BY <1>9 DEF Goal

\* The report of a sent draft, answered, ends its deliveries.
LEMMA MarkedIsNotSendable ==
  ASSUME TypeOK, NEW p \in Pollers, MarkSent(p)
  PROVE  ~Sendable(drafts'[polls[p].item.id])
<1> DEFINE d == polls[p].item.id
<1>1. d \in Drafts /\ drafts \in [Drafts -> Row] /\ drafts[d] \in Row
  BY PollTypes DEF MarkSent, TypeOK
<1>2. drafts' = MarkOutboundSent(drafts, d)
  BY DEF MarkSent
<1>3. MarkedSent(drafts[d]).status = "SENT"
  BY <1>1 DEF MarkedSent, Row
<1>4. CASE Sendable(drafts[d])
  <2>1. drafts'[d] = MarkedSent(drafts[d])
    BY <1>1, <1>2, <1>4 DEF MarkOutboundSent, Update
  <2> QED BY <1>3, <2>1 DEF Sendable
<1>5. CASE ~Sendable(drafts[d])
  BY <1>2, <1>5 DEF MarkOutboundSent, Update
<1> QED BY <1>4, <1>5

\* A step without a fault that does not say d gives no poll a new chance to say
\* it, if it does not clear d.
LEMMA ChancesShrink ==
  ASSUME TypeOK, [Next]_vars, NEW d \in Drafts, faults' = faults,
         \A p \in Pollers : Say(p) => polls[p].item.id # d,
         Sendable(drafts'[d]) => Sendable(drafts[d])
  PROVE  MayStillSay(d)' \subseteq MayStillSay(d)
<1> DEFINE Chance(poll, row) == \/ \E i \in poll.todo : i.id = d
                                \/ poll.pc = "sending" /\ poll.item.id = d
                                \/ Sendable(row) /\ ~(poll.pc = "marking" /\ poll.item.id = d)
<1>a. MayStillSay(d) = {p \in Pollers : Chance(polls[p], drafts[d])}
  BY DEF MayStillSay, InHand
<1>b. MayStillSay(d)' = {p \in Pollers : Chance(polls'[p], drafts'[d])}
  BY DEF MayStillSay, InHand
<1> SUFFICES \A p \in Pollers : Chance(polls'[p], drafts'[d]) => Chance(polls[p], drafts[d])
  BY <1>a, <1>b
<1>0. ~Fault
  BY DEF Fault, TypeOK
<1>1. \A p \in Pollers :
        polls'[p] = polls[p] => (Chance(polls'[p], drafts'[d]) => Chance(polls[p], drafts[d]))
  OBVIOUS
<1>2. ASSUME NEW p \in Pollers, polls[p].pc \in Busy, Release(p) \/ Caught(p),
             polls[p].pc = "marking" => MarkSent(p) \/ Fault
      PROVE  Chance(polls'[p], drafts'[d]) => Chance(polls[p], drafts[d])
  <2>1. polls'[p].pc \in {"next", "reporting"} /\ polls'[p].todo = polls[p].todo
    BY <1>2, ReleaseMoves, CaughtMoves
  <2>2. polls[p].pc = "marking" /\ polls[p].item.id = d => ~Sendable(drafts'[d])
    BY <1>0, <1>2, MarkedIsNotSendable
  <2> QED BY <2>1, <2>2
<1>3. ASSUME NEW p \in Pollers, Say(p)
      PROVE  Chance(polls'[p], drafts'[d]) => Chance(polls[p], drafts[d])
  BY <1>3, SayMoves DEF Say
<1>4. ASSUME NEW p \in Pollers, TakeNext(p)
      PROVE  Chance(polls'[p], drafts'[d]) => Chance(polls[p], drafts[d])
  BY <1>4, TakeNextMoves
<1>5. ASSUME NEW p \in Pollers, FetchPending(p)
      PROVE  Chance(polls'[p], drafts'[d]) => Chance(polls[p], drafts[d])
  BY <1>5, FetchMoves
<1>6. ASSUME NEW p \in Pollers, FinishPoll(p)
      PROVE  Chance(polls'[p], drafts'[d]) => Chance(polls[p], drafts[d])
  BY <1>6, FinishMoves
<1>7. ASSUME NEW p \in Pollers,
             \/ polls[p].pc \in Busy /\ (Release(p) \/ Caught(p))
             \/ Say(p) \/ TakeNext(p) \/ FetchPending(p) \/ FinishPoll(p)
      PROVE  \A q \in Pollers \ {p} : polls'[q] = polls[q]
  BY <1>7, ReleaseMoves, CaughtMoves, SayMoves, TakeNextMoves, FetchMoves, FinishMoves
<1>8. ~GatewayCrash
  BY <1>0 DEF GatewayCrash
<1> HIDE DEF Chance
<1> QED BY <1>1, <1>2, <1>3, <1>4, <1>5, <1>6, <1>7, <1>8, PollsMove

\* Every step keeps the chances within the bound.
LEMMA ChancesStep ==
  ASSUME TypeOK, PolicyContainment, ListedOnce, ChancesAreBounded, [Next]_vars, TypeOK'
  PROVE  ChancesAreBounded'
<1> SUFFICES ASSUME NEW d \in Drafts
             PROVE  said'[d] + Cardinality(MayStillSay(d)')
                      <= Cardinality(Pollers) * (faults' + 1)
  BY DEF ChancesAreBounded
<1> DEFINE may == MayStillSay(d)
           next == MayStillSay(d)'
           n == Cardinality(Pollers)
           chances == Cardinality(may)
           left == Cardinality(next)
           bound == n * (faults + 1)
<1>0. /\ may \in SUBSET Pollers /\ next \in SUBSET Pollers
      /\ said[d] \in Nat /\ faults \in Nat
  BY FaultsBounded DEF MayStillSay, TypeOK
<1>1. /\ chances \in Nat /\ left \in Nat /\ n \in Nat
      /\ left <= n
      /\ next \subseteq may => left <= chances
      /\ \A p \in may : chances >= 1 /\ (next \subseteq may \ {p} => left + 1 <= chances)
  <2>1. ASSUME NEW p \in may PROVE Cardinality(may) >= 1
    <3>1. {} \in SUBSET (may \ {p})
      OBVIOUS
    <3>2. Cardinality({}) \in Nat /\ Cardinality({}) + 1 <= Cardinality(may)
          /\ Cardinality(may) \in Nat
      BY <1>0, <3>1, PollsCounted
    <3> QED BY <3>2
  <2> QED BY <1>0, <2>1, PollsCounted
<1>2. said[d] + chances <= bound
  BY DEF ChancesAreBounded
<1>9. bound \in Nat /\ n <= bound /\ n * (faults + 2) = bound + n
  <2>1. \A a, b \in Nat : a * (b + 1) \in Nat /\ a <= a * (b + 1) /\ a * (b + 2) = a * (b + 1) + a
    OBVIOUS
  <2> QED BY <1>0, <1>1, <2>1
<1>10. SUFFICES /\ Fault => said'[d] + left <= bound + n
                /\ UNCHANGED faults => said'[d] + left <= bound
  <2> DEFINE after == n * (faults' + 1)
  <2>1. Fault => after = bound + n
    <3>1. faults + 1 + 1 = faults + 2
      BY <1>0
    <3> QED BY <1>9, <3>1 DEF Fault
  <2>2. UNCHANGED faults => after = bound
    OBVIOUS
  <2>3. said'[d] + left <= after
    <3> HIDE DEF after, bound, n, left
    <3> QED BY <2>1, <2>2, FaultStep
  <2> QED BY <2>3
<1> HIDE DEF bound, n, chances, left
<1>3. ASSUME NEW p \in Pollers, InHand(p, d, "sending")
      PROVE  p \in may
  BY <1>3 DEF MayStillSay
<1>4. CASE Fault
  <2>1. ~UNCHANGED faults
    BY <1>0, <1>4 DEF Fault
  <2>2. said'[d] <= said[d] + chances
    BY <1>0, <1>1, <1>3, SaidOnceMore
  <2>3. said'[d] \in Nat
    BY DEF TypeOK
  <2> QED BY <1>0, <1>1, <1>2, <1>9, <2>1, <2>2, <2>3
<1>5. CASE UNCHANGED faults /\ \E p \in Pollers : Say(p) /\ polls[p].item.id = d
  <2>1. PICK p \in Pollers : Say(p) /\ polls[p].item.id = d
    BY <1>5
  <2>2. /\ \A q \in Pollers \ {p} : polls'[q] = polls[q]
        /\ polls'[p].pc = "marking" /\ polls'[p].todo = polls[p].todo
        /\ polls'[p].item = polls[p].item
    BY <2>1, SayMoves
  <2>3. drafts' = drafts /\ polls[p].pc = "sending"
    BY <2>1 DEF Say
  <2>4. \A i \in polls[p].todo : i.id # d
    BY <2>1, <2>3 DEF ListedOnce, Busy
  <2>5. next \subseteq may \ {p}
    BY <2>1, <2>2, <2>3, <2>4 DEF MayStillSay, InHand
  <2>6. p \in may
    BY <1>3, <2>1, <2>3 DEF InHand
  <2>7. said'[d] <= said[d] + 1 /\ said'[d] \in Nat
    BY <1>0, SaidOnceMore DEF TypeOK
  <2>8. ~Fault
    BY <1>0, <1>5 DEF Fault
  <2> QED BY <1>0, <1>1, <1>2, <1>9, <2>5, <2>6, <2>7, <2>8
<1>6. CASE UNCHANGED faults /\ ~\E p \in Pollers : Say(p) /\ polls[p].item.id = d
  <2>1. ~Fault
    BY <1>0, <1>6 DEF Fault
  <2>2. said'[d] = said[d]
    BY <1>6, <2>1, SaidOnceMore DEF InHand
  <2>3. CASE Sendable(drafts'[d]) => Sendable(drafts[d])
    <3>1. next \subseteq may
      BY <1>6, <2>3, ChancesShrink
    <3> QED BY <1>0, <1>1, <1>2, <1>9, <2>1, <2>2, <3>1
  <2>4. CASE Sendable(drafts'[d]) /\ ~Sendable(drafts[d])
    <3>1. drafts[d].status \in {"DRAFTED", Absent}
      <4>1. CASE AllKept(drafts, drafts')
        BY <2>4, <4>1 DEF AllKept, Kept
      <4>2. ASSUME NEW e \in Drafts, NEW action \in {"BLOCK", "AUTO_SEND", "REVIEW"},
                   InsertDraft(e, action)
            PROVE  drafts[d].status = Absent
        BY <2>4, <4>2, Inserted
      <4> QED BY <4>1, <4>2, TableKept
    <3>2. said[d] = 0
      BY <1>0, <3>1 DEF PolicyContainment, Cleared, Absent
    <3> QED BY <1>1, <1>9, <2>1, <2>2, <3>2
  <2> QED BY <2>3, <2>4
<1> QED BY <1>4, <1>5, <1>6, FaultStep

-----------------------------------------------------------------------------
\* The invariant of races.

\* It holds initially.
LEMMA RacesInit ==
  ASSUME Init
  PROVE  RacesInv
<1> USE DEF Init
<1>1. \A d \in Drafts : drafts[d].createdAt = 0 /\ drafts[d].status = Absent
  BY DEF EmptyTable, NewRow
<1>2. \A p \in Pollers : polls[p].pc = "idle" /\ polls[p].todo = {}
  BY DEF IdlePoll
<1>3. StampedBefore /\ OneReviewPerThread
  BY <1>1 DEF StampedBefore, OneReviewPerThread
<1>4. InFlightIsBusy /\ OneActuationAtATime /\ ListedOnce
  BY <1>2 DEF InFlightIsBusy, OneActuationAtATime, ListedOnce, Busy
<1>5. ChancesAreBounded
  <2>1. ASSUME NEW d \in Drafts
        PROVE  said[d] + Cardinality(MayStillSay(d)) <= Cardinality(Pollers) * (faults + 1)
    <3>1. MayStillSay(d) \in SUBSET Pollers
      BY DEF MayStillSay
    <3>2. /\ Cardinality(MayStillSay(d)) \in Nat /\ Cardinality(Pollers) \in Nat
          /\ Cardinality(MayStillSay(d)) <= Cardinality(Pollers)
      BY <3>1, PollsCounted
    <3>3. said[d] = 0 /\ faults = 0
      OBVIOUS
    <3> QED BY <3>2, <3>3
  <2> QED BY <2>1 DEF ChancesAreBounded
<1> QED BY <1>3, <1>4, <1>5 DEF RacesInv

\* Every step keeps it.
LEMMA RacesStep ==
  ASSUME IInv, IInv', RacesInv, [Next]_vars
  PROVE  RacesInv'
<1>1. TypeOK /\ TypeOK' /\ PolicyContainment
  BY DEF IInv
<1> QED BY <1>1, StampedStep, OneReviewStep, InFlightStep, ListedStep, ChancesStep DEF RacesInv

\* RacesInv holds in every reachable state, on top of IInv.
THEOREM RacesInvariant == Spec => []RacesInv
<1>1. Init => RacesInv
  BY RacesInit
<1>2. IInv /\ IInv' /\ RacesInv /\ [Next]_vars => RacesInv'
  BY RacesStep
<1> QED BY <1>1, <1>2, InductiveInvariant, PTL DEF Spec

\* An older draft of a thread stays triageable beside a newer one only while
\* the worker of the newer one has yet to reject it or died before it could.
THEOREM OneReviewPerThreadHolds == Spec => []OneReviewPerThread
<1>1. RacesInv => OneReviewPerThread
  BY DEF RacesInv
<1> QED BY <1>1, RacesInvariant, PTL

\* Overlapping polls of a gateway that guards drafts in flight never have the
\* same draft in hand.
THEOREM OneActuationAtATimeHolds == Spec => []OneActuationAtATime
<1>1. RacesInv => OneActuationAtATime
  BY DEF RacesInv
<1> QED BY <1>1, RacesInvariant, PTL

\* A draft is said once per overlapping poll, and as often again for each fault.
THEOREM DuplicatesExplainedHolds == Spec => []DuplicatesExplained
<1>1. TypeOK /\ RacesInv => DuplicatesExplained
  <2> SUFFICES ASSUME TypeOK, RacesInv, NEW d \in Drafts
               PROVE  said[d] <= Cardinality(Pollers) * (faults + 1)
    BY DEF DuplicatesExplained
  <2>1. MayStillSay(d) \in SUBSET Pollers
    BY DEF MayStillSay
  <2>2. /\ Cardinality(MayStillSay(d)) \in Nat /\ Cardinality(Pollers) \in Nat
        /\ said[d] \in Nat /\ faults \in Nat
    BY <2>1, PollsCounted, FaultsBounded DEF TypeOK
  <2>3. said[d] + Cardinality(MayStillSay(d)) <= Cardinality(Pollers) * (faults + 1)
    BY DEF RacesInv, ChancesAreBounded
  <2>4. Cardinality(Pollers) * (faults + 1) \in Nat
    BY <2>2
  <2> QED BY <2>2, <2>3, <2>4
<1> QED BY <1>1, TypeCorrect, RacesInvariant, PTL
=============================================================================
