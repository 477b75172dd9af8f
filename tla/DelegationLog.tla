----------------------------- MODULE DelegationLog -----------------------------
(***************************************************************************)
(* The delegation_events of drafts and the GQM rollup made of them.  Most  *)
(* events are inserted without being waited for, over any connection of    *)
(* the pool: they arrive in any order, or are lost and only logged.  The   *)
(* mark-sent route tells from the log who approved what was sent.          *)
(***************************************************************************)
EXTENDS Naturals, FiniteSets

CONSTANTS Drafts, MaxLosses

VARIABLES
  status,     \* outbound_drafts.status, or "none"
  decision,   \* what the policy engine said
  log,        \* delegation_events of drafts
  inserting,  \* inserts under way
  marking,    \* drafts marked SENT whose mark-sent has yet to look into the log
  early,      \* drafts whose mark-sent looked before auto_queued was there
  losses

vars == <<status, decision, log, inserting, marking, early, losses>>

Event(type, d) == [type |-> type, draft |-> d]

Init ==
  /\ status = [d \in Drafts |-> "none"] /\ decision = [d \in Drafts |-> "none"]
  /\ log = {} /\ inserting = {} /\ marking = {} /\ early = {} /\ losses = 0

Inserts(types, d) == inserting' = inserting \cup {Event(type, d) : type \in types}

-----------------------------------------------------------------------------
\* The worker: the policy engine decides on the draft, which is inserted approved,
\* rejected, or to be reviewed.
Compose(d) ==
  /\ status[d] = "none"
  /\ \E action \in {"AUTO_SEND", "REVIEW", "BLOCK"} :
       /\ decision' = [decision EXCEPT ![d] = action]
       /\ status' = [status EXCEPT ![d] = CASE action = "AUTO_SEND" -> "APPROVED"
                                            [] action = "BLOCK" -> "REJECTED"
                                            [] OTHER -> "DRAFTED"]
       /\ Inserts({"policy.evaluated", "draft.created"}
                    \cup (IF action = "AUTO_SEND" THEN {"draft.auto_queued"} ELSE {})
                    \cup (IF action = "BLOCK" THEN {"draft.rejected"} ELSE {}), d)
  /\ UNCHANGED <<log, marking, early, losses>>

\* The triage routes, where the row was still to be reviewed; with a doer it is sent at once.
Approve(d) ==
  /\ status[d] = "DRAFTED"
  /\ \E edited \in {"draft.approved_as_is", "draft.approved_with_edit"}, doer \in BOOLEAN :
       /\ status' = [status EXCEPT ![d] = IF doer THEN "SENT" ELSE "APPROVED"]
       /\ Inserts({edited} \cup (IF doer THEN {"outbound.sent"} ELSE {}), d)
  /\ UNCHANGED <<decision, log, marking, early, losses>>

\* POST reject, and a newer draft of the thread.
Reject(d) ==
  /\ status[d] = "DRAFTED"
  /\ status' = [status EXCEPT ![d] = "REJECTED"]
  /\ Inserts({"draft.rejected"}, d)
  /\ UNCHANGED <<decision, log, marking, early, losses>>

\* POST mark-sent: the row first; another call finds it SENT and does nothing.
MarkSent(d) ==
  /\ status[d] = "APPROVED"
  /\ status' = [status EXCEPT ![d] = "SENT"] /\ marking' = marking \cup {d}
  /\ UNCHANGED <<decision, log, inserting, early, losses>>

DraftHasEventType(d, type) == Event(type, d) \in log

\* Mutant: who approved is not looked up.
AttributeAll(d) ==
  /\ d \in marking /\ marking' = marking \ {d}
  /\ Inserts({"outbound.sent", "draft.auto_sent"}, d)
  /\ UNCHANGED <<status, decision, log, early, losses>>

\* draftHasEventType, then outbound.sent, and auto_sent if it was queued by the policy.
Attribute(d) ==
  /\ d \in marking /\ marking' = marking \ {d}
  /\ LET wasAutoQueued == DraftHasEventType(d, "draft.auto_queued")
     IN  /\ Inserts({"outbound.sent"} \cup (IF wasAutoQueued THEN {"draft.auto_sent"} ELSE {}), d)
         /\ early' = IF decision[d] = "AUTO_SEND" /\ ~wasAutoQueued THEN early \cup {d} ELSE early
  /\ UNCHANGED <<status, decision, log, losses>>

\* insertDelegationEvent.
Inserted(e) ==
  /\ e \in inserting
  /\ inserting' = inserting \ {e} /\ log' = log \cup {e}
  /\ UNCHANGED <<status, decision, marking, early, losses>>

InsertFails(e) ==
  /\ e \in inserting /\ losses < MaxLosses /\ losses' = losses + 1
  /\ inserting' = inserting \ {e}
  /\ UNCHANGED <<status, decision, log, marking, early>>

\* The API exits; what the pool had under way is lost, and so is a mark-sent.
ApiCrash ==
  /\ inserting # {} \/ marking # {}
  /\ losses < MaxLosses /\ losses' = losses + 1
  /\ inserting' = {} /\ marking' = {}
  /\ UNCHANGED <<status, decision, log, early>>

Next ==
  \/ \E d \in Drafts :
       Compose(d) \/ Approve(d) \/ Reject(d) \/ MarkSent(d) \/ Attribute(d)
  \/ \E e \in inserting : Inserted(e) \/ InsertFails(e)
  \/ ApiCrash

Spec == Init /\ [][Next]_vars

-----------------------------------------------------------------------------
\* queryGqmRollup, of all time and one user.
EventCount(type) == Cardinality({e \in log : e.type = type})

\* A rate of nothing is null.
NoRate == <<>>
Rate(part, whole) == IF whole = 0 THEN NoRate ELSE <<part, whole>>

AsIs      == EventCount("draft.approved_as_is")
Edited    == EventCount("draft.approved_with_edit")
Sent      == EventCount("outbound.sent")
AutoSent  == EventCount("draft.auto_sent")
Approvals == AsIs + Edited

\* Mutant: what the policy sent is not taken off.
HumanSentAll == Sent

\* max(0, sent - autoSent): of a pair of events one may have been lost.
HumanSent == IF Sent >= AutoSent THEN Sent - AutoSent ELSE 0

ApprovalWithoutEditRate == Rate(AsIs, AsIs + Edited)

PolicyActionCount(action) ==
  Cardinality({e \in log : e.type = "policy.evaluated" /\ decision[e.draft] = action})
PolicyTotal ==
  PolicyActionCount("AUTO_SEND") + PolicyActionCount("REVIEW") + PolicyActionCount("BLOCK")
AutoEligibleRate == Rate(PolicyActionCount("AUTO_SEND"), PolicyTotal)
ReviewRate == Rate(PolicyActionCount("REVIEW"), PolicyTotal)
BlockRate  == Rate(PolicyActionCount("BLOCK"), PolicyTotal)

-----------------------------------------------------------------------------
Types == {"policy.evaluated", "draft.created", "draft.auto_queued", "draft.rejected",
          "draft.approved_as_is", "draft.approved_with_edit", "outbound.sent", "draft.auto_sent"}
Events == [type : Types, draft : Drafts]

\* The type of every variable; what is inserted is not in the log yet: no event of a
\* draft is inserted twice.
TypeOK ==
  /\ status \in [Drafts -> {"none", "DRAFTED", "APPROVED", "REJECTED", "SENT"}]
  /\ decision \in [Drafts -> {"none", "AUTO_SEND", "REVIEW", "BLOCK"}]
  /\ log \subseteq Events /\ inserting \subseteq Events /\ log \cap inserting = {}
  /\ marking \subseteq Drafts /\ early \subseteq Drafts
  /\ losses \in 0..MaxLosses

Known(d) == {e.type : e \in {e \in log \cup inserting : e.draft = d}}

\* The log never tells two fates of a draft, and what it tells has happened: nobody is
\* said to have approved what the policy sent, nor the policy to have sent what a
\* person approved.
LogIsTrue ==
  \A d \in Drafts :
    /\ "outbound.sent" \in Known(d) => status[d] = "SENT"
    /\ "draft.rejected" \in Known(d) => status[d] = "REJECTED" /\ "outbound.sent" \notin Known(d)
    /\ "draft.auto_sent" \in Known(d) =>
         decision[d] = "AUTO_SEND" /\ Known(d) \cap {"draft.approved_as_is", "draft.approved_with_edit"} = {}

Settled == inserting = {} /\ marking = {} /\ losses = 0
SentBy(actions) == Cardinality({d \in Drafts : status[d] = "SENT" /\ decision[d] \in actions})

\* Once no insert is under way, and none was lost, the rollup tells what was sent, and
\* what of it a person approved, but for the drafts that were sent before the event
\* that they were queued by the policy had arrived.
RollupIsTrue ==
  Settled =>
    /\ Sent = SentBy({"AUTO_SEND", "REVIEW"})
    /\ AutoSent = SentBy({"AUTO_SEND"}) - Cardinality(early)
    /\ HumanSent = SentBy({"REVIEW"}) + Cardinality(early)
    /\ Approvals = Cardinality({d \in Drafts : decision[d] = "REVIEW" /\ status[d] \in {"APPROVED", "SENT"}})

\* Whatever was lost, every rate is a share of something.
RatesAreShares ==
  \A rate \in {ApprovalWithoutEditRate, AutoEligibleRate, ReviewRate, BlockRate} \ {NoRate} :
    rate[2] > 0 /\ rate[1] <= rate[2]

LogTellsWhoSent == LogIsTrue /\ RollupIsTrue /\ RatesAreShares
=============================================================================
