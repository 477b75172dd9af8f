-------------------------------- MODULE Rollup --------------------------------
(***************************************************************************)
(* The measurements of /mirachat/metrics (queryGqmRollup): eight SELECTs,  *)
(* one after the other and in no transaction, over the events and the      *)
(* drafts of a window of time, while messages, drafts and deliveries go on.*)
(* An event has the time at which the database begins its insert; it is    *)
(* seen when the insert is done, which nobody waits for.  DelegationLog    *)
(* has who approved and who sent; here is when.  One clock is modelled for *)
(* the API and the database, and one user.                                 *)
(***************************************************************************)
EXTENDS Integers, FiniteSets

CONSTANTS
  Drafts,
  DayLength, MaxTime,   \* a day is so many ticks of the clock; at the last there are only reads
  MaxInserting          \* inserts under way at once

VARIABLES
  now,
  draft,      \* when it was received, composed, created, approved and sent
  log,        \* delegation_events
  inserting,  \* inserts under way, since when
  report      \* one rollup: its window and what its statements gave

vars == <<now, draft, log, inserting, report>>

Never == 0
Actions == {"AUTO_SEND", "REVIEW", "BLOCK"}
Types == {"inbound.enqueued", "policy.evaluated", "draft.created", "draft.auto_queued", "draft.rejected",
          "draft.approved", "outbound.sent", "draft.auto_sent", "feedback.regret"}

NoDraft  == [action |-> "none", received |-> Never, approved |-> Never, created |-> Never,
             sent |-> Never, closed |-> FALSE, regretted |-> FALSE]
NoReport == [at |-> "idle", since |-> Never, until |-> Never, quiet |-> FALSE, counts |-> <<>>,
             policies |-> <<>>, latencies |-> {}, regrets |-> 0, series |-> <<>>]

Init ==
  /\ now = 1 /\ draft = [d \in Drafts |-> NoDraft]
  /\ log = {} /\ inserting = {} /\ report = NoReport

Tick ==
  /\ now < MaxTime /\ now' = now + 1
  /\ UNCHANGED <<draft, log, inserting, report>>

-----------------------------------------------------------------------------
Moves(d, next, types) ==
  /\ draft' = [draft EXCEPT ![d] = next]
  /\ inserting' = inserting \cup {[type |-> type, draft |-> d, asked |-> now] : type \in types}
  /\ now < MaxTime /\ Cardinality(inserting') <= MaxInserting
  /\ UNCHANGED <<now, log, report>>

\* A message is received.
Receive(d) ==
  /\ draft[d].received = Never
  /\ Moves(d, [draft[d] EXCEPT !.received = now], {"inbound.enqueued"})

\* The worker asks the policy.  When it lets the reply pass, the time of the approval is
\* taken here, before the summary of the thread is written and the draft inserted.
Decide(d, action) ==
  /\ draft[d].received # Never /\ draft[d].action = "none"
  /\ Moves(d, [draft[d] EXCEPT !.action = action, !.approved = IF action = "AUTO_SEND" THEN now ELSE Never],
           {"policy.evaluated"})

InsertDraft(d) ==
  /\ draft[d].action # "none" /\ draft[d].created = Never
  /\ Moves(d, [draft[d] EXCEPT !.created = now, !.closed = draft[d].action = "BLOCK"],
           {"draft.created"} \cup (CASE draft[d].action = "AUTO_SEND" -> {"draft.auto_queued"}
                                     [] draft[d].action = "BLOCK" -> {"draft.rejected"}
                                     [] OTHER -> {}))

Triage(d) ==
  /\ draft[d].action = "REVIEW" /\ draft[d].created # Never
  /\ ~draft[d].closed /\ draft[d].approved = Never
  /\ \/ Moves(d, [draft[d] EXCEPT !.approved = now], {"draft.approved"})   \* as is or with an edit
     \/ Moves(d, [draft[d] EXCEPT !.closed = TRUE], {"draft.rejected"})

\* The gateway has sent it; here the log has always told who approved.
Deliver(d) ==
  /\ draft[d].created # Never /\ draft[d].approved # Never /\ draft[d].sent = Never
  /\ Moves(d, [draft[d] EXCEPT !.sent = now],
           {"outbound.sent"} \cup (IF draft[d].action = "AUTO_SEND" THEN {"draft.auto_sent"} ELSE {}))

\* POST /mirachat/feedback, which does not look whether there is such a draft, or whether
\* it was sent; once for each.
Regret(d) ==
  /\ ~draft[d].regretted
  /\ Moves(d, [draft[d] EXCEPT !.regretted = TRUE], {"feedback.regret"})

\* The insert is done; it was begun when it was asked for or, for want of a connection,
\* only now.  One that fails is like one that is never done.
Inserted(e) ==
  /\ inserting' = inserting \ {e}
  /\ \E at \in {e.asked, now} : log' = log \cup {[type |-> e.type, draft |-> e.draft, at |-> at]}
  /\ UNCHANGED <<now, draft, report>>

-----------------------------------------------------------------------------
In(t) == report.since <= t /\ t < report.until

\* GROUP BY event_type; GROUP BY policy_action of policy.evaluated.
EventCounts == [type \in Types |-> Cardinality({e \in log : e.type = type /\ In(e.at)})]
PolicyCounts ==
  [action \in Actions |->
     Cardinality({e \in log : e.type = "policy.evaluated" /\ In(e.at) /\ draft[e.draft].action = action})]

\* The averages are of these times, each of the drafts that were created in the window
\* and have it.
Latencies ==
  LET created == {d \in Drafts : draft[d].created # Never /\ In(draft[d].created)}
      approved == {d \in created : draft[d].approved # Never}
      sent == {d \in created : draft[d].sent # Never}
  IN  {[of |-> "draft", draft |-> d, takes |-> draft[d].created - draft[d].received] : d \in created}
      \cup {[of |-> "approval", draft |-> d, takes |-> draft[d].approved - draft[d].created] : d \in approved}
      \cup {[of |-> "send", draft |-> d, takes |-> draft[d].sent - draft[d].approved] : d \in sent}
      \cup {[of |-> "resolution", draft |-> d, takes |-> draft[d].sent - draft[d].received] : d \in sent}

\* Mutant: the regrets are those of all time.
RegretsEver == Cardinality({e \in log : e.type = "feedback.regret"})

Regrets == Cardinality({e \in log : e.type = "feedback.regret" /\ In(e.at)})

\* GROUP BY the day.
Day(t) == t \div DayLength
DailySeries ==
  [day \in {Day(e.at) : e \in {e \in log : In(e.at)}} |->
     [type \in Types |-> Cardinality({e \in log : e.type = type /\ In(e.at) /\ Day(e.at) = day})]]

\* GET /mirachat/metrics: so many days until now.
Ask(days) ==
  /\ report.at = "idle"
  /\ report' = [NoReport EXCEPT !.at = "counts", !.until = now,
                                !.since = IF now > days * DayLength THEN now - days * DayLength ELSE Never]
  /\ UNCHANGED <<now, draft, log, inserting>>

Selects(from, next) ==
  report.at = from /\ report' = next /\ UNCHANGED <<now, draft, log, inserting>>

Quiet == inserting = {} /\ \A e \in log : e.at < report.until

\* The statements in their order.  Those between the first and the last count different
\* rows, and no property compares them; a few of which the properties say nothing, of
\* the numbers of users, threads and relationships, are left out.
CountEvents ==
  Selects("counts", [report EXCEPT !.at = "details", !.counts = EventCounts, !.quiet = Quiet])
CountDetails ==
  Selects("details", [report EXCEPT !.at = "series", !.policies = PolicyCounts,
                                    !.latencies = Latencies, !.regrets = Regrets])
CountDays ==
  Selects("series", [report EXCEPT !.at = "done", !.series = DailySeries])

-----------------------------------------------------------------------------
\* A behaviour ends with its report.
Next ==
  /\ report.at # "done"
  /\ \/ Tick
     \/ \E d \in Drafts :
          \/ Receive(d) \/ InsertDraft(d) \/ Triage(d) \/ Deliver(d) \/ Regret(d)
          \/ \E action \in Actions : Decide(d, action)
     \/ \E e \in inserting : Inserted(e)
     \/ \E days \in {1, MaxTime} : Ask(days)
     \/ CountEvents \/ CountDetails \/ CountDays

Spec == Init /\ [][Next]_vars

-----------------------------------------------------------------------------
Time == Never..MaxTime

\* The type of what is stored and under way.
TypeOK ==
  /\ now \in Time
  /\ draft \in [Drafts -> [action : Actions \cup {"none"}, received : Time, approved : Time,
                           created : Time, sent : Time, closed : BOOLEAN, regretted : BOOLEAN]]
  /\ log \subseteq [type : Types, draft : Drafts, at : Time]
  /\ inserting \subseteq [type : Types, draft : Drafts, asked : Time]
  /\ report.since <= report.until /\ report.until <= now

\* The statements of one report do not contradict each other: what a later one counts
\* again is as much, or more by what was still being inserted, of the same window.  The
\* total of a type is the sum of its days: each has as many pairs as its count.
StatementsAgree ==
  LET total(type) == Cardinality(UNION {{day} \X (1..report.series[day][type]) : day \in DOMAIN report.series})
      policies == report.policies["AUTO_SEND"] + report.policies["REVIEW"] + report.policies["BLOCK"]
  IN  report.at = "done" =>
        /\ \A type \in Types : /\ report.counts[type] <= total(type)
                               /\ report.quiet => report.counts[type] = total(type)
        /\ report.counts["policy.evaluated"] <= policies /\ policies <= total("policy.evaluated")
        /\ report.counts["feedback.regret"] <= report.regrets /\ report.regrets <= total("feedback.regret")

\* No time is negative but that of an approval by the policy, which comes before the
\* draft and takes that much off the average.
TimesAreSpans ==
  \A span \in report.latencies :
    span.takes < 0 => span.of = "approval" /\ draft[span.draft].action = "AUTO_SEND"

\* Over all time, with nothing under way or lost, each count is within the one it comes of.
FunnelNarrows ==
  report.at = "done" /\ report.quiet /\ report.since = Never =>
    LET n(type) == report.counts[type]
    IN  /\ n("draft.created") <= n("policy.evaluated") /\ n("policy.evaluated") <= n("inbound.enqueued")
        /\ n("draft.approved") + n("draft.auto_queued") + n("draft.rejected") <= n("draft.created")
        /\ n("outbound.sent") <= n("draft.approved") + n("draft.auto_queued")
        /\ n("draft.auto_sent") <= n("draft.auto_queued")

RollupIsWhole == StatementsAgree /\ TimesAreSpans /\ FunnelNarrows
=============================================================================
