----------------------------- MODULE DraftStore -----------------------------
(***************************************************************************)
(* The table outbound_drafts of MiraChat (packages/db) and the SQL         *)
(* statements of repos.ts that read or write it.  Each statement is one    *)
(* autocommit UPDATE or INSERT, so it is an operator from the table to the *)
(* table it leaves.  A row keeps the columns the pipeline branches on:     *)
(*   attempts   send_attempt_count                                         *)
(*   approvedAt approved_at, 0 for NULL                                    *)
(*   sent       sent_at IS NOT NULL                                        *)
(*   backoff    next_send_after > now()                                    *)
(*   dead       dead_lettered_at IS NOT NULL                               *)
(*   error      last_send_error IS NOT NULL                                *)
(*   edited     edited_text                                                *)
(*   createdAt  created_at                                                 *)
(* Times are ranks of one clock: only their order is ever compared.  The   *)
(* table is total on Drafts; the id of a row that was never inserted has   *)
(* status "ABSENT".                                                        *)
(***************************************************************************)
EXTENDS Integers, FiniteSets

CONSTANTS
  Drafts,       \* ids of outbound_drafts rows
  Edits,        \* texts a person may give a draft, reply options included
  ThreadOf,     \* thread_id (with channel, account and user) of a draft
  MaxAttempts,  \* maxAttempts of mark-send-failed
  PageLimit     \* LIMIT of listPendingSend

Absent    == "ABSENT"
Generated == "generated"  \* generated_text
NoEdit    == "null"       \* edited_text IS NULL
Blank     == "blank"      \* an edit that is empty once trimmed

ASSUME DraftsFinite == IsFiniteSet(Drafts)
ASSUME EditsAreTexts == Edits \cap {Generated, NoEdit} = {}
ASSUME MaxAttemptsPositive == MaxAttempts \in Nat \ {0}
ASSUME PageLimitPositive == PageLimit \in Nat \ {0}

OutboundStatus == {"DRAFTED", "APPROVED", "REJECTED", "SENT", "FAILED"}
Texts          == Edits \cup {Generated}

Row == [status     : OutboundStatus \cup {Absent},
        attempts   : Nat,
        approvedAt : Nat,
        sent       : BOOLEAN,
        backoff    : BOOLEAN,
        dead       : BOOLEAN,
        error      : BOOLEAN,
        edited     : Edits \cup {NoEdit},
        createdAt  : Nat]

NewRow(status, approvedAt, createdAt) ==
  [status |-> status, attempts |-> 0, approvedAt |-> approvedAt,
   sent |-> FALSE, backoff |-> FALSE, dead |-> FALSE, error |-> FALSE,
   edited |-> NoEdit, createdAt |-> createdAt]

EmptyTable == [d \in Drafts |-> NewRow(Absent, 0, 0)]

Sendable(row) == row.status = "APPROVED" /\ ~row.sent

\* UPDATE ... WHERE id = d AND <matches>: no matching row, no change.
Update(table, d, matches, row) ==
  IF matches THEN [table EXCEPT ![d] = row] ELSE table

-----------------------------------------------------------------------------
\* What the statements write into the row they match.

Approved(row, text, now) ==
  [row EXCEPT !.status = "APPROVED", !.edited = text, !.approvedAt = now]

\* Mutant: sent_at is forgotten.
MarkedSentWithoutTime(row) ==
  [row EXCEPT !.status = "SENT", !.attempts = row.attempts + 1,
              !.error = FALSE, !.backoff = FALSE, !.dead = FALSE]

MarkedSent(row) ==
  [row EXCEPT !.status = "SENT", !.sent = TRUE, !.attempts = row.attempts + 1,
              !.error = FALSE, !.backoff = FALSE, !.dead = FALSE]

\* Mutant: the limit is compared with the attempts before this one.
MarkedFailedOffByOne(row) ==
  IF row.attempts >= MaxAttempts
  THEN [row EXCEPT !.status = "FAILED", !.attempts = row.attempts + 1,
                   !.error = TRUE, !.backoff = FALSE, !.dead = TRUE]
  ELSE [row EXCEPT !.status = "APPROVED", !.attempts = row.attempts + 1,
                   !.error = TRUE, !.backoff = TRUE, !.dead = FALSE]

\* Mutant: the attempt is not counted.
MarkedFailedUncounted(row) ==
  IF row.attempts + 1 >= MaxAttempts
  THEN [row EXCEPT !.status = "FAILED", !.error = TRUE, !.backoff = FALSE, !.dead = TRUE]
  ELSE [row EXCEPT !.status = "APPROVED", !.error = TRUE, !.backoff = TRUE, !.dead = FALSE]

MarkedFailed(row) ==
  IF row.attempts + 1 >= MaxAttempts
  THEN [row EXCEPT !.status = "FAILED", !.attempts = row.attempts + 1,
                   !.error = TRUE, !.backoff = FALSE, !.dead = TRUE]
  ELSE [row EXCEPT !.status = "APPROVED", !.attempts = row.attempts + 1,
                   !.error = TRUE, !.backoff = TRUE, !.dead = FALSE]

Rejected(row) == [row EXCEPT !.status = "REJECTED"]

-----------------------------------------------------------------------------
\* The statements.

\* approved_at comes with the draft, created_at is the clock of the database.
InsertOutboundDraft(table, d, status, approvedAt, now) ==
  [table EXCEPT ![d] = NewRow(status, approvedAt, now)]

\* Mutant: the UPDATE trusts the row the handler read.
ApproveUnguarded(table, d, now) ==
  Update(table, d, TRUE, Approved(table[d], table[d].edited, now))

ApproveOutboundDraft(table, d, now) ==
  Update(table, d, table[d].status = "DRAFTED",
         Approved(table[d], table[d].edited, now))

ApproveAndMarkSentOutboundDraft(table, d, now) ==
  Update(table, d, table[d].status = "DRAFTED",
         MarkedSent(Approved(table[d], table[d].edited, now)))

\* Mutant: an approved draft can still be edited.
EditUnguarded(table, d, text, now) ==
  Update(table, d, table[d].status \in {"DRAFTED", "APPROVED"},
         Approved(table[d], text, now))

EditAndApproveOutboundDraft(table, d, text, now) ==
  Update(table, d, table[d].status = "DRAFTED",
         Approved(table[d], text, now))

EditApproveAndMarkSentOutboundDraft(table, d, text, now) ==
  Update(table, d, table[d].status = "DRAFTED",
         MarkedSent(Approved(table[d], text, now)))

\* The two option statements write the text of the option, which is never
\* blank, into edited_text.  They read the row first; what they read of it
\* never changes once inserted, but its status, which the UPDATE tests again.
SelectReplyOptionAndApprove(table, d, option, now) ==
  Update(table, d, table[d].status = "DRAFTED" /\ option # Blank,
         Approved(table[d], option, now))

SelectReplyOptionApproveAndMarkSent(table, d, option, now) ==
  Update(table, d, table[d].status = "DRAFTED" /\ option # Blank,
         MarkedSent(Approved(table[d], option, now)))

RejectOutboundDraft(table, d) ==
  Update(table, d, table[d].status = "DRAFTED", Rejected(table[d]))

\* Mutant: newer drafts are superseded by older ones.
SupersededNewer(table, keep) ==
  {d \in Drafts \ {keep} :
     /\ table[d].status = "DRAFTED"
     /\ ThreadOf[d] = ThreadOf[keep]
     /\ table[d].createdAt > table[keep].createdAt}

\* Drafts of the thread of keep that it supersedes.
Superseded(table, keep) ==
  {d \in Drafts \ {keep} :
     /\ table[d].status = "DRAFTED"
     /\ ThreadOf[d] = ThreadOf[keep]
     /\ table[d].createdAt < table[keep].createdAt}

RejectSupersededDraftsForThread(table, keep) ==
  [d \in Drafts |-> IF d \in Superseded(table, keep)
                    THEN Rejected(table[d]) ELSE table[d]]

\* Mutant: a draft with an earlier failure cannot be marked sent.
MarkOutboundSentOnce(table, d) ==
  Update(table, d, Sendable(table[d]) /\ ~table[d].error, MarkedSent(table[d]))

MarkOutboundSent(table, d) ==
  Update(table, d, Sendable(table[d]), MarkedSent(table[d]))

\* Mutant: a late report applies whatever became of the draft.
MarkOutboundSendFailedUnguarded(table, d) ==
  Update(table, d, table[d].status # Absent, MarkedFailed(table[d]))

MarkOutboundSendFailed(table, d) ==
  Update(table, d, Sendable(table[d]), MarkedFailed(table[d]))

-----------------------------------------------------------------------------
\* listPendingSend: the oldest approvals first, at most PageLimit of them.

\* Mutant: the status is not tested.
PendingUnapproved(table) ==
  {d \in Drafts : table[d].status # Absent /\ ~table[d].sent /\ ~table[d].backoff}

Pending(table) == {d \in Drafts : Sendable(table[d]) /\ ~table[d].backoff}

Before(table, d, e) ==
  \/ table[d].approvedAt < table[e].approvedAt
  \/ /\ table[d].approvedAt = table[e].approvedAt
     /\ table[d].createdAt < table[e].createdAt

ListPendingSend(table) ==
  {d \in Pending(table) :
     Cardinality({e \in Pending(table) : Before(table, e, d)}) < PageLimit}

\* The text the pending-send endpoint gives a gateway for a row.
Wording(row) == IF row.edited \in {NoEdit, Blank} THEN Generated ELSE row.edited
=============================================================================
