---------------------------- MODULE DraftContract ----------------------------
(***************************************************************************)
(* What MiraChat promises about a draft, whatever its workers, triage      *)
(* handlers and gateways are doing: nothing is said over a channel before  *)
(* the draft is approved, SENT is backed by an act, and a decision stands. *)
(* The statuses are those of outbound_drafts; "ABSENT" is a draft to come. *)
(***************************************************************************)
EXTENDS Naturals

CONSTANT Drafts

VARIABLES
  status,  \* what has been decided about a draft
  said,    \* how often it reached the other side of the channel
  worked   \* how often a doer carried it out

vars == <<status, said, worked>>

Init ==
  /\ status = [d \in Drafts |-> "ABSENT"]
  /\ said = [d \in Drafts |-> 0]
  /\ worked = [d \in Drafts |-> 0]

Becomes(d, from, to) == status[d] = from /\ status' = [status EXCEPT ![d] = to]

\* The policy proposes a draft for review, clears it or blocks it.
Propose(d) ==
  /\ \E s \in {"DRAFTED", "APPROVED", "REJECTED"} : Becomes(d, "ABSENT", s)
  /\ UNCHANGED <<said, worked>>

Approve(d) == Becomes(d, "DRAFTED", "APPROVED") /\ UNCHANGED <<said, worked>>

\* One rejection by a person, or several by a newer draft of the thread.
Reject(rejected) ==
  /\ \A d \in rejected : status[d] = "DRAFTED"
  /\ status' = [d \in Drafts |-> IF d \in rejected THEN "REJECTED" ELSE status[d]]
  /\ UNCHANGED <<said, worked>>

CarryOut(d) ==
  /\ status[d] # "ABSENT"
  /\ worked' = [worked EXCEPT ![d] = @ + 1]
  /\ UNCHANGED <<status, said>>

CompleteByDoer(d) ==
  /\ worked[d] > 0
  /\ Becomes(d, "DRAFTED", "SENT")
  /\ UNCHANGED <<said, worked>>

\* A late poll may say a draft again that is already SENT or FAILED.
Deliver(d) ==
  /\ status[d] \in {"APPROVED", "SENT", "FAILED"}
  /\ said' = [said EXCEPT ![d] = @ + 1]
  /\ UNCHANGED <<status, worked>>

Complete(d) ==
  /\ said[d] > 0
  /\ Becomes(d, "APPROVED", "SENT")
  /\ UNCHANGED <<said, worked>>

GiveUp(d) == Becomes(d, "APPROVED", "FAILED") /\ UNCHANGED <<said, worked>>

Next ==
  \/ \E d \in Drafts : \/ Propose(d) \/ Approve(d) \/ CarryOut(d) \/ CompleteByDoer(d)
                       \/ Deliver(d) \/ Complete(d) \/ GiveUp(d)
  \/ \E rejected \in SUBSET Drafts : Reject(rejected)

Spec == Init /\ [][Next]_vars
=============================================================================
