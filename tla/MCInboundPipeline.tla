-------------------------- MODULE MCInboundPipeline --------------------------
(* Values of the constants of InboundPipeline for TLC. *)
EXTENDS InboundPipeline, TLC

CONSTANTS m1, m2, r1, r2, r3

Numbered  == Messages \X (1..MaxDrafts)

\* All messages come from one conversation.
OneThread == [d \in Drafts |-> "thread"]

Interchangeable == Permutations(Messages) \cup Permutations(Runs)
=============================================================================
