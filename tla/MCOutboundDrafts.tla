-------------------------- MODULE MCOutboundDrafts --------------------------
(* Values of the constants of OutboundDrafts for TLC. *)
EXTENDS OutboundDrafts, TLC

CONSTANTS d1, d2, h1, h2, p1, p2

\* All drafts answer one conversation.
OneThread == [d \in Drafts |-> "thread"]

\* Handlers and overlapping polls are interchangeable.
Interchangeable == Permutations(Handlers) \cup Permutations(Pollers)

\* So are drafts of one thread, if all of them can be delivered.
AllInterchangeable == Interchangeable \cup Permutations(Drafts)
=============================================================================
