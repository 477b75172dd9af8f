-------------------------- MODULE MCMemoryEnrichment --------------------------
(* Values of the constants of MemoryEnrichment for TLC. *)
EXTENDS MemoryEnrichment, TLC

CONSTANTS m1, m2, m3, r1, r2

\* One message is enqueued twice.
FirstTwice == [m \in Messages |-> IF m = m1 THEN 2 ELSE 1]
=============================================================================
