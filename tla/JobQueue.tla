------------------------------ MODULE JobQueue ------------------------------
(***************************************************************************)
(* A pg-boss queue (packages/db/src/boss.ts), as far as the workers of     *)
(* MiraChat depend on it.  A queue counts its waiting jobs.  A job that    *)
(* throws, outlasts its expiry or loses its worker waits again until it    *)
(* has been retried RetryLimit times; a job whose handler returns is gone. *)
(* Jobs carry the id of an inbound message, and one message may have       *)
(* several: send has no singleton key.                                     *)
(***************************************************************************)
EXTENDS Integers

CONSTANTS
  Messages,   \* ids of inbound_messages rows
  RetryLimit  \* retry_limit of the queue

ASSUME RetryLimitIsNat == RetryLimit \in Nat

Job    == [msg : Messages, tries : 0..RetryLimit]
Queues == [Job -> Nat]

NewJob(m) == [msg |-> m, tries |-> 0]

EmptyQueue == [job \in Job |-> 0]

Put(queue, job)  == [queue EXCEPT ![job] = queue[job] + 1]
Take(queue, job) == [queue EXCEPT ![job] = queue[job] - 1]

Retry(queue, job) ==
  IF job.tries < RetryLimit
  THEN Put(queue, [job EXCEPT !.tries = job.tries + 1]) ELSE queue
=============================================================================
