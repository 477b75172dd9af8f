------------------------------- MODULE MCTriage -------------------------------
(***************************************************************************)
(* What is done with drafts and what is told of it, for TLC: the drafts    *)
(* and their delivery, the delegation log and the measurements made of it, *)
(* the runs of doers, and the exchanges with agents and Twilio.  Different *)
(* requests write the rows of each; a behaviour is of one of them.         *)
(***************************************************************************)
EXTENDS MCOutboundDrafts

CONSTANTS
  e1, e2,                                 \* drafts
  Recorded, MaxUnlogged,                  \* the drafts of the log, and what is lost of it
  Measured, DayLength, MaxTime, MaxInserting,   \* the drafts that are measured, and when
  Tasks, MaxBreaks,                       \* the runs of doers, and what breaks in them
  Users, Envelopes, Calls, MaxLosses      \* the exchanges, and what is lost of them

\* Drafts can be counted, and a window is so many ticks of the clock.
ASSUME DraftsAreCounted == IsFiniteSet(Recorded) /\ IsFiniteSet(Measured)
ASSUME TimesAreTicks == DayLength \in Nat \ {0} /\ MaxTime \in Nat

VARIABLES
  part,    \* "drafts", "log", "rollup", "doers" or "exchanges"
  status, decision, log, inserting, marking, early, losses,
  clock, draft, events, pending, report,
  configured, run, child, acted, doings, breaks,
  envelope, tenantCheck, responses, answered, call, placed, told, telling, lost

Delegation == INSTANCE DelegationLog WITH Drafts <- Recorded, MaxLosses <- MaxUnlogged

Metrics == INSTANCE Rollup WITH
  Drafts <- Measured, now <- clock, log <- events, inserting <- pending

Doers == INSTANCE DoerRuns WITH
  Runs <- Tasks, MaxFaults <- MaxBreaks, log <- doings, faults <- breaks

Exchange == INSTANCE Exchanges WITH
  MaxFaults <- MaxLosses, log <- told, inserting <- telling, faults <- lost

logVars == <<status, decision, log, inserting, marking, early, losses>>
metricVars == <<clock, draft, events, pending, report>>
doerVars == <<configured, run, child, acted, doings, breaks>>
exchangeVars == <<envelope, tenantCheck, responses, answered, call, placed, told, telling, lost>>
all == <<part, vars, logVars, metricVars, doerVars, exchangeVars>>

\* A part that is not at play starts in one state.
TriageInit ==
  /\ part \in {"drafts", "log", "rollup", "doers", "exchanges"}
  /\ Init /\ Delegation!Init /\ Metrics!Init
  /\ Doers!Init /\ (part # "doers" => ~configured)
  /\ Exchange!Init /\ (part # "exchanges" => ~tenantCheck)

TriageNext ==
  /\ \/ part = "drafts" /\ Next /\ UNCHANGED <<logVars, metricVars, doerVars, exchangeVars>>
     \/ part = "log" /\ Delegation!Next /\ UNCHANGED <<vars, metricVars, doerVars, exchangeVars>>
     \/ part = "rollup" /\ Metrics!Next /\ UNCHANGED <<vars, logVars, doerVars, exchangeVars>>
     \/ part = "doers" /\ Doers!Next /\ UNCHANGED <<vars, logVars, metricVars, exchangeVars>>
     \/ part = "exchanges" /\ Exchange!Next /\ UNCHANGED <<vars, logVars, metricVars, doerVars>>
  /\ UNCHANGED part

TriageSpec == TriageInit /\ [][TriageNext]_all

-----------------------------------------------------------------------------
\* What DelegationLog promises of the log and of the rollup made of it, and Rollup of
\* the times and the counts of its statements.
LogTellsWhoSent ==
  /\ part = "log" => Delegation!LogTellsWhoSent
  /\ part = "rollup" => Metrics!RollupIsWhole

\* What Exchanges promises of envelopes and calls, and DoerRuns of doers.
ExchangesAreTold ==
  /\ part = "exchanges" => Exchange!ExchangesAreTold
  /\ part = "doers" => Doers!DoersAreTold
=============================================================================
