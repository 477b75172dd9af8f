------------------------------ MODULE MCInbound ------------------------------
(***************************************************************************)
(* What comes in, for TLC, with what must happen to it in the end: the     *)
(* buffers of the WeChat gateway, the gateways of the other services, the  *)
(* token of WeCom, and the inbound queue of the API.  They meet at POST    *)
(* /mirachat/inbound only, which each has its side of: a behaviour is of   *)
(* one of them, and fairness is asked of all.                              *)
(***************************************************************************)
EXTENDS MCWechatGateway

CONSTANTS
  Messages, Silent, MaxTries, MaxPatches, MaxHookFaults,          \* of WebhookGateways
  Sends, Lifetime, Margin, MaxTime, MaxTokens, MaxRefusals,       \* of WeComToken
  Runs, RetryLimit, MaxDrafts, MaxSweeps, MaxQueueFaults          \* of InboundPipeline

ASSUME MessagesFinite == IsFiniteSet(Messages)
ASSUME InboundBounds ==
  {MaxTries, Lifetime, Margin, MaxTime, MaxTokens,
   RetryLimit, MaxDrafts, MaxSweeps, MaxQueueFaults} \subseteq Nat

VARIABLES
  part,    \* "wechat", "hooks", "token" or "queue"
  kind, request, rows, reported, shown, polls, crowded, astray, told, hookFaults,
  clock, ends, current, call, refusals,
  inbound, drafts, now, posting, listed, waiting, orphaned, runs, enrich, outlived, sweeps,
  queueFaults

Hooks == INSTANCE WebhookGateways WITH
  MaxReports <- MaxPatches, MaxFaults <- MaxHookFaults,
  stored <- rows, patches <- reported, status <- shown, reports <- told, faults <- hookFaults

Token == INSTANCE WeComToken WITH MaxFaults <- MaxRefusals, now <- clock, faults <- refusals

Numbered  == Messages \X (1..MaxDrafts)
OneThread == [d \in Numbered |-> "thread"]

Queue == INSTANCE InboundPipeline WITH
  Drafts <- Numbered, ThreadOf <- OneThread, Edits <- {}, MaxAttempts <- 1, PageLimit <- 1,
  MaxFaults <- MaxQueueFaults, faults <- queueFaults

hookVars  == <<kind, request, rows, reported, shown, polls, crowded, astray, told, hookFaults>>
tokenVars == <<clock, ends, current, call, refusals>>
queueVars == <<inbound, drafts, now, posting, listed, waiting, orphaned, runs, enrich,
               outlived, sweeps, queueFaults>>
all == <<part, vars, hookVars, tokenVars, queueVars>>

\* A part that is not at play starts in one state.
InboundInit ==
  /\ part \in {"wechat", "hooks", "token", "queue"}
  /\ Init /\ Hooks!Init /\ Token!Init /\ Queue!Init
  /\ part # "hooks" => kind = "twilio"

InboundNext ==
  /\ \/ part = "wechat" /\ Next /\ UNCHANGED <<hookVars, tokenVars, queueVars>>
     \/ part = "hooks" /\ Hooks!Next /\ UNCHANGED <<vars, tokenVars, queueVars>>
     \/ part = "token" /\ Token!Next /\ UNCHANGED <<vars, hookVars, queueVars>>
     \/ part = "queue" /\ Queue!Next /\ UNCHANGED <<vars, hookVars, tokenVars>>
  /\ UNCHANGED part

InboundSpec ==
  /\ InboundInit /\ [][InboundNext]_all
  /\ Fairness /\ Hooks!Fairness /\ Queue!Fairness

-----------------------------------------------------------------------------
\* What WebhookGateways promises of what is told, stored and shown.
GatewaysAreTrue == part = "hooks" => Hooks!GatewaysAreTrue

\* What WeComToken promises of the tokens it hands out.
CachedTokensServe == part = "token" => Token!CachedTokensServe

\* DONE means answered, as InboundPipeline has it.
DoneIsAnswered == part = "queue" => Queue!DoneIsAnswered

\* What arrives at the WeChat gateway, and what a patient service delivers to another,
\* is settled in the end, as WechatGateway and WebhookGateways have it.
ArrivedIsSettled == <>[](SettledArrivals /\ Hooks!StoredDeliveries)

\* What is enqueued is answered or fails.
QueuedIsSettled == Queue!QueuedIsSettled
=============================================================================
