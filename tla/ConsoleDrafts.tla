----------------------------- MODULE ConsoleDrafts -----------------------------
(***************************************************************************)
(* The drafts in the operator's console (apps/ops-console): the panel that *)
(* offers the newest draft of the thread selected, the one slot that hides *)
(* it while a fresher draft is awaited, and the queue of approved replies. *)
(*                                                                         *)
(* Each click starts a task of requests and renderings.  A refresh asks for*)
(* the drafts, and once these are there for the queue, and then loads the  *)
(* thread before it renders; tasks interleave at every answer.  A draft is *)
(* named by its thread and the number of the message it answers.           *)
(***************************************************************************)
EXTENDS Naturals, Sequences, SequencesExt

CONSTANTS
  Threads, Nobody,     \* Nobody: no thread is selected
  Tasks,
  MaxMessages,         \* messages sent in a thread
  MaxClicks, MaxFaults

VARIABLES
  status,    \* at the API, of the draft of each message
  drafted,   \* per thread, its drafts in the order they were made
  selected,
  newest,    \* state.drafts: of each thread, the newest draft that was listed
  request,   \* state.pendingDraftRequest
  panel,     \* Nothing, Drafting or the draft that is offered
  pending,   \* state.pending: what waits to be sent
  sticky,    \* drafts that stay in it though the API does not list them
  task,
  shared,    \* two messages have been awaited at a time
  queued,    \* drafts that were put in the queue here
  crossed,   \* those that were while a refresh awaited the queue
  clicks, faults

server  == <<status, drafted>>
client  == <<selected, newest, request, panel, pending, sticky>>
history == <<shared, queued, crossed>>
vars    == <<server, client, task, history, clicks, faults>>

Drafts == Threads \X (1..MaxMessages)
Idle   == [pc |-> "idle", kind |-> "none", of |-> <<Nobody, 0>>,
           got |-> [t \in Threads |-> 0], had |-> {}, queue |-> {}]
Nothing  == <<Nobody, 0>>
Drafting == <<Nobody, 1>>

\* The page is open and has been refreshed; each thread has a draft.
Init ==
  /\ status = [d \in Drafts |-> IF d[2] = 1 THEN "DRAFTED" ELSE "none"]
  /\ drafted = [t \in Threads |-> <<1>>]
  /\ selected = Nobody /\ newest = [t \in Threads |-> 1] /\ request = Nothing
  /\ panel = Nothing /\ pending = {} /\ sticky = {} /\ task = [k \in Tasks |-> Idle]
  /\ shared = FALSE /\ queued = {} /\ crossed = {} /\ clicks = 0 /\ faults = 0

-----------------------------------------------------------------------------
\* renderApproval: a request that the newest draft does not answer hides it.
Rendered(s, new, req) ==
  IF s = Nobody THEN Nothing
  ELSE IF req[1] = s /\ new[s] # req[2] THEN Drafting
  ELSE IF new[s] = 0 THEN Nothing ELSE <<s, new[s]>>

\* The list of drafts shows all but those sent, up to a day old.
Listed(t) ==
  LET of == SelectSeq(drafted[t], LAMBDA m : status[<<t, m>>] # "SENT")
  IN  IF of = <<>> THEN 0 ELSE Last(of)

At(k, pc)     == task[k].pc = pc
Goes(k, pc)   == task' = [task EXCEPT ![k].pc = pc]
Ends(k)       == task' = [task EXCEPT ![k] = Idle]
Awaiting      == {k \in Tasks : task[k].kind = "send"}
Start(k, kind, pc, d) ==
  /\ At(k, "idle") /\ clicks < MaxClicks /\ clicks' = clicks + 1
  /\ task' = [task EXCEPT ![k].pc = pc, ![k].kind = kind, ![k].of = d]

-----------------------------------------------------------------------------
\* selectThread renders when the messages are there.
SelectThread(k, t) ==
  /\ Start(k, "select", "loading", Nothing) /\ selected' = t
  /\ UNCHANGED <<server, newest, request, panel, pending, sticky, history, faults>>

ClearThreadSelection ==
  /\ clicks < MaxClicks /\ clicks' = clicks + 1
  /\ selected' = Nobody /\ panel' = Rendered(Nobody, newest, request)
  /\ UNCHANGED <<server, newest, request, pending, sticky, task, history, faults>>

RefreshData(k) ==
  /\ Start(k, "refresh", "listing", Nothing) /\ UNCHANGED <<server, client, history, faults>>

\* sendInbound: a message is posted in the thread.
SendInbound(k) ==
  /\ selected # Nobody /\ Start(k, "send", "posting", <<selected, 0>>)
  /\ shared' = (shared \/ Awaiting # {})
  /\ UNCHANGED <<server, client, queued, crossed, faults>>

\* The buttons of the panel and of the queue.
Approve(k) ==
  /\ panel \in Drafts /\ Start(k, "approve", "approving", panel)
  /\ UNCHANGED <<server, client, history, faults>>

Reject(k) ==
  /\ panel \in Drafts /\ Start(k, "reject", "rejecting", panel)
  /\ UNCHANGED <<server, client, history, faults>>

MarkSent(k) ==
  /\ \E d \in pending : d[1] = selected /\ Start(k, "mark", "marking", d)
  /\ UNCHANGED <<server, client, history, faults>>

-----------------------------------------------------------------------------
\* What the API does with them.
PostArrives(k) ==
  LET t == task[k].of[1] IN
  /\ At(k, "posting")
  /\ \E m \in 1..MaxMessages :
       /\ status[<<t, m>>] = "none" /\ \A l \in 1..(m - 1) : status[<<t, l>>] # "none"
       /\ status' = [status EXCEPT ![<<t, m>>] = "PENDING"]
       /\ task' = [task EXCEPT ![k].pc = "posted", ![k].of = <<t, m>>]
  /\ UNCHANGED <<drafted, client, history, clicks, faults>>

\* The worker drafts a reply, and rejects the older ones.
WorkerDrafts(d) ==
  /\ status[d] = "PENDING" /\ drafted' = [drafted EXCEPT ![d[1]] = Append(@, d[2])]
  /\ status' = [e \in Drafts |-> IF e = d THEN "DRAFTED"
                  ELSE IF e[1] = d[1] /\ status[e] = "DRAFTED" THEN "REJECTED" ELSE status[e]]
  /\ UNCHANGED <<client, task, history, clicks, faults>>

GatewaySends(d) ==
  /\ status[d] = "APPROVED" /\ status' = [status EXCEPT ![d] = "SENT"]
  /\ UNCHANGED <<drafted, client, task, history, clicks, faults>>

\* approve and reject change a draft in DRAFTED only.
ApproveArrives(k) ==
  /\ At(k, "approving") /\ status[task[k].of] = "DRAFTED" /\ Goes(k, "approved")
  /\ status' = [status EXCEPT ![task[k].of] = "APPROVED"]
  /\ UNCHANGED <<drafted, client, history, clicks, faults>>

RejectArrives(k) ==
  /\ At(k, "rejecting") /\ status[task[k].of] = "DRAFTED" /\ Goes(k, "listing")
  /\ status' = [status EXCEPT ![task[k].of] = "REJECTED"]
  /\ UNCHANGED <<drafted, client, history, clicks, faults>>

MarkArrives(k) ==
  /\ At(k, "marking") /\ status[task[k].of] = "APPROVED" /\ Goes(k, "listing")
  /\ status' = [status EXCEPT ![task[k].of] = "SENT"] /\ sticky' = sticky \ {task[k].of}
  /\ UNCHANGED <<drafted, selected, newest, request, panel, pending, history, clicks, faults>>

\* The request fails or is refused: the error is shown, and nothing is refreshed.
ClickFails(k) ==
  /\ task[k].pc \in {"posting", "approving", "rejecting", "marking"} /\ Ends(k)
  /\ \/ /\ ~At(k, "posting") /\ UNCHANGED faults
        /\ status[task[k].of] # (IF At(k, "marking") THEN "APPROVED" ELSE "DRAFTED")
     \/ faults < MaxFaults /\ faults' = faults + 1
  /\ UNCHANGED <<server, client, history, clicks>>

-----------------------------------------------------------------------------
\* Mutant: the slot is taken once the page has been refreshed.
PostedLate(k) ==
  /\ At(k, "posted") /\ Goes(k, "listing")
  /\ UNCHANGED <<server, client, history, clicks, faults>>

\* The answer to the post: the slot is taken, and the old draft hidden.
Posted(k) ==
  /\ At(k, "posted") /\ Goes(k, "listing")
  /\ request' = task[k].of /\ panel' = Rendered(selected, newest, request')
  /\ UNCHANGED <<server, selected, newest, pending, sticky, history, clicks, faults>>

\* Refreshes that have asked for the queue, or are about to, and do not know the draft.
Waiting == {k \in Tasks : task[k].pc \in {"queueing", "queue"}}

\* upsertPendingRow: what was approved is in the queue at once, and for 25 seconds.
UpsertPendingRow(k) ==
  /\ At(k, "approved") /\ Goes(k, "listing")
  /\ pending' = pending \cup {task[k].of} /\ sticky' = sticky \cup {task[k].of}
  /\ queued' = queued \cup {task[k].of}
  /\ crossed' = IF Waiting # {} THEN crossed \cup {task[k].of} ELSE crossed
  /\ UNCHANGED <<server, selected, newest, request, panel, shared, clicks, faults>>

StickyLapses(d) ==
  /\ d \in sticky /\ sticky' = sticky \ {d}
  /\ UNCHANGED <<server, selected, newest, request, panel, pending, task, history, clicks, faults>>

\* refreshData: the drafts are listed; a list that cannot be had is empty.
ListsDrafts(k) ==
  /\ At(k, "listing")
  /\ \/ task' = [task EXCEPT ![k].pc = "drafts", ![k].got = [t \in Threads |-> Listed(t)]]
        /\ UNCHANGED faults
     \/ /\ task' = [task EXCEPT ![k].pc = "drafts"] /\ faults < MaxFaults /\ faults' = faults + 1
  /\ UNCHANGED <<server, client, history, clicks>>

\* The answer is taken, and what is in the queue by now is kept in mind.
TakesDrafts(k) ==
  /\ At(k, "drafts") /\ newest' = task[k].got
  /\ task' = [task EXCEPT ![k].pc = "queueing", ![k].got = Idle.got, ![k].had = pending]
  /\ UNCHANGED <<server, selected, request, panel, pending, sticky, history, clicks, faults>>

ListsQueue(k) ==
  /\ At(k, "queueing")
  /\ task' = [task EXCEPT ![k].pc = "queue",
                           ![k].queue = {d \in Drafts : status[d] = "APPROVED"}]
  /\ UNCHANGED <<server, client, history, clicks, faults>>

\* The queue is what the API lists, and what was in it and is sticky.
TakesQueue(k) ==
  /\ At(k, "queue") /\ sticky' = sticky \ task[k].queue
  /\ pending' = task[k].queue \cup (task[k].had \cap sticky)
  /\ task' = [task EXCEPT ![k].pc = "loading", ![k].queue = {}, ![k].had = {}]
  /\ UNCHANGED <<server, selected, newest, request, panel, history, clicks, faults>>

\* The messages have been loaded, or not: what is selected by now is rendered.
Loaded(k) ==
  /\ At(k, "loading")
  /\ IF task[k].kind = "send" THEN Goes(k, "checking") ELSE Ends(k)
  /\ panel' = Rendered(selected, newest, request)
  /\ UNCHANGED <<server, selected, newest, request, pending, sticky, history, clicks, faults>>

\* pollUntilDraftForThread: the draft awaited is there, and the slot of its thread freed.
Ready(k) == newest[task[k].of[1]] = task[k].of[2] /\ selected = task[k].of[1]
Freed(k) == IF request[1] = task[k].of[1] THEN Nothing ELSE request

DraftIsReady(k) ==
  /\ At(k, "checking") /\ Ready(k) /\ Ends(k)
  /\ request' = Freed(k) /\ panel' = Rendered(selected, newest, request')
  /\ UNCHANGED <<server, selected, newest, pending, sticky, history, clicks, faults>>

PollsAgain(k) ==
  /\ At(k, "checking") /\ ~Ready(k) /\ Goes(k, "listing")
  /\ UNCHANGED <<server, client, history, clicks, faults>>

\* After 75 seconds the poll ends.
GivesUp(k) ==
  /\ At(k, "checking") /\ ~Ready(k) /\ Ends(k) /\ request' = Freed(k)
  /\ panel' = IF request' # request THEN Rendered(selected, newest, request') ELSE panel
  /\ UNCHANGED <<server, selected, newest, pending, sticky, history, clicks, faults>>

-----------------------------------------------------------------------------
Next ==
  \/ ClearThreadSelection \/ \E d \in Drafts : WorkerDrafts(d) \/ GatewaySends(d) \/ StickyLapses(d)
  \/ \E k \in Tasks :
       \/ \E t \in Threads : SelectThread(k, t)
       \/ RefreshData(k) \/ SendInbound(k) \/ Approve(k) \/ Reject(k) \/ MarkSent(k)
       \/ PostArrives(k) \/ ApproveArrives(k) \/ RejectArrives(k) \/ MarkArrives(k) \/ ClickFails(k)
       \/ Posted(k) \/ UpsertPendingRow(k)
       \/ ListsDrafts(k) \/ TakesDrafts(k) \/ ListsQueue(k) \/ TakesQueue(k) \/ Loaded(k)
       \/ DraftIsReady(k) \/ PollsAgain(k) \/ GivesUp(k)

Spec == Init /\ [][Next]_vars

-----------------------------------------------------------------------------
\* The type of every variable.
TypeOK ==
  /\ status \in [Drafts -> {"none", "PENDING", "DRAFTED", "APPROVED", "SENT", "REJECTED"}]
  /\ \A t \in Threads : /\ ToSet(drafted[t]) \subseteq 1..MaxMessages
                        /\ newest[t] \in 0..MaxMessages
  /\ selected \in Threads \cup {Nobody} /\ request \in Drafts \cup {Nothing}
  /\ panel \in Drafts \cup {Nothing, Drafting}
  /\ pending \cup sticky \cup queued \cup crossed \subseteq Drafts

\* While the reply to a message is awaited no older draft of its thread is offered: "Old
\* reply hidden so you do not approve stale content".  Two messages awaited at a time
\* share one slot.
StaleIsHidden ==
  ~shared => \A k \in Awaiting :
    task[k].pc \notin {"posting", "posted"} /\ panel[1] = task[k].of[1] => panel = task[k].of

\* When nothing is under way the panel offers the newest draft listed of what is selected.
PanelIsOfSelection ==
  (\A k \in Tasks : At(k, "idle")) => panel = Rendered(selected, newest, request)

\* What was approved here stays in the queue until it is sent, whatever is refreshed,
\* unless a refresh had its mind on the queue as it was.
QueueIsKept == \A d \in queued \ crossed : status[d] = "APPROVED" => d \in pending

DraftsAreOffered == StaleIsHidden /\ PanelIsOfSelection /\ QueueIsKept
=============================================================================
