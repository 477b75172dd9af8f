------------------------------- MODULE WebClient -------------------------------
(***************************************************************************)
(* The web client (apps/web-client) and the routes of the API it uses: a   *)
(* session, the threads and drafts of its user, the panel that offers a    *)
(* draft, and the card with a reply to what was uploaded.                  *)
(*                                                                         *)
(* A tap starts a task; most end by asking for the threads and drafts anew *)
(* (bootstrap).  Tasks interleave at every answer.  A draft is named by its*)
(* thread and its number there; a thread is of one user.                   *)
(***************************************************************************)
EXTENDS Naturals

CONSTANTS
  Users, Threads,
  OwnerOf,    \* the user of each thread
  Nobody, Tasks, MaxDrafts, MaxClicks, MaxFaults

VARIABLES
  newest, open,  \* at the API: the newest draft of a thread, and whether it is DRAFTED
  session,       \* the user of the token in sessionStorage
  threads,       \* state.threads
  listed,        \* state.drafts: the draft it has of each thread, 0 when none
  rows,          \* the threads that the side bar shows
  selected,      \* state.selectedKey
  panel,         \* the draft that is shown with its buttons
  paste,         \* the thread whose upload the reply card is about
  task,
  decided,       \* drafts that were approved here
  late,          \* the lists came with an answer to an earlier session
  strayed,       \* the reply card came late, or the selection was moved under it
  shared,        \* two tasks have been under way at a time
  clicks, faults

server  == <<newest, open>>
lists   == <<threads, listed>>
history == <<decided, late, strayed, shared>>
vars    == <<server, session, lists, rows, selected, panel, paste, task, history, clicks, faults>>

Idle    == [pc |-> "idle", kind |-> "none", who |-> Nobody, of |-> <<Nobody, 0>>,
            got |-> [t \in Threads |-> 0]]
Nothing == <<Nobody, 0>>
Empty   == [t \in Threads |-> 0]
Drafts  == Threads \X (1..MaxDrafts)

\* The page has been loaded for the first time.
Init ==
  /\ newest = [t \in Threads |-> 1] /\ open = [t \in Threads |-> TRUE]
  /\ session = Nobody /\ threads = {} /\ listed = Empty /\ rows = {} /\ selected = Nobody
  /\ panel = Nothing /\ paste = Nobody /\ task = [k \in Tasks |-> Idle]
  /\ decided = {} /\ late = FALSE /\ strayed = FALSE /\ shared = FALSE
  /\ clicks = 0 /\ faults = 0

-----------------------------------------------------------------------------
\* latestDraftForThread
LatestDraft(t, l) == IF t = Nobody \/ l[t] = 0 THEN Nothing ELSE <<t, l[t]>>

\* resolveActionDraft: what a tap on a button of the panel acts on.
ActionDraft == IF selected = Nobody THEN Nothing ELSE LatestDraft(selected, listed)

\* renderSidebar and renderMain; without a session both are blank.
RenderSidebar == rows' = IF session' = Nobody THEN {} ELSE threads'
RenderMain ==
  panel' = IF session' = Nobody \/ selected' = Nobody THEN Nothing ELSE LatestDraft(selected', listed')
Render == RenderSidebar /\ RenderMain

At(k, pc)  == task[k].pc = pc
Ends(k)    == task' = [task EXCEPT ![k] = Idle]
Active     == {k \in Tasks : ~At(k, "idle")}
Click      == clicks < MaxClicks /\ clicks' = clicks + 1
Start(k, kind, pc, who, of) ==
  /\ At(k, "idle") /\ Click /\ shared' = (shared \/ Active # {})
  /\ task' = [task EXCEPT ![k] = [Idle EXCEPT !.pc = pc, !.kind = kind, !.who = who, !.of = of]]
Fault == faults < MaxFaults /\ faults' = faults + 1

\* refreshBootstrap: what the token in hand is asked for; without one the lists are empty.
Ask(k, s) ==
  IF s = Nobody THEN Ends(k) /\ threads' = {} /\ listed' = Empty /\ Render
  ELSE /\ task' = [task EXCEPT ![k].pc = "asking", ![k].who = s]
       /\ UNCHANGED <<lists, rows, panel>>

-----------------------------------------------------------------------------
\* What is tapped.
SelectThread(t) ==
  /\ t \in rows /\ Click /\ selected' = t
  /\ paste' = IF t # selected THEN Nobody ELSE paste
  /\ UNCHANGED <<server, session, lists, task, history, faults>> /\ Render

Back ==
  /\ session # Nobody /\ Click /\ selected' = Nobody
  /\ UNCHANGED <<server, session, lists, paste, task, history, faults>> /\ Render

\* Typing in the search field renders the side bar.
ThreadSearch ==
  /\ Click /\ UNCHANGED <<server, session, lists, selected, panel, paste, task, history, faults>>
  /\ RenderSidebar

Logout ==
  /\ session # Nobody /\ Click /\ session' = Nobody /\ selected' = Nobody /\ paste' = Nobody
  /\ UNCHANGED <<server, lists, task, history, faults>> /\ Render

DoDevLogin(k, u) ==
  /\ Start(k, "login", "login", u, Nothing)
  /\ UNCHANGED <<server, session, lists, rows, selected, panel, paste, decided, late, strayed, faults>>

Refresh(k) ==
  /\ session # Nobody /\ Start(k, "refresh", "asking", session, Nothing)
  /\ UNCHANGED <<server, session, lists, rows, selected, panel, paste, decided, late, strayed, faults>>

ProcessInboundQueue(k) ==
  /\ session # Nobody /\ Start(k, "queue", "queueing", session, Nothing)
  /\ UNCHANGED <<server, session, lists, rows, selected, panel, paste, decided, late, strayed, faults>>

\* draftAction: copy or select approve what the panel offers.
DraftAction(k) ==
  /\ panel # Nothing /\ ActionDraft # Nothing
  /\ Start(k, "action", "posting", session, ActionDraft)
  /\ UNCHANGED <<server, session, lists, rows, selected, panel, paste, decided, late, strayed, faults>>

IngestContextFromFile(k) ==
  /\ session # Nobody /\ selected # Nobody
  /\ Start(k, "ingest", "ingesting", session, <<selected, 0>>)
  /\ UNCHANGED <<server, session, lists, rows, selected, panel, paste, decided, late, strayed, faults>>

\* The page is loaded again: the token is all that stays.
PageLoads(k) ==
  /\ Click /\ session # Nobody
  /\ threads' = {} /\ listed' = Empty /\ rows' = {} /\ selected' = Nobody /\ panel' = Nothing
  /\ paste' = Nobody /\ late' = FALSE /\ strayed' = FALSE
  /\ task' = [l \in Tasks |-> IF l # k THEN Idle
                ELSE [Idle EXCEPT !.pc = "asking", !.kind = "refresh", !.who = session]]
  /\ UNCHANGED <<server, session, decided, shared, faults>>

-----------------------------------------------------------------------------
\* What the API does.
WorkerDrafts(t) ==
  /\ newest[t] < MaxDrafts /\ newest' = [newest EXCEPT ![t] = @ + 1]
  /\ open' = [open EXCEPT ![t] = TRUE]
  /\ UNCHANGED <<session, lists, rows, selected, panel, paste, task, history, clicks, faults>>

\* The threads of the token's user and what is DRAFTED there.
Bootstrap(k) ==
  /\ At(k, "asking")
  /\ task' = [task EXCEPT ![k].pc = "answer",
       ![k].got = [t \in Threads |-> IF OwnerOf[t] = task[k].who /\ open[t] THEN newest[t] ELSE 0]]
  /\ UNCHANGED <<server, session, lists, rows, selected, panel, paste, history, clicks, faults>>

\* Any session may approve any draft that is DRAFTED.
IsOpen(d) == open[d[1]] /\ newest[d[1]] = d[2]

MiniApprove(k) ==
  /\ At(k, "posting") /\ IsOpen(task[k].of)
  /\ open' = [open EXCEPT ![task[k].of[1]] = FALSE] /\ decided' = decided \cup {task[k].of}
  /\ task' = [task EXCEPT ![k].pc = "posted"]
  /\ UNCHANGED <<newest, session, lists, rows, selected, panel, paste, late, strayed, shared,
                 clicks, faults>>

-----------------------------------------------------------------------------
\* What the answers do.
TakesBootstrap(k) ==
  /\ At(k, "answer") /\ Ends(k)
  /\ threads' = {t \in Threads : OwnerOf[t] = task[k].who} /\ listed' = task[k].got
  /\ late' = (task[k].who # session)
  /\ UNCHANGED <<server, session, selected, paste, decided, strayed, shared, clicks, faults>>
  /\ Render

\* Mutant: the lists stay as they are when they cannot be had.
BootstrapFailsKeeping(k) ==
  /\ At(k, "asking") /\ Fault /\ Ends(k) /\ late' = FALSE
  /\ UNCHANGED <<server, session, lists, selected, paste, decided, strayed, shared, clicks>>
  /\ Render

BootstrapFails(k) ==
  /\ At(k, "asking") /\ Fault /\ Ends(k)
  /\ threads' = {} /\ listed' = Empty /\ late' = FALSE
  /\ UNCHANGED <<server, session, selected, paste, decided, strayed, shared, clicks>>
  /\ Render

\* The token is stored and its user's lists are asked for.
LoggedIn(k) ==
  /\ At(k, "login") /\ session' = task[k].who
  /\ UNCHANGED <<server, selected, paste, history, clicks, faults>> /\ Ask(k, task[k].who)

QueueProcessed(k) ==
  /\ At(k, "queueing")
  /\ UNCHANGED <<server, session, selected, paste, history, clicks, faults>> /\ Ask(k, session)

\* The thread of the draft is selected; what is shown waits for the lists.
ActionDone(k) ==
  /\ At(k, "posted") /\ selected' = task[k].of[1]
  /\ strayed' = (strayed \/ paste \notin {Nobody, selected'})
  /\ UNCHANGED <<server, session, paste, decided, late, shared, clicks, faults>> /\ Ask(k, session)

\* The reply that the API suggests, if any, is shown whatever is selected by now.
Ingested(k) ==
  /\ At(k, "ingesting") /\ Ends(k) /\ paste' \in {task[k].of[1], Nobody}
  /\ strayed' = (paste' # Nobody /\ selected \notin {Nobody, paste'})
  /\ UNCHANGED <<server, session, lists, selected, decided, late, shared, clicks, faults>> /\ Render

\* An error is shown; the card is hidden if that is what failed.
RequestFails(k) ==
  /\ task[k].pc \in {"login", "queueing", "posting", "ingesting"} /\ Ends(k)
  /\ \/ At(k, "posting") /\ ~IsOpen(task[k].of) /\ UNCHANGED faults
     \/ Fault
  /\ paste' = IF At(k, "ingesting") THEN Nobody ELSE paste
  /\ UNCHANGED <<server, session, lists, rows, selected, panel, history, clicks>>

-----------------------------------------------------------------------------
Next ==
  \/ Back \/ ThreadSearch \/ Logout \/ \E t \in Threads : SelectThread(t) \/ WorkerDrafts(t)
  \/ \E k \in Tasks :
       \/ \E u \in Users : DoDevLogin(k, u)
       \/ Refresh(k) \/ ProcessInboundQueue(k) \/ DraftAction(k) \/ IngestContextFromFile(k)
       \/ PageLoads(k) \/ Bootstrap(k) \/ MiniApprove(k)
       \/ TakesBootstrap(k) \/ BootstrapFails(k) \/ LoggedIn(k) \/ QueueProcessed(k)
       \/ ActionDone(k) \/ Ingested(k) \/ RequestFails(k)

Spec == Init /\ [][Next]_vars

-----------------------------------------------------------------------------
\* At rest the lists are those of the session's user, or empty, unless an answer to an
\* earlier session came last; nobody is offered what another user may decide.
ListsAreOfSession ==
  Active = {} /\ session # Nobody /\ ~late =>
    /\ \A t \in threads : OwnerOf[t] = session
    /\ panel # Nothing => OwnerOf[panel[1]] = session

\* A tap decides the draft that is shown, except while the refresh after an earlier tap
\* is under way: that one has moved the selection already and shows it later.
TapDecidesWhatIsShown ==
  panel # Nothing /\ (\A k \in Tasks : task[k].kind = "action" => task[k].pc \in {"posting", "posted"})
    => ActionDraft = panel

\* Tasks that ran one after the other do not offer again what they decided.
DecidedIsGone == Active = {} /\ ~shared => \A d \in decided : listed[d[1]] # d[2]

\* The reply card is about the thread selected.
PasteIsOfSelection == ~strayed /\ paste # Nobody => selected \in {Nobody, paste}

PageIsOfSession == ListsAreOfSession /\ TapDecidesWhatIsShown /\ DecidedIsGone /\ PasteIsOfSelection
=============================================================================
