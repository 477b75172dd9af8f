---------------------------- MODULE WechatGateway ----------------------------
(***************************************************************************)
(* The inbound side of the WeChat gateway (apps/gateway-wechaty): text     *)
(* fragments are gathered per conversation until none has come for a while *)
(* and are then posted to MiraChat as one message; logins and logouts are  *)
(* reported as the status of the connection; a signal flushes the buffers, *)
(* reports OFFLINE and ends the process.                                   *)
(*                                                                         *)
(* Requests to the API run side by side and may overtake each other.       *)
(* Nothing is retried.  Fragments are numbered in the order of their       *)
(* message events.                                                         *)
(***************************************************************************)
EXTENDS Naturals, SequencesExt

CONSTANTS
  Keys,          \* buffer keys: a sender, or a sender in a room
  Rooms,         \* those of rooms, whose mention lists are awaited
  MaxFragments, MaxReports, MaxFaults

ASSUME RoomsAreKeys == Rooms \subseteq Keys
ASSUME BoundsAreCounts == {MaxFragments, MaxReports, MaxFaults} \subseteq Nat

VARIABLES
  arrivals,    \* the conversation of each fragment that has arrived
  mentioning,  \* fragments whose mention list is awaited
  buffers,     \* the fragments gathered for each conversation
  armed,       \* conversations whose debounce timer runs
  posts,       \* requests to POST /mirachat/inbound under way
  stored,      \* inbound_messages, in the order of their insertion
  lost,        \* fragments that will never be stored
  session,     \* whether WeChat is logged in
  reports,     \* how often the status was reported
  patches,     \* requests to PATCH /mirachat/connection/auth under way
  status,      \* user_connections.status
  gw, todo,    \* the process, and what its stop has yet to flush
  atStop,      \* fragments gathered when stop began, for stop to flush
  overlapped,  \* conversations that had two posts under way
  crossed,     \* two patches have been under way
  faults

vars == <<arrivals, mentioning, buffers, armed, posts, stored, lost, session,
          reports, patches, status, gw, todo, atStop, overlapped, crossed, faults>>
inbox == <<arrivals, mentioning, buffers, armed>>
connection == <<session, reports, patches, crossed>>
process == <<gw, todo>>

Fragments == 1..MaxFragments
Gathered(k) == ToSet(buffers[k])
Everything == (UNION {Gathered(k) : k \in Keys}) \cup mentioning

Init ==
  /\ arrivals = <<>> /\ mentioning = {}
  /\ buffers = [k \in Keys |-> <<>>]
  /\ armed = {} /\ posts = {} /\ stored = <<>> /\ lost = {}
  /\ session = "out" /\ reports = 0 /\ patches = {} /\ status = "AUTH_REQUIRED"
  /\ gw = "up" /\ todo = {} /\ atStop = {}
  /\ overlapped = {} /\ crossed = FALSE /\ faults = 0

Fault == faults < MaxFaults /\ faults' = faults + 1

Running == gw # "exited"

-----------------------------------------------------------------------------
\* Gathering.

\* Mutant: the timer of a gathering conversation is cleared and only the first
\* fragment starts one.
ScheduleFirst(f, k) ==
  /\ buffers' = [buffers EXCEPT ![k] = Append(@, f)]
  /\ armed' = IF buffers[k] = <<>> THEN armed \cup {k} ELSE armed \ {k}

\* Mutant: the newest fragment is put first.
ScheduleInFront(f, k) ==
  /\ buffers' = [buffers EXCEPT ![k] = <<f>> \o @]
  /\ armed' = armed \cup {k}

\* scheduleInbound: the fragment joins the buffer and the timer starts anew.
Schedule(f, k) ==
  /\ buffers' = [buffers EXCEPT ![k] = Append(@, f)]
  /\ armed' = armed \cup {k}

HandleMessage(k) ==
  /\ Running /\ session = "in"
  /\ Len(arrivals) < MaxFragments
  /\ arrivals' = Append(arrivals, k)
  /\ IF k \in Rooms
     THEN mentioning' = mentioning \cup {Len(arrivals')} /\ UNCHANGED <<buffers, armed>>
     ELSE Schedule(Len(arrivals'), k) /\ UNCHANGED mentioning
  /\ UNCHANGED <<posts, stored, lost, connection, status, process, atStop, overlapped, faults>>

MentionsListed(f) ==
  /\ Running
  /\ f \in mentioning
  /\ mentioning' = mentioning \ {f}
  /\ Schedule(f, arrivals[f])
  /\ UNCHANGED <<arrivals, posts, stored, lost, connection, status, process, atStop, overlapped, faults>>

\* Mutant: the buffer is dropped after the request instead of before it.
FlushKeeping(k, waiter) ==
  /\ posts' = posts \cup {[key |-> k, parts |-> buffers[k], waiter |-> waiter]}
  /\ overlapped' = IF \E p \in posts : p.key = k THEN overlapped \cup {k} ELSE overlapped
  /\ UNCHANGED buffers

\* flushInbound takes the buffer away before it posts it.
Flush(k, waiter) ==
  /\ buffers' = [buffers EXCEPT ![k] = <<>>]
  /\ posts' = posts \cup {[key |-> k, parts |-> buffers[k], waiter |-> waiter]}
  /\ overlapped' = IF \E p \in posts : p.key = k THEN overlapped \cup {k} ELSE overlapped

TimerFires(k) ==
  /\ Running
  /\ k \in armed
  /\ armed' = armed \ {k}
  /\ Flush(k, "timer")
  /\ atStop' = atStop \ Gathered(k)
  /\ UNCHANGED <<arrivals, mentioning, stored, lost, connection, status, process, faults>>

-----------------------------------------------------------------------------
\* POST /mirachat/inbound: the connection is upserted as ONLINE, the message is
\* inserted.  An answer that is lost is an error for the log.

PostArrives(p) ==
  /\ p \in posts
  /\ posts' = posts \ {p}
  /\ stored' = Append(stored, [key |-> p.key, parts |-> p.parts])
  /\ status' = "ONLINE"
  /\ UNCHANGED <<inbox, lost, connection, process, atStop, overlapped, faults>>

PostFails(p) ==
  /\ p \in posts
  /\ \/ Fault
     \/ ~Running /\ UNCHANGED faults
  /\ posts' = posts \ {p}
  /\ lost' = lost \cup ToSet(p.parts)
  /\ status' \in {status, "ONLINE"}
  /\ UNCHANGED <<inbox, stored, connection, process, atStop, overlapped>>

-----------------------------------------------------------------------------
\* The connection.

Report(reported) ==
  /\ reports' = reports + 1
  /\ patches' = patches \cup {[n |-> reports', status |-> reported]}
  /\ crossed' = (crossed \/ patches # {})

Scan ==
  /\ Running /\ session = "out" /\ reports < MaxReports
  /\ Report("AUTH_REQUIRED")
  /\ UNCHANGED <<inbox, posts, stored, lost, session, status, process, atStop, overlapped, faults>>

Login ==
  /\ Running /\ session = "out" /\ reports < MaxReports
  /\ session' = "in"
  /\ Report("ONLINE")
  /\ UNCHANGED <<inbox, posts, stored, lost, status, process, atStop, overlapped, faults>>

Logout ==
  /\ Running /\ session = "in" /\ reports < MaxReports
  /\ session' = "out"
  /\ Report("AUTH_REQUIRED")
  /\ UNCHANGED <<inbox, posts, stored, lost, status, process, atStop, overlapped, faults>>

PatchArrives(p) ==
  /\ p \in patches
  /\ patches' = patches \ {p}
  /\ status' = p.status
  /\ UNCHANGED <<inbox, posts, stored, lost, session, reports, crossed, process, atStop, overlapped, faults>>

PatchFails(p) ==
  /\ p \in patches
  /\ \/ Fault
     \/ ~Running /\ UNCHANGED faults
  /\ patches' = patches \ {p}
  /\ UNCHANGED <<inbox, posts, stored, lost, session, reports, crossed, status, process, atStop, overlapped>>

-----------------------------------------------------------------------------
\* A signal: stop, then bot.stop, then exit.  The bot delivers messages as long
\* as the process lives.

StopBegins ==
  /\ gw = "up"
  /\ gw' = "flushing"
  /\ todo' = {k \in Keys : buffers[k] # <<>>}
  /\ atStop' = UNION {Gathered(k) : k \in Keys}
  /\ UNCHANGED <<inbox, posts, stored, lost, connection, status, overlapped, faults>>

StopAwaits == \E p \in posts : p.waiter = "stop"

\* Mutant: the first failed post ends the loop.
FlushNextUncaught(k) ==
  /\ gw = "flushing" /\ ~StopAwaits
  /\ k \in todo
  /\ todo' = todo \ {k}
  /\ armed' = armed \ {k}
  /\ IF buffers[k] = <<>> \/ lost # {}
     THEN UNCHANGED <<buffers, posts, overlapped>> ELSE Flush(k, "stop")
  /\ UNCHANGED <<arrivals, mentioning, stored, lost, connection, status, gw, atStop, faults>>

\* A conversation whose timer fired meanwhile has no buffer left.
FlushNext(k) ==
  /\ gw = "flushing" /\ ~StopAwaits
  /\ k \in todo
  /\ todo' = todo \ {k}
  /\ armed' = armed \ {k}
  /\ IF buffers[k] = <<>>
     THEN UNCHANGED <<buffers, posts, overlapped>> ELSE Flush(k, "stop")
  /\ UNCHANGED <<arrivals, mentioning, stored, lost, connection, status, gw, atStop, faults>>

ReportOffline ==
  /\ gw = "flushing" /\ ~StopAwaits
  /\ todo = {}
  /\ gw' = "reporting"
  /\ Report("OFFLINE")
  /\ UNCHANGED <<inbox, posts, stored, lost, session, status, todo, atStop, overlapped, faults>>

Exit ==
  /\ \/ gw = "reporting" /\ (\A p \in patches : p.status # "OFFLINE") /\ UNCHANGED faults
     \/ Running /\ Fault
  /\ gw' = "exited"
  /\ atStop' = IF gw = "reporting" THEN atStop ELSE {}
  /\ lost' = lost \cup Everything
  /\ mentioning' = {} /\ armed' = {}
  /\ buffers' = [k \in Keys |-> <<>>]
  /\ UNCHANGED <<arrivals, posts, stored, connection, status, todo, overlapped>>

-----------------------------------------------------------------------------
Api == \/ \E p \in posts : PostArrives(p) \/ PostFails(p)
       \/ \E p \in patches : PatchArrives(p) \/ PatchFails(p)

Next ==
  \/ \E k \in Keys : HandleMessage(k) \/ TimerFires(k) \/ FlushNext(k)
  \/ \E f \in Fragments : MentionsListed(f)
  \/ Api
  \/ Scan \/ Login \/ Logout
  \/ StopBegins \/ ReportOffline \/ Exit

Spec == Init /\ [][Next]_vars

\* Timers fire, requests end one way or the other, a stop goes on.  A timer is
\* started anew by every fragment, but a run has finitely many.
GoesOn ==
  \/ \E k \in Keys : TimerFires(k) \/ FlushNext(k)
  \/ \E f \in Fragments : MentionsListed(f)
  \/ Api \/ ReportOffline
Fairness == WF_vars(GoesOn)

FairSpec == Spec /\ Fairness

-----------------------------------------------------------------------------
Texts == Seq(Fragments)

\* The type of every variable.
TypeOK ==
  /\ arrivals \in Seq(Keys)
  /\ mentioning \subseteq Fragments
  /\ buffers \in [Keys -> Texts]
  /\ armed \subseteq Keys
  /\ posts \subseteq [key : Keys, parts : Texts \ {<<>>}, waiter : {"timer", "stop"}]
  /\ stored \in Seq([key : Keys, parts : Texts])
  /\ lost \subseteq Fragments
  /\ session \in {"in", "out"} /\ reports \in Nat
  /\ patches \subseteq [n : 1..reports, status : {"ONLINE", "OFFLINE", "AUTH_REQUIRED"}]
  /\ status \in {"ONLINE", "OFFLINE", "AUTH_REQUIRED"}
  /\ gw \in {"up", "flushing", "reporting", "exited"}
  /\ todo \subseteq Keys /\ overlapped \subseteq Keys
  /\ atStop \subseteq Fragments /\ crossed \in BOOLEAN /\ faults \in 0..MaxFaults

IsStored(f) == \E i \in DOMAIN stored : f \in ToSet(stored[i].parts)

\* Every fragment that arrived is in one place: no race of timers, stop and new
\* fragments posts it twice or forgets it.
FragmentsAreConserved ==
  \A f \in DOMAIN arrivals :
    LET rows == {i \in DOMAIN stored : f \in ToSet(stored[i].parts)}
        places == {k \in Keys : f \in Gathered(k)}
        flying == {p \in posts : f \in ToSet(p.parts)}
        rest == {s \in {mentioning, lost} : f \in s}
    IN  Cardinality(rows) + Cardinality(places) + Cardinality(flying)
          + Cardinality(rest) = 1

\* The fragments of a direct conversation are stored in the order they came in,
\* unless two posts of it were under way at once.
DirectIsInOrder ==
  \A i, j \in DOMAIN stored :
    /\ stored[i].key = stored[j].key
    /\ stored[i].key \notin Rooms \cup overlapped
    => \A a \in DOMAIN stored[i].parts, b \in DOMAIN stored[j].parts :
         i < j \/ (i = j /\ a < b) => stored[i].parts[a] < stored[j].parts[b]

\* What was gathered when a stop began is stored by its end: a post that fails
\* costs its own conversation and no other.
StopFlushes ==
  gw \in {"reporting", "exited"} =>
    Cardinality({arrivals[f] : f \in {g \in atStop : ~IsStored(g)}}) <= faults

\* What arrived is posted in the end, or its post failed or the process is gone.
\* Fragments are finitely many, and neither what is stored nor what is lost changes.
SettledArrivals ==
  Running => \A f \in DOMAIN arrivals : IsStored(f) \/ f \in lost

\* When the session logs out, the gateway returns to AUTH_REQUIRED
\* (PRD-wechaty-gateway, 7.1): once all requests are through, a connection that
\* is logged out is not shown as ONLINE, patches in the order they were sent.
LogoutShows ==
  /\ session = "out" /\ ~crossed /\ faults = 0
  /\ posts = {} /\ patches = {} /\ Everything = {}
  => status # "ONLINE"
=============================================================================
