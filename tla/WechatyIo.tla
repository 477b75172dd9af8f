------------------------------ MODULE WechatyIo ------------------------------
(***************************************************************************)
(* Io of the Wechaty SDK (src/io.ts): the WebSocket over which a bot talks *)
(* to the Chatie server.  Events of the bot are buffered while the socket  *)
(* is down and sent when it opens; a socket that closes is replaced after  *)
(* a pause that grows.  ioMixin and IoClient start and stop it, one call   *)
(* at a time, and may start it again.                                      *)
(*                                                                         *)
(* A failed handshake emits 'error' and 'close' in one go, and what awaits *)
(* it goes on before the next event of a socket or a timer.  Messages of   *)
(* the server appear by the events they make the bot send.                 *)
(***************************************************************************)
EXTENDS Naturals, Sequences, FiniteSets

CONSTANTS
  Cap,        \* a pause this long (10 s) is not made longer
  MaxEvents, MaxSessions, MaxFaults

ASSUME CapIsPositive == Cap \in Nat \ {0}
ASSUME BoundsAreNaturals == MaxSessions \in Nat /\ MaxFaults \in Nat

VARIABLES
  life,     \* stopped, starting, up, failed, closing
  active,   \* state.active()
  session,  \* how often it was started: each start registers the hooks again
  sockets,  \* the state of each socket made so far
  ws,       \* this.ws: a socket or 0
  timer,    \* reconnectTimer is set
  timeout,  \* reconnectTimeout, 0 when undefined
  buffer,   \* eventBuffer
  emitted,  \* number of events, the 'sys' events among them
  wire,     \* what was handed to a socket
  faults

vars == <<life, active, session, sockets, ws, timer, timeout, buffer, emitted, wire, faults>>

None == 0
Live == {"connecting", "open", "closing"}
Phases == {"stopped", "starting", "up", "failed", "closing"}

Init ==
  /\ life = "stopped" /\ active = FALSE /\ session = 0
  /\ sockets = <<>> /\ ws = None
  /\ timer = FALSE /\ timeout = 0
  /\ buffer = <<>> /\ emitted = 0 /\ wire = <<>>
  /\ faults = 0

Fault == faults < MaxFaults /\ faults' = faults + 1

StateOf(s) == IF s = None THEN "closed" ELSE sockets[s]

-----------------------------------------------------------------------------
\* initWebSocket, up to its await.
InitWebSocket ==
  /\ sockets' = Append(sockets, "connecting")
  /\ ws' = Len(sockets')

\* The event, once for each set of hooks that fires.
Events(copies) ==
  [i \in 1..copies |-> [n |-> emitted + 1, session |-> session, phase |-> life]]

\* Mutant: what is sent stays in the buffer.
SendKeeping(copies) ==
  /\ emitted' = emitted + 1
  /\ buffer' = buffer \o Events(copies)
  /\ wire' = IF StateOf(ws)' = "open" THEN wire \o buffer' ELSE wire

\* send: into the buffer, and all of it to a connected socket.
Send(copies) ==
  LET queue == buffer \o Events(copies)
  IN  /\ emitted' = emitted + 1
      /\ IF StateOf(ws)' = "open"
         THEN wire' = wire \o queue /\ buffer' = <<>>
         ELSE buffer' = queue /\ UNCHANGED wire

\* Mutant: the limit itself is tripled as well.
NextTimeoutAtCap ==
  IF timeout = 0 THEN 1 ELSE IF timeout <= Cap THEN 3 * timeout ELSE timeout

NextTimeout ==
  IF timeout = 0 THEN 1 ELSE IF timeout < Cap THEN 3 * timeout ELSE timeout

\* Mutant: only the first attempt is followed by another.
ClosedOnce ==
  IF active /\ ~timer /\ timeout = 0 /\ StateOf(ws)' # "open"
  THEN timer' = TRUE /\ timeout' = NextTimeout
  ELSE UNCHANGED <<timer, timeout>>

\* wsOnClose and reconnect, once sockets' is known.
Closed ==
  IF active /\ ~timer /\ StateOf(ws)' # "open"
  THEN timer' = TRUE /\ timeout' = NextTimeout
  ELSE UNCHANGED <<timer, timeout>>

-----------------------------------------------------------------------------
Start ==
  /\ life = "stopped" /\ session < MaxSessions
  /\ life' = "starting" /\ active' = TRUE /\ session' = session + 1
  /\ InitWebSocket
  /\ UNCHANGED <<timer, timeout, buffer, emitted, wire, faults>>

\* wsOnOpen sends the 'sys' event; a start that awaits the socket returns.
SocketOpens(s) ==
  /\ sockets[s] = "connecting"
  /\ sockets' = [sockets EXCEPT ![s] = "open"]
  /\ timeout' = 0
  /\ UNCHANGED ws
  /\ Send(1)
  /\ life' = IF life = "starting" THEN "up" ELSE life
  /\ UNCHANGED <<active, session, timer, faults>>

\* The handshake fails: the close event sets the timer while a start is still
\* active, which then throws.
SocketFails(s) ==
  /\ sockets[s] = "connecting"
  /\ Fault
  /\ sockets' = [sockets EXCEPT ![s] = "closed"]
  /\ UNCHANGED ws
  /\ Closed
  /\ IF life = "starting"
     THEN life' = "failed" /\ active' = FALSE ELSE UNCHANGED <<life, active>>
  /\ UNCHANGED <<session, buffer, emitted, wire>>

\* The server or the network closes it.
SocketDrops(s) ==
  /\ sockets[s] = "open"
  /\ Fault
  /\ sockets' = [sockets EXCEPT ![s] = "closed"]
  /\ UNCHANGED ws
  /\ Closed
  /\ UNCHANGED <<life, active, session, buffer, emitted, wire>>

\* Mutant: this.ws outlives the stop.
SocketClosesKeeping(s) ==
  /\ sockets[s] = "closing"
  /\ sockets' = [sockets EXCEPT ![s] = "closed"]
  /\ life' = IF life = "closing" /\ s = ws THEN "stopped" ELSE life
  /\ UNCHANGED ws
  /\ Closed
  /\ UNCHANGED <<active, session, buffer, emitted, wire, faults>>

\* A socket that was told to close has closed; stop may await that.
SocketCloses(s) ==
  /\ sockets[s] = "closing"
  /\ sockets' = [sockets EXCEPT ![s] = "closed"]
  /\ IF life = "closing" /\ s = ws
     THEN life' = "stopped" /\ ws' = None ELSE UNCHANGED <<life, ws>>
  /\ Closed
  /\ UNCHANGED <<active, session, buffer, emitted, wire, faults>>

\* The callback connects whatever the state is by then.
TimerFires ==
  /\ timer
  /\ timer' = FALSE
  /\ InitWebSocket
  /\ UNCHANGED <<life, active, session, timeout, buffer, emitted, wire, faults>>

\* An event of the bot reaches each set of hooks, an answer to the server is
\* sent once; without a socket both throw.
Emit(copies) ==
  /\ ws # None /\ emitted < MaxEvents
  /\ UNCHANGED <<sockets, ws>>
  /\ Send(copies)
  /\ UNCHANGED <<life, active, session, timer, timeout, faults>>

-----------------------------------------------------------------------------
Told == [sockets EXCEPT ![ws] = IF @ = "closed" THEN @ ELSE "closing"]

\* Mutant: stop leaves the buffer to the next session.
StopKeepsBuffer ==
  /\ life \in {"up", "failed"}
  /\ active' = FALSE /\ timer' = FALSE
  /\ sockets' = Told /\ life' = "closing"
  /\ UNCHANGED <<session, ws, timeout, buffer, emitted, wire, faults>>

\* Mutant: stop does not wait for the close event.
StopUnawaited ==
  /\ life \in {"up", "failed"}
  /\ active' = FALSE /\ timer' = FALSE /\ buffer' = <<>>
  /\ sockets' = Told /\ life' = "stopped" /\ ws' = None
  /\ UNCHANGED <<session, timeout, emitted, wire, faults>>

\* Mutant: only a connected socket is told to close.
StopConnected ==
  /\ life \in {"up", "failed"}
  /\ active' = FALSE /\ timer' = FALSE /\ buffer' = <<>>
  /\ sockets' = IF StateOf(ws) = "open" THEN Told ELSE sockets
  /\ life' = "closing"
  /\ UNCHANGED <<session, ws, timeout, emitted, wire, faults>>

\* stop up to its last await: a connected socket leaves nothing in the buffer,
\* so there is nothing to wait for in send.  A socket that has already closed
\* emits no second close event.
Stop ==
  /\ life \in {"up", "failed"}
  /\ active' = FALSE /\ timer' = FALSE /\ buffer' = <<>>
  /\ sockets' = Told /\ life' = "closing"
  /\ UNCHANGED <<session, ws, timeout, emitted, wire, faults>>

-----------------------------------------------------------------------------
Socket(s) == SocketOpens(s) \/ SocketFails(s) \/ SocketCloses(s)

Next ==
  \/ Start \/ Stop \/ TimerFires
  \/ \E s \in DOMAIN sockets : Socket(s) \/ SocketDrops(s)
  \/ \E copies \in {1, session} : Emit(copies)

Spec == Init /\ [][Next]_vars

\* A handshake ends, a socket told to close closes (the ws library gives the
\* peer 30 s), a timer fires.  Whether anyone calls stop is left open.
Fairness ==
  /\ WF_vars(\E s \in DOMAIN sockets : Socket(s))
  /\ WF_vars(TimerFires)

FairSpec == Spec /\ Fairness

-----------------------------------------------------------------------------
Event == [n : 1..emitted, session : 1..MaxSessions, phase : Phases]

\* The type of every variable; an Io that is stopped, and no other, has no socket.
TypeOK ==
  /\ life \in Phases
  /\ active \in BOOLEAN /\ timer \in BOOLEAN
  /\ session \in 0..MaxSessions
  /\ sockets \in Seq(Live \cup {"closed"})
  /\ ws \in 0..Len(sockets) /\ (ws = None <=> life = "stopped")
  /\ timeout \in Nat /\ emitted \in Nat
  /\ buffer \in Seq(Event) /\ wire \in Seq(Event)
  /\ faults \in 0..MaxFaults

\* However a reconnect, a failed start, a stop and a restart meet, there is one
\* connection to the server.
OneSocket == Cardinality({s \in DOMAIN sockets : sockets[s] \in Live}) <= 1

Ordered(queue) ==
  \A i, j \in DOMAIN queue :
    i < j => \/ queue[i].n < queue[j].n
             \/ queue[i].n = queue[j].n /\ queue[j].session > 1

\* What reaches the server is in the order it was sent in, over any number of
\* reconnects, and nothing is sent again, but for the hooks that a restart
\* registers anew.
WireIsInOrder == Ordered(wire)

\* An event waits only while the socket is down and for its own session, unless
\* it was sent while stop awaited the close: stop has cleared the buffer by then.
BufferIsOfSession ==
  /\ StateOf(ws) = "open" => buffer = <<>>
  /\ \A i \in DOMAIN buffer : buffer[i].session = session \/ buffer[i].phase = "closing"

\* The pause before a reconnect stays below three times the limit.
PauseIsBounded == timeout < 3 * Cap

\* The parts of the inductive invariant beside these properties: only the
\* newest socket can be alive, and what is known of it in each phase.
OnlyNewestLives == \A s \in DOMAIN sockets : s # ws => sockets[s] = "closed"

PhaseIsKnown ==
  /\ life # "stopped" => session > 0
  /\ active <=> life \in {"starting", "up"}
  /\ timer => StateOf(ws) = "closed" /\ life \in {"up", "failed"}
  /\ life = "starting" => StateOf(ws) = "connecting"
  /\ StateOf(ws) = "closing" => life = "closing"
  /\ life = "closing" => StateOf(ws) \in {"closing", "closed"}
  /\ life \in {"closing", "stopped"} => \A i \in DOMAIN buffer : buffer[i].phase = "closing"

IInv ==
  /\ TypeOK
  /\ OnlyNewestLives
  /\ PhaseIsKnown
  /\ BufferIsOfSession
  /\ Ordered(wire \o buffer)
  /\ PauseIsBounded

\* An Io that was started and not stopped gets its connection back.
Reconnects == active ~> ~active \/ StateOf(ws) = "open"

\* stop ends if its socket still lives when it is told to close.
StopEnds == life = "closing" /\ StateOf(ws) # "closed" ~> life = "stopped"
=============================================================================
