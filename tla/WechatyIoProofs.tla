--------------------------- MODULE WechatyIoProofs ---------------------------
(***************************************************************************)
(* Io keeps one connection, sends its events in order and bounds its       *)
(* pauses, for every number of sessions, failures and events.  The         *)
(* inductive invariant is IInv of WechatyIo.                               *)
(***************************************************************************)
EXTENDS MCWechatyIo, FiniteSetTheorems, SequenceTheorems, TLAPS

-----------------------------------------------------------------------------
\* Events and their order.

\* The copies of an event are a sequence of events of this session.
LEMMA EventsAreEvents ==
  ASSUME emitted \in Nat, session \in 1..MaxSessions, life \in Phases,
         NEW copies \in 1..session, emitted' = emitted + 1
  PROVE  /\ Events(copies) \in Seq(Event')
         /\ Len(Events(copies)) = copies
         /\ \A i \in 1..copies :
              Events(copies)[i] = [n |-> emitted + 1, session |-> session, phase |-> life]
<1> DEFINE e == [n |-> emitted + 1, session |-> session, phase |-> life]
<1>1. e \in Event'
  <2>1. emitted + 1 \in 1..emitted'
    OBVIOUS
  <2> QED BY <2>1 DEF Event
<1>2. copies \in Nat
  BY DEF TypeOK
<1>3. Events(copies) = [i \in 1..copies |-> e]
  BY DEF Events
<1> HIDE DEF e
<1>4. [i \in 1..copies |-> e] \in Seq(Event') /\ Len([i \in 1..copies |-> e]) = copies
  BY <1>1, <1>2
<1> QED BY <1>3, <1>4 DEF e

\* A later bound on the numbers of events admits the earlier ones.
LEMMA EventsGrow ==
  ASSUME emitted \in Nat, emitted' = emitted + 1
  PROVE  Event \subseteq Event'
BY DEF Event

\* Length, domain and elements of a concatenation.
LEMMA Concatenated ==
  ASSUME NEW S, NEW s \in Seq(S), NEW t \in Seq(S)
  PROVE  /\ s \o t \in Seq(S)
         /\ Len(s) \in Nat /\ Len(t) \in Nat /\ Len(s \o t) = Len(s) + Len(t)
         /\ DOMAIN s = 1..Len(s) /\ DOMAIN (s \o t) = 1..(Len(s) + Len(t))
         /\ \A i \in 1..(Len(s) + Len(t)) :
              (s \o t)[i] = IF i <= Len(s) THEN s[i] ELSE t[i - Len(s)]
<1>1. s \o t \in Seq(S) /\ Len(s) \in Nat /\ Len(t) \in Nat /\ DOMAIN s = 1..Len(s)
  BY ConcatProperties, LenProperties
<1>2. Len(s \o t) = Len(s) + Len(t)
  BY ConcatProperties
<1>3. DOMAIN (s \o t) = 1..Len(s \o t)
  BY <1>1, LenProperties
<1>4. \A i \in 1..(Len(s) + Len(t)) :
        (s \o t)[i] = IF i <= Len(s) THEN s[i] ELSE t[i - Len(s)]
  BY ConcatProperties
<1> QED BY <1>1, <1>2, <1>3, <1>4

\* What is appended is newer than all that was sent.
LEMMA OrderedAppend ==
  ASSUME emitted \in Nat, session \in 1..MaxSessions, life \in Phases,
         NEW copies \in 1..session, emitted' = emitted + 1,
         NEW queue \in Seq(Event), Ordered(queue)
  PROVE  Ordered(queue \o Events(copies))
<1> DEFINE more == Events(copies)
<1>1. more \in Seq(Event') /\ Len(more) = copies
      /\ \A i \in 1..copies : more[i].n = emitted + 1 /\ more[i].session = session
  BY EventsAreEvents
<1>2. queue \in Seq(Event')
  BY EventsGrow, SeqMonotonic
<1> HIDE DEF more
<1> DEFINE longer == queue \o more
<1>3. /\ Len(longer) = Len(queue) + copies /\ DOMAIN longer = 1..(Len(queue) + copies)
      /\ \A i \in 1..(Len(queue) + copies) :
           longer[i] = IF i <= Len(queue) THEN queue[i] ELSE more[i - Len(queue)]
  BY <1>1, <1>2, Concatenated
<1>4. Len(queue) \in Nat /\ copies \in Nat /\ DOMAIN queue = 1..Len(queue)
  BY LenProperties
<1>5. \A i \in 1..Len(queue) : queue[i].n \in 1..emitted
  <2> SUFFICES ASSUME NEW i \in 1..Len(queue) PROVE queue[i].n \in 1..emitted
    OBVIOUS
  <2>1. queue[i] \in Event
    BY ElementOfSeq
  <2> QED BY <2>1 DEF Event
<1> HIDE DEF longer
<1> SUFFICES ASSUME NEW i \in DOMAIN longer, NEW j \in DOMAIN longer, i < j
             PROVE  \/ longer[i].n < longer[j].n
                    \/ longer[i].n = longer[j].n /\ longer[j].session > 1
  BY DEF Ordered, longer, more
<1>6. CASE j <= Len(queue)
  BY <1>3, <1>4, <1>6 DEF Ordered
<1>7. CASE i <= Len(queue) /\ ~(j <= Len(queue))
  <2>1. longer[i] = queue[i] /\ queue[i].n <= emitted /\ queue[i].n \in Nat
    BY <1>3, <1>4, <1>5, <1>7
  <2>2. j - Len(queue) \in 1..copies /\ longer[j] = more[j - Len(queue)]
    BY <1>3, <1>4, <1>7
  <2> QED BY <1>1, <2>1, <2>2
<1>8. CASE ~(i <= Len(queue)) /\ ~(j <= Len(queue))
  <2>1. /\ i - Len(queue) \in 1..copies /\ longer[i] = more[i - Len(queue)]
        /\ j - Len(queue) \in 1..copies /\ longer[j] = more[j - Len(queue)]
    BY <1>3, <1>4, <1>8
  <2>2. copies > 1
    BY <1>3, <1>4, <1>8
  <2> QED BY <1>1, <2>1, <2>2
<1> QED BY <1>6, <1>7, <1>8, <1>3, <1>4

\* A beginning of an ordered sequence is ordered.
LEMMA OrderedPrefix ==
  ASSUME NEW S, NEW s \in Seq(S), NEW t \in Seq(S), Ordered(s \o t)
  PROVE  Ordered(s)
<1>1. /\ DOMAIN s = 1..Len(s) /\ DOMAIN (s \o t) = 1..(Len(s) + Len(t))
      /\ Len(s) \in Nat /\ Len(t) \in Nat
      /\ \A i \in 1..Len(s) : (s \o t)[i] = s[i]
  BY Concatenated
<1> QED BY <1>1 DEF Ordered

\* send takes the queue of all events on by one event, wherever its part is.
LEMMA SendStep ==
  ASSUME TypeOK, session > 0, NEW copies \in {1, session}, Send(copies)
  PROVE  /\ emitted' = emitted + 1
         /\ buffer' \in Seq(Event') /\ wire' \in Seq(Event')
         /\ StateOf(ws)' = "open" => buffer' = <<>>
         /\ wire' \o buffer' = (wire \o buffer) \o Events(copies)
         /\ \A i \in DOMAIN buffer' :
              \/ i \in DOMAIN buffer /\ buffer'[i] = buffer[i]
              \/ buffer'[i].session = session /\ (life = "closing" => buffer'[i].phase = "closing")
<1> DEFINE queue == buffer \o Events(copies)
<1>1. /\ emitted \in Nat /\ emitted' = emitted + 1 /\ session \in 1..MaxSessions
      /\ copies \in 1..session /\ life \in Phases
  BY BoundsAreNaturals DEF TypeOK, Send
<1>2. Events(copies) \in Seq(Event') /\ Len(Events(copies)) = copies
      /\ \A i \in 1..copies :
           Events(copies)[i] = [n |-> emitted + 1, session |-> session, phase |-> life]
  BY <1>1, EventsAreEvents
<1>3. buffer \in Seq(Event') /\ wire \in Seq(Event')
  BY <1>1, EventsGrow, SeqMonotonic DEF TypeOK
<1>4. /\ queue \in Seq(Event')
      /\ Len(queue) = Len(buffer) + copies
      /\ \A i \in 1..Len(buffer) + copies :
           queue[i] = IF i <= Len(buffer) THEN buffer[i]
                                          ELSE Events(copies)[i - Len(buffer)]
  BY <1>2, <1>3, Concatenated
<1>5. wire \o queue = (wire \o buffer) \o Events(copies)
  <2>1. \A s, t, u \in Seq(Event') : (s \o t) \o u = s \o (t \o u)
    BY ConcatAssociative
  <2> QED BY <1>2, <1>3, <2>1
<1>6. wire \o queue \in Seq(Event')
  BY <1>3, <1>4, ConcatProperties
<1>7. \A i \in DOMAIN queue :
        \/ i \in DOMAIN buffer /\ queue[i] = buffer[i]
        \/ queue[i].session = session /\ (life = "closing" => queue[i].phase = "closing")
  <2> SUFFICES ASSUME NEW i \in DOMAIN queue
               PROVE  \/ i \in DOMAIN buffer /\ queue[i] = buffer[i]
                      \/ queue[i].session = session /\ (life = "closing" => queue[i].phase = "closing")
    OBVIOUS
  <2>1. /\ DOMAIN queue = 1..Len(queue) /\ DOMAIN buffer = 1..Len(buffer)
        /\ Len(buffer) \in Nat /\ copies \in Nat
    BY <1>1, <1>3, <1>4, LenProperties
  <2>2. CASE i <= Len(buffer)
    BY <1>4, <2>1, <2>2
  <2>3. CASE ~(i <= Len(buffer))
    <3> DEFINE k == i - Len(buffer)
    <3>1. k \in 1..copies /\ queue[i] = Events(copies)[k]
      BY <1>4, <2>1, <2>3
    <3>2. Events(copies)[k] = [n |-> emitted + 1, session |-> session, phase |-> life]
      BY <1>2, <3>1
    <3> HIDE DEF k, queue
    <3>3. queue[i].session = session
      BY <3>1, <3>2
    <3>4. queue[i].phase = life
      BY <3>1, <3>2
    <3> QED BY <3>3, <3>4
  <2> QED BY <2>2, <2>3
<1>8. CASE StateOf(ws)' = "open"
  <2>1. wire' = wire \o queue /\ buffer' = <<>>
    BY <1>8 DEF Send
  <2>2. wire' \o buffer' = wire \o queue
    BY <1>6, <2>1, ConcatEmptySeq
  <2>3. DOMAIN buffer' = {}
    BY <2>1
  <2> HIDE DEF queue
  <2> QED BY <1>1, <1>5, <1>6, <2>1, <2>2, <2>3
<1>9. CASE StateOf(ws)' # "open"
  <2>1. wire' = wire /\ buffer' = queue
    BY <1>9 DEF Send
  <2> HIDE DEF queue
  <2> QED BY <1>1, <1>3, <1>4, <1>5, <1>7, <1>9, <2>1
<1> QED BY <1>8, <1>9
-----------------------------------------------------------------------------
\* Sockets.

States == Live \cup {"closed"}

\* Only the newest socket can be anything but closed, and only of an Io that
\* is not stopped.
LEMMA LiveIsNewest ==
  ASSUME TypeOK, OnlyNewestLives, NEW s \in DOMAIN sockets, sockets[s] # "closed"
  PROVE  s = ws /\ ws # None /\ StateOf(ws) = sockets[s] /\ life # "stopped"
<1>1. s = ws
  BY DEF OnlyNewestLives
<1>2. s \in 1..Len(sockets) /\ Len(sockets) \in Nat
  BY LenProperties DEF TypeOK
<1> QED BY <1>1, <1>2 DEF StateOf, None, TypeOK

\* A new socket is the newest one.
LEMMA InitWebSocketStep ==
  ASSUME TypeOK, InitWebSocket, OnlyNewestLives, StateOf(ws) = "closed"
  PROVE  /\ sockets' \in Seq(States) /\ ws' \in 1..Len(sockets')
         /\ StateOf(ws)' = "connecting"
         /\ OnlyNewestLives'
<1>1. /\ sockets \in Seq(States) /\ Len(sockets) \in Nat /\ DOMAIN sockets = 1..Len(sockets)
      /\ "connecting" \in States /\ ws \in 0..Len(sockets)
  BY LenProperties DEF TypeOK, States, Live
<1>2. /\ sockets' \in Seq(States) /\ Len(sockets') = Len(sockets) + 1
      /\ DOMAIN sockets' = 1..(Len(sockets) + 1)
      /\ \A s \in 1..Len(sockets) : sockets'[s] = sockets[s]
      /\ sockets'[Len(sockets) + 1] = "connecting"
  BY <1>1 DEF InitWebSocket
<1>3. ws' = Len(sockets) + 1
  BY <1>2 DEF InitWebSocket
<1>4. \A s \in 1..Len(sockets) : sockets[s] = "closed"
  BY <1>1 DEF OnlyNewestLives, StateOf, None
<1>5. OnlyNewestLives'
  BY <1>1, <1>2, <1>3, <1>4 DEF OnlyNewestLives
<1>6. StateOf(ws)' = "connecting"
  BY <1>1, <1>2, <1>3 DEF StateOf, None
<1> QED BY <1>1, <1>2, <1>3, <1>5, <1>6

\* A change of a socket that lives is a change of the newest.
LEMMA SocketStep ==
  ASSUME TypeOK, OnlyNewestLives, NEW s \in DOMAIN sockets, sockets[s] # "closed",
         NEW state \in States, sockets' = [sockets EXCEPT ![s] = state]
  PROVE  /\ sockets' \in Seq(States) /\ Len(sockets') = Len(sockets)
         /\ s = ws /\ s # None /\ sockets'[s] = state
         /\ \A t \in DOMAIN sockets' : t # s => sockets'[t] = "closed"
<1>1. s = ws /\ ws # None
  BY LiveIsNewest
<1>2. /\ sockets \in Seq(States) /\ DOMAIN sockets = 1..Len(sockets)
  BY LenProperties DEF TypeOK, States
<1>3. /\ sockets' \in Seq(States) /\ Len(sockets') = Len(sockets)
      /\ \A t \in 1..Len(sockets) : sockets'[t] = IF t = s THEN state ELSE sockets[t]
  BY <1>2, ExceptSeq
<1>4. DOMAIN sockets' = DOMAIN sockets
  BY <1>2, <1>3, LenProperties
<1> QED BY <1>1, <1>2, <1>3, <1>4 DEF OnlyNewestLives

\* At most one socket lives.
LEMMA OneSocketLives ==
  ASSUME TypeOK, OnlyNewestLives
  PROVE  OneSocket
<1> DEFINE live == {s \in DOMAIN sockets : sockets[s] \in Live}
<1>1. live \in SUBSET {ws}
  BY DEF OnlyNewestLives, Live
<1>2. IsFiniteSet({ws}) /\ Cardinality({ws}) = 1
  BY FS_Singleton
<1>3. Cardinality(live) <= 1
  BY <1>1, <1>2, FS_Subset
<1> QED BY <1>3 DEF OneSocket

-----------------------------------------------------------------------------
\* Pauses.

\* A close can only set the timer of an active Io whose socket is not open.
LEMMA ClosedStep ==
  ASSUME TypeOK, PauseIsBounded, Closed
  PROVE  /\ timer' \in BOOLEAN /\ timeout' \in Nat /\ PauseIsBounded'
         /\ timer' => timer \/ active
<1>1. Cap \in Nat \ {0} /\ timeout \in Nat /\ timer \in BOOLEAN /\ timeout < 3 * Cap
  BY CapIsPositive DEF TypeOK, PauseIsBounded
<1>2. NextTimeout \in Nat /\ NextTimeout < 3 * Cap
  BY <1>1 DEF NextTimeout
<1> QED BY <1>1, <1>2 DEF Closed, PauseIsBounded

-----------------------------------------------------------------------------
\* The invariant.

Queue == <<buffer, emitted, wire>>

\* A step that neither sends nor starts nor stops leaves the events alone.
LEMMA QueueUnchanged ==
  ASSUME IInv, UNCHANGED <<Queue, session>>
  PROVE  /\ Ordered(wire \o buffer)'
         /\ buffer' \in Seq(Event') /\ wire' \in Seq(Event') /\ emitted' \in Nat
         /\ \A i \in DOMAIN buffer' :
              buffer'[i].session = session' \/ buffer'[i].phase = "closing"
<1>1. buffer' = buffer /\ emitted' = emitted /\ wire' = wire /\ session' = session
  BY DEF Queue
<1>2. Event' = Event
  BY <1>1 DEF Event
<1>3. Ordered(wire \o buffer)'
  BY <1>1 DEF IInv, Ordered
<1>4. buffer' \in Seq(Event') /\ wire' \in Seq(Event') /\ emitted' \in Nat
  BY <1>1, <1>2 DEF IInv, TypeOK
<1>5. \A i \in DOMAIN buffer' :
        buffer'[i].session = session' \/ buffer'[i].phase = "closing"
  BY <1>1 DEF IInv, BufferIsOfSession
<1> QED BY <1>3, <1>4, <1>5

\* The invariant holds before the first start.
LEMMA InitIInv ==
  ASSUME Init
  PROVE  IInv
<1> USE CapIsPositive, BoundsAreNaturals DEF Init
<1>1. TypeOK
  <2>1. sockets \in Seq(Live \cup {"closed"}) /\ Len(sockets) = 0
    BY EmptySeq
  <2>2. buffer \in Seq(Event) /\ wire \in Seq(Event)
    BY EmptySeq
  <2>3. ws \in 0..Len(sockets) /\ (ws = None <=> life = "stopped") /\ life \in Phases
    BY <2>1 DEF None, Phases
  <2>4. session \in 0..MaxSessions /\ faults \in 0..MaxFaults
    OBVIOUS
  <2>5. active \in BOOLEAN /\ timer \in BOOLEAN /\ timeout \in Nat /\ emitted \in Nat
    OBVIOUS
  <2> HIDE DEF Init
  <2> QED BY <2>1, <2>2, <2>3, <2>4, <2>5 DEF TypeOK
<1>2. OnlyNewestLives /\ PhaseIsKnown
  BY DEF OnlyNewestLives, PhaseIsKnown, StateOf
<1>3. BufferIsOfSession /\ PauseIsBounded
  BY DEF BufferIsOfSession, PauseIsBounded
<1>4. Ordered(wire \o buffer)
  BY DEF Ordered
<1> QED BY <1>1, <1>2, <1>3, <1>4 DEF IInv

\* A start keeps it: the socket before is closed.
LEMMA StartStep ==
  ASSUME IInv, Start
  PROVE  IInv'
<1> USE DEF IInv
<1>1. ws = None /\ StateOf(ws) = "closed" /\ timer = FALSE
  BY DEF Start, TypeOK, StateOf, PhaseIsKnown
<1>2. /\ sockets' \in Seq(States) /\ ws' \in 1..Len(sockets')
      /\ StateOf(ws)' = "connecting" /\ OnlyNewestLives'
  BY <1>1, InitWebSocketStep DEF Start
<1>3. session' = session + 1 /\ session' \in 0..MaxSessions /\ UNCHANGED Queue
  BY BoundsAreNaturals DEF Start, TypeOK, Queue
<1>4. TypeOK'
  BY <1>2, <1>3 DEF Start, TypeOK, States, Phases, None, Event, Queue
<1>5. PhaseIsKnown'
  BY <1>1, <1>2, <1>3 DEF Start, PhaseIsKnown, TypeOK
<1>6. BufferIsOfSession'
  BY <1>2, <1>3 DEF Start, BufferIsOfSession, PhaseIsKnown, Queue
<1>7. Ordered(wire \o buffer)' /\ PauseIsBounded'
  BY DEF Start, Ordered, PauseIsBounded
<1> QED BY <1>2, <1>4, <1>5, <1>6, <1>7

\* The part of the invariant that a step that sends preserves.
LEMMA SendHolds ==
  ASSUME IInv, session > 0, NEW copies \in {1, session}, Send(copies), session' = session
  PROVE  /\ Ordered(wire \o buffer)'
         /\ buffer' \in Seq(Event') /\ wire' \in Seq(Event') /\ emitted' \in Nat
         /\ BufferIsOfSession'
<1>1. /\ TypeOK /\ Ordered(wire \o buffer) /\ emitted \in Nat /\ life \in Phases
      /\ session \in 1..MaxSessions /\ copies \in 1..session
      /\ buffer \in Seq(Event) /\ wire \in Seq(Event)
  BY BoundsAreNaturals DEF IInv, TypeOK
<1>2. /\ emitted' = emitted + 1
      /\ buffer' \in Seq(Event') /\ wire' \in Seq(Event')
      /\ StateOf(ws)' = "open" => buffer' = <<>>
      /\ wire' \o buffer' = (wire \o buffer) \o Events(copies)
      /\ \A i \in DOMAIN buffer' :
           \/ i \in DOMAIN buffer /\ buffer'[i] = buffer[i]
           \/ buffer'[i].session = session /\ (life = "closing" => buffer'[i].phase = "closing")
  BY <1>1, SendStep
<1>3. wire \o buffer \in Seq(Event)
  BY <1>1, Concatenated
<1>4. Ordered((wire \o buffer) \o Events(copies))
  BY <1>1, <1>2, <1>3, OrderedAppend
<1>5. Ordered(wire' \o buffer')
  BY <1>2, <1>4
<1>6. Ordered(wire \o buffer)'
  BY <1>5 DEF Ordered
<1>7. BufferIsOfSession'
  BY <1>2 DEF IInv, BufferIsOfSession
<1> QED BY <1>1, <1>2, <1>6, <1>7

\* A handshake that succeeds keeps the invariant: the buffer goes to the wire.
LEMMA SocketOpensStep ==
  ASSUME IInv, NEW s \in DOMAIN sockets, SocketOpens(s)
  PROVE  IInv'
<1>1. TypeOK /\ OnlyNewestLives /\ PhaseIsKnown /\ PauseIsBounded
  BY DEF IInv
<1>2. sockets[s] = "connecting" /\ sockets' = [sockets EXCEPT ![s] = "open"]
      /\ ws' = ws /\ session' = session /\ timeout' = 0
  BY DEF SocketOpens
<1>3. /\ sockets' \in Seq(States) /\ Len(sockets') = Len(sockets)
      /\ s = ws /\ s # None /\ sockets'[s] = "open"
      /\ \A t \in DOMAIN sockets' : t # s => sockets'[t] = "closed"
  BY <1>1, <1>2, SocketStep DEF States, Live
<1>4. StateOf(ws) = "connecting" /\ StateOf(ws)' = "open" /\ life # "stopped"
  BY <1>1, <1>2, <1>3, LiveIsNewest DEF StateOf
<1>5. session > 0
  BY <1>1, <1>4 DEF PhaseIsKnown
<1>6. /\ Ordered(wire \o buffer)' /\ BufferIsOfSession'
      /\ buffer' \in Seq(Event') /\ wire' \in Seq(Event') /\ emitted' \in Nat
  BY <1>2, <1>5, SendHolds DEF SocketOpens
<1>7. life' \in {"up", "failed"} /\ (life' # life => life = "starting" /\ life' = "up")
  BY <1>1, <1>4 DEF SocketOpens, TypeOK, Phases, PhaseIsKnown
<1>8. TypeOK'
  BY <1>1, <1>2, <1>3, <1>6, <1>7 DEF SocketOpens, TypeOK, States, Phases
<1>9. OnlyNewestLives'
  BY <1>2, <1>3 DEF OnlyNewestLives
<1>10. PhaseIsKnown'
  BY <1>1, <1>2, <1>4, <1>7 DEF SocketOpens, PhaseIsKnown, TypeOK
<1>11. PauseIsBounded'
  BY <1>2, CapIsPositive DEF PauseIsBounded
<1> QED BY <1>6, <1>8, <1>9, <1>10, <1>11 DEF IInv

\* A handshake that fails keeps it: the timer is set or the start has failed.
LEMMA SocketFailsStep ==
  ASSUME IInv, NEW s \in DOMAIN sockets, SocketFails(s)
  PROVE  IInv'
<1>1. TypeOK /\ OnlyNewestLives /\ PhaseIsKnown /\ PauseIsBounded
  BY DEF IInv
<1>2. sockets[s] = "connecting" /\ sockets' = [sockets EXCEPT ![s] = "closed"]
      /\ ws' = ws /\ UNCHANGED <<Queue, session>> /\ Closed
  BY DEF SocketFails, Queue
<1>3. /\ sockets' \in Seq(States) /\ Len(sockets') = Len(sockets)
      /\ s = ws /\ s # None /\ sockets'[s] = "closed"
      /\ \A t \in DOMAIN sockets' : t # s => sockets'[t] = "closed"
  BY <1>1, <1>2, SocketStep DEF States, Live
<1>4. StateOf(ws) = "connecting" /\ StateOf(ws)' = "closed" /\ life # "stopped"
  BY <1>1, <1>2, <1>3, LiveIsNewest DEF StateOf
<1>5. /\ Ordered(wire \o buffer)'
      /\ buffer' \in Seq(Event') /\ wire' \in Seq(Event') /\ emitted' \in Nat
      /\ \A i \in DOMAIN buffer' :
           buffer'[i].session = session' \/ buffer'[i].phase = "closing"
  BY <1>2, QueueUnchanged
<1>6. /\ timer' \in BOOLEAN /\ timeout' \in Nat /\ PauseIsBounded'
      /\ timer' => timer \/ active
  BY <1>1, <1>2, ClosedStep
<1>7. life \in {"starting", "up", "failed"}
  BY <1>1, <1>4 DEF TypeOK, Phases, PhaseIsKnown
<1>8. IF life = "starting" THEN life' = "failed" /\ active' = FALSE
                           ELSE life' = life /\ active' = active
  BY DEF SocketFails
<1>9. faults' \in 0..MaxFaults
  BY <1>1, BoundsAreNaturals DEF SocketFails, Fault, TypeOK
<1>10. TypeOK'
  BY <1>1, <1>2, <1>3, <1>5, <1>6, <1>7, <1>8, <1>9 DEF TypeOK, States, Phases
<1>11. OnlyNewestLives'
  BY <1>2, <1>3 DEF OnlyNewestLives
<1>12. PhaseIsKnown'
  BY <1>1, <1>2, <1>4, <1>6, <1>7, <1>8 DEF PhaseIsKnown, TypeOK
<1>13. BufferIsOfSession'
  BY <1>4, <1>5 DEF BufferIsOfSession
<1> QED BY <1>5, <1>6, <1>10, <1>11, <1>12, <1>13 DEF IInv

\* A connection that is lost keeps it.
LEMMA SocketDropsStep ==
  ASSUME IInv, NEW s \in DOMAIN sockets, SocketDrops(s)
  PROVE  IInv'
<1>1. TypeOK /\ OnlyNewestLives /\ PhaseIsKnown /\ PauseIsBounded
  BY DEF IInv
<1>2. sockets[s] = "open" /\ sockets' = [sockets EXCEPT ![s] = "closed"]
      /\ UNCHANGED <<life, active, ws, Queue, session>> /\ Closed
  BY DEF SocketDrops, Queue
<1>3. /\ sockets' \in Seq(States) /\ Len(sockets') = Len(sockets)
      /\ s = ws /\ s # None /\ sockets'[s] = "closed"
      /\ \A t \in DOMAIN sockets' : t # s => sockets'[t] = "closed"
  BY <1>1, <1>2, SocketStep DEF States, Live
<1>4. StateOf(ws) = "open" /\ StateOf(ws)' = "closed" /\ life # "stopped"
  BY <1>1, <1>2, <1>3, LiveIsNewest DEF StateOf
<1>5. /\ Ordered(wire \o buffer)'
      /\ buffer' \in Seq(Event') /\ wire' \in Seq(Event') /\ emitted' \in Nat
      /\ \A i \in DOMAIN buffer' :
           buffer'[i].session = session' \/ buffer'[i].phase = "closing"
  BY <1>2, QueueUnchanged
<1>6. /\ timer' \in BOOLEAN /\ timeout' \in Nat /\ PauseIsBounded'
      /\ timer' => timer \/ active
  BY <1>1, <1>2, ClosedStep
<1>7. life \in {"up", "failed"}
  BY <1>1, <1>4 DEF TypeOK, Phases, PhaseIsKnown
<1>8. faults' \in 0..MaxFaults
  BY <1>1, BoundsAreNaturals DEF SocketDrops, Fault, TypeOK
<1>9. TypeOK'
  BY <1>1, <1>2, <1>3, <1>5, <1>6, <1>8 DEF TypeOK, States
<1>10. OnlyNewestLives'
  BY <1>2, <1>3 DEF OnlyNewestLives
<1>11. PhaseIsKnown'
  BY <1>1, <1>2, <1>4, <1>6, <1>7 DEF PhaseIsKnown
<1>12. BufferIsOfSession'
  BY <1>4, <1>5 DEF BufferIsOfSession
<1> QED BY <1>5, <1>6, <1>9, <1>10, <1>11, <1>12 DEF IInv

\* A socket that was told to close keeps it, and may end a stop.
LEMMA SocketClosesStep ==
  ASSUME IInv, NEW s \in DOMAIN sockets, SocketCloses(s)
  PROVE  IInv'
<1>1. TypeOK /\ OnlyNewestLives /\ PhaseIsKnown /\ PauseIsBounded
  BY DEF IInv
<1>2. sockets[s] = "closing" /\ sockets' = [sockets EXCEPT ![s] = "closed"]
      /\ UNCHANGED <<active, faults, Queue, session>> /\ Closed
  BY DEF SocketCloses, Queue
<1>3. /\ sockets' \in Seq(States) /\ Len(sockets') = Len(sockets)
      /\ s = ws /\ s # None /\ sockets'[s] = "closed"
      /\ \A t \in DOMAIN sockets' : t # s => sockets'[t] = "closed"
  BY <1>1, <1>2, SocketStep DEF States
<1>4. life = "closing" /\ active = FALSE
  BY <1>1, <1>2, <1>3, LiveIsNewest DEF PhaseIsKnown, TypeOK
<1>5. life' = "stopped" /\ ws' = None
  BY <1>3, <1>4 DEF SocketCloses
<1>6. StateOf(ws)' = "closed"
  BY <1>5 DEF StateOf
<1>7. /\ Ordered(wire \o buffer)'
      /\ buffer' \in Seq(Event') /\ wire' \in Seq(Event') /\ emitted' \in Nat
      /\ \A i \in DOMAIN buffer' :
           buffer'[i].session = session' \/ buffer'[i].phase = "closing"
  BY <1>2, QueueUnchanged
<1>8. /\ timer' = FALSE /\ timeout' \in Nat /\ PauseIsBounded'
  BY <1>1, <1>2, <1>4, ClosedStep DEF PhaseIsKnown, TypeOK
<1>9. TypeOK'
  <2>1. ws' \in 0..Len(sockets')
    BY <1>3, <1>5, LenProperties DEF None
  <2> QED BY <1>1, <1>2, <1>3, <1>5, <1>7, <1>8, <2>1 DEF TypeOK, States, Phases
<1>10. OnlyNewestLives'
  BY <1>3 DEF OnlyNewestLives
<1>11. PhaseIsKnown'
  BY <1>1, <1>2, <1>4, <1>5, <1>6, <1>8 DEF PhaseIsKnown, Queue
<1>12. BufferIsOfSession'
  BY <1>6, <1>7 DEF BufferIsOfSession
<1> QED BY <1>7, <1>8, <1>9, <1>10, <1>11, <1>12 DEF IInv

\* A reconnect keeps it: the timer is only set while no socket lives.
LEMMA TimerFiresStep ==
  ASSUME IInv, TimerFires
  PROVE  IInv'
<1>1. TypeOK /\ OnlyNewestLives /\ PhaseIsKnown /\ PauseIsBounded
  BY DEF IInv
<1>2. timer /\ timer' = FALSE /\ InitWebSocket
      /\ UNCHANGED <<life, active, timeout, faults, Queue, session>>
  BY DEF TimerFires, Queue
<1>3. StateOf(ws) = "closed" /\ life \in {"up", "failed"}
  BY <1>1, <1>2 DEF PhaseIsKnown
<1>4. /\ sockets' \in Seq(States) /\ ws' \in 1..Len(sockets')
      /\ StateOf(ws)' = "connecting" /\ OnlyNewestLives'
  BY <1>1, <1>2, <1>3, InitWebSocketStep
<1>5. /\ Ordered(wire \o buffer)'
      /\ buffer' \in Seq(Event') /\ wire' \in Seq(Event') /\ emitted' \in Nat
      /\ \A i \in DOMAIN buffer' :
           buffer'[i].session = session' \/ buffer'[i].phase = "closing"
  BY <1>2, QueueUnchanged
<1>6. TypeOK'
  <2>1. ws' \in 0..Len(sockets') /\ ws' # None
    BY <1>4 DEF None
  <2> QED BY <1>1, <1>2, <1>3, <1>4, <1>5, <2>1 DEF TypeOK, States
<1>7. PhaseIsKnown'
  BY <1>1, <1>2, <1>3, <1>4 DEF PhaseIsKnown
<1>8. BufferIsOfSession' /\ PauseIsBounded'
  BY <1>1, <1>2, <1>4, <1>5 DEF BufferIsOfSession, PauseIsBounded
<1> QED BY <1>4, <1>5, <1>6, <1>7, <1>8 DEF IInv

\* An event of the bot keeps it.
LEMMA EmitStep ==
  ASSUME IInv, NEW copies \in {1, session}, Emit(copies)
  PROVE  IInv'
<1>1. TypeOK /\ OnlyNewestLives /\ PhaseIsKnown /\ PauseIsBounded
  BY DEF IInv
<1>2. ws # None /\ Send(copies)
      /\ UNCHANGED <<sockets, ws, life, active, session, timer, timeout, faults>>
  BY DEF Emit
<1>3. life # "stopped" /\ session > 0
  BY <1>1, <1>2 DEF TypeOK, PhaseIsKnown
<1>4. /\ Ordered(wire \o buffer)' /\ BufferIsOfSession'
      /\ buffer' \in Seq(Event') /\ wire' \in Seq(Event') /\ emitted' \in Nat
  BY <1>2, <1>3, SendHolds
<1>5. life = "closing" => \A i \in DOMAIN buffer' : buffer'[i].phase = "closing"
  BY <1>1, <1>2, <1>3, SendStep DEF PhaseIsKnown
<1>6. StateOf(ws)' = StateOf(ws)
  BY <1>2 DEF StateOf
<1>7. TypeOK' /\ OnlyNewestLives' /\ PauseIsBounded'
  BY <1>1, <1>2, <1>4 DEF TypeOK, OnlyNewestLives, PauseIsBounded
<1>8. PhaseIsKnown'
  BY <1>1, <1>2, <1>3, <1>5, <1>6 DEF PhaseIsKnown
<1> QED BY <1>4, <1>7, <1>8 DEF IInv

\* A stop keeps it, as it empties the buffer and clears the timer.
LEMMA StopStep ==
  ASSUME IInv, Stop
  PROVE  IInv'
<1>1. TypeOK /\ OnlyNewestLives /\ PhaseIsKnown /\ PauseIsBounded
  BY DEF IInv
<1>2. /\ life \in {"up", "failed"} /\ life' = "closing"
      /\ active' = FALSE /\ timer' = FALSE /\ buffer' = <<>> /\ sockets' = Told
      /\ UNCHANGED <<session, ws, timeout, emitted, wire, faults>>
  BY DEF Stop
<1>3. ws \in 1..Len(sockets) /\ DOMAIN sockets = 1..Len(sockets)
      /\ sockets \in Seq(States) /\ ws # None
  BY <1>1, <1>2, LenProperties DEF TypeOK, None, States
<1>4. /\ sockets' \in Seq(States) /\ Len(sockets') = Len(sockets)
      /\ sockets'[ws] \in {"closing", "closed"} /\ DOMAIN sockets' = 1..Len(sockets)
      /\ \A t \in 1..Len(sockets) : t # ws => sockets'[t] = sockets[t]
  <2> DEFINE state == IF sockets[ws] = "closed" THEN "closed" ELSE "closing"
  <2>1. state \in States /\ state \in {"closing", "closed"}
    BY DEF States, Live
  <2>2. sockets' = [sockets EXCEPT ![ws] = state]
    BY <1>2, <1>3 DEF Told
  <2> HIDE DEF state
  <2>3. /\ sockets' \in Seq(States) /\ Len(sockets') = Len(sockets)
        /\ \A t \in 1..Len(sockets) : sockets'[t] = IF t = ws THEN state ELSE sockets[t]
    BY <1>3, <2>1, <2>2, ExceptSeq
  <2>4. DOMAIN sockets' = 1..Len(sockets)
    BY <1>3, <2>2
  <2> QED BY <1>3, <2>1, <2>3, <2>4
<1>5. StateOf(ws)' \in {"closing", "closed"}
  BY <1>2, <1>3, <1>4 DEF StateOf
<1>6. Event' = Event /\ DOMAIN buffer' = {}
  BY <1>2 DEF Event
<1>7. TypeOK'
  <2>1. buffer' \in Seq(Event')
    BY <1>2, EmptySeq
  <2> QED BY <1>1, <1>2, <1>3, <1>4, <1>6, <2>1 DEF TypeOK, States, Phases
<1>8. OnlyNewestLives'
  BY <1>1, <1>2, <1>3, <1>4 DEF OnlyNewestLives
<1>9. PhaseIsKnown'
  BY <1>1, <1>2, <1>5, <1>6 DEF PhaseIsKnown
<1>10. BufferIsOfSession' /\ PauseIsBounded'
  BY <1>1, <1>2, <1>6 DEF BufferIsOfSession, PauseIsBounded
<1>11. Ordered(wire' \o buffer')
  <2>1. wire \in Seq(Event) /\ buffer \in Seq(Event) /\ Ordered(wire \o buffer)
    BY DEF IInv, TypeOK
  <2>2. Ordered(wire)
    BY <2>1, OrderedPrefix
  <2>3. wire' \o buffer' = wire
    BY <1>2, <2>1, ConcatEmptySeq
  <2> QED BY <2>2, <2>3
<1>12. Ordered(wire \o buffer)'
  BY <1>11 DEF Ordered
<1> QED BY <1>7, <1>8, <1>9, <1>10, <1>12 DEF IInv

\* Every step keeps the invariant.
LEMMA IInvStep ==
  ASSUME IInv, [Next]_vars
  PROVE  IInv'
<1>1. CASE Start
  BY <1>1, StartStep
<1>2. CASE Stop
  BY <1>2, StopStep
<1>3. CASE TimerFires
  BY <1>3, TimerFiresStep
<1>4. ASSUME NEW s \in DOMAIN sockets, Socket(s) \/ SocketDrops(s)
      PROVE  IInv'
  BY <1>4, SocketOpensStep, SocketFailsStep, SocketClosesStep, SocketDropsStep DEF Socket
<1>5. ASSUME NEW copies \in {1, session}, Emit(copies)
      PROVE  IInv'
  BY <1>5, EmitStep
<1>6. CASE UNCHANGED vars
  <2>1. UNCHANGED <<Queue, session>>
    BY <1>6 DEF vars, Queue
  <2>2. TypeOK'
    BY <1>6, <2>1, QueueUnchanged DEF vars, IInv, TypeOK
  <2>3. OnlyNewestLives' /\ PhaseIsKnown' /\ PauseIsBounded'
    BY <1>6 DEF vars, IInv, OnlyNewestLives, PhaseIsKnown, PauseIsBounded, StateOf
  <2>4. BufferIsOfSession'
    BY <1>6 DEF vars, IInv, BufferIsOfSession, StateOf
  <2> QED BY <2>1, <2>2, <2>3, <2>4, QueueUnchanged DEF IInv
<1> QED BY <1>1, <1>2, <1>3, <1>4, <1>5, <1>6 DEF Next

-----------------------------------------------------------------------------
\* The theorems.

\* IInv is reached by every start and kept by every step of Io.
THEOREM InductiveInvariant == Spec => []IInv
<1>1. Init => IInv
  BY InitIInv
<1>2. IInv /\ [Next]_vars => IInv'
  BY IInvStep
<1> QED BY <1>1, <1>2, PTL DEF Spec

\* Every variable keeps its type, and only an Io that is stopped has no socket.
THEOREM TypeCorrect == Spec => []TypeOK
<1>1. IInv => TypeOK
  BY DEF IInv
<1> QED BY <1>1, InductiveInvariant, PTL

\* There is one connection to the server at most.
THEOREM OneSocketHolds == Spec => []OneSocket
<1>1. IInv => OneSocket
  BY OneSocketLives DEF IInv
<1> QED BY <1>1, InductiveInvariant, PTL

\* Events reach the server in the order in which they were sent.
THEOREM WireIsInOrderHolds == Spec => []WireIsInOrder
<1>1. IInv => WireIsInOrder
  BY OrderedPrefix DEF IInv, TypeOK, WireIsInOrder
<1> QED BY <1>1, InductiveInvariant, PTL

\* Events wait only while the socket is down and only for their own session.
THEOREM BufferIsOfSessionHolds == Spec => []BufferIsOfSession
<1>1. IInv => BufferIsOfSession
  BY DEF IInv
<1> QED BY <1>1, InductiveInvariant, PTL

\* The pause before a reconnect stays below three times its limit.
THEOREM PauseIsBoundedHolds == Spec => []PauseIsBounded
<1>1. IInv => PauseIsBounded
  BY DEF IInv
<1> QED BY <1>1, InductiveInvariant, PTL

-----------------------------------------------------------------------------
LifeTyped ==
  /\ caller \in [Callers -> Life!Phases] /\ trouble \in Nat
  /\ service \in {"inactive", "starting", "active", "stopping"}
  /\ stopping \in {"no", "waits", "puppet", "io"} /\ memory \in {"none", "loading", "loaded"}
  /\ inited \in BOOLEAN /\ puppet \in BOOLEAN /\ told \in BOOLEAN /\ coming \in BOOLEAN
  /\ going \in BOOLEAN /\ up \in BOOLEAN /\ ready \in BOOLEAN /\ overlapped \in BOOLEAN

\* The calls inside the service control.
LifeStarting == {"io", "puppet", "onStart"}

\* Without trouble one call starts the service at a time, it awaits its puppet, and a stop
\* takes the puppet down before Io.
LifeOneAtATime ==
  /\ \A c \in Callers : caller[c] \in LifeStarting => service = "starting"
  /\ \A c, d \in Callers : caller[c] \in LifeStarting /\ caller[d] \in LifeStarting => c = d
  /\ coming => puppet /\ \E c \in Callers : caller[c] = "puppet"
  /\ up => puppet /\ service # "inactive"
  /\ going <=> service = "stopping" /\ stopping = "puppet"
  /\ service = "stopping" <=> stopping \in {"puppet", "io"}
  /\ service = "inactive" => stopping = "no"
  /\ stopping = "io" => ~up

\* Unless calls meet in init, one of them loads the memory and resolves the puppet.
LifeOneInit ==
  /\ \A c, d \in Callers : caller[c] \in Life!InInit /\ caller[d] \in Life!InInit => c = d
  /\ memory = "loading" => \E c \in Callers : caller[c] = "memory"
  /\ \A c \in Callers :
       /\ caller[c] = "memory" => memory = "loading"
       /\ caller[c] \in {"mixins", "resolving"} => memory = "loaded"
       /\ caller[c] \in {"control", "joined"} \cup LifeStarting => puppet /\ card = "loaded"
       /\ caller[c] \in {"puppet", "onStart"} => told
  /\ inited => (puppet /\ card = "loaded") \/ \E c \in Callers : caller[c] = "resolving"
  /\ service = "active" => told /\ puppet /\ card = "loaded"

LifeIInv ==
  /\ LifeTyped /\ Life!ReadyIsCurrent
  /\ trouble = 0 => LifeOneAtATime
  /\ trouble = 0 /\ ~overlapped => LifeOneInit

-----------------------------------------------------------------------------
LEMMA LifeInitIInv == Life!Init => LifeIInv
<1> SUFFICES ASSUME Life!Init PROVE LifeIInv
  OBVIOUS
<1>1. LifeTyped
  BY DEF Life!Init, LifeTyped, Life!Phases
<1>2. LifeOneAtATime /\ LifeOneInit
  BY DEF Life!Init, LifeOneAtATime, LifeOneInit, LifeStarting, Life!InInit
<1>3. Life!ReadyIsCurrent
  BY DEF Life!Init, Life!ReadyIsCurrent
<1> QED BY <1>1, <1>2, <1>3 DEF LifeIInv

LEMMA LifeBeginKeeps == ASSUME LifeIInv, NEW c \in Callers, Life!Begin(c) PROVE LifeIInv'
<1>1. LifeTyped'
  BY TroubleCounts DEF Life!Begin, Life!Goes, Life!serviceVars, Life!initVars, Life!puppetVars,
                       Life!switchVars, Life!counters, LifeIInv, LifeTyped, Life!Phases, Life!InInit
<1>2. Life!ReadyIsCurrent'
  BY DEF Life!Begin, Life!Goes, Life!serviceVars, Life!initVars, Life!puppetVars, Life!switchVars,
         Life!counters, LifeIInv, Life!ReadyIsCurrent
<1>3. trouble' = 0 => LifeOneAtATime'
  BY DEF Life!Begin, Life!Goes, Life!serviceVars, Life!initVars, Life!puppetVars, Life!switchVars,
         Life!counters, LifeIInv, LifeTyped, LifeOneAtATime, LifeStarting, Life!InInit
<1>4. trouble' = 0 /\ ~overlapped' => LifeOneInit'
  BY DEF Life!Begin, Life!Goes, Life!serviceVars, Life!initVars, Life!puppetVars, Life!switchVars,
         Life!counters, LifeIInv, LifeTyped, LifeOneAtATime, LifeOneInit, LifeStarting, Life!InInit
<1> QED BY <1>1, <1>2, <1>3, <1>4 DEF LifeIInv

LEMMA LifeMemoryLoadsKeeps == ASSUME LifeIInv, NEW c \in Callers, Life!MemoryLoads(c) PROVE LifeIInv'
<1>1. LifeTyped'
  BY TroubleCounts DEF Life!MemoryLoads, Life!Goes, Life!serviceVars, Life!initVars, Life!puppetVars,
                       Life!switchVars, Life!counters, LifeIInv, LifeTyped, Life!Phases, Life!InInit
<1>2. Life!ReadyIsCurrent'
  BY DEF Life!MemoryLoads, Life!Goes, Life!serviceVars, Life!initVars, Life!puppetVars, Life!switchVars,
         Life!counters, LifeIInv, Life!ReadyIsCurrent
<1>3. trouble' = 0 => LifeOneAtATime'
  BY DEF Life!MemoryLoads, Life!Goes, Life!serviceVars, Life!initVars, Life!puppetVars, Life!switchVars,
         Life!counters, LifeIInv, LifeTyped, LifeOneAtATime, LifeStarting, Life!InInit
<1>4. trouble' = 0 /\ ~overlapped' => LifeOneInit'
  BY DEF Life!MemoryLoads, Life!Goes, Life!serviceVars, Life!initVars, Life!puppetVars, Life!switchVars,
         Life!counters, LifeIInv, LifeTyped, LifeOneAtATime, LifeOneInit, LifeStarting, Life!InInit
<1> QED BY <1>1, <1>2, <1>3, <1>4 DEF LifeIInv

LEMMA LifeInitPuppetKeeps == ASSUME LifeIInv, NEW c \in Callers, Life!InitPuppet(c) PROVE LifeIInv'
<1>1. LifeTyped'
  BY TroubleCounts DEF Life!InitPuppet, Life!Goes, Life!serviceVars, Life!initVars, Life!puppetVars,
                       Life!switchVars, Life!counters, LifeIInv, LifeTyped, Life!Phases, Life!InInit
<1>2. Life!ReadyIsCurrent'
  BY DEF Life!InitPuppet, Life!Goes, Life!serviceVars, Life!initVars, Life!puppetVars, Life!switchVars,
         Life!counters, LifeIInv, Life!ReadyIsCurrent
<1>3. trouble' = 0 => LifeOneAtATime'
  BY DEF Life!InitPuppet, Life!Goes, Life!serviceVars, Life!initVars, Life!puppetVars, Life!switchVars,
         Life!counters, LifeIInv, LifeTyped, LifeOneAtATime, LifeStarting, Life!InInit
<1>4. trouble' = 0 /\ ~overlapped' => LifeOneInit'
  BY DEF Life!InitPuppet, Life!Goes, Life!serviceVars, Life!initVars, Life!puppetVars, Life!switchVars,
         Life!counters, LifeIInv, LifeTyped, LifeOneAtATime, LifeOneInit, LifeStarting, Life!InInit
<1> QED BY <1>1, <1>2, <1>3, <1>4 DEF LifeIInv

LEMMA LifePuppetResolvesKeeps == ASSUME LifeIInv, NEW c \in Callers, Life!PuppetResolves(c) PROVE LifeIInv'
<1>1. LifeTyped'
  BY TroubleCounts DEF Life!PuppetResolves, Life!Goes, Life!serviceVars, Life!initVars, Life!puppetVars,
                       Life!switchVars, Life!counters, LifeIInv, LifeTyped, Life!Phases, Life!InInit
<1>2. Life!ReadyIsCurrent'
  BY DEF Life!PuppetResolves, Life!Goes, Life!serviceVars, Life!initVars, Life!puppetVars,
         Life!switchVars, Life!counters, LifeIInv, Life!ReadyIsCurrent
<1>3. trouble' = 0 => LifeOneAtATime'
  BY DEF Life!PuppetResolves, Life!Goes, Life!serviceVars, Life!initVars, Life!puppetVars,
         Life!switchVars, Life!counters, LifeIInv, LifeTyped, LifeOneAtATime, LifeStarting, Life!InInit
<1>4. trouble' = 0 /\ ~overlapped' => LifeOneInit'
  BY DEF Life!PuppetResolves, Life!Goes, Life!serviceVars, Life!initVars, Life!puppetVars,
         Life!switchVars, Life!counters, LifeIInv, LifeTyped, LifeOneAtATime, LifeOneInit, LifeStarting,
         Life!InInit
<1> QED BY <1>1, <1>2, <1>3, <1>4 DEF LifeIInv

LEMMA LifeResolveFailsKeeps == ASSUME LifeIInv, NEW c \in Callers, Life!ResolveFails(c) PROVE LifeIInv'
<1>1. LifeTyped'
  BY TroubleCounts DEF Life!ResolveFails, Life!Trouble, Life!Goes, Life!serviceVars, Life!initVars,
                       Life!puppetVars, Life!switchVars, Life!counters, LifeIInv, LifeTyped, Life!Phases,
                       Life!InInit
<1>2. Life!ReadyIsCurrent'
  BY DEF Life!ResolveFails, Life!Trouble, Life!Goes, Life!serviceVars, Life!initVars, Life!puppetVars,
         Life!switchVars, Life!counters, LifeIInv, Life!ReadyIsCurrent
<1>3. trouble' # 0
  BY TroubleCounts DEF Life!ResolveFails, Life!Trouble, LifeIInv, LifeTyped
<1> QED BY <1>1, <1>2, <1>3 DEF LifeIInv

LEMMA LifeControlKeeps == ASSUME LifeIInv, NEW c \in Callers, Life!Control(c) PROVE LifeIInv'
<1>0. trouble' \in Nat
  BY DEF Life!Control, Life!Trouble, LifeIInv, LifeTyped, Life!counters
<1>1. LifeTyped'
  <2>1. caller' \in [Callers -> Life!Phases]
    BY DEF Life!Control, Life!Goes, LifeIInv, LifeTyped, Life!Phases
  <2>2. service' \in {"inactive", "starting", "active", "stopping"} /\ told' \in BOOLEAN
    BY DEF Life!Control, LifeIInv, LifeTyped
  <2> QED BY <1>0, <2>1, <2>2 DEF Life!Control, Life!initVars, Life!switchVars, LifeIInv, LifeTyped
<1>2. Life!ReadyIsCurrent'
  BY DEF Life!Control, Life!Trouble, Life!Goes, Life!serviceVars, Life!initVars, Life!puppetVars,
         Life!switchVars, Life!counters, LifeIInv, Life!ReadyIsCurrent
<1>3. trouble' = 0 => LifeOneAtATime'
  BY DEF Life!Control, Life!Trouble, Life!Goes, Life!serviceVars, Life!initVars, Life!puppetVars,
         Life!switchVars, Life!counters, LifeIInv, LifeTyped, LifeOneAtATime, LifeStarting, Life!InInit
<1>4. trouble' = 0 /\ ~overlapped' => LifeOneInit'
  BY DEF Life!Control, Life!Trouble, Life!Goes, Life!serviceVars, Life!initVars, Life!puppetVars,
         Life!switchVars, Life!counters, LifeIInv, LifeTyped, LifeOneAtATime, LifeOneInit, LifeStarting,
         Life!InInit
<1> QED BY <1>1, <1>2, <1>3, <1>4 DEF LifeIInv

LEMMA LifeJoinedKeeps == ASSUME LifeIInv, NEW c \in Callers, Life!Joined(c) PROVE LifeIInv'
<1>1. LifeTyped'
  BY TroubleCounts DEF Life!Joined, Life!Goes, Life!serviceVars, Life!initVars, Life!puppetVars,
                       Life!switchVars, Life!counters, LifeIInv, LifeTyped, Life!Phases, Life!InInit
<1>2. Life!ReadyIsCurrent'
  BY DEF Life!Joined, Life!Goes, Life!serviceVars, Life!initVars, Life!puppetVars, Life!switchVars,
         Life!counters, LifeIInv, Life!ReadyIsCurrent
<1>3. trouble' = 0 => LifeOneAtATime'
  BY DEF Life!Joined, Life!Goes, Life!serviceVars, Life!initVars, Life!puppetVars, Life!switchVars,
         Life!counters, LifeIInv, LifeTyped, LifeOneAtATime, LifeStarting, Life!InInit
<1>4. trouble' = 0 /\ ~overlapped' => LifeOneInit'
  BY DEF Life!Joined, Life!Goes, Life!serviceVars, Life!initVars, Life!puppetVars, Life!switchVars,
         Life!counters, LifeIInv, LifeTyped, LifeOneAtATime, LifeOneInit, LifeStarting, Life!InInit
<1> QED BY <1>1, <1>2, <1>3, <1>4 DEF LifeIInv

LEMMA LifeStartPuppetKeeps == ASSUME LifeIInv, NEW c \in Callers, Life!StartPuppet(c) PROVE LifeIInv'
<1>1. LifeTyped'
  BY TroubleCounts DEF Life!StartPuppet, Life!Goes, Life!serviceVars, Life!initVars, Life!puppetVars,
                       Life!switchVars, Life!counters, LifeIInv, LifeTyped, Life!Phases, Life!InInit
<1>2. Life!ReadyIsCurrent'
  BY DEF Life!StartPuppet, Life!Goes, Life!serviceVars, Life!initVars, Life!puppetVars, Life!switchVars,
         Life!counters, LifeIInv, Life!ReadyIsCurrent
<1>3. trouble' = 0 => LifeOneAtATime'
  BY DEF Life!StartPuppet, Life!Goes, Life!serviceVars, Life!initVars, Life!puppetVars, Life!switchVars,
         Life!counters, LifeIInv, LifeTyped, LifeOneAtATime, LifeStarting, Life!InInit
<1>4. trouble' = 0 /\ ~overlapped' => LifeOneInit'
  BY DEF Life!StartPuppet, Life!Goes, Life!serviceVars, Life!initVars, Life!puppetVars, Life!switchVars,
         Life!counters, LifeIInv, LifeTyped, LifeOneAtATime, LifeOneInit, LifeStarting, Life!InInit
<1> QED BY <1>1, <1>2, <1>3, <1>4 DEF LifeIInv

LEMMA LifeStartTimesOutKeeps == ASSUME LifeIInv, NEW c \in Callers, Life!StartTimesOut(c) PROVE LifeIInv'
<1>1. LifeTyped'
  BY TroubleCounts DEF Life!StartTimesOut, Life!Trouble, Life!Goes, Life!serviceVars, Life!initVars,
                       Life!puppetVars, Life!switchVars, Life!counters, LifeIInv, LifeTyped, Life!Phases,
                       Life!InInit
<1>2. Life!ReadyIsCurrent'
  BY DEF Life!StartTimesOut, Life!Trouble, Life!Goes, Life!serviceVars, Life!initVars, Life!puppetVars,
         Life!switchVars, Life!counters, LifeIInv, Life!ReadyIsCurrent
<1>3. trouble' # 0
  BY TroubleCounts DEF Life!StartTimesOut, Life!Trouble, LifeIInv, LifeTyped
<1> QED BY <1>1, <1>2, <1>3 DEF LifeIInv

LEMMA LifeOnStartKeeps == ASSUME LifeIInv, NEW c \in Callers, Life!OnStart(c) PROVE LifeIInv'
<1>1. LifeTyped'
  BY TroubleCounts DEF Life!OnStart, Life!Goes, Life!serviceVars, Life!initVars, Life!puppetVars,
                       Life!switchVars, Life!counters, LifeIInv, LifeTyped, Life!Phases, Life!InInit
<1>2. Life!ReadyIsCurrent'
  BY DEF Life!OnStart, Life!Goes, Life!serviceVars, Life!initVars, Life!puppetVars, Life!switchVars,
         Life!counters, LifeIInv, Life!ReadyIsCurrent
<1>3. trouble' = 0 => LifeOneAtATime'
  BY DEF Life!OnStart, Life!Goes, Life!serviceVars, Life!initVars, Life!puppetVars, Life!switchVars,
         Life!counters, LifeIInv, LifeTyped, LifeOneAtATime, LifeStarting, Life!InInit
<1>4. trouble' = 0 /\ ~overlapped' => LifeOneInit'
  BY DEF Life!OnStart, Life!Goes, Life!serviceVars, Life!initVars, Life!puppetVars, Life!switchVars,
         Life!counters, LifeIInv, LifeTyped, LifeOneAtATime, LifeOneInit, LifeStarting, Life!InInit
<1> QED BY <1>1, <1>2, <1>3, <1>4 DEF LifeIInv

LEMMA LifeIoFailsKeeps == ASSUME LifeIInv, NEW c \in Callers, Life!IoFails(c) PROVE LifeIInv'
<1>1. LifeTyped'
  BY TroubleCounts DEF Life!IoFails, Life!StopPuppet, Life!Trouble, Life!Goes, Life!serviceVars,
                       Life!initVars, Life!puppetVars, Life!switchVars, Life!counters, LifeIInv,
                       LifeTyped, Life!Phases, Life!InInit
<1>2. Life!ReadyIsCurrent'
  BY DEF Life!IoFails, Life!StopPuppet, Life!Trouble, Life!Goes, Life!serviceVars, Life!initVars,
         Life!puppetVars, Life!switchVars, Life!counters, LifeIInv, Life!ReadyIsCurrent
<1>3. trouble' # 0
  BY TroubleCounts DEF Life!IoFails, Life!Trouble, LifeIInv, LifeTyped
<1> QED BY <1>1, <1>2, <1>3 DEF LifeIInv

LEMMA LifeStopKeeps == ASSUME LifeIInv, Life!Stop PROVE LifeIInv'
<1>1. LifeTyped'
  BY TroubleCounts DEF Life!Stop, Life!StopPuppet, Life!serviceVars, Life!initVars, Life!puppetVars,
                       Life!switchVars, Life!counters, LifeIInv, LifeTyped, Life!Phases, Life!InInit
<1>2. Life!ReadyIsCurrent'
  BY DEF Life!Stop, Life!StopPuppet, Life!serviceVars, Life!initVars, Life!puppetVars, Life!switchVars,
         Life!counters, LifeIInv, Life!ReadyIsCurrent
<1>3. trouble' = 0 => LifeOneAtATime'
  BY DEF Life!Stop, Life!StopPuppet, Life!serviceVars, Life!initVars, Life!puppetVars, Life!switchVars,
         Life!counters, LifeIInv, LifeTyped, LifeOneAtATime, LifeStarting, Life!InInit
<1>4. trouble' = 0 /\ ~overlapped' => LifeOneInit'
  BY DEF Life!Stop, Life!StopPuppet, Life!serviceVars, Life!initVars, Life!puppetVars, Life!switchVars,
         Life!counters, LifeIInv, LifeTyped, LifeOneAtATime, LifeOneInit, LifeStarting, Life!InInit
<1> QED BY <1>1, <1>2, <1>3, <1>4 DEF LifeIInv

LEMMA LifeStopGoesOnKeeps == ASSUME LifeIInv, Life!StopGoesOn PROVE LifeIInv'
<1>1. LifeTyped'
  BY TroubleCounts DEF Life!StopGoesOn, Life!StopPuppet, Life!Trouble, Life!serviceVars, Life!initVars,
                       Life!puppetVars, Life!switchVars, Life!counters, LifeIInv, LifeTyped, Life!Phases,
                       Life!InInit
<1>2. Life!ReadyIsCurrent'
  BY DEF Life!StopGoesOn, Life!StopPuppet, Life!Trouble, Life!serviceVars, Life!initVars, Life!puppetVars,
         Life!switchVars, Life!counters, LifeIInv, Life!ReadyIsCurrent
<1>3. trouble' = 0 => LifeOneAtATime'
  BY DEF Life!StopGoesOn, Life!StopPuppet, Life!Trouble, Life!serviceVars, Life!initVars, Life!puppetVars,
         Life!switchVars, Life!counters, LifeIInv, LifeTyped, LifeOneAtATime, LifeStarting, Life!InInit
<1>4. trouble' = 0 /\ ~overlapped' => LifeOneInit'
  BY DEF Life!StopGoesOn, Life!StopPuppet, Life!Trouble, Life!serviceVars, Life!initVars, Life!puppetVars,
         Life!switchVars, Life!counters, LifeIInv, LifeTyped, LifeOneAtATime, LifeOneInit, LifeStarting,
         Life!InInit
<1> QED BY <1>1, <1>2, <1>3, <1>4 DEF LifeIInv

LEMMA LifeStopTimesOutKeeps == ASSUME LifeIInv, Life!StopTimesOut PROVE LifeIInv'
<1>1. LifeTyped'
  BY TroubleCounts DEF Life!StopTimesOut, Life!Trouble, Life!serviceVars, Life!initVars, Life!puppetVars,
                       Life!switchVars, Life!counters, LifeIInv, LifeTyped, Life!Phases, Life!InInit
<1>2. Life!ReadyIsCurrent'
  BY DEF Life!StopTimesOut, Life!Trouble, Life!serviceVars, Life!initVars, Life!puppetVars,
         Life!switchVars, Life!counters, LifeIInv, Life!ReadyIsCurrent
<1>3. trouble' # 0
  BY TroubleCounts DEF Life!StopTimesOut, Life!Trouble, LifeIInv, LifeTyped
<1> QED BY <1>1, <1>2, <1>3 DEF LifeIInv

LEMMA LifeIoStopsKeeps == ASSUME LifeIInv, Life!IoStops PROVE LifeIInv'
<1>1. LifeTyped'
  BY TroubleCounts DEF Life!IoStops, Life!serviceVars, Life!initVars, Life!puppetVars, Life!switchVars,
                       Life!counters, LifeIInv, LifeTyped, Life!Phases, Life!InInit
<1>2. Life!ReadyIsCurrent'
  BY DEF Life!IoStops, Life!serviceVars, Life!initVars, Life!puppetVars, Life!switchVars, Life!counters,
         LifeIInv, Life!ReadyIsCurrent
<1>3. trouble' = 0 => LifeOneAtATime'
  BY DEF Life!IoStops, Life!serviceVars, Life!initVars, Life!puppetVars, Life!switchVars, Life!counters,
         LifeIInv, LifeTyped, LifeOneAtATime, LifeStarting, Life!InInit
<1>4. trouble' = 0 /\ ~overlapped' => LifeOneInit'
  BY DEF Life!IoStops, Life!serviceVars, Life!initVars, Life!puppetVars, Life!switchVars, Life!counters,
         LifeIInv, LifeTyped, LifeOneAtATime, LifeOneInit, LifeStarting, Life!InInit
<1> QED BY <1>1, <1>2, <1>3, <1>4 DEF LifeIInv

LEMMA LifePuppetComesUpKeeps == ASSUME LifeIInv, Life!PuppetComesUp PROVE LifeIInv'
<1>1. LifeTyped'
  BY TroubleCounts DEF Life!PuppetComesUp, Life!Awaited, Life!serviceVars, Life!initVars, Life!puppetVars,
                       Life!switchVars, Life!counters, LifeIInv, LifeTyped, Life!Phases, Life!InInit
<1>2. Life!ReadyIsCurrent'
  BY DEF Life!PuppetComesUp, Life!Awaited, Life!serviceVars, Life!initVars, Life!puppetVars,
         Life!switchVars, Life!counters, LifeIInv, Life!ReadyIsCurrent
<1>3. trouble' = 0 => LifeOneAtATime'
  BY DEF Life!PuppetComesUp, Life!Awaited, Life!serviceVars, Life!initVars, Life!puppetVars,
         Life!switchVars, Life!counters, LifeIInv, LifeTyped, LifeOneAtATime, LifeStarting, Life!InInit
<1>4. trouble' = 0 /\ ~overlapped' => LifeOneInit'
  BY DEF Life!PuppetComesUp, Life!Awaited, Life!serviceVars, Life!initVars, Life!puppetVars,
         Life!switchVars, Life!counters, LifeIInv, LifeTyped, LifeOneAtATime, LifeOneInit, LifeStarting,
         Life!InInit
<1> QED BY <1>1, <1>2, <1>3, <1>4 DEF LifeIInv

LEMMA LifePuppetStartFailsKeeps == ASSUME LifeIInv, Life!PuppetStartFails PROVE LifeIInv'
<1>0. trouble' \in Nat
  BY DEF Life!PuppetStartFails, Life!Trouble, LifeIInv, LifeTyped, Life!counters
<1>1. LifeTyped'
  <2>1. caller' \in [Callers -> Life!Phases]
    BY DEF Life!PuppetStartFails, Life!Awaited, LifeIInv, LifeTyped, Life!Phases
  <2> QED BY <1>0, <2>1 DEF Life!PuppetStartFails, Life!initVars, Life!switchVars, LifeIInv, LifeTyped
<1>2. Life!ReadyIsCurrent'
  BY DEF Life!PuppetStartFails, Life!Awaited, Life!Trouble, Life!serviceVars, Life!initVars,
         Life!puppetVars, Life!switchVars, Life!counters, LifeIInv, Life!ReadyIsCurrent
<1>3. trouble' # 0
  BY TroubleCounts DEF Life!PuppetStartFails, Life!Trouble, LifeIInv, LifeTyped
<1> QED BY <1>1, <1>2, <1>3 DEF LifeIInv

LEMMA LifePuppetGoesDownKeeps == ASSUME LifeIInv, Life!PuppetGoesDown PROVE LifeIInv'
<1>1. LifeTyped'
  BY TroubleCounts DEF Life!PuppetGoesDown, Life!StopAnswered, Life!serviceVars, Life!initVars,
                       Life!puppetVars, Life!switchVars, Life!counters, LifeIInv, LifeTyped, Life!Phases,
                       Life!InInit
<1>2. Life!ReadyIsCurrent'
  BY DEF Life!PuppetGoesDown, Life!StopAnswered, Life!serviceVars, Life!initVars, Life!puppetVars,
         Life!switchVars, Life!counters, LifeIInv, Life!ReadyIsCurrent
<1>3. trouble' = 0 => LifeOneAtATime'
  BY DEF Life!PuppetGoesDown, Life!StopAnswered, Life!serviceVars, Life!initVars, Life!puppetVars,
         Life!switchVars, Life!counters, LifeIInv, LifeTyped, LifeOneAtATime, LifeStarting, Life!InInit
<1>4. trouble' = 0 /\ ~overlapped' => LifeOneInit'
  BY DEF Life!PuppetGoesDown, Life!StopAnswered, Life!serviceVars, Life!initVars, Life!puppetVars,
         Life!switchVars, Life!counters, LifeIInv, LifeTyped, LifeOneAtATime, LifeOneInit, LifeStarting,
         Life!InInit
<1> QED BY <1>1, <1>2, <1>3, <1>4 DEF LifeIInv

LEMMA LifePuppetStopFailsKeeps == ASSUME LifeIInv, Life!PuppetStopFails PROVE LifeIInv'
<1>0. trouble' \in Nat
  BY DEF Life!PuppetStopFails, Life!Trouble, LifeIInv, LifeTyped, Life!counters
<1>1. LifeTyped'
  BY <1>0 DEF Life!PuppetStopFails, Life!StopAnswered, Life!serviceVars, Life!initVars, Life!puppetVars,
              Life!switchVars, LifeIInv, LifeTyped, Life!Phases, Life!InInit
<1>2. Life!ReadyIsCurrent'
  BY DEF Life!PuppetStopFails, Life!StopAnswered, Life!Trouble, Life!serviceVars, Life!initVars,
         Life!puppetVars, Life!switchVars, Life!counters, LifeIInv, Life!ReadyIsCurrent
<1>3. trouble' # 0
  BY TroubleCounts DEF Life!PuppetStopFails, Life!Trouble, LifeIInv, LifeTyped
<1> QED BY <1>1, <1>2, <1>3 DEF LifeIInv

LEMMA LifeEventKeeps ==
  ASSUME LifeIInv, Life!PuppetEvents \/ \E h \in looking : Life!Looked(h) PROVE LifeIInv'
<1> USE DEF LifeIInv, LifeTyped, Life!ReadyIsCurrent
<1>1. UNCHANGED <<Life!serviceVars, Life!initVars, Life!puppetVars, Life!counters>>
  BY DEF Life!PuppetEvents, Life!ReadyEvent, Life!ScanEvent, Life!LoginEvent, Life!LogoutEvent,
         Life!Looked
<1>2. ready' \in BOOLEAN /\ (ready' <=> latest' = "ready")
  <2>1. CASE Life!ReadyEvent \/ Life!ScanEvent \/ Life!LogoutEvent
    BY <2>1 DEF Life!ReadyEvent, Life!ScanEvent, Life!LogoutEvent
  <2>2. CASE Life!LoginEvent \/ \E h \in looking : Life!Looked(h)
    BY <2>2 DEF Life!LoginEvent, Life!Looked
  <2> QED BY <2>1, <2>2 DEF Life!PuppetEvents
<1> QED BY <1>1, <1>2 DEF Life!serviceVars, Life!initVars, Life!puppetVars, Life!counters, LifeOneAtATime, LifeOneInit

LEMMA LifeStepKeepsIInv == ASSUME LifeIInv, [Life!Next]_Life!vars PROVE LifeIInv'
<1>1. ASSUME NEW c \in Callers, Life!Begin(c) \/ Life!InitStep(c) \/ Life!ResolveFails(c) PROVE LifeIInv'
  BY <1>1, LifeBeginKeeps, LifeMemoryLoadsKeeps, LifeInitPuppetKeeps, LifePuppetResolvesKeeps,
     LifeResolveFailsKeeps
     DEF Life!InitStep
<1>2. ASSUME NEW c \in Callers, Life!StartStep(c) \/ Life!IoFails(c) PROVE LifeIInv'
  BY <1>2, LifeControlKeeps, LifeJoinedKeeps, LifeStartPuppetKeeps, LifeStartTimesOutKeeps,
     LifeOnStartKeeps, LifeIoFailsKeeps
     DEF Life!StartStep
<1>3. CASE Life!Stop \/ Life!StopStep
  BY <1>3, LifeStopKeeps, LifeStopGoesOnKeeps, LifeStopTimesOutKeeps, LifeIoStopsKeeps DEF Life!StopStep
<1>4. CASE Life!PuppetAnswers
  BY <1>4, LifePuppetComesUpKeeps, LifePuppetStartFailsKeeps, LifePuppetGoesDownKeeps,
     LifePuppetStopFailsKeeps
     DEF Life!PuppetAnswers
<1>5. CASE Life!PuppetEvents \/ \E h \in looking : Life!Looked(h)
  BY <1>5, LifeEventKeeps
<1>6. CASE UNCHANGED Life!vars
  BY <1>6 DEF Life!vars, Life!serviceVars, Life!initVars, Life!puppetVars, Life!switchVars, Life!counters,
              LifeIInv, LifeTyped, Life!ReadyIsCurrent,
              LifeOneAtATime, LifeOneInit
<1> QED BY <1>1, <1>2, <1>3, <1>4, <1>5, <1>6 DEF Life!Next

LEMMA LifeIInvIsSound == LifeIInv => Life!LifeIsSound
  BY DEF LifeIInv, Life!LifeIsSound, Life!ActiveHasPuppet, Life!StoppedIsDown, Life!ReadyIsCurrent,
         LifeOneAtATime, LifeOneInit, LifeStarting, LifeTyped

-----------------------------------------------------------------------------
\* A behaviour is of the socket or of the life cycle, and what is not at play stays.
LEMMA BotInitIInv == BotInit => LifeIInv
BY LifeInitIInv DEF BotInit

LEMMA BotStepKeepsIInv == LifeIInv /\ [BotNext]_all => LifeIInv'
<1> SUFFICES ASSUME LifeIInv, [BotNext]_all PROVE LifeIInv'
  OBVIOUS
<1>1. [Life!Next]_Life!vars
  BY DEF BotNext, InIo, InLife, Of, all, lifeVars, Life!vars, Life!serviceVars, Life!initVars,
         Life!puppetVars, Life!switchVars, Life!counters
<1> QED BY <1>1, LifeStepKeepsIInv

\* While no call fails or times out an active service has its puppet, a stopped one has
\* none, and the memory card is loaded before the puppet; the ready switch is that of the
\* newest login whatever happens.
THEOREM LifeIsSoundHolds == BotSpec => []LifeIsSound
<1>1. LifeIInv => LifeIsSound
  BY LifeIInvIsSound DEF LifeIsSound
<1> QED BY <1>1, BotInitIInv, BotStepKeepsIInv, PTL DEF BotSpec
=============================================================================
