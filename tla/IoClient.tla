------------------------------- MODULE IoClient --------------------------------
(***************************************************************************)
(* IoClient (src/io-client.ts) runs a bot for the Wechaty io service: an   *)
(* Io, the bot, and a PuppetServer, started in this order.  start, stop,   *)
(* restart and quit are called as the owner likes, also while another call *)
(* is under way; each awaits the three in turn and any of them may fail.   *)
(***************************************************************************)
EXTENDS Naturals, FiniteSets

CONSTANTS
  Users,                     \* who calls the client
  MaxCalls, MaxRefusals

VARIABLES
  state,         \* the StateSwitch: inactive, activating, active, deactivating
  io,            \* the number of the Io that this.io holds, 0 for none
  ios,           \* the Ios that were made and not stopped
  puppetServer,  \* this.puppetServer is set
  bot,           \* the bot runs
  call,          \* of each user, how far its call is
  leftover,      \* a call failed or quit since the last stop that ended
  met,           \* two calls were under way at a time
  calls, refusals

vars == <<state, io, ios, puppetServer, bot, call, leftover, met, calls, refusals>>

\* again: the stop is the first half of a restart; of: the Io it waits for.
NoCall == [at |-> "idle", again |-> FALSE, of |-> 0]

Init ==
  /\ state = "inactive" /\ io = 0 /\ ios = {} /\ puppetServer = FALSE /\ bot = FALSE
  /\ call = [u \in Users |-> NoCall] /\ leftover = FALSE /\ met = FALSE
  /\ calls = 0 /\ refusals = 0

At(u, phase)   == call[u].at = phase
Goes(u, phase) == call' = [call EXCEPT ![u].at = phase]
Ends(u)        == call' = [call EXCEPT ![u] = NoCall]

Calls(u) ==
  /\ At(u, "idle") /\ calls < MaxCalls /\ calls' = calls + 1
  /\ met' = (met \/ \E v \in Users : ~At(v, "idle"))
  /\ UNCHANGED <<io, ios, puppetServer, bot, refusals>>

Active == state \in {"activating", "active"}

-----------------------------------------------------------------------------
\* A start beside another waits until the client is active.
Begins(u) ==
  IF Active THEN Goes(u, "joined") /\ UNCHANGED state
  ELSE state' = "activating" /\ Goes(u, "hooked")

Start(u) == Calls(u) /\ Begins(u) /\ UNCHANGED leftover

Joined(u) ==
  /\ At(u, "joined") /\ state = "active" /\ Ends(u)
  /\ UNCHANGED <<state, io, ios, puppetServer, bot, leftover, met, calls, refusals>>

\* start throws: what was started stays.
StartFails(u) ==
  /\ state' = "inactive" /\ leftover' = TRUE /\ Ends(u)
  /\ UNCHANGED <<io, ios, puppetServer, bot, met, calls>>

\* Mutant: the Io that exists is not looked for.
MakeIoBlindly(u) ==
  /\ At(u, "hooked") /\ state \notin {"inactive", "deactivating"}
  /\ io' = calls /\ ios' = ios \cup {calls} /\ Goes(u, "io")
  /\ UNCHANGED <<state, puppetServer, bot, leftover, met, calls, refusals>>

\* hookWechaty is behind; startIo checks the switch and this.io.
MakeIo(u) ==
  /\ At(u, "hooked")
  /\ IF Active /\ io = 0
     THEN /\ io' = calls /\ ios' = ios \cup {calls} /\ Goes(u, "io")
          /\ UNCHANGED <<state, puppetServer, bot, leftover, met, calls, refusals>>
     ELSE StartFails(u) /\ UNCHANGED refusals

IoStarted(u) ==
  /\ At(u, "io") /\ Goes(u, "bot")
  /\ UNCHANGED <<state, io, ios, puppetServer, bot, leftover, met, calls, refusals>>

\* The bot has started, and startPuppetServer looks whether there is a server.
BotStarted(u) ==
  /\ At(u, "bot") /\ bot' = TRUE
  /\ IF puppetServer
     THEN /\ state' = "inactive" /\ leftover' = TRUE /\ Ends(u) /\ UNCHANGED puppetServer
     ELSE puppetServer' = TRUE /\ Goes(u, "server") /\ UNCHANGED <<state, leftover>>
  /\ UNCHANGED <<io, ios, met, calls, refusals>>

ServerStarted(u) ==
  /\ At(u, "server") /\ state' = "active" /\ Ends(u)
  /\ UNCHANGED <<io, ios, puppetServer, bot, leftover, met, calls, refusals>>

Refuses(u, phases) ==
  /\ call[u].at \in phases /\ refusals < MaxRefusals /\ refusals' = refusals + 1

StartRefused(u) == Refuses(u, {"io", "bot", "server"}) /\ StartFails(u)

-----------------------------------------------------------------------------
Stops(u, again) ==
  /\ state' = "deactivating"
  /\ call' = [call EXCEPT ![u] = [at |-> "stopIo", again |-> again, of |-> io]]

Stop(u)    == Calls(u) /\ Stops(u, FALSE) /\ UNCHANGED leftover
Restart(u) == Calls(u) /\ Stops(u, TRUE) /\ UNCHANGED leftover

\* Mutant: the Io is stopped and kept.
IoStopsAndStays(u) ==
  /\ At(u, "stopIo") /\ ios' = ios \ {call[u].of} /\ Goes(u, "stopServer")
  /\ UNCHANGED <<state, io, puppetServer, bot, leftover, met, calls, refusals>>

\* this.io is dropped after the await, whichever it is by then.
IoStopped(u) ==
  /\ At(u, "stopIo") /\ ios' = ios \ {call[u].of}
  /\ io' = IF call[u].of = 0 THEN io ELSE 0
  /\ Goes(u, "stopServer")
  /\ UNCHANGED <<state, puppetServer, bot, leftover, met, calls, refusals>>

ServerStopped(u) ==
  /\ At(u, "stopServer") /\ puppetServer' = FALSE /\ Goes(u, "stopBot")
  /\ UNCHANGED <<state, io, ios, bot, leftover, met, calls, refusals>>

\* stop has ended; a restart goes on with start.
BotStopped(u) ==
  /\ At(u, "stopBot") /\ bot' = FALSE /\ leftover' = FALSE
  /\ IF call[u].again THEN state' = "activating" /\ Goes(u, "hooked")
     ELSE state' = "inactive" /\ Ends(u)
  /\ UNCHANGED <<io, ios, puppetServer, met, calls, refusals>>

\* stop throws half-way: the switch stays as it is.
StopRefused(u) ==
  /\ Refuses(u, {"stopIo", "stopServer", "stopBot"})
  /\ leftover' = TRUE /\ Ends(u)
  /\ UNCHANGED <<state, io, ios, puppetServer, bot, met, calls>>

\* quit stops the bot and the Io, and drops neither the Io nor the server.
Quit(u) ==
  /\ state # "deactivating" /\ Calls(u)
  /\ state' = "deactivating" /\ leftover' = TRUE /\ Goes(u, "quitBot")

QuitBot(u) ==
  /\ At(u, "quitBot") /\ bot' = FALSE
  /\ call' = [call EXCEPT ![u] = [@ EXCEPT !.at = "quitIo", !.of = io]]
  /\ UNCHANGED <<state, io, ios, puppetServer, leftover, met, calls, refusals>>

QuitIo(u) ==
  /\ At(u, "quitIo") /\ ios' = ios \ {call[u].of} /\ state' = "inactive" /\ Ends(u)
  /\ UNCHANGED <<io, puppetServer, bot, leftover, met, calls, refusals>>

QuitRefused(u) ==
  /\ Refuses(u, {"quitBot", "quitIo"}) /\ state' = "inactive" /\ Ends(u)
  /\ UNCHANGED <<io, ios, puppetServer, bot, leftover, met, calls>>

-----------------------------------------------------------------------------
Starting(u) == MakeIo(u) \/ IoStarted(u) \/ BotStarted(u) \/ ServerStarted(u) \/ StartRefused(u)
Stopping(u) == IoStopped(u) \/ ServerStopped(u) \/ BotStopped(u) \/ StopRefused(u)
Quitting(u) == QuitBot(u) \/ QuitIo(u) \/ QuitRefused(u)

Next == \E u \in Users :
  \/ Start(u) \/ Stop(u) \/ Restart(u) \/ Quit(u)
  \/ Joined(u) \/ Starting(u) \/ Stopping(u) \/ Quitting(u)

Spec == Init /\ [][Next]_vars

-----------------------------------------------------------------------------
Phases == {"idle", "joined", "hooked", "io", "bot", "server",
           "stopIo", "stopServer", "stopBot", "quitBot", "quitIo"}

\* The type of every variable.
TypeOK ==
  /\ state \in {"inactive", "activating", "active", "deactivating"}
  /\ io \in 0..MaxCalls /\ ios \subseteq 1..MaxCalls
  /\ {puppetServer, bot, leftover, met} \subseteq BOOLEAN
  /\ call \in [Users -> [at : Phases, again : BOOLEAN, of : 0..MaxCalls]]
  /\ calls \in 0..MaxCalls /\ refusals \in 0..MaxRefusals

Rests == \A u \in Users : At(u, "idle")

\* An active client has its Io, its bot and its server, unless calls met.
ActiveIsWhole == state = "active" /\ ~met => io \in ios /\ bot /\ puppetServer

\* A client at rest that is not active has nothing left, and start will find nothing
\* in its way, unless a call failed, quit or met another since the last stop.
RestIsClean ==
  Rests /\ state # "active" /\ ~leftover /\ ~met =>
    io = 0 /\ ios = {} /\ ~puppetServer /\ ~bot

\* Every Io that runs is the one the client holds, so that a stop can reach it,
\* unless calls met.
IosAreHeld == ~met => ios \subseteq {io}

ClientIsWhole == ActiveIsWhole /\ RestIsClean /\ IosAreHeld
=============================================================================
