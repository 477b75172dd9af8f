----------------------------- MODULE ClientsProofs -----------------------------
(***************************************************************************)
(* Proofs about the clients of the system, for any users, rooms, threads,  *)
(* files, tasks, clicks and faults: the Io client (IoClient), the          *)
(* operator's console in what it shows (ConsoleViews), in what it does with*)
(* drafts (ConsoleDrafts) and in the fields that say whose data is meant   *)
(* (ConsoleSession), the web client (WebClient), and the objects of the SDK*)
(* (UserObjects).  Each has an inductive invariant of its own; a behaviour *)
(* is of one of them.                                                      *)
(***************************************************************************)
EXTENDS MCClients, SequenceTheorems, FiniteSetTheorems, TLAPS

\* The client of the io service.
IoCallRows == [at : Client!Phases, again : BOOLEAN, of : Nat]

IoTyped ==
  /\ state \in {"inactive", "activating", "active", "deactivating"}
  /\ puppetServer \in BOOLEAN /\ bot \in BOOLEAN /\ leftover \in BOOLEAN /\ met \in BOOLEAN
  /\ call \in [Callers -> IoCallRows]
  /\ io \in Nat /\ ios \subseteq Nat /\ calls \in Nat

IoClean == io = 0 /\ ios = {} /\ ~puppetServer /\ ~bot
IoWhole == io \in ios /\ bot /\ puppetServer

\* How far the one call under way has brought the client.
IoPhase(u) ==
  /\ Client!At(u, "joined") => state = "active"
  /\ call[u].at \in {"hooked", "io", "bot", "server"} => state = "activating"
  /\ Client!At(u, "hooked") => calls # 0
  /\ Client!At(u, "hooked") /\ ~leftover => IoClean
  /\ call[u].at \in {"io", "bot", "server"} => io \in ios
  /\ Client!At(u, "io") /\ ~leftover => ~puppetServer /\ ~bot
  /\ Client!At(u, "server") => bot /\ puppetServer
  /\ call[u].at \in {"stopIo", "stopServer", "stopBot", "quitBot", "quitIo"} => state = "deactivating"
  /\ call[u].at \in {"stopIo", "quitIo"} => call[u].of = io
  /\ call[u].at \in {"stopServer", "stopBot"} => io = 0 /\ ios = {}
  /\ Client!At(u, "stopBot") => ~puppetServer /\ calls # 0
  /\ call[u].at \in {"stopIo", "stopServer"} => calls # 0
  /\ call[u].at \in {"quitBot", "quitIo"} => leftover

\* While calls come one after the other.
IoInTurn ==
  /\ ios \subseteq {io} /\ 0 \notin ios
  /\ \A u, v \in Callers : ~Client!At(u, "idle") /\ ~Client!At(v, "idle") => u = v
  /\ \A u \in Callers : IoPhase(u)
  /\ state = "active" => IoWhole
  /\ state = "activating" => \E u \in Callers : call[u].at \in {"hooked", "io", "bot", "server"}
  /\ Client!Rests /\ state # "active" /\ ~leftover => IoClean

IoIInv == IoTyped /\ (~met => IoInTurn)

-----------------------------------------------------------------------------
LEMMA IoCallsAreRows ==
  /\ Client!NoCall \in IoCallRows /\ Client!NoCall.at = "idle"
  /\ \A c \in IoCallRows, phase \in Client!Phases :
       [c EXCEPT !.at = phase] \in IoCallRows /\ [c EXCEPT !.at = phase].at = phase
  /\ \A again \in BOOLEAN, of \in Nat : [at |-> "stopIo", again |-> again, of |-> of] \in IoCallRows
  /\ \A c \in IoCallRows, of \in Nat : [c EXCEPT !.at = "quitIo", !.of = of] \in IoCallRows
BY DEF IoCallRows, Client!NoCall, Client!Phases

LEMMA IoInitIInv == Client!Init => IoIInv
<1> SUFFICES ASSUME Client!Init PROVE IoIInv
  OBVIOUS
<1>1. IoTyped
  BY IoCallsAreRows DEF Client!Init, IoTyped
<1>2. \A u \in Callers : Client!At(u, "idle")
  BY IoCallsAreRows DEF Client!Init, Client!At
<1> QED BY <1>1, <1>2 DEF Client!Init, IoIInv, IoInTurn, IoPhase, Client!Rests, Client!At, IoClean

\* What a step makes of the calls are calls.
LEMMA IoCallsStayRows ==
  ASSUME call \in [Callers -> IoCallRows], io \in Nat, NEW u \in Callers
  PROVE  /\ Client!Ends(u) => call' \in [Callers -> IoCallRows]
         /\ \A phase \in Client!Phases : Client!Goes(u, phase) => call' \in [Callers -> IoCallRows]
         /\ \A again \in BOOLEAN : Client!Stops(u, again) => call' \in [Callers -> IoCallRows]
         /\ Client!QuitBot(u) => call' \in [Callers -> IoCallRows]
<1>1. call[u] \in IoCallRows
  OBVIOUS
<1>2. Client!Ends(u) => call' \in [Callers -> IoCallRows]
  BY IoCallsAreRows DEF Client!Ends
<1>3. ASSUME NEW phase \in Client!Phases, Client!Goes(u, phase) PROVE call' \in [Callers -> IoCallRows]
  BY <1>1, <1>3, IoCallsAreRows DEF Client!Goes
<1>4. ASSUME NEW again \in BOOLEAN, Client!Stops(u, again) PROVE call' \in [Callers -> IoCallRows]
  <2> DEFINE new == [at |-> "stopIo", again |-> again, of |-> io]
  <2>1. new \in IoCallRows
    BY IoCallsAreRows
  <2> HIDE DEF new
  <2>2. call' = [call EXCEPT ![u] = new]
    BY <1>4 DEF Client!Stops, new
  <2> QED BY <2>1, <2>2
<1>5. Client!QuitBot(u) => call' \in [Callers -> IoCallRows]
  BY <1>1, IoCallsAreRows DEF Client!QuitBot
<1> QED BY <1>2, <1>3, <1>4, <1>5

\* Where a step leaves the calls.
LEMMA IoCallMoves ==
  ASSUME call \in [Callers -> IoCallRows], io \in Nat, NEW u \in Callers
  PROVE  /\ Client!Ends(u) => Client!At(u, "idle")'
         /\ \A phase : Client!Goes(u, phase) => Client!At(u, phase)' /\ call'[u].of = call[u].of
         /\ \A again \in BOOLEAN :
              Client!Stops(u, again) => Client!At(u, "stopIo")' /\ call'[u].of = io /\ state' = "deactivating"
<1>1. call[u] \in IoCallRows
  OBVIOUS
<1>2. Client!Ends(u) => Client!At(u, "idle")'
  BY IoCallsAreRows DEF Client!Ends, Client!At
<1>3. ASSUME NEW phase, Client!Goes(u, phase) PROVE Client!At(u, phase)' /\ call'[u].of = call[u].of
  BY <1>1, <1>3 DEF Client!Goes, Client!At, IoCallRows
<1>4. ASSUME NEW again \in BOOLEAN, Client!Stops(u, again)
      PROVE  Client!At(u, "stopIo")' /\ call'[u].of = io /\ state' = "deactivating"
  <2> DEFINE new == [at |-> "stopIo", again |-> again, of |-> io]
  <2>1. new.at = "stopIo" /\ new.of = io
    OBVIOUS
  <2> HIDE DEF new
  <2>2. call' = [call EXCEPT ![u] = new] /\ state' = "deactivating"
    BY <1>4 DEF Client!Stops, new
  <2> QED BY <2>1, <2>2 DEF Client!At
<1> QED BY <1>2, <1>3, <1>4

LEMMA IoTypedStep == IoTyped /\ [Client!Next]_Client!vars => IoTyped'
<1> SUFFICES ASSUME IoTyped, [Client!Next]_Client!vars PROVE IoTyped'
  OBVIOUS
<1>0. /\ \A u \in Callers : (Client!Ends(u) \/ Client!QuitBot(u) \/ Client!Stops(u, FALSE) \/ Client!Stops(u, TRUE)) => call' \in [Callers -> IoCallRows]
      /\ \A u \in Callers, phase \in Client!Phases : Client!Goes(u, phase) => call' \in [Callers -> IoCallRows]
  BY IoCallsStayRows DEF IoTyped
<1>p. {"joined", "hooked", "io", "bot", "server", "stopServer", "stopBot", "quitBot"} \subseteq Client!Phases
  BY DEF Client!Phases
<1> USE DEF IoTyped
<1>1. ASSUME NEW u \in Callers, Client!Start(u) PROVE IoTyped'
  BY <1>0, <1>p, <1>1 DEF Client!Start, Client!Calls, Client!Begins
<1>2. ASSUME NEW u \in Callers, Client!Stop(u) \/ Client!Restart(u) PROVE IoTyped'
  <2>1. call' \in [Callers -> IoCallRows] /\ state' = "deactivating"
    BY <1>0, <1>2, IoCallMoves DEF Client!Stop, Client!Restart
  <2>2. /\ UNCHANGED <<io, ios, puppetServer, bot, leftover>>
        /\ calls' = calls + 1 /\ met' = (met \/ \E v \in Callers : ~Client!At(v, "idle"))
    BY <1>2 DEF Client!Stop, Client!Restart, Client!Calls
  <2>3. met' \in BOOLEAN /\ calls' \in Nat
    BY <2>2
  <2> QED BY <2>1, <2>2, <2>3
<1>3. ASSUME NEW u \in Callers, Client!Quit(u) PROVE IoTyped'
  BY <1>0, <1>p, <1>3 DEF Client!Quit, Client!Calls
<1>4. ASSUME NEW u \in Callers, Client!Joined(u) PROVE IoTyped'
  BY <1>0, <1>4 DEF Client!Joined
<1>5. ASSUME NEW u \in Callers, Client!Starting(u) PROVE IoTyped'
  BY <1>0, <1>p, <1>5 DEF Client!Starting, Client!MakeIo, Client!IoStarted, Client!BotStarted,
                          Client!ServerStarted, Client!StartRefused, Client!StartFails
<1>6. ASSUME NEW u \in Callers, Client!Stopping(u) PROVE IoTyped'
  <2>1. CASE Client!IoStopped(u)
    <3>1. call' \in [Callers -> IoCallRows] /\ io' \in Nat /\ ios' \subseteq Nat
      BY <1>0, <1>p, <2>1 DEF Client!IoStopped
    <3> QED BY <2>1, <3>1 DEF Client!IoStopped
  <2>3. CASE Client!ServerStopped(u)
    BY <1>0, <1>p, <2>3 DEF Client!ServerStopped
  <2>4. CASE Client!StopRefused(u)
    BY <1>0, <1>p, <2>4 DEF Client!StopRefused
  <2>2. CASE Client!BotStopped(u)
    <3>1. call' \in [Callers -> IoCallRows] /\ state' \in {"activating", "inactive"}
      BY <1>0, <1>p, <2>2 DEF Client!BotStopped
    <3> QED BY <2>2, <3>1 DEF Client!BotStopped
  <2> QED BY <1>6, <2>1, <2>2, <2>3, <2>4 DEF Client!Stopping
<1>7. ASSUME NEW u \in Callers, Client!Quitting(u) PROVE IoTyped'
  <2>1. call' \in [Callers -> IoCallRows]
    BY <1>0, <1>7 DEF Client!Quitting, Client!QuitIo, Client!QuitRefused
  <2> QED BY <1>7, <2>1 DEF Client!Quitting, Client!QuitBot, Client!QuitIo, Client!QuitRefused
<1>8. CASE UNCHANGED Client!vars
  BY <1>8 DEF Client!vars
<1> QED BY <1>1, <1>2, <1>3, <1>4, <1>5, <1>6, <1>7, <1>8 DEF Client!Next

\* It is enough to look at the one call that is under way.
LEMMA IoOneCallInTurn ==
  ASSUME NEW u \in Callers, \A v \in Callers : v # u => Client!At(v, "idle")', IoPhase(u)',
         ios' \subseteq {io'}, 0 \notin ios', state' = "active" => IoWhole',
         state' = "activating" => call'[u].at \in {"hooked", "io", "bot", "server"},
         Client!At(u, "idle")' /\ state' # "active" /\ ~leftover' => IoClean'
  PROVE  IoInTurn'
<1>1. \A v \in Callers : IoPhase(v)'
  <2> SUFFICES ASSUME NEW v \in Callers, v # u PROVE IoPhase(v)'
    OBVIOUS
  <2>1. call'[v].at = "idle"
    BY DEF Client!At
  <2> QED BY <2>1 DEF IoPhase, Client!At
<1>2. \A v, w \in Callers : ~Client!At(v, "idle")' /\ ~Client!At(w, "idle")' => v = w
  OBVIOUS
<1>3. Client!Rests' => Client!At(u, "idle")'
  BY DEF Client!Rests
<1> QED BY <1>1, <1>2, <1>3 DEF IoInTurn

\* A call that begins while none is under way.
LEMMA IoBeginStep ==
  ASSUME IoTyped, IoInTurn, Client!Rests, ~met, NEW u \in Callers, Client!Start(u) \/ Client!Stop(u) \/ Client!Restart(u) \/ Client!Quit(u)
  PROVE  IoInTurn'
<1>0. Client!Calls(u)
  BY DEF Client!Start, Client!Stop, Client!Restart, Client!Quit
<1>1. calls' # 0 /\ UNCHANGED <<io, ios, puppetServer, bot>>
  BY <1>0 DEF Client!Calls, IoTyped
<1>2. \A v \in Callers : v # u => Client!At(v, "idle")'
  BY DEF Client!Rests, Client!At, IoTyped, Client!Start, Client!Stop, Client!Restart, Client!Quit,
         Client!Stops, Client!Begins, Client!Goes
<1>3. state # "activating" /\ ios \subseteq {io} /\ 0 \notin ios
  BY DEF IoInTurn, Client!Rests, Client!At
<1>4. CASE Client!Start(u)
  <2>1. UNCHANGED leftover
    BY <1>4 DEF Client!Start
  <2>2. CASE Client!Active
    <3>1. Client!At(u, "joined")' /\ state' = "active" /\ IoWhole
      BY <1>3, <1>4, <2>2, IoCallMoves DEF Client!Start, Client!Begins, IoTyped, Client!Active, IoInTurn
    <3>2. IoPhase(u)'
      BY <3>1 DEF IoPhase, Client!At
    <3> QED BY <1>1, <1>2, <1>3, <3>1, <3>2, IoOneCallInTurn DEF IoWhole
  <2>3. CASE ~Client!Active
    <3>1. Client!At(u, "hooked")' /\ state' = "activating" /\ state # "active"
      BY <1>4, <2>3, IoCallMoves DEF Client!Start, Client!Begins, IoTyped, Client!Active
    <3>2. ~leftover => IoClean
      BY <3>1 DEF IoInTurn
    <3>3. IoPhase(u)'
      BY <1>1, <2>1, <3>1, <3>2 DEF IoPhase, Client!At, IoClean
    <3> QED BY <1>1, <1>2, <1>3, <3>1, <3>3, IoOneCallInTurn DEF Client!At
  <2> QED BY <2>2, <2>3
<1>5. CASE Client!Stop(u) \/ Client!Restart(u)
  <2>1. call'[u].at = "stopIo" /\ call'[u].of = io /\ state' = "deactivating"
    BY <1>5, IoCallMoves DEF Client!Stop, Client!Restart, IoTyped, Client!At
  <2>2. IoPhase(u)'
    BY <1>1, <2>1 DEF IoPhase, Client!At
  <2> QED BY <1>1, <1>2, <1>3, <2>1, <2>2, IoOneCallInTurn DEF Client!At
<1>6. CASE Client!Quit(u)
  <2>1. call'[u].at = "quitBot" /\ leftover' /\ state' = "deactivating"
    BY <1>6, IoCallMoves DEF Client!Quit, IoTyped, Client!At
  <2>2. IoPhase(u)'
    BY <1>1, <2>1 DEF IoPhase, Client!At
  <2> QED BY <1>1, <1>2, <1>3, <2>1, <2>2, IoOneCallInTurn DEF Client!At
<1> QED BY <1>4, <1>5, <1>6

\* A call ends without the client being active: what it leaves is left over.
LEMMA IoFailsInTurn ==
  ASSUME NEW u \in Callers, \A v \in Callers : v # u => Client!At(v, "idle")', IoInTurn, Client!Ends(u), IoTyped,
         state' \in {"inactive", "deactivating"}, leftover' = TRUE, io' = io, ios' \subseteq ios
  PROVE  IoInTurn'
<1>1. Client!At(u, "idle")'
  BY IoCallMoves DEF IoTyped
<1>2. IoPhase(u)'
  BY <1>1 DEF IoPhase, Client!At
<1> QED BY <1>1, <1>2, IoOneCallInTurn DEF IoInTurn

\* The one call under way goes on.
LEMMA IoGoesOnStep ==
  ASSUME IoTyped, IoInTurn, ~met, NEW u \in Callers, ~Client!At(u, "idle"), Client!Joined(u) \/ Client!Starting(u) \/ Client!Stopping(u) \/ Client!Quitting(u)
  PROVE  IoInTurn'
<1>1. \A v \in Callers : v # u => Client!At(v, "idle")
  BY DEF IoInTurn
<1>2. \A v \in Callers : v # u => Client!At(v, "idle")'
  BY <1>1 DEF Client!At, IoTyped, Client!Joined, Client!Starting, Client!MakeIo, Client!IoStarted,
              Client!BotStarted, Client!ServerStarted, Client!StartRefused, Client!StartFails,
              Client!Stopping, Client!IoStopped, Client!ServerStopped, Client!BotStopped, Client!StopRefused, Client!Quitting, Client!QuitBot, Client!QuitIo, Client!QuitRefused,
              Client!Refuses, Client!Goes, Client!Ends
<1>3. IoPhase(u) /\ ios \subseteq {io} /\ 0 \notin ios
  BY DEF IoInTurn
<1>4. /\ Client!Ends(u) => Client!At(u, "idle")'
      /\ \A phase : Client!Goes(u, phase) => Client!At(u, phase)' /\ call'[u].of = call[u].of
  BY IoCallMoves DEF IoTyped
<1>5. CASE Client!Joined(u)
  <2>1. Client!At(u, "idle")' /\ state' = "active" /\ IoWhole'
    BY <1>4, <1>5 DEF Client!Joined, IoInTurn, IoWhole
  <2>2. IoPhase(u)'
    BY <2>1 DEF IoPhase, Client!At
  <2> QED BY <1>2, <1>3, <1>5, <2>1, <2>2, IoOneCallInTurn DEF Client!Joined
<1>6. CASE Client!MakeIo(u)
  <2>1. CASE Client!Active /\ io = 0
    <3>1. ios = {} /\ ios' = {io'} /\ io' # 0 /\ Client!At(u, "io")'
      BY <1>3, <1>4, <1>6, <2>1 DEF Client!MakeIo, IoPhase, Client!At
    <3>2. state' = "activating" /\ ~leftover' => ~puppetServer' /\ ~bot'
      BY <1>3, <1>6, <2>1 DEF Client!MakeIo, IoPhase, IoClean
    <3>3. state' = "activating"
      BY <1>3, <1>6, <2>1 DEF Client!MakeIo, IoPhase, Client!At
    <3>4. IoPhase(u)'
      BY <3>1, <3>2, <3>3 DEF IoPhase, Client!At
    <3> QED BY <1>2, <3>1, <3>3, <3>4, IoOneCallInTurn DEF Client!At
  <2>2. CASE ~(Client!Active /\ io = 0)
    BY <1>2, <1>6, <2>2, IoFailsInTurn DEF Client!MakeIo, Client!StartFails
  <2> QED BY <2>1, <2>2
<1>7. CASE Client!IoStarted(u)
  <2>1. Client!At(u, "bot")' /\ state' = "activating" /\ io' \in ios'
    BY <1>3, <1>4, <1>7 DEF Client!IoStarted, IoPhase, Client!At
  <2>2. IoPhase(u)'
    BY <2>1 DEF IoPhase, Client!At
  <2> QED BY <1>2, <1>3, <1>7, <2>1, <2>2, IoOneCallInTurn DEF Client!IoStarted, Client!At
<1>8. CASE Client!BotStarted(u)
  <2>1. CASE puppetServer
    BY <1>2, <1>8, <2>1, IoFailsInTurn DEF Client!BotStarted
  <2>2. CASE ~puppetServer
    <3>1. Client!At(u, "server")' /\ state' = "activating" /\ io' \in ios' /\ bot' /\ puppetServer' /\ io' = io /\ ios' = ios
      BY <1>3, <1>4, <1>8, <2>2 DEF Client!BotStarted, IoPhase, Client!At
    <3>2. IoPhase(u)'
      BY <3>1 DEF IoPhase, Client!At
    <3> QED BY <1>2, <1>3, <3>1, <3>2, IoOneCallInTurn DEF Client!At
  <2> QED BY <2>1, <2>2
<1>9. CASE Client!ServerStarted(u)
  <2>1. Client!At(u, "idle")' /\ state' = "active" /\ IoWhole'
    BY <1>3, <1>4, <1>9 DEF Client!ServerStarted, IoPhase, Client!At, IoWhole
  <2>2. IoPhase(u)'
    BY <2>1 DEF IoPhase, Client!At
  <2> QED BY <1>2, <1>3, <1>9, <2>1, <2>2, IoOneCallInTurn DEF Client!ServerStarted
<1>10. CASE Client!StartRefused(u)
  BY <1>2, <1>10, IoFailsInTurn DEF Client!StartRefused, Client!StartFails
<1>11. CASE Client!IoStopped(u)
  <2>1. Client!At(u, "stopServer")' /\ state' = "deactivating" /\ call[u].of = io /\ calls' # 0
    BY <1>3, <1>4, <1>11 DEF Client!IoStopped, IoPhase, Client!At
  <2>2. io' = 0 /\ ios' = {}
    BY <1>3, <1>11, <2>1 DEF Client!IoStopped
  <2>3. IoPhase(u)'
    BY <2>1, <2>2 DEF IoPhase, Client!At
  <2> QED BY <1>2, <2>1, <2>2, <2>3, IoOneCallInTurn DEF Client!At
<1>12. CASE Client!ServerStopped(u)
  <2>1. Client!At(u, "stopBot")' /\ state' = "deactivating" /\ io' = 0 /\ ios' = {} /\ ~puppetServer' /\ calls' # 0
    BY <1>3, <1>4, <1>12 DEF Client!ServerStopped, IoPhase, Client!At
  <2>2. IoPhase(u)'
    BY <2>1 DEF IoPhase, Client!At
  <2> QED BY <1>2, <2>1, <2>2, IoOneCallInTurn DEF Client!At
<1>13. CASE Client!BotStopped(u)
  <2>1. IoClean' /\ calls' # 0
    BY <1>3, <1>13 DEF Client!BotStopped, IoPhase, Client!At, IoClean
  <2>2. CASE Client!At(u, "hooked")' /\ state' = "activating"
    <3>1. IoPhase(u)'
      BY <2>1, <2>2 DEF IoPhase, Client!At
    <3> QED BY <1>2, <2>1, <2>2, <3>1, IoOneCallInTurn DEF Client!At, IoClean
  <2>3. CASE Client!At(u, "idle")' /\ state' = "inactive"
    <3>1. IoPhase(u)'
      BY <2>3 DEF IoPhase, Client!At
    <3> QED BY <1>2, <2>1, <2>3, <3>1, IoOneCallInTurn DEF Client!At, IoClean
  <2> QED BY <1>4, <1>13, <2>2, <2>3 DEF Client!BotStopped
<1>14. CASE Client!StopRefused(u)
  <2>1. state' = "deactivating"
    BY <1>3, <1>14 DEF Client!StopRefused, Client!Refuses, IoPhase, Client!At
  <2> QED BY <1>2, <1>14, <2>1, IoFailsInTurn DEF Client!StopRefused
<1>15. CASE Client!QuitBot(u)
  <2>1. call'[u].at = "quitIo" /\ call'[u].of = io /\ leftover /\ state = "deactivating"
    BY <1>3, <1>15 DEF Client!QuitBot, IoPhase, Client!At, IoTyped, IoCallRows
  <2>2. UNCHANGED <<io, ios, leftover, state>>
    BY <1>15 DEF Client!QuitBot
  <2>3. IoPhase(u)'
    BY <2>1, <2>2 DEF IoPhase, Client!At
  <2> QED BY <1>2, <1>3, <2>1, <2>2, <2>3, IoOneCallInTurn DEF Client!At
<1>16. CASE Client!QuitIo(u)
  <2>1. leftover' = TRUE
    BY <1>3, <1>16 DEF Client!QuitIo, IoPhase, Client!At, IoTyped
  <2> QED BY <1>2, <1>16, <2>1, IoFailsInTurn DEF Client!QuitIo
<1>17. CASE Client!QuitRefused(u)
  <2>1. leftover' = TRUE
    BY <1>3, <1>17 DEF Client!QuitRefused, Client!Refuses, IoPhase, Client!At, IoTyped
  <2> QED BY <1>2, <1>17, <2>1, IoFailsInTurn DEF Client!QuitRefused
<1> QED BY <1>5, <1>6, <1>7, <1>8, <1>9, <1>10, <1>11, <1>12, <1>13, <1>14, <1>15, <1>16, <1>17
        DEF Client!Starting, Client!Stopping, Client!Quitting

LEMMA IoStepKeepsIInv == IoIInv /\ [Client!Next]_Client!vars => IoIInv'
<1> SUFFICES ASSUME IoIInv, [Client!Next]_Client!vars PROVE IoIInv'
  OBVIOUS
<1>1. IoTyped'
  BY IoTypedStep DEF IoIInv
<1>2. ASSUME ~met' PROVE IoInTurn'
  <2>1. ASSUME NEW u \in Callers, Client!Start(u) \/ Client!Stop(u) \/ Client!Restart(u) \/ Client!Quit(u) PROVE IoInTurn'
    <3>1. ~met /\ Client!Rests
      BY <1>2, <2>1 DEF Client!Start, Client!Stop, Client!Restart, Client!Quit, Client!Calls, Client!Rests
    <3> QED BY <2>1, <3>1, IoBeginStep DEF IoIInv
  <2>2. ASSUME NEW u \in Callers, Client!Joined(u) \/ Client!Starting(u) \/ Client!Stopping(u) \/ Client!Quitting(u) PROVE IoInTurn'
    <3>1. ~met /\ ~Client!At(u, "idle")
      BY <1>2, <2>2 DEF Client!Joined, Client!Starting, Client!MakeIo, Client!IoStarted,
                        Client!BotStarted, Client!ServerStarted, Client!StartRefused, Client!StartFails,
                        Client!Stopping, Client!IoStopped, Client!ServerStopped, Client!BotStopped, Client!StopRefused, Client!Quitting, Client!QuitBot, Client!QuitIo,
                        Client!QuitRefused, Client!Refuses, Client!At
    <3> QED BY <2>2, <3>1, IoGoesOnStep DEF IoIInv
  <2>3. CASE UNCHANGED Client!vars
    BY <1>2, <2>3 DEF Client!vars, IoIInv, IoInTurn, IoPhase, Client!Rests, Client!At, IoClean, IoWhole
  <2> QED BY <2>1, <2>2, <2>3 DEF Client!Next
<1> QED BY <1>1, <1>2 DEF IoIInv

LEMMA IoIInvIsWhole == IoIInv => Client!ClientIsWhole
BY DEF IoIInv, IoInTurn, Client!ClientIsWhole, Client!ActiveIsWhole, Client!RestIsClean,
       Client!IosAreHeld, IoWhole, IoClean

-----------------------------------------------------------------------------
\* What the console shows.
LEMMA ViewNobodyIsNone == Nobody \notin Threads /\ Views!Blank \notin Threads /\ Nobody # Views!Blank
BY NobodyIsNone DEF Views!Blank

ViewUploadPcs == {"none", "reading", "prepared", "sending", "ingested", "failed"}
ViewChosen == Threads \cup {Nobody}
ViewMetas == Files \cup {Views!Blank}
ViewUploadRows == [pc : ViewUploadPcs, wanted : ViewChosen, file : ViewMetas, thread : ViewChosen]

ViewTyped ==
  /\ selected \in ViewChosen /\ mishaps \in Nat
  /\ DOMAIN shown = Views!Views
  /\ \A l \in loads : l.view \in Views!Views
  /\ profile \in [Threads -> Threads \cup {Nobody, Views!Blank}]
  /\ DOMAIN mode = Threads /\ DOMAIN kept = Threads /\ \A c \in cycles : c.of \in Threads
  /\ upload \in [Files -> ViewUploadRows]
  /\ field \in ViewChosen /\ meta \in ViewMetas

\* The messages on their way are of the thread selected.
ViewMessages ==
  "messages" \notin strayed =>
    /\ \A l \in loads : l.view = "messages" => l.of = selected
    /\ (\A l \in loads : l.view # "messages") => shown["messages"] \in {selected, Views!Blank}

\* So is the form while the drawer is open, when its loads did not meet.
ViewForm ==
  /\ drawer \in {"closed", "loading", "open"} /\ (drawer # "closed" => selected \in Threads)
  /\ \A l \in loads : l.view = "relationship" => l.of \in Threads
  /\ shown["relationship"] \in Threads \cup {Nobody, Views!Blank}
  /\ shown["relationship"] = Views!Blank => mishaps > 0
  /\ drawer = "open" => shown["relationship"] # Nobody
  /\ "relationship" \notin strayed =>
       /\ \A l, m \in loads : l.view = "relationship" /\ m.view = "relationship" => l = m
       /\ drawer = "loading" => \A l \in loads : l.view = "relationship" => l.of = selected
       /\ drawer = "open" => /\ \A l \in loads : l.view # "relationship"
                             /\ shown["relationship"] \in {selected, Views!Blank}

\* A change under way is the only one of its thread, and the API has the mode before it.
ViewModes ==
  \A t \in Threads \ doubtful :
    /\ \A c, d \in cycles : c.of = t /\ d.of = t => c = d
    /\ \A c \in cycles : c.of = t => mode[t] = c.to /\ kept[t] = c.from
    /\ (\A c \in cycles : c.of # t) => mode[t] = kept[t]

\* While uploads ran one after the other the form is of the one under way.
ViewUploads ==
  ~mixed =>
    /\ \A f, g \in Views!Uploading : f = g
    /\ \A f \in Views!Uploading :
         /\ field = upload[f].wanted
         /\ upload[f].pc = "prepared" => meta = f
    /\ \A f \in Files : upload[f].pc \in {"sending", "ingested"} =>
                          upload[f].thread = upload[f].wanted /\ upload[f].file = f

-----------------------------------------------------------------------------
LEMMA ViewLoadFacts ==
  ASSUME NEW vs \in SUBSET Views!Views, Views!Load(vs), ViewTyped
  PROVE  /\ \A l \in loads' : l.view \in Views!Views
         /\ \A l \in loads' : l \notin loads => l.of = selected' /\ l.view \in vs
         /\ \A v \in vs : \E l \in loads' : l.view = v
         /\ \A l \in loads : l \in loads'
         /\ strayed \subseteq strayed' /\ \A l \in loads : l.view \in vs => l.view \in strayed'
         /\ \A l, m \in loads' : l \notin loads /\ m \notin loads /\ l.view = m.view => l = m
<1> DEFINE new == {[view |-> v, of |-> selected', n |-> clicks] : v \in vs}
<1>1. loads' = loads \cup new /\ strayed' = strayed \cup {l.view : l \in {l \in loads : l.view \in vs}}
  BY DEF Views!Load
<1>2. \A l \in new : l.of = selected' /\ l.view \in vs
  OBVIOUS
<1>3. ASSUME NEW v \in vs PROVE \E l \in new : l.view = v
  <2>1. [view |-> v, of |-> selected', n |-> clicks] \in new
    OBVIOUS
  <2> HIDE DEF new
  <2> QED BY <2>1
<1>4. ASSUME NEW l \in new, NEW m \in new, l.view = m.view PROVE l = m
  <2>1. PICK v \in vs : l = [view |-> v, of |-> selected', n |-> clicks]
    OBVIOUS
  <2>2. PICK w \in vs : m = [view |-> w, of |-> selected', n |-> clicks]
    OBVIOUS
  <2>3. v = w
    BY <1>4, <2>1, <2>2
  <2> QED BY <2>1, <2>2, <2>3
<1> HIDE DEF new
<1> QED BY <1>1, <1>2, <1>3, <1>4 DEF ViewTyped

LEMMA ViewUploadChanges ==
  ASSUME NEW r \in ViewUploadRows
  PROVE  /\ \A x \in ViewUploadPcs :
              /\ [r EXCEPT !.pc = x] \in ViewUploadRows /\ [r EXCEPT !.pc = x].pc = x
              /\ [r EXCEPT !.pc = x].wanted = r.wanted /\ [r EXCEPT !.pc = x].file = r.file
              /\ [r EXCEPT !.pc = x].thread = r.thread
         /\ \A x \in ViewChosen :
              /\ [r EXCEPT !.wanted = x] \in ViewUploadRows /\ [r EXCEPT !.wanted = x].wanted = x
              /\ [r EXCEPT !.wanted = x].pc = r.pc
              /\ [r EXCEPT !.thread = x] \in ViewUploadRows /\ [r EXCEPT !.thread = x].thread = x
              /\ [r EXCEPT !.thread = x].pc = r.pc /\ [r EXCEPT !.thread = x].wanted = r.wanted
              /\ [r EXCEPT !.thread = x].file = r.file
         /\ \A x \in ViewMetas :
              /\ [r EXCEPT !.file = x] \in ViewUploadRows /\ [r EXCEPT !.file = x].file = x
              /\ [r EXCEPT !.file = x].pc = r.pc /\ [r EXCEPT !.file = x].wanted = r.wanted
BY DEF ViewUploadRows

ViewOthers(f) == \A g \in Files : g # f => upload'[g] = upload[g]

LEMMA ViewOneUpload ==
  ASSUME ViewTyped, NEW f \in Files, NEW r \in ViewUploadRows, upload' = [upload EXCEPT ![f] = r]
  PROVE  upload' \in [Files -> ViewUploadRows] /\ upload'[f] = r /\ ViewOthers(f)
BY DEF ViewTyped, ViewOthers

LEMMA ViewUploadMoves ==
  ASSUME ViewTyped, NEW f \in Files
  PROVE  /\ Views!Upload(f) =>
              /\ upload' \in [Files -> ViewUploadRows] /\ ViewOthers(f) /\ field' \in Threads
              /\ upload'[f].pc = "reading" /\ upload'[f].wanted = field'
         /\ Views!Prepare(f) =>
              /\ upload' \in [Files -> ViewUploadRows] /\ ViewOthers(f)
              /\ upload'[f].pc = "prepared" /\ upload'[f].wanted = upload[f].wanted
         /\ Views!Submit(f) =>
              /\ upload' \in [Files -> ViewUploadRows] /\ ViewOthers(f) /\ upload'[f].pc = "sending"
              /\ upload'[f].wanted = upload[f].wanted /\ upload'[f].file = meta /\ upload'[f].thread = field
         /\ Views!Ingested(f) =>
              /\ upload' \in [Files -> ViewUploadRows] /\ ViewOthers(f) /\ upload'[f].pc = "ingested"
              /\ upload'[f].wanted = upload[f].wanted /\ upload'[f].file = upload[f].file
              /\ upload'[f].thread = upload[f].thread
         /\ Views!IngestFails(f) => upload' \in [Files -> ViewUploadRows] /\ ViewOthers(f) /\ upload'[f].pc = "failed"
<1>0. upload[f] \in ViewUploadRows /\ {"reading", "prepared", "sending", "ingested", "failed"} \subseteq ViewUploadPcs
  BY DEF ViewTyped, ViewUploadPcs
<1>1. \A x \in ViewUploadPcs :
        /\ [upload[f] EXCEPT !.pc = x] \in ViewUploadRows /\ [upload[f] EXCEPT !.pc = x].pc = x
        /\ [upload[f] EXCEPT !.pc = x].wanted = upload[f].wanted
        /\ [upload[f] EXCEPT !.pc = x].file = upload[f].file /\ [upload[f] EXCEPT !.pc = x].thread = upload[f].thread
  BY <1>0, ViewUploadChanges
<1>2. ASSUME Views!Upload(f)
      PROVE  /\ upload' \in [Files -> ViewUploadRows] /\ ViewOthers(f) /\ field' \in Threads
             /\ upload'[f].pc = "reading" /\ upload'[f].wanted = field'
  <2> DEFINE q == [upload[f] EXCEPT !.pc = "reading"]
             r == [q EXCEPT !.wanted = field']
  <2>1. upload' = [upload EXCEPT ![f] = r]
    BY <1>2 DEF Views!Upload
  <2>2. field' \in Threads /\ field' \in ViewChosen
    BY <1>2 DEF Views!Upload, ViewTyped, ViewChosen
  <2>3. q \in ViewUploadRows /\ q.pc = "reading"
    BY <1>0, <1>1
  <2>4. r \in ViewUploadRows /\ r.pc = "reading" /\ r.wanted = field'
    <3> HIDE DEF q
    <3> QED BY <2>2, <2>3, ViewUploadChanges
  <2> HIDE DEF r
  <2> QED BY <2>1, <2>2, <2>4, ViewOneUpload
<1>3. ASSUME Views!Submit(f)
      PROVE  /\ upload' \in [Files -> ViewUploadRows] /\ ViewOthers(f) /\ upload'[f].pc = "sending"
             /\ upload'[f].wanted = upload[f].wanted /\ upload'[f].file = meta /\ upload'[f].thread = field
  <2> DEFINE p == [upload[f] EXCEPT !.pc = "sending"]
             q == [p EXCEPT !.file = meta]
             r == [q EXCEPT !.thread = field]
  <2>0. meta \in ViewMetas /\ field \in ViewChosen
    BY DEF ViewTyped
  <2>1. upload' = [upload EXCEPT ![f] = r]
    BY <1>3 DEF Views!Submit
  <2>2. p \in ViewUploadRows /\ p.pc = "sending" /\ p.wanted = upload[f].wanted
    BY <1>0, <1>1
  <2>3. q \in ViewUploadRows /\ q.pc = "sending" /\ q.wanted = upload[f].wanted /\ q.file = meta
    <3> HIDE DEF p
    <3>1. \A x \in ViewMetas :
            /\ [p EXCEPT !.file = x] \in ViewUploadRows /\ [p EXCEPT !.file = x].file = x
            /\ [p EXCEPT !.file = x].pc = p.pc /\ [p EXCEPT !.file = x].wanted = p.wanted
      BY <2>2, ViewUploadChanges
    <3> QED BY <2>0, <2>2, <3>1
  <2>4. r \in ViewUploadRows /\ r.pc = "sending" /\ r.wanted = upload[f].wanted /\ r.file = meta /\ r.thread = field
    <3> HIDE DEF q
    <3>1. \A x \in ViewChosen :
            /\ [q EXCEPT !.thread = x] \in ViewUploadRows /\ [q EXCEPT !.thread = x].thread = x
            /\ [q EXCEPT !.thread = x].pc = q.pc /\ [q EXCEPT !.thread = x].wanted = q.wanted
            /\ [q EXCEPT !.thread = x].file = q.file
      BY <2>3, ViewUploadChanges
    <3> QED BY <2>0, <2>3, <3>1
  <2> HIDE DEF r
  <2> QED BY <2>1, <2>4, ViewOneUpload
<1>4. ASSUME NEW x \in ViewUploadPcs, upload' = [upload EXCEPT ![f].pc = x]
      PROVE  /\ upload' \in [Files -> ViewUploadRows] /\ ViewOthers(f) /\ upload'[f].pc = x
             /\ upload'[f].wanted = upload[f].wanted /\ upload'[f].file = upload[f].file
             /\ upload'[f].thread = upload[f].thread
  <2> DEFINE r == [upload[f] EXCEPT !.pc = x]
  <2>1. upload' = [upload EXCEPT ![f] = r]
    BY <1>4
  <2>2. r \in ViewUploadRows /\ r.pc = x /\ r.wanted = upload[f].wanted /\ r.file = upload[f].file /\ r.thread = upload[f].thread
    BY <1>1
  <2> HIDE DEF r
  <2> QED BY <2>1, <2>2, ViewOneUpload
<1>5. /\ Views!Prepare(f) => upload' = [upload EXCEPT ![f].pc = "prepared"]
      /\ Views!Ingested(f) => upload' = [upload EXCEPT ![f].pc = "ingested"]
      /\ Views!IngestFails(f) => upload' = [upload EXCEPT ![f].pc = "failed"]
  BY DEF Views!Prepare, Views!Ingested, Views!IngestFails
<1> QED BY <1>0, <1>2, <1>3, <1>4, <1>5

-----------------------------------------------------------------------------
\* The steps that concern the views, the modes and the uploads.
ViewViewStep ==
  \/ \E t \in Threads : Views!SelectThread(t)
  \/ Views!ClearThreadSelection \/ Views!Refresh \/ Views!OpenMemory
  \/ Views!OpenRelationship \/ Views!CloseDrawer \/ Views!SaveRelationship
  \/ \E l \in loads : Views!Answer(l) \/ Views!LoadFails(l)

ViewModeStep == Views!CycleMode \/ \E c \in cycles : Views!ModeIsSet(c) \/ Views!ModeFails(c)

ViewFileStep == \E f \in Files : Views!Upload(f) \/ Views!Prepare(f) \/ Views!Submit(f) \/ Views!Ingested(f) \/ Views!IngestFails(f)

LEMMA ViewStepsLeave ==
  /\ ViewViewStep => UNCHANGED <<mode, kept, cycles, doubtful, upload, field, meta, mixed>>
  /\ ViewModeStep => UNCHANGED <<selected, loads, shown, drawer, profile, strayed, upload, field, meta, mixed>>
  /\ ViewFileStep => UNCHANGED <<selected, loads, shown, drawer, profile, strayed, mode, kept, cycles, doubtful>>
  /\ [Views!Next]_Views!vars => ViewViewStep \/ ViewModeStep \/ ViewFileStep \/ UNCHANGED Views!vars
BY Zenon DEF ViewViewStep, ViewModeStep, ViewFileStep, Views!Next, Views!SelectThread,
       Views!ClearThreadSelection, Views!Refresh, Views!OpenMemory, Views!OpenRelationship,
       Views!CloseDrawer, Views!SaveRelationship, Views!Answer, Views!LoadFails, Views!CycleMode, Views!ModeIsSet, Views!ModeFails, Views!Upload, Views!Prepare, Views!Submit,
       Views!Ingested, Views!IngestFails, Views!views, Views!modes, Views!files

LEMMA ViewFaultsGrow == ViewTyped /\ [Views!Next]_Views!vars => mishaps' \in Nat /\ mishaps' >= mishaps
<1>1. \A t : Views!SelectThread(t) => mishaps' = mishaps
  BY DEF Views!SelectThread
<1>2. (Views!ClearThreadSelection \/ Views!Refresh \/ Views!OpenMemory \/ Views!OpenRelationship \/ Views!CloseDrawer \/ Views!SaveRelationship \/ Views!CycleMode)
        => mishaps' = mishaps
  BY Zenon DEF Views!ClearThreadSelection, Views!Refresh, Views!OpenMemory, Views!OpenRelationship,
               Views!CloseDrawer, Views!SaveRelationship, Views!CycleMode
<1>3. \A l : Views!Answer(l) \/ Views!ModeIsSet(l) => mishaps' = mishaps
  BY DEF Views!Answer, Views!ModeIsSet
<1>4. \A l : Views!LoadFails(l) \/ Views!ModeFails(l) => Views!Fault
  BY DEF Views!LoadFails, Views!ModeFails
<1>5. \A f : /\ Views!Upload(f) \/ Views!Prepare(f) \/ Views!Submit(f) \/ Views!Ingested(f) => mishaps' = mishaps
             /\ Views!IngestFails(f) => Views!Fault
  BY DEF Views!Upload, Views!Prepare, Views!Submit, Views!Ingested, Views!IngestFails
<1>6. [Views!Next]_Views!vars => Views!Fault \/ mishaps' = mishaps
  BY <1>1, <1>2, <1>3, <1>4, <1>5, Zenon DEF Views!Next, Views!vars
<1> QED BY <1>6 DEF ViewTyped, Views!Fault

LEMMA ViewTypedStep == ViewTyped /\ ViewForm /\ [Views!Next]_Views!vars => ViewTyped'
<1> SUFFICES ASSUME ViewTyped, ViewForm, [Views!Next]_Views!vars PROVE ViewTyped'
  OBVIOUS
<1>0. mishaps' \in Nat
  BY ViewFaultsGrow
<1>1. CASE ViewViewStep
  <2>1. /\ selected' \in ViewChosen /\ DOMAIN shown' = Views!Views /\ profile' \in [Threads -> Threads \cup {Nobody, Views!Blank}]
    BY <1>1 DEF ViewViewStep, ViewTyped, ViewForm, ViewChosen, Views!SelectThread,
                Views!ClearThreadSelection, Views!Refresh, Views!OpenMemory, Views!OpenRelationship,
       Views!CloseDrawer, Views!SaveRelationship, Views!Answer, Views!LoadFails
  <2>2. \A l \in loads' : l.view \in Views!Views
    <3>1. \A vs \in SUBSET Views!Views : Views!Load(vs) => \A l \in loads' : l.view \in Views!Views
      BY ViewLoadFacts
    <3>2. {"messages", "hits"} \in SUBSET Views!Views /\ {"messages"} \in SUBSET Views!Views /\ {"memory"} \in SUBSET Views!Views
          /\ {"relationship"} \in SUBSET Views!Views
      BY DEF Views!Views
    <3>3. (\E vs \in SUBSET Views!Views : Views!Load(vs)) \/ loads' \subseteq loads
      BY <1>1, <3>2 DEF ViewViewStep, Views!SelectThread, Views!ClearThreadSelection, Views!Refresh,
                        Views!OpenMemory, Views!OpenRelationship,
         Views!CloseDrawer, Views!SaveRelationship, Views!Answer, Views!LoadFails
    <3> QED BY <3>1, <3>3 DEF ViewTyped
  <2> QED BY <1>0, <1>1, <2>1, <2>2, ViewStepsLeave DEF ViewTyped
<1>2. CASE ViewModeStep
  <2>1. DOMAIN mode' = Threads /\ DOMAIN kept' = Threads
    BY <1>2 DEF ViewModeStep, Views!CycleMode, Views!ModeIsSet, Views!ModeFails, ViewTyped, Views!modes
  <2>2. \A c \in cycles' : c.of \in Threads
    BY <1>2 DEF ViewModeStep, Views!CycleMode, Views!ModeIsSet, Views!ModeFails, ViewTyped, ViewChosen
  <2> QED BY <1>0, <1>2, <2>1, <2>2, ViewStepsLeave DEF ViewTyped
<1>3. CASE ViewFileStep
  <2>1. upload' \in [Files -> ViewUploadRows]
    BY <1>3, ViewUploadMoves DEF ViewFileStep
  <2>2. field' \in ViewChosen /\ meta' \in ViewMetas
    BY <1>3 DEF ViewFileStep, Views!Upload, Views!Prepare, Views!Submit, Views!Ingested,
                Views!IngestFails, ViewTyped, ViewChosen, ViewMetas
  <2> QED BY <1>0, <1>3, <2>1, <2>2, ViewStepsLeave DEF ViewTyped
<1>4. CASE UNCHANGED Views!vars
  BY <1>4 DEF Views!vars, Views!views, Views!modes, Views!files, ViewTyped
<1> QED BY <1>1, <1>2, <1>3, <1>4, ViewStepsLeave

LEMMA ViewMessagesStep == ViewTyped /\ ViewMessages /\ [Views!Next]_Views!vars => ViewMessages'
<1> SUFFICES ASSUME ViewTyped, ViewMessages, [Views!Next]_Views!vars PROVE ViewMessages'
  OBVIOUS
<1>1. CASE \E t \in Threads : Views!SelectThread(t)
  <2>1. Views!Load({"messages", "hits"}) /\ shown' = shown
    BY <1>1 DEF Views!SelectThread
  <2>2. {"messages", "hits"} \in SUBSET Views!Views
    BY DEF Views!Views
  <2> QED BY <2>1, <2>2, ViewLoadFacts DEF ViewMessages
<1>2. CASE Views!Refresh
  <2>1. Views!Load({"messages"}) /\ shown' = shown
    BY <1>2 DEF Views!Refresh
  <2>2. {"messages"} \in SUBSET Views!Views
    BY DEF Views!Views
  <2> QED BY <2>1, <2>2, ViewLoadFacts DEF ViewMessages
<1>3. ASSUME NEW v \in {"memory", "relationship"}, Views!Load({v}), UNCHANGED <<shown, selected>> PROVE ViewMessages'
  <2>1. {v} \in SUBSET Views!Views
    BY DEF Views!Views
  <2> QED BY <1>3, <2>1, ViewLoadFacts DEF ViewMessages
<1>4. CASE Views!ClearThreadSelection
  <2>1. /\ selected' = Nobody /\ loads' = loads /\ shown'["messages"] = Nobody
        /\ strayed' = strayed \cup ({"messages", "hits"} \cap {l.view : l \in loads})
    BY <1>4 DEF Views!ClearThreadSelection, ViewTyped, Views!Views
  <2> QED BY <2>1 DEF ViewMessages
<1>5. CASE Views!CloseDrawer \/ Views!SaveRelationship
  BY <1>5 DEF Views!CloseDrawer, Views!SaveRelationship, ViewMessages
<1>6. ASSUME NEW l \in loads, Views!Answer(l) \/ Views!LoadFails(l) PROVE ViewMessages'
  <2>1. /\ loads' = loads \ {l} /\ UNCHANGED <<selected, strayed>> /\ l.view \in Views!Views
        /\ shown' = [shown EXCEPT ![l.view] = l.of] \/ shown' = [shown EXCEPT ![l.view] = Views!Blank]
    BY <1>6 DEF Views!Answer, Views!LoadFails, ViewTyped
  <2>2. CASE l.view = "messages"
    BY <2>1, <2>2 DEF ViewMessages, ViewTyped, Views!Views
  <2>3. CASE l.view # "messages"
    <3>1. shown'["messages"] = shown["messages"]
      BY <2>1, <2>3 DEF ViewTyped, Views!Views
    <3> QED BY <2>1, <2>3, <3>1 DEF ViewMessages
  <2> QED BY <2>2, <2>3
<1>7. CASE ViewModeStep \/ ViewFileStep
  BY <1>7, ViewStepsLeave DEF ViewMessages
<1>8. CASE UNCHANGED Views!vars
  BY <1>8 DEF Views!vars, Views!views, ViewMessages
<1> QED BY <1>1, <1>2, <1>3, <1>4, <1>5, <1>6, <1>7, <1>8, ViewStepsLeave DEF ViewViewStep, Views!OpenMemory, Views!OpenRelationship

LEMMA ViewFormStep == ViewTyped /\ ViewForm /\ [Views!Next]_Views!vars => ViewForm'
<1> SUFFICES ASSUME ViewTyped, ViewForm, [Views!Next]_Views!vars PROVE ViewForm'
  OBVIOUS
<1>0. mishaps' \in Nat /\ mishaps' >= mishaps /\ mishaps \in Nat
  BY ViewFaultsGrow DEF ViewTyped
<1>1. ASSUME NEW vs \in SUBSET Views!Views, Views!Load(vs), "relationship" \notin vs, UNCHANGED <<shown, drawer>>,
             (drawer = "closed" /\ selected' \in ViewChosen) \/ selected' = selected
      PROVE  ViewForm'
  <2>1. \A l \in loads' : l.view = "relationship" => l \in loads
    BY <1>1, ViewLoadFacts
  <2>2. strayed \subseteq strayed'
    BY <1>1, ViewLoadFacts
  <2> QED BY <1>0, <1>1, <2>1, <2>2 DEF ViewForm
<1>2. CASE Views!OpenRelationship
  <2>1. Views!Load({"relationship"}) /\ selected' = selected /\ drawer' = "loading" /\ shown' = shown /\ selected \in Threads
    BY <1>2 DEF Views!OpenRelationship, ViewTyped, ViewChosen
  <2>2. {"relationship"} \in SUBSET Views!Views
    BY DEF Views!Views
  <2>3. \A l \in loads' : l.view = "relationship" => l.of \in Threads
    BY <2>1, <2>2, ViewLoadFacts DEF ViewForm
  <2>4. "relationship" \notin strayed' => \A l \in loads' : l.view = "relationship" => l \notin loads
    BY <2>1, <2>2, ViewLoadFacts
  <2>5. "relationship" \notin strayed' =>
          /\ \A l, m \in loads' : l.view = "relationship" /\ m.view = "relationship" => l = m
          /\ \A l \in loads' : l.view = "relationship" => l.of = selected'
    BY <2>1, <2>2, <2>4, ViewLoadFacts
  <2> QED BY <1>0, <2>1, <2>3, <2>5 DEF ViewForm
<1>3. CASE Views!ClearThreadSelection
  <2>1. /\ loads' = loads /\ UNCHANGED drawer /\ drawer = "closed" /\ shown'["relationship"] = shown["relationship"]
        /\ strayed \subseteq strayed'
    BY <1>3 DEF Views!ClearThreadSelection, ViewTyped, Views!Views
  <2> QED BY <1>0, <2>1 DEF ViewForm
<1>4. CASE Views!CloseDrawer \/ Views!SaveRelationship
  <2>1. drawer' = "closed" /\ UNCHANGED <<selected, loads, shown, strayed>>
    BY <1>4 DEF Views!CloseDrawer, Views!SaveRelationship
  <2> QED BY <1>0, <2>1 DEF ViewForm
<1>5. ASSUME NEW l \in loads, Views!Answer(l) \/ Views!LoadFails(l) PROVE ViewForm'
  <2>1. /\ loads' = loads \ {l} /\ UNCHANGED <<selected, strayed>> /\ l.view \in Views!Views /\ drawer' = Views!Unlocked(l)
        /\ \/ shown' = [shown EXCEPT ![l.view] = l.of]
           \/ shown' = [shown EXCEPT ![l.view] = Views!Blank] /\ mishaps' > 0
    BY <1>0, <1>5 DEF Views!Answer, Views!LoadFails, ViewTyped, Views!Fault
  <2>2. CASE l.view = "relationship"
    <3>1. shown'["relationship"] = l.of \/ (shown'["relationship"] = Views!Blank /\ mishaps' > 0)
      BY <2>1, <2>2 DEF ViewTyped, Views!Views
    <3>2. l.of \in Threads
      BY <2>2 DEF ViewForm
    <3>3. "relationship" \notin strayed => (\A m \in loads' : m.view # "relationship") /\ (drawer = "loading" => l.of = selected)
      BY <2>1, <2>2 DEF ViewForm
    <3>4. "relationship" \notin strayed => drawer # "open"
      BY <2>2 DEF ViewForm
    <3>5. drawer' = (IF drawer = "loading" THEN "open" ELSE drawer)
      BY <2>1, <2>2 DEF Views!Unlocked
    <3> QED BY <1>0, <2>1, <3>1, <3>2, <3>3, <3>4, <3>5, ViewNobodyIsNone DEF ViewForm
  <2>3. CASE l.view # "relationship"
    <3>1. shown'["relationship"] = shown["relationship"]
      BY <2>1, <2>3 DEF ViewTyped, Views!Views
    <3>2. drawer' = drawer
      BY <2>1, <2>3 DEF Views!Unlocked
    <3> QED BY <1>0, <2>1, <3>1, <3>2 DEF ViewForm
  <2> QED BY <2>2, <2>3
<1>6. CASE ViewModeStep \/ ViewFileStep
  BY <1>0, <1>6, ViewStepsLeave DEF ViewForm
<1>7. CASE UNCHANGED Views!vars
  BY <1>0, <1>7 DEF Views!vars, Views!views, ViewForm
<1>8. CASE (\E t \in Threads : Views!SelectThread(t)) \/ Views!Refresh \/ Views!OpenMemory
  <2>1. {"messages", "hits"} \in SUBSET Views!Views /\ {"messages"} \in SUBSET Views!Views /\ {"memory"} \in SUBSET Views!Views
    BY DEF Views!Views
  <2> QED BY <1>1, <1>8, <2>1 DEF Views!SelectThread, Views!Refresh, Views!OpenMemory, ViewChosen
<1> QED BY <1>2, <1>3, <1>4, <1>5, <1>6, <1>7, <1>8, ViewStepsLeave DEF ViewViewStep

LEMMA ViewSavedStep == ViewTyped /\ ViewForm /\ Views!SavedIsLoaded /\ [Views!Next]_Views!vars => Views!SavedIsLoaded'
<1> SUFFICES ASSUME ViewTyped, ViewForm, Views!SavedIsLoaded, [Views!Next]_Views!vars PROVE Views!SavedIsLoaded'
  OBVIOUS
<1>0. mishaps' \in Nat /\ mishaps' >= mishaps /\ mishaps \in Nat
  BY ViewFaultsGrow DEF ViewTyped
<1>1. CASE Views!SaveRelationship
  <2>1. /\ profile' = [profile EXCEPT ![selected] = shown["relationship"]] /\ drawer = "open" /\ selected \in Threads
        /\ strayed' = strayed
    BY <1>1 DEF Views!SaveRelationship, ViewForm
  <2>2. /\ shown["relationship"] \in Threads \cup {Views!Blank} /\ (shown["relationship"] = Views!Blank => mishaps > 0)
        /\ "relationship" \notin strayed => shown["relationship"] \in {selected, Views!Blank}
    BY <2>1 DEF ViewForm
  <2> QED BY <1>0, <2>1, <2>2, ViewNobodyIsNone DEF Views!SavedIsLoaded, ViewTyped
<1>2. CASE ~Views!SaveRelationship
  <2>1. profile' = profile
    BY <1>2, ViewStepsLeave DEF ViewViewStep, Views!SelectThread, Views!ClearThreadSelection,
           Views!Refresh, Views!OpenMemory, Views!OpenRelationship,
       Views!CloseDrawer, Views!Answer, Views!LoadFails, Views!vars, Views!views
  <2>2. strayed \subseteq strayed'
    BY <1>2, ViewStepsLeave DEF ViewViewStep, Views!SelectThread, Views!ClearThreadSelection,
           Views!Refresh, Views!OpenMemory, Views!OpenRelationship,
       Views!CloseDrawer, Views!Answer, Views!LoadFails, Views!vars, Views!views, Views!Load
  <2> QED BY <1>0, <2>1, <2>2 DEF Views!SavedIsLoaded
<1> QED BY <1>1, <1>2

LEMMA ViewModesStep == ViewTyped /\ ViewModes /\ [Views!Next]_Views!vars => ViewModes'
<1> SUFFICES ASSUME ViewTyped, ViewModes, [Views!Next]_Views!vars PROVE ViewModes'
  OBVIOUS
<1>1. CASE Views!CycleMode
  <2> DEFINE s == selected
             new == [of |-> s, from |-> mode[s], to |-> Views!After(mode[s]), n |-> clicks]
  <2>1. /\ s \in Threads /\ mode' = [mode EXCEPT ![s] = Views!After(mode[s])] /\ kept' = kept
        /\ cycles' = cycles \cup {new}
        /\ doubtful' = IF \E c \in cycles : c.of = s THEN doubtful \cup {s} ELSE doubtful
    BY <1>1 DEF Views!CycleMode, ViewTyped, ViewChosen
  <2>2. new.of = s /\ new.from = mode[s] /\ new.to = Views!After(mode[s])
    OBVIOUS
  <2> HIDE DEF new, s
  <2> SUFFICES ASSUME NEW t \in Threads \ doubtful'
               PROVE  /\ \A c, d \in cycles' : c.of = t /\ d.of = t => c = d
                      /\ \A c \in cycles' : c.of = t => mode'[t] = c.to /\ kept'[t] = c.from
                      /\ (\A c \in cycles' : c.of # t) => mode'[t] = kept'[t]
    BY DEF ViewModes
  <2>3. t \in Threads \ doubtful
    BY <2>1
  <2>4. CASE t = s
    <3>1. \A c \in cycles : c.of # t
      BY <2>1, <2>4
    <3>2. mode[t] = kept[t] /\ mode'[t] = Views!After(mode[s])
      BY <2>1, <2>3, <2>4, <3>1 DEF ViewModes, ViewTyped
    <3> QED BY <2>1, <2>2, <2>4, <3>1, <3>2
  <2>5. CASE t # s
    <3>1. mode'[t] = mode[t]
      BY <2>1, <2>5 DEF ViewTyped
    <3> QED BY <2>1, <2>2, <2>3, <2>5, <3>1 DEF ViewModes
  <2> QED BY <2>4, <2>5
<1>2. ASSUME NEW c \in cycles, Views!ModeIsSet(c) PROVE ViewModes'
  <2>1. cycles' = cycles \ {c} /\ kept' = [kept EXCEPT ![c.of] = c.to] /\ UNCHANGED <<mode, doubtful>> /\ c.of \in Threads
    BY <1>2 DEF Views!ModeIsSet, ViewTyped
  <2> SUFFICES ASSUME NEW t \in Threads \ doubtful
               PROVE  /\ \A e, d \in cycles' : e.of = t /\ d.of = t => e = d
                      /\ \A e \in cycles' : e.of = t => mode'[t] = e.to /\ kept'[t] = e.from
                      /\ (\A e \in cycles' : e.of # t) => mode'[t] = kept'[t]
    BY <2>1 DEF ViewModes
  <2>2. CASE t = c.of
    <3>1. kept'[t] = c.to /\ mode'[t] = c.to /\ \A e \in cycles' : e.of # t
      BY <2>1, <2>2 DEF ViewModes, ViewTyped
    <3> QED BY <3>1
  <2>3. CASE t # c.of
    <3>1. kept'[t] = kept[t]
      BY <2>1, <2>3 DEF ViewTyped
    <3> QED BY <2>1, <2>3, <3>1 DEF ViewModes
  <2> QED BY <2>2, <2>3
<1>3. ASSUME NEW c \in cycles, Views!ModeFails(c) PROVE ViewModes'
  <2>1. /\ cycles' = cycles \ {c} /\ c.of \in Threads
        /\ kept' \in {kept, [kept EXCEPT ![c.of] = c.to]}
        /\ mode' = IF selected = Nobody THEN mode ELSE [mode EXCEPT ![selected] = c.from]
        /\ doubtful' = IF kept' = kept /\ selected = c.of THEN doubtful
                       ELSE doubtful \cup ({c.of, selected} \ {Nobody})
    BY <1>3 DEF Views!ModeFails, ViewTyped
  <2> SUFFICES ASSUME NEW t \in Threads \ doubtful'
               PROVE  /\ \A e, d \in cycles' : e.of = t /\ d.of = t => e = d
                      /\ \A e \in cycles' : e.of = t => mode'[t] = e.to /\ kept'[t] = e.from
                      /\ (\A e \in cycles' : e.of # t) => mode'[t] = kept'[t]
    BY DEF ViewModes
  <2>2. t \in Threads \ doubtful
    BY <2>1
  <2>3. CASE t = c.of
    <3>1. kept' = kept /\ selected = t
      BY <2>1, <2>3, ViewNobodyIsNone
    <3>2. kept[t] = c.from /\ \A e \in cycles' : e.of # t
      BY <2>1, <2>2, <2>3 DEF ViewModes
    <3>3. mode'[t] = c.from
      BY <2>1, <3>1, ViewNobodyIsNone DEF ViewTyped
    <3> QED BY <3>1, <3>2, <3>3
  <2>4. CASE t # c.of
    <3>1. selected # t
      BY <2>1, <2>4, ViewNobodyIsNone
    <3>2. mode'[t] = mode[t] /\ kept'[t] = kept[t]
      BY <2>1, <2>4, <3>1 DEF ViewTyped
    <3> QED BY <2>1, <2>2, <2>4, <3>2 DEF ViewModes
  <2> QED BY <2>3, <2>4
<1>4. CASE ViewViewStep \/ ViewFileStep \/ UNCHANGED Views!vars
  <2>1. UNCHANGED <<mode, kept, cycles, doubtful>>
    BY <1>4, ViewStepsLeave DEF Views!vars, Views!modes
  <2> QED BY <2>1 DEF ViewModes
<1> QED BY <1>1, <1>2, <1>3, <1>4, ViewStepsLeave DEF ViewModeStep

LEMMA ViewUploadsStep == ViewTyped /\ ViewUploads /\ [Views!Next]_Views!vars => ViewUploads'
<1> SUFFICES ASSUME ViewTyped, ViewUploads, [Views!Next]_Views!vars PROVE ViewUploads'
  OBVIOUS
<1>1. ASSUME NEW f \in Files, Views!Upload(f) PROVE ViewUploads'
  <2> SUFFICES ASSUME ~mixed' PROVE ViewUploads'
    BY DEF ViewUploads
  <2>1. ~mixed /\ Views!Uploading = {}
    BY <1>1 DEF Views!Upload
  <2>2. ViewOthers(f) /\ upload'[f].pc = "reading" /\ upload'[f].wanted = field'
    BY <1>1, ViewUploadMoves
  <2>3. Views!Uploading' = {f}
    BY <2>1, <2>2 DEF Views!Uploading, ViewOthers
  <2> QED BY <2>1, <2>2, <2>3 DEF ViewUploads, ViewOthers
<1>2. ASSUME NEW f \in Files, Views!Prepare(f) PROVE ViewUploads'
  <2>1. UNCHANGED <<field, mixed>> /\ meta' = f /\ upload[f].pc = "reading"
    BY <1>2 DEF Views!Prepare
  <2>2. ViewOthers(f) /\ upload'[f].pc = "prepared" /\ upload'[f].wanted = upload[f].wanted
    BY <1>2, ViewUploadMoves
  <2>3. Views!Uploading' = Views!Uploading /\ f \in Views!Uploading
    BY <2>1, <2>2 DEF Views!Uploading, ViewOthers
  <2> QED BY <2>1, <2>2, <2>3 DEF ViewUploads, ViewOthers
<1>3. ASSUME NEW f \in Files, Views!Submit(f) PROVE ViewUploads'
  <2>1. UNCHANGED <<field, meta, mixed>> /\ upload[f].pc = "prepared"
    BY <1>3 DEF Views!Submit
  <2>2. /\ ViewOthers(f) /\ upload'[f].pc = "sending" /\ upload'[f].wanted = upload[f].wanted
        /\ upload'[f].file = meta /\ upload'[f].thread = field
    BY <1>3, ViewUploadMoves
  <2>3. Views!Uploading' = Views!Uploading /\ f \in Views!Uploading
    BY <2>1, <2>2 DEF Views!Uploading, ViewOthers
  <2> QED BY <2>1, <2>2, <2>3 DEF ViewUploads, ViewOthers
<1>4. ASSUME NEW f \in Files, Views!Ingested(f) PROVE ViewUploads'
  <2>1. UNCHANGED <<field, mixed>> /\ upload[f].pc = "sending"
    BY <1>4 DEF Views!Ingested
  <2>2. /\ ViewOthers(f) /\ upload'[f].pc = "ingested" /\ upload'[f].wanted = upload[f].wanted
        /\ upload'[f].file = upload[f].file /\ upload'[f].thread = upload[f].thread
    BY <1>4, ViewUploadMoves
  <2>3. Views!Uploading' = Views!Uploading \ {f} /\ f \in Views!Uploading
    BY <2>1, <2>2 DEF Views!Uploading, ViewOthers
  <2>4. ~mixed => Views!Uploading' = {}
    BY <2>3 DEF ViewUploads
  <2> QED BY <2>1, <2>2, <2>4 DEF ViewUploads, ViewOthers
<1>5. ASSUME NEW f \in Files, Views!IngestFails(f) PROVE ViewUploads'
  <2>1. UNCHANGED <<field, meta, mixed>> /\ upload[f].pc = "sending"
    BY <1>5 DEF Views!IngestFails
  <2>2. ViewOthers(f) /\ upload'[f].pc = "failed"
    BY <1>5, ViewUploadMoves
  <2>3. Views!Uploading' = Views!Uploading \ {f}
    BY <2>1, <2>2 DEF Views!Uploading, ViewOthers
  <2>4. \A g \in Views!Uploading' : g # f
    BY <2>3
  <2> QED BY <2>1, <2>2, <2>3, <2>4 DEF ViewUploads, ViewOthers, Views!Uploading
<1>6. CASE ViewViewStep \/ ViewModeStep \/ UNCHANGED Views!vars
  <2>1. UNCHANGED <<upload, field, meta, mixed>>
    BY <1>6, ViewStepsLeave DEF Views!vars, Views!files
  <2> QED BY <2>1 DEF ViewUploads, Views!Uploading
<1> QED BY <1>1, <1>2, <1>3, <1>4, <1>5, <1>6, ViewStepsLeave DEF ViewFileStep

-----------------------------------------------------------------------------
ViewIInv == ViewTyped /\ ViewMessages /\ ViewForm /\ Views!SavedIsLoaded /\ ViewModes /\ ViewUploads

LEMMA ViewInitIInv == Views!Init => ViewIInv
<1> SUFFICES ASSUME Views!Init PROVE ViewIInv
  OBVIOUS
<1>1. Views!Unsent \in ViewUploadRows /\ Views!Unsent.pc = "none"
  BY DEF Views!Unsent, ViewUploadRows, ViewUploadPcs, ViewChosen, ViewMetas
<1>2. upload \in [Files -> ViewUploadRows] /\ \A f \in Files : upload[f].pc = "none"
  BY <1>1 DEF Views!Init
<1>3. ViewTyped
  BY <1>2 DEF Views!Init, ViewTyped, ViewChosen, ViewMetas
<1>4. ViewMessages /\ ViewForm /\ Views!SavedIsLoaded /\ ViewModes
  BY ViewNobodyIsNone DEF Views!Init, ViewMessages, ViewForm, Views!SavedIsLoaded, ViewModes, Views!Views
<1>5. ViewUploads
  BY <1>2 DEF ViewUploads, Views!Uploading
<1> QED BY <1>3, <1>4, <1>5 DEF ViewIInv

LEMMA ViewStepKeepsIInv == ViewIInv /\ [Views!Next]_Views!vars => ViewIInv'
BY ViewTypedStep, ViewMessagesStep, ViewFormStep, ViewSavedStep, ViewModesStep, ViewUploadsStep
   DEF ViewIInv

LEMMA ViewIInvIsOfThread == ViewIInv => Views!ViewsAreOfThread
BY DEF ViewIInv, Views!ViewsAreOfThread, ViewMessages, Views!MessagesAreOfThread, ViewModes,
       Views!ModesAgree, ViewUploads, Views!UploadsArrive

-----------------------------------------------------------------------------
\* The drafts in the console.
PanelIsTask(r) == r = [pc |-> r.pc, kind |-> r.kind, of |-> r.of, got |-> r.got, had |-> r.had, queue |-> r.queue]

\* A task knows the draft it is about, and only one that sends a message awaits its reply.
PanelTyped ==
  /\ chosen \in Threads \cup {Nobody} /\ DOMAIN status = Panel!Drafts /\ queued \subseteq Panel!Drafts
  /\ DOMAIN errands = Tasks /\ \A k \in Tasks : PanelIsTask(errands[k])
  /\ \A k \in Tasks :
       /\ errands[k].pc \in {"posting", "posted", "checking"} => errands[k].kind = "send"
       /\ errands[k].kind = "send" => errands[k].of[1] \in Threads
       /\ errands[k].kind = "send" /\ errands[k].pc # "posting" => errands[k].of \in Panel!Drafts
       /\ errands[k].pc \in {"approving", "approved"} => errands[k].of \in Panel!Drafts

\* The slot is of the one message that is awaited.
PanelSlot ==
  ~shared =>
    /\ \A k, l \in Panel!Awaiting : k = l
    /\ \A k \in Panel!Awaiting : errands[k].pc \notin {"posting", "posted"} => request = errands[k].of

\* The panel is as it would be rendered now, or a refresh is about to render it.
PanelRenders == \E k \in Tasks : errands[k].pc \in {"queueing", "queue", "loading"}
PanelFresh   == panel = Panel!Rendered(chosen, listed, request) \/ PanelRenders

\* What was put in the queue has been approved, and every refresh that has asked for the
\* queue since has it in its answer.
PanelDecided == {"APPROVED", "SENT"}
PanelKept ==
  /\ \A d \in queued : status[d] \in PanelDecided
  /\ \A k \in Tasks : errands[k].pc = "approved" => status[errands[k].of] \in PanelDecided
  /\ \A d \in queued \ missed : status[d] = "APPROVED" =>
       d \in pending /\ \A k \in Tasks : errands[k].pc = "queue" => d \in errands[k].queue

PanelIInv == PanelTyped /\ PanelSlot /\ Panel!StaleIsHidden /\ PanelFresh /\ PanelKept

-----------------------------------------------------------------------------
\* What becomes of a task.
PanelOthers(k) == DOMAIN errands' = Tasks /\ \A l \in Tasks : l # k => errands'[l] = errands[l]

\* The task that a step moves: where it is then, what for, of which draft, and the answer
\* it holds.
PanelMoves(k, pc, kind, of, queue) ==
  /\ PanelOthers(k) /\ PanelIsTask(errands'[k])
  /\ errands'[k].pc = pc /\ errands'[k].kind = kind /\ errands'[k].of = of /\ errands'[k].queue = queue

LEMMA PanelMoveFacts ==
  ASSUME PanelTyped, NEW k \in Tasks
  PROVE  /\ \A pc : Panel!Goes(k, pc) => PanelMoves(k, pc, errands[k].kind, errands[k].of, errands[k].queue)
         /\ \A kind, pc, d : Panel!Start(k, kind, pc, d) => PanelMoves(k, pc, kind, d, errands[k].queue)
         /\ Panel!Ends(k) => PanelMoves(k, "idle", "none", <<Nobody, 0>>, {})
         /\ \A d : errands' = [errands EXCEPT ![k].pc = "posted", ![k].of = d] =>
                     PanelMoves(k, "posted", errands[k].kind, d, errands[k].queue)
         /\ Panel!ListsDrafts(k) => PanelMoves(k, "drafts", errands[k].kind, errands[k].of, errands[k].queue)
         /\ Panel!TakesDrafts(k) => PanelMoves(k, "queueing", errands[k].kind, errands[k].of, errands[k].queue)
         /\ Panel!ListsQueue(k) =>
              PanelMoves(k, "queue", errands[k].kind, errands[k].of, {d \in Panel!Drafts : status[d] = "APPROVED"})
         /\ Panel!TakesQueue(k) => PanelMoves(k, "loading", errands[k].kind, errands[k].of, {})
<1> PICK r : r = errands[k]
  OBVIOUS
<1>1. PanelIsTask(r) /\ DOMAIN errands = Tasks
  BY DEF PanelTyped
<1>2. \A s : errands' = [errands EXCEPT ![k] = s] => errands'[k] = s /\ PanelOthers(k)
  BY <1>1 DEF PanelOthers
<1>3. ASSUME NEW pc, Panel!Goes(k, pc)
      PROVE  PanelMoves(k, pc, errands[k].kind, errands[k].of, errands[k].queue)
  <2> PICK s : s = [r EXCEPT !.pc = pc]
    OBVIOUS
  <2>1. PanelIsTask(s) /\ s.pc = pc /\ s.kind = r.kind /\ s.of = r.of /\ s.queue = r.queue
    BY <1>1 DEF PanelIsTask
  <2>2. errands' = [errands EXCEPT ![k] = s]
    BY <1>1, <1>3 DEF Panel!Goes
  <2> QED BY <1>2, <2>1, <2>2 DEF PanelMoves
<1>4. ASSUME NEW kind, NEW pc, NEW d, Panel!Start(k, kind, pc, d)
      PROVE  PanelMoves(k, pc, kind, d, errands[k].queue)
  <2> PICK s : s = [r EXCEPT !.pc = pc]
    OBVIOUS
  <2>1. PanelIsTask(s) /\ s.pc = pc /\ s.kind = r.kind /\ s.of = r.of /\ s.queue = r.queue
    BY <1>1 DEF PanelIsTask
  <2> PICK u : u = [s EXCEPT !.kind = kind]
    OBVIOUS
  <2>2. PanelIsTask(u) /\ u.pc = pc /\ u.kind = kind /\ u.of = r.of /\ u.queue = r.queue
    BY <2>1 DEF PanelIsTask
  <2> PICK w : w = [u EXCEPT !.of = d]
    OBVIOUS
  <2>3. PanelIsTask(w) /\ w.pc = pc /\ w.kind = kind /\ w.of = d /\ w.queue = r.queue
    BY <2>2 DEF PanelIsTask
  <2>4. errands' = [errands EXCEPT ![k] = w]
    BY <1>1, <1>4 DEF Panel!Start
  <2> QED BY <1>2, <2>3, <2>4 DEF PanelMoves
<1>5. ASSUME Panel!Ends(k) PROVE PanelMoves(k, "idle", "none", <<Nobody, 0>>, {})
  <2>1. Panel!Idle = [pc |-> Panel!Idle.pc, kind |-> Panel!Idle.kind, of |-> Panel!Idle.of, got |-> Panel!Idle.got, had |-> Panel!Idle.had,
                queue |-> Panel!Idle.queue]
        /\ Panel!Idle.pc = "idle" /\ Panel!Idle.kind = "none" /\ Panel!Idle.of = <<Nobody, 0>> /\ Panel!Idle.queue = {}
    BY DEF Panel!Idle
  <2>2. errands'[k] = Panel!Idle /\ PanelOthers(k)
    BY <1>2, <1>5 DEF Panel!Ends
  <2> QED BY <2>1, <2>2 DEF PanelMoves, PanelIsTask
<1>6. ASSUME NEW d, errands' = [errands EXCEPT ![k].pc = "posted", ![k].of = d]
      PROVE  PanelMoves(k, "posted", errands[k].kind, d, errands[k].queue)
  <2> PICK s : s = [r EXCEPT !.pc = "posted"]
    OBVIOUS
  <2>1. PanelIsTask(s) /\ s.pc = "posted" /\ s.kind = r.kind /\ s.of = r.of /\ s.queue = r.queue
    BY <1>1 DEF PanelIsTask
  <2> PICK u : u = [s EXCEPT !.of = d]
    OBVIOUS
  <2>2. PanelIsTask(u) /\ u.pc = "posted" /\ u.kind = r.kind /\ u.of = d /\ u.queue = r.queue
    BY <2>1 DEF PanelIsTask
  <2>3. errands' = [errands EXCEPT ![k] = u]
    BY <1>1, <1>6
  <2> QED BY <1>2, <2>2, <2>3 DEF PanelMoves
<1>7. ASSUME Panel!ListsDrafts(k)
      PROVE  PanelMoves(k, "drafts", errands[k].kind, errands[k].of, errands[k].queue)
  <2> PICK s : s = [r EXCEPT !.pc = "drafts"]
    OBVIOUS
  <2>1. PanelIsTask(s) /\ s.pc = "drafts" /\ s.kind = r.kind /\ s.of = r.of /\ s.queue = r.queue
    BY <1>1 DEF PanelIsTask
  <2> PICK u : u = [s EXCEPT !.got = [t \in Threads |-> Panel!Listed(t)]]
    OBVIOUS
  <2>2. PanelIsTask(u) /\ u.pc = "drafts" /\ u.kind = r.kind /\ u.of = r.of /\ u.queue = r.queue
    BY <2>1 DEF PanelIsTask
  <2>3. errands' = [errands EXCEPT ![k] = u] \/ errands' = [errands EXCEPT ![k] = s]
    BY <1>1, <1>7 DEF Panel!ListsDrafts
  <2> QED BY <1>2, <2>1, <2>2, <2>3 DEF PanelMoves
<1>8. ASSUME Panel!TakesDrafts(k)
      PROVE  PanelMoves(k, "queueing", errands[k].kind, errands[k].of, errands[k].queue)
  <2> PICK s : s = [r EXCEPT !.pc = "queueing"]
    OBVIOUS
  <2>1. PanelIsTask(s) /\ s.pc = "queueing" /\ s.kind = r.kind /\ s.of = r.of /\ s.queue = r.queue
    BY <1>1 DEF PanelIsTask
  <2> PICK u : u = [s EXCEPT !.got = Panel!Idle.got]
    OBVIOUS
  <2>2. PanelIsTask(u) /\ u.pc = "queueing" /\ u.kind = r.kind /\ u.of = r.of /\ u.queue = r.queue
    BY <2>1 DEF PanelIsTask
  <2> PICK w : w = [u EXCEPT !.had = pending]
    OBVIOUS
  <2>3. PanelIsTask(w) /\ w.pc = "queueing" /\ w.kind = r.kind /\ w.of = r.of /\ w.queue = r.queue
    BY <2>2 DEF PanelIsTask
  <2>4. errands' = [errands EXCEPT ![k] = w]
    BY <1>1, <1>8 DEF Panel!TakesDrafts
  <2> QED BY <1>2, <2>3, <2>4 DEF PanelMoves
<1>9. ASSUME Panel!ListsQueue(k)
      PROVE  PanelMoves(k, "queue", errands[k].kind, errands[k].of, {d \in Panel!Drafts : status[d] = "APPROVED"})
  <2> PICK q : q = {d \in Panel!Drafts : status[d] = "APPROVED"}
    OBVIOUS
  <2> PICK s : s = [r EXCEPT !.pc = "queue"]
    OBVIOUS
  <2>1. PanelIsTask(s) /\ s.pc = "queue" /\ s.kind = r.kind /\ s.of = r.of /\ s.queue = r.queue
    BY <1>1 DEF PanelIsTask
  <2> PICK u : u = [s EXCEPT !.queue = q]
    OBVIOUS
  <2>2. PanelIsTask(u) /\ u.pc = "queue" /\ u.kind = r.kind /\ u.of = r.of /\ u.queue = q
    BY <2>1 DEF PanelIsTask
  <2>3. errands' = [errands EXCEPT ![k] = u]
    BY <1>1, <1>9 DEF Panel!ListsQueue
  <2> QED BY <1>2, <2>2, <2>3 DEF PanelMoves
<1>10. ASSUME Panel!TakesQueue(k)
      PROVE  PanelMoves(k, "loading", errands[k].kind, errands[k].of, {})
  <2> PICK s : s = [r EXCEPT !.pc = "loading"]
    OBVIOUS
  <2>1. PanelIsTask(s) /\ s.pc = "loading" /\ s.kind = r.kind /\ s.of = r.of /\ s.queue = r.queue
    BY <1>1 DEF PanelIsTask
  <2> PICK u : u = [s EXCEPT !.queue = {}]
    OBVIOUS
  <2>2. PanelIsTask(u) /\ u.pc = "loading" /\ u.kind = r.kind /\ u.of = r.of /\ u.queue = {}
    BY <2>1 DEF PanelIsTask
  <2> PICK w : w = [u EXCEPT !.had = {}]
    OBVIOUS
  <2>3. PanelIsTask(w) /\ w.pc = "loading" /\ w.kind = r.kind /\ w.of = r.of /\ w.queue = {}
    BY <2>2 DEF PanelIsTask
  <2>4. errands' = [errands EXCEPT ![k] = w]
    BY <1>1, <1>10 DEF Panel!TakesQueue
  <2> QED BY <1>2, <2>3, <2>4 DEF PanelMoves
<1> QED BY <1>3, <1>4, <1>5, <1>6, <1>7, <1>8, <1>9, <1>10

-----------------------------------------------------------------------------
PanelPast(pc)   == pc \notin {"posting", "posted"}
PanelAbout(pc)  == pc \in {"queueing", "queue", "loading"}
PanelRowOK(pc, kind, of) ==
  /\ pc \in {"posting", "posted", "checking"} => kind = "send"
  /\ kind = "send" => of[1] \in Threads
  /\ kind = "send" /\ pc # "posting" => of \in Panel!Drafts
  /\ pc \in {"approving", "approved"} => of \in Panel!Drafts

LEMMA PanelTypedKeeps ==
  ASSUME PanelTyped, NEW k \in Tasks, NEW pc, NEW kind, NEW of, NEW queue, PanelMoves(k, pc, kind, of, queue),
         PanelRowOK(pc, kind, of), chosen' \in Threads \cup {Nobody}, DOMAIN status' = Panel!Drafts, queued' \subseteq Panel!Drafts
  PROVE  PanelTyped'
<1>1. \A l \in Tasks : l # k => errands'[l] = errands[l]
  BY DEF PanelMoves, PanelOthers
<1>2. PanelIsTask(errands[k])' /\ \A l \in Tasks : l # k => PanelIsTask(errands[l])'
  BY <1>1 DEF PanelMoves, PanelTyped, PanelIsTask
<1>3. \A l \in Tasks : PanelRowOK(errands[l].pc, errands[l].kind, errands[l].of)
  BY DEF PanelTyped, PanelRowOK
<1>4. \A l \in Tasks : PanelRowOK(errands'[l].pc, errands'[l].kind, errands'[l].of)
  BY <1>1, <1>3 DEF PanelMoves
<1>5. \A l \in Tasks :
        /\ errands'[l].pc \in {"posting", "posted", "checking"} => errands'[l].kind = "send"
        /\ errands'[l].kind = "send" => errands'[l].of[1] \in Threads
        /\ errands'[l].kind = "send" /\ errands'[l].pc # "posting" => errands'[l].of \in Panel!Drafts
        /\ errands'[l].pc \in {"approving", "approved"} => errands'[l].of \in Panel!Drafts
  BY <1>4 DEF PanelRowOK
<1>6. DOMAIN errands' = Tasks
  BY DEF PanelMoves, PanelOthers
<1> QED BY <1>2, <1>5, <1>6 DEF PanelTyped, Panel!Drafts

\* A step after which nobody awaits a reply who did not before, or another one.
PanelWaits(k, pc, kind, of) ==
  kind = "send" => errands[k].kind = "send" /\ (PanelPast(pc) => of = errands[k].of /\ PanelPast(errands[k].pc))

LEMMA PanelWaitsKeep ==
  ASSUME PanelTyped, NEW k \in Tasks, NEW pc, NEW kind, NEW of, NEW queue, PanelMoves(k, pc, kind, of, queue),
         PanelWaits(k, pc, kind, of), UNCHANGED shared
  PROVE  /\ PanelSlot /\ UNCHANGED request => PanelSlot'
         /\ Panel!StaleIsHidden /\ UNCHANGED panel => Panel!StaleIsHidden'
<1>1. \A l \in Panel!Awaiting' :
        /\ l \in Panel!Awaiting
        /\ PanelPast(errands'[l].pc) => errands'[l].of = errands[l].of /\ PanelPast(errands[l].pc)
  BY DEF Panel!Awaiting, PanelMoves, PanelOthers, PanelWaits
<1>2. \A l \in Tasks : PanelPast(errands'[l].pc) <=> errands'[l].pc \notin {"posting", "posted"}
  BY DEF PanelPast
<1>3. \A l \in Tasks : PanelPast(errands[l].pc) <=> errands[l].pc \notin {"posting", "posted"}
  BY DEF PanelPast
<1>4. Panel!Awaiting \subseteq Tasks /\ Panel!Awaiting' \subseteq Tasks
  BY DEF Panel!Awaiting
<1>5. PanelSlot /\ UNCHANGED request => PanelSlot'
  BY <1>1, <1>2, <1>3, <1>4 DEF PanelSlot
<1>6. Panel!StaleIsHidden /\ UNCHANGED panel => Panel!StaleIsHidden'
  BY <1>1, <1>2, <1>3, <1>4 DEF Panel!StaleIsHidden
<1> QED BY <1>5, <1>6

\* What is rendered never is an older draft than the one awaited.
LEMMA PanelRenderedHides ==
  ASSUME PanelTyped', PanelSlot', panel' = Panel!Rendered(chosen', listed', request')
  PROVE  Panel!StaleIsHidden'
<1> SUFFICES ASSUME ~shared', NEW k \in Panel!Awaiting', errands'[k].pc \notin {"posting", "posted"},
                    panel'[1] = errands'[k].of[1]
             PROVE  panel' = errands'[k].of
  BY DEF Panel!StaleIsHidden
<1> PICK of : of = errands'[k].of
  OBVIOUS
<1>1. request' = of /\ of \in Panel!Drafts /\ of[1] \in Threads
  BY DEF PanelSlot, PanelTyped, Panel!Awaiting, Panel!Drafts
<1>2. of = <<of[1], of[2]>>
  BY <1>1 DEF Panel!Drafts
<1>3. Panel!Nothing[1] = Nobody /\ Panel!Drafting[1] = Nobody /\ of[1] # Nobody
  BY <1>1, NobodyIsNone DEF Panel!Nothing, Panel!Drafting
<1>4. panel' \notin {Panel!Nothing, Panel!Drafting}
  BY <1>3
<1>5. /\ panel' = <<chosen', listed'[chosen']>>
      /\ ~(request'[1] = chosen' /\ listed'[chosen'] # request'[2])
  BY <1>4 DEF Panel!Rendered
<1>6. chosen' = of[1]
  BY <1>5
<1> QED BY <1>1, <1>2, <1>5, <1>6

\* What was decided stays so.
PanelDecides ==
  /\ DOMAIN status' = Panel!Drafts
  /\ \A d \in Panel!Drafts : status[d] \in PanelDecided =>
       status'[d] \in PanelDecided /\ (status'[d] = "APPROVED" => status[d] = "APPROVED")

LEMMA PanelKeptKeeps ==
  ASSUME PanelTyped, PanelKept, NEW k \in Tasks, NEW pc, NEW kind, NEW of, NEW queue, PanelMoves(k, pc, kind, of, queue),
         PanelDecides, UNCHANGED <<pending, queued, missed>>, pc = "approved" => status'[of] \in PanelDecided,
         pc = "queue" => UNCHANGED status /\ queue = {d \in Panel!Drafts : status[d] = "APPROVED"}
  PROVE  PanelKept'
<1>1. \A l \in Tasks : l # k => errands'[l] = errands[l]
  BY DEF PanelMoves, PanelOthers
<1>2. \A d \in queued' : status'[d] \in PanelDecided
  BY DEF PanelKept, PanelDecides, PanelTyped
<1>3. \A l \in Tasks : errands'[l].pc = "approved" => status'[errands'[l].of] \in PanelDecided
  BY <1>1 DEF PanelKept, PanelDecides, PanelTyped, PanelMoves
<1>4. ASSUME NEW d \in queued' \ missed', status'[d] = "APPROVED"
      PROVE  d \in pending' /\ \A l \in Tasks : errands'[l].pc = "queue" => d \in errands'[l].queue
  <2>1. d \in queued \ missed /\ d \in Panel!Drafts /\ status[d] = "APPROVED"
    BY <1>4 DEF PanelKept, PanelDecides, PanelTyped
  <2>2. d \in pending /\ \A l \in Tasks : errands[l].pc = "queue" => d \in errands[l].queue
    BY <2>1 DEF PanelKept
  <2>3. pc = "queue" => d \in queue
    BY <2>1
  <2> QED BY <1>1, <2>2, <2>3 DEF PanelMoves
<1> QED BY <1>2, <1>3, <1>4 DEF PanelKept

-----------------------------------------------------------------------------
\* The steps that change nothing the panel or the queue is shown from.
LEMMA PanelCalmKeeps ==
  ASSUME PanelIInv, NEW k \in Tasks, NEW pc, NEW kind, NEW of, NEW queue, PanelMoves(k, pc, kind, of, queue),
         PanelRowOK(pc, kind, of), PanelWaits(k, pc, kind, of), PanelDecides, PanelAbout(errands[k].pc) => PanelAbout(pc),
         UNCHANGED <<chosen, listed, request, panel, pending, shared, queued, missed>>,
         pc = "approved" => status'[of] \in PanelDecided,
         pc = "queue" => UNCHANGED status /\ queue = {d \in Panel!Drafts : status[d] = "APPROVED"}
  PROVE  PanelIInv'
<1> USE DEF PanelIInv
<1>1. PanelTyped'
  BY PanelTypedKeeps DEF PanelTyped, PanelDecides
<1>2. PanelSlot' /\ Panel!StaleIsHidden'
  BY PanelWaitsKeep
<1>3. PanelKept'
  BY PanelKeptKeeps
<1>4. PanelFresh'
  <2>1. PanelRenders => PanelRenders'
    BY DEF PanelRenders, PanelAbout, PanelMoves, PanelOthers
  <2> QED BY <2>1 DEF PanelFresh, Panel!Rendered
<1> QED BY <1>1, <1>2, <1>3, <1>4

\* The steps after which the panel is rendered.
LEMMA PanelRenderKeeps ==
  ASSUME PanelIInv, NEW k \in Tasks, NEW pc, NEW kind, NEW of, NEW queue, PanelMoves(k, pc, kind, of, queue),
         PanelRowOK(pc, kind, of), chosen' \in Threads \cup {Nobody}, PanelSlot',
         UNCHANGED <<status, pending, queued, missed>>, pc \notin {"approved", "queue"},
         panel' = Panel!Rendered(chosen', listed', request')
  PROVE  PanelIInv'
<1> USE DEF PanelIInv
<1>1. PanelTyped'
  BY PanelTypedKeeps DEF PanelTyped
<1>2. Panel!StaleIsHidden'
  BY <1>1, PanelRenderedHides
<1>3. PanelDecides
  BY DEF PanelDecides, PanelTyped
<1>4. PanelKept'
  BY <1>3, PanelKeptKeeps
<1>5. PanelFresh'
  BY DEF PanelFresh
<1> QED BY <1>1, <1>2, <1>4, <1>5

-----------------------------------------------------------------------------
LEMMA PanelSameDecides ==
  PanelTyped /\ UNCHANGED status => PanelDecides
BY DEF PanelDecides, PanelTyped

\* One draft is decided, or decided once more.
LEMMA PanelOneDecides ==
  ASSUME PanelTyped, NEW d, NEW v, status' = [status EXCEPT ![d] = v],
         \/ status[d] \notin PanelDecided
         \/ v \in PanelDecided /\ (v = "APPROVED" => status[d] = "APPROVED")
  PROVE  PanelDecides /\ (d \in Panel!Drafts => status'[d] = v)
BY DEF PanelDecides, PanelTyped

LEMMA PanelClickKeeps ==
  ASSUME PanelIInv, NEW k \in Tasks, Panel!RefreshData(k) \/ Panel!Approve(k) \/ Panel!Reject(k) \/ Panel!MarkSent(k)
  PROVE  PanelIInv'
<1>1. PICK kind, pc, d :
        /\ kind \in {"refresh", "approve", "reject", "mark"} /\ pc \in {"listing", "approving", "rejecting", "marking"}
        /\ Panel!Start(k, kind, pc, d) /\ (pc = "approving" => d \in Panel!Drafts)
  BY DEF Panel!RefreshData, Panel!Approve, Panel!Reject, Panel!MarkSent
<1>2. UNCHANGED <<status, chosen, listed, request, panel, pending, shared, queued, missed>>
  BY DEF Panel!RefreshData, Panel!Approve, Panel!Reject, Panel!MarkSent, Panel!server, Panel!client,
         Panel!history
<1>3. PanelMoves(k, pc, kind, d, errands[k].queue)
  BY <1>1, PanelMoveFacts DEF PanelIInv
<1>4. errands[k].pc = "idle"
  BY <1>1 DEF Panel!Start, Panel!At
<1>5. PanelRowOK(pc, kind, d) /\ PanelWaits(k, pc, kind, d) /\ ~PanelAbout(errands[k].pc)
  BY <1>1, <1>4 DEF PanelRowOK, PanelWaits, PanelAbout
<1>6. PanelDecides
  BY <1>2, PanelSameDecides DEF PanelIInv
<1> QED BY <1>1, <1>2, <1>3, <1>5, <1>6, PanelCalmKeeps

LEMMA PanelSendKeeps ==
  ASSUME PanelIInv, NEW k \in Tasks, Panel!SendInbound(k)
  PROVE  PanelIInv'
<1> USE DEF PanelIInv
<1> PICK of : of = <<chosen, 0>>
  OBVIOUS
<1>1. /\ chosen # Nobody /\ Panel!Start(k, "send", "posting", of) /\ (~shared' => Panel!Awaiting = {})
      /\ UNCHANGED <<status, chosen, listed, request, panel, pending, queued, missed>>
  <2>1. chosen # Nobody /\ (~shared' => Panel!Awaiting = {})
    BY Zenon DEF Panel!SendInbound
  <2>2. /\ Panel!Start(k, "send", "posting", of)
        /\ UNCHANGED <<status, chosen, listed, request, panel, pending, queued, missed>>
    BY DEF Panel!SendInbound, Panel!server, Panel!client
  <2> QED BY <2>1, <2>2
<1>2. PanelMoves(k, "posting", "send", of, errands[k].queue)
  BY <1>1, PanelMoveFacts
<1>3. PanelRowOK("posting", "send", of)
  <2>1. of[1] = chosen /\ chosen \in Threads
    BY <1>1 DEF PanelTyped
  <2> QED BY <2>1 DEF PanelRowOK
<1>4. PanelTyped'
  BY <1>1, <1>2, <1>3, PanelTypedKeeps DEF PanelTyped
<1>5. PanelSlot' /\ Panel!StaleIsHidden'
  <2> SUFFICES ASSUME ~shared' PROVE PanelSlot' /\ Panel!StaleIsHidden'
    BY DEF PanelSlot, Panel!StaleIsHidden
  <2>1. Panel!Awaiting = {}
    BY <1>1
  <2>2. \A l \in Panel!Awaiting' : l = k /\ errands'[l].pc = "posting"
    BY <1>2, <2>1 DEF Panel!Awaiting, PanelMoves, PanelOthers
  <2> QED BY <2>2 DEF PanelSlot, Panel!StaleIsHidden
<1>6. PanelKept'
  BY <1>1, <1>2, PanelSameDecides, PanelKeptKeeps
<1>7. PanelFresh'
  <2>1. ~PanelAbout(errands[k].pc)
    BY <1>1 DEF Panel!Start, Panel!At, PanelAbout
  <2>2. PanelRenders => PanelRenders'
    BY <1>2, <2>1 DEF PanelRenders, PanelAbout, PanelMoves, PanelOthers
  <2> QED BY <1>1, <2>2 DEF PanelFresh, Panel!Rendered
<1> QED BY <1>4, <1>5, <1>6, <1>7

LEMMA PanelPostKeeps ==
  ASSUME PanelIInv, NEW k \in Tasks, Panel!PostArrives(k)
  PROVE  PanelIInv'
<1> PICK t : t = errands[k].of[1]
  OBVIOUS
<1>1. PICK m \in 1..MaxMessages :
        /\ status[<<t, m>>] = "none" /\ status' = [status EXCEPT ![<<t, m>>] = "PENDING"]
        /\ errands' = [errands EXCEPT ![k].pc = "posted", ![k].of = <<t, m>>]
  BY DEF Panel!PostArrives
<1>2. /\ errands[k].pc = "posting"
      /\ UNCHANGED <<chosen, listed, request, panel, pending, shared, queued, missed>>
  BY DEF Panel!PostArrives, Panel!At, Panel!client, Panel!history
<1>3. errands[k].kind = "send" /\ t \in Threads
  BY <1>2 DEF PanelIInv, PanelTyped
<1> PICK d : d = <<t, m>>
  OBVIOUS
<1>4. d \in Panel!Drafts /\ d[1] \in Threads
  BY <1>3 DEF Panel!Drafts
<1>5. PanelMoves(k, "posted", errands[k].kind, d, errands[k].queue)
  BY <1>1, PanelMoveFacts DEF PanelIInv
<1>6. PanelDecides
  BY <1>1, PanelOneDecides DEF PanelIInv, PanelDecided
<1>7. PanelRowOK("posted", errands[k].kind, d) /\ PanelWaits(k, "posted", errands[k].kind, d) /\ ~PanelAbout(errands[k].pc)
  BY <1>2, <1>3, <1>4 DEF PanelRowOK, PanelWaits, PanelAbout, PanelPast
<1> QED BY <1>2, <1>5, <1>6, <1>7, PanelCalmKeeps

\* A click has arrived at the API, or has not.
LEMMA PanelArriveKeeps ==
  ASSUME PanelIInv, NEW k \in Tasks, Panel!ApproveArrives(k) \/ Panel!RejectArrives(k) \/ Panel!MarkArrives(k)
  PROVE  PanelIInv'
<1> PICK of : of = errands[k].of
  OBVIOUS
<1>1. PICK pc \in {"approved", "listing"}, v \in {"APPROVED", "REJECTED", "SENT"} :
        /\ Panel!Goes(k, pc) /\ status' = [status EXCEPT ![of] = v]
        /\ pc = "approved" => v = "APPROVED" /\ errands[k].pc = "approving"
        /\ status[of] = "DRAFTED" \/ v = "SENT"
        /\ errands[k].pc \in {"approving", "rejecting", "marking"}
  BY DEF Panel!ApproveArrives, Panel!RejectArrives, Panel!MarkArrives, Panel!At
<1>2. UNCHANGED <<chosen, listed, request, panel, pending, shared, queued, missed>>
  BY DEF Panel!ApproveArrives, Panel!RejectArrives, Panel!MarkArrives, Panel!client, Panel!history
<1>3. PanelMoves(k, pc, errands[k].kind, of, errands[k].queue)
  BY <1>1, PanelMoveFacts DEF PanelIInv
<1>4. PanelDecides /\ (of \in Panel!Drafts => status'[of] = v)
  BY <1>1, PanelOneDecides DEF PanelIInv, PanelDecided
<1>5. PanelRowOK(errands[k].pc, errands[k].kind, of)
  BY DEF PanelIInv, PanelTyped, PanelRowOK
<1>6. PanelRowOK(pc, errands[k].kind, of)
  BY <1>1, <1>5 DEF PanelRowOK
<1>7. PanelWaits(k, pc, errands[k].kind, of) /\ ~PanelAbout(errands[k].pc)
  BY <1>1 DEF PanelWaits, PanelAbout, PanelPast
<1>8. pc = "approved" => status'[of] \in PanelDecided
  BY <1>1, <1>4, <1>5 DEF PanelRowOK, PanelDecided
<1> QED BY <1>1, <1>2, <1>3, <1>4, <1>6, <1>7, <1>8, PanelCalmKeeps

LEMMA PanelFailKeeps ==
  ASSUME PanelIInv, NEW k \in Tasks, Panel!ClickFails(k)
  PROVE  PanelIInv'
<1> PICK of : of = <<Nobody, 0>>
  OBVIOUS
<1>1. /\ Panel!Ends(k) /\ errands[k].pc \in {"posting", "approving", "rejecting", "marking"}
      /\ UNCHANGED <<status, chosen, listed, request, panel, pending, shared, queued, missed>>
  BY DEF Panel!ClickFails, Panel!server, Panel!client, Panel!history
<1>2. PanelMoves(k, "idle", "none", of, {})
  BY <1>1, PanelMoveFacts DEF PanelIInv
<1>3. PanelRowOK("idle", "none", of) /\ PanelWaits(k, "idle", "none", of) /\ ~PanelAbout(errands[k].pc)
  BY <1>1 DEF PanelRowOK, PanelWaits, PanelAbout
<1>4. PanelDecides
  BY <1>1, PanelSameDecides DEF PanelIInv
<1> QED BY <1>1, <1>2, <1>3, <1>4, PanelCalmKeeps

\* The steps of a refresh that show nothing.
LEMMA PanelListKeeps ==
  ASSUME PanelIInv, NEW k \in Tasks, Panel!ListsDrafts(k) \/ Panel!ListsQueue(k) \/ Panel!PollsAgain(k)
  PROVE  PanelIInv'
<1> PICK kind : kind = errands[k].kind
  OBVIOUS
<1> PICK of : of = errands[k].of
  OBVIOUS
<1>0. PICK pc \in {"drafts", "queue", "listing"} : \E queue :
        /\ PanelMoves(k, pc, kind, of, queue)
        /\ pc = "queue" => queue = {d \in Panel!Drafts : status[d] = "APPROVED"}
        /\ errands[k].pc \in {"listing", "checking"} \/ (pc = "queue" /\ errands[k].pc = "queueing")
  BY PanelMoveFacts DEF PanelIInv, Panel!ListsDrafts, Panel!ListsQueue, Panel!PollsAgain, Panel!At
<1>1. PICK queue :
        /\ PanelMoves(k, pc, kind, of, queue)
        /\ pc = "queue" => queue = {d \in Panel!Drafts : status[d] = "APPROVED"}
        /\ errands[k].pc \in {"listing", "checking"} \/ (pc = "queue" /\ errands[k].pc = "queueing")
  BY <1>0
<1>2. UNCHANGED <<status, chosen, listed, request, panel, pending, shared, queued, missed>>
  BY DEF Panel!ListsDrafts, Panel!ListsQueue, Panel!PollsAgain, Panel!server, Panel!client, Panel!history
<1>3. PanelRowOK(errands[k].pc, kind, of)
  BY DEF PanelIInv, PanelTyped, PanelRowOK
<1>4. PanelRowOK(pc, kind, of)
  BY <1>0, <1>1, <1>3 DEF PanelRowOK
<1>5. PanelWaits(k, pc, kind, of) /\ (PanelAbout(errands[k].pc) => PanelAbout(pc))
  BY <1>0, <1>1 DEF PanelWaits, PanelAbout, PanelPast
<1>6. PanelDecides
  BY <1>2, PanelSameDecides DEF PanelIInv
<1> QED BY <1>0, <1>1, <1>2, <1>4, <1>5, <1>6, PanelCalmKeeps

\* The answer to the post.
LEMMA PanelPostedKeeps ==
  ASSUME PanelIInv, NEW k \in Tasks, Panel!Posted(k)
  PROVE  PanelIInv'
<1> USE DEF PanelIInv
<1> PICK of : of = errands[k].of
  OBVIOUS
<1>1. /\ errands[k].pc = "posted" /\ Panel!Goes(k, "listing") /\ request' = of
      /\ panel' = Panel!Rendered(chosen', listed', request')
      /\ UNCHANGED <<status, chosen, listed, pending, shared, queued, missed>>
  BY DEF Panel!Posted, Panel!At, Panel!server, Panel!history
<1>2. errands[k].kind = "send" /\ of \in Panel!Drafts /\ of[1] \in Threads
  BY <1>1 DEF PanelTyped
<1>3. PanelMoves(k, "listing", "send", of, errands[k].queue)
  BY <1>1, <1>2, PanelMoveFacts
<1>4. PanelRowOK("listing", "send", of)
  BY <1>2 DEF PanelRowOK
<1>5. PanelSlot'
  <2> SUFFICES ASSUME ~shared' PROVE PanelSlot'
    BY DEF PanelSlot
  <2>1. k \in Panel!Awaiting /\ \A l \in Panel!Awaiting : l = k
    BY <1>1, <1>2 DEF PanelSlot, Panel!Awaiting
  <2>2. \A l \in Panel!Awaiting' : l = k
    BY <1>3, <2>1 DEF Panel!Awaiting, PanelMoves, PanelOthers
  <2> QED BY <1>1, <1>3, <2>2 DEF PanelSlot, PanelMoves
<1>6. chosen' \in Threads \cup {Nobody}
  BY <1>1 DEF PanelTyped
<1> QED BY <1>1, <1>3, <1>4, <1>5, <1>6, PanelRenderKeeps

\* What was approved is in the queue.
LEMMA PanelUpsertKeeps ==
  ASSUME PanelIInv, NEW k \in Tasks, Panel!UpsertPendingRow(k)
  PROVE  PanelIInv'
<1> USE DEF PanelIInv
<1> PICK of : of = errands[k].of
  OBVIOUS
<1>1. /\ errands[k].pc = "approved" /\ Panel!Goes(k, "listing") /\ pending' = pending \cup {of} /\ queued' = queued \cup {of}
      /\ missed' = IF Panel!Waiting # {} THEN missed \cup {of} ELSE missed
      /\ UNCHANGED <<status, chosen, listed, request, panel, shared>>
  BY DEF Panel!UpsertPendingRow, Panel!At, Panel!server
<1>2. PanelMoves(k, "listing", errands[k].kind, of, errands[k].queue)
  BY <1>1, PanelMoveFacts
<1>3. of \in Panel!Drafts /\ status[of] \in PanelDecided
  BY <1>1 DEF PanelTyped, PanelKept
<1>4. PanelRowOK(errands[k].pc, errands[k].kind, of)
  BY DEF PanelTyped, PanelRowOK
<1>5. PanelRowOK("listing", errands[k].kind, of) /\ PanelWaits(k, "listing", errands[k].kind, of) /\ ~PanelAbout(errands[k].pc)
  BY <1>1, <1>4 DEF PanelRowOK, PanelWaits, PanelAbout, PanelPast
<1>6. PanelTyped'
  BY <1>1, <1>2, <1>3, <1>5, PanelTypedKeeps DEF PanelTyped
<1>7. PanelSlot' /\ Panel!StaleIsHidden'
  BY <1>1, <1>2, <1>5, PanelWaitsKeep
<1>8. PanelFresh'
  <2>1. PanelRenders => PanelRenders'
    BY <1>2, <1>5 DEF PanelRenders, PanelAbout, PanelMoves, PanelOthers
  <2> QED BY <1>1, <2>1 DEF PanelFresh, Panel!Rendered
<1>9. PanelKept'
  <2>1. \A l \in Tasks : errands'[l].pc = "approved" \/ errands'[l].pc = "queue" => errands'[l] = errands[l]
    BY <1>2 DEF PanelMoves, PanelOthers
  <2>2. \A l \in Tasks : errands'[l].pc = "approved" => status'[errands'[l].of] \in PanelDecided
    BY <1>1, <2>1 DEF PanelKept
  <2>3. \A d \in queued' : status'[d] \in PanelDecided
    BY <1>1, <1>3 DEF PanelKept
  <2>4. ASSUME NEW d \in queued' \ missed', status'[d] = "APPROVED"
        PROVE  d \in pending' /\ \A l \in Tasks : errands'[l].pc = "queue" => d \in errands'[l].queue
    <3>1. CASE d \in queued \ missed
      BY <1>1, <2>1, <2>4, <3>1 DEF PanelKept
    <3>2. CASE d \notin queued \ missed
      <4>1. d = of /\ Panel!Waiting = {} /\ d \in pending'
        BY <1>1, <2>4, <3>2
      <4>2. \A l \in Tasks : errands'[l].pc # "queue"
        BY <2>1, <4>1 DEF Panel!Waiting
      <4> QED BY <4>1, <4>2
    <3> QED BY <3>1, <3>2
  <2> QED BY <2>2, <2>3, <2>4 DEF PanelKept
<1> QED BY <1>6, <1>7, <1>8, <1>9

\* The drafts of a refresh are there: what it shows is rendered when it ends.
LEMMA PanelTakesKeeps ==
  ASSUME PanelIInv, NEW k \in Tasks, Panel!TakesDrafts(k) \/ \E t \in Threads : Panel!SelectThread(k, t)
  PROVE  PanelIInv'
<1> USE DEF PanelIInv
<1>0. PICK pc \in {"queueing", "loading"} : \E kind, of :
        /\ PanelMoves(k, pc, kind, of, errands[k].queue)
        /\ errands[k].pc \in {"drafts", "idle"}
        /\ kind = "select" \/ (errands[k].pc = "drafts" /\ kind = errands[k].kind /\ of = errands[k].of)
  BY PanelMoveFacts DEF Panel!TakesDrafts, Panel!SelectThread, Panel!Start, Panel!At
<1>1. PICK kind, of :
        /\ PanelMoves(k, pc, kind, of, errands[k].queue)
        /\ errands[k].pc \in {"drafts", "idle"}
        /\ kind = "select" \/ (errands[k].pc = "drafts" /\ kind = errands[k].kind /\ of = errands[k].of)
  BY <1>0
<1>2. /\ UNCHANGED <<status, request, panel, pending, shared, queued, missed>>
      /\ chosen' \in Threads \cup {Nobody}
  BY DEF Panel!TakesDrafts, Panel!SelectThread, Panel!server, Panel!history, PanelTyped
<1>3. PanelRowOK(errands[k].pc, errands[k].kind, errands[k].of)
  BY DEF PanelTyped, PanelRowOK
<1>4. PanelRowOK(pc, kind, of) /\ PanelWaits(k, pc, kind, of)
  BY <1>0, <1>1, <1>3 DEF PanelRowOK, PanelWaits, PanelPast
<1>5. PanelTyped'
  BY <1>0, <1>1, <1>2, <1>4, PanelTypedKeeps DEF PanelTyped
<1>6. PanelSlot' /\ Panel!StaleIsHidden'
  BY <1>0, <1>1, <1>2, <1>4, PanelWaitsKeep
<1>7. PanelFresh'
  BY <1>0, <1>1 DEF PanelFresh, PanelRenders, PanelMoves
<1>8. PanelDecides
  BY <1>2, PanelSameDecides
<1>9. PanelKept'
  BY <1>0, <1>1, <1>2, <1>8, PanelKeptKeeps
<1> QED BY <1>5, <1>6, <1>7, <1>9

\* The queue is there: it is what the API listed, and so what is still approved.
LEMMA PanelTakesQueueKeeps ==
  ASSUME PanelIInv, NEW k \in Tasks, Panel!TakesQueue(k)
  PROVE  PanelIInv'
<1> USE DEF PanelIInv
<1> PICK kind : kind = errands[k].kind
  OBVIOUS
<1> PICK of : of = errands[k].of
  OBVIOUS
<1>1. PanelMoves(k, "loading", kind, of, {}) /\ errands[k].pc = "queue" /\ errands[k].queue \subseteq pending'
  BY PanelMoveFacts DEF Panel!TakesQueue, Panel!At
<1>2. UNCHANGED <<status, chosen, listed, request, panel, shared, queued, missed>>
  BY DEF Panel!TakesQueue, Panel!server, Panel!history
<1>3. PanelRowOK(errands[k].pc, kind, of)
  BY DEF PanelTyped, PanelRowOK
<1>4. PanelRowOK("loading", kind, of) /\ PanelWaits(k, "loading", kind, of)
  BY <1>1, <1>3 DEF PanelRowOK, PanelWaits, PanelPast
<1>5. PanelTyped'
  BY <1>1, <1>2, <1>4, PanelTypedKeeps DEF PanelTyped
<1>6. PanelSlot' /\ Panel!StaleIsHidden'
  BY <1>1, <1>2, <1>4, PanelWaitsKeep
<1>7. PanelFresh'
  BY <1>1 DEF PanelFresh, PanelRenders, PanelMoves
<1>8. PanelKept'
  <2>1. \A l \in Tasks : errands'[l].pc = "approved" \/ errands'[l].pc = "queue" => errands'[l] = errands[l]
    BY <1>1 DEF PanelMoves, PanelOthers
  <2>2. /\ \A l \in Tasks : errands'[l].pc = "approved" => status'[errands'[l].of] \in PanelDecided
        /\ \A d \in queued' : status'[d] \in PanelDecided
    BY <1>2, <2>1 DEF PanelKept
  <2>3. ASSUME NEW d \in queued' \ missed', status'[d] = "APPROVED"
        PROVE  d \in pending' /\ \A l \in Tasks : errands'[l].pc = "queue" => d \in errands'[l].queue
    <3>1. \A l \in Tasks : errands[l].pc = "queue" => d \in errands[l].queue
      BY <1>2, <2>3 DEF PanelKept
    <3> QED BY <1>1, <2>1, <3>1
  <2> QED BY <2>2, <2>3 DEF PanelKept
<1> QED BY <1>5, <1>6, <1>7, <1>8

\* A refresh ends, and so may the wait for a reply.
LEMMA PanelLoadedKeeps ==
  ASSUME PanelIInv, NEW k \in Tasks, Panel!Loaded(k)
  PROVE  PanelIInv'
<1> USE DEF PanelIInv
<1>0. PICK pc \in {"checking", "idle"} : \E kind, of, queue :
        /\ PanelMoves(k, pc, kind, of, queue) /\ errands[k].pc = "loading"
        /\ kind = "none" \/ (kind = "send" /\ kind = errands[k].kind /\ of = errands[k].of)
        /\ pc = "checking" => kind = "send"
  BY PanelMoveFacts DEF Panel!Loaded, Panel!At
<1>1. PICK kind, of, queue :
        /\ PanelMoves(k, pc, kind, of, queue) /\ errands[k].pc = "loading"
        /\ kind = "none" \/ (kind = "send" /\ kind = errands[k].kind /\ of = errands[k].of)
        /\ pc = "checking" => kind = "send"
  BY <1>0
<1>2. /\ panel' = Panel!Rendered(chosen', listed', request')
      /\ UNCHANGED <<status, chosen, request, pending, shared, queued, missed>>
  BY DEF Panel!Loaded, Panel!server, Panel!history
<1>3. PanelRowOK(errands[k].pc, errands[k].kind, errands[k].of)
  BY DEF PanelTyped, PanelRowOK
<1>4. PanelRowOK(pc, kind, of) /\ PanelWaits(k, pc, kind, of)
  BY <1>0, <1>1, <1>3 DEF PanelRowOK, PanelWaits, PanelPast
<1>5. PanelSlot'
  BY <1>0, <1>1, <1>2, <1>4, PanelWaitsKeep
<1>6. chosen' \in Threads \cup {Nobody}
  BY <1>2 DEF PanelTyped
<1> QED BY <1>0, <1>1, <1>2, <1>4, <1>5, <1>6, PanelRenderKeeps

LEMMA PanelWaitEnds ==
  ASSUME PanelIInv, NEW k \in Tasks, Panel!DraftIsReady(k) \/ Panel!GivesUp(k)
  PROVE  PanelIInv'
<1> USE DEF PanelIInv
<1> PICK of : of = <<Nobody, 0>>
  OBVIOUS
<1>1. /\ Panel!Ends(k) /\ errands[k].pc = "checking"
      /\ UNCHANGED <<status, chosen, listed, pending, shared, queued, missed>>
  BY DEF Panel!DraftIsReady, Panel!GivesUp, Panel!At, Panel!server, Panel!history
<1>2. \/ panel' = Panel!Rendered(chosen', listed', request')
      \/ UNCHANGED <<panel, request>>
  BY <1>1 DEF Panel!DraftIsReady, Panel!GivesUp
<1>3. PanelMoves(k, "idle", "none", of, {})
  BY <1>1, PanelMoveFacts
<1>4. PanelRowOK("idle", "none", of) /\ PanelWaits(k, "idle", "none", of) /\ errands[k].kind = "send"
  BY <1>1 DEF PanelRowOK, PanelWaits, PanelTyped
<1>5. CASE panel' = Panel!Rendered(chosen', listed', request')
  <2>1. PanelSlot'
    <3> SUFFICES ASSUME ~shared' PROVE PanelSlot'
      BY DEF PanelSlot
    <3>1. \A l \in Panel!Awaiting : l = k
      BY <1>1, <1>4 DEF PanelSlot, Panel!Awaiting
    <3>2. Panel!Awaiting' = {}
      BY <1>3, <3>1 DEF Panel!Awaiting, PanelMoves, PanelOthers
    <3> QED BY <3>2 DEF PanelSlot
  <2>2. chosen' \in Threads \cup {Nobody}
    BY <1>1 DEF PanelTyped
  <2> QED BY <1>1, <1>3, <1>4, <1>5, <2>1, <2>2, PanelRenderKeeps
<1>6. CASE UNCHANGED <<panel, request>>
  <2>1. ~PanelAbout(errands[k].pc) /\ PanelDecides
    BY <1>1, PanelSameDecides DEF PanelAbout
  <2> QED BY <1>1, <1>3, <1>4, <1>6, <2>1, PanelCalmKeeps
<1> QED BY <1>2, <1>5, <1>6

\* The steps of the API, and of the page alone.
LEMMA PanelAloneKeeps ==
  ASSUME PanelIInv, UNCHANGED <<errands, listed, request, pending, shared, queued, missed>>, PanelDecides,
         \/ UNCHANGED <<chosen, panel>>
         \/ chosen' = Nobody /\ panel' = Panel!Rendered(chosen', listed', request')
  PROVE  PanelIInv'
<1> USE DEF PanelIInv
<1>1. PanelTyped'
  BY DEF PanelTyped, PanelDecides, Panel!Drafts, PanelIsTask
<1>2. PanelSlot'
  BY DEF PanelSlot, Panel!Awaiting
<1>3. Panel!StaleIsHidden'
  <2>1. CASE UNCHANGED panel
    BY <2>1 DEF Panel!StaleIsHidden, Panel!Awaiting
  <2>2. CASE panel' = Panel!Rendered(chosen', listed', request')
    BY <1>1, <1>2, <2>2, PanelRenderedHides
  <2> QED BY <2>1, <2>2
<1>4. PanelFresh'
  BY DEF PanelFresh, PanelRenders, Panel!Rendered
<1>5. PanelKept'
  BY DEF PanelKept, PanelDecides, PanelTyped
<1> QED BY <1>1, <1>2, <1>3, <1>4, <1>5

LEMMA PanelServerKeeps ==
  ASSUME PanelIInv, NEW d \in Panel!Drafts, Panel!WorkerDrafts(d) \/ Panel!GatewaySends(d) \/ Panel!StickyLapses(d)
  PROVE  PanelIInv'
<1>1. UNCHANGED <<errands, chosen, listed, request, panel, pending, shared, queued, missed>>
  BY DEF Panel!WorkerDrafts, Panel!GatewaySends, Panel!StickyLapses, Panel!server, Panel!client,
         Panel!history
<1>2. PanelDecides
  <2>1. CASE Panel!WorkerDrafts(d)
    BY <2>1 DEF Panel!WorkerDrafts, PanelDecides, PanelDecided
  <2>2. CASE Panel!GatewaySends(d)
    BY <2>2, PanelOneDecides DEF Panel!GatewaySends, PanelIInv, PanelDecided
  <2>3. CASE Panel!StickyLapses(d)
    BY <2>3, PanelSameDecides DEF Panel!StickyLapses, Panel!server, PanelIInv
  <2> QED BY <2>1, <2>2, <2>3
<1> QED BY <1>1, <1>2, PanelAloneKeeps

LEMMA PanelStepKeepsIInv == PanelIInv /\ [Panel!Next]_Panel!vars => PanelIInv'
<1> SUFFICES ASSUME PanelIInv, [Panel!Next]_Panel!vars PROVE PanelIInv'
  OBVIOUS
<1>1. CASE Panel!ClearThreadSelection
  <2>1. /\ UNCHANGED <<errands, listed, request, pending, shared, queued, missed, status>>
        /\ chosen' = Nobody /\ panel' = Panel!Rendered(chosen', listed', request')
    BY <1>1 DEF Panel!ClearThreadSelection, Panel!server, Panel!history
  <2> QED BY <2>1, PanelSameDecides, PanelAloneKeeps DEF PanelIInv
<1>2. ASSUME NEW d \in Panel!Drafts, Panel!WorkerDrafts(d) \/ Panel!GatewaySends(d) \/ Panel!StickyLapses(d) PROVE PanelIInv'
  BY <1>2, PanelServerKeeps
<1>3. ASSUME NEW k \in Tasks, Panel!RefreshData(k) \/ Panel!Approve(k) \/ Panel!Reject(k) \/ Panel!MarkSent(k) PROVE PanelIInv'
  BY <1>3, PanelClickKeeps
<1>4. ASSUME NEW k \in Tasks, Panel!SendInbound(k) PROVE PanelIInv'
  BY <1>4, PanelSendKeeps
<1>5. ASSUME NEW k \in Tasks, Panel!PostArrives(k) PROVE PanelIInv'
  BY <1>5, PanelPostKeeps
<1>6. ASSUME NEW k \in Tasks, Panel!ApproveArrives(k) \/ Panel!RejectArrives(k) \/ Panel!MarkArrives(k) PROVE PanelIInv'
  BY <1>6, PanelArriveKeeps
<1>7. ASSUME NEW k \in Tasks, Panel!ClickFails(k) PROVE PanelIInv'
  BY <1>7, PanelFailKeeps
<1>8. ASSUME NEW k \in Tasks, Panel!Posted(k) PROVE PanelIInv'
  BY <1>8, PanelPostedKeeps
<1>9. ASSUME NEW k \in Tasks, Panel!UpsertPendingRow(k) PROVE PanelIInv'
  BY <1>9, PanelUpsertKeeps
<1>10. ASSUME NEW k \in Tasks, Panel!ListsDrafts(k) \/ Panel!ListsQueue(k) \/ Panel!PollsAgain(k) PROVE PanelIInv'
  BY <1>10, PanelListKeeps
<1>11. ASSUME NEW k \in Tasks, Panel!TakesDrafts(k) \/ \E t \in Threads : Panel!SelectThread(k, t) PROVE PanelIInv'
  BY <1>11, PanelTakesKeeps
<1>12. ASSUME NEW k \in Tasks, Panel!TakesQueue(k) PROVE PanelIInv'
  BY <1>12, PanelTakesQueueKeeps
<1>13. ASSUME NEW k \in Tasks, Panel!Loaded(k) PROVE PanelIInv'
  BY <1>13, PanelLoadedKeeps
<1>14. ASSUME NEW k \in Tasks, Panel!DraftIsReady(k) \/ Panel!GivesUp(k) PROVE PanelIInv'
  BY <1>14, PanelWaitEnds
<1>15. CASE UNCHANGED Panel!vars
  <2>1. UNCHANGED <<errands, listed, request, pending, shared, queued, missed, status, chosen, panel>>
    BY <1>15 DEF Panel!vars, Panel!server, Panel!client, Panel!history
  <2> QED BY <2>1, PanelSameDecides, PanelAloneKeeps DEF PanelIInv
<1> QED BY <1>1, <1>2, <1>3, <1>4, <1>5, <1>6, <1>7, <1>8, <1>9, <1>10, <1>11, <1>12, <1>13, <1>14, <1>15 DEF Panel!Next

LEMMA PanelInitIInv == Panel!Init => PanelIInv
<1> SUFFICES ASSUME Panel!Init PROVE PanelIInv
  OBVIOUS
<1>1. \A k \in Tasks : PanelIsTask(errands[k]) /\ errands[k].pc = "idle" /\ errands[k].kind = "none"
  BY DEF Panel!Init, Panel!Idle, PanelIsTask
<1>2. PanelTyped
  BY <1>1 DEF Panel!Init, PanelTyped
<1>3. Panel!Awaiting = {}
  BY <1>1 DEF Panel!Awaiting
<1>4. PanelSlot /\ Panel!StaleIsHidden
  BY <1>3 DEF PanelSlot, Panel!StaleIsHidden
<1>5. PanelFresh
  BY DEF Panel!Init, PanelFresh, Panel!Rendered
<1>6. PanelKept
  BY <1>1 DEF Panel!Init, PanelKept
<1> QED BY <1>2, <1>4, <1>5, <1>6 DEF PanelIInv

LEMMA PanelIInvIsOffered == PanelIInv => Panel!DraftsAreOffered
<1> SUFFICES ASSUME PanelIInv PROVE Panel!DraftsAreOffered
  OBVIOUS
<1>1. Panel!PanelIsOfSelection
  BY DEF PanelIInv, PanelFresh, PanelRenders, Panel!PanelIsOfSelection, Panel!At
<1>2. Panel!QueueIsKept
  BY DEF PanelIInv, PanelKept, Panel!QueueIsKept
<1> QED BY <1>1, <1>2 DEF PanelIInv, Panel!DraftsAreOffered

-----------------------------------------------------------------------------
\* The fields of the console.
SessionFieldRows == [user : Users, channel : Channels, account : Fields!Accounts, thread : Summarised, text : Texts \cup {Nobody}]

SessionWellTyped ==
  /\ fields \in SessionFieldRows /\ DOMAIN loading = Tasks /\ DOMAIN viewed = Fields!Views /\ DOMAIN asked = Fields!Views
  /\ outages \in Nat /\ DOMAIN identity = Users /\ config \in BOOLEAN /\ muddled \in BOOLEAN
  /\ \A k \in Tasks : loading[k].pc = "loading" => loading[k].kind \in Fields!Views
  /\ \A k \in Fields!Loads("identity") : \E u \in Users : loading[k].key = <<u>>

\* A load under way is of what was last asked for, unless the hits were hidden since.
SessionCurrent(v) ==
  /\ \A k \in Fields!Loads(v) : loading[k].key = asked[v] \/ (v = "search" /\ asked[v] = Nobody)
  /\ Fields!Loads(v) = {} => viewed[v] \in {asked[v], Nobody}

SessionLoaded ==
  /\ asked["search"] = Nobody => viewed["search"] = Nobody
  /\ \A v \in Fields!Views \ doubled : SessionCurrent(v)

\* The form of the identity is empty only until its load ends, or because one failed.
SessionFormed ==
  viewed["identity"] = Nobody => outages > 0 \/ Fields!Loads("identity") # {} \/ asked["identity"] = Nobody

\* The account of every request since the last edit is the one in the field.
SessionAccounted ==
  ~muddled =>
    \A x \in sent :
      /\ x = <<fields.channel, fields.account>>
      /\ fields.account = Unset => DefaultOf[fields.channel] = Unset

SessionIInv == SessionWellTyped /\ SessionLoaded /\ SessionFormed /\ Fields!IdentityIsOfUser /\ SessionAccounted

-----------------------------------------------------------------------------
\* What becomes of a task.
SessionOthers(k) == \A l \in Tasks : l # k => loading'[l] = loading[l]

LEMMA SessionOneTask ==
  ASSUME NEW k \in Tasks, NEW r, DOMAIN loading = Tasks, loading' = [loading EXCEPT ![k] = r]
  PROVE  DOMAIN loading' = Tasks /\ loading'[k] = r /\ SessionOthers(k)
BY DEF SessionOthers

\* The steps of a task that neither begin nor end a load.
SessionPasses(k, r) == loading' = [loading EXCEPT ![k] = r] /\ loading[k].pc # "loading" /\ r.pc # "loading"

LEMMA SessionLoadsStay ==
  ASSUME SessionWellTyped, NEW k \in Tasks, NEW r, SessionPasses(k, r)
  PROVE  /\ DOMAIN loading' = Tasks
         /\ \A v : Fields!Loads(v)' = Fields!Loads(v) /\ \A l \in Fields!Loads(v) : loading'[l] = loading[l]
<1>1. DOMAIN loading' = Tasks /\ loading'[k] = r /\ SessionOthers(k)
  BY SessionOneTask DEF SessionWellTyped, SessionPasses
<1> QED BY <1>1 DEF SessionPasses, Fields!Loads, SessionOthers

\* A view is asked for.
LEMMA SessionAskMoves ==
  ASSUME SessionWellTyped, NEW k \in Tasks, NEW v \in Fields!Views, loading[k].pc # "loading", Fields!Ask(k, v)
  PROVE  /\ DOMAIN loading' = Tasks /\ DOMAIN asked' = Fields!Views /\ DOMAIN viewed' = Fields!Views
         /\ loading'[k].pc = "loading" /\ loading'[k].kind = v /\ loading'[k].key = Fields!KeyOf(v)
         /\ \A w : w # v => Fields!Loads(w)' = Fields!Loads(w)
         /\ Fields!Loads(v)' = Fields!Loads(v) \cup {k} /\ k \notin Fields!Loads(v)
         /\ \A w : \A l \in Fields!Loads(w) : loading'[l] = loading[l]
         /\ asked'[v] = Fields!KeyOf(v) /\ \A w \in Fields!Views : w # v => asked'[w] = asked[w] /\ viewed'[w] = viewed[w]
         /\ viewed'[v] = (IF v \in {"metrics", "search", "summary"} THEN Nobody ELSE viewed[v])
         /\ doubled \subseteq doubled' /\ (v \notin doubled' => Fields!Loads(v) = {})
<1> DEFINE r == [pc |-> "loading", kind |-> v, key |-> Fields!KeyOf(v)]
<1>1. r.pc = "loading" /\ r.kind = v /\ r.key = Fields!KeyOf(v)
  OBVIOUS
<1>2. loading' = [loading EXCEPT ![k] = r]
  BY DEF Fields!Ask
<1> HIDE DEF r
<1>3. DOMAIN loading' = Tasks /\ loading'[k] = r /\ SessionOthers(k)
  BY <1>2, SessionOneTask DEF SessionWellTyped
<1>4. /\ \A w : w # v => Fields!Loads(w)' = Fields!Loads(w)
      /\ Fields!Loads(v)' = Fields!Loads(v) \cup {k} /\ k \notin Fields!Loads(v)
      /\ \A w : \A l \in Fields!Loads(w) : loading'[l] = loading[l]
  BY <1>1, <1>3 DEF Fields!Loads, SessionOthers
<1>5. /\ DOMAIN asked' = Fields!Views
      /\ asked'[v] = Fields!KeyOf(v) /\ \A w \in Fields!Views : w # v => asked'[w] = asked[w]
  BY DEF Fields!Ask, SessionWellTyped
<1>6. /\ DOMAIN viewed' = Fields!Views /\ \A w \in Fields!Views : w # v => viewed'[w] = viewed[w]
      /\ viewed'[v] = (IF v \in {"metrics", "search", "summary"} THEN Nobody ELSE viewed[v])
  BY DEF Fields!Ask, SessionWellTyped
<1>7. doubled \subseteq doubled' /\ (v \notin doubled' => Fields!Loads(v) = {})
  BY DEF Fields!Ask
<1>8. loading'[k].pc = "loading" /\ loading'[k].kind = v /\ loading'[k].key = Fields!KeyOf(v)
  BY <1>1, <1>3
<1> QED BY <1>3, <1>4, <1>5, <1>6, <1>7, <1>8, Zenon

\* A load ends.
LEMMA SessionLoadMoves ==
  ASSUME SessionWellTyped, NEW k \in Tasks, NEW v, v = loading[k].kind, loading[k].pc = "loading", loading' = [loading EXCEPT ![k] = Fields!Idle]
  PROVE  /\ DOMAIN loading' = Tasks /\ v \in Fields!Views /\ k \in Fields!Loads(v)
         /\ \A w : w # v => Fields!Loads(w)' = Fields!Loads(w)
         /\ Fields!Loads(v)' = Fields!Loads(v) \ {k}
         /\ \A w : \A l \in Fields!Loads(w)' : l \in Fields!Loads(w) /\ loading'[l] = loading[l]
<1>1. DOMAIN loading' = Tasks /\ loading'[k] = Fields!Idle /\ SessionOthers(k)
  BY SessionOneTask DEF SessionWellTyped
<1>2. Fields!Idle.pc = "idle"
  BY DEF Fields!Idle
<1>3. k \in Fields!Loads(v) /\ v \in Fields!Views
  BY DEF Fields!Loads, SessionWellTyped
<1>4. \A w : \A l \in Tasks : l \in Fields!Loads(w)' <=> l \in Fields!Loads(w) /\ l # k
  BY <1>1, <1>2 DEF Fields!Loads, SessionOthers
<1>5. \A w : Fields!Loads(w) \subseteq Tasks /\ Fields!Loads(w)' \subseteq Tasks
  BY DEF Fields!Loads
<1>6. \A w : Fields!Loads(w)' = Fields!Loads(w) \ {k}
  BY <1>4, <1>5
<1>7. \A w : w # v => k \notin Fields!Loads(w)
  BY DEF Fields!Loads
<1>8. \A w : w # v => Fields!Loads(w)' = Fields!Loads(w)
  BY <1>6, <1>7
<1>9. \A w : \A l \in Fields!Loads(w)' : l \in Fields!Loads(w) /\ loading'[l] = loading[l]
  BY <1>1, <1>5, <1>6 DEF SessionOthers
<1> QED BY <1>1, <1>3, <1>6, <1>8, <1>9

\* What keeps the views as they are.
LEMMA SessionViewsKept ==
  ASSUME SessionWellTyped, \A v : Fields!Loads(v)' = Fields!Loads(v) /\ \A l \in Fields!Loads(v) : loading'[l] = loading[l],
         UNCHANGED <<viewed, asked, doubled, identity, mistaken>>, outages' \in Nat, outages' >= outages,
         SessionLoaded, SessionFormed, Fields!IdentityIsOfUser
  PROVE  /\ SessionLoaded' /\ SessionFormed' /\ Fields!IdentityIsOfUser'
         /\ \A k \in Fields!Loads("identity")' : \E u \in Users : loading'[k].key = <<u>>
<1>1. \A v \in Fields!Views : SessionCurrent(v) => SessionCurrent(v)'
  BY DEF SessionCurrent
<1>2. SessionLoaded'
  BY <1>1 DEF SessionLoaded
<1>3. SessionFormed' /\ Fields!IdentityIsOfUser'
  BY DEF SessionFormed, Fields!IdentityIsOfUser, SessionWellTyped
<1>4. \A k \in Fields!Loads("identity")' : \E u \in Users : loading'[k].key = <<u>>
  BY DEF SessionWellTyped
<1> QED BY <1>2, <1>3, <1>4

LEMMA SessionAskKeeps ==
  ASSUME SessionIInv, NEW k \in Tasks, NEW v \in Fields!Views, loading[k].pc # "loading", Fields!Ask(k, v),
         UNCHANGED <<fields, config, identity, mistaken, sent, muddled, outages>>
  PROVE  SessionIInv'
<1> USE DEF SessionIInv
<1>0. /\ DOMAIN loading' = Tasks /\ DOMAIN asked' = Fields!Views /\ DOMAIN viewed' = Fields!Views
      /\ loading'[k].pc = "loading" /\ loading'[k].kind = v /\ loading'[k].key = Fields!KeyOf(v)
      /\ \A w : w # v => Fields!Loads(w)' = Fields!Loads(w)
      /\ Fields!Loads(v)' = Fields!Loads(v) \cup {k} /\ k \notin Fields!Loads(v)
      /\ \A w : \A l \in Fields!Loads(w) : loading'[l] = loading[l]
      /\ asked'[v] = Fields!KeyOf(v) /\ \A w \in Fields!Views : w # v => asked'[w] = asked[w] /\ viewed'[w] = viewed[w]
      /\ viewed'[v] = (IF v \in {"metrics", "search", "summary"} THEN Nobody ELSE viewed[v])
      /\ doubled \subseteq doubled' /\ (v \notin doubled' => Fields!Loads(v) = {})
  BY SessionAskMoves
<1>1. SessionCurrent(v)' \/ v \in doubled'
  BY <1>0 DEF SessionCurrent
<1>2. \A w \in Fields!Views : w # v /\ SessionCurrent(w) => SessionCurrent(w)'
  BY <1>0 DEF SessionCurrent
<1>3. "search" \in Fields!Views /\ "identity" \in Fields!Views
  BY DEF Fields!Views
<1>4. asked'["search"] = Nobody => viewed'["search"] = Nobody
  <2>1. CASE v = "search"
    BY <1>0, <2>1
  <2>2. CASE v # "search"
    BY <1>0, <1>3, <2>2 DEF SessionLoaded
  <2> QED BY <2>1, <2>2
<1>5. SessionLoaded'
  BY <1>0, <1>1, <1>2, <1>4 DEF SessionLoaded
<1>6. SessionFormed'
  <2>1. CASE v = "identity"
    BY <1>0, <2>1 DEF SessionFormed
  <2>2. CASE v # "identity"
    BY <1>0, <1>3, <2>2 DEF SessionFormed
  <2> QED BY <2>1, <2>2
<1>7. \A l \in Tasks : loading'[l].pc = "loading" => loading'[l].kind \in Fields!Views
  <2> SUFFICES ASSUME NEW l \in Tasks, loading'[l].pc = "loading", l # k PROVE loading'[l].kind \in Fields!Views
    BY <1>0
  <2>1. loading'[l] = loading[l]
    BY SessionOneTask DEF Fields!Ask, SessionWellTyped, SessionOthers
  <2> QED BY <2>1 DEF SessionWellTyped
<1>8. \A l \in Fields!Loads("identity")' : \E u \in Users : loading'[l].key = <<u>>
  <2>1. CASE v = "identity"
    <3>1. Fields!KeyOf(v) = <<fields.user>> /\ fields.user \in Users
      BY <2>1 DEF Fields!KeyOf, SessionWellTyped, SessionFieldRows
    <3> QED BY <1>0, <2>1, <3>1 DEF SessionWellTyped
  <2>2. CASE v # "identity"
    BY <1>0, <2>2 DEF SessionWellTyped
  <2> QED BY <2>1, <2>2
<1>9. SessionWellTyped'
  BY <1>0, <1>7, <1>8 DEF SessionWellTyped
<1>10. Fields!IdentityIsOfUser' /\ SessionAccounted'
  BY DEF Fields!IdentityIsOfUser, SessionAccounted
<1> QED BY <1>5, <1>6, <1>9, <1>10

LEMMA SessionEndKeeps ==
  ASSUME SessionIInv, NEW k \in Tasks, Fields!Answer(k) \/ Fields!LoadFails(k)
  PROVE  SessionIInv'
<1> USE DEF SessionIInv
<1> PICK v : v = loading[k].kind
  OBVIOUS
<1>0. /\ DOMAIN loading' = Tasks /\ v \in Fields!Views
      /\ \A w : w # v => Fields!Loads(w)' = Fields!Loads(w)
      /\ Fields!Loads(v)' = Fields!Loads(v) \ {k} /\ k \in Fields!Loads(v)
      /\ \A w : \A l \in Fields!Loads(w)' : l \in Fields!Loads(w) /\ loading'[l] = loading[l]
  BY SessionLoadMoves DEF Fields!Answer, Fields!LoadFails
<1>1. /\ UNCHANGED <<fields, config, asked, doubled, identity, mistaken, sent, muddled>>
      /\ outages' \in Nat /\ outages' >= outages
  BY DEF Fields!Answer, Fields!LoadFails, Fields!saved, Fields!session, SessionWellTyped, Fields!Fault
<1>2. \/ viewed' = [viewed EXCEPT ![v] = loading[k].key] /\ Fields!Answer(k)
      \/ viewed' = viewed /\ v = "search" /\ asked["search"] = Nobody
      \/ viewed' = [viewed EXCEPT ![v] = Nobody] /\ outages' > 0
  BY DEF Fields!Answer, Fields!LoadFails, Fields!Fault, SessionWellTyped
<1>3. DOMAIN viewed' = Fields!Views /\ \A w \in Fields!Views : w # v => viewed'[w] = viewed[w]
  BY <1>2 DEF SessionWellTyped
<1>4. \/ viewed'[v] = loading[k].key /\ (v = "search" => asked["search"] # Nobody)
      \/ viewed'[v] = viewed[v] /\ v = "search" /\ asked["search"] = Nobody
      \/ viewed'[v] = Nobody /\ outages' > 0
  BY <1>0, <1>2 DEF SessionWellTyped, Fields!Answer
<1>5. v \notin doubled => SessionCurrent(v)'
  <2> SUFFICES ASSUME v \notin doubled PROVE SessionCurrent(v)'
    OBVIOUS
  <2>1. SessionCurrent(v)
    BY <1>0 DEF SessionLoaded
  <2>2. viewed'[v] \in {asked[v], Nobody}
    BY <1>0, <1>4, <2>1 DEF SessionCurrent, SessionLoaded
  <2> QED BY <1>0, <1>1, <2>1, <2>2 DEF SessionCurrent
<1>6. \A w \in Fields!Views : w # v /\ SessionCurrent(w) => SessionCurrent(w)'
  BY <1>0, <1>1, <1>3 DEF SessionCurrent
<1>7. "search" \in Fields!Views /\ "identity" \in Fields!Views
  BY DEF Fields!Views
<1>8. asked["search"] = Nobody => viewed'["search"] = Nobody
  BY <1>3, <1>4, <1>7 DEF SessionLoaded
<1>9. SessionLoaded'
  BY <1>1, <1>5, <1>6, <1>8 DEF SessionLoaded
<1>10. SessionFormed'
  <2>1. CASE v = "identity"
    <3>1. loading[k].key # Nobody
      BY <1>0, <2>1, NobodyIsNone DEF SessionWellTyped
    <3> QED BY <1>4, <2>1, <3>1 DEF SessionFormed
  <2>2. CASE v # "identity"
    BY <1>0, <1>1, <1>3, <1>7, <2>2 DEF SessionFormed, SessionWellTyped
  <2> QED BY <2>1, <2>2
<1>11. SessionWellTyped'
  <2>1. \A l \in Tasks : loading'[l].pc = "loading" => loading'[l].kind \in Fields!Views
    <3> SUFFICES ASSUME NEW l \in Tasks, loading'[l].pc = "loading" PROVE loading'[l].kind \in Fields!Views
      OBVIOUS
    <3> PICK w : w = loading'[l].kind
      OBVIOUS
    <3>1. l \in Fields!Loads(w)'
      BY DEF Fields!Loads
    <3>2. loading'[l] = loading[l]
      BY <1>0, <3>1
    <3> QED BY <3>2 DEF SessionWellTyped
  <2>2. \A l \in Fields!Loads("identity")' : \E u \in Users : loading'[l].key = <<u>>
    BY <1>0 DEF SessionWellTyped
  <2> QED BY <1>0, <1>1, <1>3, <2>1, <2>2 DEF SessionWellTyped
<1>12. Fields!IdentityIsOfUser' /\ SessionAccounted'
  BY <1>1 DEF Fields!IdentityIsOfUser, SessionAccounted, SessionWellTyped
<1> QED BY <1>9, <1>10, <1>11, <1>12

\* The steps of a request.
LEMMA SessionPassKeeps ==
  ASSUME SessionIInv, NEW k \in Tasks, NEW r, SessionPasses(k, r),
         UNCHANGED <<viewed, asked, doubled, identity, mistaken>>, outages' \in Nat, outages' >= outages,
         fields' \in SessionFieldRows, config' \in BOOLEAN, muddled' \in BOOLEAN, SessionAccounted'
  PROVE  SessionIInv'
<1> USE DEF SessionIInv
<1>1. /\ DOMAIN loading' = Tasks
      /\ \A v : Fields!Loads(v)' = Fields!Loads(v) /\ \A l \in Fields!Loads(v) : loading'[l] = loading[l]
  BY SessionLoadsStay
<1>2. /\ SessionLoaded' /\ SessionFormed' /\ Fields!IdentityIsOfUser'
      /\ \A l \in Fields!Loads("identity")' : \E u \in Users : loading'[l].key = <<u>>
  BY <1>1, SessionViewsKept
<1>3. \A l \in Tasks : loading'[l].pc = "loading" => loading'[l].kind \in Fields!Views
  BY SessionOneTask DEF SessionWellTyped, SessionPasses, SessionOthers
<1> QED BY <1>1, <1>2, <1>3 DEF SessionWellTyped

LEMMA SessionFieldEdits ==
  ASSUME fields \in SessionFieldRows
  PROVE  /\ \A u \in Users : [fields EXCEPT !.user = u] \in SessionFieldRows
         /\ \A c \in Channels : [fields EXCEPT !.channel = c] \in SessionFieldRows
         /\ \A a \in Fields!Accounts :
              /\ [fields EXCEPT !.account = a] \in SessionFieldRows
              /\ [fields EXCEPT !.account = a].account = a
              /\ [fields EXCEPT !.account = a].channel = fields.channel
         /\ \A t \in Summarised :
              /\ [fields EXCEPT !.thread = t] \in SessionFieldRows
              /\ [fields EXCEPT !.thread = t].account = fields.account
              /\ [fields EXCEPT !.thread = t].channel = fields.channel
         /\ \A x \in Texts \cup {Nobody} :
              /\ [fields EXCEPT !.text = x] \in SessionFieldRows
              /\ [fields EXCEPT !.text = x].account = fields.account
              /\ [fields EXCEPT !.text = x].channel = fields.channel
<1> DEFINE Xs == Texts \cup {Nobody}
           As == Fields!Accounts
           Rows(xs) == [user : Users, channel : Channels, account : As, thread : Summarised, text : xs]
<1>1. fields \in Rows(Xs)
  BY DEF SessionFieldRows
<1> SUFFICES
     /\ \A u \in Users : [fields EXCEPT !.user = u] \in Rows(Xs)
     /\ \A c \in Channels : [fields EXCEPT !.channel = c] \in Rows(Xs)
     /\ \A a \in As :
          /\ [fields EXCEPT !.account = a] \in Rows(Xs)
          /\ [fields EXCEPT !.account = a].account = a
          /\ [fields EXCEPT !.account = a].channel = fields.channel
     /\ \A t \in Summarised :
          /\ [fields EXCEPT !.thread = t] \in Rows(Xs)
          /\ [fields EXCEPT !.thread = t].account = fields.account
          /\ [fields EXCEPT !.thread = t].channel = fields.channel
     /\ \A x \in Xs :
          /\ [fields EXCEPT !.text = x] \in Rows(Xs)
          /\ [fields EXCEPT !.text = x].account = fields.account
          /\ [fields EXCEPT !.text = x].channel = fields.channel
  BY DEF SessionFieldRows
<1> HIDE DEF Xs, As
<1> QED BY <1>1

\* The steps that leave the tasks alone.
LEMMA SessionEditKeeps ==
  ASSUME SessionIInv, Fields!Edit \/ Fields!SelectThread \/ Fields!Search
  PROVE  SessionIInv'
<1> USE DEF SessionIInv
<1>1. /\ UNCHANGED <<config, loading, viewed, asked, doubled, identity, mistaken, outages>> /\ muddled' \in BOOLEAN
  BY DEF Fields!Edit, Fields!SelectThread, Fields!Search, Fields!loaded, Fields!saved, Fields!session,
         SessionWellTyped
<1>2. fields' \in SessionFieldRows
  <2>1. {Typed, Unset} \subseteq Fields!Accounts
    BY DEF Fields!Accounts
  <2> QED BY <2>1, SessionFieldEdits DEF Fields!Edit, Fields!SelectThread, Fields!Search, SessionWellTyped
<1>3. SessionAccounted'
  <2>1. CASE Fields!Edit
    BY <2>1 DEF Fields!Edit, SessionAccounted
  <2>2. CASE Fields!SelectThread \/ Fields!Search
    <3>1. UNCHANGED <<sent, muddled>>
      BY <2>2 DEF Fields!SelectThread, Fields!Search, Fields!session
    <3>2. CASE Fields!SelectThread
      <4>1. PICK t \in Summarised : fields' = [fields EXCEPT !.thread = t]
        BY <3>2 DEF Fields!SelectThread
      <4> QED BY <3>1, <4>1, SessionFieldEdits DEF SessionAccounted, SessionWellTyped
    <3>3. CASE Fields!Search
      <4>1. PICK x \in Texts \cup {Nobody} : fields' = [fields EXCEPT !.text = x]
        BY <3>3 DEF Fields!Search
      <4>2. fields'.account = fields.account /\ fields'.channel = fields.channel
        BY <4>1, SessionFieldEdits DEF SessionWellTyped
      <4> QED BY <3>1, <4>2 DEF SessionAccounted
    <3> QED BY <2>2, <3>2, <3>3
  <2> QED BY <2>1, <2>2
<1>4. \A v : Fields!Loads(v)' = Fields!Loads(v) /\ \A l \in Fields!Loads(v) : loading'[l] = loading[l]
  BY <1>1 DEF Fields!Loads
<1>5. outages' \in Nat /\ outages' >= outages
  BY <1>1 DEF SessionWellTyped
<1>6. SessionLoaded' /\ SessionFormed' /\ Fields!IdentityIsOfUser'
      /\ \A l \in Fields!Loads("identity")' : \E u \in Users : loading'[l].key = <<u>>
  BY <1>1, <1>4, <1>5, SessionViewsKept
<1>7. \A l \in Tasks : loading'[l].pc = "loading" => loading'[l].kind \in Fields!Views
  BY <1>1 DEF SessionWellTyped
<1> QED BY <1>1, <1>2, <1>3, <1>6, <1>7 DEF SessionWellTyped

LEMMA SessionSaveKeeps ==
  ASSUME SessionIInv, Fields!SaveIdentity
  PROVE  SessionIInv'
<1> USE DEF SessionIInv
<1> PICK u : u = fields.user
  OBVIOUS
<1>1. /\ UNCHANGED <<fields, config, loading, viewed, asked, doubled, sent, muddled, outages>> /\ asked["identity"] # Nobody
      /\ identity' = [identity EXCEPT ![u] = IF viewed["identity"] = Nobody THEN Nobody ELSE viewed["identity"][1]]
      /\ mistaken' = IF \/ asked["identity"] # <<u>> \/ Fields!Loads("identity") # {} \/ "identity" \in doubled
                     THEN mistaken \cup {u} ELSE mistaken
  BY DEF Fields!SaveIdentity, Fields!loaded, Fields!session
<1>2. u \in Users
  BY DEF SessionWellTyped, SessionFieldRows
<1>3. DOMAIN identity' = Users /\ \A w \in Users : w # u => identity'[w] = identity[w]
  BY <1>1 DEF SessionWellTyped
<1>4. u \notin mistaken' => identity'[u] = u \/ (identity'[u] = Nobody /\ outages > 0)
  <2> SUFFICES ASSUME u \notin mistaken' PROVE identity'[u] = u \/ (identity'[u] = Nobody /\ outages > 0)
    OBVIOUS
  <2>1. asked["identity"] = <<u>> /\ Fields!Loads("identity") = {} /\ "identity" \notin doubled
    BY <1>1
  <2>2. viewed["identity"] \in {<<u>>, Nobody}
    BY <2>1 DEF SessionLoaded, SessionCurrent, Fields!Views
  <2>3. viewed["identity"] = Nobody => outages > 0
    BY <1>1, <2>1 DEF SessionFormed
  <2>4. identity'[u] = IF viewed["identity"] = Nobody THEN Nobody ELSE viewed["identity"][1]
    BY <1>1, <1>2 DEF SessionWellTyped
  <2> QED BY <2>2, <2>3, <2>4
<1>5. Fields!IdentityIsOfUser'
  <2>1. \A w \in Users \ mistaken' : w # u => w \in Users \ mistaken
    BY <1>1
  <2> QED BY <1>1, <1>3, <1>4, <2>1 DEF Fields!IdentityIsOfUser
<1>6. SessionLoaded' /\ SessionFormed' /\ SessionAccounted'
  BY <1>1 DEF SessionLoaded, SessionCurrent, SessionFormed, SessionAccounted, Fields!Loads
<1>7. SessionWellTyped'
  BY <1>1, <1>3 DEF SessionWellTyped, Fields!Loads
<1> QED BY <1>5, <1>6, <1>7

\* The search is run without a text: the hits are hidden.
LEMMA SessionHidesKeeps ==
  ASSUME SessionIInv, UNCHANGED <<fields, config, loading, doubled, identity, mistaken, sent, muddled, outages>>,
         viewed' = [viewed EXCEPT !["search"] = Nobody], asked' = [asked EXCEPT !["search"] = Nobody]
  PROVE  SessionIInv'
<1> USE DEF SessionIInv
<1>1. "search" \in Fields!Views
  BY DEF Fields!Views
<1>2. /\ DOMAIN viewed' = Fields!Views /\ DOMAIN asked' = Fields!Views /\ viewed'["search"] = Nobody /\ asked'["search"] = Nobody
      /\ \A v \in Fields!Views : v # "search" => viewed'[v] = viewed[v] /\ asked'[v] = asked[v]
  BY <1>1 DEF SessionWellTyped
<1>3. \A v : Fields!Loads(v)' = Fields!Loads(v)
  BY DEF Fields!Loads
<1>4. \A v \in Fields!Views : SessionCurrent(v) => SessionCurrent(v)'
  BY <1>2, <1>3 DEF SessionCurrent
<1>5. SessionLoaded'
  BY <1>2, <1>4 DEF SessionLoaded
<1>6. SessionFormed' /\ Fields!IdentityIsOfUser' /\ SessionAccounted'
  <2>1. "identity" \in Fields!Views /\ "identity" # "search"
    BY DEF Fields!Views
  <2>2. viewed'["identity"] = viewed["identity"] /\ asked'["identity"] = asked["identity"]
    BY <1>2, <2>1
  <2> QED BY <1>3, <2>2 DEF SessionFormed, Fields!IdentityIsOfUser, SessionAccounted
<1>7. SessionWellTyped'
  BY <1>2, <1>3 DEF SessionWellTyped
<1> QED BY <1>5, <1>6, <1>7

LEMMA SessionBeginPasses ==
  ASSUME NEW k, NEW kind, NEW f, loading[k].pc # "loading", Fields!Begin(k, kind, f)
  PROVE  \E r : SessionPasses(k, r)
<1> DEFINE r1 == [pc |-> "resolving", kind |-> kind, key |-> Nobody]
<1>1. r1.pc # "loading" /\ Fields!Going(kind).pc # "loading"
  BY DEF Fields!Going, Fields!Idle
<1>2. loading' = [loading EXCEPT ![k] = r1] \/ loading' = [loading EXCEPT ![k] = Fields!Going(kind)]
  BY DEF Fields!Begin
<1> HIDE DEF r1
<1> QED BY <1>1, <1>2 DEF SessionPasses

LEMMA SessionRequestKeeps ==
  ASSUME SessionIInv, NEW k \in Tasks, Fields!RefreshData(k) \/ Fields!ProcessPending(k) \/ Fields!ChangeChannel(k) \/ Fields!Processed(k)
  PROVE  SessionIInv'
<1> USE DEF SessionIInv
<1>1. UNCHANGED <<config, viewed, asked, doubled, identity, mistaken, outages>> /\ muddled' \in BOOLEAN
  BY DEF Fields!RefreshData, Fields!ProcessPending, Fields!ChangeChannel, Fields!Processed, Fields!loaded,
         Fields!saved, SessionWellTyped
<1>2. fields' \in SessionFieldRows
  BY SessionFieldEdits DEF Fields!RefreshData, Fields!ProcessPending, Fields!ChangeChannel,
         Fields!Processed, SessionWellTyped
<1>3. loading[k].pc # "loading"
  BY DEF Fields!RefreshData, Fields!ProcessPending, Fields!ChangeChannel, Fields!Processed, Fields!Free
<1>4. \E r : SessionPasses(k, r)
  BY <1>3, SessionBeginPasses DEF Fields!RefreshData, Fields!ProcessPending, Fields!ChangeChannel,
         Fields!Processed
<1>5. SessionAccounted'
  <2>1. CASE Fields!ChangeChannel(k)
    BY <2>1 DEF Fields!ChangeChannel, SessionAccounted
  <2>2. CASE ~Fields!ChangeChannel(k)
    <3>1. PICK kind \in {"refresh", "pending"} : Fields!Sent(kind, fields)
      BY <2>2 DEF Fields!RefreshData, Fields!ProcessPending, Fields!Processed
    <3>2. UNCHANGED <<fields, muddled>>
      BY <2>2 DEF Fields!RefreshData, Fields!ProcessPending, Fields!Processed
    <3>3. sent' = sent \/ (fields.account # Unset /\ sent' = sent \cup {<<fields.channel, fields.account>>})
      BY <3>1 DEF Fields!Sent, Fields!Sends
    <3> QED BY <3>2, <3>3 DEF SessionAccounted
  <2> QED BY <2>1, <2>2
<1>6. outages' \in Nat /\ outages' >= outages
  BY <1>1 DEF SessionWellTyped
<1>7. config' \in BOOLEAN
  BY <1>1 DEF SessionWellTyped
<1> QED BY <1>1, <1>2, <1>4, <1>5, <1>6, <1>7, SessionPassKeeps

LEMMA SessionResolvedKeeps ==
  ASSUME SessionIInv, NEW k \in Tasks, Fields!Resolved(k)
  PROVE  SessionIInv'
<1> USE DEF SessionIInv
<1> DEFINE d == DefaultOf[fields.channel]
           a == IF config' /\ d # Unset THEN d ELSE fields.account
<1>1. /\ UNCHANGED <<viewed, asked, doubled, identity, mistaken>> /\ loading[k].pc = "resolving"
      /\ fields' = [fields EXCEPT !.account = a]
      /\ sent' = Fields!Sends(loading[k].kind, fields.channel, a)
      /\ muddled' = (muddled \/ ~config' \/ (fields.account # Unset /\ a # fields.account))
      /\ loading' = [loading EXCEPT ![k] = Fields!Going(loading[k].kind)]
  <2>1. UNCHANGED <<viewed, asked, doubled, identity, mistaken>> /\ loading[k].pc = "resolving"
    BY DEF Fields!Resolved, Fields!loaded, Fields!saved
  <2>2. /\ fields' = [fields EXCEPT !.account = a]
        /\ sent' = Fields!Sends(loading[k].kind, fields.channel, a)
        /\ loading' = [loading EXCEPT ![k] = Fields!Going(loading[k].kind)]
    BY DEF Fields!Resolved
  <2>3. muddled' = (muddled \/ ~config' \/ (fields.account # Unset /\ a # fields.account))
    BY Zenon DEF Fields!Resolved, Fields!NeedsDefault
  <2> QED BY <2>1, <2>2, <2>3
<1>2. outages' \in Nat /\ outages' >= outages /\ config' \in BOOLEAN
  <2>1. (config' = TRUE /\ UNCHANGED outages) \/ (Fields!Fault /\ UNCHANGED config)
    BY Zenon DEF Fields!Resolved
  <2>2. outages \in Nat /\ config \in BOOLEAN
    BY DEF SessionWellTyped
  <2>3. config' \in BOOLEAN
    BY <2>1, <2>2, Zenon
  <2>4. outages' = outages \/ outages' = outages + 1
    BY <2>1, Zenon DEF Fields!Fault
  <2> QED BY <2>2, <2>3, <2>4
<1>3. fields.channel \in Channels /\ fields.account \in Fields!Accounts
  BY DEF SessionWellTyped, SessionFieldRows
<1>4. a \in Fields!Accounts
  BY <1>3 DEF Fields!Accounts
<1>5. fields' \in SessionFieldRows /\ fields'.account = a /\ fields'.channel = fields.channel
  BY <1>1, <1>4, SessionFieldEdits DEF SessionWellTyped
<1>6. SessionAccounted'
  <2> SUFFICES ASSUME ~muddled', NEW x \in sent'
               PROVE  /\ x = <<fields.channel, a>>
                      /\ a = Unset => DefaultOf[fields.channel] = Unset
    BY <1>5 DEF SessionAccounted
  <2>1. ~muddled /\ config' /\ (fields.account # Unset => a = fields.account)
    BY <1>1
  <2>2. x \in sent \/ x = <<fields.channel, a>>
    BY <1>1 DEF Fields!Sends
  <2>3. x \in sent => x = <<fields.channel, fields.account>> /\ (fields.account = Unset => d = Unset)
    BY <2>1 DEF SessionAccounted
  <2>4. a = Unset => d = Unset
    BY <2>1
  <2> QED BY <2>1, <2>2, <2>3, <2>4
<1>7. SessionPasses(k, Fields!Going(loading[k].kind))
  <2>1. Fields!Going(loading[k].kind).pc # "loading"
    BY DEF Fields!Going, Fields!Idle
  <2> QED BY <1>1, <2>1 DEF SessionPasses
<1>8. muddled' \in BOOLEAN
  BY <1>1
<1> HIDE DEF a, d
<1> PICK r : r = Fields!Going(loading[k].kind)
  OBVIOUS
<1> QED BY <1>1, <1>2, <1>5, <1>6, <1>7, <1>8, SessionPassKeeps

LEMMA SessionStepKeepsIInv == SessionIInv /\ [Fields!Next]_Fields!vars => SessionIInv'
<1> SUFFICES ASSUME SessionIInv, [Fields!Next]_Fields!vars PROVE SessionIInv'
  OBVIOUS
<1>1. CASE Fields!Edit \/ Fields!SelectThread \/ Fields!Search
  BY <1>1, SessionEditKeeps
<1>2. CASE Fields!SaveIdentity
  BY <1>2, SessionSaveKeeps
<1>3. ASSUME NEW k \in Tasks, Fields!RunMessageSearch(k) PROVE SessionIInv'
  <2>1. UNCHANGED <<fields, config, identity, mistaken, sent, muddled, outages>>
    BY <1>3 DEF Fields!RunMessageSearch, Fields!saved, Fields!session
  <2>2. CASE Fields!Free(k) /\ Fields!Ask(k, "search")
    <3>1. "search" \in Fields!Views /\ loading[k].pc # "loading"
      BY <2>2 DEF Fields!Views, Fields!Free
    <3> QED BY <2>1, <2>2, <3>1, SessionAskKeeps
  <2>3. CASE ~(Fields!Free(k) /\ Fields!Ask(k, "search"))
    <3>1. /\ viewed' = [viewed EXCEPT !["search"] = Nobody] /\ asked' = [asked EXCEPT !["search"] = Nobody]
          /\ UNCHANGED <<loading, doubled>>
      BY <1>3, <2>3 DEF Fields!RunMessageSearch
    <3> QED BY <2>1, <3>1, SessionHidesKeeps
  <2> QED BY <2>2, <2>3
<1>4. ASSUME NEW k \in Tasks, Fields!Open(k) PROVE SessionIInv'
  <2>1. PICK v \in {"metrics", "identity", "summary"} : Fields!Ask(k, v)
    BY <1>4 DEF Fields!Open
  <2>2. /\ v \in Fields!Views /\ loading[k].pc # "loading"
        /\ UNCHANGED <<fields, config, identity, mistaken, sent, muddled, outages>>
    BY <1>4 DEF Fields!Open, Fields!Views, Fields!Free, Fields!saved, Fields!session
  <2> QED BY <2>1, <2>2, SessionAskKeeps
<1>5. ASSUME NEW k \in Tasks, Fields!Answer(k) \/ Fields!LoadFails(k) PROVE SessionIInv'
  BY <1>5, SessionEndKeeps
<1>6. ASSUME NEW k \in Tasks, Fields!RefreshData(k) \/ Fields!ProcessPending(k) \/ Fields!ChangeChannel(k) \/ Fields!Processed(k) PROVE SessionIInv'
  BY <1>6, SessionRequestKeeps
<1>7. ASSUME NEW k \in Tasks, Fields!Resolved(k) PROVE SessionIInv'
  BY <1>7, SessionResolvedKeeps
<1>8. ASSUME NEW k \in Tasks, Fields!Listed(k) PROVE SessionIInv'
  <2>1. /\ "connection" \in Fields!Views /\ loading[k].pc # "loading" /\ Fields!Ask(k, "connection")
        /\ UNCHANGED <<fields, config, identity, mistaken, sent, muddled, outages>>
    BY <1>8 DEF Fields!Listed, Fields!Views, Fields!saved, Fields!session
  <2> QED BY <2>1, SessionAskKeeps
<1>9. ASSUME NEW k \in Tasks, Fields!ProcessFails(k) PROVE SessionIInv'
  <2>1. /\ SessionPasses(k, Fields!Idle) /\ UNCHANGED <<fields, config, viewed, asked, doubled, identity, mistaken, sent, muddled>>
        /\ outages' \in Nat /\ outages' >= outages
    BY <1>9 DEF Fields!ProcessFails, SessionPasses, Fields!Idle, Fields!loaded, Fields!saved,
                Fields!session, Fields!Fault, SessionIInv, SessionWellTyped
  <2>2. fields' \in SessionFieldRows /\ config' \in BOOLEAN /\ muddled' \in BOOLEAN /\ SessionAccounted'
    BY <2>1 DEF SessionIInv, SessionWellTyped, SessionAccounted
  <2> QED BY <2>1, <2>2, SessionPassKeeps
<1>10. CASE UNCHANGED Fields!vars
  <2>1. UNCHANGED <<fields, config, loading, viewed, asked, doubled, identity, mistaken, sent, muddled, outages>>
    BY <1>10 DEF Fields!vars, Fields!loaded, Fields!saved, Fields!session
  <2>2. SessionWellTyped'
    BY <2>1 DEF SessionIInv, SessionWellTyped, Fields!Loads
  <2>3. SessionLoaded' /\ SessionFormed' /\ Fields!IdentityIsOfUser' /\ SessionAccounted'
    BY <2>1 DEF SessionIInv, SessionLoaded, SessionCurrent, SessionFormed, Fields!IdentityIsOfUser,
                SessionAccounted, Fields!Loads
  <2> QED BY <2>2, <2>3 DEF SessionIInv
<1> QED BY <1>1, <1>2, <1>3, <1>4, <1>5, <1>6, <1>7, <1>8, <1>9, <1>10 DEF Fields!Next

LEMMA SessionInitIInv == Fields!Init => SessionIInv
<1> SUFFICES ASSUME Fields!Init PROVE SessionIInv
  OBVIOUS
<1>1. \A k \in Tasks : loading[k].pc = "idle"
  BY DEF Fields!Init, Fields!Idle
<1>2. \A v : Fields!Loads(v) = {}
  BY <1>1 DEF Fields!Loads
<1>3. fields \in SessionFieldRows
  BY DEF Fields!Init, SessionFieldRows, Fields!Accounts
<1>4. SessionWellTyped
  BY <1>1, <1>2, <1>3 DEF Fields!Init, SessionWellTyped
<1>5. SessionLoaded /\ SessionFormed /\ Fields!IdentityIsOfUser /\ SessionAccounted
  BY <1>2 DEF Fields!Init, SessionLoaded, SessionCurrent, SessionFormed, Fields!IdentityIsOfUser,
              SessionAccounted, Fields!Views
<1> QED BY <1>4, <1>5 DEF SessionIInv

LEMMA SessionIInvIsMeant == SessionIInv => Fields!FieldsAreMeant
<1> SUFFICES ASSUME SessionIInv PROVE Fields!FieldsAreMeant
  OBVIOUS
<1>1. Fields!ViewsAreOfLastAsk
  BY DEF SessionIInv, SessionLoaded, SessionCurrent, Fields!ViewsAreOfLastAsk
<1>2. Fields!OneAccount
  BY DEF SessionIInv, SessionAccounted, Fields!OneAccount
<1> QED BY <1>1, <1>2 DEF SessionIInv, Fields!FieldsAreMeant

-----------------------------------------------------------------------------
\* The web client.
PagePcs == {"idle", "login", "asking", "answer", "queueing", "posting", "posted", "ingesting"}
PageKinds == {"none", "login", "refresh", "queue", "action", "ingest"}
PageWhos == Users \cup {Nobody}
PageTargets == (Chats \cup {Nobody}) \X Nat
PageCounts == [Chats -> Nat]
PageTaskRows == [pc : PagePcs, kind : PageKinds, who : PageWhos, of : PageTargets, got : PageCounts]

PageNumbered == Chats \X (Nat \ {0})
PageTaskIsRight(k) ==
  /\ taps[k].pc \in {"posting", "posted"} => taps[k].of \in PageNumbered /\ taps[k].kind = "action"
  /\ taps[k].pc = "ingesting" => taps[k].of[1] \in Chats
  /\ taps[k].pc = "login" => taps[k].who \in Users

PageTyped ==
  /\ latest \in PageCounts /\ open \in [Chats -> BOOLEAN]
  /\ session \in PageWhos /\ threads \subseteq Chats /\ rows \subseteq Chats
  /\ lists \in PageCounts /\ current \in Chats \cup {Nobody}
  /\ paste \in Chats \cup {Nobody} /\ taps \in [Tasks -> PageTaskRows]
  /\ offered \in {Page!Nothing} \cup PageNumbered
  /\ \A k \in Tasks : PageTaskIsRight(k)
  /\ decided \subseteq PageNumbered
  /\ late \in BOOLEAN /\ moved \in BOOLEAN /\ crowded \in BOOLEAN

\* What a step does to a task.
PageRowOf(pc, kind, who, of) == [Page!Idle EXCEPT !.pc = pc, !.kind = kind, !.who = who, !.of = of]

LEMMA PageFieldChanges ==
  ASSUME NEW r \in PageTaskRows
  PROVE  /\ \A x \in PagePcs :
              /\ [r EXCEPT !.pc = x] \in PageTaskRows /\ [r EXCEPT !.pc = x].pc = x
              /\ [r EXCEPT !.pc = x].kind = r.kind /\ [r EXCEPT !.pc = x].who = r.who
              /\ [r EXCEPT !.pc = x].of = r.of /\ [r EXCEPT !.pc = x].got = r.got
         /\ \A x \in PageKinds :
              /\ [r EXCEPT !.kind = x] \in PageTaskRows /\ [r EXCEPT !.kind = x].kind = x
              /\ [r EXCEPT !.kind = x].pc = r.pc /\ [r EXCEPT !.kind = x].who = r.who
              /\ [r EXCEPT !.kind = x].of = r.of /\ [r EXCEPT !.kind = x].got = r.got
         /\ \A x \in PageWhos :
              /\ [r EXCEPT !.who = x] \in PageTaskRows /\ [r EXCEPT !.who = x].who = x
              /\ [r EXCEPT !.who = x].pc = r.pc /\ [r EXCEPT !.who = x].kind = r.kind
              /\ [r EXCEPT !.who = x].of = r.of /\ [r EXCEPT !.who = x].got = r.got
         /\ \A x \in PageTargets :
              /\ [r EXCEPT !.of = x] \in PageTaskRows /\ [r EXCEPT !.of = x].of = x
              /\ [r EXCEPT !.of = x].pc = r.pc /\ [r EXCEPT !.of = x].kind = r.kind
              /\ [r EXCEPT !.of = x].who = r.who /\ [r EXCEPT !.of = x].got = r.got
         /\ \A x \in PageCounts :
              /\ [r EXCEPT !.got = x] \in PageTaskRows /\ [r EXCEPT !.got = x].got = x
              /\ [r EXCEPT !.got = x].pc = r.pc /\ [r EXCEPT !.got = x].kind = r.kind
              /\ [r EXCEPT !.got = x].who = r.who /\ [r EXCEPT !.got = x].of = r.of
BY DEF PageTaskRows

LEMMA PageIdleIsRow ==
  Page!Idle \in PageTaskRows /\ Page!Idle.pc = "idle" /\ Page!Idle.kind = "none" /\ Page!Idle.got = Page!Empty /\ Page!Empty \in PageCounts
<1>1. Page!Empty \in PageCounts
  BY DEF Page!Empty, PageCounts
<1>2. Page!Idle = [pc |-> "idle", kind |-> "none", who |-> Nobody, of |-> <<Nobody, 0>>, got |-> Page!Empty]
  BY DEF Page!Idle, Page!Empty
<1>3. "idle" \in PagePcs /\ "none" \in PageKinds /\ Nobody \in PageWhos /\ <<Nobody, 0>> \in PageTargets
  BY DEF PagePcs, PageKinds, PageTargets, PageWhos
<1> QED BY <1>1, <1>2, <1>3 DEF PageTaskRows

PageNewRow(x, y, z, d) == [Page!Idle EXCEPT !.pc = x, !.kind = y, !.who = z, !.of = d]

LEMMA PageNewRows ==
  ASSUME NEW x \in PagePcs, NEW y \in PageKinds, NEW z \in PageWhos, NEW d \in PageTargets
  PROVE  /\ PageNewRow(x, y, z, d) \in PageTaskRows
         /\ PageNewRow(x, y, z, d).pc = x
         /\ PageNewRow(x, y, z, d).kind = y
         /\ PageNewRow(x, y, z, d).who = z
         /\ PageNewRow(x, y, z, d).of = d
<1> DEFINE a == [Page!Idle EXCEPT !.pc = x]
           b == [a EXCEPT !.kind = y]
           c == [b EXCEPT !.who = z]
<1>1. a \in PageTaskRows /\ a.pc = x
  BY PageIdleIsRow, PageFieldChanges
<1> HIDE DEF a
<1>2. b \in PageTaskRows /\ b.pc = x /\ b.kind = y
  BY <1>1, PageFieldChanges
<1> HIDE DEF b
<1>3. c \in PageTaskRows /\ c.pc = x /\ c.kind = y /\ c.who = z
  BY <1>2, PageFieldChanges
<1> HIDE DEF c
<1>4. [c EXCEPT !.of = d] \in PageTaskRows /\ [c EXCEPT !.of = d].pc = x /\ [c EXCEPT !.of = d].kind = y
      /\ [c EXCEPT !.of = d].who = z /\ [c EXCEPT !.of = d].of = d
  BY <1>3, PageFieldChanges
<1> QED BY <1>4 DEF a, b, c, PageNewRow

\* What a step leaves of the tasks.
PageOthers(k) == \A l \in Tasks : l # k => taps'[l] = taps[l]

LEMMA PageOneBecomes ==
  ASSUME PageTyped, NEW k \in Tasks, NEW r \in PageTaskRows, taps' = [taps EXCEPT ![k] = r]
  PROVE  taps' \in [Tasks -> PageTaskRows] /\ taps'[k] = r /\ PageOthers(k)
BY DEF PageTyped, PageOthers

LEMMA PageStarting ==
  ASSUME PageTyped, NEW k \in Tasks, NEW y \in PageKinds, NEW x \in PagePcs, NEW z \in PageWhos, NEW d \in PageTargets,
         Page!Start(k, y, x, z, d)
  PROVE  /\ taps' \in [Tasks -> PageTaskRows] /\ PageOthers(k) /\ taps[k].pc = "idle"
         /\ taps'[k].pc = x /\ taps'[k].kind = y /\ taps'[k].who = z /\ taps'[k].of = d
         /\ crowded' = (crowded \/ Page!Active # {})
<1>1. taps' = [taps EXCEPT ![k] = PageNewRow(x, y, z, d)] /\ Page!At(k, "idle") /\ crowded' = (crowded \/ Page!Active # {})
  BY Zenon DEF Page!Start, PageNewRow
<1>2. PageNewRow(x, y, z, d) \in PageTaskRows
  BY PageNewRows
<1>3. taps' \in [Tasks -> PageTaskRows] /\ taps'[k] = PageNewRow(x, y, z, d) /\ PageOthers(k)
  BY <1>1, <1>2, PageOneBecomes
<1> QED BY <1>1, <1>3, PageNewRows DEF Page!At

LEMMA PageEnding ==
  ASSUME PageTyped, NEW k \in Tasks, Page!Ends(k)
  PROVE  taps' \in [Tasks -> PageTaskRows] /\ PageOthers(k) /\ taps'[k] = Page!Idle /\ taps'[k].pc = "idle" /\ taps'[k].kind = "none"
<1>1. taps' = [taps EXCEPT ![k] = Page!Idle] /\ Page!Idle \in PageTaskRows /\ Page!Idle.pc = "idle" /\ Page!Idle.kind = "none"
  BY PageIdleIsRow DEF Page!Ends
<1> QED BY <1>1, PageOneBecomes

LEMMA PageAsking ==
  ASSUME PageTyped, NEW k \in Tasks, NEW s \in PageWhos, Page!Ask(k, s), s # Nobody
  PROVE  /\ taps' \in [Tasks -> PageTaskRows] /\ PageOthers(k) /\ UNCHANGED <<threads, lists, rows, offered>>
         /\ taps'[k].pc = "asking" /\ taps'[k].kind = taps[k].kind /\ taps'[k].who = s
<1> DEFINE q == [taps[k] EXCEPT !.pc = "asking"]
           r == [q EXCEPT !.who = s]
<1>1. q \in PageTaskRows /\ q.pc = "asking" /\ q.kind = taps[k].kind
  <2>1. taps[k] \in PageTaskRows /\ {"asking", "answer", "posted"} \subseteq PagePcs
    BY DEF PageTyped, PagePcs
  <2> QED BY <2>1, PageFieldChanges
<1>2. r \in PageTaskRows /\ r.pc = "asking" /\ r.kind = taps[k].kind /\ r.who = s
  <2> HIDE DEF q
  <2> QED BY <1>1, PageFieldChanges
<1>3. taps' = [taps EXCEPT ![k] = r]
  BY DEF Page!Ask
<1> HIDE DEF r
<1>4. taps' \in [Tasks -> PageTaskRows] /\ taps'[k] = r /\ PageOthers(k)
  BY <1>2, <1>3, PageOneBecomes
<1> QED BY <1>2, <1>4 DEF Page!Ask, Page!lists

LEMMA PageAnswering ==
  ASSUME PageTyped, NEW k \in Tasks, Page!Bootstrap(k)
  PROVE  /\ taps' \in [Tasks -> PageTaskRows] /\ PageOthers(k) /\ taps[k].pc = "asking"
         /\ taps'[k].pc = "answer" /\ taps'[k].kind = taps[k].kind /\ taps'[k].who = taps[k].who
         /\ taps'[k].got = [t \in Chats |-> IF OwnerOf[t] = taps[k].who /\ open[t] THEN latest[t] ELSE 0]
         /\ taps'[k].got \in PageCounts
<1> DEFINE got == [t \in Chats |-> IF OwnerOf[t] = taps[k].who /\ open[t] THEN latest[t] ELSE 0]
           q == [taps[k] EXCEPT !.pc = "answer"]
           r == [q EXCEPT !.got = got]
<1>0. got \in PageCounts
  BY DEF PageTyped, PageCounts
<1>1. q \in PageTaskRows /\ q.pc = "answer" /\ q.kind = taps[k].kind /\ q.who = taps[k].who
  <2>1. taps[k] \in PageTaskRows /\ {"asking", "answer", "posted"} \subseteq PagePcs
    BY DEF PageTyped, PagePcs
  <2> QED BY <2>1, PageFieldChanges
<1>2. r \in PageTaskRows /\ r.pc = "answer" /\ r.kind = taps[k].kind /\ r.who = taps[k].who /\ r.got = got
  <2> HIDE DEF q, got
  <2> QED BY <1>0, <1>1, PageFieldChanges
<1>3. taps' = [taps EXCEPT ![k] = r]
  BY Zenon DEF Page!Bootstrap
<1>5. taps[k].pc = "asking"
  BY DEF Page!Bootstrap, Page!At
<1> HIDE DEF r
<1>4. taps' \in [Tasks -> PageTaskRows] /\ taps'[k] = r /\ PageOthers(k)
  BY <1>2, <1>3, PageOneBecomes
<1> QED BY <1>0, <1>2, <1>4, <1>5

LEMMA PageApproving ==
  ASSUME PageTyped, NEW k \in Tasks, Page!MiniApprove(k)
  PROVE  /\ taps' \in [Tasks -> PageTaskRows] /\ PageOthers(k) /\ taps[k].pc = "posting"
         /\ taps'[k].pc = "posted" /\ taps'[k].kind = taps[k].kind /\ taps'[k].of = taps[k].of
<1> DEFINE r == [taps[k] EXCEPT !.pc = "posted"]
<1>1. r \in PageTaskRows /\ r.pc = "posted" /\ r.kind = taps[k].kind /\ r.of = taps[k].of
  <2>1. taps[k] \in PageTaskRows /\ {"asking", "answer", "posted"} \subseteq PagePcs
    BY DEF PageTyped, PagePcs
  <2> QED BY <2>1, PageFieldChanges
<1>2. taps' = [taps EXCEPT ![k] = r]
  BY Zenon DEF Page!MiniApprove
<1>4. taps[k].pc = "posting"
  BY DEF Page!MiniApprove, Page!At
<1> HIDE DEF r
<1>3. taps' \in [Tasks -> PageTaskRows] /\ taps'[k] = r /\ PageOthers(k)
  BY <1>1, <1>2, PageOneBecomes
<1> QED BY <1>1, <1>3, <1>4

LEMMA PageLoading ==
  ASSUME PageTyped, NEW k \in Tasks, Page!PageLoads(k)
  PROVE  /\ taps' \in [Tasks -> PageTaskRows] /\ \A l \in Tasks : l # k => taps'[l] = Page!Idle
         /\ taps'[k].pc = "asking" /\ taps'[k].kind = "refresh" /\ taps'[k].who = session
<1> DEFINE p == [Page!Idle EXCEPT !.pc = "asking"]
           q == [p EXCEPT !.kind = "refresh"]
           r == [q EXCEPT !.who = session]
<1>1. p \in PageTaskRows /\ p.pc = "asking"
  BY PageIdleIsRow, PageFieldChanges DEF PagePcs
<1>2. q \in PageTaskRows /\ q.pc = "asking" /\ q.kind = "refresh"
  <2> HIDE DEF p
  <2> QED BY <1>1, PageFieldChanges DEF PageKinds
<1>3. r \in PageTaskRows /\ r.pc = "asking" /\ r.kind = "refresh" /\ r.who = session
  <2> HIDE DEF q
  <2> QED BY <1>2, PageFieldChanges DEF PageTyped, PageWhos
<1>4. taps' = [l \in Tasks |-> IF l # k THEN Page!Idle ELSE r]
  BY DEF Page!PageLoads
<1> HIDE DEF r
<1> QED BY <1>3, <1>4, PageIdleIsRow

\* What renderSidebar and renderMain leave on the page.
PageShows == offered = IF session = Nobody \/ current = Nobody THEN Page!Nothing ELSE Page!LatestDraft(current, lists)

LEMMA PageRendered ==
  /\ Page!Render => PageShows' /\ rows' \subseteq threads'
  /\ PageTyped /\ PageShows =>
       offered = Page!Nothing \/
            (offered = Page!ActionDraft /\ offered = <<current, lists[current]>>
             /\ current \in Chats /\ lists[current] # 0)
  /\ PageTyped => Page!ActionDraft \in {Page!Nothing} \cup PageNumbered
BY DEF Page!Render, Page!RenderSidebar, Page!RenderMain, PageShows, Page!ActionDraft, Page!LatestDraft,
       PageTyped, PageCounts, PageNumbered

LEMMA PageRenderedNext ==
  ASSUME Page!Render, current' \in Chats \cup {Nobody}, lists' \in PageCounts
  PROVE  /\ offered' \in {Page!Nothing} \cup PageNumbered
         /\ offered' = Page!Nothing \/
            (offered' = Page!ActionDraft' /\ offered' = <<current', lists'[current']>>
             /\ current' \in Chats /\ lists'[current'] # 0)
BY DEF Page!Render, Page!RenderSidebar, Page!RenderMain, Page!ActionDraft, Page!LatestDraft, PageCounts,
       PageNumbered

LEMMA PageInitTyped == Page!Init => PageTyped
<1> SUFFICES ASSUME Page!Init PROVE PageTyped
  OBVIOUS
<1>1. taps \in [Tasks -> PageTaskRows] /\ \A k \in Tasks : PageTaskIsRight(k)
  BY PageIdleIsRow DEF Page!Init, PageTaskIsRight
<1>2. latest \in PageCounts /\ lists \in PageCounts
  BY PageIdleIsRow DEF Page!Init, PageCounts
<1> QED BY <1>1, <1>2 DEF Page!Init, PageTyped, PageWhos

\* The steps that leave the tasks alone, but for the load of the page.
PageTaps == Page!Back \/ Page!ThreadSearch \/ Page!Logout \/ \E t \in Chats : Page!SelectThread(t) \/ Page!WorkerDrafts(t)

\* The steps that start a task.
PageBegins(k) ==
  \/ \E u \in Users : Page!DoDevLogin(k, u)
  \/ Page!Refresh(k) \/ Page!ProcessInboundQueue(k) \/ Page!DraftAction(k) \/ Page!IngestContextFromFile(k)

LEMMA PageBeginsMove ==
  ASSUME PageTyped, NEW k \in Tasks, PageBegins(k)
  PROVE  /\ taps' \in [Tasks -> PageTaskRows] /\ PageOthers(k) /\ taps[k].pc = "idle"
         /\ taps'[k].pc \in {"login", "asking", "queueing", "posting", "ingesting"} /\ PageTaskIsRight(k)'
         /\ taps'[k].kind = "action" => taps'[k].pc = "posting"
         /\ crowded' = (crowded \/ Page!Active # {})
         /\ UNCHANGED <<latest, open, session, threads, lists, rows, current, offered, paste, decided, late, moved>>
<1>0. <<Nobody, 0>> \in PageTargets /\ session \in PageWhos
  BY DEF PageTargets, PageTyped
<1>1. CASE \E u \in Users : Page!DoDevLogin(k, u)
  <2>1. PICK u \in Users : Page!DoDevLogin(k, u)
    BY <1>1
  <2>2. Page!Start(k, "login", "login", u, <<Nobody, 0>>) /\ u \in PageWhos
    BY <2>1 DEF Page!DoDevLogin, PageWhos, Page!Nothing
  <2>3. "login" \in PageKinds /\ "login" \in PagePcs
    BY DEF PageKinds, PagePcs
  <2> QED BY <1>0, <2>1, <2>2, <2>3, PageStarting DEF Page!DoDevLogin, Page!server, Page!lists, PageTaskIsRight
<1>2. CASE Page!Refresh(k)
  <2>1. Page!Start(k, "refresh", "asking", session, <<Nobody, 0>>)
    BY <1>2 DEF Page!Refresh, Page!Nothing
  <2>2. "refresh" \in PageKinds /\ "asking" \in PagePcs
    BY DEF PageKinds, PagePcs
  <2> QED BY <1>0, <1>2, <2>1, <2>2, PageStarting DEF Page!Refresh, Page!server, Page!lists, PageTaskIsRight
<1>3. CASE Page!ProcessInboundQueue(k)
  <2>1. Page!Start(k, "queue", "queueing", session, <<Nobody, 0>>)
    BY <1>3 DEF Page!ProcessInboundQueue, Page!Nothing
  <2>2. "queue" \in PageKinds /\ "queueing" \in PagePcs
    BY DEF PageKinds, PagePcs
  <2> QED BY <1>0, <1>3, <2>1, <2>2, PageStarting DEF Page!ProcessInboundQueue, Page!server, Page!lists, PageTaskIsRight
<1>4. CASE Page!DraftAction(k)
  <2>1. Page!Start(k, "action", "posting", session, Page!ActionDraft) /\ Page!ActionDraft \in PageNumbered
    BY <1>4, PageRendered DEF Page!DraftAction
  <2>2. "action" \in PageKinds /\ "posting" \in PagePcs /\ Page!ActionDraft \in PageTargets
    BY <2>1 DEF PageKinds, PagePcs, PageNumbered, PageTargets
  <2> QED BY <1>0, <1>4, <2>1, <2>2, PageStarting DEF Page!DraftAction, Page!server, Page!lists, PageTaskIsRight
<1>5. CASE Page!IngestContextFromFile(k)
  <2>1. Page!Start(k, "ingest", "ingesting", session, <<current, 0>>) /\ current \in Chats
    BY <1>5 DEF Page!IngestContextFromFile, PageTyped
  <2>2. "ingest" \in PageKinds /\ "ingesting" \in PagePcs /\ <<current, 0>> \in PageTargets
    BY <2>1 DEF PageKinds, PagePcs, PageTargets
  <2> QED BY <1>0, <1>5, <2>1, <2>2, PageStarting DEF Page!IngestContextFromFile, Page!server, Page!lists, PageTaskIsRight
<1> QED BY <1>1, <1>2, <1>3, <1>4, <1>5 DEF PageBegins

LEMMA PageTypedStep == PageTyped /\ [Page!Next]_Page!vars => PageTyped'
<1> SUFFICES ASSUME PageTyped, [Page!Next]_Page!vars PROVE PageTyped'
  OBVIOUS
<1>0. \A k \in Tasks : PageTaskIsRight(k)
  BY DEF PageTyped
<1>a. ASSUME NEW k \in Tasks, Page!Ends(k), UNCHANGED <<latest, open, session, decided>>,
             threads' \subseteq Chats, rows' \subseteq Chats, lists' \in PageCounts,
             current' \in Chats \cup {Nobody}, paste' \in Chats \cup {Nobody},
             offered' \in {Page!Nothing} \cup PageNumbered, late' \in BOOLEAN, moved' \in BOOLEAN, crowded' = crowded
      PROVE  PageTyped'
  <2>1. taps' \in [Tasks -> PageTaskRows] /\ PageOthers(k) /\ taps'[k].pc = "idle"
    BY <1>a, PageEnding
  <2>2. \A l \in Tasks : PageTaskIsRight(l)'
    BY <1>0, <2>1 DEF PageOthers, PageTaskIsRight
  <2> QED BY <1>a, <2>1, <2>2 DEF PageTyped
<1>b. ASSUME NEW k \in Tasks, NEW s \in PageWhos, Page!Ask(k, s), UNCHANGED <<latest, open, decided, late, crowded>>,
             session' \in PageWhos, current' \in Chats \cup {Nobody}, paste' = paste, moved' \in BOOLEAN
      PROVE  PageTyped'
  <2>1. CASE s = Nobody
    <3>1. Page!Ends(k) /\ threads' = {} /\ lists' = Page!Empty /\ Page!Render
      BY <1>b, <2>1 DEF Page!Ask
    <3>2. taps' \in [Tasks -> PageTaskRows] /\ PageOthers(k) /\ taps'[k].pc = "idle"
      BY <3>1, PageEnding
    <3>3. \A l \in Tasks : PageTaskIsRight(l)'
      BY <1>0, <3>2 DEF PageOthers, PageTaskIsRight
    <3>4. offered' \in {Page!Nothing} \cup PageNumbered /\ rows' = {}
      BY <1>b, <3>1, PageRenderedNext, PageIdleIsRow, PageRendered
    <3> QED BY <1>b, <3>1, <3>2, <3>3, <3>4, PageIdleIsRow DEF PageTyped
  <2>2. CASE s # Nobody
    <3>1. taps' \in [Tasks -> PageTaskRows] /\ PageOthers(k) /\ UNCHANGED <<threads, lists, rows, offered>> /\ taps'[k].pc = "asking"
      BY <1>b, <2>2, PageAsking
    <3>2. \A l \in Tasks : PageTaskIsRight(l)'
      BY <1>0, <3>1 DEF PageOthers, PageTaskIsRight
    <3> QED BY <1>b, <3>1, <3>2 DEF PageTyped
  <2> QED BY <2>1, <2>2
<1>1. ASSUME Page!Back \/ Page!ThreadSearch \/ Page!Logout \/ \E t \in Chats : Page!SelectThread(t) PROVE PageTyped'
  <2>1. /\ UNCHANGED <<latest, open, threads, lists, taps, decided, late, moved, crowded>>
        /\ current' \in Chats \cup {Nobody} /\ paste' \in Chats \cup {Nobody} /\ session' \in PageWhos
        /\ rows' \subseteq Chats /\ (Page!Render \/ offered' = offered)
    BY <1>1 DEF Page!Back, Page!ThreadSearch, Page!Logout, Page!SelectThread, PageTyped, Page!server,
                Page!lists, Page!history, Page!Render, Page!RenderSidebar, PageWhos
  <2>2. offered' \in {Page!Nothing} \cup PageNumbered
    BY <2>1, PageRenderedNext DEF PageTyped
  <2>3. \A k \in Tasks : PageTaskIsRight(k)'
    BY <1>0, <2>1 DEF PageTaskIsRight
  <2> QED BY <2>1, <2>2, <2>3 DEF PageTyped
<1>2. ASSUME NEW t \in Chats, Page!WorkerDrafts(t) PROVE PageTyped'
  <2>1. latest' \in PageCounts /\ open' \in [Chats -> BOOLEAN]
    BY <1>2 DEF Page!WorkerDrafts, PageTyped, PageCounts
  <2>2. \A k \in Tasks : PageTaskIsRight(k)'
    BY <1>0, <1>2 DEF PageTaskIsRight, Page!WorkerDrafts
  <2> QED BY <1>2, <2>1, <2>2 DEF Page!WorkerDrafts, PageTyped, Page!lists, Page!history
<1>3. ASSUME NEW k \in Tasks, PageBegins(k) PROVE PageTyped'
  <2>1. \A l \in Tasks : PageTaskIsRight(l)'
    BY <1>0, <1>3, PageBeginsMove DEF PageOthers, PageTaskIsRight
  <2>2. crowded' \in BOOLEAN
    BY <1>3, PageBeginsMove
  <2> QED BY <1>3, <2>1, <2>2, PageBeginsMove DEF PageTyped
<1>4. ASSUME NEW k \in Tasks, Page!PageLoads(k) PROVE PageTyped'
  <2>1. taps' \in [Tasks -> PageTaskRows] /\ \A l \in Tasks : PageTaskIsRight(l)'
    BY <1>4, PageLoading, PageIdleIsRow DEF PageTaskIsRight
  <2> QED BY <1>4, <2>1, PageIdleIsRow DEF Page!PageLoads, PageTyped, Page!server
<1>5. ASSUME NEW k \in Tasks, Page!Bootstrap(k) PROVE PageTyped'
  <2>1. \A l \in Tasks : PageTaskIsRight(l)'
    BY <1>0, <1>5, PageAnswering DEF PageOthers, PageTaskIsRight
  <2> QED BY <1>5, <2>1, PageAnswering DEF PageTyped, Page!Bootstrap, Page!server, Page!lists, Page!history
<1>6. ASSUME NEW k \in Tasks, Page!MiniApprove(k) PROVE PageTyped'
  <2>1. \A l \in Tasks : PageTaskIsRight(l)'
    BY <1>0, <1>6, PageApproving DEF PageOthers, PageTaskIsRight
  <2>2. taps[k].of \in PageNumbered
    BY <1>0, <1>6, PageApproving DEF PageTaskIsRight
  <2>3. open' \in [Chats -> BOOLEAN] /\ decided' \subseteq PageNumbered
    BY <1>6, <2>2 DEF Page!MiniApprove, PageTyped
  <2> QED BY <1>6, <2>1, <2>3, PageApproving DEF PageTyped, Page!MiniApprove, Page!lists
<1>7. ASSUME NEW k \in Tasks, Page!TakesBootstrap(k) \/ Page!BootstrapFails(k) PROVE PageTyped'
  <2>1. taps[k].got \in PageCounts
    BY DEF PageTyped, PageTaskRows
  <2>2. /\ threads' \subseteq Chats /\ lists' \in PageCounts /\ late' \in BOOLEAN /\ Page!Ends(k) /\ Page!Render
        /\ UNCHANGED <<latest, open, session, current, paste, decided, moved, crowded>>
    BY <1>7, <2>1, PageIdleIsRow DEF Page!TakesBootstrap, Page!BootstrapFails, Page!server
  <2>3. offered' \in {Page!Nothing} \cup PageNumbered /\ rows' \subseteq Chats
    BY <2>2, PageRenderedNext, PageRendered DEF PageTyped
  <2> QED BY <1>a, <2>2, <2>3 DEF PageTyped
<1>8. ASSUME NEW k \in Tasks, Page!LoggedIn(k) PROVE PageTyped'
  <2>1. taps[k].who \in Users /\ taps[k].who \in PageWhos
    BY <1>0, <1>8 DEF Page!LoggedIn, Page!At, PageTaskIsRight, PageWhos
  <2> QED BY <1>8, <1>b, <2>1 DEF Page!LoggedIn, Page!server, Page!history, PageTyped
<1>9. ASSUME NEW k \in Tasks, Page!QueueProcessed(k) PROVE PageTyped'
  BY <1>9, <1>b DEF Page!QueueProcessed, Page!server, Page!history, PageTyped
<1>10. ASSUME NEW k \in Tasks, Page!ActionDone(k) PROVE PageTyped'
  <2>1. taps[k].of[1] \in Chats
    BY <1>0, <1>10 DEF Page!ActionDone, Page!At, PageTaskIsRight, PageNumbered
  <2>2. moved' \in BOOLEAN
    BY <1>10 DEF Page!ActionDone
  <2> QED BY <1>10, <1>b, <2>1, <2>2 DEF Page!ActionDone, Page!server, PageTyped
<1>11. ASSUME NEW k \in Tasks, Page!Ingested(k) PROVE PageTyped'
  <2>1. taps[k].of[1] \in Chats
    BY <1>0, <1>11 DEF Page!Ingested, Page!At, PageTaskIsRight
  <2>2. /\ Page!Ends(k) /\ Page!Render /\ paste' \in Chats \cup {Nobody} /\ moved' \in BOOLEAN
        /\ UNCHANGED <<latest, open, session, threads, lists, current, decided, late, crowded>>
    BY <1>11, <2>1 DEF Page!Ingested, Page!server, Page!lists
  <2>3. offered' \in {Page!Nothing} \cup PageNumbered /\ rows' \subseteq Chats
    BY <2>2, PageRenderedNext, PageRendered DEF PageTyped
  <2> QED BY <1>a, <2>2, <2>3 DEF PageTyped
<1>12. ASSUME NEW k \in Tasks, Page!RequestFails(k) PROVE PageTyped'
  BY <1>12, <1>a DEF Page!RequestFails, Page!server, Page!lists, Page!history, PageTyped
<1>13. CASE UNCHANGED Page!vars
  BY <1>0, <1>13 DEF Page!vars, Page!server, Page!lists, Page!history, PageTyped, PageTaskIsRight
<1> QED BY <1>1, <1>2, <1>3, <1>4, <1>5, <1>6, <1>7, <1>8, <1>9, <1>10, <1>11, <1>12, <1>13 DEF Page!Next, PageBegins

-----------------------------------------------------------------------------
\* The steps that end with an answer, as far as the four properties are concerned.
PageGoesOn(k) == Page!LoggedIn(k) \/ Page!QueueProcessed(k) \/ Page!ActionDone(k)

LEMMA PageGoesOnMoves ==
  ASSUME PageTyped, NEW k \in Tasks, PageGoesOn(k)
  PROVE  /\ PageOthers(k) /\ taps[k].pc \in {"login", "queueing", "posted"}
         /\ UNCHANGED <<latest, open, paste, decided, late, crowded>>
         /\ \/ /\ taps'[k].pc = "asking" /\ taps'[k].kind = taps[k].kind
               /\ UNCHANGED <<threads, lists, rows, offered>>
            \/ /\ session' = Nobody /\ taps'[k].pc = "idle" /\ lists' = Page!Empty /\ offered' = Page!Nothing
<1>1. \A s \in PageWhos : Page!Ask(k, s) /\ session' = s => 
        /\ PageOthers(k)
        /\ \/ /\ taps'[k].pc = "asking" /\ taps'[k].kind = taps[k].kind
              /\ UNCHANGED <<threads, lists, rows, offered>>
           \/ /\ session' = Nobody /\ taps'[k].pc = "idle" /\ lists' = Page!Empty /\ offered' = Page!Nothing
  <2> SUFFICES ASSUME NEW s \in PageWhos, Page!Ask(k, s), session' = s
               PROVE  /\ PageOthers(k)
                      /\ \/ /\ taps'[k].pc = "asking" /\ taps'[k].kind = taps[k].kind
                            /\ UNCHANGED <<threads, lists, rows, offered>>
                         \/ /\ session' = Nobody /\ taps'[k].pc = "idle" /\ lists' = Page!Empty /\ offered' = Page!Nothing
    OBVIOUS
  <2>1. CASE s = Nobody
    <3>1. Page!Ends(k) /\ lists' = Page!Empty /\ offered' = Page!Nothing
      BY <2>1 DEF Page!Ask, Page!Render, Page!RenderMain
    <3> QED BY <2>1, <3>1, PageEnding
  <2>2. CASE s # Nobody
    BY <2>2, PageAsking
  <2> QED BY <2>1, <2>2
<1>2. CASE Page!LoggedIn(k)
  <2>1. Page!Ask(k, taps[k].who) /\ session' = taps[k].who /\ taps[k].pc = "login" /\ taps[k].who \in PageWhos
    BY <1>2 DEF Page!LoggedIn, PageTyped, PageTaskRows, Page!At
  <2> QED BY <1>1, <1>2, <2>1 DEF Page!LoggedIn, Page!server, Page!history
<1>3. CASE Page!QueueProcessed(k)
  <2>1. Page!Ask(k, session) /\ session' = session /\ taps[k].pc = "queueing" /\ session \in PageWhos
    BY <1>3 DEF Page!QueueProcessed, PageTyped, Page!At
  <2> QED BY <1>1, <1>3, <2>1 DEF Page!QueueProcessed, Page!server, Page!history
<1>4. CASE Page!ActionDone(k)
  <2>1. Page!Ask(k, session) /\ session' = session /\ taps[k].pc = "posted" /\ session \in PageWhos
    BY <1>4 DEF Page!ActionDone, PageTyped, Page!At
  <2> QED BY <1>1, <1>4, <2>1 DEF Page!ActionDone, Page!server
<1> QED BY <1>2, <1>3, <1>4 DEF PageGoesOn

LEMMA PageTakesMoves ==
  ASSUME PageTyped, NEW k \in Tasks, Page!TakesBootstrap(k) \/ Page!BootstrapFails(k)
  PROVE  /\ PageOthers(k) /\ taps[k].pc \in {"asking", "answer"} /\ taps'[k].pc = "idle"
         /\ UNCHANGED <<latest, open, session, current, paste, decided, moved, crowded>> /\ Page!Render
         /\ \/ /\ taps[k].pc = "answer" /\ threads' = {t \in Chats : OwnerOf[t] = taps[k].who}
               /\ lists' = taps[k].got /\ late' = (taps[k].who # session)
            \/ threads' = {} /\ lists' = Page!Empty
         /\ lists' \in PageCounts /\ current' \in Chats \cup {Nobody}
<1>1. Page!Ends(k) /\ taps[k].got \in PageCounts
  BY DEF Page!TakesBootstrap, Page!BootstrapFails, PageTyped, PageTaskRows
<1> QED BY <1>1, PageEnding, PageIdleIsRow DEF Page!TakesBootstrap, Page!BootstrapFails, Page!server, PageTyped, Page!At

LEMMA PageFailsMoves ==
  ASSUME PageTyped, NEW k \in Tasks, Page!RequestFails(k)
  PROVE  /\ PageOthers(k) /\ taps[k].pc \in {"login", "queueing", "posting", "ingesting"} /\ taps'[k].pc = "idle"
         /\ UNCHANGED <<latest, open, session, threads, lists, current, offered, decided, late, moved, crowded>>
         /\ paste' \in {paste, Nobody}
BY PageEnding DEF Page!RequestFails, Page!server, Page!lists, Page!history

LEMMA PageIngestedMoves ==
  ASSUME PageTyped, NEW k \in Tasks, Page!Ingested(k)
  PROVE  /\ PageOthers(k) /\ taps[k].pc = "ingesting" /\ taps'[k].pc = "idle" /\ Page!Render
         /\ UNCHANGED <<latest, open, session, threads, lists, current, decided, late, crowded>>
         /\ moved' = (paste' # Nobody /\ current \notin {Nobody, paste'})
         /\ lists' \in PageCounts /\ current' \in Chats \cup {Nobody}
BY PageEnding DEF Page!Ingested, Page!server, Page!lists, PageTyped, Page!At

-----------------------------------------------------------------------------
LEMMA PagePasteStep == PageTyped /\ Page!PasteIsOfSelection /\ [Page!Next]_Page!vars => Page!PasteIsOfSelection'
<1> SUFFICES ASSUME PageTyped, Page!PasteIsOfSelection, [Page!Next]_Page!vars PROVE Page!PasteIsOfSelection'
  OBVIOUS
<1> USE DEF Page!PasteIsOfSelection
<1>1. CASE Page!Back \/ Page!ThreadSearch \/ Page!Logout \/ \E t \in Chats : Page!SelectThread(t) \/ Page!WorkerDrafts(t)
  BY <1>1 DEF Page!Back, Page!ThreadSearch, Page!Logout, Page!SelectThread, Page!WorkerDrafts,
              Page!history
<1>2. ASSUME NEW k \in Tasks, PageBegins(k) PROVE Page!PasteIsOfSelection'
  BY <1>2, PageBeginsMove
<1>3. ASSUME NEW k \in Tasks, Page!PageLoads(k) \/ Page!Bootstrap(k) \/ Page!MiniApprove(k) PROVE Page!PasteIsOfSelection'
  BY <1>3 DEF Page!PageLoads, Page!Bootstrap, Page!MiniApprove, Page!history
<1>4. ASSUME NEW k \in Tasks, Page!TakesBootstrap(k) \/ Page!BootstrapFails(k) PROVE Page!PasteIsOfSelection'
  BY <1>4, PageTakesMoves
<1>5. ASSUME NEW k \in Tasks, Page!LoggedIn(k) \/ Page!QueueProcessed(k) \/ Page!ActionDone(k) PROVE Page!PasteIsOfSelection'
  BY <1>5 DEF Page!LoggedIn, Page!QueueProcessed, Page!ActionDone, Page!history
<1>6. ASSUME NEW k \in Tasks, Page!Ingested(k) PROVE Page!PasteIsOfSelection'
  BY <1>6, PageIngestedMoves
<1>7. ASSUME NEW k \in Tasks, Page!RequestFails(k) PROVE Page!PasteIsOfSelection'
  BY <1>7, PageFailsMoves
<1>8. CASE UNCHANGED Page!vars
  BY <1>8 DEF Page!vars, Page!history
<1> QED BY <1>1, <1>2, <1>3, <1>4, <1>5, <1>6, <1>7, <1>8 DEF Page!Next, PageBegins

\* What is shown is what a tap acts on, or the refresh of an earlier tap is under way.
PageTap == \/ offered = Page!Nothing \/ Page!ActionDraft = offered
       \/ \E k \in Tasks : taps[k].kind = "action" /\ taps[k].pc \in {"asking", "answer"}

LEMMA PageTapStep == PageTyped /\ PageTap /\ [Page!Next]_Page!vars => PageTap'
<1> SUFFICES ASSUME PageTyped, PageTap, [Page!Next]_Page!vars PROVE PageTap'
  OBVIOUS
<1>0. Page!Render /\ current' \in Chats \cup {Nobody} /\ lists' \in PageCounts => PageTap'
  BY PageRenderedNext DEF PageTap
<1>1. CASE Page!Back \/ Page!Logout \/ \E t \in Chats : Page!SelectThread(t)
  BY <1>0, <1>1 DEF Page!Back, Page!Logout, Page!SelectThread, PageTyped, Page!lists
<1>2. CASE Page!ThreadSearch \/ \E t \in Chats : Page!WorkerDrafts(t)
  <2>1. UNCHANGED <<offered, taps>> /\ Page!ActionDraft' = Page!ActionDraft
    BY <1>2 DEF Page!ThreadSearch, Page!WorkerDrafts, Page!ActionDraft, Page!LatestDraft, Page!lists
  <2> QED BY <2>1 DEF PageTap
<1>3. ASSUME NEW k \in Tasks, PageBegins(k) PROVE PageTap'
  BY <1>3, PageBeginsMove DEF PageTap, Page!ActionDraft, Page!LatestDraft, PageOthers
<1>4. ASSUME NEW k \in Tasks, Page!PageLoads(k) PROVE PageTap'
  BY <1>4 DEF Page!PageLoads, PageTap
<1>5. ASSUME NEW k \in Tasks, Page!Bootstrap(k) PROVE PageTap'
  <2>1. PageOthers(k) /\ taps[k].pc = "asking" /\ taps'[k].pc = "answer" /\ taps'[k].kind = taps[k].kind
    BY <1>5, PageAnswering
  <2>2. offered' = offered /\ Page!ActionDraft' = Page!ActionDraft
    BY <1>5 DEF Page!Bootstrap, Page!ActionDraft, Page!LatestDraft, Page!lists
  <2> QED BY <2>1, <2>2 DEF PageTap, PageOthers
<1>6. ASSUME NEW k \in Tasks, Page!MiniApprove(k) PROVE PageTap'
  BY <1>6, PageApproving DEF Page!MiniApprove, PageTap, Page!ActionDraft, Page!LatestDraft, PageOthers,
         Page!lists
<1>7. ASSUME NEW k \in Tasks, Page!TakesBootstrap(k) \/ Page!BootstrapFails(k) PROVE PageTap'
  BY <1>0, <1>7, PageTakesMoves
<1>8. ASSUME NEW k \in Tasks, Page!LoggedIn(k) \/ Page!QueueProcessed(k) PROVE PageTap'
  <2>1. current' = current
    BY <1>8 DEF Page!LoggedIn, Page!QueueProcessed
  <2> QED BY <1>8, <2>1, PageGoesOnMoves DEF PageGoesOn, PageTap, Page!ActionDraft, Page!LatestDraft, PageOthers
<1>9. ASSUME NEW k \in Tasks, Page!ActionDone(k), taps[k].kind = "action" PROVE PageTap'
  BY <1>9, PageGoesOnMoves DEF PageGoesOn, PageTap
<1>10. ASSUME NEW k \in Tasks, Page!Ingested(k) PROVE PageTap'
  BY <1>0, <1>10, PageIngestedMoves
<1>11. ASSUME NEW k \in Tasks, Page!RequestFails(k) PROVE PageTap'
  BY <1>11, PageFailsMoves DEF PageTap, Page!ActionDraft, Page!LatestDraft, PageOthers
<1>12. CASE UNCHANGED Page!vars
  BY <1>12 DEF Page!vars, Page!lists, PageTap, Page!ActionDraft, Page!LatestDraft
<1>13. \A k \in Tasks : Page!ActionDone(k) => taps[k].kind = "action"
  BY DEF Page!ActionDone, Page!At, PageTyped, PageTaskIsRight
<1> QED BY <1>1, <1>2, <1>3, <1>4, <1>5, <1>6, <1>7, <1>8, <1>9, <1>10, <1>11, <1>12, <1>13 DEF Page!Next, PageBegins

\* Tasks that ran one after the other.
PageOneTask == \A k, l \in Tasks : taps[k].pc # "idle" /\ taps[l].pc # "idle" => k = l

PagePassed(d) == latest[d[1]] > d[2] \/ (latest[d[1]] = d[2] /\ ~open[d[1]])

PageComing == \E k \in Tasks : taps[k].pc \in {"posted", "asking", "answer"}

PageGone ==
  /\ \A d \in decided : PagePassed(d)
  /\ ~crowded =>
       /\ PageOneTask
       /\ \A k \in Tasks : taps[k].pc = "answer" => \A d \in decided : taps[k].got[d[1]] # d[2]
       /\ PageComing \/ \A d \in decided : lists[d[1]] # d[2]

LEMMA PageGoneStep == PageTyped /\ PageGone /\ [Page!Next]_Page!vars => PageGone'
<1> SUFFICES ASSUME PageTyped, PageGone, [Page!Next]_Page!vars PROVE PageGone'
  OBVIOUS
<1>t. \A d \in decided : d[1] \in Chats /\ d[2] \in Nat /\ d[2] # 0
  BY DEF PageTyped, PageNumbered
<1>i. Page!Idle.pc = "idle"
  BY PageIdleIsRow
<1>1. CASE Page!Back \/ Page!ThreadSearch \/ Page!Logout \/ \E t \in Chats : Page!SelectThread(t)
  <2>1. UNCHANGED <<latest, open, lists, taps, decided, crowded>>
    BY <1>1 DEF Page!Back, Page!ThreadSearch, Page!Logout, Page!SelectThread, Page!server, Page!lists,
                Page!history
  <2> QED BY <2>1 DEF PageGone, PagePassed, PageOneTask, PageComing
<1>2. ASSUME NEW t \in Chats, Page!WorkerDrafts(t) PROVE PageGone'
  <2>1. UNCHANGED <<lists, taps, decided, crowded>>
    BY <1>2 DEF Page!WorkerDrafts, Page!lists, Page!history
  <2>2. \A d \in decided : PagePassed(d)'
    BY <1>2, <1>t DEF PageGone, PagePassed, Page!WorkerDrafts, PageTyped, PageCounts
  <2> QED BY <2>1, <2>2 DEF PageGone, PageOneTask, PageComing
<1>3. ASSUME NEW k \in Tasks, PageBegins(k) PROVE PageGone'
  <2>1. \A d \in decided : PagePassed(d)'
    BY <1>3, PageBeginsMove DEF PageGone, PagePassed
  <2>2. ~crowded' => ~crowded /\ \A l \in Tasks : taps[l].pc = "idle"
    BY <1>3, PageBeginsMove DEF Page!Active, Page!At
  <2>3. ~crowded' => PageOneTask'
    BY <1>3, <2>2, PageBeginsMove DEF PageOneTask, PageOthers
  <2>4. ~crowded' => \A l \in Tasks : taps'[l].pc # "answer"
    BY <1>3, <2>2, PageBeginsMove DEF PageOthers
  <2>5. ~crowded' => \A d \in decided : lists[d[1]] # d[2]
    BY <2>2 DEF PageGone, PageComing
  <2> QED BY <1>3, <2>1, <2>3, <2>4, <2>5, PageBeginsMove DEF PageGone
<1>4. ASSUME NEW k \in Tasks, Page!PageLoads(k) PROVE PageGone'
  <2>1. UNCHANGED <<latest, open, decided, crowded>> /\ lists' = Page!Empty
    BY <1>4 DEF Page!PageLoads, Page!server
  <2>2. PageOneTask' /\ (\A l \in Tasks : taps'[l].pc # "answer") /\ PageComing'
    BY <1>4, <1>i, PageLoading DEF PageOneTask, PageComing
  <2> QED BY <2>1, <2>2 DEF PageGone, PagePassed
<1>5. ASSUME NEW k \in Tasks, Page!Bootstrap(k) PROVE PageGone'
  <2>1. UNCHANGED <<latest, open, decided, crowded, lists>>
    BY <1>5 DEF Page!Bootstrap, Page!server, Page!history, Page!lists
  <2>0. PageOthers(k) /\ taps[k].pc = "asking" /\ taps'[k].pc = "answer"
    BY <1>5, PageAnswering
  <2>2. \A d \in decided : taps'[k].got[d[1]] # d[2]
    <3> SUFFICES ASSUME NEW d \in decided PROVE taps'[k].got[d[1]] # d[2]
      OBVIOUS
    <3>0. d[1] \in Chats
      BY <1>t
    <3>1. taps'[k].got[d[1]] \in {0, latest[d[1]]} /\ (taps'[k].got[d[1]] # 0 => open[d[1]])
      <4>1. taps'[k].got = [t \in Chats |-> IF OwnerOf[t] = taps[k].who /\ open[t] THEN latest[t] ELSE 0]
        BY <1>5, PageAnswering
      <4> QED BY <3>0, <4>1
    <3>2. PagePassed(d) /\ latest[d[1]] \in Nat
      BY <1>t DEF PageGone, PageTyped, PageCounts
    <3> QED BY <1>t, <3>1, <3>2 DEF PagePassed
  <2>3. PageOneTask => PageOneTask'
    BY <2>0 DEF PageOneTask, PageOthers
  <2>4. PageComing'
    BY <2>0 DEF PageComing
  <2>5. ~crowded => \A l \in Tasks : taps'[l].pc = "answer" => \A d \in decided : taps'[l].got[d[1]] # d[2]
    BY <2>0, <2>2 DEF PageGone, PageOthers
  <2> QED BY <2>1, <2>3, <2>4, <2>5 DEF PageGone, PagePassed
<1>6. ASSUME NEW k \in Tasks, Page!MiniApprove(k) PROVE PageGone'
  <2>1. UNCHANGED <<latest, crowded, lists>> /\ decided' = decided \cup {taps[k].of} /\ taps[k].of \in PageNumbered
        /\ open' = [open EXCEPT ![taps[k].of[1]] = FALSE] /\ latest[taps[k].of[1]] = taps[k].of[2]
    BY <1>6, PageApproving DEF Page!MiniApprove, Page!lists, PageTyped, PageTaskIsRight, Page!IsOpen
  <2>2. \A d \in decided' : PagePassed(d)'
    BY <1>t, <2>1 DEF PageGone, PagePassed, PageTyped, PageNumbered
  <2>3. PageOneTask => PageOneTask' /\ \A l \in Tasks : taps'[l].pc # "answer"
    BY <1>6, PageApproving DEF PageOneTask, PageOthers
  <2>4. PageComing'
    BY <1>6, PageApproving DEF PageComing
  <2> QED BY <2>1, <2>2, <2>3, <2>4 DEF PageGone
<1>7. ASSUME NEW k \in Tasks, Page!TakesBootstrap(k) \/ Page!BootstrapFails(k) PROVE PageGone'
  <2>1. /\ PageOthers(k) /\ taps[k].pc \in {"asking", "answer"} /\ taps'[k].pc = "idle"
        /\ UNCHANGED <<latest, open, decided, crowded>>
        /\ (taps[k].pc = "answer" /\ lists' = taps[k].got) \/ lists' = Page!Empty
    BY <1>7, PageTakesMoves
  <2>2. ~crowded => \A d \in decided : lists'[d[1]] # d[2]
    BY <1>t, <2>1 DEF PageGone, Page!Empty
  <2> QED BY <2>1, <2>2 DEF PageGone, PagePassed, PageOneTask, PageOthers
<1>8. ASSUME NEW k \in Tasks, PageGoesOn(k) PROVE PageGone'
  <2>1. /\ PageOthers(k) /\ UNCHANGED <<latest, open, decided, crowded>>
        /\ taps[k].pc \in {"login", "queueing", "posted"} /\ taps'[k].pc \in {"asking", "idle"}
        /\ taps'[k].pc = "asking" \/ lists' = Page!Empty
    BY <1>8, PageGoesOnMoves
  <2>2. PageComing' \/ \A d \in decided : lists'[d[1]] # d[2]
    BY <1>t, <2>1 DEF PageComing, Page!Empty
  <2> QED BY <2>1, <2>2 DEF PageGone, PagePassed, PageOneTask, PageOthers
<1>9. ASSUME NEW k \in Tasks, Page!Ingested(k) \/ Page!RequestFails(k) PROVE PageGone'
  <2>1. /\ PageOthers(k) /\ UNCHANGED <<latest, open, decided, crowded, lists>> /\ taps'[k].pc = "idle"
        /\ taps[k].pc \notin {"posted", "asking", "answer"}
    BY <1>9, PageIngestedMoves, PageFailsMoves
  <2>2. PageComing => PageComing'
    BY <2>1 DEF PageComing, PageOthers
  <2> QED BY <2>1, <2>2 DEF PageGone, PagePassed, PageOneTask, PageOthers
<1>10. CASE UNCHANGED Page!vars
  BY <1>10 DEF Page!vars, Page!server, Page!lists, Page!history, PageGone, PagePassed, PageOneTask,
               PageComing
<1> QED BY <1>1, <1>2, <1>3, <1>4, <1>5, <1>6, <1>7, <1>8, <1>9, <1>10 DEF Page!Next, PageBegins, PageGoesOn

\* The lists and what is offered are of the session's user, or asked for anew.
PageOwned ==
  /\ \A t \in threads : OwnerOf[t] = session
  /\ \A t \in Chats : lists[t] # 0 => OwnerOf[t] = session
  /\ offered # Page!Nothing => OwnerOf[offered[1]] = session

PageAsked == \E k \in Tasks : taps[k].pc \in {"asking", "answer"}

PageLists ==
  /\ session # Nobody /\ ~late => PageOwned \/ PageAsked
  /\ \A k \in Tasks : taps[k].pc = "answer" =>
       \A t \in Chats : taps[k].got[t] # 0 => OwnerOf[t] = taps[k].who

LEMMA PageListsStep == PageTyped /\ PageLists /\ [Page!Next]_Page!vars => PageLists'
<1> SUFFICES ASSUME PageTyped, PageLists, [Page!Next]_Page!vars PROVE PageLists'
  OBVIOUS
<1>0. ASSUME NEW k \in Tasks, PageOthers(k), taps'[k].pc # "answer"
      PROVE  \A l \in Tasks : taps'[l].pc = "answer" =>
               \A t \in Chats : taps'[l].got[t] # 0 => OwnerOf[t] = taps'[l].who
  BY <1>0 DEF PageLists, PageOthers
<1>1. CASE Page!Back \/ \E t \in Chats : Page!SelectThread(t)
  <2>1. UNCHANGED <<session, threads, lists, taps, late>> /\ Page!Render /\ current' \in Chats \cup {Nobody}
    BY <1>1 DEF Page!Back, Page!SelectThread, Page!lists, Page!history
  <2>2. PageOwned => PageOwned'
    BY <2>1, PageRenderedNext DEF PageOwned, PageTyped
  <2> QED BY <2>1, <2>2 DEF PageLists, PageAsked
<1>2. CASE Page!ThreadSearch \/ \E t \in Chats : Page!WorkerDrafts(t)
  <2>1. UNCHANGED <<session, threads, lists, taps, late, offered>>
    BY <1>2 DEF Page!ThreadSearch, Page!WorkerDrafts, Page!lists, Page!history
  <2> QED BY <2>1 DEF PageLists, PageAsked, PageOwned
<1>3. CASE Page!Logout
  BY <1>3 DEF Page!Logout, PageLists
<1>4. ASSUME NEW k \in Tasks, PageBegins(k) PROVE PageLists'
  <2>1. /\ PageOthers(k) /\ taps[k].pc = "idle" /\ taps'[k].pc # "answer"
        /\ UNCHANGED <<session, threads, lists, late, offered>>
    BY <1>4, PageBeginsMove
  <2>2. PageAsked => PageAsked'
    BY <2>1 DEF PageAsked, PageOthers
  <2> QED BY <1>0, <2>1, <2>2 DEF PageLists, PageOwned
<1>5. ASSUME NEW k \in Tasks, Page!PageLoads(k) PROVE PageLists'
  <2>1. PageAsked' /\ \A l \in Tasks : taps'[l].pc # "answer"
    BY <1>5, PageLoading, PageIdleIsRow DEF PageAsked
  <2> QED BY <2>1 DEF PageLists
<1>6. ASSUME NEW k \in Tasks, Page!Bootstrap(k) PROVE PageLists'
  <2>1. PageAsked'
    BY <1>6, PageAnswering DEF PageAsked
  <2>2. \A t \in Chats : taps'[k].got[t] # 0 => OwnerOf[t] = taps'[k].who
    BY <1>6, PageAnswering
  <2>3. PageOthers(k)
    BY <1>6, PageAnswering
  <2>4. \A l \in Tasks : taps'[l].pc = "answer" => \A t \in Chats : taps'[l].got[t] # 0 => OwnerOf[t] = taps'[l].who
    BY <2>2, <2>3 DEF PageLists, PageOthers
  <2> QED BY <2>1, <2>4 DEF PageLists
<1>7. ASSUME NEW k \in Tasks, Page!MiniApprove(k) PROVE PageLists'
  <2>1. UNCHANGED <<session, threads, lists, late, offered>> /\ PageOthers(k) /\ taps[k].pc = "posting" /\ taps'[k].pc = "posted"
    BY <1>7, PageApproving DEF Page!MiniApprove, Page!lists
  <2>2. PageAsked => PageAsked'
    BY <2>1 DEF PageAsked, PageOthers
  <2> QED BY <1>0, <2>1, <2>2 DEF PageLists, PageOwned
<1>8. ASSUME NEW k \in Tasks, Page!TakesBootstrap(k) \/ Page!BootstrapFails(k) PROVE PageLists'
  <2>1. PageOthers(k) /\ taps'[k].pc = "idle" /\ session' = session
    BY <1>8, PageTakesMoves
  <2>2. CASE threads' = {} /\ lists' = Page!Empty
    BY <1>0, <1>8, <2>1, <2>2, PageTakesMoves, PageRenderedNext DEF PageLists, PageOwned, Page!Empty
  <2>3. CASE /\ taps[k].pc = "answer" /\ threads' = {t \in Chats : OwnerOf[t] = taps[k].who}
             /\ lists' = taps[k].got /\ late' = (taps[k].who # session)
    <3>1. ~late' => PageOwned'
      <4> SUFFICES ASSUME taps[k].who = session PROVE PageOwned'
        BY <2>3
      <4>1. \A t \in Chats : lists'[t] # 0 => OwnerOf[t] = session'
        BY <2>1, <2>3 DEF PageLists
      <4>2. offered' = Page!Nothing \/
            (offered' = <<current', lists'[current']>> /\ current' \in Chats /\ lists'[current'] # 0)
        BY <1>8, PageTakesMoves, PageRenderedNext
      <4> QED BY <2>1, <2>3, <4>1, <4>2 DEF PageOwned
    <3> QED BY <1>0, <2>1, <3>1 DEF PageLists
  <2> QED BY <1>8, <2>2, <2>3, PageTakesMoves
<1>9. ASSUME NEW k \in Tasks, PageGoesOn(k) PROVE PageLists'
  <2>1. PageOthers(k) /\ taps'[k].pc \in {"asking", "idle"} /\ (taps'[k].pc = "asking" \/ session' = Nobody)
    BY <1>9, PageGoesOnMoves
  <2>2. session' # Nobody => PageAsked'
    BY <2>1 DEF PageAsked
  <2> QED BY <1>0, <2>1, <2>2 DEF PageLists
<1>10. ASSUME NEW k \in Tasks, Page!Ingested(k) PROVE PageLists'
  <2>1. PageAsked => PageAsked'
    BY <1>10, PageIngestedMoves DEF PageAsked, PageOthers
  <2>2. PageOwned => PageOwned'
    BY <1>10, PageIngestedMoves, PageRenderedNext DEF PageOwned
  <2> QED BY <1>0, <1>10, <2>1, <2>2, PageIngestedMoves DEF PageLists
<1>11. ASSUME NEW k \in Tasks, Page!RequestFails(k) PROVE PageLists'
  <2>1. PageAsked => PageAsked'
    BY <1>11, PageFailsMoves DEF PageAsked, PageOthers
  <2> QED BY <1>0, <1>11, <2>1, PageFailsMoves DEF PageLists, PageOwned
<1>12. CASE UNCHANGED Page!vars
  BY <1>12 DEF Page!vars, Page!lists, Page!history, PageLists, PageOwned, PageAsked
<1> QED BY <1>1, <1>2, <1>3, <1>4, <1>5, <1>6, <1>7, <1>8, <1>9, <1>10, <1>11, <1>12 DEF Page!Next, PageBegins, PageGoesOn

-----------------------------------------------------------------------------
PageIInv == PageTyped /\ Page!PasteIsOfSelection /\ PageTap /\ PageGone /\ PageLists

LEMMA PageInitIInv == Page!Init => PageIInv
<1> SUFFICES ASSUME Page!Init PROVE PageIInv
  OBVIOUS
<1>1. \A k \in Tasks : taps[k] = Page!Idle /\ taps[k].pc = "idle"
  BY PageIdleIsRow DEF Page!Init
<1> QED BY <1>1, PageInitTyped DEF Page!Init, PageIInv, Page!PasteIsOfSelection, PageTap, PageGone, PageOneTask, PageLists

LEMMA PageStepKeepsIInv == PageIInv /\ [Page!Next]_Page!vars => PageIInv'
BY PageTypedStep, PagePasteStep, PageTapStep, PageGoneStep, PageListsStep DEF PageIInv

LEMMA PageIInvIsOfSession == PageIInv => Page!PageIsOfSession
<1> SUFFICES ASSUME PageIInv PROVE Page!PageIsOfSession
  OBVIOUS
<1>1. Page!TapDecidesWhatIsShown
  BY DEF PageIInv, PageTap, Page!TapDecidesWhatIsShown
<1>2. Page!DecidedIsGone
  BY DEF PageIInv, PageGone, PageComing, Page!DecidedIsGone, Page!Active, Page!At
<1>3. Page!ListsAreOfSession
  BY DEF PageIInv, PageLists, PageOwned, PageAsked, Page!ListsAreOfSession, Page!Active, Page!At
<1> QED BY <1>1, <1>2, <1>3 DEF PageIInv, Page!PageIsOfSession

-----------------------------------------------------------------------------
\* The objects of the SDK.
\* Only what is looked up may be passed over.
ObjectSteps ==
  {s \in [do : {"find", "read", "dirty", "write", "ask", "tell"}, of : Objects, vital : BOOLEAN] :
     s.do = "find" \/ s.vital}
ObjectReads == {"find", "read"}

\* From its step i on a program marks an object dirty and reads it again.
ObjectSyncs(p, o, i) ==
  \E j, k \in DOMAIN p : i <= j /\ j < k /\ p[j] = Dirty(o) /\ p[k] = Read(o)

\* A program looks nothing up once it has told, ...
ObjectTellsLast(p) ==
  \A i, j \in DOMAIN p : i < j /\ p[i].do = "tell" => p[j].do \notin ObjectReads

\* ... and syncs what it marks dirty, after it wrote it if it does.
ObjectProgram(p) ==
  /\ p \in Seq(ObjectSteps) /\ ObjectTellsLast(p)
  /\ \A o \in Objects : Dirty(o) \in Steps(p) => ObjectSyncs(p, o, 1)
  /\ \A i \in DOMAIN p : p[i].do = "write" /\ Dirty(p[i].of) \in Steps(p) => ObjectSyncs(p, p[i].of, i)

LEMMA ObjectDoes ==
  ASSUME NEW o \in Objects
  PROVE  /\ Find(o) \in ObjectSteps /\ Find(o).do = "find" /\ Find(o).of = o
         /\ Try(o) \in ObjectSteps /\ Try(o).do = "find" /\ Try(o).of = o
         /\ Read(o) \in ObjectSteps /\ Read(o).do = "read" /\ Read(o).of = o /\ Read(o).vital
         /\ Dirty(o) \in ObjectSteps /\ Dirty(o).do = "dirty" /\ Dirty(o).of = o /\ Dirty(o).vital
         /\ Write(o) \in ObjectSteps /\ Write(o).do = "write" /\ Write(o).of = o
         /\ Ask \in ObjectSteps /\ Ask.do = "ask"
         /\ Tell \in ObjectSteps /\ Tell.do = "tell"
BY SelfIsContact DEF ObjectSteps, Find, Try, Read, Dirty, Write, Ask, Tell, Step, Objects

LEMMA ObjectContacts == Contacts \subseteq Objects /\ Rooms \subseteq Objects /\ Self \in Objects
BY SelfIsContact DEF Objects

-----------------------------------------------------------------------------
\* Programs that mark nothing dirty.
LEMMA ObjectPlain ==
  ASSUME NEW p \in Seq(ObjectSteps), ObjectTellsLast(p), \A i \in DOMAIN p : p[i].do # "dirty"
  PROVE  ObjectProgram(p)
<1>1. \A o : Dirty(o) \notin Steps(p)
  BY DEF Steps, Dirty, Step
<1> QED BY <1>1 DEF ObjectProgram

LEMMA ObjectTwo ==
  ASSUME NEW a \in ObjectSteps, NEW b \in ObjectSteps, a.do \notin {"tell", "dirty"}, b.do # "dirty"
  PROVE  ObjectProgram(<<a, b>>)
<1>1. <<a, b>> \in Seq(ObjectSteps)
  OBVIOUS
<1>0. DOMAIN <<a, b>> = 1..2
  OBVIOUS
<1>2. ObjectTellsLast(<<a, b>>)
  BY <1>0 DEF ObjectTellsLast
<1>3. \A i \in DOMAIN <<a, b>> : <<a, b>>[i].do # "dirty"
  BY <1>0
<1> QED BY <1>1, <1>2, <1>3, ObjectPlain

LEMMA ObjectThree ==
  ASSUME NEW a \in ObjectSteps, NEW b \in ObjectSteps, NEW c \in ObjectSteps,
         a.do \notin {"tell", "dirty"}, b.do \notin {"tell", "dirty"}, c.do # "dirty"
  PROVE  ObjectProgram(<<a, b, c>>)
<1> DEFINE p == <<a, b, c>>
<1>1. p \in Seq(ObjectSteps)
  OBVIOUS
<1>0. DOMAIN p = 1..3
  OBVIOUS
<1>2. ObjectTellsLast(p)
  BY <1>0 DEF ObjectTellsLast
<1>3. \A i \in DOMAIN p : p[i].do # "dirty"
  BY <1>0
<1> QED BY <1>1, <1>2, <1>3, ObjectPlain

LEMMA ObjectFour ==
  ASSUME NEW a \in ObjectSteps, NEW b \in ObjectSteps, NEW c \in ObjectSteps, NEW d \in ObjectSteps,
         a.do \notin {"tell", "dirty"}, b.do \notin {"tell", "dirty"}, c.do \notin {"tell", "dirty"}, d.do # "dirty"
  PROVE  ObjectProgram(<<a, b, c, d>>)
<1> DEFINE p == <<a, b, c, d>>
<1>1. p \in Seq(ObjectSteps)
  OBVIOUS
<1>0. DOMAIN p = 1..4
  OBVIOUS
<1>2. ObjectTellsLast(p)
  BY <1>0 DEF ObjectTellsLast
<1>3. \A i \in DOMAIN p : p[i].do # "dirty"
  BY <1>0
<1> QED BY <1>1, <1>2, <1>3, ObjectPlain

\* Members are tried one after the other.
LEMMA ObjectTryAll ==
  ASSUME NEW cs \in Seq(Contacts)
  PROVE  /\ TryAll(cs) \in Seq(ObjectSteps) /\ Len(TryAll(cs)) = Len(cs)
         /\ \A i \in DOMAIN TryAll(cs) : TryAll(cs)[i].do = "find"
         /\ \A i \in DOMAIN cs : i \in DOMAIN TryAll(cs) /\ TryAll(cs)[i].of = cs[i]
<1>1. Len(cs) \in Nat /\ DOMAIN cs = 1..Len(cs) /\ \A i \in DOMAIN cs : cs[i] \in Objects
  BY ObjectContacts
<1>2. TryAll(cs) = [i \in 1..Len(cs) |-> Try(cs[i])]
  BY <1>1 DEF TryAll
<1>3. \A i \in 1..Len(cs) : Try(cs[i]) \in ObjectSteps /\ Try(cs[i]).do = "find" /\ Try(cs[i]).of = cs[i]
  BY <1>1, ObjectDoes
<1>4. TryAll(cs) \in [1..Len(cs) -> ObjectSteps]
  BY <1>2, <1>3
<1>5. TryAll(cs) \in Seq(ObjectSteps) /\ Len(TryAll(cs)) = Len(cs)
  BY <1>1, <1>4, <1>2
<1> QED BY <1>1, <1>2, <1>3, <1>5

LEMMA ObjectAsksAndTries ==
  ASSUME NEW cs \in Seq(Contacts)
  PROVE  ObjectProgram(<<Ask>> \o TryAll(cs) \o <<Tell>>)
<1> DEFINE q == TryAll(cs)
           r == <<Ask>> \o q
           p == r \o <<Tell>>
<1>1. q \in Seq(ObjectSteps) /\ Len(q) \in Nat /\ \A i \in DOMAIN q : q[i].do = "find"
  BY ObjectTryAll
<1>2. <<Ask>> \in Seq(ObjectSteps) /\ <<Tell>> \in Seq(ObjectSteps)
  BY ObjectDoes, ObjectContacts
<1>3. /\ r \in Seq(ObjectSteps) /\ Len(r) = 1 + Len(q)
      /\ \A i \in 1..1 + Len(q) : r[i] = IF i <= 1 THEN Ask ELSE q[i - 1]
  <2>1. Len(<<Ask>>) = 1 /\ \A i \in 1..1 : <<Ask>>[i] = Ask
    OBVIOUS
  <2> HIDE DEF q
  <2> QED BY <1>1, <1>2, <2>1, ConcatProperties
<1>4. /\ p \in Seq(ObjectSteps) /\ Len(p) = Len(r) + 1
      /\ \A i \in 1..Len(r) + 1 : p[i] = IF i <= Len(r) THEN r[i] ELSE Tell
  <2>1. Len(<<Tell>>) = 1 /\ \A i \in 1..1 : <<Tell>>[i] = Tell
    OBVIOUS
  <2> HIDE DEF r
  <2>2. \A i \in 1..Len(r) + 1 : ~(i <= Len(r)) => i - Len(r) = 1
    BY <1>3, <1>1
  <2> QED BY <1>2, <1>3, <2>1, <2>2, ConcatProperties
<1> HIDE DEF p, q, r
<1>5. \A i \in DOMAIN p : p[i].do \in {"ask", "find", "tell"} /\ (p[i].do = "tell" => i = Len(p))
  <2> SUFFICES ASSUME NEW i \in DOMAIN p
               PROVE  p[i].do \in {"ask", "find", "tell"} /\ (p[i].do = "tell" => i = Len(p))
    OBVIOUS
  <2>1. i \in 1..Len(q) + 2 /\ Len(p) = Len(q) + 2
    BY <1>1, <1>3, <1>4
  <2>2. CASE i = 1
    BY <1>1, <1>3, <1>4, <2>1, <2>2, ObjectDoes, ObjectContacts
  <2>3. CASE i > 1 /\ i < Len(q) + 2
    <3>1. p[i] = q[i - 1] /\ i - 1 \in DOMAIN q
      BY <1>1, <1>3, <1>4, <2>1, <2>3
    <3> QED BY <1>1, <3>1
  <2>4. CASE i = Len(q) + 2
    BY <1>1, <1>3, <1>4, <2>1, <2>4, ObjectDoes, ObjectContacts
  <2> QED BY <1>1, <2>1, <2>2, <2>3, <2>4
<1>6. ObjectTellsLast(p)
  BY <1>4, <1>5 DEF ObjectTellsLast, ObjectReads
<1>7. ObjectProgram(p)
  BY <1>4, <1>5, <1>6, ObjectPlain
<1> QED BY <1>7 DEF p, r, q

-----------------------------------------------------------------------------
\* The programs as the tuples they are.
LEMMA ObjectJoined ==
  ASSUME NEW s \in Seq(ObjectSteps), NEW t \in Seq(ObjectSteps), NEW u \in Seq(ObjectSteps),
         Len(u) = Len(s) + Len(t),
         \A i \in 1..Len(u) : u[i] = IF i <= Len(s) THEN s[i] ELSE t[i - Len(s)]
  PROVE  s \o t = u
<1>1. s \o t \in Seq(ObjectSteps) /\ Len(s \o t) = Len(u)
  BY ConcatProperties
<1>2. \A i \in 1..Len(s) + Len(t) : (s \o t)[i] = u[i]
  BY ConcatProperties
<1> QED BY <1>1, <1>2, SeqEqual

LEMMA ObjectJoins2And1 ==
  ASSUME NEW a1 \in ObjectSteps, NEW a2 \in ObjectSteps, NEW a3 \in ObjectSteps
  PROVE  <<a1, a2>> \o <<a3>> = <<a1, a2, a3>>
<1> DEFINE s == <<a1, a2>>  t == <<a3>>  u == <<a1, a2, a3>>
<1>1. s \in Seq(ObjectSteps) /\ t \in Seq(ObjectSteps) /\ u \in Seq(ObjectSteps)
  OBVIOUS
<1>2. Len(s) = 2 /\ Len(t) = 1 /\ Len(u) = 3
  OBVIOUS
<1>3. \A i \in 1..3 : u[i] = IF i <= 2 THEN s[i] ELSE t[i - 2]
  OBVIOUS
<1> HIDE DEF s, t, u
<1>4. Len(u) = Len(s) + Len(t)
  BY <1>2
<1>5. \A i \in 1..Len(u) : u[i] = IF i <= Len(s) THEN s[i] ELSE t[i - Len(s)]
  BY <1>2, <1>3
<1>6. s \o t = u
  BY <1>1, <1>4, <1>5, ObjectJoined
<1> QED BY <1>6 DEF s, t, u

LEMMA ObjectJoins1And2 ==
  ASSUME NEW a1 \in ObjectSteps, NEW a2 \in ObjectSteps, NEW a3 \in ObjectSteps
  PROVE  <<a1>> \o <<a2, a3>> = <<a1, a2, a3>>
<1> DEFINE s == <<a1>>  t == <<a2, a3>>  u == <<a1, a2, a3>>
<1>1. s \in Seq(ObjectSteps) /\ t \in Seq(ObjectSteps) /\ u \in Seq(ObjectSteps)
  OBVIOUS
<1>2. Len(s) = 1 /\ Len(t) = 2 /\ Len(u) = 3
  OBVIOUS
<1>3. \A i \in 1..3 : u[i] = IF i <= 1 THEN s[i] ELSE t[i - 1]
  OBVIOUS
<1> HIDE DEF s, t, u
<1>4. Len(u) = Len(s) + Len(t)
  BY <1>2
<1>5. \A i \in 1..Len(u) : u[i] = IF i <= Len(s) THEN s[i] ELSE t[i - Len(s)]
  BY <1>2, <1>3
<1>6. s \o t = u
  BY <1>1, <1>4, <1>5, ObjectJoined
<1> QED BY <1>6 DEF s, t, u

LEMMA ObjectJoins3And1 ==
  ASSUME NEW a1 \in ObjectSteps, NEW a2 \in ObjectSteps, NEW a3 \in ObjectSteps, NEW a4 \in ObjectSteps
  PROVE  <<a1, a2, a3>> \o <<a4>> = <<a1, a2, a3, a4>>
<1> DEFINE s == <<a1, a2, a3>>  t == <<a4>>  u == <<a1, a2, a3, a4>>
<1>1. s \in Seq(ObjectSteps) /\ t \in Seq(ObjectSteps) /\ u \in Seq(ObjectSteps)
  OBVIOUS
<1>2. Len(s) = 3 /\ Len(t) = 1 /\ Len(u) = 4
  OBVIOUS
<1>3. \A i \in 1..4 : u[i] = IF i <= 3 THEN s[i] ELSE t[i - 3]
  OBVIOUS
<1> HIDE DEF s, t, u
<1>4. Len(u) = Len(s) + Len(t)
  BY <1>2
<1>5. \A i \in 1..Len(u) : u[i] = IF i <= Len(s) THEN s[i] ELSE t[i - Len(s)]
  BY <1>2, <1>3
<1>6. s \o t = u
  BY <1>1, <1>4, <1>5, ObjectJoined
<1> QED BY <1>6 DEF s, t, u

LEMMA ObjectJoins2And2 ==
  ASSUME NEW a1 \in ObjectSteps, NEW a2 \in ObjectSteps, NEW a3 \in ObjectSteps, NEW a4 \in ObjectSteps
  PROVE  <<a1, a2>> \o <<a3, a4>> = <<a1, a2, a3, a4>>
<1> DEFINE s == <<a1, a2>>  t == <<a3, a4>>  u == <<a1, a2, a3, a4>>
<1>1. s \in Seq(ObjectSteps) /\ t \in Seq(ObjectSteps) /\ u \in Seq(ObjectSteps)
  OBVIOUS
<1>2. Len(s) = 2 /\ Len(t) = 2 /\ Len(u) = 4
  OBVIOUS
<1>3. \A i \in 1..4 : u[i] = IF i <= 2 THEN s[i] ELSE t[i - 2]
  OBVIOUS
<1> HIDE DEF s, t, u
<1>4. Len(u) = Len(s) + Len(t)
  BY <1>2
<1>5. \A i \in 1..Len(u) : u[i] = IF i <= Len(s) THEN s[i] ELSE t[i - Len(s)]
  BY <1>2, <1>3
<1>6. s \o t = u
  BY <1>1, <1>4, <1>5, ObjectJoined
<1> QED BY <1>6 DEF s, t, u

LEMMA ObjectJoins4And1 ==
  ASSUME NEW a1 \in ObjectSteps, NEW a2 \in ObjectSteps, NEW a3 \in ObjectSteps, NEW a4 \in ObjectSteps,
         NEW a5 \in ObjectSteps
  PROVE  <<a1, a2, a3, a4>> \o <<a5>> = <<a1, a2, a3, a4, a5>>
<1> DEFINE s == <<a1, a2, a3, a4>>  t == <<a5>>  u == <<a1, a2, a3, a4, a5>>
<1>1. s \in Seq(ObjectSteps) /\ t \in Seq(ObjectSteps) /\ u \in Seq(ObjectSteps)
  OBVIOUS
<1>2. Len(s) = 4 /\ Len(t) = 1 /\ Len(u) = 5
  OBVIOUS
<1>3. \A i \in 1..5 : u[i] = IF i <= 4 THEN s[i] ELSE t[i - 4]
  OBVIOUS
<1> HIDE DEF s, t, u
<1>4. Len(u) = Len(s) + Len(t)
  BY <1>2
<1>5. \A i \in 1..Len(u) : u[i] = IF i <= Len(s) THEN s[i] ELSE t[i - Len(s)]
  BY <1>2, <1>3
<1>6. s \o t = u
  BY <1>1, <1>4, <1>5, ObjectJoined
<1> QED BY <1>6 DEF s, t, u

LEMMA ObjectJoins3And3 ==
  ASSUME NEW a1 \in ObjectSteps, NEW a2 \in ObjectSteps, NEW a3 \in ObjectSteps, NEW a4 \in ObjectSteps,
         NEW a5 \in ObjectSteps, NEW a6 \in ObjectSteps
  PROVE  <<a1, a2, a3>> \o <<a4, a5, a6>> = <<a1, a2, a3, a4, a5, a6>>
<1> DEFINE s == <<a1, a2, a3>>  t == <<a4, a5, a6>>  u == <<a1, a2, a3, a4, a5, a6>>
<1>1. s \in Seq(ObjectSteps) /\ t \in Seq(ObjectSteps) /\ u \in Seq(ObjectSteps)
  OBVIOUS
<1>2. Len(s) = 3 /\ Len(t) = 3 /\ Len(u) = 6
  OBVIOUS
<1>3. \A i \in 1..6 : u[i] = IF i <= 3 THEN s[i] ELSE t[i - 3]
  OBVIOUS
<1> HIDE DEF s, t, u
<1>4. Len(u) = Len(s) + Len(t)
  BY <1>2
<1>5. \A i \in 1..Len(u) : u[i] = IF i <= Len(s) THEN s[i] ELSE t[i - Len(s)]
  BY <1>2, <1>3
<1>6. s \o t = u
  BY <1>1, <1>4, <1>5, ObjectJoined
<1> QED BY <1>6 DEF s, t, u

LEMMA ObjectJoins6And1 ==
  ASSUME NEW a1 \in ObjectSteps, NEW a2 \in ObjectSteps, NEW a3 \in ObjectSteps, NEW a4 \in ObjectSteps,
         NEW a5 \in ObjectSteps, NEW a6 \in ObjectSteps, NEW a7 \in ObjectSteps
  PROVE  <<a1, a2, a3, a4, a5, a6>> \o <<a7>> = <<a1, a2, a3, a4, a5, a6, a7>>
<1> DEFINE s == <<a1, a2, a3, a4, a5, a6>>  t == <<a7>>  u == <<a1, a2, a3, a4, a5, a6, a7>>
<1>1. s \in Seq(ObjectSteps) /\ t \in Seq(ObjectSteps) /\ u \in Seq(ObjectSteps)
  OBVIOUS
<1>2. Len(s) = 6 /\ Len(t) = 1 /\ Len(u) = 7
  OBVIOUS
<1>3. \A i \in 1..7 : u[i] = IF i <= 6 THEN s[i] ELSE t[i - 6]
  OBVIOUS
<1> HIDE DEF s, t, u
<1>4. Len(u) = Len(s) + Len(t)
  BY <1>2
<1>5. \A i \in 1..Len(u) : u[i] = IF i <= Len(s) THEN s[i] ELSE t[i - Len(s)]
  BY <1>2, <1>3
<1>6. s \o t = u
  BY <1>1, <1>4, <1>5, ObjectJoined
<1> QED BY <1>6 DEF s, t, u

\* Programs that sync an object.
LEMMA ObjectSyncPrograms ==
  ASSUME NEW o \in Objects
  PROVE  /\ SyncOne(o) = <<Dirty(o), Read(o), Tell>>
         /\ Set(o) = <<Write(o), Dirty(o), Read(o), Tell>>
         /\ Accept(o) = <<Ask, Try(o), Dirty(o), Read(o), Tell>>
         /\ \A n, a \in Contacts :
              RoomEvent(o, n, a) = <<Find(o), Dirty(o), Read(o), Try(n), Find(a), Tell>>
         /\ \A a \in Contacts :
              RoomLeave(o, Self, a) = <<Find(o), Dirty(o), Read(o), Try(Self), Find(a), Tell, Dirty(o)>>
         /\ \A n, a \in Contacts : n # Self => RoomLeave(o, n, a) = RoomEvent(o, n, a)
<1>0. \A c \in Contacts : Try(c) \in ObjectSteps /\ Find(c) \in ObjectSteps
  BY ObjectDoes, ObjectContacts
<1>1. SyncOne(o) = <<Dirty(o), Read(o), Tell>>
  BY ObjectDoes, ObjectJoins2And1 DEF SyncOne, Sync
<1>2. Set(o) = <<Write(o), Dirty(o), Read(o), Tell>>
  <2>1. <<Write(o)>> \o <<Dirty(o), Read(o)>> = <<Write(o), Dirty(o), Read(o)>>
    BY ObjectDoes, ObjectJoins1And2
  <2>2. <<Write(o), Dirty(o), Read(o)>> \o <<Tell>> = <<Write(o), Dirty(o), Read(o), Tell>>
    BY ObjectDoes, ObjectJoins3And1
  <2> QED BY <2>1, <2>2 DEF Set, Sync
<1>3. Accept(o) = <<Ask, Try(o), Dirty(o), Read(o), Tell>>
  <2>1. <<Ask, Try(o)>> \o <<Dirty(o), Read(o)>> = <<Ask, Try(o), Dirty(o), Read(o)>>
    BY ObjectDoes, ObjectJoins2And2
  <2>2. <<Ask, Try(o), Dirty(o), Read(o)>> \o <<Tell>> = <<Ask, Try(o), Dirty(o), Read(o), Tell>>
    BY ObjectDoes, ObjectJoins4And1
  <2> QED BY <2>1, <2>2 DEF Accept, Sync
<1>4. ASSUME NEW n \in Contacts, NEW a \in Contacts
      PROVE  RoomEvent(o, n, a) = <<Find(o), Dirty(o), Read(o), Try(n), Find(a), Tell>>
  <2>1. <<Find(o)>> \o <<Dirty(o), Read(o)>> = <<Find(o), Dirty(o), Read(o)>>
    BY ObjectDoes, ObjectJoins1And2
  <2>2. <<Find(o), Dirty(o), Read(o)>> \o <<Try(n), Find(a), Tell>>
          = <<Find(o), Dirty(o), Read(o), Try(n), Find(a), Tell>>
    BY <1>0, ObjectDoes, ObjectJoins3And3
  <2> QED BY <2>1, <2>2 DEF RoomEvent, Sync
<1>5. ASSUME NEW a \in Contacts
      PROVE  RoomLeave(o, Self, a) = <<Find(o), Dirty(o), Read(o), Try(Self), Find(a), Tell, Dirty(o)>>
  <2>1. <<Find(o), Dirty(o), Read(o), Try(Self), Find(a), Tell>> \o <<Dirty(o)>>
          = <<Find(o), Dirty(o), Read(o), Try(Self), Find(a), Tell, Dirty(o)>>
    <3>1. /\ Find(o) \in ObjectSteps /\ Dirty(o) \in ObjectSteps /\ Read(o) \in ObjectSteps
          /\ Try(Self) \in ObjectSteps /\ Find(a) \in ObjectSteps /\ Tell \in ObjectSteps
      BY <1>0, SelfIsContact, ObjectDoes
    <3> QED BY <3>1, ObjectJoins6And1
  <2> QED BY <1>4, <2>1, SelfIsContact DEF RoomLeave
<1>6. ASSUME NEW n \in Contacts, NEW a \in Contacts, n # Self
      PROVE  RoomLeave(o, n, a) = RoomEvent(o, n, a)
  <2>1. <<Find(o), Dirty(o), Read(o), Try(n), Find(a), Tell>> \in Seq(ObjectSteps)
    <3>1. /\ Find(o) \in ObjectSteps /\ Dirty(o) \in ObjectSteps /\ Read(o) \in ObjectSteps
          /\ Try(n) \in ObjectSteps /\ Find(a) \in ObjectSteps /\ Tell \in ObjectSteps
      BY <1>0, ObjectDoes
    <3> QED BY <3>1
  <2> QED BY <1>4, <1>6, <2>1, ConcatEmptySeq DEF RoomLeave
<1> QED BY <1>1, <1>2, <1>3, <1>4, <1>5, <1>6

LEMMA ObjectSyncsOnce ==
  ASSUME NEW o \in Objects, NEW n \in Contacts, NEW a \in Contacts
  PROVE  /\ ObjectProgram(SyncOne(o)) /\ ObjectProgram(Set(o)) /\ ObjectProgram(Accept(o))
         /\ ObjectProgram(RoomEvent(o, n, a)) /\ ObjectProgram(RoomLeave(o, n, a))
<1>0. /\ \A c \in Contacts : /\ Try(c) \in ObjectSteps /\ Try(c).do = "find"
                             /\ Find(c) \in ObjectSteps /\ Find(c).do = "find"
      /\ \A x : Dirty(x).do = "dirty" /\ Dirty(x).of = x
  BY ObjectDoes, ObjectContacts DEF Dirty, Step
<1>1. ObjectProgram(SyncOne(o))
  <2> DEFINE p == <<Dirty(o), Read(o), Tell>>
  <2>1. p \in Seq(ObjectSteps)
    BY ObjectDoes
  <2>0. DOMAIN p = 1..3
    OBVIOUS
  <2>2. p[1] = Dirty(o) /\ p[2] = Read(o) /\ p[3] = Tell
    OBVIOUS
  <2> HIDE DEF p
  <2>3. ObjectTellsLast(p)
    BY <2>0, <2>2, ObjectDoes DEF ObjectTellsLast
  <2>4. ObjectSyncs(p, o, 1)
    BY <2>0, <2>2 DEF ObjectSyncs
  <2>5. \A x \in Objects : Dirty(x) \in Steps(p) => x = o
    BY <2>0, <2>2, <1>0, ObjectDoes DEF Steps
  <2>6. \A i \in DOMAIN p : p[i].do # "write"
    BY <2>0, <2>2, <1>0, ObjectDoes
  <2>7. ObjectProgram(p)
    BY <2>1, <2>3, <2>4, <2>5, <2>6 DEF ObjectProgram
  <2> QED BY <2>7, ObjectSyncPrograms DEF p
<1>2. ObjectProgram(Set(o))
  <2> DEFINE p == <<Write(o), Dirty(o), Read(o), Tell>>
  <2>1. p \in Seq(ObjectSteps)
    BY ObjectDoes
  <2>0. DOMAIN p = 1..4
    OBVIOUS
  <2>2. p[1] = Write(o) /\ p[2] = Dirty(o) /\ p[3] = Read(o) /\ p[4] = Tell
    OBVIOUS
  <2> HIDE DEF p
  <2>3. ObjectTellsLast(p)
    BY <2>0, <2>2, ObjectDoes DEF ObjectTellsLast
  <2>4. ObjectSyncs(p, o, 1)
    BY <2>0, <2>2 DEF ObjectSyncs
  <2>5. \A x \in Objects : Dirty(x) \in Steps(p) => x = o
    BY <2>0, <2>2, <1>0, ObjectDoes DEF Steps
  <2>6. \A i \in DOMAIN p : p[i].do = "write" => i = 1 /\ p[i].of = o
    BY <2>0, <2>2, <1>0, ObjectDoes
  <2>7. ObjectProgram(p)
    BY <2>1, <2>3, <2>4, <2>5, <2>6 DEF ObjectProgram
  <2> QED BY <2>7, ObjectSyncPrograms DEF p
<1>3. ObjectProgram(Accept(o))
  <2> DEFINE p == <<Ask, Try(o), Dirty(o), Read(o), Tell>>
  <2>1. p \in Seq(ObjectSteps)
    BY ObjectDoes
  <2>0. DOMAIN p = 1..5
    OBVIOUS
  <2>2. p[1] = Ask /\ p[2] = Try(o) /\ p[3] = Dirty(o) /\ p[4] = Read(o) /\ p[5] = Tell
    OBVIOUS
  <2> HIDE DEF p
  <2>3. ObjectTellsLast(p)
    BY <2>0, <2>2, ObjectDoes DEF ObjectTellsLast
  <2>4. ObjectSyncs(p, o, 1)
    BY <2>0, <2>2 DEF ObjectSyncs
  <2>5. \A x \in Objects : Dirty(x) \in Steps(p) => x = o
    BY <2>0, <2>2, <1>0, ObjectDoes DEF Steps
  <2>6. \A i \in DOMAIN p : p[i].do # "write"
    BY <2>0, <2>2, <1>0, ObjectDoes
  <2>7. ObjectProgram(p)
    BY <2>1, <2>3, <2>4, <2>5, <2>6 DEF ObjectProgram
  <2> QED BY <2>7, ObjectSyncPrograms DEF p
<1>4. ObjectProgram(RoomEvent(o, n, a))
  <2> DEFINE p == <<Find(o), Dirty(o), Read(o), Try(n), Find(a), Tell>>
  <2>1. p \in Seq(ObjectSteps)
    BY <1>0, ObjectDoes
  <2>0. DOMAIN p = 1..6
    OBVIOUS
  <2>2. p[1] = Find(o) /\ p[2] = Dirty(o) /\ p[3] = Read(o) /\ p[4] = Try(n) /\ p[5] = Find(a) /\ p[6] = Tell
    OBVIOUS
  <2> HIDE DEF p
  <2>3. ObjectTellsLast(p)
    BY <2>0, <2>2, <1>0, ObjectDoes DEF ObjectTellsLast
  <2>4. ObjectSyncs(p, o, 1)
    BY <2>0, <2>2 DEF ObjectSyncs
  <2>5. \A x \in Objects : Dirty(x) \in Steps(p) => x = o
    BY <2>0, <2>2, <1>0, ObjectDoes DEF Steps
  <2>6. \A i \in DOMAIN p : p[i].do # "write"
    BY <2>0, <2>2, <1>0, ObjectDoes
  <2>7. ObjectProgram(p)
    BY <2>1, <2>3, <2>4, <2>5, <2>6 DEF ObjectProgram
  <2> QED BY <2>7, ObjectSyncPrograms DEF p
<1>5. ObjectProgram(RoomLeave(o, Self, a))
  <2> DEFINE p == <<Find(o), Dirty(o), Read(o), Try(Self), Find(a), Tell, Dirty(o)>>
  <2>1. p \in Seq(ObjectSteps)
    BY <1>0, SelfIsContact, ObjectDoes
  <2>0. DOMAIN p = 1..7
    OBVIOUS
  <2>2. /\ p[1] = Find(o) /\ p[2] = Dirty(o) /\ p[3] = Read(o) /\ p[4] = Try(Self) /\ p[5] = Find(a)
        /\ p[6] = Tell /\ p[7] = Dirty(o)
    OBVIOUS
  <2> HIDE DEF p
  <2>3. ObjectTellsLast(p)
    <3>1. \A i \in 1..5 : p[i].do # "tell"
      BY <2>2, <1>0, SelfIsContact, ObjectDoes
    <3> QED BY <2>0, <2>2, <3>1, ObjectDoes DEF ObjectTellsLast, ObjectReads
  <2>4. ObjectSyncs(p, o, 1)
    BY <2>0, <2>2 DEF ObjectSyncs
  <2>5. \A x \in Objects : Dirty(x) \in Steps(p) => x = o
    BY <2>0, <2>2, <1>0, SelfIsContact, ObjectDoes DEF Steps
  <2>6. \A i \in DOMAIN p : p[i].do # "write"
    BY <2>0, <2>2, <1>0, SelfIsContact, ObjectDoes
  <2>7. ObjectProgram(p)
    BY <2>1, <2>3, <2>4, <2>5, <2>6 DEF ObjectProgram
  <2> QED BY <2>7, ObjectSyncPrograms DEF p
<1>6. ObjectProgram(RoomLeave(o, n, a))
  BY <1>4, <1>5, ObjectSyncPrograms
<1> QED BY <1>1, <1>2, <1>3, <1>4, <1>6

-----------------------------------------------------------------------------
\* What the service, the puppet and the objects hold.
ObjectWorlds == [server : [Objects -> Nat], cached : [Objects -> Nat],
                 payload : [Objects -> Nat], newest : [Objects -> Nat]]
ObjectWorld == [server |-> server, cached |-> cached, payload |-> payload, newest |-> newest]

\* Versions grow; the cache is dropped, or filled from the service.
ObjectGrows(w, v) ==
  \A o \in Objects :
    /\ w.server[o] <= v.server[o] /\ w.newest[o] <= v.newest[o]
    /\ w.payload[o] # None => v.payload[o] # None
    /\ v.cached[o] = w.cached[o] \/ v.cached[o] = None \/ (w.cached[o] = None /\ v.cached[o] = w.server[o])

\* Programs that have begun.
ObjectRows == [todo : Seq(ObjectSteps), got : Nat, needs : [Objects -> Nat],
               about : SUBSET Objects, failed : SUBSET Objects]

\* What a program names has a payload, or it has yet to look it up.
ObjectNames(r, w) ==
  \A o \in r.about \ r.failed :
    w.payload[o] # None \/ \E i \in DOMAIN r.todo : r.todo[i].of = o /\ r.todo[i].do \in ObjectReads

\* What it needs of an object has been there, or it has yet to sync it, or to read it from
\* a cache that has nothing older.
ObjectNeeds(r, w) ==
  \A o \in Objects :
    /\ r.needs[o] <= w.server[o]
    /\ \/ r.needs[o] <= w.newest[o]
       \/ ObjectSyncs(r.todo, o, 1)
       \/ /\ w.cached[o] = None \/ w.cached[o] >= r.needs[o]
          /\ \E j \in DOMAIN r.todo : r.todo[j] = Read(o) /\ (j = 1 /\ r.got # None => r.got >= r.needs[o])

ObjectRuns(r) ==
  /\ r.got # None => r.todo # <<>> /\ r.todo[1].do \in ObjectReads
  /\ ObjectTellsLast(r.todo)
  /\ \A i \in DOMAIN r.todo :
       r.todo[i].do = "write" /\ r.needs[r.todo[i].of] # None => ObjectSyncs(r.todo, r.todo[i].of, i)

ObjectGoes(r, w) == ObjectRuns(r) /\ ObjectNames(r, w) /\ ObjectNeeds(r, w)

LEMMA ObjectNone == None = 0
BY DEF None

\* A program that takes no step can go on as before.
LEMMA ObjectWaits ==
  ASSUME NEW w \in ObjectWorlds, NEW v \in ObjectWorlds, ObjectGrows(w, v),
         NEW r \in ObjectRows, ObjectGoes(r, w)
  PROVE  ObjectGoes(r, v)
<1> USE ObjectNone
<1>1. ObjectNames(r, v)
  BY DEF ObjectGoes, ObjectNames, ObjectGrows, ObjectRows
<1>2. ASSUME NEW o \in Objects
      PROVE  /\ r.needs[o] <= v.server[o]
             /\ \/ r.needs[o] <= v.newest[o]
                \/ ObjectSyncs(r.todo, o, 1)
                \/ /\ v.cached[o] = None \/ v.cached[o] >= r.needs[o]
                   /\ \E j \in DOMAIN r.todo : r.todo[j] = Read(o) /\ (j = 1 /\ r.got # None => r.got >= r.needs[o])
  <2> DEFINE Reading == \E j \in DOMAIN r.todo : r.todo[j] = Read(o) /\ (j = 1 /\ r.got # None => r.got >= r.needs[o])
  <2>1. /\ r.needs[o] \in Nat /\ w.server[o] \in Nat /\ v.server[o] \in Nat /\ w.newest[o] \in Nat
        /\ v.newest[o] \in Nat /\ w.cached[o] \in Nat /\ v.cached[o] \in Nat
    BY DEF ObjectWorlds, ObjectRows
  <2>2. /\ r.needs[o] <= w.server[o]
        /\ \/ r.needs[o] <= w.newest[o]
           \/ ObjectSyncs(r.todo, o, 1)
           \/ (w.cached[o] = None \/ w.cached[o] >= r.needs[o]) /\ Reading
    BY DEF ObjectGoes, ObjectNeeds
  <2>3. /\ w.server[o] <= v.server[o] /\ w.newest[o] <= v.newest[o]
        /\ v.cached[o] = w.cached[o] \/ v.cached[o] = None \/ (w.cached[o] = None /\ v.cached[o] = w.server[o])
    BY DEF ObjectGrows
  <2> HIDE DEF Reading
  <2>4. /\ r.needs[o] <= v.server[o]
        /\ \/ r.needs[o] <= v.newest[o]
           \/ ObjectSyncs(r.todo, o, 1)
           \/ (v.cached[o] = None \/ v.cached[o] >= r.needs[o]) /\ Reading
    BY <2>1, <2>2, <2>3
  <2> QED BY <2>4 DEF Reading
<1>3. ObjectNeeds(r, v)
  BY <1>2 DEF ObjectNeeds
<1> QED BY <1>1, <1>3 DEF ObjectGoes

LEMMA ObjectIdles ==
  ASSUME NEW w \in ObjectWorlds
  PROVE  Idle \in ObjectRows /\ ObjectGoes(Idle, w)
<1> USE ObjectNone
<1>1. Idle.todo = <<>> /\ Idle.got = None /\ Idle.about = {} /\ \A o \in Objects : Idle.needs[o] = 0
  BY DEF Idle
<1>2. DOMAIN Idle.todo = {}
  BY <1>1
<1>3. Idle \in ObjectRows
  BY DEF Idle, ObjectRows
<1>4. ObjectRuns(Idle)
  BY <1>1, <1>2 DEF ObjectRuns, ObjectTellsLast
<1>5. ObjectNames(Idle, w)
  BY <1>1 DEF ObjectNames
<1>6. ObjectNeeds(Idle, w)
  BY <1>1 DEF ObjectNeeds, ObjectWorlds
<1> QED BY <1>3, <1>4, <1>5, <1>6 DEF ObjectGoes

-----------------------------------------------------------------------------
\* A program begins.
LEMMA ObjectBegins ==
  ASSUME NEW w \in ObjectWorlds, NEW p, ObjectProgram(p), NEW r,
         r = [todo |-> p, got |-> None, failed |-> {},
              needs |-> [o \in Objects |-> IF Dirty(o) \in Steps(p) THEN w.server[o] ELSE None],
              about |-> {s.of : s \in {s \in Steps(p) : s.do \in {"find", "read"}}}]
  PROVE  r \in ObjectRows /\ ObjectGoes(r, w)
<1> USE ObjectNone
<1>1. /\ r.todo = p /\ r.got = None /\ r.failed = {}
      /\ r.needs = [o \in Objects |-> IF Dirty(o) \in Steps(p) THEN w.server[o] ELSE None]
      /\ r.about = {s.of : s \in {s \in Steps(p) : s.do \in {"find", "read"}}}
  OBVIOUS
<1>2. p \in Seq(ObjectSteps) /\ \A i \in DOMAIN p : p[i].of \in Objects
  <2>1. p \in Seq(ObjectSteps)
    BY DEF ObjectProgram
  <2>2. \A i \in DOMAIN p : p[i] \in ObjectSteps
    BY <2>1
  <2> QED BY <2>1, <2>2 DEF ObjectSteps
<1>3. r.about \subseteq Objects
  BY <1>1, <1>2 DEF Steps
<1>4. r.needs \in [Objects -> Nat]
  BY <1>1 DEF ObjectWorlds
<1>5. r \in ObjectRows
  BY <1>1, <1>2, <1>3, <1>4 DEF ObjectRows
<1>6. ObjectRuns(r)
  BY <1>1, <1>2 DEF ObjectRuns, ObjectProgram
<1>7. ObjectNames(r, w)
  BY <1>1 DEF ObjectNames, Steps, ObjectReads
<1>8. \A o \in Objects : r.needs[o] <= w.server[o] /\ (r.needs[o] <= w.newest[o] \/ ObjectSyncs(p, o, 1))
  BY <1>1 DEF ObjectProgram, ObjectWorlds
<1>9. ObjectNeeds(r, w)
  BY <1>1, <1>8 DEF ObjectNeeds
<1> QED BY <1>5, <1>6, <1>7, <1>9 DEF ObjectGoes

LEMMA ObjectHearsDirty ==
  ASSUME NEW w \in ObjectWorlds, NEW o \in Objects, w.cached[o] = None, NEW r,
         r = [Idle EXCEPT !.todo = DirtyEvent(o), !.needs[o] = w.server[o], !.about = {o}]
  PROVE  r \in ObjectRows /\ ObjectGoes(r, w)
<1> USE ObjectNone
<1>0. Find(o) \in ObjectSteps /\ Read(o) \in ObjectSteps /\ Tell \in ObjectSteps
  BY ObjectDoes
<1>1. /\ r.todo = DirtyEvent(o) /\ r.got = None /\ r.failed = {} /\ r.about = {o}
      /\ r.needs = [Idle.needs EXCEPT ![o] = w.server[o]] /\ DOMAIN r = {"todo", "got", "needs", "about", "failed"}
  BY DEF Idle
<1>2. DirtyEvent(o) \in Seq(ObjectSteps) /\ ObjectProgram(DirtyEvent(o))
  BY <1>0, ObjectDoes, ObjectThree DEF DirtyEvent, ObjectProgram
<1>3. /\ DOMAIN DirtyEvent(o) = 1..3 /\ DirtyEvent(o)[1] = Find(o)
      /\ DirtyEvent(o)[2] = Read(o) /\ DirtyEvent(o)[3] = Tell
  BY DEF DirtyEvent
<1>4. /\ r.needs \in [Objects -> Nat] /\ r.needs[o] = w.server[o]
      /\ \A x \in Objects \ {o} : r.needs[x] = 0
  BY <1>1 DEF Idle, ObjectWorlds
<1>5. r \in ObjectRows
  <2>1. r = [todo |-> r.todo, got |-> r.got, needs |-> r.needs, about |-> r.about, failed |-> r.failed]
    BY DEF Idle
  <2> QED BY <1>1, <1>2, <1>4, <2>1 DEF ObjectRows
<1>6. ObjectRuns(r)
  BY <1>0, <1>1, <1>2, <1>3, ObjectDoes DEF ObjectRuns, ObjectProgram
<1>7. ObjectNames(r, w)
  BY <1>1, <1>3, ObjectDoes DEF ObjectNames, ObjectReads
<1>8. w.server[o] \in Nat /\ \A x \in Objects : w.server[x] \in Nat /\ w.newest[x] \in Nat
  BY DEF ObjectWorlds
<1>9. \E j \in DOMAIN r.todo : r.todo[j] = Read(o) /\ (j = 1 /\ r.got # None => r.got >= r.needs[o])
  BY <1>1, <1>3
<1>10. ObjectNeeds(r, w)
  BY <1>4, <1>8, <1>9 DEF ObjectNeeds
<1> QED BY <1>5, <1>6, <1>7, <1>10 DEF ObjectGoes

-----------------------------------------------------------------------------
LEMMA ObjectTail ==
  ASSUME NEW s \in Seq(ObjectSteps), s # <<>>
  PROVE  /\ Tail(s) \in Seq(ObjectSteps) /\ 1 \in DOMAIN s /\ Head(s) = s[1] /\ s[1] \in ObjectSteps
         /\ \A i \in DOMAIN Tail(s) : i \in Nat /\ i >= 1 /\ i + 1 \in DOMAIN s /\ Tail(s)[i] = s[i + 1]
         /\ \A i \in DOMAIN s : i \in Nat /\ i >= 1 /\ (i # 1 => i - 1 \in DOMAIN Tail(s) /\ Tail(s)[i - 1] = s[i])
<1>1. Len(s) \in Nat \ {0} /\ DOMAIN s = 1..Len(s)
  BY EmptySeq, LenProperties
<1>2. /\ Tail(s) \in Seq(ObjectSteps) /\ Len(Tail(s)) = Len(s) - 1
      /\ \A i \in 1..Len(Tail(s)) : Tail(s)[i] = s[i + 1]
  BY HeadTailProperties
<1>3. DOMAIN Tail(s) = 1..Len(s) - 1
  BY <1>2, LenProperties
<1>4. Head(s) = s[1] /\ s[1] \in ObjectSteps
  BY <1>1, HeadTailProperties DEF Head
<1> QED BY <1>1, <1>2, <1>3, <1>4

\* The rest of a program, if it does not begin with marking the object dirty.
LEMMA ObjectSyncsLater ==
  ASSUME NEW s \in Seq(ObjectSteps), s # <<>>, NEW o \in Objects, NEW i \in DOMAIN s, ObjectSyncs(s, o, i),
         i # 1 \/ s[1] # Dirty(o)
  PROVE  /\ ObjectSyncs(Tail(s), o, 1)
         /\ i # 1 => ObjectSyncs(Tail(s), o, i - 1)
<1>1. PICK j \in DOMAIN s, k \in DOMAIN s : i <= j /\ j < k /\ s[j] = Dirty(o) /\ s[k] = Read(o)
  BY DEF ObjectSyncs
<1>2. j # 1 /\ k # 1 /\ i \in Nat /\ j \in Nat /\ k \in Nat /\ i >= 1
  BY <1>1, ObjectTail
<1>3. /\ j - 1 \in DOMAIN Tail(s) /\ k - 1 \in DOMAIN Tail(s)
      /\ Tail(s)[j - 1] = Dirty(o) /\ Tail(s)[k - 1] = Read(o)
  BY <1>1, <1>2, ObjectTail
<1>4. 1 <= j - 1 /\ j - 1 < k - 1 /\ (i # 1 => i - 1 <= j - 1)
  BY <1>1, <1>2
<1> QED BY <1>3, <1>4 DEF ObjectSyncs

\* A program takes its next step.
LEMMA ObjectAdvances ==
  ASSUME NEW w \in ObjectWorlds, NEW r \in ObjectRows, ObjectGoes(r, w), r.todo # <<>>, NEW q,
         q = [r EXCEPT !.todo = Tail(@), !.got = None],
         r.todo[1].do \in ObjectReads => w.payload[r.todo[1].of] # None \/ r.todo[1].of \in r.failed,
         r.todo[1].do = "dirty" => w.cached[r.todo[1].of] = None,
         r.todo[1].do = "read" => r.got # None /\ r.got <= w.newest[r.todo[1].of]
  PROVE  q \in ObjectRows /\ ObjectGoes(q, w)
<1> USE ObjectNone
<1> DEFINE s == r.todo
<1>1. s \in Seq(ObjectSteps) /\ r.needs \in [Objects -> Nat] /\ r.got \in Nat
  BY DEF ObjectRows
<1>0. /\ Tail(s) \in Seq(ObjectSteps) /\ 1 \in DOMAIN s /\ s[1] \in ObjectSteps
      /\ \A i \in DOMAIN Tail(s) : i \in Nat /\ i >= 1 /\ i + 1 \in DOMAIN s /\ Tail(s)[i] = s[i + 1]
      /\ \A i \in DOMAIN s : i \in Nat /\ i >= 1 /\ (i # 1 => i - 1 \in DOMAIN Tail(s) /\ Tail(s)[i - 1] = s[i])
  BY <1>1, ObjectTail
<1>2. q.todo = Tail(s) /\ q.got = 0 /\ q.needs = r.needs /\ q.about = r.about /\ q.failed = r.failed
  BY DEF ObjectRows
<1>3. q \in ObjectRows
  BY <1>1, ObjectTail DEF ObjectRows
<1>4. ObjectRuns(q)
  <2>1. ObjectTellsLast(Tail(s))
    BY <1>1, ObjectTail DEF ObjectTellsLast, ObjectGoes, ObjectRuns
  <2>2. ASSUME NEW i \in DOMAIN Tail(s), Tail(s)[i].do = "write", r.needs[Tail(s)[i].of] # None
        PROVE  ObjectSyncs(Tail(s), Tail(s)[i].of, i)
    <3>1. i + 1 \in DOMAIN s /\ s[i + 1] = Tail(s)[i] /\ i \in Nat /\ i >= 1
      BY <1>1, ObjectTail
    <3>2. ObjectSyncs(s, s[i + 1].of, i + 1)
      BY <2>2, <3>1 DEF ObjectGoes, ObjectRuns
    <3>3. s[i + 1].of \in Objects
      <4>1. s[i + 1] \in ObjectSteps
        BY <1>1, <3>1
      <4> QED BY <4>1 DEF ObjectSteps
    <3>4. i + 1 # 1 /\ (i + 1) - 1 = i
      BY <3>1
    <3> HIDE DEF s
    <3> QED BY <1>1, <3>1, <3>2, <3>3, <3>4, ObjectSyncsLater DEF s
  <2> QED BY <1>2, <2>1, <2>2 DEF ObjectRuns
<1>5. ObjectNames(q, w)
  <2> SUFFICES ASSUME NEW o \in r.about \ r.failed, w.payload[o] = None
               PROVE  \E i \in DOMAIN Tail(s) : Tail(s)[i].of = o /\ Tail(s)[i].do \in ObjectReads
    BY <1>2 DEF ObjectNames
  <2>1. PICK i \in DOMAIN s : s[i].of = o /\ s[i].do \in ObjectReads
    BY DEF ObjectGoes, ObjectNames
  <2>2. i # 1
    BY <2>1
  <2>3. i - 1 \in DOMAIN Tail(s) /\ Tail(s)[i - 1] = s[i]
    BY <1>0, <2>2
  <2> QED BY <2>1, <2>3
<1>6. ASSUME NEW o \in Objects
      PROVE  /\ r.needs[o] <= w.server[o]
             /\ \/ r.needs[o] <= w.newest[o]
                \/ ObjectSyncs(Tail(s), o, 1)
                \/ /\ w.cached[o] = None \/ w.cached[o] >= r.needs[o]
                   /\ \E j \in DOMAIN Tail(s) : Tail(s)[j] = Read(o)
  <2>0. 1 \in DOMAIN s /\ s[1] \in ObjectSteps /\ Dirty(o).do = "dirty" /\ Dirty(o).of = o
        /\ Read(o).do = "read" /\ Read(o).of = o
    BY <1>1, ObjectTail, ObjectDoes
  <2>1. r.needs[o] <= w.server[o]
    BY DEF ObjectGoes, ObjectNeeds
  <2>2. CASE r.needs[o] <= w.newest[o]
    BY <2>1, <2>2
  <2>3. CASE ObjectSyncs(s, o, 1) /\ s[1] # Dirty(o)
    BY <1>1, <2>0, <2>1, <2>3, ObjectSyncsLater
  <2>4. CASE ObjectSyncs(s, o, 1) /\ s[1] = Dirty(o)
    <3>1. w.cached[o] = None
      BY <2>0, <2>4
    <3>2. PICK j \in DOMAIN s, k \in DOMAIN s : 1 <= j /\ j < k /\ s[k] = Read(o)
      BY <2>4 DEF ObjectSyncs
    <3>3. k # 1
      BY <1>1, <3>2, ObjectTail
    <3>4. k - 1 \in DOMAIN Tail(s) /\ Tail(s)[k - 1] = Read(o)
      BY <1>0, <3>2, <3>3
    <3> QED BY <2>1, <3>1, <3>4
  <2>5. CASE /\ w.cached[o] = None \/ w.cached[o] >= r.needs[o]
             /\ \E j \in DOMAIN s : s[j] = Read(o) /\ (j = 1 /\ r.got # None => r.got >= r.needs[o])
    <3>1. PICK j \in DOMAIN s : s[j] = Read(o) /\ (j = 1 /\ r.got # None => r.got >= r.needs[o])
      BY <2>5
    <3>2. CASE j # 1
      <4>1. j - 1 \in DOMAIN Tail(s) /\ Tail(s)[j - 1] = Read(o)
        BY <1>0, <3>1, <3>2
      <4> QED BY <2>1, <2>5, <4>1
    <3>3. CASE j = 1
      <4>1. r.got >= r.needs[o] /\ r.got <= w.newest[o]
        BY <2>0, <3>1, <3>3
      <4>2. r.needs[o] <= w.newest[o]
        BY <1>1, <4>1 DEF ObjectWorlds
      <4> QED BY <2>1, <4>2
    <3> QED BY <3>2, <3>3
  <2> QED BY <2>2, <2>3, <2>4, <2>5 DEF ObjectGoes, ObjectNeeds
<1>7. ObjectNeeds(q, w)
  BY <1>2, <1>6 DEF ObjectNeeds
<1> QED BY <1>3, <1>4, <1>5, <1>7 DEF ObjectGoes

\* It has an answer to what it reads.
LEMMA ObjectGets ==
  ASSUME NEW w \in ObjectWorlds, NEW r \in ObjectRows, ObjectGoes(r, w), r.todo # <<>>, r.got = None,
         r.todo[1].do \in ObjectReads, w.cached[r.todo[1].of] # None, NEW q,
         q = [r EXCEPT !.got = w.cached[r.todo[1].of]]
  PROVE  q \in ObjectRows /\ ObjectGoes(q, w)
<1> USE ObjectNone
<1>1. r.todo \in Seq(ObjectSteps) /\ r.todo[1].of \in Objects /\ r.needs \in [Objects -> Nat]
  BY ObjectTail DEF ObjectRows, ObjectSteps
<1>2. /\ q.todo = r.todo /\ q.got = w.cached[r.todo[1].of] /\ q.needs = r.needs
      /\ q.about = r.about /\ q.failed = r.failed
  BY DEF ObjectRows
<1>3. q.got \in Nat
  BY <1>1, <1>2 DEF ObjectWorlds
<1>4. q \in ObjectRows
  BY <1>2, <1>3 DEF ObjectRows
<1>5. ObjectRuns(q) /\ ObjectNames(q, w)
  BY <1>2 DEF ObjectGoes, ObjectRuns, ObjectNames
<1>6. ASSUME NEW o \in Objects, w.cached[o] = None \/ w.cached[o] >= r.needs[o],
             NEW j \in DOMAIN r.todo, r.todo[j] = Read(o)
      PROVE  j = 1 => q.got >= r.needs[o]
  BY <1>2, <1>6, ObjectDoes
<1>7. ObjectNeeds(q, w)
  BY <1>2, <1>6 DEF ObjectGoes, ObjectNeeds
<1> QED BY <1>4, <1>5, <1>7 DEF ObjectGoes

\* A step that failed is passed over.
LEMMA ObjectForgives ==
  ASSUME NEW w \in ObjectWorlds, NEW r \in ObjectRows, ObjectGoes(r, w), NEW o \in Objects, NEW q,
         q = [r EXCEPT !.failed = @ \cup {o}]
  PROVE  q \in ObjectRows /\ ObjectGoes(q, w)
<1>1. /\ q.todo = r.todo /\ q.got = r.got /\ q.needs = r.needs
      /\ q.about = r.about /\ q.failed = r.failed \cup {o}
  BY DEF ObjectRows
<1>2. q \in ObjectRows
  BY <1>1 DEF ObjectRows
<1>3. ObjectRuns(q) /\ ObjectNeeds(q, w)
  BY <1>1 DEF ObjectGoes, ObjectRuns, ObjectNeeds
<1>4. ObjectNames(q, w)
  BY <1>1 DEF ObjectGoes, ObjectNames
<1> QED BY <1>2, <1>3, <1>4 DEF ObjectGoes

\* What it has written it needs, if it reads that back.
LEMMA ObjectWrites ==
  ASSUME NEW w \in ObjectWorlds, NEW r \in ObjectRows, ObjectGoes(r, w), r.todo # <<>>,
         NEW o \in Objects, r.todo[1].do = "write", r.todo[1].of = o, NEW q,
         q = [r EXCEPT !.needs[o] = IF @ = None THEN None ELSE w.server[o]]
  PROVE  q \in ObjectRows /\ ObjectGoes(q, w)
<1> USE ObjectNone
<1>1. /\ q.todo = r.todo /\ q.got = r.got /\ q.about = r.about /\ q.failed = r.failed
      /\ q.needs = [r.needs EXCEPT ![o] = IF r.needs[o] = None THEN None ELSE w.server[o]]
  BY DEF ObjectRows
<1>2. /\ q.needs \in [Objects -> Nat] /\ r.needs \in [Objects -> Nat] /\ w.server[o] \in Nat
      /\ \A x \in Objects : (q.needs[x] # None => r.needs[x] # None) /\ (x # o => q.needs[x] = r.needs[x])
  BY <1>1 DEF ObjectRows, ObjectWorlds
<1>3. q \in ObjectRows
  BY <1>1, <1>2 DEF ObjectRows
<1>4. 1 \in DOMAIN r.todo /\ r.todo \in Seq(ObjectSteps)
  BY ObjectTail DEF ObjectRows
<1>5. \A i \in DOMAIN r.todo : r.todo[i].of \in Objects
  <2>1. \A i \in DOMAIN r.todo : r.todo[i] \in ObjectSteps
    BY <1>4
  <2> QED BY <2>1 DEF ObjectSteps
<1>6. ObjectRuns(q)
  BY <1>1, <1>2, <1>5 DEF ObjectGoes, ObjectRuns
<1>7. ObjectNames(q, w)
  BY <1>1 DEF ObjectGoes, ObjectNames
<1>8. r.needs[o] # None => ObjectSyncs(r.todo, o, 1)
  BY <1>4 DEF ObjectGoes, ObjectRuns
<1>9. q.needs[o] <= w.server[o] /\ (q.needs[o] <= w.newest[o] \/ ObjectSyncs(r.todo, o, 1))
  BY <1>1, <1>2, <1>8 DEF ObjectWorlds
<1>10. ObjectNeeds(q, w)
  BY <1>1, <1>2, <1>9 DEF ObjectGoes, ObjectNeeds
<1> QED BY <1>3, <1>6, <1>7, <1>10 DEF ObjectGoes

\* A room is followed by its members.
LEMMA ObjectGoesOn ==
  ASSUME NEW w \in ObjectWorlds, NEW r \in ObjectRows, ObjectGoes(r, w), r.got = None,
         NEW cs \in Seq(Contacts), NEW q,
         q = [r EXCEPT !.todo = TryAll(cs) \o @, !.about = @ \cup {cs[i] : i \in DOMAIN cs}]
  PROVE  q \in ObjectRows /\ ObjectGoes(q, w)
<1> USE ObjectNone
<1> DEFINE m == TryAll(cs)  s == r.todo  n == Len(m)
<1>1. s \in Seq(ObjectSteps) /\ r.needs \in [Objects -> Nat]
  BY DEF ObjectRows
<1>2. /\ q.todo = m \o s /\ q.got = 0 /\ q.needs = r.needs /\ q.failed = r.failed
      /\ q.about = r.about \cup {cs[i] : i \in DOMAIN cs}
  BY DEF ObjectRows
<1>3. /\ m \in Seq(ObjectSteps) /\ n \in Nat /\ DOMAIN m = 1..n /\ DOMAIN s = 1..Len(s) /\ Len(s) \in Nat
      /\ \A i \in DOMAIN m : m[i].do = "find"
      /\ \A i \in DOMAIN cs : i \in DOMAIN m /\ m[i].of = cs[i]
  BY <1>1, ObjectTryAll, LenProperties
<1> HIDE DEF m, s, n
<1>4. m \o s \in Seq(ObjectSteps) /\ DOMAIN (m \o s) = 1..n + Len(s)
  BY <1>1, <1>3, ConcatProperties, LenProperties DEF n
<1>5. /\ \A i \in DOMAIN m : i \in DOMAIN (m \o s) /\ (m \o s)[i] = m[i]
      /\ \A i \in DOMAIN s : i + n \in DOMAIN (m \o s) /\ (m \o s)[i + n] = s[i]
      /\ \A i \in DOMAIN (m \o s) : i \in Nat /\ (i \in DOMAIN m \/ (i - n \in DOMAIN s /\ (m \o s)[i] = s[i - n]))
  BY <1>1, <1>3, <1>4, ConcatProperties DEF n
<1>6. \A i \in DOMAIN cs : cs[i] \in Objects
  BY ObjectContacts
<1>7. q \in ObjectRows
  BY <1>2, <1>4, <1>6 DEF ObjectRows
<1>8. ASSUME NEW o, NEW i \in DOMAIN s, ObjectSyncs(s, o, i)
      PROVE  ObjectSyncs(m \o s, o, i + n) /\ ObjectSyncs(m \o s, o, 1)
  <2>1. PICK j \in DOMAIN s, k \in DOMAIN s : i <= j /\ j < k /\ s[j] = Dirty(o) /\ s[k] = Read(o)
    BY <1>8 DEF ObjectSyncs
  <2>2. /\ j + n \in DOMAIN (m \o s) /\ k + n \in DOMAIN (m \o s)
        /\ (m \o s)[j + n] = Dirty(o) /\ (m \o s)[k + n] = Read(o)
    BY <1>5, <2>1
  <2>3. i + n <= j + n /\ 1 <= j + n /\ j + n < k + n
    BY <1>3, <2>1
  <2> QED BY <2>2, <2>3 DEF ObjectSyncs
<1>9. ObjectRuns(q)
  <2>1. ObjectTellsLast(m \o s)
    <3> SUFFICES ASSUME NEW i \in DOMAIN (m \o s), NEW j \in DOMAIN (m \o s), i < j, (m \o s)[i].do = "tell"
                 PROVE  (m \o s)[j].do \notin ObjectReads
      BY DEF ObjectTellsLast
    <3>1. i \notin DOMAIN m
      BY <1>3, <1>5
    <3>2. j \notin DOMAIN m
      BY <1>3, <1>5, <3>1
    <3>3. i - n \in DOMAIN s /\ j - n \in DOMAIN s /\ (m \o s)[i] = s[i - n] /\ (m \o s)[j] = s[j - n]
      BY <1>5, <3>1, <3>2
    <3>4. i - n < j - n
      BY <1>3, <1>5
    <3> QED BY <3>3, <3>4 DEF ObjectGoes, ObjectRuns, ObjectTellsLast, s
  <2>2. ASSUME NEW i \in DOMAIN (m \o s), (m \o s)[i].do = "write", r.needs[(m \o s)[i].of] # None
        PROVE  ObjectSyncs(m \o s, (m \o s)[i].of, i)
    <3>1. i - n \in DOMAIN s /\ (m \o s)[i] = s[i - n]
      BY <1>3, <1>5, <2>2
    <3>2. ObjectSyncs(s, s[i - n].of, i - n)
      BY <2>2, <3>1 DEF ObjectGoes, ObjectRuns, s
    <3>3. (i - n) + n = i
      BY <1>3, <1>5
    <3> QED BY <1>8, <3>1, <3>2, <3>3
  <2> QED BY <1>2, <2>1, <2>2 DEF ObjectRuns
<1>10. ObjectNames(q, w)
  <2> SUFFICES ASSUME NEW o \in q.about \ q.failed, w.payload[o] = None
               PROVE  \E i \in DOMAIN q.todo : q.todo[i].of = o /\ q.todo[i].do \in ObjectReads
    BY DEF ObjectNames
  <2>1. CASE o \in r.about
    <3>1. PICK i \in DOMAIN s : s[i].of = o /\ s[i].do \in ObjectReads
      BY <1>2, <2>1 DEF ObjectGoes, ObjectNames, s
    <3>2. i + n \in DOMAIN q.todo /\ q.todo[i + n] = s[i]
      BY <1>2, <1>5
    <3> QED BY <3>1, <3>2
  <2>2. CASE o \in {cs[i] : i \in DOMAIN cs}
    <3>1. PICK i \in DOMAIN cs : cs[i] = o
      BY <2>2
    <3>2. i \in DOMAIN q.todo /\ q.todo[i] = m[i] /\ m[i].of = o /\ m[i].do = "find"
      BY <1>2, <1>3, <1>5, <3>1
    <3> QED BY <3>2 DEF ObjectReads
  <2> QED BY <1>2, <2>1, <2>2
<1>11. ASSUME NEW o \in Objects
       PROVE  /\ r.needs[o] <= w.server[o]
              /\ \/ r.needs[o] <= w.newest[o]
                 \/ ObjectSyncs(m \o s, o, 1)
                 \/ /\ w.cached[o] = None \/ w.cached[o] >= r.needs[o]
                    /\ \E j \in DOMAIN (m \o s) : (m \o s)[j] = Read(o)
  <2>1. ObjectSyncs(s, o, 1) => 1 \in DOMAIN s
    BY <1>3 DEF ObjectSyncs
  <2>2. ObjectSyncs(s, o, 1) => ObjectSyncs(m \o s, o, 1)
    BY <1>8, <2>1
  <2>3. \A j \in DOMAIN s : s[j] = Read(o) => \E k \in DOMAIN (m \o s) : (m \o s)[k] = Read(o)
    BY <1>5
  <2>4. /\ r.needs[o] <= w.server[o]
        /\ \/ r.needs[o] <= w.newest[o]
           \/ ObjectSyncs(s, o, 1)
           \/ /\ w.cached[o] = None \/ w.cached[o] >= r.needs[o]
              /\ \E j \in DOMAIN s : s[j] = Read(o)
    BY DEF ObjectGoes, ObjectNeeds, s
  <2> QED BY <2>2, <2>3, <2>4
<1>12. ObjectNeeds(q, w)
  BY <1>2, <1>11 DEF ObjectNeeds
<1> QED BY <1>7, <1>9, <1>10, <1>12 DEF ObjectGoes

-----------------------------------------------------------------------------
\* The others of a room, in the order in which their answers come.
LEMMA ObjectOthers ==
  ASSUME NEW room \in Rooms, NEW others \in Others(room)
  PROVE  others \in Seq(Contacts)
<1> DEFINE S == ToSet(MembersOf[room]) \ {Self}
<1>1. MembersOf[room] \in Seq(Contacts)
  BY MembersAreContacts
<1>2. ToSet(MembersOf[room]) \subseteq Contacts
  BY <1>1 DEF ToSet
<1>3. IsFiniteSet(ToSet(MembersOf[room]))
  <2>1. PICK n \in Nat : DOMAIN MembersOf[room] = 1..n
    BY <1>1
  <2>2. IsFiniteSet(1..n)
    BY FS_Interval, 1 \in Int, n \in Int
  <2>3. MembersOf[room] \in Surjection(1..n, ToSet(MembersOf[room]))
    BY <1>1, <2>1 DEF ToSet, Surjection
  <2> QED BY <2>2, <2>3, FS_Surjection
<1>4. IsFiniteSet(S) /\ Cardinality(S) \in Nat
  BY <1>3, FS_Difference, FS_CardinalityType
<1>5. others \in [1..Cardinality(S) -> S]
  BY DEF Others, SetToSeqs
<1>6. others \in [1..Cardinality(S) -> Contacts]
  BY <1>2, <1>5
<1> HIDE DEF S
<1> QED BY <1>4, <1>6

\* The methods and the handlers are programs.
LEMMA ObjectMethods ==
  /\ \A o \in Objects :
       /\ ObjectProgram(FindOne(o)) /\ ObjectProgram(FindAll(o)) /\ ObjectProgram(FindBy(o))
       /\ ObjectProgram(SyncOne(o)) /\ ObjectProgram(Say(o)) /\ ObjectProgram(Forward(o))
       /\ \A c \in Contacts : ObjectProgram(ToRecalled(o, c)) /\ ObjectProgram(Message(o, c))
  /\ \A c \in Contacts :
       /\ ObjectProgram(Set(c)) /\ ObjectProgram(ToContact(c)) /\ ObjectProgram(Mentions(c))
       /\ ObjectProgram(MentionText(c)) /\ ObjectProgram(Accept(c)) /\ ObjectProgram(FromJSON(c))
       /\ ObjectProgram(SearchFriend(c)) /\ ObjectProgram(AcceptInvitation(c))
       /\ ObjectProgram(InvitedWith(c)) /\ ObjectProgram(Friendship(c))
  /\ \A room \in Rooms :
       /\ ObjectProgram(MemberList(room)) /\ ObjectProgram(ChangeMembers(room)) /\ ObjectProgram(Change(room))
       /\ \A others \in Others(room) : ObjectProgram(Topic(others))
       /\ \A n, a \in Contacts : ObjectProgram(RoomEvent(room, n, a)) /\ ObjectProgram(RoomLeave(room, n, a))
  /\ ObjectProgram(FindSelf) /\ ObjectProgram(SetSelf) /\ ObjectProgram(Query) /\ ObjectProgram(Content)
  /\ ObjectProgram(Tagging) /\ ObjectProgram(AddFriend) /\ ObjectProgram(InvitationQuery) /\ ObjectProgram(LogInOut)
<1>0. /\ Ask \in ObjectSteps /\ Ask.do = "ask" /\ Tell \in ObjectSteps /\ Tell.do = "tell"
      /\ \A o \in Objects : /\ Find(o) \in ObjectSteps /\ Find(o).do = "find"
                            /\ Try(o) \in ObjectSteps /\ Try(o).do = "find"
                            /\ Write(o) \in ObjectSteps /\ Write(o).do = "write"
      /\ Contacts \subseteq Objects /\ Rooms \subseteq Objects /\ Self \in Contacts /\ Self \in Objects
  BY ObjectDoes, ObjectContacts, SelfIsContact
<1>1. ObjectProgram(Query) /\ ObjectProgram(Content) /\ ObjectProgram(Tagging) /\ ObjectProgram(AddFriend)
      /\ ObjectProgram(InvitationQuery)
  BY <1>0, ObjectTwo DEF Query, Content, Tagging, AddFriend, InvitationQuery
<1>2. ASSUME NEW o \in Objects
      PROVE  /\ ObjectProgram(FindOne(o)) /\ ObjectProgram(FindAll(o)) /\ ObjectProgram(FindBy(o))
             /\ ObjectProgram(<<Ask, Find(o), Tell>>) /\ ObjectProgram(<<Try(o), Tell>>)
             /\ ObjectProgram(<<Try(o), Ask, Tell>>) /\ ObjectProgram(Change(o))
  BY <1>0, ObjectTwo, ObjectThree, ObjectFour DEF FindOne, FindAll, FindBy, Change
<1>3. ASSUME NEW o \in Objects, NEW c \in Contacts
      PROVE  ObjectProgram(Message(o, c))
  BY <1>0, ObjectFour DEF Message
<1>4. \A o \in Objects : ObjectProgram(SyncOne(o)) /\ ObjectProgram(Set(o)) /\ ObjectProgram(Accept(o))
  BY <1>0, ObjectSyncsOnce
<1>5. \A o \in Objects, n \in Contacts, a \in Contacts : ObjectProgram(RoomEvent(o, n, a)) /\ ObjectProgram(RoomLeave(o, n, a))
  BY <1>0, ObjectSyncsOnce
<1>6. ASSUME NEW room \in Rooms
      PROVE  ObjectProgram(MemberList(room)) /\ \A others \in Others(room) : ObjectProgram(Topic(others))
  BY MembersAreContacts, ObjectOthers, ObjectAsksAndTries DEF MemberList, Members, Topic
<1>7. \A o \in Objects :
        /\ ObjectProgram(FindOne(o)) /\ ObjectProgram(FindAll(o)) /\ ObjectProgram(FindBy(o))
        /\ ObjectProgram(SyncOne(o)) /\ ObjectProgram(Say(o)) /\ ObjectProgram(Forward(o))
        /\ \A c \in Contacts : ObjectProgram(ToRecalled(o, c)) /\ ObjectProgram(Message(o, c))
  BY <1>0, <1>2, <1>3, <1>4 DEF Say, Forward, ToRecalled
<1>8. ASSUME NEW c \in Contacts
      PROVE  /\ ObjectProgram(Set(c)) /\ ObjectProgram(ToContact(c)) /\ ObjectProgram(Mentions(c))
             /\ ObjectProgram(MentionText(c)) /\ ObjectProgram(Accept(c)) /\ ObjectProgram(FromJSON(c))
             /\ ObjectProgram(SearchFriend(c)) /\ ObjectProgram(AcceptInvitation(c))
             /\ ObjectProgram(InvitedWith(c)) /\ ObjectProgram(Friendship(c))
  <2>1. c \in Objects
    BY <1>0
  <2>2. ObjectProgram(<<Ask, Find(c), Tell>>) /\ ObjectProgram(<<Ask, Try(c), Tell>>)
        /\ ObjectProgram(<<Try(c), Tell>>) /\ ObjectProgram(<<Try(c), Ask, Tell>>)
    BY <2>1, <1>2 DEF FindAll
  <2>3. ObjectProgram(Set(c)) /\ ObjectProgram(Accept(c))
    BY <2>1, <1>4
  <2> QED BY <2>2, <2>3 DEF ToContact, Mentions, MentionText, FromJSON, SearchFriend, AcceptInvitation,
                            InvitedWith, Friendship, Inviter
<1>9. ASSUME NEW room \in Rooms
      PROVE  ObjectProgram(ChangeMembers(room)) /\ ObjectProgram(Change(room))
  BY <1>0, <1>2 DEF ChangeMembers
<1>10. ObjectProgram(FindSelf) /\ ObjectProgram(SetSelf) /\ ObjectProgram(LogInOut)
  <2>1. ObjectProgram(FindOne(Self)) /\ ObjectProgram(Set(Self))
    BY <1>0, <1>2, <1>4
  <2> QED BY <2>1 DEF FindSelf, SetSelf, LogInOut, FindOne
<1> QED BY <1>0, <1>1, <1>5, <1>6, <1>7, <1>8, <1>9, <1>10

\* The steps that begin a program.
LEMMA ObjectStarts ==
  ASSUME Call \/ PuppetEvent \/ RoomChanges
  PROVE  \E t \in Tasks : \E p :
           ObjectProgram(p) /\ Start(t, p) /\ UNCHANGED <<server, cached, payload, newest, crossed>>
<1>1. CASE Call
  <2>1. PICK t \in Tasks :
          /\ \/ \E o \in Objects : \/ Start(t, FindOne(o)) \/ Start(t, FindAll(o)) \/ Start(t, FindBy(o))
                                   \/ Start(t, SyncOne(o)) \/ Start(t, Say(o)) \/ Start(t, Forward(o))
                                   \/ \E c \in Contacts : Start(t, ToRecalled(o, c))
             \/ \E c \in Contacts : \/ Start(t, Set(c))
                                    \/ Start(t, ToContact(c)) \/ Start(t, Mentions(c)) \/ Start(t, MentionText(c))
                                    \/ Start(t, Accept(c)) \/ Start(t, FromJSON(c)) \/ Start(t, SearchFriend(c))
                                    \/ Start(t, AcceptInvitation(c)) \/ Start(t, InvitedWith(c))
             \/ \E room \in Rooms : \/ Start(t, MemberList(room)) \/ Start(t, ChangeMembers(room))
                                    \/ Start(t, Change(room)) \/ \E others \in Others(room) : Start(t, Topic(others))
             \/ Start(t, FindSelf) \/ Start(t, SetSelf)
             \/ Start(t, Query) \/ Start(t, Content) \/ Start(t, Tagging) \/ Start(t, AddFriend)
             \/ Start(t, InvitationQuery)
          /\ UNCHANGED <<server, cached, payload, newest, crossed>>
    BY <1>1 DEF Call
  <2>2. \E p : ObjectProgram(p) /\ Start(t, p)
    BY <2>1, ObjectMethods
  <2> QED BY <2>1, <2>2
<1>2. CASE PuppetEvent
  <2>1. PICK t \in Tasks :
          /\ \/ \E o \in Objects, c \in Contacts : Start(t, Message(o, c))
             \/ \E c \in Contacts : Start(t, Friendship(c))
             \/ Start(t, LogInOut)
          /\ UNCHANGED <<server, cached, payload, newest, crossed>>
    BY <1>2 DEF PuppetEvent
  <2>2. \E p : ObjectProgram(p) /\ Start(t, p)
    BY <2>1, ObjectMethods
  <2> QED BY <2>1, <2>2
<1>3. CASE RoomChanges
  <2>1. PICK t \in Tasks, room \in Rooms, named \in Contacts, actor \in Contacts :
          /\ Start(t, RoomEvent(room, named, actor)) \/ Start(t, RoomLeave(room, named, actor))
          /\ UNCHANGED <<server, cached, payload, newest, crossed>>
    BY <1>3 DEF RoomChanges
  <2>2. \E p : ObjectProgram(p) /\ Start(t, p)
    BY <2>1, ObjectMethods
  <2> QED BY <2>1, <2>2
<1> QED BY <1>1, <1>2, <1>3

-----------------------------------------------------------------------------
\* A program has an answer for an object.
ObjectAwaits(t, o) == tasks[t].got # None /\ tasks[t].todo[1].of = o

ObjectTyped ==
  /\ server \in [Objects -> Nat] /\ cached \in [Objects -> Nat]
  /\ payload \in [Objects -> Nat] /\ newest \in [Objects -> Nat]
  /\ crossed \subseteq Objects /\ tasks \in [Tasks -> ObjectRows]
  /\ \A o \in Objects : server[o] # None /\ cached[o] <= server[o]

\* Where no two answers crossed the object has the newest version it was given, and
\* nothing older is in the cache or on its way.
ObjectInTurn(o) ==
  /\ payload[o] = newest[o] /\ newest[o] <= server[o] /\ (cached[o] = None \/ newest[o] <= cached[o])
  /\ \A t \in Tasks : ObjectAwaits(t, o) =>
       /\ newest[o] <= tasks[t].got /\ tasks[t].got <= server[o]
       /\ cached[o] = None \/ tasks[t].got <= cached[o]
  /\ \A s, t \in Tasks : ObjectAwaits(s, o) /\ ObjectAwaits(t, o) => s = t

ObjectIInv ==
  /\ ObjectTyped
  /\ \A t \in Tasks : ObjectGoes(tasks[t], ObjectWorld)
  /\ \A o \in Objects \ crossed : ObjectInTurn(o)

-----------------------------------------------------------------------------
LEMMA ObjectWorldIs ==
  /\ ObjectWorld.server = server /\ ObjectWorld.cached = cached
  /\ ObjectWorld.payload = payload /\ ObjectWorld.newest = newest
  /\ ObjectTyped => ObjectWorld \in ObjectWorlds
BY DEF ObjectWorld, ObjectWorlds, ObjectTyped

LEMMA ObjectWorldWillBe ==
  /\ ObjectWorld'.server = server' /\ ObjectWorld'.cached = cached'
  /\ ObjectWorld'.payload = payload' /\ ObjectWorld'.newest = newest'
  /\ ObjectTyped' => ObjectWorld' \in ObjectWorlds
BY DEF ObjectWorld, ObjectWorlds, ObjectTyped

LEMMA ObjectInitIInv == Init => ObjectIInv
<1> SUFFICES ASSUME Init PROVE ObjectIInv
  OBVIOUS
<1> USE ObjectNone
<1>1. PICK v \in {None, 1} : payload = [o \in Objects |-> v]
  BY DEF Init
<1>2. /\ server = [o \in Objects |-> 1] /\ cached = payload /\ newest = payload /\ crossed = {}
      /\ tasks = [t \in Tasks |-> Idle]
  BY DEF Init
<1>3. ASSUME NEW w \in ObjectWorlds
      PROVE  Idle \in ObjectRows /\ ObjectGoes(Idle, w)
  BY ObjectIdles
<1>4. Idle \in ObjectRows
  <2>1. [server |-> server, cached |-> server, payload |-> server, newest |-> server] \in ObjectWorlds
    BY <1>2 DEF ObjectWorlds
  <2> QED BY <1>3, <2>1
<1>5. ObjectTyped
  BY <1>1, <1>2, <1>4 DEF ObjectTyped
<1>6. \A t \in Tasks : ObjectGoes(tasks[t], ObjectWorld)
  BY <1>2, <1>3, <1>5, ObjectWorldIs
<1>7. \A t \in Tasks : tasks[t].got = None
  BY <1>2 DEF Idle
<1>8. ASSUME NEW o \in Objects
      PROVE  ObjectInTurn(o)
  BY <1>1, <1>2, <1>7 DEF ObjectInTurn, ObjectAwaits
<1> QED BY <1>5, <1>6, <1>8 DEF ObjectIInv

-----------------------------------------------------------------------------
\* A step moves one program and leaves the others.
ObjectMoves(t, q) == tasks' = [tasks EXCEPT ![t] = q]

LEMMA ObjectGoesFurther ==
  ASSUME ObjectIInv, ObjectTyped', ObjectGrows(ObjectWorld, ObjectWorld'),
         NEW t \in Tasks, NEW q, ObjectMoves(t, q), ObjectGoes(q, ObjectWorld')
  PROVE  \A s \in Tasks : ObjectGoes(tasks'[s], ObjectWorld')
<1>1. ObjectWorld \in ObjectWorlds /\ ObjectWorld' \in ObjectWorlds
  BY ObjectWorldIs, ObjectWorldWillBe DEF ObjectIInv
<1>2. \A s \in Tasks : tasks'[s] = IF s = t THEN q ELSE tasks[s]
  BY DEF ObjectMoves, ObjectIInv, ObjectTyped
<1>3. \A s \in Tasks : tasks[s] \in ObjectRows /\ ObjectGoes(tasks[s], ObjectWorld)
  BY DEF ObjectIInv, ObjectTyped
<1>4. \A s \in Tasks : ObjectGoes(tasks[s], ObjectWorld')
  BY <1>1, <1>3, ObjectWaits
<1> QED BY <1>2, <1>4

\* A step that gives no object a payload and no program an answer leaves the turns as
\* they are.
LEMMA ObjectTurnsStay ==
  ASSUME ObjectIInv, ObjectTyped', ObjectGrows(ObjectWorld, ObjectWorld'), payload' = payload, newest' = newest,
         crossed' = crossed, \A o \in Objects : cached'[o] = cached[o] \/ cached'[o] = None,
         \A s \in Tasks : tasks'[s].got = None \/ (tasks'[s].got = tasks[s].got /\ tasks'[s].todo = tasks[s].todo)
  PROVE  \A o \in Objects \ crossed' : ObjectInTurn(o)'
<1> SUFFICES ASSUME NEW o \in Objects \ crossed
             PROVE  ObjectInTurn(o)'
  OBVIOUS
<1>1. ObjectInTurn(o)
  BY DEF ObjectIInv
<1>2. server[o] <= server'[o] /\ server[o] \in Nat /\ server'[o] \in Nat /\ newest[o] \in Nat
      /\ \A s \in Tasks : tasks[s].got \in Nat
  BY ObjectWorldIs, ObjectWorldWillBe DEF ObjectGrows, ObjectIInv, ObjectTyped, ObjectRows
<1>3. \A s \in Tasks : ObjectAwaits(s, o)' => ObjectAwaits(s, o) /\ tasks'[s].got = tasks[s].got
  BY DEF ObjectAwaits
<1> QED BY <1>1, <1>2, <1>3 DEF ObjectInTurn

-----------------------------------------------------------------------------
LEMMA ObjectStartKeepsIInv ==
  ASSUME ObjectIInv, Call \/ PuppetEvent \/ RoomChanges
  PROVE  ObjectIInv'
<1>0. PICK t \in Tasks :
        \E p : ObjectProgram(p) /\ Start(t, p) /\ UNCHANGED <<server, cached, payload, newest, crossed>>
  BY ObjectStarts
<1>1. PICK p : ObjectProgram(p) /\ Start(t, p) /\ UNCHANGED <<server, cached, payload, newest, crossed>>
  BY <1>0
<1> DEFINE q == [todo |-> p, got |-> None, failed |-> {},
                 needs |-> [o \in Objects |-> IF Dirty(o) \in Steps(p) THEN server[o] ELSE None],
                 about |-> {s.of : s \in {s \in Steps(p) : s.do \in {"find", "read"}}}]
<1>2. ObjectMoves(t, q) /\ tasks \in [Tasks -> ObjectRows]
  BY <1>1 DEF Start, ObjectMoves, ObjectIInv, ObjectTyped
<1>3. ObjectWorld \in ObjectWorlds /\ ObjectWorld' = ObjectWorld /\ ObjectWorld.server = server
  BY <1>1, ObjectWorldIs DEF ObjectIInv, ObjectWorld
<1>4. q \in ObjectRows /\ ObjectGoes(q, ObjectWorld)
  BY <1>1, <1>3, ObjectBegins
<1>5. q.got = None
  OBVIOUS
<1> HIDE DEF q
<1>6. tasks' = [tasks EXCEPT ![t] = q] /\ tasks' \in [Tasks -> ObjectRows]
  BY <1>2, <1>4 DEF ObjectMoves
<1>7. ObjectTyped'
  BY <1>1, <1>6 DEF ObjectIInv, ObjectTyped
<1>8. ObjectGrows(ObjectWorld, ObjectWorld')
  BY <1>3 DEF ObjectGrows, ObjectWorlds
<1>9. \A s \in Tasks : ObjectGoes(tasks'[s], ObjectWorld')
  BY <1>2, <1>3, <1>4, <1>7, <1>8, ObjectGoesFurther
<1>10. \A s \in Tasks : tasks'[s].got = None \/ (tasks'[s].got = tasks[s].got /\ tasks'[s].todo = tasks[s].todo)
  BY <1>2, <1>5, <1>6
<1>11. \A o \in Objects \ crossed' : ObjectInTurn(o)'
  BY <1>1, <1>7, <1>8, <1>10, ObjectTurnsStay
<1> QED BY <1>7, <1>9, <1>11 DEF ObjectIInv

LEMMA ObjectChanges ==
  ASSUME ObjectTyped, NEW o \in Objects, Changes(o)
  PROVE  /\ server' \in [Objects -> Nat] /\ server'[o] > 0
         /\ \A x \in Objects : server[x] <= server'[x] /\ (x # o => server'[x] = server[x])
<1>1. PICK v \in 2..MaxVersion : (\A x \in Objects : server[x] < v) /\ server' = [server EXCEPT ![o] = v]
  BY DEF Changes
<1>2. v \in Nat /\ v > 0
  BY <1>1, ObjectBounds
<1> QED BY <1>1, <1>2 DEF ObjectTyped

LEMMA ObjectServerKeepsIInv ==
  ASSUME ObjectIInv, ServerChanges
  PROVE  ObjectIInv'
<1> USE ObjectNone
<1>1. PICK o \in Objects : Changes(o)
  BY DEF ServerChanges
<1>2. UNCHANGED <<cached, payload, newest, crossed, tasks>>
  BY DEF ServerChanges
<1>3. /\ server' \in [Objects -> Nat] /\ server'[o] > 0
      /\ \A x \in Objects : server[x] <= server'[x] /\ (x # o => server'[x] = server[x])
  BY <1>1, ObjectChanges DEF ObjectIInv
<1>4. ObjectTyped'
  BY <1>2, <1>3 DEF ObjectIInv, ObjectTyped
<1>5. ObjectGrows(ObjectWorld, ObjectWorld')
  BY <1>2, <1>3, ObjectWorldIs, ObjectWorldWillBe DEF ObjectGrows, ObjectIInv, ObjectTyped
<1>6. \A s \in Tasks : ObjectGoes(tasks'[s], ObjectWorld')
  <2>1. ObjectWorld \in ObjectWorlds /\ ObjectWorld' \in ObjectWorlds
    BY <1>4, ObjectWorldIs, ObjectWorldWillBe DEF ObjectIInv
  <2>2. \A s \in Tasks : tasks[s] \in ObjectRows /\ ObjectGoes(tasks[s], ObjectWorld)
    BY DEF ObjectIInv, ObjectTyped
  <2>3. \A s \in Tasks : ObjectGoes(tasks[s], ObjectWorld')
    BY <1>5, <2>1, <2>2, ObjectWaits
  <2> QED BY <1>2, <2>3
<1>7. \A x \in Objects \ crossed' : ObjectInTurn(x)'
  BY <1>2, <1>4, <1>5, ObjectTurnsStay
<1> QED BY <1>4, <1>6, <1>7 DEF ObjectIInv

LEMMA ObjectDirtyKeepsIInv ==
  ASSUME ObjectIInv, PuppetDirty
  PROVE  ObjectIInv'
<1> USE ObjectNone
<1>1. PICK t \in Tasks, o \in Objects :
        /\ cached' = [cached EXCEPT ![o] = None]
        /\ tasks' = [tasks EXCEPT ![t] =
             [Idle EXCEPT !.todo = DirtyEvent(o), !.needs[o] = server[o], !.about = {o}]]
        /\ UNCHANGED <<server, payload, newest, crossed>>
  BY DEF PuppetDirty
<1> DEFINE q == [Idle EXCEPT !.todo = DirtyEvent(o), !.needs[o] = server[o], !.about = {o}]
<1>2. ObjectMoves(t, q) /\ tasks \in [Tasks -> ObjectRows]
  BY <1>1 DEF ObjectMoves, ObjectIInv, ObjectTyped
<1>3. /\ cached' \in [Objects -> Nat] /\ cached'[o] = None
      /\ \A x \in Objects : cached'[x] = None \/ cached'[x] = cached[x]
  BY <1>1 DEF ObjectIInv, ObjectTyped
<1>4. ObjectWorld' \in ObjectWorlds
  BY <1>1, <1>3, ObjectWorldWillBe DEF ObjectWorld, ObjectWorlds, ObjectIInv, ObjectTyped
<1>5. q \in ObjectRows /\ ObjectGoes(q, ObjectWorld')
  <2>1. ObjectWorld'.server = server /\ ObjectWorld'.cached[o] = None
    BY <1>1, <1>3, ObjectWorldWillBe
  <2> QED BY <1>4, <2>1, ObjectHearsDirty
<1>6. q.got = None
  BY DEF Idle
<1> HIDE DEF q
<1>7. tasks' = [tasks EXCEPT ![t] = q] /\ tasks' \in [Tasks -> ObjectRows]
  BY <1>2, <1>5 DEF ObjectMoves
<1>8. ObjectTyped'
  BY <1>1, <1>3, <1>7 DEF ObjectIInv, ObjectTyped
<1>9. ObjectGrows(ObjectWorld, ObjectWorld')
  BY <1>1, <1>3, ObjectWorldIs, ObjectWorldWillBe DEF ObjectGrows, ObjectIInv, ObjectTyped
<1>10. \A s \in Tasks : ObjectGoes(tasks'[s], ObjectWorld')
  BY <1>2, <1>5, <1>8, <1>9, ObjectGoesFurther
<1>11. \A s \in Tasks : tasks'[s].got = None \/ (tasks'[s].got = tasks[s].got /\ tasks'[s].todo = tasks[s].todo)
  BY <1>2, <1>6, <1>7
<1>12. \A x \in Objects \ crossed' : ObjectInTurn(x)'
  BY <1>1, <1>3, <1>8, <1>9, <1>11, ObjectTurnsStay
<1> QED BY <1>8, <1>10, <1>12 DEF ObjectIInv

-----------------------------------------------------------------------------
\* The step a program is at.
LEMMA ObjectAt ==
  ASSUME ObjectIInv, NEW t \in Tasks
  PROVE  /\ tasks[t] \in ObjectRows /\ ObjectGoes(tasks[t], ObjectWorld) /\ tasks \in [Tasks -> ObjectRows]
         /\ tasks[t].got # None => tasks[t].todo # <<>> /\ tasks[t].todo[1].do \in ObjectReads
         /\ tasks[t].todo # <<>> =>
              /\ Of(t) = tasks[t].todo[1].of /\ Of(t) \in Objects /\ tasks[t].todo[1] \in ObjectSteps
              /\ Head(tasks[t].todo) = tasks[t].todo[1]
         /\ \A dos : At(t, dos) <=> tasks[t].todo # <<>> /\ tasks[t].todo[1].do \in dos
<1>1. tasks[t] \in ObjectRows /\ ObjectGoes(tasks[t], ObjectWorld) /\ tasks \in [Tasks -> ObjectRows]
  BY DEF ObjectIInv, ObjectTyped
<1>2. tasks[t].todo \in Seq(ObjectSteps)
  BY <1>1 DEF ObjectRows
<1>3. tasks[t].todo # <<>> => Head(tasks[t].todo) = tasks[t].todo[1] /\ tasks[t].todo[1] \in ObjectSteps
  BY <1>2, ObjectTail
<1>4. tasks[t].todo # <<>> => Of(t) = tasks[t].todo[1].of /\ Of(t) \in Objects
  BY <1>3 DEF Of, ObjectSteps
<1>5. tasks[t].got # None => tasks[t].todo # <<>> /\ tasks[t].todo[1].do \in ObjectReads
  BY <1>1 DEF ObjectGoes, ObjectRuns
<1>6. ASSUME NEW dos
      PROVE  At(t, dos) <=> tasks[t].todo # <<>> /\ tasks[t].todo[1].do \in dos
  BY <1>3 DEF At
<1> QED BY <1>1, <1>3, <1>4, <1>5, <1>6

\* A step is done that was no answer: what is left is a program, and no turn changes.
LEMMA ObjectStepDone ==
  ASSUME ObjectIInv, NEW t \in Tasks, NEW q, ObjectMoves(t, q), q \in ObjectRows, q.got = None,
         ObjectGoes(q, ObjectWorld'), payload' = payload, newest' = newest, crossed' = crossed,
         server' \in [Objects -> Nat], cached' \in [Objects -> Nat],
         \A o \in Objects : server[o] <= server'[o] /\ (cached'[o] = cached[o] \/ cached'[o] = None)
  PROVE  ObjectIInv'
<1> USE ObjectNone
<1>1. tasks' = [tasks EXCEPT ![t] = q] /\ tasks \in [Tasks -> ObjectRows] /\ tasks' \in [Tasks -> ObjectRows]
  BY DEF ObjectMoves, ObjectIInv, ObjectTyped
<1>2. ObjectTyped'
  BY <1>1 DEF ObjectIInv, ObjectTyped
<1>3. ObjectGrows(ObjectWorld, ObjectWorld')
  BY ObjectWorldIs, ObjectWorldWillBe DEF ObjectGrows, ObjectIInv, ObjectTyped
<1>4. \A s \in Tasks : ObjectGoes(tasks'[s], ObjectWorld')
  BY <1>2, <1>3, ObjectGoesFurther
<1>5. \A s \in Tasks : tasks'[s].got = None \/ (tasks'[s].got = tasks[s].got /\ tasks'[s].todo = tasks[s].todo)
  BY <1>1
<1>6. \A o \in Objects \ crossed' : ObjectInTurn(o)'
  BY <1>2, <1>3, <1>5, ObjectTurnsStay
<1> QED BY <1>2, <1>4, <1>6 DEF ObjectIInv

LEMMA ObjectFindReadyKeepsIInv ==
  ASSUME ObjectIInv, NEW t \in Tasks, FindReady(t) \/ Answers(t)
  PROVE  ObjectIInv'
<1> USE ObjectNone
<1> DEFINE r == tasks[t]  q == Next1(t)
<1>1. UNCHANGED <<server, cached, payload, newest, crossed>> /\ ObjectMoves(t, q)
  BY DEF FindReady, Answers, ObjectMoves
<1>2. /\ r \in ObjectRows /\ ObjectGoes(r, ObjectWorld)
      /\ r.todo # <<>> /\ r.todo[1].do \in {"find", "ask", "tell"} /\ r.todo[1].of \in Objects
      /\ r.todo[1].do = "find" => payload[r.todo[1].of] # None
  BY ObjectAt DEF FindReady, Skips, Answers, Ready
<1>3. q = [r EXCEPT !.todo = Tail(@), !.got = None]
  BY DEF Next1
<1>4. ObjectWorld \in ObjectWorlds /\ ObjectWorld' = ObjectWorld /\ ObjectWorld.payload = payload
  BY <1>1, ObjectWorldIs DEF ObjectIInv, ObjectWorld
<1>5. q \in ObjectRows /\ ObjectGoes(q, ObjectWorld)
  <2>1. /\ r.todo[1].do \in ObjectReads => ObjectWorld.payload[r.todo[1].of] # None \/ r.todo[1].of \in r.failed
        /\ r.todo[1].do # "dirty" /\ r.todo[1].do # "read"
    BY <1>2, <1>4 DEF ObjectReads
  <2> HIDE DEF q, r
  <2> QED BY <1>2, <1>3, <1>4, <2>1, ObjectAdvances, Zenon
<1>6. q.got = None
  BY <1>2, <1>3 DEF ObjectRows
<1>7. /\ server' \in [Objects -> Nat] /\ cached' \in [Objects -> Nat] /\ payload' = payload /\ newest' = newest
      /\ crossed' = crossed
      /\ \A o \in Objects : server[o] <= server'[o] /\ (cached'[o] = cached[o] \/ cached'[o] = None)
  BY <1>1 DEF ObjectIInv, ObjectTyped
<1> HIDE DEF q
<1> QED BY <1>1, <1>4, <1>5, <1>6, <1>7, ObjectStepDone

LEMMA ObjectMarkDirtyKeepsIInv ==
  ASSUME ObjectIInv, NEW t \in Tasks, MarkDirty(t)
  PROVE  ObjectIInv'
<1> USE ObjectNone
<1> DEFINE r == tasks[t]  q == Next1(t)  o == r.todo[1].of
<1>1. UNCHANGED <<server, payload, newest, crossed>> /\ ObjectMoves(t, q)
  BY DEF MarkDirty, ObjectMoves
<1>2. /\ r \in ObjectRows /\ ObjectGoes(r, ObjectWorld) /\ r.todo # <<>> /\ r.todo[1].do = "dirty"
      /\ o \in Objects /\ cached' = [cached EXCEPT ![o] = None]
  <2>1. At(t, {"dirty"}) /\ cached' = [cached EXCEPT ![Of(t)] = None]
    BY DEF MarkDirty
  <2>2. r.todo # <<>> /\ r.todo[1].do \in {"dirty"}
    BY <2>1, ObjectAt
  <2> QED BY <2>1, <2>2, ObjectAt
<1>3. q = [r EXCEPT !.todo = Tail(@), !.got = None]
  BY DEF Next1
<1>4. /\ cached' \in [Objects -> Nat] /\ cached'[o] = None
      /\ \A x \in Objects : cached'[x] = None \/ cached'[x] = cached[x]
  BY <1>2 DEF ObjectIInv, ObjectTyped
<1>5. ObjectWorld' \in ObjectWorlds /\ ObjectWorld \in ObjectWorlds
  BY <1>1, <1>4, ObjectWorldIs DEF ObjectWorld, ObjectWorlds, ObjectIInv, ObjectTyped
<1>6. ObjectGrows(ObjectWorld, ObjectWorld')
  BY <1>1, <1>4, ObjectWorldIs, ObjectWorldWillBe DEF ObjectGrows, ObjectIInv, ObjectTyped
<1>7. ObjectGoes(r, ObjectWorld')
  <2> HIDE DEF r
  <2> QED BY <1>2, <1>5, <1>6, ObjectWaits
<1>8. q \in ObjectRows /\ ObjectGoes(q, ObjectWorld')
  <2>1. ObjectWorld'.cached[o] = None /\ r.todo[1].do \notin ObjectReads /\ r.todo[1].do # "read"
    BY <1>2, <1>4, ObjectWorldWillBe DEF ObjectReads
  <2> HIDE DEF q, r
  <2> QED BY <1>2, <1>3, <1>5, <1>7, <2>1, ObjectAdvances, Zenon
<1>9. q.got = None
  BY <1>2, <1>3 DEF ObjectRows
<1>10. server' \in [Objects -> Nat] /\ \A x \in Objects : server[x] <= server'[x]
  BY <1>1 DEF ObjectIInv, ObjectTyped
<1> HIDE DEF q
<1> QED BY <1>1, <1>4, <1>8, <1>9, <1>10, ObjectStepDone

LEMMA ObjectSetRemoteKeepsIInv ==
  ASSUME ObjectIInv, NEW t \in Tasks, SetRemote(t)
  PROVE  ObjectIInv'
<1> USE ObjectNone
<1> DEFINE r == tasks[t]  o == r.todo[1].of  q == Next1(t)
           u == [r EXCEPT !.needs[o] = IF @ = None THEN None ELSE server'[o]]
           v == [u EXCEPT !.todo = Tail(@), !.got = None]
<1>1. /\ UNCHANGED <<cached, payload, newest, crossed>>
      /\ tasks' = [tasks EXCEPT ![t] = [q EXCEPT !.needs[o] = IF @ = None THEN None ELSE server'[o]]]
      /\ Changes(o)
  BY ObjectAt DEF SetRemote
<1>2. /\ r \in ObjectRows /\ ObjectGoes(r, ObjectWorld) /\ r.todo # <<>> /\ r.todo[1].do = "write" /\ o \in Objects
  BY ObjectAt DEF SetRemote
<1>3. /\ server' \in [Objects -> Nat] /\ server'[o] > 0
      /\ \A x \in Objects : server[x] <= server'[x] /\ (x # o => server'[x] = server[x])
  BY <1>1, <1>2, ObjectChanges DEF ObjectIInv
<1>4. [q EXCEPT !.needs[o] = IF @ = None THEN None ELSE server'[o]] = v
  <2>1. r = [todo |-> r.todo, got |-> r.got, needs |-> r.needs, about |-> r.about, failed |-> r.failed]
    BY <1>2 DEF ObjectRows
  <2> QED BY <2>1 DEF Next1
<1>5. ObjectWorld' \in ObjectWorlds /\ ObjectWorld \in ObjectWorlds /\ ObjectWorld'.server = server'
  BY <1>1, <1>3, ObjectWorldIs, ObjectWorldWillBe DEF ObjectWorld, ObjectWorlds, ObjectIInv, ObjectTyped
<1>6. ObjectGrows(ObjectWorld, ObjectWorld')
  BY <1>1, <1>3, ObjectWorldIs, ObjectWorldWillBe DEF ObjectGrows, ObjectIInv, ObjectTyped
<1>7. ObjectGoes(r, ObjectWorld')
  <2> HIDE DEF r
  <2> QED BY <1>2, <1>5, <1>6, ObjectWaits
<1>8. u \in ObjectRows /\ ObjectGoes(u, ObjectWorld')
  <2>1. u = [r EXCEPT !.needs[o] = IF @ = None THEN None ELSE ObjectWorld'.server[o]]
    BY <1>5
  <2> HIDE DEF u, r
  <2> QED BY <1>2, <1>5, <1>7, <2>1, ObjectWrites DEF r
<1>9. u.todo = r.todo
  BY <1>2 DEF ObjectRows
<1>10. v \in ObjectRows /\ ObjectGoes(v, ObjectWorld') /\ v.got = None
  <2>1. u.todo # <<>> /\ u.todo[1].do \notin ObjectReads /\ u.todo[1].do # "read" /\ u.todo[1].do # "dirty"
    BY <1>2, <1>9 DEF ObjectReads
  <2> HIDE DEF u
  <2>2. v.got = None
    BY <1>8 DEF ObjectRows
  <2>3. v = [u EXCEPT !.todo = Tail(@), !.got = None]
    OBVIOUS
  <2> HIDE DEF v
  <2> QED BY <1>5, <1>8, <2>1, <2>2, <2>3, ObjectAdvances, Zenon
<1>11. ObjectMoves(t, v)
  BY <1>1, <1>4 DEF ObjectMoves
<1>12. cached' \in [Objects -> Nat] /\ \A x \in Objects : cached'[x] = None \/ cached'[x] = cached[x]
  BY <1>1 DEF ObjectIInv, ObjectTyped
<1> HIDE DEF v
<1> QED BY <1>1, <1>3, <1>10, <1>11, <1>12, ObjectStepDone

LEMMA ObjectFailsKeepsIInv ==
  ASSUME ObjectIInv, NEW t \in Tasks, Fails(t)
  PROVE  ObjectIInv'
<1> USE ObjectNone
<1> DEFINE r == tasks[t]  o == r.todo[1].of  q == Failed(t)
           u == [r EXCEPT !.failed = @ \cup {o}]
<1>1. UNCHANGED <<server, cached, payload, newest, crossed>> /\ ObjectMoves(t, q)
  BY DEF Fails, ObjectMoves
<1>2. r \in ObjectRows /\ ObjectGoes(r, ObjectWorld) /\ r.todo # <<>> /\ o \in Objects /\ r.todo[1] \in ObjectSteps
      /\ Head(r.todo) = r.todo[1] /\ Of(t) = o /\ r.todo[1].do \in {"find", "read", "dirty", "write", "ask"}
  BY ObjectAt DEF Fails
<1>3. ObjectWorld \in ObjectWorlds /\ ObjectWorld' = ObjectWorld
  BY <1>1, ObjectWorldIs DEF ObjectIInv, ObjectWorld
<1>4. q \in ObjectRows /\ ObjectGoes(q, ObjectWorld) /\ q.got = None
  <2>1. CASE r.todo[1].vital
    <3>1. q = Idle
      BY <1>2, <2>1 DEF Failed
    <3>2. Idle.got = None
      BY DEF Idle
    <3> HIDE DEF q
    <3> QED BY <3>1, <3>2, <1>3, ObjectIdles
  <2>2. CASE ~r.todo[1].vital
    <3>1. u \in ObjectRows /\ ObjectGoes(u, ObjectWorld)
      <4> HIDE DEF r
      <4> QED BY <1>2, <1>3, ObjectForgives
    <3>2. u.todo = r.todo /\ o \in u.failed
      BY <1>2 DEF ObjectRows
    <3>3. q = [u EXCEPT !.todo = Tail(@), !.got = None]
      <4>1. r = [todo |-> r.todo, got |-> r.got, needs |-> r.needs, about |-> r.about, failed |-> r.failed]
        BY <1>2 DEF ObjectRows
      <4>2. q = [Next1(t) EXCEPT !.failed = @ \cup {o}]
        BY <1>2, <2>2 DEF Failed
      <4> QED BY <4>1, <4>2 DEF Next1
    <3>4. q.got = None
      BY <3>1, <3>3 DEF ObjectRows
    <3>5. u.todo # <<>> /\ u.todo[1].of \in u.failed /\ u.todo[1].do # "dirty" /\ u.todo[1].do # "read"
      BY <1>2, <2>2, <3>2 DEF ObjectSteps
    <3> HIDE DEF q, u
    <3> QED BY <1>3, <3>1, <3>3, <3>4, <3>5, ObjectAdvances, Zenon
  <2> QED BY <2>1, <2>2
<1>5. /\ server' \in [Objects -> Nat] /\ cached' \in [Objects -> Nat]
      /\ \A x \in Objects : server[x] <= server'[x] /\ (cached'[x] = cached[x] \/ cached'[x] = None)
  BY <1>1 DEF ObjectIInv, ObjectTyped
<1> HIDE DEF q
<1> QED BY <1>1, <1>3, <1>4, <1>5, ObjectStepDone

LEMMA ObjectFetchKeepsIInv ==
  ASSUME ObjectIInv, NEW t \in Tasks, Fetch(t)
  PROVE  ObjectIInv'
<1> USE ObjectNone
<1> DEFINE r == tasks[t]  o == r.todo[1].of  f == Fetched(o)  q == [r EXCEPT !.got = f]
<1>1. At(t, {"find", "read"}) /\ r.got = None /\ UNCHANGED <<server, payload, newest>>
  BY DEF Fetch
<1>2. /\ r \in ObjectRows /\ ObjectGoes(r, ObjectWorld) /\ tasks \in [Tasks -> ObjectRows]
      /\ r.todo # <<>> /\ r.todo[1].do \in ObjectReads
      /\ o \in Objects /\ Of(t) = o
  <2>1. r.todo # <<>> /\ r.todo[1].do \in {"find", "read"}
    BY <1>1, ObjectAt
  <2> QED BY <2>1, ObjectAt DEF ObjectReads
<1>3. /\ cached' = [cached EXCEPT ![o] = f] /\ tasks' = [tasks EXCEPT ![t] = q]
      /\ crossed' = IF Awaits(o) # {} THEN crossed \cup {o} ELSE crossed
  BY <1>2 DEF Fetch
<1>4. f = (IF cached[o] # None THEN cached[o] ELSE server[o]) /\ f \in Nat /\ f # None /\ f <= server[o]
  BY <1>2 DEF Fetched, ObjectIInv, ObjectTyped
<1>5. /\ q.got = f /\ q.todo = r.todo /\ q \in ObjectRows
  BY <1>2, <1>4, Zenon DEF ObjectRows
<1> HIDE DEF f, q
<1>6. /\ cached' \in [Objects -> Nat] /\ cached'[o] = f
      /\ \A x \in Objects : x # o => cached'[x] = cached[x]
  BY <1>2, <1>3, <1>4 DEF ObjectIInv, ObjectTyped
<1>7. ObjectMoves(t, q)
  BY <1>3 DEF ObjectMoves
<1>8. ObjectTyped'
  <2>1. crossed' \subseteq Objects /\ tasks' \in [Tasks -> ObjectRows]
    BY <1>2, <1>3, <1>5 DEF ObjectIInv, ObjectTyped
  <2> QED BY <1>1, <1>4, <1>6, <2>1 DEF ObjectIInv, ObjectTyped
<1>9. ObjectWorld \in ObjectWorlds /\ ObjectWorld' \in ObjectWorlds
  BY <1>8, ObjectWorldIs, ObjectWorldWillBe DEF ObjectIInv
<1>10. ObjectGrows(ObjectWorld, ObjectWorld')
  BY <1>1, <1>4, <1>6, ObjectWorldIs, ObjectWorldWillBe DEF ObjectGrows, ObjectIInv, ObjectTyped
<1>11. ObjectGoes(r, ObjectWorld')
  <2> HIDE DEF r
  <2> QED BY <1>2, <1>9, <1>10, ObjectWaits
<1>12. ObjectGoes(q, ObjectWorld')
  <2>1. ObjectWorld'.cached[r.todo[1].of] # None /\ q = [r EXCEPT !.got = ObjectWorld'.cached[r.todo[1].of]]
    BY <1>4, <1>6, ObjectWorldWillBe DEF q
  <2> HIDE DEF r
  <2> QED BY <1>1, <1>2, <1>9, <1>11, <2>1, ObjectGets DEF r
<1>13. \A s \in Tasks : ObjectGoes(tasks'[s], ObjectWorld')
  BY <1>7, <1>8, <1>10, <1>12, ObjectGoesFurther
<1>14. \A s \in Tasks : tasks'[s] = IF s = t THEN q ELSE tasks[s]
  BY <1>2, <1>3
<1>15. ASSUME NEW x \in Objects \ crossed'
       PROVE  ObjectInTurn(x)'
  <2>1. x \notin crossed /\ ObjectInTurn(x)
    BY <1>3 DEF ObjectIInv
  <2>2. CASE x # o
    <3>1. \A s \in Tasks : ObjectAwaits(s, x)' => ObjectAwaits(s, x) /\ tasks'[s].got = tasks[s].got
      BY <1>5, <1>14, <2>2 DEF ObjectAwaits
    <3> QED BY <1>1, <1>6, <2>1, <2>2, <3>1 DEF ObjectInTurn
  <2>3. CASE x = o
    <3>1. \A s \in Tasks : ~ObjectAwaits(s, x)
      <4>1. Awaits(o) = {}
        BY <1>3, <2>3
      <4>2. \A s \in Tasks : tasks[s].got # None => Of(s) = tasks[s].todo[1].of
        BY ObjectAt
      <4> QED BY <2>3, <4>1, <4>2 DEF Awaits, ObjectAwaits
    <3>2. \A s \in Tasks : ObjectAwaits(s, x)' => s = t /\ tasks'[s].got = f
      BY <1>5, <1>14, <3>1 DEF ObjectAwaits
    <3>3. newest[x] <= f /\ newest[x] \in Nat /\ server[x] \in Nat
      BY <1>2, <1>4, <2>1, <2>3 DEF ObjectInTurn, ObjectIInv, ObjectTyped
    <3>4. /\ payload'[x] = newest'[x] /\ newest'[x] = newest[x] /\ newest'[x] <= server'[x]
          /\ cached'[x] = f /\ f <= server'[x] /\ f \in Nat
      BY Zenon, <1>1, <1>4, <1>6, <2>1, <2>3 DEF ObjectInTurn
    <3> QED BY <3>2, <3>3, <3>4 DEF ObjectInTurn
  <2> QED BY <2>2, <2>3
<1> QED BY <1>8, <1>13, <1>15 DEF ObjectIInv

LEMMA ObjectApplyKeepsIInv ==
  ASSUME ObjectIInv, NEW t \in Tasks, Apply(t)
  PROVE  ObjectIInv'
<1> USE ObjectNone
<1> DEFINE r == tasks[t]  o == r.todo[1].of  p == [r EXCEPT !.todo = Tail(@), !.got = None]
           cs == MembersOf[o]
           q == IF o \in Rooms
                  THEN [p EXCEPT !.todo = TryAll(cs) \o @, !.about = @ \cup {cs[i] : i \in DOMAIN cs}]
                  ELSE p
<1>1. r.got # None /\ UNCHANGED <<server, cached, crossed>>
  BY DEF Apply
<1>2. /\ r \in ObjectRows /\ ObjectGoes(r, ObjectWorld) /\ tasks \in [Tasks -> ObjectRows]
      /\ r.todo # <<>> /\ r.todo[1].do \in ObjectReads
      /\ o \in Objects /\ Of(t) = o /\ r.got \in Nat
  <2>1. r.todo # <<>> /\ r.todo[1].do \in ObjectReads /\ r \in ObjectRows
    BY <1>1, ObjectAt
  <2> QED BY <2>1, ObjectAt DEF ObjectRows
<1>3. /\ payload' = [payload EXCEPT ![o] = r.got]
      /\ newest' = [newest EXCEPT ![o] = IF r.got > @ THEN r.got ELSE @]
      /\ tasks' = [tasks EXCEPT ![t] = q]
  BY <1>2 DEF Apply, Next1, Members
<1>4. /\ payload' \in [Objects -> Nat] /\ newest' \in [Objects -> Nat] /\ payload'[o] = r.got
      /\ newest'[o] >= r.got /\ newest'[o] >= newest[o] /\ (newest[o] <= r.got => newest'[o] = r.got)
      /\ \A x \in Objects : x # o => payload'[x] = payload[x] /\ newest'[x] = newest[x]
  BY <1>2, <1>3 DEF ObjectIInv, ObjectTyped
<1>5. ObjectWorld \in ObjectWorlds /\ ObjectWorld' \in ObjectWorlds
  BY <1>1, <1>4, ObjectWorldIs DEF ObjectWorld, ObjectWorlds, ObjectIInv, ObjectTyped
<1>6. ObjectGrows(ObjectWorld, ObjectWorld')
  BY <1>1, <1>4, ObjectWorldIs, ObjectWorldWillBe DEF ObjectGrows, ObjectIInv, ObjectTyped
<1>7. ObjectGoes(r, ObjectWorld')
  <2> HIDE DEF r
  <2> QED BY <1>2, <1>5, <1>6, ObjectWaits
<1>8. p \in ObjectRows /\ ObjectGoes(p, ObjectWorld') /\ p.got = None
  <2>1. /\ ObjectWorld'.payload[r.todo[1].of] # None /\ r.got <= ObjectWorld'.newest[r.todo[1].of]
        /\ r.todo[1].do # "dirty"
    BY <1>1, <1>2, <1>4, ObjectWorldWillBe DEF ObjectReads
  <2>2. p.got = None
    BY <1>2 DEF ObjectRows
  <2>3. p = [r EXCEPT !.todo = Tail(@), !.got = None] /\ r.got # None
    BY <1>1
  <2> HIDE DEF p, r
  <2> QED BY <1>2, <1>5, <1>7, <2>1, <2>2, <2>3, ObjectAdvances, Zenon
<1> HIDE DEF p
<1>9. q \in ObjectRows /\ ObjectGoes(q, ObjectWorld') /\ q.got = None
  <2>1. CASE o \in Rooms
    <3>1. cs \in Seq(Contacts)
      BY <2>1, MembersAreContacts
    <3>2. q = [p EXCEPT !.todo = TryAll(cs) \o @, !.about = @ \cup {cs[i] : i \in DOMAIN cs}]
      BY <2>1
    <3>3. q.got = None
      BY <1>8, <3>2 DEF ObjectRows
    <3> HIDE DEF q, cs
    <3> QED BY <1>5, <1>8, <3>1, <3>2, <3>3, ObjectGoesOn
  <2>2. CASE o \notin Rooms
    BY <1>8, <2>2
  <2> QED BY <2>1, <2>2
<1> HIDE DEF q, cs
<1>10. ObjectMoves(t, q) /\ \A s \in Tasks : tasks'[s] = IF s = t THEN q ELSE tasks[s]
  BY <1>2, <1>3 DEF ObjectMoves
<1>11. ObjectTyped'
  <2>1. tasks' \in [Tasks -> ObjectRows]
    BY <1>2, <1>3, <1>9
  <2> QED BY <1>1, <1>4, <2>1 DEF ObjectIInv, ObjectTyped
<1>12. \A s \in Tasks : ObjectGoes(tasks'[s], ObjectWorld')
  BY <1>6, <1>9, <1>10, <1>11, ObjectGoesFurther
<1>13. ASSUME NEW x \in Objects \ crossed'
       PROVE  ObjectInTurn(x)'
  <2>1. ObjectInTurn(x)
    BY <1>1 DEF ObjectIInv
  <2>2. \A s \in Tasks : ObjectAwaits(s, x)' => s # t /\ ObjectAwaits(s, x) /\ tasks'[s].got = tasks[s].got
    BY <1>9, <1>10 DEF ObjectAwaits
  <2>3. CASE x # o
    BY <1>1, <1>4, <2>1, <2>2, <2>3 DEF ObjectInTurn
  <2>4. CASE x = o
    <3>1. ObjectAwaits(t, x)
      BY <1>1, <2>4 DEF ObjectAwaits
    <3>2. \A s \in Tasks : ~ObjectAwaits(s, x)'
      BY <2>1, <2>2, <2>4, <3>1 DEF ObjectInTurn
    <3>3. newest[x] <= r.got /\ r.got <= server[x] /\ (cached[x] = None \/ r.got <= cached[x])
      BY <2>1, <2>4, <3>1 DEF ObjectInTurn
    <3>4. payload'[x] = r.got /\ newest'[x] = r.got
      BY <1>4, <2>4, <3>3
    <3> QED BY <1>1, <2>4, <3>2, <3>3, <3>4 DEF ObjectInTurn
  <2> QED BY <2>3, <2>4
<1> QED BY <1>11, <1>12, <1>13 DEF ObjectIInv

LEMMA ObjectStepKeepsIInv ==
  ASSUME ObjectIInv, [Next]_vars
  PROVE  ObjectIInv'
<1>1. CASE Call \/ PuppetEvent \/ RoomChanges
  BY <1>1, ObjectStartKeepsIInv
<1>2. CASE ServerChanges
  BY <1>2, ObjectServerKeepsIInv
<1>3. CASE PuppetDirty
  BY <1>3, ObjectDirtyKeepsIInv
<1>4. ASSUME NEW t \in Tasks, Proceeds(t) \/ Fails(t)
      PROVE  ObjectIInv'
  BY <1>4, ObjectFindReadyKeepsIInv, ObjectFetchKeepsIInv, ObjectApplyKeepsIInv, ObjectMarkDirtyKeepsIInv,
     ObjectSetRemoteKeepsIInv, ObjectFailsKeepsIInv DEF Proceeds
<1>5. CASE UNCHANGED vars
  BY <1>5 DEF vars, ObjectIInv, ObjectTyped, ObjectWorld, ObjectInTurn, ObjectAwaits
<1> QED BY <1>1, <1>2, <1>3, <1>4, <1>5 DEF Next

\* A program that tells has nothing left to read.
LEMMA ObjectsAreSound == ObjectIInv => ObjectsAreCurrent
<1> USE ObjectNone
<1> SUFFICES ASSUME ObjectIInv PROVE ObjectsAreCurrent
  OBVIOUS
<1>1. ASSUME NEW t \in Tasks, At(t, {"tell"})
      PROVE  /\ \A o \in Objects : newest[o] >= tasks[t].needs[o]
             /\ \A o \in tasks[t].about \ tasks[t].failed : Ready(o)
  <2> DEFINE r == tasks[t]
  <2>1. /\ r \in ObjectRows /\ ObjectGoes(r, ObjectWorld) /\ r.todo # <<>> /\ r.todo[1].do = "tell"
    <3>1. r.todo # <<>> /\ r.todo[1].do \in {"tell"}
      BY <1>1, ObjectAt
    <3> QED BY <3>1, ObjectAt
  <2>2. r.todo \in Seq(ObjectSteps) /\ DOMAIN r.todo = 1..Len(r.todo) /\ Len(r.todo) \in Nat /\ 1 \in DOMAIN r.todo
    BY <2>1, ObjectTail DEF ObjectRows
  <2> HIDE DEF r
  <2>3. \A i \in DOMAIN r.todo : r.todo[i].do \notin ObjectReads
    <3>1. \A i \in DOMAIN r.todo : 1 < i => r.todo[i].do \notin ObjectReads
      BY <2>1, <2>2 DEF ObjectGoes, ObjectRuns, ObjectTellsLast
    <3> QED BY <2>1, <2>2, <3>1 DEF ObjectReads
  <2>4. ASSUME NEW o \in r.about \ r.failed
        PROVE  payload[o] # None
    BY <2>1, <2>3, ObjectWorldIs DEF ObjectGoes, ObjectNames
  <2>5. ASSUME NEW o \in Objects
        PROVE  newest[o] >= r.needs[o]
    <3>1. \A i \in DOMAIN r.todo : r.todo[i] # Read(o)
      BY <2>3, ObjectDoes DEF ObjectReads
    <3>2. ~ObjectSyncs(r.todo, o, 1)
      BY <3>1 DEF ObjectSyncs
    <3>3. r.needs[o] <= ObjectWorld.newest[o]
      BY <2>1, <3>1, <3>2 DEF ObjectGoes, ObjectNeeds
    <3> QED BY <2>1, <3>3, ObjectWorldIs DEF ObjectIInv, ObjectTyped, ObjectRows
  <2> QED BY <2>4, <2>5 DEF Ready, r
<1>2. SyncedIsFresh /\ ToldIsReady
  BY <1>1 DEF SyncedIsFresh, ToldIsReady
<1>3. SetbacksAreCrossings
  <2>1. \A o \in Objects \ crossed : payload[o] = newest[o] /\ newest[o] \in Nat
    BY DEF ObjectIInv, ObjectInTurn, ObjectTyped
  <2> QED BY <2>1 DEF SetbacksAreCrossings
<1> QED BY <1>2, <1>3 DEF ObjectsAreCurrent

-----------------------------------------------------------------------------
\* A behaviour is of one part: the others stay as they began.
PartsIInv ==
  /\ ObjectIInv
  /\ part = "io" => IoIInv
  /\ part = "views" => ViewIInv
  /\ part = "drafts" => PanelIInv
  /\ part = "session" => SessionIInv
  /\ part = "web" => PageIInv

LEMMA PartsInitIInv == ClientsInit => PartsIInv
BY ObjectInitIInv, IoInitIInv, ViewInitIInv, PanelInitIInv, SessionInitIInv, PageInitIInv DEF ClientsInit, PartsIInv

LEMMA PartsStepKeepsIInv == PartsIInv /\ [ClientsNext]_all => PartsIInv'
<1> SUFFICES ASSUME PartsIInv, [ClientsNext]_all PROVE PartsIInv'
  OBVIOUS
<1>1. part' = part /\ ObjectIInv'
  <2>1. [Next]_vars
    BY DEF ClientsNext, all, vars
  <2>2. part' = part
    BY DEF ClientsNext, all
  <2> QED BY <2>1, <2>2, ObjectStepKeepsIInv DEF PartsIInv
<1>2. CASE part = "io"
  <2>1. [Client!Next]_(Client!vars)
    BY <1>2 DEF ClientsNext, all, clientVars, Client!vars
  <2> QED BY <1>1, <1>2, <2>1, IoStepKeepsIInv DEF PartsIInv
<1>3. CASE part = "views"
  <2>1. [Views!Next]_(Views!vars)
    BY <1>3 DEF ClientsNext, all, viewVars, Views!vars, Views!views, Views!modes, Views!files
  <2> QED BY <1>1, <1>3, <2>1, ViewStepKeepsIInv DEF PartsIInv
<1>4. CASE part = "drafts"
  <2>1. [Panel!Next]_(Panel!vars)
    BY <1>4 DEF ClientsNext, all, panelVars, Panel!vars, Panel!server, Panel!client, Panel!history
  <2> QED BY <1>1, <1>4, <2>1, PanelStepKeepsIInv DEF PartsIInv
<1>5. CASE part = "session"
  <2>1. [Fields!Next]_(Fields!vars)
    BY <1>5 DEF ClientsNext, all, fieldVars, Fields!vars, Fields!loaded, Fields!saved, Fields!session
  <2> QED BY <1>1, <1>5, <2>1, SessionStepKeepsIInv DEF PartsIInv
<1>6. CASE part = "web"
  <2>1. [Page!Next]_(Page!vars)
    BY <1>6 DEF ClientsNext, all, pageVars, Page!vars, Page!server, Page!lists, Page!history
  <2> QED BY <1>1, <1>6, <2>1, PageStepKeepsIInv DEF PartsIInv
<1> QED BY <1>1, <1>2, <1>3, <1>4, <1>5, <1>6 DEF PartsIInv

LEMMA PartsHoldIInv == ClientsSpec => []PartsIInv
BY PartsInitIInv, PartsStepKeepsIInv, PTL DEF ClientsSpec

\* What an event or a result names was read, and what it is about was held as it was when
\* it began, or newer; an object falls back only where two of its reads crossed (ready,
\* sync and the handlers of wechaty-mixins and user-modules).
THEOREM ObjectsAreCurrentHolds == ClientsSpec => []ObjectsAreCurrent
<1>1. PartsIInv => ObjectsAreCurrent
  BY ObjectsAreSound DEF PartsIInv
<1> QED BY <1>1, PartsHoldIInv, PTL

\* An active client has a bot, a server and an Io that runs, and one at rest has none, as
\* long as its calls came one at a time and none failed or quit (IoClient.start, stop).
THEOREM ClientIsWholeHolds == ClientsSpec => []ClientIsWhole
<1>1. PartsIInv => ClientIsWhole
  BY IoIInvIsWhole DEF PartsIInv, ClientIsWhole
<1> QED BY <1>1, PartsHoldIInv, PTL

\* The console shows, saves and requests what is meant: of the thread selected, for the
\* user it was loaded for, and under one account (renderThread, saveIdentity,
\* mirachatSessionParams).
THEOREM ConsoleIsTrueHolds == ClientsSpec => []ConsoleIsTrue
<1>1. PartsIInv => ConsoleIsTrue
  BY ViewIInvIsOfThread, SessionIInvIsMeant DEF PartsIInv, ConsoleIsTrue
<1> QED BY <1>1, PartsHoldIInv, PTL

\* The console never offers an older draft than the one awaited, offers the newest one
\* listed of what is selected, and keeps in its queue what was approved (renderApproval,
\* upsertPendingRow, refreshData).
THEOREM DraftsAreOfferedHolds == ClientsSpec => []DraftsAreOffered
<1>1. PartsIInv => DraftsAreOffered
  BY PanelIInvIsOffered DEF PartsIInv, DraftsAreOffered
<1> QED BY <1>1, PartsHoldIInv, PTL

\* A page shows what is of its session, and its buttons act on the draft they are shown
\* with (apps/web-client).
THEOREM PageIsOfSessionHolds == ClientsSpec => []PageIsOfSession
<1>1. PartsIInv => PageIsOfSession
  BY PageIInvIsOfSession DEF PartsIInv, PageIsOfSession
<1> QED BY <1>1, PartsHoldIInv, PTL
=============================================================================
