---------------------------- MODULE PuppetLifeCycle ----------------------------
(***************************************************************************)
(* Start and stop of a Wechaty bot (src/wechaty, src/wechaty-mixins) and   *)
(* its ready switch.  start runs the init of every mixin once, which loads *)
(* the memory card and resolves the puppet, starts Io if there is a token  *)
(* and gives the puppet 15 seconds to start; stop gives it 15 seconds to   *)
(* stop.  A puppet that takes longer goes on by itself.                    *)
(*                                                                         *)
(* Calls may overlap: serviceCtlMixin of state-switch (external) joins     *)
(* starts and lets a start and a stop wait for each other, but init runs   *)
(* before it.  Io.start and Io.stop are taken to end; see WechatyIo.       *)
(***************************************************************************)
EXTENDS Naturals, FiniteSets

CONSTANTS
  Callers,       \* who calls start
  MaxStarts, MaxStops, MaxEvents, MaxTrouble

VARIABLES
  service,    \* the state of serviceCtlMixin
  caller,     \* how far each call of start is
  stopping,   \* how far the call of stop is
  memory,     \* none, loading, loaded
  inited,     \* __puppetMixinInited
  puppet,     \* __puppet is set, and its events are listened to
  card,       \* the state of the memory when the puppet got it
  told,       \* the puppet was told to start since the service last was
  coming, going, up,   \* a pending puppet.start, a pending puppet.stop, the puppet itself
  ready,      \* the ready switch
  latest,     \* what happened to it last
  looking,    \* handlers of login and logout events that look up their contact
  overlapped, \* two calls were in init at a time
  starts, stops, events, trouble

serviceVars == <<service, caller, stopping>>
initVars    == <<memory, inited, puppet, card, overlapped>>
puppetVars  == <<told, coming, going, up>>
switchVars  == <<ready, latest, looking, events>>
counters    == <<starts, stops, trouble>>

vars == <<serviceVars, initVars, puppetVars, switchVars, counters>>

Init ==
  /\ service = "inactive" /\ caller = [c \in Callers |-> "idle"] /\ stopping = "no"
  /\ memory = "none" /\ inited = FALSE /\ puppet = FALSE /\ card = "none"
  /\ told = FALSE /\ coming = FALSE /\ going = FALSE /\ up = FALSE
  /\ ready = FALSE /\ latest = "none" /\ looking = {} /\ overlapped = FALSE
  /\ starts = 0 /\ stops = 0 /\ events = 0 /\ trouble = 0

Trouble == trouble < MaxTrouble /\ trouble' = trouble + 1
Goes(c, phase) == caller' = [caller EXCEPT ![c] = phase]

-----------------------------------------------------------------------------
\* init, which is outside of the service control.
InInit == {"memory", "mixins", "resolving"}

\* Wechaty.start and the init of the skeleton: the card is set before it is loaded.
Begin(c) ==
  /\ caller[c] = "idle" /\ starts < MaxStarts /\ starts' = starts + 1
  /\ IF memory = "none"
     THEN memory' = "loading" /\ Goes(c, "memory")
     ELSE UNCHANGED memory /\ Goes(c, "mixins")
  /\ overlapped' = (overlapped \/ \E d \in Callers : caller[d] \in InInit)
  /\ UNCHANGED <<service, stopping, inited, puppet, card, puppetVars, switchVars, stops, trouble>>

\* load has ended; that it failed is taken for having been loaded before.
MemoryLoads(c) ==
  /\ caller[c] = "memory"
  /\ memory' = "loaded" /\ Goes(c, "mixins")
  /\ UNCHANGED <<service, stopping, inited, puppet, card, overlapped, puppetVars, switchVars, counters>>

\* The init of the puppet mixin: its flag is set before the puppet is resolved.
InitPuppet(c) ==
  /\ caller[c] = "mixins"
  /\ IF inited THEN Goes(c, "control") ELSE Goes(c, "resolving")
  /\ inited' = TRUE
  /\ UNCHANGED <<service, stopping, memory, puppet, card, overlapped, puppetVars, switchVars, counters>>

PuppetResolves(c) ==
  /\ caller[c] = "resolving"
  /\ puppet' = TRUE /\ card' = memory
  /\ Goes(c, "control")
  /\ UNCHANGED <<service, stopping, memory, inited, overlapped, puppetVars, switchVars, counters>>

\* init throws, and with it start.
ResolveFails(c) ==
  /\ caller[c] = "resolving" /\ Trouble
  /\ Goes(c, "idle")
  /\ UNCHANGED <<service, stopping, initVars, puppetVars, switchVars, starts, stops>>

-----------------------------------------------------------------------------
\* serviceCtlMixin.start: the call joins a start or waits for a stop, 15 s at most.
Control(c) ==
  /\ caller[c] = "control"
  /\ \/ service = "inactive" /\ service' = "starting" /\ told' = FALSE
        /\ Goes(c, "io") /\ UNCHANGED trouble
     \/ service = "stopping" /\ Trouble /\ service' = "starting" /\ told' = FALSE
        /\ Goes(c, "io")
     \/ service \in {"starting", "active"} /\ Goes(c, "joined")
        /\ UNCHANGED <<service, told, trouble>>
  /\ UNCHANGED <<stopping, initVars, coming, going, up, switchVars, starts, stops>>

Joined(c) ==
  /\ caller[c] = "joined" /\ service = "active"
  /\ Goes(c, "idle")
  /\ UNCHANGED <<service, stopping, initVars, puppetVars, switchVars, counters>>

\* Mutant: the switch survives a restart.
StartPuppetReady(c) ==
  /\ caller[c] = "io"
  /\ latest' = "start" /\ UNCHANGED ready
  /\ IF puppet
     THEN coming' = TRUE /\ told' = TRUE /\ Goes(c, "puppet")
     ELSE UNCHANGED <<coming, told>> /\ Goes(c, "onStart")
  /\ UNCHANGED <<service, stopping, initVars, going, up, looking, events, counters>>

\* Io has started; the switch is reset, and puppet.start is called, if there is a
\* puppet: that there is none is emitted as an error.
StartPuppet(c) ==
  /\ caller[c] = "io"
  /\ ready' = FALSE /\ latest' = "start"
  /\ IF puppet
     THEN coming' = TRUE /\ told' = TRUE /\ Goes(c, "puppet")
     ELSE UNCHANGED <<coming, told>> /\ Goes(c, "onStart")
  /\ UNCHANGED <<service, stopping, initVars, going, up, looking, events, counters>>

\* stop of the mixins: the puppet first, if there is one.
StopPuppet ==
  /\ service' = "stopping"
  /\ going' = (going \/ puppet)
  /\ stopping' = IF puppet THEN "puppet" ELSE "io"

\* Io.start throws: the service control emits the error and stops.
IoFails(c) ==
  /\ caller[c] = "io" /\ Trouble
  /\ Goes(c, "idle")
  /\ IF stopping \in {"no", "waits"} THEN StopPuppet ELSE UNCHANGED <<service, going, stopping>>
  /\ UNCHANGED <<initVars, told, coming, up, switchVars, starts, stops>>

\* Who awaits puppet.start goes on.
Awaited(d) == caller' = [c \in Callers |-> IF caller[c] = "puppet" THEN d ELSE caller[c]]

PuppetComesUp ==
  /\ coming /\ coming' = FALSE /\ up' = TRUE
  /\ Awaited("onStart")
  /\ UNCHANGED <<service, stopping, initVars, told, going, switchVars, counters>>

PuppetStartFails ==
  /\ coming /\ Trouble /\ coming' = FALSE
  /\ Awaited("onStart")
  /\ UNCHANGED <<service, stopping, initVars, told, going, up, switchVars, starts, stops>>

\* Mutant: start waits for the puppet however long it takes.
StartIsPatient(c) ==
  /\ caller[c] = "puppet" /\ trouble < MaxTrouble /\ ~coming
  /\ Goes(c, "onStart")
  /\ UNCHANGED <<service, stopping, initVars, puppetVars, switchVars, counters>>

\* 15 seconds are over: only logged.  The puppet goes on.
StartTimesOut(c) ==
  /\ caller[c] = "puppet"
  /\ Goes(c, "onStart")
  /\ trouble' = IF trouble < MaxTrouble THEN trouble + 1 ELSE trouble
  /\ UNCHANGED <<service, stopping, initVars, puppetVars, switchVars, starts, stops>>

OnStart(c) ==
  /\ caller[c] = "onStart"
  /\ service' = "active" /\ Goes(c, "idle")
  /\ UNCHANGED <<stopping, initVars, puppetVars, switchVars, counters>>

-----------------------------------------------------------------------------
\* serviceCtlMixin.stop: it waits for a start, 15 s at most.  A stop of what is
\* inactive or stopping does nothing but wait.
Stop ==
  /\ stopping = "no" /\ stops < MaxStops /\ stops' = stops + 1
  /\ \/ service = "starting" /\ stopping' = "waits" /\ UNCHANGED <<service, going>>
     \/ service = "active" /\ StopPuppet
  /\ UNCHANGED <<caller, initVars, told, coming, up, switchVars, starts, trouble>>

StopGoesOn ==
  /\ stopping = "waits"
  /\ \/ service = "active" /\ UNCHANGED trouble
     \/ service = "starting" /\ Trouble
  /\ StopPuppet
  /\ UNCHANGED <<caller, initVars, told, coming, up, switchVars, starts, stops>>

StopAnswered == stopping' = IF stopping = "puppet" THEN "io" ELSE stopping

PuppetGoesDown ==
  /\ going /\ going' = FALSE /\ up' = FALSE
  /\ StopAnswered
  /\ UNCHANGED <<service, caller, initVars, told, coming, switchVars, counters>>

PuppetStopFails ==
  /\ going /\ Trouble /\ going' = FALSE
  /\ StopAnswered
  /\ UNCHANGED <<service, caller, initVars, told, coming, up, switchVars, starts, stops>>

\* 15 seconds are over: the error is emitted.
StopTimesOut ==
  /\ stopping = "puppet"
  /\ stopping' = "io"
  /\ trouble' = IF trouble < MaxTrouble THEN trouble + 1 ELSE trouble
  /\ UNCHANGED <<service, caller, initVars, puppetVars, switchVars, starts, stops>>

\* Io has stopped.
IoStops ==
  /\ stopping = "io"
  /\ stopping' = "no" /\ service' = "inactive"
  /\ UNCHANGED <<caller, initVars, puppetVars, switchVars, counters>>

-----------------------------------------------------------------------------
\* Events of the puppet, which come as soon as there are listeners.
Comes == puppet /\ events < MaxEvents /\ events' = events + 1

ReadyEvent ==
  /\ Comes /\ ready' = TRUE /\ latest' = "ready"
  /\ UNCHANGED <<serviceVars, initVars, puppetVars, looking, counters>>

ScanEvent ==
  /\ Comes /\ ready' = FALSE /\ latest' = "scan"
  /\ UNCHANGED <<serviceVars, initVars, puppetVars, looking, counters>>

LoginEvent ==
  /\ Comes /\ looking' = looking \cup {[n |-> events', event |-> "login"]}
  /\ UNCHANGED <<serviceVars, initVars, puppetVars, ready, latest, counters>>

\* Mutant: the switch is set when the contact was found.
LogoutEventLate ==
  /\ Comes /\ latest' = "logout"
  /\ looking' = looking \cup {[n |-> events', event |-> "logout"]}
  /\ UNCHANGED <<serviceVars, initVars, puppetVars, ready, counters>>

\* The switch first; the event is emitted when its contact was found.
LogoutEvent ==
  /\ Comes /\ ready' = FALSE /\ latest' = "logout"
  /\ looking' = looking \cup {[n |-> events', event |-> "logout"]}
  /\ UNCHANGED <<serviceVars, initVars, puppetVars, counters>>

\* The contact is found, and the event emitted, or it is not.
Looked(h) ==
  /\ looking' = looking \ {h}
  /\ UNCHANGED <<serviceVars, initVars, puppetVars, ready, latest, events, counters>>

-----------------------------------------------------------------------------
InitStep(c)  == MemoryLoads(c) \/ InitPuppet(c) \/ PuppetResolves(c)
StartStep(c) == Control(c) \/ Joined(c) \/ StartPuppet(c) \/ StartTimesOut(c) \/ OnStart(c)
CallStep(c)  == InitStep(c) \/ StartStep(c)
StopStep     == StopGoesOn \/ StopTimesOut \/ IoStops

PuppetAnswers == PuppetComesUp \/ PuppetStartFails \/ PuppetGoesDown \/ PuppetStopFails
PuppetEvents  == ReadyEvent \/ ScanEvent \/ LoginEvent \/ LogoutEvent

Next ==
  \/ \E c \in Callers : Begin(c) \/ InitStep(c) \/ ResolveFails(c) \/ StartStep(c) \/ IoFails(c)
  \/ Stop \/ StopStep \/ PuppetAnswers \/ PuppetEvents
  \/ \E h \in looking : Looked(h)

Spec == Init /\ [][Next]_vars

\* Timers fire, Io and the memory card answer, the puppet is resolved or not;
\* whether a puppet ever answers is left open.
Fairness ==
  /\ \A c \in Callers : WF_vars(CallStep(c))
  /\ WF_vars(StopStep)

FairSpec == Spec /\ Fairness

-----------------------------------------------------------------------------
Phases == InInit \cup {"idle", "control", "joined", "io", "puppet", "onStart"}

\* The type of every variable.
TypeOK ==
  /\ service \in {"inactive", "starting", "active", "stopping"}
  /\ caller \in [Callers -> Phases] /\ stopping \in {"no", "waits", "puppet", "io"}
  /\ memory \in {"none", "loading", "loaded"} /\ card \in {"none", "loading", "loaded"}
  /\ {inited, puppet, told, coming, going, up, ready, overlapped} \subseteq BOOLEAN
  /\ latest \in {"none", "start", "ready", "scan", "logout"}
  /\ looking \subseteq [n : 1..MaxEvents, event : {"login", "logout"}]
  /\ starts \in 0..MaxStarts /\ stops \in 0..MaxStops
  /\ events \in 0..MaxEvents /\ trouble \in 0..MaxTrouble

\* A service that is active has told its puppet to start, and gave it a memory that
\* was loaded, unless two calls met in init or something failed.
ActiveHasPuppet ==
  service = "active" /\ ~overlapped /\ trouble = 0 => told /\ card = "loaded"

\* A service that is stopped has no puppet running or about to, unless a puppet took
\* too long or failed.
StoppedIsDown ==
  service = "inactive" /\ trouble = 0 => ~up /\ ~coming /\ ~going

\* However long handlers look for their contacts, the switch shows the latest of the
\* puppet's events, and a restart resets it.
ReadyIsCurrent == ready <=> latest = "ready"

LifeIsSound == ActiveHasPuppet /\ StoppedIsDown /\ ReadyIsCurrent

\* A stop ends although the puppet may never answer, and so does a start, unless the
\* start it joined came to nothing.
CallsEnd ==
  /\ stopping \in {"puppet", "io"} ~> stopping = "no"
  /\ \A c \in Callers : caller[c] \in InInit \cup {"io", "puppet"} ~> caller[c] \in {"idle", "joined", "control"}
=============================================================================
