---------------------------- MODULE MCWechatyIo ----------------------------
(***************************************************************************)
(* WechatyIo and PuppetLifeCycle for TLC: the socket of a bot and its start*)
(* and stop.  The two meet only where the service starts and stops Io,     *)
(* which PuppetLifeCycle takes to end; a behaviour is of the one or of the *)
(* other, and fairness is asked of the one it is of.                       *)
(***************************************************************************)
EXTENDS WechatyIo, TLC

CONSTANTS Callers, MaxStarts, MaxStops, MaxSwitches, MaxTrouble   \* of PuppetLifeCycle

ASSUME TroubleCounts == MaxTrouble \in Nat \ {0}

VARIABLES
  part,    \* "io" or "life"
  service, caller, stopping, memory, inited, puppet, card, told, coming, going, up,
  ready, latest, looking, overlapped, starts, stops, events, trouble

Life == INSTANCE PuppetLifeCycle WITH MaxEvents <- MaxSwitches

lifeVars == <<service, caller, stopping, memory, inited, puppet, card, told, coming, going, up,
              ready, latest, looking, overlapped, starts, stops, events, trouble>>

Of(p, step) == part = p /\ step /\ UNCHANGED part
InIo(step)   == Of("io", step /\ UNCHANGED lifeVars)
InLife(step) == Of("life", step /\ UNCHANGED vars)

all == <<part, vars, lifeVars>>

BotInit == part \in {"io", "life"} /\ Init /\ Life!Init
BotNext == InIo(Next) \/ InLife(Life!Next)

BotSpec ==
  /\ BotInit /\ [][BotNext]_all
  /\ WF_all(InIo(\E s \in DOMAIN sockets : Socket(s)))
  /\ WF_all(InIo(TimerFires))
  /\ \A c \in Callers : WF_all(InLife(Life!CallStep(c)))
  /\ WF_all(InLife(Life!StopStep))

-----------------------------------------------------------------------------
\* What PuppetLifeCycle promises of the service, its puppet and the ready switch.
LifeIsSound == Life!LifeIsSound

\* Starts and stops end, whether the puppet answers or not, and so does a stop of Io
\* while its socket lives.
CallsEnd == Life!CallsEnd /\ StopEnds
=============================================================================
