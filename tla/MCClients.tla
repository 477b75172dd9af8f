------------------------------- MODULE MCClients -------------------------------
(***************************************************************************)
(* The clients of the system for TLC: the objects of the SDK, the client   *)
(* that runs a bot for the io service, the operator's console, in what it  *)
(* shows, in what it does with drafts and in the fields that say whose data*)
(* is meant, and the web client.  They share no state; a behaviour is of   *)
(* one of them.                                                            *)
(***************************************************************************)
EXTENDS UserObjects, TLC

CONSTANTS
  Callers, MaxCalls, MaxRefusals,                             \* of IoClient
  Threads, Nobody, Files, MaxViewClicks, MaxMishaps,          \* of ConsoleViews
  MaxMessages, MaxPresses, MaxErrors,                         \* of ConsoleDrafts
  Users, Channels, Summarised, Texts, Typed, Unset, DefaultOf,
  Operator, MaxEdits, MaxOutages,                             \* of ConsoleSession
  Chats, OwnerOf, MaxDrafts, MaxTouches, MaxLosses            \* of WebClient

\* What stands for no thread and for nothing shown is neither.
ASSUME NobodyIsNone ==
  /\ Nobody \notin Threads /\ "blank" \notin Threads /\ Nobody # "blank"
  /\ \A u \in Users : <<u>> # Nobody

VARIABLES
  part,    \* "objects", "io", "views", "drafts", "session" or "web"
  state, io, ios, puppetServer, bot, call, leftover, met, calls, refusals,
  selected, loads, shown, drawer, profile, strayed, mode, kept, cycles, doubtful,
  upload, field, meta, mixed, clicks, mishaps,
  status, drafted, chosen, listed, request, panel, pending, sticky, errands, shared, queued,
  missed, presses, errors,
  fields, config, timer, loading, viewed, asked, doubled, identity, mistaken, sent, muddled,
  edits, outages,
  latest, open, session, threads, lists, rows, current, offered, paste, taps, decided, late,
  moved, crowded, touches, losses

Client == INSTANCE IoClient WITH Users <- Callers

Views == INSTANCE ConsoleViews WITH
  MaxClicks <- MaxViewClicks, MaxFaults <- MaxMishaps, faults <- mishaps

Panel == INSTANCE ConsoleDrafts WITH
  MaxClicks <- MaxPresses, MaxFaults <- MaxErrors, selected <- chosen, newest <- listed,
  task <- errands, crossed <- missed, clicks <- presses, faults <- errors

Fields == INSTANCE ConsoleSession WITH
  Threads <- Summarised, Blank <- Nobody, MaxClicks <- MaxEdits, MaxFaults <- MaxOutages,
  task <- loading, shown <- viewed, shared <- doubled, profile <- identity,
  clicks <- edits, faults <- outages

Page == INSTANCE WebClient WITH
  Threads <- Chats, MaxClicks <- MaxTouches, MaxFaults <- MaxLosses,
  newest <- latest, listed <- lists, selected <- current, panel <- offered, task <- taps,
  strayed <- moved, shared <- crowded, clicks <- touches, faults <- losses

clientVars == <<state, io, ios, puppetServer, bot, call, leftover, met, calls, refusals>>
viewVars   == <<selected, loads, shown, drawer, profile, strayed, mode, kept, cycles, doubtful,
                upload, field, meta, mixed, clicks, mishaps>>
panelVars  == <<status, drafted, chosen, listed, request, panel, pending, sticky, errands, shared,
                queued, missed, presses, errors>>
fieldVars  == <<fields, config, timer, loading, viewed, asked, doubled, identity, mistaken, sent,
                muddled, edits, outages>>
pageVars   == <<latest, open, session, threads, lists, rows, current, offered, paste, taps, decided,
                late, moved, crowded, touches, losses>>
all == <<part, vars, clientVars, viewVars, panelVars, fieldVars, pageVars>>

\* A part that is not at play starts in one state.
ClientsInit ==
  /\ part \in {"objects", "io", "views", "drafts", "session", "web"}
  /\ Fields!Init /\ fields.user = Operator
  /\ part # "session" => fields.channel = CHOOSE c \in Channels : TRUE
  /\ Init /\ Client!Init /\ Views!Init /\ Panel!Init /\ Page!Init

ClientsNext ==
  /\ \/ /\ part = "objects" /\ Next
        /\ UNCHANGED <<clientVars, viewVars, panelVars, fieldVars, pageVars>>
     \/ /\ part = "io" /\ Client!Next
        /\ UNCHANGED <<vars, viewVars, panelVars, fieldVars, pageVars>>
     \/ /\ part = "views" /\ Views!Next
        /\ UNCHANGED <<vars, clientVars, panelVars, fieldVars, pageVars>>
     \/ /\ part = "drafts" /\ Panel!Next
        /\ UNCHANGED <<vars, clientVars, viewVars, fieldVars, pageVars>>
     \/ /\ part = "session" /\ Fields!Next
        /\ UNCHANGED <<vars, clientVars, viewVars, panelVars, pageVars>>
     \/ /\ part = "web" /\ Page!Next
        /\ UNCHANGED <<vars, clientVars, viewVars, panelVars, fieldVars>>
  /\ UNCHANGED part

ClientsSpec == ClientsInit /\ [][ClientsNext]_all

\* The values that the run gives to constants: rooms have the bot as their member, one
\* channel has a default account, and one user has two threads.
OnlySelf == [r \in Rooms |-> <<Self>>]
Defaults == [c \in Channels |-> IF c = "twilio" THEN "sid" ELSE Unset]
Owners   == [t \in Chats |-> IF t = "bob1" THEN "bob" ELSE "ann"]

Interchangeable == Permutations(Tasks) \cup Permutations(Threads)

-----------------------------------------------------------------------------
\* What IoClient promises of an active client and of one at rest.
ClientIsWhole == part = "io" => Client!ClientIsWhole

\* What ConsoleViews and ConsoleSession promise of what the console shows and saves.
ConsoleIsTrue ==
  /\ part = "views" => Views!ViewsAreOfThread
  /\ part = "session" => Fields!FieldsAreMeant

\* What ConsoleDrafts promises of the draft that is offered and of the queue.
DraftsAreOffered == part = "drafts" => Panel!DraftsAreOffered

\* What WebClient promises of a page with its session, its lists and its buttons.
PageIsOfSession == part = "web" => Page!PageIsOfSession
=============================================================================
