---------------------------- MODULE ConsoleViews ----------------------------
(***************************************************************************)
(* What the operator's console (apps/ops-console) shows of the thread that *)
(* is selected: its messages, its memory, search hits and the form of its  *)
(* relationship, each loaded by a request whose answer is shown whenever it*)
(* comes; the delegation mode of each thread, which is set at once and put *)
(* back when the request fails; and files that are uploaded for a thread.  *)
(*                                                                         *)
(* Nothing compares an answer with what is selected by then.  What a view  *)
(* shows is modelled by the thread it was loaded for.                      *)
(***************************************************************************)
EXTENDS Naturals, FiniteSets

CONSTANTS
  Threads, Nobody,      \* Nobody: no thread is selected
  Files,
  MaxClicks, MaxFaults

VARIABLES
  selected,
  loads,       \* requests under way for a view, with the thread they are for
  shown,       \* whose data each view shows
  drawer,      \* the relationship form: "closed", "loading" or "open"
  profile,     \* of each contact, whose data was last saved as its relationship
  strayed,     \* views whose thread changed, or was asked for twice, during a load
  mode, kept,  \* the mode of each thread in the browser, and at the API
  cycles,      \* changes of mode under way
  doubtful,    \* threads whose modes a failure may have parted
  upload,      \* what became of each file
  field, meta, \* the thread and the file of the upload form
  mixed,       \* two uploads have been under way
  clicks, faults

views == <<loads, shown, drawer, profile, strayed>>
modes == <<mode, kept, cycles, doubtful>>
files == <<upload, field, meta, mixed>>
vars  == <<selected, views, modes, files, clicks, faults>>

Views  == {"messages", "memory", "hits", "relationship"}
Blank  == "blank"
After(m) == CASE m = "assist" -> "approve" [] m = "approve" -> "auto" [] m = "auto" -> "assist"
Unsent == [pc |-> "none", wanted |-> Nobody, file |-> Blank, thread |-> Nobody]

Init ==
  /\ selected = Nobody /\ loads = {} /\ shown = [v \in Views |-> Nobody]
  /\ drawer = "closed" /\ profile = [t \in Threads |-> t] /\ strayed = {}
  /\ mode = [t \in Threads |-> "approve"] /\ kept = mode /\ cycles = {} /\ doubtful = {}
  /\ upload = [f \in Files |-> Unsent] /\ field = Nobody /\ meta = Blank /\ mixed = FALSE
  /\ clicks = 0 /\ faults = 0

Click == clicks < MaxClicks /\ clicks' = clicks + 1
Fault == faults < MaxFaults /\ faults' = faults + 1

\* A request for a view, numbered by the click that made it.
Load(vs) ==
  /\ loads' = loads \cup {[view |-> v, of |-> selected', n |-> clicks] : v \in vs}
  /\ strayed' = strayed \cup {l.view : l \in {l \in loads : l.view \in vs}}

-----------------------------------------------------------------------------
\* selectThread: the messages are loaded, and what was searched for is searched again.
SelectThread(t) ==
  /\ Click /\ drawer = "closed" /\ selected' = t /\ Load({"messages", "hits"})
  /\ UNCHANGED <<shown, drawer, profile, modes, files, faults>>

\* clearThreadSelection: an empty conversation, whatever is under way.
ClearThreadSelection ==
  /\ Click /\ drawer = "closed" /\ selected' = Nobody
  /\ shown' = [shown EXCEPT !["messages"] = Nobody]
  /\ strayed' = strayed \cup ({"messages", "hits"} \cap {l.view : l \in loads})
  /\ UNCHANGED <<loads, drawer, profile, modes, files, faults>>

\* refreshData ends with the messages of what is selected by then.
Refresh ==
  /\ Click /\ selected # Nobody /\ UNCHANGED selected /\ Load({"messages"})
  /\ UNCHANGED <<shown, drawer, profile, modes, files, faults>>

\* The list of memories of the thread, or of all.
OpenMemory ==
  /\ Click /\ UNCHANGED selected /\ Load({"memory"})
  /\ UNCHANGED <<shown, drawer, profile, modes, files, faults>>

\* The relationship tab: the form is locked until its load has ended.
OpenRelationship ==
  /\ Click /\ drawer = "closed" /\ selected # Nobody /\ UNCHANGED selected
  /\ drawer' = "loading" /\ Load({"relationship"})
  /\ UNCHANGED <<shown, profile, modes, files, faults>>

CloseDrawer ==
  /\ drawer # "closed" /\ drawer' = "closed"
  /\ UNCHANGED <<selected, loads, shown, profile, strayed, modes, files, clicks, faults>>

\* An answer is shown; the end of any load unlocks the form.
Unlocked(l) == IF l.view = "relationship" /\ drawer = "loading" THEN "open" ELSE drawer

Answer(l) ==
  /\ l \in loads /\ loads' = loads \ {l}
  /\ shown' = [shown EXCEPT ![l.view] = l.of] /\ drawer' = Unlocked(l)
  /\ UNCHANGED <<selected, profile, strayed, modes, files, clicks, faults>>

LoadFails(l) ==
  /\ l \in loads /\ loads' = loads \ {l} /\ Fault
  /\ shown' = [shown EXCEPT ![l.view] = Blank] /\ drawer' = Unlocked(l)
  /\ UNCHANGED <<selected, profile, strayed, modes, files, clicks>>

\* Mutant: the form can be saved as soon as it is there.
SaveUnlocked ==
  /\ drawer # "closed" /\ Click
  /\ profile' = [profile EXCEPT ![selected] = shown["relationship"]] /\ drawer' = "closed"
  /\ UNCHANGED <<selected, loads, shown, strayed, modes, files, faults>>

\* Save: what the form shows becomes the relationship of the selected contact.
SaveRelationship ==
  /\ drawer = "open" /\ Click
  /\ profile' = [profile EXCEPT ![selected] = shown["relationship"]] /\ drawer' = "closed"
  /\ UNCHANGED <<selected, loads, shown, strayed, modes, files, faults>>

-----------------------------------------------------------------------------
\* cycleMode: the browser has the new mode at once.
CycleMode ==
  /\ Click /\ selected # Nobody
  /\ LET t == selected
     IN  /\ mode' = [mode EXCEPT ![t] = After(@)]
         /\ cycles' = cycles \cup {[of |-> t, from |-> mode[t], to |-> After(mode[t]), n |-> clicks]}
         /\ doubtful' = IF \E c \in cycles : c.of = t THEN doubtful \cup {t} ELSE doubtful
  /\ UNCHANGED <<selected, kept, views, files, faults>>

ModeIsSet(c) ==
  /\ c \in cycles /\ cycles' = cycles \ {c} /\ kept' = [kept EXCEPT ![c.of] = c.to]
  /\ UNCHANGED <<selected, mode, doubtful, views, files, clicks, faults>>

\* The request fails, before or after it was carried out: the thread that is selected
\* now gets the mode that the other one had.
ModeFails(c) ==
  /\ c \in cycles /\ cycles' = cycles \ {c} /\ Fault
  /\ kept' \in {kept, [kept EXCEPT ![c.of] = c.to]}
  /\ mode' = IF selected = Nobody THEN mode ELSE [mode EXCEPT ![selected] = c.from]
  /\ doubtful' = IF kept' = kept /\ selected = c.of THEN doubtful
                 ELSE doubtful \cup ({c.of, selected} \ {Nobody})
  /\ UNCHANGED <<selected, views, files, clicks>>

-----------------------------------------------------------------------------
Uploading == {f \in Files : upload[f].pc \in {"reading", "prepared", "sending"}}

\* A file is chosen, for the thread that is selected or else the one in the form.
Upload(f) ==
  /\ upload[f].pc = "none" /\ Click
  /\ field' = (IF selected # Nobody THEN selected ELSE field) /\ field' # Nobody
  /\ upload' = [upload EXCEPT ![f].pc = "reading", ![f].wanted = field']
  /\ mixed' = (mixed \/ Uploading # {})
  /\ UNCHANGED <<selected, meta, views, modes, faults>>

\* The file has been read.
Prepare(f) ==
  /\ upload[f].pc = "reading" /\ meta' = f /\ upload' = [upload EXCEPT ![f].pc = "prepared"]
  /\ UNCHANGED <<selected, field, mixed, views, modes, clicks, faults>>

\* Half a second later the thread and the file of the form are posted.
Submit(f) ==
  /\ upload[f].pc = "prepared"
  /\ upload' = [upload EXCEPT ![f].pc = "sending", ![f].file = meta, ![f].thread = field]
  /\ UNCHANGED <<selected, field, meta, mixed, views, modes, clicks, faults>>

\* The answer empties the form.
Ingested(f) ==
  /\ upload[f].pc = "sending" /\ meta' = Blank /\ upload' = [upload EXCEPT ![f].pc = "ingested"]
  /\ UNCHANGED <<selected, field, mixed, views, modes, clicks, faults>>

\* A failure leaves it as it is.
IngestFails(f) ==
  /\ upload[f].pc = "sending" /\ Fault /\ upload' = [upload EXCEPT ![f].pc = "failed"]
  /\ UNCHANGED <<selected, field, meta, mixed, views, modes, clicks>>

-----------------------------------------------------------------------------
Next ==
  \/ \E t \in Threads : SelectThread(t)
  \/ ClearThreadSelection \/ Refresh \/ OpenMemory
  \/ OpenRelationship \/ CloseDrawer \/ SaveRelationship
  \/ \E l \in loads : Answer(l) \/ LoadFails(l)
  \/ CycleMode \/ \E c \in cycles : ModeIsSet(c) \/ ModeFails(c)
  \/ \E f \in Files : Upload(f) \/ Prepare(f) \/ Submit(f) \/ Ingested(f) \/ IngestFails(f)

Spec == Init /\ [][Next]_vars

-----------------------------------------------------------------------------
Whose == Threads \cup {Nobody, Blank}

\* The type of every variable.
TypeOK ==
  /\ selected \in Threads \cup {Nobody} /\ shown \in [Views -> Whose]
  /\ \A l \in loads : l.view \in Views /\ l.of \in Whose
  /\ drawer \in {"closed", "loading", "open"} /\ profile \in [Threads -> Whose]
  /\ strayed \subseteq Views /\ doubtful \subseteq Threads
  /\ {mode, kept} \subseteq [Threads -> {"assist", "approve", "auto"}]
  /\ field \in Threads \cup {Nobody} /\ meta \in Files \cup {Blank}
  /\ clicks \in 0..MaxClicks /\ faults \in 0..MaxFaults

\* The messages shown are those of the thread selected, once they are loaded, unless
\* the selection changed, or they were asked for twice, while they were on their way.
MessagesAreOfThread ==
  "messages" \notin strayed /\ (\A l \in loads : l.view # "messages") =>
    shown["messages"] \in {selected, Blank}

\* A contact gets another's relationship only if a load of the form met another one,
\* and an empty one only if a load failed.
SavedIsLoaded ==
  \A t \in Threads : /\ profile[t] \in Threads \ {t} => "relationship" \in strayed
                     /\ profile[t] \notin Threads => faults > 0

\* With no change under way the browser has the mode that is in force, unless a request
\* failed after it was carried out, or while another thread was selected or changed.
ModesAgree ==
  \A t \in Threads \ doubtful : (\A c \in cycles : c.of # t) => mode[t] = kept[t]

\* A file ends up at the thread it was meant for, and its own picture goes with it,
\* unless two uploads ran side by side.
UploadsArrive ==
  \A f \in Files : upload[f].pc \in {"sending", "ingested"} /\ ~mixed =>
    upload[f].thread = upload[f].wanted /\ upload[f].file = f

ViewsAreOfThread == MessagesAreOfThread /\ SavedIsLoaded /\ ModesAgree /\ UploadsArrive
=============================================================================
