---------------------------- MODULE ConsoleSession ----------------------------
(***************************************************************************)
(* The fields of the operator's console (apps/ops-console) that say whose  *)
(* data is meant: user, channel, account, the thread and the search text;  *)
(* the default account, which is filled in before a request is made; and   *)
(* what is loaded for the fields: connection, metrics, identity, search    *)
(* hits, and the summary of a thread.                                      *)
(*                                                                         *)
(* Every edit is stored at once, so a page that is loaded anew has the same*)
(* fields.  A request is for the fields as they are when it is made, and   *)
(* its answer is shown whatever they are by then.                          *)
(***************************************************************************)
EXTENDS Naturals

CONSTANTS
  Users, Channels, Threads, Texts,
  Typed, Unset,       \* an account the operator types, and default-account
  DefaultOf,          \* the account that the API knows for a channel, or Unset
  Blank, Tasks, MaxClicks, MaxFaults

VARIABLES
  fields,
  config,     \* state.runtimeConfig is there
  timer,      \* a search is about to start
  task,
  shown,      \* what each view was loaded for
  asked,      \* what it was last asked for
  shared,     \* views that were asked for while a load of them was under way
  profile,    \* of each user, whose identity was last saved
  mistaken,   \* users whose identity was saved from a form that was not theirs, or not there yet
  sent,       \* the channels and accounts of requests since the last edit
  muddled,    \* since then the defaults could not be had, or took the place of what was typed
  clicks, faults

loaded  == <<shown, asked, shared>>
saved   == <<profile, mistaken>>
session == <<sent, muddled>>
vars    == <<fields, config, timer, task, loaded, saved, session, clicks, faults>>

Views    == {"connection", "metrics", "identity", "search", "summary"}
Accounts == {Typed, Unset} \cup {DefaultOf[c] : c \in Channels}
Idle     == [pc |-> "idle", kind |-> "none", key |-> Blank]

\* loadStored
Init ==
  /\ \E u \in Users, c \in Channels, t \in Threads, x \in Texts :
       fields = [user |-> u, channel |-> c, account |-> Unset, thread |-> t, text |-> x]
  /\ config = FALSE /\ timer = FALSE /\ task = [k \in Tasks |-> Idle]
  /\ shown = [v \in Views |-> Blank] /\ asked = shown /\ shared = {}
  /\ profile = [u \in Users |-> u] /\ mistaken = {}
  /\ sent = {} /\ muddled = FALSE /\ clicks = 0 /\ faults = 0

-----------------------------------------------------------------------------
KeyOf(v) == CASE v = "connection" -> <<fields.channel, fields.account>>
              [] v \in {"metrics", "identity"} -> <<fields.user>>
              [] v = "search" -> <<fields.user, fields.text>>
              [] v = "summary" -> <<fields.user, fields.thread>>

Click == clicks < MaxClicks /\ clicks' = clicks + 1
Fault == faults < MaxFaults /\ faults' = faults + 1
Free(k) == task[k].pc = "idle"
Loads(v) == {k \in Tasks : task[k].pc = "loading" /\ task[k].kind = v}

\* A view is asked for; some are empty, or closed, until the answer is there.
Ask(k, v) ==
  /\ task' = [task EXCEPT ![k] = [pc |-> "loading", kind |-> v, key |-> KeyOf(v)]]
  /\ asked' = [asked EXCEPT ![v] = KeyOf(v)]
  /\ shown' = IF v \in {"metrics", "search", "summary"} THEN [shown EXCEPT ![v] = Blank] ELSE shown
  /\ shared' = IF Loads(v) # {} THEN shared \cup {v} ELSE shared

-----------------------------------------------------------------------------
\* persistConnectionFields
Edit ==
  /\ Click /\ \/ \E u \in Users : fields' = [fields EXCEPT !.user = u]
              \/ \E a \in {Typed, Unset} : fields' = [fields EXCEPT !.account = a]
  /\ sent' = {} /\ muddled' = FALSE
  /\ UNCHANGED <<config, timer, task, loaded, saved, faults>>

\* Another thread; what is searched for is searched again.
SelectThread ==
  /\ Click /\ \E t \in Threads : fields' = [fields EXCEPT !.thread = t]
  /\ timer' = TRUE /\ UNCHANGED <<config, task, loaded, saved, session, faults>>

\* scheduleMessageSearch: each change starts the delay anew.
Search ==
  /\ Click /\ \E x \in Texts \cup {Blank} : fields' = [fields EXCEPT !.text = x]
  /\ timer' = TRUE /\ UNCHANGED <<config, task, loaded, saved, session, faults>>

\* runMessageSearch: without a text the hits are hidden.
RunMessageSearch(k) ==
  /\ timer /\ timer' = FALSE
  /\ \/ /\ fields.text # Blank /\ Free(k) /\ Ask(k, "search")
     \/ /\ fields.text = Blank /\ shown' = [shown EXCEPT !["search"] = Blank]
        /\ asked' = [asked EXCEPT !["search"] = Blank] /\ UNCHANGED <<task, shared>>
  /\ UNCHANGED <<fields, config, saved, session, clicks, faults>>

\* A tab of the drawer, or the summary of the thread.
Open(k) ==
  /\ Free(k) /\ Click /\ \E v \in {"metrics", "identity", "summary"} : Ask(k, v)
  /\ UNCHANGED <<fields, config, timer, saved, session, faults>>

\* Hits that come when they are hidden stay hidden.
Answer(k) ==
  /\ task[k].pc = "loading" /\ task' = [task EXCEPT ![k] = Idle]
  /\ shown' = IF task[k].kind = "search" /\ asked["search"] = Blank THEN shown
              ELSE [shown EXCEPT ![task[k].kind] = task[k].key]
  /\ UNCHANGED <<fields, config, timer, asked, shared, saved, session, clicks, faults>>

\* Mutant: what was shown stays when it cannot be loaded anew.
LoadFailsKeeping(k) ==
  /\ task[k].pc = "loading" /\ Fault /\ task' = [task EXCEPT ![k] = Idle]
  /\ UNCHANGED <<fields, config, timer, loaded, saved, session, clicks>>

\* The view is emptied, or shows the error.
LoadFails(k) ==
  /\ task[k].pc = "loading" /\ Fault /\ task' = [task EXCEPT ![k] = Idle]
  /\ shown' = [shown EXCEPT ![task[k].kind] = Blank]
  /\ UNCHANGED <<fields, config, timer, asked, shared, saved, session, clicks>>

\* The form is saved for the user that is in the field.
SaveIdentity ==
  /\ asked["identity"] # Blank /\ Click
  /\ profile' = [profile EXCEPT ![fields.user] =
                   IF shown["identity"] = Blank THEN Blank ELSE shown["identity"][1]]
  /\ mistaken' = IF asked["identity"] # <<fields.user>> \/ Loads("identity") # {}
                    \/ "identity" \in shared
                 THEN mistaken \cup {fields.user} ELSE mistaken
  /\ UNCHANGED <<fields, config, timer, task, loaded, session, faults>>

-----------------------------------------------------------------------------
\* accountIdNeedsDefault
NeedsDefault == fields.account = Unset

Going(kind) ==
  IF kind = "channel" THEN Idle
  ELSE [pc |-> IF kind = "refresh" THEN "listing" ELSE "posting", kind |-> kind, key |-> Blank]
Sends(kind, c, a) == IF kind = "channel" THEN sent ELSE sent \cup {<<c, a>>}

\* mirachatSessionParams: an account that is there is used at once.
Begin(k, kind, f) ==
  IF f.account = Unset
    THEN task' = [task EXCEPT ![k] = [pc |-> "resolving", kind |-> kind, key |-> Blank]]
    ELSE task' = [task EXCEPT ![k] = Going(kind)]

Sent(kind, f) ==
  IF f.account = Unset THEN UNCHANGED sent ELSE sent' = Sends(kind, f.channel, f.account)

\* Refresh, or save and reconnect; and the replies to the messages that wait.
RefreshData(k) ==
  /\ Free(k) /\ Click /\ Begin(k, "refresh", fields) /\ Sent("refresh", fields)
  /\ UNCHANGED <<fields, config, timer, loaded, saved, muddled, faults>>

ProcessPending(k) ==
  /\ Free(k) /\ Click /\ Begin(k, "pending", fields) /\ Sent("pending", fields)
  /\ UNCHANGED <<fields, config, timer, loaded, saved, muddled, faults>>

\* Another channel; its default account is filled in where none is set.
ChangeChannel(k) ==
  /\ Free(k) /\ Click /\ \E c \in Channels : fields' = [fields EXCEPT !.channel = c]
  /\ Begin(k, "channel", fields') /\ sent' = {} /\ muddled' = FALSE
  /\ UNCHANGED <<config, timer, loaded, saved, faults>>

\* Mutant: the request goes out under the account that was in the field before.
ResolvedLate(k) ==
  /\ task[k].pc = "resolving"
  /\ \/ config' = TRUE /\ UNCHANGED faults
     \/ ~config /\ Fault /\ UNCHANGED config
  /\ LET d == DefaultOf[fields.channel]
         a == IF config' /\ d # Unset THEN d ELSE fields.account
     IN  /\ fields' = [fields EXCEPT !.account = a]
         /\ sent' = Sends(task[k].kind, fields.channel, fields.account)
         /\ muddled' = (muddled \/ ~config' \/ (~NeedsDefault /\ a # fields.account))
  /\ task' = [task EXCEPT ![k] = Going(task[k].kind)]
  /\ UNCHANGED <<timer, loaded, saved, clicks>>

\* The configuration is there, or cannot be had; the default account of the channel then
\* selected takes the place of what is in the field by now.
Resolved(k) ==
  /\ task[k].pc = "resolving"
  /\ \/ config' = TRUE /\ UNCHANGED faults
     \/ ~config /\ Fault /\ UNCHANGED config
  /\ LET d == DefaultOf[fields.channel]
         a == IF config' /\ d # Unset THEN d ELSE fields.account
     IN  /\ fields' = [fields EXCEPT !.account = a]
         /\ sent' = Sends(task[k].kind, fields.channel, a)
         /\ muddled' = (muddled \/ ~config' \/ (~NeedsDefault /\ a # fields.account))
  /\ task' = [task EXCEPT ![k] = Going(task[k].kind)]
  /\ UNCHANGED <<timer, loaded, saved, clicks>>

\* refreshData goes on to the connection of what is in the fields by now.
Listed(k) ==
  /\ task[k].pc = "listing" /\ Ask(k, "connection")
  /\ UNCHANGED <<fields, config, timer, saved, session, clicks, faults>>

Processed(k) ==
  /\ task[k].pc = "posting" /\ Begin(k, "refresh", fields) /\ Sent("refresh", fields)
  /\ UNCHANGED <<fields, config, timer, loaded, saved, muddled, clicks, faults>>

ProcessFails(k) ==
  /\ task[k].pc = "posting" /\ Fault /\ task' = [task EXCEPT ![k] = Idle]
  /\ UNCHANGED <<fields, config, timer, loaded, saved, session, clicks>>

-----------------------------------------------------------------------------
Next ==
  \/ Edit \/ SelectThread \/ Search \/ SaveIdentity
  \/ \E k \in Tasks :
       \/ RunMessageSearch(k) \/ Open(k) \/ Answer(k) \/ LoadFails(k)
       \/ RefreshData(k) \/ ProcessPending(k) \/ ChangeChannel(k) \/ Resolved(k)
       \/ Listed(k) \/ Processed(k) \/ ProcessFails(k)

Spec == Init /\ [][Next]_vars

-----------------------------------------------------------------------------
\* What a view shows is what it was last asked for, or nothing, once no load of it is under
\* way, unless two loads of it have met.
ViewsAreOfLastAsk ==
  \A v \in Views \ shared : Loads(v) = {} => shown[v] \in {asked[v], Blank}

\* A user gets another's identity only if it was saved for another user than it was loaded
\* for, or before it was there; and an empty one otherwise only if a load failed.
IdentityIsOfUser ==
  \A u \in Users \ mistaken : profile[u] # u => profile[u] = Blank /\ faults > 0

\* "inbound rows and draft queries use the same account_id": between edits all requests of
\* a channel are made under one account, unless the defaults could not be had once, or came
\* when another account had been typed.
OneAccount ==
  ~muddled => \A x \in sent : \A y \in sent : x[1] = y[1] => x[2] = y[2]

FieldsAreMeant == ViewsAreOfLastAsk /\ IdentityIsOfUser /\ OneAccount
=============================================================================
