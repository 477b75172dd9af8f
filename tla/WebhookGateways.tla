--------------------------- MODULE WebhookGateways ---------------------------
(***************************************************************************)
(* The inbound side of the gateways whose messages come from a service:    *)
(* Telegram by webhook or by polling, WeCom, Twilio and WhatsApp.  A       *)
(* message is posted to POST /mirachat/inbound, which makes the connection *)
(* ONLINE and inserts the message, and how that went is told to the service*)
(* and reported with PATCH /mirachat/connection/auth.                      *)
(*                                                                         *)
(* Nothing on the way knows a message by its id: what the service delivers *)
(* twice is inserted twice.  The services are external; a gateway is one of*)
(* the five kinds for a whole behaviour.                                   *)
(***************************************************************************)
EXTENDS Naturals, FiniteSets

CONSTANTS
  Messages,
  Silent,      \* messages that carry no text, or are the bot's own
  MaxTries,    \* deliveries of a message
  MaxReports, MaxFaults

VARIABLES
  kind,
  request,   \* what the gateway does with each delivery
  stored,    \* how many rows of inbound_messages each message has
  patches,   \* PATCH requests under way, by who awaits them
  status,    \* user_connections.status
  polls,     \* Telegram's long polling: FALSE once it has ended
  crowded,   \* other deliveries, or the first report, were under way when polling ended
  astray,    \* a patch was lost, or met another request that sets the status
  reports, faults

vars == <<kind, request, stored, patches, status, polls, crowded, astray, reports, faults>>

Kinds     == {"webhook", "polling", "wecom", "twilio", "whatsapp"}
Telegram  == {"webhook", "polling"}
Retrying  == {"webhook", "wecom"}    \* services that deliver again what was refused
Reporting == Telegram \cup {"wecom"} \* gateways that report how a post went

Deliveries == Messages \X (1..MaxTries)
Finished   == {"new", "told", "refused"}
Posting    == {"connecting", "storing", "enqueuing"}
UnderWay   == {i \in Deliveries : request[i] \notin Finished}
Tries(m)   == {n \in 1..MaxTries : request[<<m, n>>] # "new"}

Init ==
  /\ kind \in Kinds /\ request = [i \in Deliveries |-> "new"]
  /\ stored = [m \in Messages |-> 0] /\ patches = {} /\ status = "OFFLINE"
  /\ polls = (kind = "polling") /\ crowded = FALSE /\ astray = FALSE
  /\ reports = 0 /\ faults = 0

Fault == faults < MaxFaults /\ faults' = faults + 1
Goes(i, pc) == request' = [request EXCEPT ![i] = pc]

\* patchConnectionAuth; its request and those under way may arrive in any order.
Patch(by, to) ==
  /\ patches' = patches \cup {[by |-> by, to |-> to]}
  /\ astray' = (astray \/ patches # {} \/ \E i \in Deliveries : request[i] = "connecting")

-----------------------------------------------------------------------------
\* The service delivers a message, and again after it was refused.
Deliver(i) ==
  /\ request[i] = "new" /\ (kind = "polling" => polls)
  /\ i[2] > 1 => kind \in Retrying /\ request[<<i[1], i[2] - 1>>] = "refused"
  /\ Goes(i, IF i[1] \in Silent THEN "posted" ELSE "connecting")
  /\ astray' = (astray \/ (patches # {} /\ i[1] \notin Silent))
  /\ UNCHANGED <<kind, stored, patches, status, polls, crowded, reports, faults>>

\* POST /mirachat/inbound: three awaits of the API service.
ApiConnects(i) ==
  /\ request[i] = "connecting" /\ Goes(i, "storing") /\ status' = "ONLINE"
  /\ UNCHANGED <<kind, stored, patches, polls, crowded, astray, reports, faults>>

ApiStores(i) ==
  /\ request[i] = "storing" /\ Goes(i, "enqueuing")
  /\ stored' = [stored EXCEPT ![i[1]] = @ + 1]
  /\ UNCHANGED <<kind, patches, status, polls, crowded, astray, reports, faults>>

ApiEnqueues(i) ==
  /\ request[i] = "enqueuing" /\ Goes(i, "posted")
  /\ UNCHANGED <<kind, stored, patches, status, polls, crowded, astray, reports, faults>>

\* Mutant: a post that failed is made again on the spot.
PostFailsAndRepeats(i) ==
  /\ request[i] \in Posting /\ Fault /\ Goes(i, "connecting")
  /\ UNCHANGED <<kind, stored, patches, status, polls, crowded, astray, reports>>

\* A statement or the enqueue fails, or the answer is lost.
PostFails(i) ==
  /\ request[i] \in Posting /\ Fault /\ Goes(i, "failed")
  /\ UNCHANGED <<kind, stored, patches, status, polls, crowded, astray, reports>>

-----------------------------------------------------------------------------
\* What was posted, or passed over, is reported as ONLINE first.  Twilio's gateway
\* and WhatsApp's report nothing.
ReportGood(i) ==
  /\ request[i] = "posted"
  /\ IF kind \in Reporting THEN Patch(i, "ONLINE") /\ Goes(i, "reporting")
     ELSE Goes(i, "told") /\ UNCHANGED <<patches, astray>>
  /\ UNCHANGED <<kind, stored, status, polls, crowded, reports, faults>>

\* Mutant: the error is reported, and is taken for handled.
ReportBadAndGoOn(i) ==
  /\ request[i] = "failed"
  /\ IF kind \in Reporting THEN Patch(i, "OFFLINE") /\ Goes(i, "reporting")
     ELSE Goes(i, "refused") /\ UNCHANGED <<patches, astray>>
  /\ UNCHANGED <<kind, stored, status, polls, crowded, reports, faults>>

\* An error is reported as OFFLINE.  WhatsApp's gateway logs it.
ReportBad(i) ==
  /\ request[i] = "failed"
  /\ IF kind \in Reporting THEN Patch(i, "OFFLINE") /\ Goes(i, "sulking")
     ELSE Goes(i, "refused") /\ UNCHANGED <<patches, astray>>
  /\ UNCHANGED <<kind, stored, status, polls, crowded, reports, faults>>

Awaited(i) == \E p \in patches : p.by = i

\* 200: the service forgets the message.
Tell(i) ==
  /\ request[i] = "reporting" /\ ~Awaited(i) /\ Goes(i, "told")
  /\ UNCHANGED <<kind, stored, patches, status, polls, crowded, astray, reports, faults>>

\* The middleware throws: WeCom's handler answers 400, the Telegram webhook
\* reports OFFLINE once more before its 500, and polling ends.
Rethrow(i) ==
  /\ request[i] = "sulking" /\ ~Awaited(i)
  /\ CASE kind = "webhook" -> Patch(i, "OFFLINE") /\ Goes(i, "refusing") /\ UNCHANGED <<polls, crowded>>
       [] kind = "polling" -> /\ IF polls THEN Patch(<<"launch", 1>>, "OFFLINE") ELSE UNCHANGED <<patches, astray>>
                              /\ Goes(i, "refused") /\ polls' = FALSE
                              /\ crowded' = (crowded \/ UnderWay # {i} \/ reports = 0)
       [] OTHER -> Goes(i, "refused") /\ UNCHANGED <<patches, astray, polls, crowded>>
  /\ UNCHANGED <<kind, stored, status, reports, faults>>

Refuse(i) ==
  /\ request[i] = "refusing" /\ ~Awaited(i) /\ Goes(i, "refused")
  /\ UNCHANGED <<kind, stored, patches, status, polls, crowded, astray, reports, faults>>

\* What is reported apart from messages: the bot's profile when the process starts
\* or the webhook is registered, WeCom's verification and callbacks that cannot be
\* read, WhatsApp's QR code, readiness and disconnection, and its shutdown.
Reports ==
  CASE kind = "webhook"  -> {"ONLINE", "OFFLINE"}
    [] kind = "polling"  -> IF reports = 0 THEN {"ONLINE", "OFFLINE"} ELSE {}
    [] kind = "wecom"    -> {"ONLINE", "AUTH_REQUIRED", "OFFLINE"}
    [] kind = "whatsapp" -> {"AUTH_REQUIRED", "ONLINE", "OFFLINE"}
    [] OTHER -> {}

Report ==
  /\ reports < MaxReports /\ reports' = reports + 1
  /\ \E to \in Reports : Patch(<<"report", reports>>, to)
  /\ UNCHANGED <<kind, request, stored, status, polls, crowded, faults>>

\* PATCH /mirachat/connection/auth; one that fails is logged.
PatchArrives ==
  /\ \E p \in patches : status' = p.to /\ patches' = patches \ {p}
  /\ UNCHANGED <<kind, request, stored, polls, crowded, astray, reports, faults>>

PatchFails ==
  /\ Fault /\ astray' = TRUE /\ \E p \in patches : patches' = patches \ {p}
  /\ UNCHANGED <<kind, request, stored, status, polls, crowded, reports>>

-----------------------------------------------------------------------------
Handle(i) ==
  \/ ApiConnects(i) \/ ApiStores(i) \/ ApiEnqueues(i)
  \/ ReportGood(i) \/ ReportBad(i) \/ Tell(i) \/ Rethrow(i) \/ Refuse(i)

Next ==
  \/ \E i \in Deliveries : Deliver(i) \/ Handle(i) \/ PostFails(i)
  \/ Report \/ PatchArrives \/ PatchFails

Spec == Init /\ [][Next]_vars

\* Every await ends, and the service delivers again what was refused; as nothing
\* goes in circles, it is enough that one of them goes on as long as one can.
GoesOn   == PatchArrives \/ \E i \in Deliveries : Handle(i) \/ (i[2] > 1 /\ Deliver(i))
Fairness == WF_vars(GoesOn)

-----------------------------------------------------------------------------
Statuses == {"ONLINE", "OFFLINE", "AUTH_REQUIRED"}

\* The type of every variable.
TypeOK ==
  /\ kind \in Kinds /\ reports \in 0..MaxReports /\ faults \in 0..MaxFaults
  /\ request \in [Deliveries -> Finished \cup Posting \cup
                    {"posted", "failed", "reporting", "sulking", "refusing"}]
  /\ stored \in [Messages -> 0..MaxTries] /\ status \in Statuses
  /\ \A p \in patches : p.to \in Statuses
  /\ {polls, crowded, astray} \subseteq BOOLEAN

\* What the service was told is done has been stored, unless there was nothing to store.
ToldIsStored ==
  \A i \in Deliveries : request[i] = "told" /\ i[1] \notin Silent => stored[i[1]] > 0

\* A message has no more rows than it had deliveries, and a second delivery only
\* after the first was refused.
RowsAreDeliveries ==
  \A m \in Messages : /\ stored[m] <= Cardinality(Tries(m))
                      /\ \A n \in Tries(m) \ {1} : request[<<m, n - 1>>] = "refused"

\* A Telegram gateway that polls no more shows as OFFLINE, unless a report went
\* astray, or other updates of the batch or the report of the start were still to come.
EndOfPollingShows ==
  kind = "polling" /\ ~polls /\ patches = {} /\ ~crowded /\ ~astray => status = "OFFLINE"

GatewaysAreTrue == ToldIsStored /\ RowsAreDeliveries /\ EndOfPollingShows

\* What a patient service has delivered gets stored in the end, as long as failures
\* are fewer than the deliveries of a message.
StoredDeliveries ==
  kind \in Retrying => \A m \in Messages \ Silent : Tries(m) # {} => stored[m] > 0
=============================================================================
