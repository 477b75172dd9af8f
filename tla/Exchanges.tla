------------------------------- MODULE Exchanges -------------------------------
(***************************************************************************)
(* Two exchanges of the API with somebody else: the envelopes that agents  *)
(* of users send each other (/a2a), and the calls that Twilio places for a *)
(* user (/mirachat/phone).  Both are told by events in delegation_events.  *)
(***************************************************************************)
EXTENDS Naturals, FiniteSets

CONSTANTS
  Users,       \* who proposes and responds
  Envelopes, Calls,
  MaxFaults

VARIABLES
  envelope,    \* a2a_envelopes
  tenantCheck, \* mirachatTenantEnforceEnabled, at this commit always FALSE
  responses,   \* /a2a/respond under way: the row is updated, the tenant not yet looked at
  answered,    \* answers of /a2a/respond: 200 and 403
  call,        \* how far each outbound call is
  placed,      \* calls that Twilio has placed
  log,         \* events
  inserting,   \* their inserts under way
  faults

vars == <<envelope, tenantCheck, responses, answered, call, placed, log, inserting, faults>>

None == [status |-> "none"]
Event(type, of) == [type |-> type, of |-> of]
Inserts(events) == inserting' = inserting \cup events

Init ==
  /\ envelope = [e \in Envelopes |-> None] /\ tenantCheck \in BOOLEAN
  /\ responses = {} /\ answered = {}
  /\ call = [c \in Calls |-> "none"] /\ placed = {}
  /\ log = {} /\ inserting = {} /\ faults = 0

-----------------------------------------------------------------------------
\* POST /a2a/propose, of the user it is proposed by.
Propose(e, from, to) ==
  /\ envelope[e] = None
  /\ envelope' = [envelope EXCEPT ![e] = [status |-> "proposed", from |-> from, to |-> to]]
  /\ Inserts({Event("a2a.proposal", e)})
  /\ UNCHANGED <<tenantCheck, responses, answered, call, placed, log, faults>>

\* Mutant: an envelope is responded to whatever its status.
RespondAgain(e, user, verdict) ==
  /\ envelope[e] # None
  /\ envelope' = [envelope EXCEPT ![e].status = verdict]
  /\ responses' = responses \cup {[of |-> e, by |-> user, verdict |-> verdict]}
  /\ UNCHANGED <<tenantCheck, answered, call, placed, log, inserting, faults>>

\* respondA2aEnvelope: who finds it decided is told 404.
Respond(e, user, verdict) ==
  /\ envelope[e].status = "proposed"
  /\ envelope' = [envelope EXCEPT ![e].status = verdict]
  /\ responses' = responses \cup {[of |-> e, by |-> user, verdict |-> verdict]}
  /\ UNCHANGED <<tenantCheck, answered, call, placed, log, inserting, faults>>

\* Mutant: who responds is not looked at.
AnswerAnyone(r) ==
  /\ r \in responses /\ responses' = responses \ {r}
  /\ answered' = answered \cup {[response |-> r, code |-> 200]}
  /\ Inserts({Event("a2a.response", r.of)})
  /\ UNCHANGED <<envelope, tenantCheck, call, placed, log, faults>>

\* After the update the tenant is checked: 403 for another's, which stays decided.
Answer(r) ==
  /\ r \in responses /\ responses' = responses \ {r}
  /\ IF tenantCheck /\ r.by # envelope[r.of].to
     THEN answered' = answered \cup {[response |-> r, code |-> 403]} /\ UNCHANGED inserting
     ELSE /\ answered' = answered \cup {[response |-> r, code |-> 200]}
          /\ Inserts({Event("a2a.response", r.of)})
  /\ UNCHANGED <<envelope, tenantCheck, call, placed, log, faults>>

-----------------------------------------------------------------------------
\* Mutant: the request is logged without waiting for it.
RequestUnlogged(c) ==
  /\ call[c] = "none" /\ call' = [call EXCEPT ![c] = "placing"]
  /\ Inserts({Event("phone.call.requested", c)})
  /\ UNCHANGED <<envelope, tenantCheck, responses, answered, placed, log, faults>>

\* POST /mirachat/phone/outbound: the request is logged before the call is placed; if it
\* cannot be, the route answers 500.
RequestCall(c) ==
  /\ call[c] = "none" /\ call' = [call EXCEPT ![c] = "placing"]
  /\ log' = log \cup {Event("phone.call.requested", c)}
  /\ UNCHANGED <<envelope, tenantCheck, responses, answered, placed, inserting, faults>>

\* Twilio has the call; its answer is on the way.
TwilioPlaces(c) ==
  /\ call[c] = "placing" /\ c \notin placed
  /\ placed' = placed \cup {c}
  /\ UNCHANGED <<envelope, tenantCheck, responses, answered, call, log, inserting, faults>>

CallPlaced(c) ==
  /\ call[c] = "placing" /\ c \in placed
  /\ call' = [call EXCEPT ![c] = "answered"]
  /\ Inserts({Event("phone.call.placed", c)})
  /\ UNCHANGED <<envelope, tenantCheck, responses, answered, placed, log, faults>>

\* Twilio refuses, or its answer is lost: 502.
CallFails(c) ==
  /\ call[c] = "placing" /\ faults < MaxFaults /\ faults' = faults + 1
  /\ call' = [call EXCEPT ![c] = "answered"]
  /\ Inserts({Event("phone.call.failed", c)})
  /\ UNCHANGED <<envelope, tenantCheck, responses, answered, placed, log>>

\* Twilio's status webhook, as often as Twilio likes; its event carries the call.
VoiceCallStatus(c) ==
  /\ c \in placed
  /\ Inserts({Event("phone.twilio.call_status", c)})
  /\ UNCHANGED <<envelope, tenantCheck, responses, answered, call, placed, log, faults>>

Inserted(e) ==
  /\ e \in inserting
  /\ inserting' = inserting \ {e} /\ log' = log \cup {e}
  /\ UNCHANGED <<envelope, tenantCheck, responses, answered, call, placed, faults>>

InsertFails(e) ==
  /\ e \in inserting /\ faults < MaxFaults /\ faults' = faults + 1
  /\ inserting' = inserting \ {e}
  /\ UNCHANGED <<envelope, tenantCheck, responses, answered, call, placed, log>>

\* The API exits with requests under way.
ApiCrash ==
  /\ faults < MaxFaults /\ faults' = faults + 1
  /\ responses' = {} /\ inserting' = {}
  /\ call' = [c \in Calls |-> IF call[c] = "placing" THEN "lost" ELSE call[c]]
  /\ UNCHANGED <<envelope, tenantCheck, answered, placed, log>>

Next ==
  \/ \E e \in Envelopes : \/ \E from, to \in Users : Propose(e, from, to)
                          \/ \E user \in Users, verdict \in {"accepted", "rejected"} :
                               Respond(e, user, verdict)
  \/ \E r \in responses : Answer(r)
  \/ \E c \in Calls : \/ RequestCall(c) \/ TwilioPlaces(c) \/ CallPlaced(c) \/ CallFails(c)
                      \/ VoiceCallStatus(c)
  \/ \E e \in inserting : Inserted(e) \/ InsertFails(e)
  \/ ApiCrash

Spec == Init /\ [][Next]_vars

-----------------------------------------------------------------------------
Responses == [of : Envelopes, by : Users, verdict : {"accepted", "rejected"}]

\* The type of what is stored and under way.
TypeOK ==
  /\ \A e \in Envelopes : envelope[e] = None \/
       envelope[e] \in [status : {"proposed", "accepted", "rejected"}, from : Users, to : Users]
  /\ responses \subseteq Responses /\ answered \subseteq [response : Responses, code : {200, 403}]
  /\ call \in [Calls -> {"none", "placing", "answered", "lost"}] /\ placed \subseteq Calls
  /\ faults \in 0..MaxFaults

\* An envelope is decided by one response, however many come at a time, and stays as
\* that one said, whether its sender was told so or was told 403.
DecidedOnce ==
  \A e \in Envelopes :
    LET decisions == {r \in responses \cup {a.response : a \in answered} : r.of = e}
    IN  /\ Cardinality(decisions) <= 1
        /\ \A r \in decisions : envelope[e].status = r.verdict

\* With tenants enforced only the user it is addressed to is told that an envelope was
\* decided, and only then the log says so.
OnlyAddresseeIsTold ==
  tenantCheck =>
    /\ \A a \in answered : a.code = 200 => a.response.by = envelope[a.response.of].to
    /\ \A e \in log \cup inserting : e.type = "a2a.response" =>
         \E a \in answered : a.response.of = e.of /\ a.code = 200

\* No call is placed that the log does not know was asked for, and none is said both to
\* have been placed and to have failed.
CallsAreLogged ==
  \A c \in Calls :
    /\ c \in placed => Event("phone.call.requested", c) \in log
    /\ ~({Event("phone.call.placed", c), Event("phone.call.failed", c)} \subseteq log \cup inserting)

ExchangesAreTold == DecidedOnce /\ OnlyAddresseeIsTold /\ CallsAreLogged
=============================================================================
