----------------------------- MODULE TriageProofs -----------------------------
(***************************************************************************)
(* Proofs about what is done with drafts and what is told of it, for any   *)
(* users, envelopes, calls, tasks and faults, and any finite set of drafts *)
(* that are recorded and measured.  Each part of the composition has an    *)
(* inductive invariant of its own.                                         *)
(***************************************************************************)
EXTENDS MCTriage, FiniteSetTheorems, FunctionTheorems, TLAPS

\* What was decided, by whoever responded, whether he was told so yet or not.
ExchangeDecisions == responses \cup {a.response : a \in answered}

\* An envelope is there with who sent it and to whom.
ExchangeRows == {Exchange!None} \cup [status : {"proposed", "accepted", "rejected"}, from : Users, to : Users]

ExchangeTyped ==
  /\ envelope \in [Envelopes -> ExchangeRows]
  /\ responses \subseteq Exchange!Responses /\ answered \subseteq [response : Exchange!Responses, code : {200, 403}]
  /\ call \in [Calls -> {"none", "placing", "answered", "lost"}] /\ placed \subseteq Calls

\* The row is as the response says, and there is one response only.
ExchangeOneDecision ==
  /\ \A r \in ExchangeDecisions : envelope[r.of].status = r.verdict
  /\ \A r, s \in ExchangeDecisions : r.of = s.of => r = s

\* A call that is placed, or is being placed, is known to the log; how it ended is said at
\* the one step that leaves "placing".
ExchangeCallsAreKnown ==
  \A c \in Calls :
    /\ c \in placed \/ call[c] = "placing" => Exchange!Event("phone.call.requested", c) \in told
    /\ \A t \in {"phone.call.placed", "phone.call.failed"} :
         Exchange!Event(t, c) \in told \cup telling => call[c] = "answered"
    /\ ~({Exchange!Event("phone.call.placed", c), Exchange!Event("phone.call.failed", c)} \subseteq told \cup telling)

ExchangeIInv == ExchangeTyped /\ ExchangeOneDecision /\ Exchange!OnlyAddresseeIsTold /\ ExchangeCallsAreKnown

-----------------------------------------------------------------------------
LEMMA ExchangeEventsDiffer ==
  /\ \A t, o : Exchange!Event(t, o).type = t /\ Exchange!Event(t, o).of = o
  /\ \A t, u, o, p : Exchange!Event(t, o) = Exchange!Event(u, p) <=> t = u /\ o = p
  BY DEF Exchange!Event

LEMMA ExchangeInitIInv == Exchange!Init => ExchangeIInv
  BY DEF Exchange!Init, ExchangeIInv, ExchangeTyped, ExchangeRows, ExchangeOneDecision, ExchangeDecisions,
         Exchange!OnlyAddresseeIsTold, ExchangeCallsAreKnown, Exchange!None

\* A step that leaves envelopes alone, and decisions as they are.
LEMMA ExchangeEnvelopesAlone ==
  ASSUME ExchangeIInv, envelope' = envelope, responses' \subseteq responses, answered' = answered
  PROVE  ExchangeOneDecision'
  BY DEF ExchangeIInv, ExchangeOneDecision, ExchangeDecisions

LEMMA ExchangeProposeStep ==
  ASSUME ExchangeIInv, NEW e \in Envelopes, NEW from \in Users, NEW to \in Users, Exchange!Propose(e, from, to)
  PROVE  ExchangeIInv'
<1>1. ExchangeTyped'
  BY DEF ExchangeIInv, ExchangeTyped, Exchange!Propose, ExchangeRows
<1>2. \A r \in ExchangeDecisions : r.of # e /\ r \in Exchange!Responses
  <2>1. ASSUME NEW r \in ExchangeDecisions PROVE r \in Exchange!Responses /\ r.verdict # "none" /\ envelope[r.of].status = r.verdict
    BY <2>1 DEF ExchangeIInv, ExchangeOneDecision, ExchangeDecisions, ExchangeTyped, Exchange!Responses
  <2> QED BY <2>1 DEF Exchange!Propose, Exchange!None
<1>3. ExchangeOneDecision'
  BY <1>2 DEF ExchangeIInv, ExchangeOneDecision, ExchangeDecisions, Exchange!Propose, ExchangeTyped,
              Exchange!Responses
<1>4. Exchange!OnlyAddresseeIsTold'
  <2>1. \A a \in answered : a.response.of # e /\ a.response \in Exchange!Responses
    BY <1>2 DEF ExchangeDecisions
  <2>2. \A a \in answered : envelope'[a.response.of] = envelope[a.response.of]
    BY <2>1 DEF Exchange!Propose, Exchange!Responses, ExchangeIInv, ExchangeTyped
  <2> QED BY <2>2, ExchangeEventsDiffer DEF ExchangeIInv, Exchange!OnlyAddresseeIsTold, Exchange!Propose, Exchange!Inserts
<1>5. ExchangeCallsAreKnown'
  BY ExchangeEventsDiffer DEF ExchangeIInv, ExchangeCallsAreKnown, Exchange!Propose, Exchange!Inserts
<1> QED BY <1>1, <1>3, <1>4, <1>5 DEF ExchangeIInv

LEMMA ExchangeRespondStep ==
  ASSUME ExchangeIInv, NEW e \in Envelopes, NEW user \in Users, NEW verdict \in {"accepted", "rejected"},
         Exchange!Respond(e, user, verdict)
  PROVE  ExchangeIInv'
<1> DEFINE r == [of |-> e, by |-> user, verdict |-> verdict]
<1>0. r \in Exchange!Responses /\ envelope[e] \in [status : {"proposed", "accepted", "rejected"}, from : Users, to : Users]
  BY DEF Exchange!Responses, ExchangeIInv, ExchangeTyped, ExchangeRows, Exchange!None, Exchange!Respond
<1>1. ExchangeTyped'
  BY <1>0 DEF ExchangeIInv, ExchangeTyped, Exchange!Respond, ExchangeRows, Exchange!Responses
<1>2. \A s \in ExchangeDecisions : s.of # e /\ s \in Exchange!Responses
  BY DEF ExchangeIInv, ExchangeOneDecision, ExchangeDecisions, ExchangeTyped, Exchange!Responses,
         Exchange!Respond
<1>3. ExchangeDecisions' = ExchangeDecisions \cup {r}
  BY DEF ExchangeDecisions, Exchange!Respond
<1>4. envelope'[e].status = verdict /\ envelope'[e].to = envelope[e].to
      /\ \A x \in Envelopes : x # e => envelope'[x] = envelope[x]
  BY <1>0 DEF ExchangeIInv, ExchangeTyped, Exchange!Respond
<1>5. ExchangeOneDecision'
  BY <1>2, <1>3, <1>4 DEF ExchangeIInv, ExchangeOneDecision, Exchange!Responses
<1>6. Exchange!OnlyAddresseeIsTold'
  <2>1. \A a \in answered : a.response.of # e /\ a.response \in Exchange!Responses
    BY <1>2 DEF ExchangeDecisions
  <2> QED BY <1>4, <2>1 DEF ExchangeIInv, Exchange!OnlyAddresseeIsTold, Exchange!Respond, Exchange!Responses
<1>7. ExchangeCallsAreKnown'
  BY DEF ExchangeIInv, ExchangeCallsAreKnown, Exchange!Respond
<1> QED BY <1>1, <1>5, <1>6, <1>7 DEF ExchangeIInv

LEMMA ExchangeAnswerStep == ASSUME ExchangeIInv, NEW r \in responses, Exchange!Answer(r) PROVE ExchangeIInv'
<1>0. r \in Exchange!Responses
  BY DEF ExchangeIInv, ExchangeTyped
<1>1. PICK code \in {200, 403} :
        /\ answered' = answered \cup {[response |-> r, code |-> code]}
        /\ tenantCheck /\ code = 200 => r.by = envelope[r.of].to
        /\ telling' = telling \/ (code = 200 /\ telling' = telling \cup {Exchange!Event("a2a.response", r.of)})
  BY DEF Exchange!Answer, Exchange!Inserts
<1>2. UNCHANGED <<envelope, tenantCheck, call, placed, told>> /\ responses' = responses \ {r}
  BY DEF Exchange!Answer
<1>3. ExchangeTyped'
  BY <1>0, <1>1, <1>2 DEF ExchangeIInv, ExchangeTyped
<1>4. ExchangeDecisions' = ExchangeDecisions
  <2> DEFINE new == [response |-> r, code |-> code]
  <2>1. answered' = answered \cup {new} /\ new.response = r
    BY <1>1
  <2> HIDE DEF new
  <2>2. {a.response : a \in answered'} = {a.response : a \in answered} \cup {r}
    BY <2>1
  <2> QED BY <1>2, <2>2 DEF ExchangeDecisions
<1>5. ExchangeOneDecision'
  BY <1>2, <1>4 DEF ExchangeIInv, ExchangeOneDecision
<1>6. Exchange!OnlyAddresseeIsTold'
  <2> SUFFICES ASSUME tenantCheck
               PROVE  /\ \A a \in answered' : a.code = 200 => a.response.by = envelope[a.response.of].to
                      /\ \A e \in told \cup telling' : e.type = "a2a.response" =>
                           \E a \in answered' : a.response.of = e.of /\ a.code = 200
    BY <1>2 DEF Exchange!OnlyAddresseeIsTold
  <2>1. \A a \in answered' : a.code = 200 => a.response.by = envelope[a.response.of].to
    BY <1>1 DEF ExchangeIInv, Exchange!OnlyAddresseeIsTold
  <2>2. ASSUME NEW e \in told \cup telling', e.type = "a2a.response"
        PROVE  \E a \in answered' : a.response.of = e.of /\ a.code = 200
    <3>1. CASE e \in told \cup telling
      BY <1>1, <2>2, <3>1 DEF ExchangeIInv, Exchange!OnlyAddresseeIsTold
    <3>2. CASE e = Exchange!Event("a2a.response", r.of) /\ code = 200
      <4>1. [response |-> r, code |-> 200] \in answered' /\ e.of = r.of
        BY <1>1, <3>2, ExchangeEventsDiffer
      <4> QED BY <4>1
    <3> QED BY <1>1, <2>2, <3>1, <3>2
  <2> QED BY <2>1, <2>2
<1>7. ExchangeCallsAreKnown'
  BY <1>1, <1>2, ExchangeEventsDiffer DEF ExchangeIInv, ExchangeCallsAreKnown
<1> QED BY <1>3, <1>5, <1>6, <1>7 DEF ExchangeIInv

\* Calls and events do not touch envelopes.
LEMMA ExchangeToldAlone ==
  ASSUME ExchangeIInv, UNCHANGED <<envelope, tenantCheck, answered>>,
         \A e \in (told \cup telling)' : e \in told \cup telling \/ e.type # "a2a.response"
  PROVE  Exchange!OnlyAddresseeIsTold'
  BY DEF ExchangeIInv, Exchange!OnlyAddresseeIsTold

LEMMA ExchangeCallStep ==
  ASSUME ExchangeIInv, NEW c \in Calls,
         Exchange!RequestCall(c) \/ Exchange!TwilioPlaces(c) \/ Exchange!CallPlaced(c) \/ Exchange!CallFails(c) \/ Exchange!VoiceCallStatus(c)
  PROVE  ExchangeIInv'
<1>1. UNCHANGED <<envelope, tenantCheck, responses, answered>>
  BY DEF Exchange!RequestCall, Exchange!TwilioPlaces, Exchange!CallPlaced, Exchange!CallFails,
         Exchange!VoiceCallStatus
<1>2. ExchangeTyped'
  BY <1>1 DEF ExchangeIInv, ExchangeTyped, Exchange!RequestCall, Exchange!TwilioPlaces,
              Exchange!CallPlaced, Exchange!CallFails, Exchange!VoiceCallStatus
<1>3. ExchangeOneDecision'
  BY <1>1, ExchangeEnvelopesAlone
<1>4. Exchange!OnlyAddresseeIsTold'
  <2>1. \A e \in (told \cup telling)' : e \in told \cup telling \/ e.type # "a2a.response"
    BY ExchangeEventsDiffer DEF Exchange!RequestCall, Exchange!TwilioPlaces, Exchange!CallPlaced,
           Exchange!CallFails, Exchange!VoiceCallStatus, Exchange!Inserts
  <2> QED BY <1>1, <2>1, ExchangeToldAlone
<1>5. ExchangeCallsAreKnown'
  <2> USE ExchangeEventsDiffer DEF ExchangeIInv, ExchangeCallsAreKnown, ExchangeTyped, Exchange!Inserts
  <2>1. CASE Exchange!RequestCall(c)
    BY <2>1 DEF Exchange!RequestCall
  <2>2. CASE Exchange!TwilioPlaces(c)
    BY <2>2 DEF Exchange!TwilioPlaces
  <2>3. CASE Exchange!CallPlaced(c)
    BY <2>3 DEF Exchange!CallPlaced
  <2>4. CASE Exchange!CallFails(c)
    BY <2>4 DEF Exchange!CallFails
  <2>5. CASE Exchange!VoiceCallStatus(c)
    BY <2>5 DEF Exchange!VoiceCallStatus
  <2> QED BY <2>1, <2>2, <2>3, <2>4, <2>5
<1> QED BY <1>2, <1>3, <1>4, <1>5 DEF ExchangeIInv

LEMMA ExchangeInsertStep ==
  ASSUME ExchangeIInv, NEW e \in telling, Exchange!Inserted(e) \/ Exchange!InsertFails(e) PROVE ExchangeIInv'
<1>1. UNCHANGED <<envelope, tenantCheck, responses, answered, call, placed>>
      /\ (told \cup telling)' \subseteq told \cup telling /\ told \subseteq told'
  BY DEF Exchange!Inserted, Exchange!InsertFails
<1>2. Exchange!OnlyAddresseeIsTold'
  BY <1>1, ExchangeToldAlone
<1> QED BY <1>1, <1>2, ExchangeEnvelopesAlone DEF ExchangeIInv, ExchangeTyped, ExchangeCallsAreKnown

LEMMA ExchangeCrashStep == ASSUME ExchangeIInv, Exchange!ApiCrash PROVE ExchangeIInv'
<1>1. Exchange!OnlyAddresseeIsTold'
  BY ExchangeToldAlone DEF Exchange!ApiCrash
<1>2. ExchangeOneDecision'
  BY ExchangeEnvelopesAlone DEF Exchange!ApiCrash
<1>3. ExchangeTyped' /\ ExchangeCallsAreKnown'
  BY DEF ExchangeIInv, ExchangeTyped, ExchangeCallsAreKnown, Exchange!ApiCrash
<1> QED BY <1>1, <1>2, <1>3 DEF ExchangeIInv

LEMMA ExchangeStepKeepsIInv == ExchangeIInv /\ [Exchange!Next]_Exchange!vars => ExchangeIInv'
<1> SUFFICES ASSUME ExchangeIInv, [Exchange!Next]_Exchange!vars PROVE ExchangeIInv'
  OBVIOUS
<1>1. ASSUME NEW e \in Envelopes, NEW from \in Users, NEW to \in Users, Exchange!Propose(e, from, to)
      PROVE  ExchangeIInv'
  BY <1>1, ExchangeProposeStep
<1>2. ASSUME NEW e \in Envelopes, NEW user \in Users, NEW verdict \in {"accepted", "rejected"},
             Exchange!Respond(e, user, verdict)
      PROVE  ExchangeIInv'
  BY <1>2, ExchangeRespondStep
<1>3. ASSUME NEW r \in responses, Exchange!Answer(r) PROVE ExchangeIInv'
  BY <1>3, ExchangeAnswerStep
<1>4. ASSUME NEW c \in Calls,
             Exchange!RequestCall(c) \/ Exchange!TwilioPlaces(c) \/ Exchange!CallPlaced(c) \/ Exchange!CallFails(c) \/ Exchange!VoiceCallStatus(c)
      PROVE  ExchangeIInv'
  BY <1>4, ExchangeCallStep
<1>5. ASSUME NEW e \in telling, Exchange!Inserted(e) \/ Exchange!InsertFails(e) PROVE ExchangeIInv'
  BY <1>5, ExchangeInsertStep
<1>6. CASE Exchange!ApiCrash
  BY <1>6, ExchangeCrashStep
<1>7. CASE UNCHANGED Exchange!vars
  BY <1>7 DEF Exchange!vars, ExchangeIInv, ExchangeTyped, ExchangeOneDecision, ExchangeDecisions,
              Exchange!OnlyAddresseeIsTold, ExchangeCallsAreKnown
<1> QED BY <1>1, <1>2, <1>3, <1>4, <1>5, <1>6, <1>7 DEF Exchange!Next

\* A count of Exchanges is one of this module.
LEMMA CardinalityIsExchanges == \A S : Exchange!Cardinality(S) = Cardinality(S)
BY DEF Exchange!Cardinality, Cardinality

LEMMA ExchangeIInvTells == ExchangeIInv => Exchange!ExchangesAreTold
<1> SUFFICES ASSUME ExchangeIInv PROVE Exchange!ExchangesAreTold
  OBVIOUS
<1>1. Exchange!DecidedOnce
  <2> SUFFICES ASSUME NEW e \in Envelopes
               PROVE  LET mine == {r \in ExchangeDecisions : r.of = e}
                      IN  Cardinality(mine) <= 1 /\ \A r \in mine : envelope[e].status = r.verdict
    BY CardinalityIsExchanges DEF Exchange!DecidedOnce, ExchangeDecisions
  <2> DEFINE mine == {r \in ExchangeDecisions : r.of = e}
  <2>1. CASE mine = {}
    BY <2>1, FS_EmptySet
  <2>2. ASSUME NEW r \in mine PROVE mine = {r}
    BY DEF ExchangeIInv, ExchangeOneDecision
  <2>3. ASSUME NEW r \in mine PROVE Cardinality(mine) = 1
    BY <2>2, FS_Singleton
  <2>4. Cardinality(mine) <= 1
    BY <2>1, <2>3, FS_EmptySet
  <2> QED BY <2>4 DEF ExchangeIInv, ExchangeOneDecision
<1>2. Exchange!CallsAreLogged
  BY DEF ExchangeIInv, ExchangeCallsAreKnown, Exchange!CallsAreLogged
<1> QED BY <1>1, <1>2 DEF ExchangeIInv, Exchange!ExchangesAreTold


DoerStates == {"idle", "starting", "running", "refused", "completing", "failing", "answered", "lost"}
DoerBegun  == {"running", "refused", "completing", "failing"}

DoerRunStates == [at : DoerStates, draft : BOOLEAN, result : {"none", "done", "error"}, unlogged : BOOLEAN]

DoerTyped ==
  /\ configured \in BOOLEAN /\ breaks \in Nat /\ acted \subseteq Tasks
  /\ run \in [Tasks -> DoerRunStates]
  /\ child \in [Tasks -> [at : {"none", "running", "closed", "missing"}, wrote : {"nothing", "part", "whole"},
                         code : {"none", "zero", "nonzero"}]]

\* A process writes only after it has acted, and a run has none before it has begun.
DoerChildIsOfRun(r) ==
  /\ run[r].at \in {"idle", "starting"} => child[r] = Doers!NoChild
  /\ run[r].at \in {"idle", "starting", "running", "refused"} => run[r].result = "none"
  /\ run[r].at = "refused" => child[r].at = "none"
  /\ child[r].wrote # "nothing" => r \in acted
  /\ r \in acted => child[r].at \in {"running", "closed"}

\* What a run was told is told of a process that has closed, or never was.
DoerToldOfChild(r) ==
  /\ run[r].result = "done" => Doers!IsDone(r)
  /\ run[r].result = "error" =>
       /\ child[r].at # "running"
       /\ r \in acted => child[r].code = "nonzero" \/ child[r].wrote # "whole" \/ run[r].unlogged
  /\ run[r].at = "completing" => run[r].result = "done" /\ run[r].draft
  /\ run[r].at = "failing" => run[r].result = "error" /\ run[r].draft
  /\ run[r].at = "idle" => ~run[r].draft

\* The log has the start of what runs for a draft, and its end once, with the answer.
DoerLoggedAsRun(r) ==
  /\ run[r].draft /\ (child[r].at # "none" \/ run[r].at \in DoerBegun) => Doers!Logged("doer.started", r)
  /\ Doers!Logged("doer.completed", r) => Doers!IsDone(r)
  /\ Doers!Logged("doer.completed", r) \/ Doers!Logged("doer.failed", r) =>
       run[r].at = "answered" /\ (run[r].draft => Doers!Logged("doer.started", r))
  /\ ~(Doers!Logged("doer.completed", r) /\ Doers!Logged("doer.failed", r))
  /\ run[r].draft /\ run[r].at = "answered" =>
       /\ run[r].result = "done" => Doers!Logged("doer.completed", r)
       /\ breaks = 0 => Doers!Logged("doer.completed", r) \/ Doers!Logged("doer.failed", r)

DoerIInv == DoerTyped /\ \A r \in Tasks : DoerChildIsOfRun(r) /\ DoerToldOfChild(r) /\ DoerLoggedAsRun(r)

-----------------------------------------------------------------------------
LEMMA DoerEventsDiffer ==
  \A t, u, r, s : Doers!Event(t, r) = Doers!Event(u, s) <=> t = u /\ r = s
  BY DEF Doers!Event

LEMMA DoerMoves ==
  ASSUME NEW row \in DoerRunStates, NEW to \in DoerStates
  PROVE  /\ [row EXCEPT !.at = to] \in DoerRunStates
         /\ [row EXCEPT !.at = to, !.draft = TRUE] \in DoerRunStates
         /\ \A answer \in {"none", "done", "error"} :
              /\ [row EXCEPT !.at = to, !.result = answer] \in DoerRunStates
              /\ [row EXCEPT !.at = to, !.result = answer, !.unlogged = TRUE] \in DoerRunStates
  BY DEF DoerRunStates

LEMMA DoerInitIInv == Doers!Init => DoerIInv
<1> SUFFICES ASSUME Doers!Init PROVE DoerIInv
  OBVIOUS
<1>1. DoerTyped
  BY DEF Doers!Init, DoerTyped, Doers!Idle, Doers!NoChild, DoerStates, DoerRunStates
<1> QED BY <1>1 DEF Doers!Init, DoerIInv, DoerChildIsOfRun, DoerToldOfChild, DoerLoggedAsRun, Doers!Idle, Doers!NoChild, Doers!Logged, Doers!IsDone, DoerBegun

\* A step about one run leaves what the others are told.
LEMMA DoerOthersStand ==
  ASSUME DoerIInv, NEW r \in Tasks, NEW s \in Tasks, s # r, run'[s] = run[s], child'[s] = child[s],
         s \in acted' <=> s \in acted, breaks' = breaks \/ breaks' # 0,
         \A t : Doers!Event(t, s) \in doings' <=> Doers!Event(t, s) \in doings
  PROVE  DoerChildIsOfRun(s)' /\ DoerToldOfChild(s)' /\ DoerLoggedAsRun(s)'
  BY DEF DoerIInv, DoerChildIsOfRun, DoerToldOfChild, DoerLoggedAsRun, Doers!Logged, Doers!IsDone

LEMMA DoerRunStep ==
  ASSUME DoerIInv, NEW r \in Tasks, NEW names \in BOOLEAN, Doers!RunTask(r, names) \/ Doers!LogStart(r, names) \/ Doers!RunForDraft(r)
  PROVE  DoerIInv'
<1>1. DoerTyped'
  <2>1. run' \in [Tasks -> DoerRunStates]
    <3>1. /\ run[r] \in DoerRunStates /\ Doers!Begins(r, names) \in DoerStates /\ "starting" \in DoerStates
      BY DEF DoerIInv, DoerTyped, Doers!Begins, DoerStates
    <3>2. /\ [run[r] EXCEPT !.at = Doers!Begins(r, names)] \in DoerRunStates
          /\ [run[r] EXCEPT !.at = "starting", !.draft = TRUE] \in DoerRunStates
      BY <3>1, DoerMoves
    <3> QED BY <3>2 DEF DoerIInv, DoerTyped, Doers!RunTask, Doers!LogStart, Doers!RunForDraft
  <2> QED BY <2>1 DEF DoerIInv, DoerTyped, Doers!RunTask, Doers!LogStart, Doers!RunForDraft, Doers!Spawns
<1>2. ASSUME NEW s \in Tasks, s # r PROVE DoerChildIsOfRun(s)' /\ DoerToldOfChild(s)' /\ DoerLoggedAsRun(s)'
  <2>1. run'[s] = run[s] /\ child'[s] = child[s] /\ acted' = acted /\ breaks' = breaks
    BY <1>2 DEF DoerIInv, DoerTyped, Doers!RunTask, Doers!LogStart, Doers!RunForDraft, Doers!Spawns
  <2>2. \A t : Doers!Event(t, s) \in doings' <=> Doers!Event(t, s) \in doings
    BY <1>2, DoerEventsDiffer DEF Doers!RunTask, Doers!LogStart, Doers!RunForDraft
  <2> QED BY <1>2, <2>1, <2>2, DoerOthersStand
<1>3. DoerChildIsOfRun(r)' /\ DoerToldOfChild(r)' /\ DoerLoggedAsRun(r)'
  <2>1. CASE Doers!RunTask(r, names)
    BY <2>1, DoerEventsDiffer DEF Doers!RunTask, Doers!Spawns, Doers!Begins, DoerIInv, DoerTyped,
           DoerChildIsOfRun, DoerToldOfChild, DoerLoggedAsRun, Doers!Logged, Doers!IsDone, DoerBegun,
           Doers!NoChild, DoerStates, DoerRunStates
  <2>2. CASE Doers!LogStart(r, names)
    BY <2>2, DoerEventsDiffer DEF Doers!LogStart, Doers!Spawns, Doers!Begins, DoerIInv, DoerTyped,
           DoerChildIsOfRun, DoerToldOfChild, DoerLoggedAsRun, Doers!Logged, Doers!IsDone, DoerBegun,
           Doers!NoChild, DoerStates, DoerRunStates
  <2>3. CASE Doers!RunForDraft(r)
    BY <2>3 DEF Doers!RunForDraft, DoerIInv, DoerTyped, DoerChildIsOfRun, DoerToldOfChild,
                DoerLoggedAsRun, Doers!Logged, Doers!IsDone, DoerBegun, Doers!NoChild, DoerStates,
                DoerRunStates
  <2> QED BY <2>1, <2>2, <2>3
<1> QED BY <1>1, <1>2, <1>3 DEF DoerIInv

LEMMA DoerChildStep ==
  ASSUME DoerIInv, NEW r \in Tasks, Doers!Acts(r) \/ Doers!Writes(r) \/ Doers!Exits(r) \/ Doers!Breaks(r) \/ Doers!Killed(r) \/ Doers!NotSpawned(r)
  PROVE  DoerIInv'
<1>1. DoerTyped'
  BY DEF DoerIInv, DoerTyped, Doers!Acts, Doers!Writes, Doers!Exits, Doers!Breaks, Doers!Killed,
         Doers!NotSpawned, Doers!Fault
<1>2. child[r].at = "running" /\ run' = run /\ doings' = doings /\ (breaks' = breaks \/ breaks' # 0)
  BY DEF DoerIInv, DoerTyped, Doers!Acts, Doers!Writes, Doers!Exits, Doers!Breaks, Doers!Killed,
         Doers!NotSpawned, Doers!Fault
<1>3. ASSUME NEW s \in Tasks, s # r PROVE DoerChildIsOfRun(s)' /\ DoerToldOfChild(s)' /\ DoerLoggedAsRun(s)'
  <2>1. child'[s] = child[s] /\ (s \in acted' <=> s \in acted)
    BY <1>3 DEF DoerIInv, DoerTyped, Doers!Acts, Doers!Writes, Doers!Exits, Doers!Breaks, Doers!Killed,
                Doers!NotSpawned
  <2> QED BY <1>2, <1>3, <2>1, DoerOthersStand
<1>4. DoerChildIsOfRun(r) /\ DoerToldOfChild(r) /\ DoerLoggedAsRun(r)
  BY DEF DoerIInv
<1>5. DoerChildIsOfRun(r)'
  BY <1>2, <1>4 DEF DoerIInv, DoerTyped, DoerChildIsOfRun, Doers!NoChild, Doers!Acts, Doers!Writes,
                    Doers!Exits, Doers!Breaks, Doers!Killed, Doers!NotSpawned
<1>6. DoerToldOfChild(r)' /\ DoerLoggedAsRun(r)'
  <2>1. run[r].result = "none" /\ ~Doers!Logged("doer.completed", r)
    BY <1>2, <1>4 DEF DoerToldOfChild, DoerLoggedAsRun, Doers!IsDone, DoerIInv, DoerTyped, DoerRunStates
  <2> QED BY <1>2, <1>4, <2>1 DEF DoerToldOfChild, DoerLoggedAsRun, Doers!Logged
<1> QED BY <1>1, <1>3, <1>5, <1>6 DEF DoerIInv

LEMMA DoerLogFailsStep == ASSUME DoerIInv, NEW r \in Tasks, Doers!LogFails(r) PROVE DoerIInv'
<1>1. DoerTyped' /\ breaks' # 0
  <2>1. run[r] \in DoerRunStates /\ "failing" \in DoerStates /\ "answered" \in DoerStates
    BY DEF DoerIInv, DoerTyped, DoerStates
  <2>2. /\ [run[r] EXCEPT !.at = "failing", !.result = "error", !.unlogged = TRUE] \in DoerRunStates
        /\ [run[r] EXCEPT !.at = "answered", !.result = "error"] \in DoerRunStates
    BY <2>1, DoerMoves
  <2> QED BY <2>2 DEF DoerIInv, DoerTyped, Doers!LogFails, Doers!Fault
<1>2. ASSUME NEW s \in Tasks, s # r PROVE DoerChildIsOfRun(s)' /\ DoerToldOfChild(s)' /\ DoerLoggedAsRun(s)'
  BY <1>1, <1>2, DoerOthersStand DEF Doers!LogFails, DoerIInv, DoerTyped
<1>3. DoerChildIsOfRun(r)' /\ DoerToldOfChild(r)' /\ DoerLoggedAsRun(r)'
  BY <1>1 DEF Doers!LogFails, DoerIInv, DoerTyped, DoerChildIsOfRun, DoerToldOfChild, DoerLoggedAsRun,
              Doers!Logged, Doers!IsDone, DoerBegun, Doers!NoChild, DoerStates, DoerRunStates
<1> QED BY <1>1, <1>2, <1>3 DEF DoerIInv

LEMMA DoerEndsStep == ASSUME DoerIInv, NEW r \in Tasks, Doers!Ends(r) PROVE DoerIInv'
<1>1. DoerTyped'
  BY DEF DoerIInv, DoerTyped, Doers!Ends, DoerStates, DoerRunStates
<1>2. ASSUME NEW s \in Tasks, s # r PROVE DoerChildIsOfRun(s)' /\ DoerToldOfChild(s)' /\ DoerLoggedAsRun(s)'
  BY <1>2, DoerOthersStand DEF Doers!Ends, DoerIInv, DoerTyped
<1>3. DoerChildIsOfRun(r)' /\ DoerToldOfChild(r)' /\ DoerLoggedAsRun(r)'
  BY DEF Doers!Ends, DoerIInv, DoerTyped, DoerChildIsOfRun, DoerToldOfChild, DoerLoggedAsRun,
         Doers!Logged, Doers!IsDone, DoerBegun, Doers!NoChild, DoerStates, DoerRunStates
<1> QED BY <1>1, <1>2, <1>3 DEF DoerIInv

LEMMA DoerLogEndStep == ASSUME DoerIInv, NEW r \in Tasks, Doers!LogEnd(r) PROVE DoerIInv'
<1>1. DoerTyped'
  BY DEF DoerIInv, DoerTyped, Doers!LogEnd, DoerStates, DoerRunStates
<1>2. ASSUME NEW s \in Tasks, s # r PROVE DoerChildIsOfRun(s)' /\ DoerToldOfChild(s)' /\ DoerLoggedAsRun(s)'
  <2>1. \A t : Doers!Event(t, s) \in doings' <=> Doers!Event(t, s) \in doings
    BY <1>2, DoerEventsDiffer DEF Doers!LogEnd
  <2> QED BY <1>2, <2>1, DoerOthersStand DEF Doers!LogEnd, DoerIInv, DoerTyped
<1>3. DoerChildIsOfRun(r)' /\ DoerToldOfChild(r)' /\ DoerLoggedAsRun(r)'
  BY DoerEventsDiffer DEF Doers!LogEnd, DoerIInv, DoerTyped, DoerChildIsOfRun, DoerToldOfChild,
                          DoerLoggedAsRun, Doers!Logged, Doers!IsDone, DoerBegun, Doers!NoChild,
                          DoerStates, DoerRunStates
<1> QED BY <1>1, <1>2, <1>3 DEF DoerIInv

LEMMA DoerCrashStep == ASSUME DoerIInv, Doers!ApiCrash PROVE DoerIInv'
<1>1. DoerTyped' /\ breaks' # 0
  <2>1. ASSUME NEW r \in Tasks
        PROVE  run[r] \in DoerRunStates /\ [run[r] EXCEPT !.at = "lost", !.result = "none"] \in DoerRunStates
    BY DoerMoves DEF DoerIInv, DoerTyped, DoerStates
  <2>2. run' \in [Tasks -> DoerRunStates]
    BY <2>1 DEF Doers!ApiCrash
  <2>3. breaks \in Nat /\ breaks' = breaks + 1
    BY DEF DoerIInv, DoerTyped, Doers!ApiCrash, Doers!Fault
  <2>4. UNCHANGED <<configured, child, acted>>
    BY DEF Doers!ApiCrash
  <2> QED BY <2>2, <2>3, <2>4 DEF DoerIInv, DoerTyped
<1>2. ASSUME NEW r \in Tasks PROVE DoerChildIsOfRun(r)' /\ DoerToldOfChild(r)' /\ DoerLoggedAsRun(r)'
  <2>1. DoerChildIsOfRun(r) /\ DoerToldOfChild(r) /\ DoerLoggedAsRun(r)
    BY DEF DoerIInv
  <2>2. CASE run[r].at \in {"idle", "answered"}
    BY <1>1, <2>1, <2>2 DEF Doers!ApiCrash, DoerChildIsOfRun, DoerToldOfChild, DoerLoggedAsRun,
                            Doers!Logged, Doers!IsDone
  <2>3. CASE run[r].at \notin {"idle", "answered"}
    <3>1. run'[r] = [run[r] EXCEPT !.at = "lost", !.result = "none"] /\ run[r] \in DoerRunStates
      BY <2>3 DEF Doers!ApiCrash, DoerIInv, DoerTyped
    <3>2. /\ run'[r].at = "lost" /\ run'[r].result = "none" /\ run'[r].draft = run[r].draft
          /\ UNCHANGED <<child, acted, doings>>
      BY <3>1 DEF Doers!ApiCrash, DoerRunStates
    <3>3. run[r].at \notin {"idle", "starting"} => run[r].at \in DoerBegun \cup {"lost"}
      BY <2>3, <3>1 DEF DoerRunStates, DoerStates, DoerBegun
    <3>4. ~Doers!Logged("doer.completed", r) /\ ~Doers!Logged("doer.failed", r)
      BY <2>1, <2>3 DEF DoerLoggedAsRun
    <3> QED BY <2>1, <3>2, <3>3, <3>4 DEF DoerChildIsOfRun, DoerToldOfChild, DoerLoggedAsRun, Doers!Logged, DoerBegun, Doers!NoChild
  <2> QED BY <2>2, <2>3
<1> QED BY <1>1, <1>2 DEF DoerIInv

LEMMA DoerStepKeepsIInv == DoerIInv /\ [Doers!Next]_Doers!vars => DoerIInv'
<1> SUFFICES ASSUME DoerIInv, [Doers!Next]_Doers!vars PROVE DoerIInv'
  OBVIOUS
<1>1. ASSUME NEW r \in Tasks, NEW names \in BOOLEAN, Doers!RunTask(r, names) \/ Doers!LogStart(r, names)
      PROVE  DoerIInv'
  BY <1>1, DoerRunStep
<1>2. ASSUME NEW r \in Tasks, Doers!RunForDraft(r) PROVE DoerIInv'
  BY <1>2, DoerRunStep
<1>3. ASSUME NEW r \in Tasks, Doers!Acts(r) \/ Doers!Writes(r) \/ Doers!Exits(r) \/ Doers!Breaks(r) \/ Doers!Killed(r) \/ Doers!NotSpawned(r)
      PROVE  DoerIInv'
  BY <1>3, DoerChildStep
<1>4. ASSUME NEW r \in Tasks, Doers!LogFails(r) \/ Doers!Ends(r) \/ Doers!LogEnd(r) PROVE DoerIInv'
  BY <1>4, DoerLogFailsStep, DoerEndsStep, DoerLogEndStep
<1>5. CASE Doers!ApiCrash
  BY <1>5, DoerCrashStep
<1>6. CASE UNCHANGED Doers!vars
  BY <1>6 DEF Doers!vars, DoerIInv, DoerTyped, DoerChildIsOfRun, DoerToldOfChild, DoerLoggedAsRun,
              Doers!Logged, Doers!IsDone
<1> QED BY <1>1, <1>2, <1>3, <1>4, <1>5, <1>6 DEF Doers!Next

LEMMA DoerIInvTells == DoerIInv => Doers!DoersAreTold
<1> SUFFICES ASSUME DoerIInv PROVE Doers!DoersAreTold
  OBVIOUS
<1>1. Doers!DoneWasDone
  BY DEF DoerIInv, Doers!DoneWasDone, DoerChildIsOfRun, DoerToldOfChild, DoerLoggedAsRun, Doers!IsDone,
         DoerTyped, DoerRunStates
<1>2. Doers!FailedMayBeDone
  BY DEF DoerIInv, Doers!FailedMayBeDone, DoerToldOfChild
<1>3. Doers!RunsAreLogged
  BY DEF DoerIInv, Doers!RunsAreLogged, DoerLoggedAsRun
<1> QED BY <1>1, <1>2, <1>3 DEF Doers!DoersAreTold

-----------------------------------------------------------------------------
\* The log.  An event is known when it is in the log or on its way there.
LogKnows(type, d) == Delegation!Event(type, d) \in log \cup inserting

LogTyped ==
  /\ status \in [Recorded -> {"none", "DRAFTED", "APPROVED", "REJECTED", "SENT"}]
  /\ decision \in [Recorded -> {"none", "AUTO_SEND", "REVIEW", "BLOCK"}]
  /\ log \subseteq Delegation!Events /\ inserting \subseteq Delegation!Events
  /\ marking \subseteq Recorded /\ early \subseteq Recorded /\ losses \in Nat

\* Where a draft can be by the policy's decision.
LogDecisions ==
  \A d \in Recorded :
    /\ status[d] = "none" <=> decision[d] = "none"
    /\ decision[d] = "AUTO_SEND" => status[d] \in {"APPROVED", "SENT"}
    /\ decision[d] = "BLOCK" => status[d] = "REJECTED"
    /\ d \in marking => status[d] = "SENT"
    /\ d \in early => status[d] = "SENT" /\ d \notin marking /\ decision[d] = "AUTO_SEND"

\* An event that is known has happened, and its mark-sent is over.
LogHappened ==
  \A d \in Recorded :
    /\ LogKnows("outbound.sent", d) => status[d] = "SENT" /\ d \notin marking
    /\ LogKnows("draft.rejected", d) => status[d] = "REJECTED"
    /\ LogKnows("draft.auto_queued", d) => decision[d] = "AUTO_SEND"
    /\ LogKnows("draft.auto_sent", d) =>
         status[d] = "SENT" /\ d \notin marking \cup early /\ decision[d] = "AUTO_SEND"
    /\ \A type \in {"draft.approved_as_is", "draft.approved_with_edit"} :
         LogKnows(type, d) => decision[d] = "REVIEW" /\ status[d] \in {"APPROVED", "SENT"}
    /\ ~(LogKnows("draft.approved_as_is", d) /\ LogKnows("draft.approved_with_edit", d))

\* While nothing is lost what has happened is known.
LogComplete ==
  losses = 0 =>
    \A d \in Recorded :
      /\ status[d] = "SENT" /\ d \notin marking => LogKnows("outbound.sent", d)
      /\ status[d] = "SENT" /\ d \notin marking \cup early /\ decision[d] = "AUTO_SEND" =>
           LogKnows("draft.auto_sent", d)
      /\ status[d] \in {"APPROVED", "SENT"} /\ decision[d] = "REVIEW" =>
           LogKnows("draft.approved_as_is", d) \/ LogKnows("draft.approved_with_edit", d)

LogIInv == LogTyped /\ LogDecisions /\ LogHappened /\ LogComplete

LEMMA LogEvents ==
  /\ \A t, d : Delegation!Event(t, d).type = t /\ Delegation!Event(t, d).draft = d
  /\ \A t, d, u, c : Delegation!Event(t, d) = Delegation!Event(u, c) <=> t = u /\ d = c
  /\ \A t \in Delegation!Types, d \in Recorded : Delegation!Event(t, d) \in Delegation!Events
  /\ \A e \in Delegation!Events : e.type \in Delegation!Types /\ e.draft \in Recorded
                                  /\ e = Delegation!Event(e.type, e.draft)
<1>1. \A t, d : Delegation!Event(t, d).type = t /\ Delegation!Event(t, d).draft = d
  BY DEF Delegation!Event
<1>2. \A t \in Delegation!Types, d \in Recorded : Delegation!Event(t, d) \in Delegation!Events
  BY DEF Delegation!Event, Delegation!Events
<1>3. ASSUME NEW e \in Delegation!Events
      PROVE  e.type \in Delegation!Types /\ e.draft \in Recorded /\ e = Delegation!Event(e.type, e.draft)
  BY DEF Delegation!Event, Delegation!Events
<1> QED BY <1>1, <1>2, <1>3

LEMMA CardinalityIsDelegations == \A S : Delegation!Cardinality(S) = Cardinality(S)
BY DEF Delegation!Cardinality, Cardinality

LEMMA DisjointUnion ==
  ASSUME NEW S, NEW T, IsFiniteSet(S), IsFiniteSet(T), S \cap T = {}
  PROVE  IsFiniteSet(S \cup T) /\ Cardinality(S \cup T) = Cardinality(S) + Cardinality(T)
<1>1. Cardinality(S \cap T) = 0 /\ Cardinality(S) \in Nat /\ Cardinality(T) \in Nat
  BY FS_EmptySet, FS_CardinalityType
<1>2. /\ IsFiniteSet(S \cup T)
      /\ Cardinality(S \cup T) = Cardinality(S) + Cardinality(T) - Cardinality(S \cap T)
  BY FS_Union
<1> QED BY <1>1, <1>2

LEMMA LogInitIInv == Delegation!Init => LogIInv
<1> SUFFICES ASSUME Delegation!Init PROVE LogIInv
  OBVIOUS
<1>1. /\ status = [d \in Recorded |-> "none"] /\ decision = [d \in Recorded |-> "none"]
      /\ log = {} /\ inserting = {} /\ marking = {} /\ early = {} /\ losses = 0
  BY DEF Delegation!Init
<1>2. LogTyped
  BY <1>1 DEF LogTyped
<1>3. \A type, d : ~LogKnows(type, d)
  BY <1>1 DEF LogKnows
<1> QED BY <1>1, <1>2, <1>3 DEF LogIInv, LogDecisions, LogHappened, LogComplete

\* What a step inserts is known of its draft, and of no other more than before.
LEMMA LogInserts ==
  ASSUME LogIInv, NEW d \in Recorded, NEW types, types \subseteq Delegation!Types,
         Delegation!Inserts(types, d), log' = log
  PROVE  /\ inserting' \subseteq Delegation!Events
         /\ \A t, c : LogKnows(t, c)' <=> LogKnows(t, c) \/ (c = d /\ t \in types)
<1>1. inserting' = inserting \cup {Delegation!Event(type, d) : type \in types}
  BY DEF Delegation!Inserts
<1>2. \A t, c : Delegation!Event(t, c) \in {Delegation!Event(type, d) : type \in types} <=> c = d /\ t \in types
  BY LogEvents
<1>3. {Delegation!Event(type, d) : type \in types} \subseteq Delegation!Events
  BY LogEvents
<1> QED BY <1>1, <1>2, <1>3 DEF LogKnows, LogIInv, LogTyped

\* A step of one draft: what is known of the others is as before.
LEMMA LogDraftStep ==
  ASSUME LogIInv, NEW d \in Recorded,
         Delegation!Compose(d) \/ Delegation!Approve(d) \/ Delegation!Reject(d)
           \/ Delegation!MarkSent(d) \/ Delegation!Attribute(d)
  PROVE  LogIInv'
<1>1. /\ status \in [Recorded -> {"none", "DRAFTED", "APPROVED", "REJECTED", "SENT"}]
      /\ decision \in [Recorded -> {"none", "AUTO_SEND", "REVIEW", "BLOCK"}]
      /\ marking \subseteq Recorded /\ early \subseteq Recorded
  BY DEF LogIInv, LogTyped
<1>2. CASE Delegation!Compose(d)
  <2>1. PICK action \in {"AUTO_SEND", "REVIEW", "BLOCK"} :
          /\ decision' = [decision EXCEPT ![d] = action]
          /\ status' = [status EXCEPT ![d] = CASE action = "AUTO_SEND" -> "APPROVED"
                                               [] action = "BLOCK" -> "REJECTED"
                                               [] OTHER -> "DRAFTED"]
          /\ Delegation!Inserts({"policy.evaluated", "draft.created"}
                    \cup (IF action = "AUTO_SEND" THEN {"draft.auto_queued"} ELSE {})
                    \cup (IF action = "BLOCK" THEN {"draft.rejected"} ELSE {}), d)
    BY <1>2 DEF Delegation!Compose
  <2>2. /\ status[d] = "none" /\ UNCHANGED <<log, marking, early, losses>>
    BY <1>2 DEF Delegation!Compose
  <2>3. PICK types : types = {"policy.evaluated", "draft.created"}
                    \cup (IF action = "AUTO_SEND" THEN {"draft.auto_queued"} ELSE {})
                    \cup (IF action = "BLOCK" THEN {"draft.rejected"} ELSE {})
    OBVIOUS
  <2>4. /\ types \subseteq Delegation!Types
        /\ types \cap {"outbound.sent", "draft.auto_sent", "draft.approved_as_is", "draft.approved_with_edit"} = {}
        /\ "draft.auto_queued" \in types => action = "AUTO_SEND"
        /\ "draft.rejected" \in types => action = "BLOCK"
    BY <2>3 DEF Delegation!Types
  <2>5. /\ inserting' \subseteq Delegation!Events
        /\ \A t, c : LogKnows(t, c)' <=> LogKnows(t, c) \/ (c = d /\ t \in types)
    BY <2>1, <2>2, <2>3, <2>4, LogInserts
  <2>6. LogTyped'
    BY <1>1, <2>1, <2>2, <2>5 DEF LogTyped, LogIInv
  <2>7. /\ \A c \in Recorded : c # d => status'[c] = status[c] /\ decision'[c] = decision[c]
        /\ decision'[d] = action
        /\ action = "AUTO_SEND" => status'[d] = "APPROVED"
        /\ action = "BLOCK" => status'[d] = "REJECTED"
        /\ action = "REVIEW" => status'[d] = "DRAFTED"
    BY <1>1, <2>1
  <2>8. d \notin marking /\ d \notin early
    BY <2>2 DEF LogIInv, LogDecisions
  <2>9. LogDecisions'
    BY <2>2, <2>7, <2>8 DEF LogIInv, LogDecisions
  <2>10. LogHappened'
    <3>1. \A t \in {"outbound.sent", "draft.rejected", "draft.auto_queued", "draft.auto_sent",
                    "draft.approved_as_is", "draft.approved_with_edit"} : ~LogKnows(t, d)
      BY <2>2 DEF LogIInv, LogDecisions, LogHappened
    <3> QED BY <2>2, <2>4, <2>5, <2>7, <3>1 DEF LogIInv, LogHappened
  <2>11. LogComplete'
    BY <2>2, <2>5, <2>7 DEF LogIInv, LogComplete
  <2> QED BY <2>6, <2>9, <2>10, <2>11 DEF LogIInv
<1>3. CASE Delegation!Approve(d)
  <2>1. PICK edited \in {"draft.approved_as_is", "draft.approved_with_edit"}, doer \in BOOLEAN :
          /\ status' = [status EXCEPT ![d] = IF doer THEN "SENT" ELSE "APPROVED"]
          /\ Delegation!Inserts({edited} \cup (IF doer THEN {"outbound.sent"} ELSE {}), d)
    BY <1>3 DEF Delegation!Approve
  <2>2. /\ status[d] = "DRAFTED" /\ UNCHANGED <<decision, log, marking, early, losses>>
    BY <1>3 DEF Delegation!Approve
  <2>3. PICK types : types = {edited} \cup (IF doer THEN {"outbound.sent"} ELSE {})
    OBVIOUS
  <2>4. /\ types \subseteq Delegation!Types /\ edited \in types
        /\ types \cap {"draft.rejected", "draft.auto_queued", "draft.auto_sent"} = {}
        /\ \A t \in {"draft.approved_as_is", "draft.approved_with_edit"} : t \in types => t = edited
        /\ "outbound.sent" \in types <=> doer
    BY <2>3 DEF Delegation!Types
  <2>5. /\ inserting' \subseteq Delegation!Events
        /\ \A t, c : LogKnows(t, c)' <=> LogKnows(t, c) \/ (c = d /\ t \in types)
    BY <2>1, <2>2, <2>3, <2>4, LogInserts
  <2>6. /\ \A c \in Recorded : c # d => status'[c] = status[c]
        /\ status'[d] \in {"APPROVED", "SENT"} /\ (status'[d] = "SENT" <=> doer)
    BY <1>1, <2>1
  <2>7. LogTyped'
    BY <1>1, <2>1, <2>2, <2>5 DEF LogTyped, LogIInv
  <2>8. d \notin marking /\ d \notin early /\ decision[d] = "REVIEW"
    BY <1>1, <2>2 DEF LogIInv, LogDecisions
  <2>9. LogDecisions'
    BY <2>2, <2>6, <2>8 DEF LogIInv, LogDecisions
  <2>10. LogHappened'
    <3>1. \A t \in {"outbound.sent", "draft.rejected", "draft.auto_queued", "draft.auto_sent",
                    "draft.approved_as_is", "draft.approved_with_edit"} : ~LogKnows(t, d)
      BY <2>2, <2>8 DEF LogIInv, LogHappened
    <3> QED BY <2>2, <2>4, <2>5, <2>6, <2>8, <3>1 DEF LogIInv, LogHappened
  <2>11. LogComplete'
    BY <2>2, <2>4, <2>5, <2>6, <2>8 DEF LogIInv, LogComplete
  <2> QED BY <2>7, <2>9, <2>10, <2>11 DEF LogIInv
<1>4. CASE Delegation!Reject(d)
  <2>1. /\ status[d] = "DRAFTED" /\ UNCHANGED <<decision, log, marking, early, losses>>
        /\ status' = [status EXCEPT ![d] = "REJECTED"] /\ Delegation!Inserts({"draft.rejected"}, d)
    BY <1>4 DEF Delegation!Reject
  <2>2. {"draft.rejected"} \subseteq Delegation!Types
    BY DEF Delegation!Types
  <2>3. /\ inserting' \subseteq Delegation!Events
        /\ \A t, c : LogKnows(t, c)' <=> LogKnows(t, c) \/ (c = d /\ t \in {"draft.rejected"})
    BY <2>1, <2>2, LogInserts
  <2>4. LogTyped'
    BY <1>1, <2>1, <2>3 DEF LogTyped, LogIInv
  <2>5. /\ \A c \in Recorded : c # d => status'[c] = status[c]
        /\ status'[d] = "REJECTED"
    BY <1>1, <2>1
  <2>6. d \notin marking /\ d \notin early /\ decision[d] = "REVIEW"
    BY <1>1, <2>1 DEF LogIInv, LogDecisions
  <2>7. LogDecisions'
    BY <2>1, <2>5, <2>6 DEF LogIInv, LogDecisions
  <2>8. LogHappened'
    <3>1. \A t \in {"outbound.sent", "draft.auto_queued", "draft.auto_sent",
                    "draft.approved_as_is", "draft.approved_with_edit"} : ~LogKnows(t, d)
      BY <2>1, <2>6 DEF LogIInv, LogHappened
    <3> QED BY <2>1, <2>3, <2>5, <2>6, <3>1 DEF LogIInv, LogHappened
  <2>9. LogComplete'
    BY <2>1, <2>3, <2>5 DEF LogIInv, LogComplete
  <2> QED BY <2>4, <2>7, <2>8, <2>9 DEF LogIInv
<1>5. CASE Delegation!MarkSent(d)
  <2>1. /\ status[d] = "APPROVED" /\ UNCHANGED <<decision, log, inserting, early, losses>>
        /\ status' = [status EXCEPT ![d] = "SENT"] /\ marking' = marking \cup {d}
    BY <1>5 DEF Delegation!MarkSent
  <2>2. \A t, c : LogKnows(t, c)' <=> LogKnows(t, c)
    BY <2>1 DEF LogKnows
  <2>3. LogTyped'
    BY <1>1, <2>1 DEF LogTyped, LogIInv
  <2>4. /\ \A c \in Recorded : c # d => status'[c] = status[c]
        /\ status'[d] = "SENT"
    BY <1>1, <2>1
  <2>5. d \notin marking /\ d \notin early /\ decision[d] # "none" /\ decision[d] # "BLOCK"
    BY <1>1, <2>1 DEF LogIInv, LogDecisions
  <2>6. LogDecisions'
    BY <2>1, <2>4, <2>5 DEF LogIInv, LogDecisions
  <2>7. LogHappened'
    <3>1. \A t \in {"outbound.sent", "draft.auto_sent", "draft.rejected"} : ~LogKnows(t, d)
      BY <2>1 DEF LogIInv, LogHappened
    <3> QED BY <2>1, <2>2, <2>4, <3>1 DEF LogIInv, LogHappened
  <2>8. LogComplete'
    BY <2>1, <2>2, <2>4 DEF LogIInv, LogComplete
  <2> QED BY <2>3, <2>6, <2>7, <2>8 DEF LogIInv
<1>6. CASE Delegation!Attribute(d)
  <2> DEFINE queued == Delegation!DraftHasEventType(d, "draft.auto_queued")
  <2>2. /\ d \in marking /\ marking' = marking \ {d}
        /\ Delegation!Inserts({"outbound.sent"} \cup (IF queued THEN {"draft.auto_sent"} ELSE {}), d)
        /\ early' = IF decision[d] = "AUTO_SEND" /\ ~queued THEN early \cup {d} ELSE early
        /\ UNCHANGED <<status, decision, log, losses>>
    BY <1>6 DEF Delegation!Attribute
  <2>3. PICK types : types = {"outbound.sent"} \cup (IF queued THEN {"draft.auto_sent"} ELSE {})
    OBVIOUS
  <2>4. /\ types \subseteq Delegation!Types /\ "outbound.sent" \in types
        /\ types \cap {"draft.rejected", "draft.auto_queued", "draft.approved_as_is", "draft.approved_with_edit"} = {}
        /\ "draft.auto_sent" \in types <=> queued
    BY <2>3 DEF Delegation!Types
  <2>5. /\ inserting' \subseteq Delegation!Events
        /\ \A t, c : LogKnows(t, c)' <=> LogKnows(t, c) \/ (c = d /\ t \in types)
    BY <2>2, <2>3, <2>4, LogInserts
  <2>6. LogTyped'
    BY <1>1, <2>2, <2>5 DEF LogTyped, LogIInv
  <2>7. status[d] = "SENT" /\ d \notin early
    BY <2>2 DEF LogIInv, LogDecisions
  <2>8. queued => decision[d] = "AUTO_SEND"
    BY DEF LogIInv, LogHappened, LogKnows, Delegation!DraftHasEventType
  <2>9. /\ \A c \in Recorded : c # d => (c \in marking' <=> c \in marking) /\ (c \in early' <=> c \in early)
        /\ d \notin marking' /\ (d \in early' <=> decision[d] = "AUTO_SEND" /\ ~queued)
    BY <2>2, <2>7
  <2>10. LogDecisions'
    BY <2>2, <2>7, <2>9 DEF LogIInv, LogDecisions
  <2>11. LogHappened'
    BY <2>2, <2>4, <2>5, <2>7, <2>8, <2>9 DEF LogIInv, LogHappened
  <2>12. LogComplete'
    BY <2>2, <2>4, <2>5, <2>9 DEF LogIInv, LogComplete
  <2> QED BY <2>6, <2>10, <2>11, <2>12 DEF LogIInv
<1> QED BY <1>2, <1>3, <1>4, <1>5, <1>6

LEMMA LogStepKeepsIInv == LogIInv /\ [Delegation!Next]_Delegation!vars => LogIInv'
<1> SUFFICES ASSUME LogIInv, [Delegation!Next]_Delegation!vars PROVE LogIInv'
  OBVIOUS
<1>1. ASSUME NEW e \in inserting, Delegation!Inserted(e) PROVE LogIInv'
  <2>1. /\ UNCHANGED <<status, decision, marking, early, losses>>
        /\ log' \cup inserting' = log \cup inserting
    BY <1>1 DEF Delegation!Inserted
  <2>2. \A t, c : LogKnows(t, c)' <=> LogKnows(t, c)
    BY <2>1 DEF LogKnows
  <2>3. log' \subseteq log \cup inserting /\ inserting' \subseteq log \cup inserting
    BY <2>1
  <2> QED BY <2>1, <2>2, <2>3 DEF LogIInv, LogTyped, LogDecisions, LogHappened, LogComplete
<1>2. ASSUME NEW e \in inserting, Delegation!InsertFails(e) PROVE LogIInv'
  <2>1. /\ UNCHANGED <<status, decision, log, marking, early>> /\ losses' = losses + 1
        /\ inserting' \subseteq inserting
    BY <1>2 DEF Delegation!InsertFails
  <2>2. \A t, c : LogKnows(t, c)' => LogKnows(t, c)
    BY <2>1 DEF LogKnows
  <2>3. losses' \in Nat /\ losses' # 0
    BY <2>1 DEF LogIInv, LogTyped
  <2> QED BY <2>1, <2>2, <2>3 DEF LogIInv, LogTyped, LogDecisions, LogHappened, LogComplete
<1>3. CASE Delegation!ApiCrash
  <2>1. /\ UNCHANGED <<status, decision, log, early>> /\ losses' = losses + 1
        /\ inserting' = {} /\ marking' = {}
    BY <1>3 DEF Delegation!ApiCrash
  <2>2. \A t, c : LogKnows(t, c)' => LogKnows(t, c)
    BY <2>1 DEF LogKnows
  <2>3. losses' \in Nat /\ losses' # 0
    BY <2>1 DEF LogIInv, LogTyped
  <2> QED BY <2>1, <2>2, <2>3 DEF LogIInv, LogTyped, LogDecisions, LogHappened, LogComplete
<1>4. CASE UNCHANGED Delegation!vars
  BY <1>4 DEF Delegation!vars, LogIInv, LogTyped, LogDecisions, LogHappened, LogComplete, LogKnows
<1> QED BY <1>1, <1>2, <1>3, <1>4, LogDraftStep DEF Delegation!Next

-----------------------------------------------------------------------------
\* The events of a type are as many as the drafts they are about.
LEMMA LogCount ==
  ASSUME LogTyped, NEW t
  PROVE  LET logged == {e \in log : e.type = t}
             about == {d \in Recorded : Delegation!Event(t, d) \in log}
         IN  IsFiniteSet(logged) /\ Cardinality(logged) = Cardinality(about)
<1> DEFINE evs == {e \in log : e.type = t}
           ds  == {d \in Recorded : Delegation!Event(t, d) \in log}
           f   == [d \in ds |-> Delegation!Event(t, d)]
<1>1. IsFiniteSet(ds)
  BY DraftsAreCounted, FS_Subset
<1>2. \A e \in evs : e.draft \in ds /\ e = Delegation!Event(t, e.draft)
  BY LogEvents DEF LogTyped
<1>3. f \in Bijection(ds, evs)
  <2>1. \A d \in ds : f[d] \in evs
    BY LogEvents
  <2>2. f \in [ds -> evs]
    BY <2>1
  <2>3. \A c, d \in ds : f[c] = f[d] => c = d
    BY LogEvents
  <2>4. \A e \in evs : \E d \in ds : f[d] = e
    BY <1>2
  <2> QED BY <2>2, <2>3, <2>4 DEF Bijection, Injection, Surjection, IsInjective
<1>4. ExistsBijection(ds, evs)
  BY <1>3 DEF ExistsBijection
<1> QED BY <1>1, <1>4, FS_Bijection

LEMMA LogIInvTells == LogIInv => Delegation!LogTellsWhoSent
<1> SUFFICES ASSUME LogIInv PROVE Delegation!LogTellsWhoSent
  OBVIOUS
<1>1. Delegation!LogIsTrue
  <2> SUFFICES ASSUME NEW d \in Recorded
      PROVE /\ "outbound.sent" \in Delegation!Known(d) => status[d] = "SENT"
            /\ "draft.rejected" \in Delegation!Known(d) =>
                 status[d] = "REJECTED" /\ "outbound.sent" \notin Delegation!Known(d)
            /\ "draft.auto_sent" \in Delegation!Known(d) =>
                 decision[d] = "AUTO_SEND"
                   /\ Delegation!Known(d) \cap {"draft.approved_as_is", "draft.approved_with_edit"} = {}
    BY DEF Delegation!LogIsTrue
  <2>1. \A t \in Delegation!Known(d) : LogKnows(t, d)
    BY LogEvents DEF Delegation!Known, LogKnows, LogIInv, LogTyped
  <2> QED BY <2>1 DEF LogIInv, LogHappened
<1>2. \A t : Delegation!EventCount(t) = Cardinality({d \in Recorded : Delegation!Event(t, d) \in log})
  BY LogCount, CardinalityIsDelegations DEF Delegation!EventCount, LogIInv
<1>3. \A S : S \subseteq Recorded => IsFiniteSet(S) /\ Cardinality(S) \in Nat
  BY DraftsAreCounted, FS_Subset, FS_CardinalityType
<1>4. Delegation!RollupIsTrue
  <2> SUFFICES ASSUME Delegation!Settled
      PROVE /\ Delegation!Sent = Delegation!SentBy({"AUTO_SEND", "REVIEW"})
            /\ Delegation!AutoSent = Delegation!SentBy({"AUTO_SEND"}) - Delegation!Cardinality(early)
            /\ Delegation!HumanSent = Delegation!SentBy({"REVIEW"}) + Delegation!Cardinality(early)
            /\ Delegation!Approvals =
                 Delegation!Cardinality({d \in Recorded : decision[d] = "REVIEW" /\ status[d] \in {"APPROVED", "SENT"}})
    BY DEF Delegation!RollupIsTrue
  <2> DEFINE of(t)   == {d \in Recorded : Delegation!Event(t, d) \in log}
             sent    == {d \in Recorded : status[d] = "SENT"}
             auto    == {d \in Recorded : status[d] = "SENT" /\ decision[d] \in {"AUTO_SEND"}}
             review  == {d \in Recorded : status[d] = "SENT" /\ decision[d] \in {"REVIEW"}}
             approved == {d \in Recorded : decision[d] = "REVIEW" /\ status[d] \in {"APPROVED", "SENT"}}
  <2>1. inserting = {} /\ marking = {} /\ losses = 0
    BY DEF Delegation!Settled
  <2>2. \A t, d : LogKnows(t, d) <=> Delegation!Event(t, d) \in log
    BY <2>1 DEF LogKnows
  <2>3. of("outbound.sent") = {d \in Recorded : status[d] = "SENT" /\ decision[d] \in {"AUTO_SEND", "REVIEW"}}
    <3>1. \A d \in Recorded : status[d] = "SENT" => decision[d] \in {"AUTO_SEND", "REVIEW"}
      BY DEF LogIInv, LogTyped, LogDecisions
    <3>2. \A d \in Recorded : d \in of("outbound.sent") <=> status[d] = "SENT"
      BY <2>1, <2>2 DEF LogIInv, LogHappened, LogComplete
    <3> QED BY <3>1, <3>2
  <2>4. of("outbound.sent") = auto \cup review /\ auto \cap review = {}
    BY <2>3
  <2>5. of("draft.auto_sent") = auto \ early /\ early \subseteq auto
    <3>1. \A d \in Recorded : d \in of("draft.auto_sent") <=> d \in auto /\ d \notin early
      BY <2>1, <2>2 DEF LogIInv, LogHappened, LogComplete
    <3>2. early \subseteq auto
      BY DEF LogIInv, LogTyped, LogDecisions
    <3> QED BY <3>1, <3>2
  <2>6. /\ of("draft.approved_as_is") \cup of("draft.approved_with_edit") = approved
        /\ of("draft.approved_as_is") \cap of("draft.approved_with_edit") = {}
    <3>1. \A d \in Recorded :
            d \in of("draft.approved_as_is") \/ d \in of("draft.approved_with_edit") <=> d \in approved
      BY <2>1, <2>2 DEF LogIInv, LogHappened, LogComplete
    <3>2. \A d \in Recorded : ~(d \in of("draft.approved_as_is") /\ d \in of("draft.approved_with_edit"))
      BY <2>2 DEF LogIInv, LogHappened
    <3> QED BY <3>1, <3>2
  <2>7. /\ IsFiniteSet(auto) /\ IsFiniteSet(review) /\ IsFiniteSet(early)
        /\ Cardinality(auto) \in Nat /\ Cardinality(review) \in Nat /\ Cardinality(early) \in Nat
        /\ Cardinality(early) <= Cardinality(auto)
    BY <1>3, <2>5, FS_Subset DEF LogIInv, LogTyped
  <2>8. /\ Delegation!Sent = Cardinality(auto) + Cardinality(review)
        /\ Delegation!Sent = Delegation!SentBy({"AUTO_SEND", "REVIEW"})
    <3>1. Cardinality(auto \cup review) = Cardinality(auto) + Cardinality(review)
      <4> HIDE DEF auto, review
      <4> QED BY <2>4, <2>7, DisjointUnion
    <3> QED BY <1>2, <2>3, <2>4, <3>1, CardinalityIsDelegations DEF Delegation!Sent, Delegation!SentBy
  <2>9. Delegation!AutoSent = Cardinality(auto) - Cardinality(early)
    <3>1. auto \cap early = early
      BY <2>5
    <3>2. Cardinality(auto \ early) = Cardinality(auto) - Cardinality(early)
      BY <2>7, <3>1, FS_Difference
    <3> QED BY <1>2, <2>5, <3>2 DEF Delegation!AutoSent
  <2>10. Delegation!HumanSent = Cardinality(review) + Cardinality(early)
    BY <2>7, <2>8, <2>9 DEF Delegation!HumanSent
  <2>11. Delegation!Approvals = Cardinality(approved)
    <3>1. IsFiniteSet(of("draft.approved_as_is")) /\ IsFiniteSet(of("draft.approved_with_edit"))
      BY <1>3
    <3>2. Cardinality(approved) = Cardinality(of("draft.approved_as_is")) + Cardinality(of("draft.approved_with_edit"))
      <4> HIDE DEF of, approved
      <4> QED BY <2>6, <3>1, DisjointUnion
    <3> QED BY <1>2, <3>2 DEF Delegation!Approvals, Delegation!AsIs, Delegation!Edited
  <2>12. Delegation!SentBy({"AUTO_SEND"}) = Cardinality(auto) /\ Delegation!SentBy({"REVIEW"}) = Cardinality(review)
    BY CardinalityIsDelegations DEF Delegation!SentBy
  <2> QED BY <2>8, <2>9, <2>10, <2>11, <2>12, CardinalityIsDelegations
<1>5. Delegation!RatesAreShares
  <2>1. \A t : Delegation!EventCount(t) \in Nat
    BY <1>2, <1>3
  <2>2. \A action : Delegation!PolicyActionCount(action) \in Nat
    <3> SUFFICES ASSUME NEW action PROVE Delegation!PolicyActionCount(action) \in Nat
      OBVIOUS
    <3>1. /\ IsFiniteSet({e \in log : e.type = "policy.evaluated"})
      BY LogCount DEF LogIInv
    <3>2. {e \in log : e.type = "policy.evaluated" /\ decision[e.draft] = action}
            \subseteq {e \in log : e.type = "policy.evaluated"}
      OBVIOUS
    <3> QED BY <3>1, <3>2, FS_Subset, FS_CardinalityType, CardinalityIsDelegations DEF Delegation!PolicyActionCount
  <2>3. \A p, w : p \in Nat /\ w \in Nat /\ p <= w /\ Delegation!Rate(p, w) # Delegation!NoRate =>
          Delegation!Rate(p, w)[2] > 0 /\ Delegation!Rate(p, w)[1] <= Delegation!Rate(p, w)[2]
    BY DEF Delegation!Rate
  <2>4. /\ Delegation!AsIs \in Nat /\ Delegation!AsIs + Delegation!Edited \in Nat
        /\ Delegation!AsIs <= Delegation!AsIs + Delegation!Edited
    BY <2>1 DEF Delegation!AsIs, Delegation!Edited
  <2>5. /\ Delegation!PolicyTotal \in Nat
        /\ \A action \in {"AUTO_SEND", "REVIEW", "BLOCK"} :
             Delegation!PolicyActionCount(action) \in Nat /\ Delegation!PolicyActionCount(action) <= Delegation!PolicyTotal
    BY <2>2 DEF Delegation!PolicyTotal
  <2> QED BY <2>3, <2>4, <2>5 DEF Delegation!RatesAreShares, Delegation!ApprovalWithoutEditRate,
            Delegation!AutoEligibleRate, Delegation!ReviewRate, Delegation!BlockRate
<1> QED BY <1>1, <1>4, <1>5 DEF Delegation!LogTellsWhoSent

-----------------------------------------------------------------------------
\* The measurements.
MeasureRows ==
  [action : Metrics!Actions \cup {"none"}, received : Nat, approved : Nat, created : Nat, sent : Nat,
   closed : BOOLEAN, regretted : BOOLEAN]
MeasureEvents  == [type : Metrics!Types, draft : Measured, at : Nat]
MeasureInserts == [type : Metrics!Types, draft : Measured, asked : Nat]
MeasureSpans   == [of : {"draft", "approval", "send", "resolution"}, draft : Measured, takes : Int]
MeasureCounts  == [Metrics!Types -> Nat]
MeasureDays    == {Metrics!Day(t) : t \in Nat}
MeasureReports ==
  [at : {"idle", "counts", "details", "series", "done"}, since : Nat, until : Nat, quiet : BOOLEAN,
   counts : {<<>>} \cup MeasureCounts, policies : {<<>>} \cup [Metrics!Actions -> Nat],
   latencies : SUBSET MeasureSpans, regrets : Nat,
   series : {<<>>} \cup UNION {[D -> MeasureCounts] : D \in SUBSET MeasureDays}]

MeasureTyped ==
  /\ clock \in Nat \ {0}
  /\ draft \in [Measured -> MeasureRows]
  /\ events \subseteq MeasureEvents /\ IsFiniteSet(events) /\ pending \subseteq MeasureInserts
  /\ \A e \in events : e.at <= clock
  /\ \A p \in pending : p.asked <= clock
  /\ report \in MeasureReports /\ report.until <= clock

\* What happened to a draft happened in this order, and by now.
MeasureOrder(r, t) ==
  /\ r.received <= t /\ r.approved <= t /\ r.created <= t /\ r.sent <= t
  /\ r.action # "none" => r.received # 0
  /\ r.received # 0 => r.received <= t
  /\ r.created # 0 => r.action # "none" /\ r.received <= r.created
  /\ r.approved # 0 => /\ r.action \in {"AUTO_SEND", "REVIEW"} /\ r.received <= r.approved
                       /\ r.action = "REVIEW" => r.created # 0 /\ r.created <= r.approved /\ ~r.closed
  /\ r.sent # 0 => r.created # 0 /\ r.approved # 0 /\ r.approved <= r.sent /\ r.received <= r.sent
  /\ r.closed => r.created # 0 /\ r.action \in {"REVIEW", "BLOCK"}

\* An event that was asked for is of something that happened.
MeasureHas(type, r) ==
  \/ type = "inbound.enqueued" /\ r.received # 0
  \/ type = "policy.evaluated" /\ r.action # "none"
  \/ type = "draft.created" /\ r.created # 0
  \/ type = "draft.auto_queued" /\ r.created # 0 /\ r.action = "AUTO_SEND"
  \/ type = "draft.rejected" /\ r.closed
  \/ type = "draft.approved" /\ r.approved # 0 /\ r.action = "REVIEW"
  \/ type = "outbound.sent" /\ r.sent # 0
  \/ type = "draft.auto_sent" /\ r.sent # 0 /\ r.action = "AUTO_SEND"
  \/ type = "feedback.regret" /\ r.regretted

MeasureAsked(type, d)  == \E p \in pending : p.type = type /\ p.draft = d
MeasureLogged(type, d) == \E e \in events : e.type = type /\ e.draft = d

\* What happened is asked for or in the log, once.
MeasureKnown ==
  \A d \in Measured, type \in Metrics!Types :
    /\ MeasureHas(type, draft[d]) <=> MeasureAsked(type, d) \/ MeasureLogged(type, d)
    /\ ~(MeasureAsked(type, d) /\ MeasureLogged(type, d))
MeasureOnce ==
  /\ \A e, f \in events : e.type = f.type /\ e.draft = f.draft => e = f
  /\ \A p, q \in pending : p.type = q.type /\ p.draft = q.draft => p = q

\* The events of a type in the window of the report.
MeasureIn(type) == {e \in events : e.type = type /\ Metrics!In(e.at)}

\* What was counted is there still, and all there will be if nothing was under way.
MeasureCounted ==
  report.at \in {"details", "series", "done"} =>
    /\ report.counts \in MeasureCounts
    /\ \A type \in Metrics!Types : report.counts[type] <= Cardinality(MeasureIn(type))
    /\ report.quiet => /\ \A type \in Metrics!Types : report.counts[type] = Cardinality(MeasureIn(type))
                       /\ \A p \in pending : p.asked >= report.until

MeasureFunnel ==
  report.at \in {"details", "series", "done"} /\ report.quiet /\ report.since = 0 =>
    LET n(type) == report.counts[type]
    IN  /\ n("draft.created") <= n("policy.evaluated") /\ n("policy.evaluated") <= n("inbound.enqueued")
        /\ n("draft.approved") + n("draft.auto_queued") + n("draft.rejected") <= n("draft.created")
        /\ n("outbound.sent") <= n("draft.approved") + n("draft.auto_queued")
        /\ n("draft.auto_sent") <= n("draft.auto_queued")

MeasurePolicies == report.policies["AUTO_SEND"] + report.policies["REVIEW"] + report.policies["BLOCK"]
MeasureDetailed ==
  report.at \in {"series", "done"} =>
    /\ report.policies \in [Metrics!Actions -> Nat]
    /\ report.counts["policy.evaluated"] <= MeasurePolicies
    /\ MeasurePolicies <= Cardinality(MeasureIn("policy.evaluated"))
    /\ report.counts["feedback.regret"] <= report.regrets
    /\ report.regrets <= Cardinality(MeasureIn("feedback.regret"))

MeasureTimes ==
  \A span \in report.latencies :
    span.takes < 0 => span.of = "approval" /\ draft[span.draft].action = "AUTO_SEND"

\* The days have all of the window.
MeasureTotal(type) ==
  Cardinality(UNION {{day} \X (1..report.series[day][type]) : day \in DOMAIN report.series})
MeasureDaily == report.at = "done" => \A type \in Metrics!Types : MeasureTotal(type) = Cardinality(MeasureIn(type))

MeasureIInv ==
  /\ MeasureTyped /\ (\A d \in Measured : MeasureOrder(draft[d], clock)) /\ MeasureKnown /\ MeasureOnce
  /\ MeasureCounted /\ MeasureFunnel /\ MeasureDetailed /\ MeasureTimes /\ MeasureDaily

LEMMA CardinalityIsMetrics == \A S : Metrics!Cardinality(S) = Cardinality(S)
BY DEF Metrics!Cardinality, Cardinality

LEMMA MeasureFinite ==
  ASSUME MeasureTyped, NEW S, S \subseteq events
  PROVE  IsFiniteSet(S) /\ Cardinality(S) \in Nat
BY FS_Subset, FS_CardinalityType DEF MeasureTyped

LEMMA MeasureInitIInv == Metrics!Init => MeasureIInv
<1> SUFFICES ASSUME Metrics!Init PROVE MeasureIInv
  OBVIOUS
<1>1. /\ clock = 1 /\ draft = [d \in Measured |-> Metrics!NoDraft]
      /\ events = {} /\ pending = {} /\ report = Metrics!NoReport
  BY DEF Metrics!Init
<1>2. /\ report \in MeasureReports /\ report.at = "idle" /\ report.latencies = {} /\ report.until = 0
  BY <1>1 DEF Metrics!NoReport, Metrics!Never, MeasureReports
<1>3. \A d \in Measured : draft[d] \in MeasureRows /\ MeasureOrder(draft[d], 1)
  BY <1>1 DEF Metrics!NoDraft, Metrics!Never, MeasureRows, MeasureOrder
<1>4. MeasureTyped
  BY <1>1, <1>2, <1>3, FS_EmptySet DEF MeasureTyped
<1>5. \A d \in Measured, type \in Metrics!Types : ~MeasureHas(type, draft[d])
  BY <1>1 DEF Metrics!NoDraft, Metrics!Never, MeasureHas
<1>6. MeasureKnown /\ MeasureOnce
  BY <1>1, <1>5 DEF MeasureKnown, MeasureOnce, MeasureAsked, MeasureLogged
<1> QED BY <1>1, <1>2, <1>3, <1>4, <1>6
        DEF MeasureIInv, MeasureCounted, MeasureFunnel, MeasureDetailed, MeasureTimes, MeasureDaily

-----------------------------------------------------------------------------
\* What a report has said stands while the log grows by events that are not before its
\* end, if it was quiet.
LEMMA MeasureReportStays ==
  ASSUME MeasureIInv, MeasureTyped', report' = report, report.at # "done", events \subseteq events',
         report.quiet /\ report.at \in {"details", "series", "done"} =>
           /\ \A e \in events' \ events : e.at >= report.until
           /\ \A p \in pending' : p.asked >= report.until,
         \A d \in Measured : draft[d].action = "AUTO_SEND" => draft'[d].action = "AUTO_SEND"
  PROVE  MeasureCounted' /\ MeasureFunnel' /\ MeasureDetailed' /\ MeasureTimes' /\ MeasureDaily'
<1>1. \A type : MeasureIn(type) \subseteq MeasureIn(type)' /\ MeasureIn(type)' \subseteq events'
  BY DEF MeasureIn, Metrics!In
<1>2. \A type : /\ Cardinality(MeasureIn(type)) \in Nat /\ Cardinality(MeasureIn(type)') \in Nat
                /\ Cardinality(MeasureIn(type)) <= Cardinality(MeasureIn(type)')
  <2> SUFFICES ASSUME NEW type
      PROVE  /\ Cardinality(MeasureIn(type)) \in Nat /\ Cardinality(MeasureIn(type)') \in Nat
             /\ Cardinality(MeasureIn(type)) <= Cardinality(MeasureIn(type)')
    OBVIOUS
  <2>1. IsFiniteSet(events')
    BY DEF MeasureTyped
  <2>2. IsFiniteSet(MeasureIn(type)')
    BY <1>1, <2>1, FS_Subset
  <2> QED BY <1>1, <2>2, FS_Subset, FS_CardinalityType
<1>3. MeasureCounted'
  <2> SUFFICES ASSUME report.at \in {"details", "series", "done"}
      PROVE /\ report.counts \in MeasureCounts
            /\ \A type \in Metrics!Types : report.counts[type] <= Cardinality(MeasureIn(type)')
            /\ report.quiet => /\ \A type \in Metrics!Types : report.counts[type] = Cardinality(MeasureIn(type)')
                               /\ \A p \in pending' : p.asked >= report.until
    BY DEF MeasureCounted
  <2>1. /\ report.counts \in MeasureCounts
        /\ \A type \in Metrics!Types : report.counts[type] <= Cardinality(MeasureIn(type))
        /\ report.quiet => \A type \in Metrics!Types : report.counts[type] = Cardinality(MeasureIn(type))
    BY DEF MeasureIInv, MeasureCounted
  <2>2. \A type \in Metrics!Types : report.counts[type] \in Nat
    BY <2>1 DEF MeasureCounts
  <2>3. \A type \in Metrics!Types : report.counts[type] <= Cardinality(MeasureIn(type)')
    BY <1>2, <2>1, <2>2
  <2>4. ASSUME report.quiet
        PROVE  \A type \in Metrics!Types : MeasureIn(type)' = MeasureIn(type)
    <3>1. report.until \in Nat /\ \A e \in events' : e.at \in Nat
      BY DEF MeasureTyped, MeasureReports, MeasureEvents, MeasureIInv
    <3>2. \A e \in events' \ events : ~(e.at < report.until)
      BY <2>4, <3>1
    <3> QED BY <3>2 DEF MeasureIn, Metrics!In
  <2> QED BY <2>1, <2>3, <2>4
<1>4. MeasureFunnel'
  BY DEF MeasureIInv, MeasureFunnel
<1>5. MeasureDetailed'
  <2> SUFFICES ASSUME report.at \in {"series", "done"}
      PROVE /\ report.policies \in [Metrics!Actions -> Nat]
            /\ report.counts["policy.evaluated"] <= MeasurePolicies
            /\ MeasurePolicies <= Cardinality(MeasureIn("policy.evaluated")')
            /\ report.counts["feedback.regret"] <= report.regrets
            /\ report.regrets <= Cardinality(MeasureIn("feedback.regret")')
    BY DEF MeasureDetailed, MeasurePolicies
  <2>1. /\ report.policies \in [Metrics!Actions -> Nat]
        /\ report.counts["policy.evaluated"] <= MeasurePolicies
        /\ MeasurePolicies <= Cardinality(MeasureIn("policy.evaluated"))
        /\ report.counts["feedback.regret"] <= report.regrets
        /\ report.regrets <= Cardinality(MeasureIn("feedback.regret"))
    BY DEF MeasureIInv, MeasureDetailed
  <2>2. MeasurePolicies \in Nat /\ report.regrets \in Nat
    BY <2>1 DEF MeasurePolicies, Metrics!Actions, MeasureIInv, MeasureTyped, MeasureReports
  <2> QED BY <1>2, <2>1, <2>2
<1>6. MeasureTimes'
  <2>1. \A span \in report.latencies : span.draft \in Measured
    BY DEF MeasureIInv, MeasureTyped, MeasureReports, MeasureSpans
  <2> QED BY <2>1 DEF MeasureIInv, MeasureTimes
<1> QED BY <1>3, <1>4, <1>5, <1>6 DEF MeasureDaily

\* A step of a draft: it happens now, and its events are asked for now.
LEMMA MeasureMoves ==
  ASSUME MeasureIInv, report.at # "done", NEW d \in Measured, NEW next \in MeasureRows,
         NEW types, types \subseteq Metrics!Types, Metrics!Moves(d, next, types),
         MeasureOrder(next, clock),
         \A t \in Metrics!Types : MeasureHas(t, next) <=> MeasureHas(t, draft[d]) \/ t \in types,
         \A t \in types : ~MeasureHas(t, draft[d]),
         draft[d].action # "none" => next.action = draft[d].action
  PROVE  MeasureIInv'
<1> DEFINE asks == {[type |-> type, draft |-> d, asked |-> clock] : type \in types}
<1>1. /\ draft' = [draft EXCEPT ![d] = next] /\ pending' = pending \cup asks
      /\ UNCHANGED <<clock, events, report>>
  BY DEF Metrics!Moves
<1>2. /\ clock \in Nat \ {0} /\ draft \in [Measured -> MeasureRows] /\ report.until <= clock
      /\ \A p \in pending : p \in MeasureInserts /\ p.asked <= clock
      /\ report \in MeasureReports
  BY DEF MeasureIInv, MeasureTyped
<1>3. /\ asks \subseteq MeasureInserts
      /\ \A p \in asks : p.asked = clock /\ p.draft = d /\ p.type \in types
      /\ \A p, q \in asks : p.type = q.type => p = q
  <2>1. \A t \in types : [type |-> t, draft |-> d, asked |-> clock] \in MeasureInserts
    BY <1>2 DEF MeasureInserts
  <2> QED BY <2>1
<1>4. /\ draft' \in [Measured -> MeasureRows] /\ draft'[d] = next
      /\ \A c \in Measured : c # d => draft'[c] = draft[c]
  BY <1>1, <1>2
<1>5. MeasureTyped'
  <2>1. \A p \in pending' : p \in MeasureInserts /\ p.asked <= clock
    BY <1>1, <1>2, <1>3
  <2> QED BY <1>1, <1>4, <2>1 DEF MeasureIInv, MeasureTyped
<1>6. \A c \in Measured : MeasureOrder(draft'[c], clock')
  BY <1>1, <1>4 DEF MeasureIInv
<1>7. \A c \in Measured, t \in Metrics!Types :
        /\ MeasureAsked(t, c)' <=> MeasureAsked(t, c) \/ (c = d /\ t \in types)
        /\ MeasureLogged(t, c)' <=> MeasureLogged(t, c)
  <2> SUFFICES ASSUME NEW c \in Measured, NEW t \in Metrics!Types
      PROVE /\ MeasureAsked(t, c)' <=> MeasureAsked(t, c) \/ (c = d /\ t \in types)
            /\ MeasureLogged(t, c)' <=> MeasureLogged(t, c)
    OBVIOUS
  <2>1. MeasureLogged(t, c)' <=> MeasureLogged(t, c)
    BY <1>1 DEF MeasureLogged
  <2>2. MeasureAsked(t, c)' => MeasureAsked(t, c) \/ (c = d /\ t \in types)
    BY <1>1, <1>3 DEF MeasureAsked
  <2>3. MeasureAsked(t, c) => MeasureAsked(t, c)'
    BY <1>1 DEF MeasureAsked
  <2>4. ASSUME c = d, t \in types PROVE MeasureAsked(t, c)'
    <3>1. [type |-> t, draft |-> d, asked |-> clock] \in pending'
      BY <1>1, <2>4
    <3> QED BY <2>4, <3>1 DEF MeasureAsked
  <2> QED BY <2>1, <2>2, <2>3, <2>4
<1>8. MeasureKnown'
  <2> SUFFICES ASSUME NEW c \in Measured, NEW t \in Metrics!Types
      PROVE /\ MeasureHas(t, draft'[c]) <=> MeasureAsked(t, c)' \/ MeasureLogged(t, c)'
            /\ ~(MeasureAsked(t, c)' /\ MeasureLogged(t, c)')
    BY DEF MeasureKnown, MeasureHas
  <2>1. /\ MeasureHas(t, draft[c]) <=> MeasureAsked(t, c) \/ MeasureLogged(t, c)
        /\ ~(MeasureAsked(t, c) /\ MeasureLogged(t, c))
    BY DEF MeasureIInv, MeasureKnown
  <2>2. CASE c = d
    BY <1>4, <1>7, <2>1, <2>2
  <2>3. CASE c # d
    BY <1>4, <1>7, <2>1, <2>3
  <2> QED BY <2>2, <2>3
<1>9. MeasureOnce'
  <2>1. \A p \in pending, q \in asks : ~(p.type = q.type /\ p.draft = q.draft)
    <3> SUFFICES ASSUME NEW p \in pending, NEW q \in asks, p.type = q.type, p.draft = q.draft PROVE FALSE
      OBVIOUS
    <3>1. MeasureAsked(q.type, d) /\ q.type \in types
      BY <1>3 DEF MeasureAsked
    <3>2. MeasureHas(q.type, draft[d])
      BY <3>1 DEF MeasureIInv, MeasureKnown
    <3> QED BY <3>1, <3>2
  <2>2. \A p, q \in pending' : p.type = q.type /\ p.draft = q.draft => p = q
    BY <1>1, <1>3, <2>1 DEF MeasureIInv, MeasureOnce
  <2> QED BY <1>1, <2>2 DEF MeasureIInv, MeasureOnce
<1>10. MeasureCounted' /\ MeasureFunnel' /\ MeasureDetailed' /\ MeasureTimes' /\ MeasureDaily'
  <2>1. report.quiet /\ report.at \in {"details", "series", "done"} =>
          /\ \A e \in events' \ events : e.at >= report.until
          /\ \A p \in pending' : p.asked >= report.until
    <3>1. report.until \in Nat
      BY <1>2 DEF MeasureReports
    <3>2. \A p \in asks : p.asked >= report.until
      BY <1>2, <1>3, <3>1
    <3> QED BY <1>1, <3>2 DEF MeasureIInv, MeasureCounted
  <2>2. \A c \in Measured : draft[c].action = "AUTO_SEND" => draft'[c].action = "AUTO_SEND"
    BY <1>4
  <2> QED BY <1>1, <1>5, <2>1, <2>2, MeasureReportStays
<1> QED BY <1>5, <1>6, <1>8, <1>9, <1>10 DEF MeasureIInv

LEMMA MeasureDraftStep ==
  ASSUME MeasureIInv, report.at # "done", NEW d \in Measured,
         \/ Metrics!Receive(d) \/ Metrics!InsertDraft(d) \/ Metrics!Triage(d) \/ Metrics!Deliver(d)
         \/ Metrics!Regret(d) \/ \E action \in Metrics!Actions : Metrics!Decide(d, action)
  PROVE  MeasureIInv'
<1>1. PICK r \in MeasureRows : r = draft[d]
  BY DEF MeasureIInv, MeasureTyped
<1>2. MeasureOrder(r, clock) /\ clock \in Nat \ {0}
  BY <1>1 DEF MeasureIInv, MeasureTyped
<1>3. /\ r.action \in {"AUTO_SEND", "REVIEW", "BLOCK", "none"} /\ r.closed \in BOOLEAN /\ r.regretted \in BOOLEAN
      /\ r.received \in Nat /\ r.approved \in Nat /\ r.created \in Nat /\ r.sent \in Nat
  BY DEF MeasureRows, Metrics!Actions
<1>4. CASE Metrics!Receive(d)
  <2>1. PICK next : next = [r EXCEPT !.received = clock]
    OBVIOUS
  <2>2. r.received = 0 /\ Metrics!Moves(d, next, {"inbound.enqueued"})
    BY <1>1, <1>4, <2>1 DEF Metrics!Receive, Metrics!Never
  <2>3. /\ next \in MeasureRows /\ next.received = clock /\ next.action = r.action /\ next.approved = r.approved
        /\ next.created = r.created /\ next.sent = r.sent /\ next.closed = r.closed /\ next.regretted = r.regretted
    BY <1>2, <2>1 DEF MeasureRows
  <2>4. MeasureOrder(next, clock)
    BY <1>2, <1>3, <2>2, <2>3 DEF MeasureOrder
  <2>5. \A t \in Metrics!Types : MeasureHas(t, next) <=> MeasureHas(t, r) \/ t \in {"inbound.enqueued"}
    BY <1>2, <2>2, <2>3 DEF MeasureHas
  <2>6. \A t \in {"inbound.enqueued"} : ~MeasureHas(t, r)
    BY <2>2 DEF MeasureHas
  <2>7. {"inbound.enqueued"} \subseteq Metrics!Types
    BY DEF Metrics!Types
  <2> QED BY <1>1, <2>2, <2>3, <2>4, <2>5, <2>6, <2>7, MeasureMoves
<1>5. ASSUME NEW action \in Metrics!Actions, Metrics!Decide(d, action) PROVE MeasureIInv'
  <2>1. PICK approved \in Nat : approved = IF action = "AUTO_SEND" THEN clock ELSE 0
    BY <1>2
  <2>2. PICK next : next = [r EXCEPT !.action = action, !.approved = approved]
    OBVIOUS
  <2>3. r.received # 0 /\ r.action = "none" /\ Metrics!Moves(d, next, {"policy.evaluated"})
    BY <1>1, <1>5, <2>1, <2>2 DEF Metrics!Decide, Metrics!Never
  <2>4. /\ next \in MeasureRows /\ next.received = r.received /\ next.action = action /\ next.approved = approved
        /\ next.created = r.created /\ next.sent = r.sent /\ next.closed = r.closed /\ next.regretted = r.regretted
    BY <1>2, <2>1, <2>2 DEF MeasureRows
  <2>5. action \in {"AUTO_SEND", "REVIEW", "BLOCK"}
    BY DEF Metrics!Actions
  <2>6. r.created = 0 /\ r.sent = 0 /\ ~r.closed /\ r.approved = 0
    BY <1>2, <1>3, <2>3 DEF MeasureOrder
  <2>7. MeasureOrder(next, clock)
    BY <1>2, <1>3, <2>1, <2>3, <2>4, <2>5, <2>6 DEF MeasureOrder
  <2>8. \A t \in Metrics!Types : MeasureHas(t, next) <=> MeasureHas(t, r) \/ t \in {"policy.evaluated"}
    BY <2>1, <2>3, <2>4, <2>5, <2>6 DEF MeasureHas
  <2>9. \A t \in {"policy.evaluated"} : ~MeasureHas(t, r)
    BY <2>3 DEF MeasureHas
  <2>10. {"policy.evaluated"} \subseteq Metrics!Types
    BY DEF Metrics!Types
  <2> QED BY <1>1, <2>3, <2>4, <2>7, <2>8, <2>9, <2>10, MeasureMoves
<1>6. CASE Metrics!InsertDraft(d)
  <2>1. PICK next : next = [r EXCEPT !.created = clock, !.closed = r.action = "BLOCK"]
    OBVIOUS
  <2>2. PICK types : types = {"draft.created"} \cup (CASE r.action = "AUTO_SEND" -> {"draft.auto_queued"}
                                                       [] r.action = "BLOCK" -> {"draft.rejected"}
                                                       [] OTHER -> {})
    OBVIOUS
  <2>3. r.action # "none" /\ r.created = 0 /\ Metrics!Moves(d, next, types)
    BY <1>1, <1>6, <2>1, <2>2 DEF Metrics!InsertDraft, Metrics!Never
  <2>4. /\ next \in MeasureRows /\ next.received = r.received /\ next.action = r.action /\ next.approved = r.approved
        /\ next.created = clock /\ next.sent = r.sent /\ (next.closed <=> r.action = "BLOCK")
        /\ next.regretted = r.regretted
    BY <1>2, <2>1 DEF MeasureRows
  <2>5. r.sent = 0 /\ ~r.closed /\ (r.action # "AUTO_SEND" => r.approved = 0)
    BY <1>2, <1>3, <2>3 DEF MeasureOrder
  <2>6. MeasureOrder(next, clock)
    BY <1>2, <1>3, <2>3, <2>4, <2>5 DEF MeasureOrder
  <2>7. \A t : t \in types <=> \/ t = "draft.created"
                               \/ t = "draft.auto_queued" /\ r.action = "AUTO_SEND"
                               \/ t = "draft.rejected" /\ r.action = "BLOCK"
    <3>1. CASE r.action = "AUTO_SEND"
      BY <2>2, <3>1
    <3>2. CASE r.action = "BLOCK"
      BY <2>2, <3>2
    <3>3. CASE r.action \notin {"AUTO_SEND", "BLOCK"}
      BY <2>2, <3>3
    <3> QED BY <3>1, <3>2, <3>3
  <2>8. \A t \in Metrics!Types : MeasureHas(t, next) <=> MeasureHas(t, r) \/ t \in types
    BY <1>2, <1>3, <2>3, <2>4, <2>5, <2>7 DEF MeasureHas
  <2>9. \A t \in types : ~MeasureHas(t, r)
    BY <2>3, <2>5, <2>7 DEF MeasureHas
  <2>10. types \subseteq Metrics!Types
    BY <2>7 DEF Metrics!Types
  <2> QED BY <1>1, <2>3, <2>4, <2>6, <2>8, <2>9, <2>10, MeasureMoves
<1>7. CASE Metrics!Triage(d)
  <2>1. r.action = "REVIEW" /\ r.created # 0 /\ ~r.closed /\ r.approved = 0
    BY <1>1, <1>7 DEF Metrics!Triage, Metrics!Never
  <2>2. r.sent = 0
    BY <1>2, <1>3, <2>1 DEF MeasureOrder
  <2>3. CASE Metrics!Moves(d, [draft[d] EXCEPT !.approved = clock], {"draft.approved"})
    <3>1. PICK next : next = [r EXCEPT !.approved = clock]
      OBVIOUS
    <3>2. Metrics!Moves(d, next, {"draft.approved"})
      BY <1>1, <2>3, <3>1
    <3>3. /\ next \in MeasureRows /\ next.received = r.received /\ next.action = r.action /\ next.approved = clock
          /\ next.created = r.created /\ next.sent = r.sent /\ next.closed = r.closed /\ next.regretted = r.regretted
      BY <1>2, <3>1 DEF MeasureRows
    <3>4. MeasureOrder(next, clock)
      BY <1>2, <1>3, <2>1, <2>2, <3>3 DEF MeasureOrder
    <3>5. \A t \in Metrics!Types : MeasureHas(t, next) <=> MeasureHas(t, r) \/ t \in {"draft.approved"}
      BY <1>2, <2>1, <2>2, <3>3 DEF MeasureHas
    <3>6. \A t \in {"draft.approved"} : ~MeasureHas(t, r)
      BY <2>1 DEF MeasureHas
    <3>7. {"draft.approved"} \subseteq Metrics!Types
      BY DEF Metrics!Types
    <3> QED BY <1>1, <3>2, <3>3, <3>4, <3>5, <3>6, <3>7, MeasureMoves
  <2>4. CASE Metrics!Moves(d, [draft[d] EXCEPT !.closed = TRUE], {"draft.rejected"})
    <3>1. PICK next : next = [r EXCEPT !.closed = TRUE]
      OBVIOUS
    <3>2. Metrics!Moves(d, next, {"draft.rejected"})
      BY <1>1, <2>4, <3>1
    <3>3. /\ next \in MeasureRows /\ next.received = r.received /\ next.action = r.action /\ next.approved = r.approved
          /\ next.created = r.created /\ next.sent = r.sent /\ next.closed /\ next.regretted = r.regretted
      BY <3>1 DEF MeasureRows
    <3>4. MeasureOrder(next, clock)
      BY <1>2, <1>3, <2>1, <2>2, <3>3 DEF MeasureOrder
    <3>5. \A t \in Metrics!Types : MeasureHas(t, next) <=> MeasureHas(t, r) \/ t \in {"draft.rejected"}
      BY <2>1, <2>2, <3>3 DEF MeasureHas
    <3>6. \A t \in {"draft.rejected"} : ~MeasureHas(t, r)
      BY <2>1 DEF MeasureHas
    <3>7. {"draft.rejected"} \subseteq Metrics!Types
      BY DEF Metrics!Types
    <3> QED BY <1>1, <3>2, <3>3, <3>4, <3>5, <3>6, <3>7, MeasureMoves
  <2> QED BY <1>7, <2>3, <2>4 DEF Metrics!Triage
<1>8. CASE Metrics!Deliver(d)
  <2>1. PICK next : next = [r EXCEPT !.sent = clock]
    OBVIOUS
  <2>2. PICK types : types = {"outbound.sent"} \cup (IF r.action = "AUTO_SEND" THEN {"draft.auto_sent"} ELSE {})
    OBVIOUS
  <2>3. r.created # 0 /\ r.approved # 0 /\ r.sent = 0 /\ Metrics!Moves(d, next, types)
    BY <1>1, <1>8, <2>1, <2>2 DEF Metrics!Deliver, Metrics!Never
  <2>4. /\ next \in MeasureRows /\ next.received = r.received /\ next.action = r.action /\ next.approved = r.approved
        /\ next.created = r.created /\ next.sent = clock /\ next.closed = r.closed /\ next.regretted = r.regretted
    BY <1>2, <2>1 DEF MeasureRows
  <2>5. MeasureOrder(next, clock)
    BY <1>2, <1>3, <2>3, <2>4 DEF MeasureOrder
  <2>6. \A t : t \in types <=> t = "outbound.sent" \/ (t = "draft.auto_sent" /\ r.action = "AUTO_SEND")
    BY <2>2
  <2>7. \A t \in Metrics!Types : MeasureHas(t, next) <=> MeasureHas(t, r) \/ t \in types
    BY <1>2, <2>3, <2>4, <2>6 DEF MeasureHas
  <2>8. \A t \in types : ~MeasureHas(t, r)
    BY <2>3, <2>6 DEF MeasureHas
  <2>9. types \subseteq Metrics!Types
    BY <2>6 DEF Metrics!Types
  <2> QED BY <1>1, <2>3, <2>4, <2>5, <2>7, <2>8, <2>9, MeasureMoves
<1>9. CASE Metrics!Regret(d)
  <2>1. PICK next : next = [r EXCEPT !.regretted = TRUE]
    OBVIOUS
  <2>2. ~r.regretted /\ Metrics!Moves(d, next, {"feedback.regret"})
    BY <1>1, <1>9, <2>1 DEF Metrics!Regret
  <2>3. /\ next \in MeasureRows /\ next.received = r.received /\ next.action = r.action /\ next.approved = r.approved
        /\ next.created = r.created /\ next.sent = r.sent /\ next.closed = r.closed /\ next.regretted
    BY <2>1 DEF MeasureRows
  <2>4. MeasureOrder(next, clock)
    BY <1>2, <1>3, <2>3 DEF MeasureOrder
  <2>5. \A t \in Metrics!Types : MeasureHas(t, next) <=> MeasureHas(t, r) \/ t \in {"feedback.regret"}
    BY <2>2, <2>3 DEF MeasureHas
  <2>6. \A t \in {"feedback.regret"} : ~MeasureHas(t, r)
    BY <2>2 DEF MeasureHas
  <2>7. {"feedback.regret"} \subseteq Metrics!Types
    BY DEF Metrics!Types
  <2> QED BY <1>1, <2>2, <2>3, <2>4, <2>5, <2>6, <2>7, MeasureMoves
<1> QED BY <1>4, <1>5, <1>6, <1>7, <1>8, <1>9

\* The clock ticks, or nothing happens.
LEMMA MeasureTick ==
  ASSUME MeasureIInv, UNCHANGED <<draft, events, pending, report>>,
         clock' = clock \/ clock' = clock + 1
  PROVE  MeasureIInv'
<1>1. MeasureTyped'
  <2>1. clock \in Nat \ {0} /\ clock' \in Nat \ {0} /\ clock <= clock'
    BY DEF MeasureIInv, MeasureTyped
  <2>2. \A e \in events : e.at \in Nat /\ e.at <= clock
    BY DEF MeasureIInv, MeasureTyped, MeasureEvents
  <2>3. \A p \in pending : p.asked \in Nat /\ p.asked <= clock
    BY DEF MeasureIInv, MeasureTyped, MeasureInserts
  <2>4. report.until \in Nat /\ report.until <= clock
    BY DEF MeasureIInv, MeasureTyped, MeasureReports
  <2>5. /\ \A e \in events : e.at <= clock'
        /\ \A p \in pending : p.asked <= clock'
        /\ report.until <= clock'
    BY <2>1, <2>2, <2>3, <2>4
  <2> QED BY <2>1, <2>5 DEF MeasureIInv, MeasureTyped
<1>2. \A d \in Measured : MeasureOrder(draft'[d], clock')
  <2> SUFFICES ASSUME NEW d \in Measured PROVE MeasureOrder(draft[d], clock')
    OBVIOUS
  <2>1. PICK r \in MeasureRows : r = draft[d]
    BY DEF MeasureIInv, MeasureTyped
  <2>2. /\ r.received \in Nat /\ r.approved \in Nat /\ r.created \in Nat /\ r.sent \in Nat
        /\ clock \in Nat /\ clock' \in Nat /\ clock <= clock'
    BY DEF MeasureRows, MeasureIInv, MeasureTyped
  <2>3. MeasureOrder(r, clock)
    BY <2>1 DEF MeasureIInv
  <2> QED BY <2>1, <2>2, <2>3 DEF MeasureOrder
<1>3. MeasureKnown' /\ MeasureOnce'
  BY DEF MeasureIInv, MeasureKnown, MeasureOnce, MeasureHas, MeasureAsked, MeasureLogged
<1>4. MeasureCounted' /\ MeasureFunnel' /\ MeasureDetailed' /\ MeasureTimes' /\ MeasureDaily'
  BY DEF MeasureIInv, MeasureCounted, MeasureFunnel, MeasureDetailed, MeasurePolicies, MeasureTimes,
         MeasureDaily, MeasureTotal, MeasureIn, Metrics!In
<1> QED BY <1>1, <1>2, <1>3, <1>4 DEF MeasureIInv

\* An insert is done.
LEMMA MeasureInserted ==
  ASSUME MeasureIInv, report.at # "done", NEW p \in pending, Metrics!Inserted(p)
  PROVE  MeasureIInv'
<1>1. PICK at \in {p.asked, clock} :
        events' = events \cup {[type |-> p.type, draft |-> p.draft, at |-> at]}
  BY DEF Metrics!Inserted
<1>2. PICK new : new = [type |-> p.type, draft |-> p.draft, at |-> at]
  OBVIOUS
<1>3. /\ events' = events \cup {new} /\ pending' = pending \ {p} /\ UNCHANGED <<clock, draft, report>>
      /\ new.type = p.type /\ new.draft = p.draft /\ new.at = at
  BY <1>1, <1>2 DEF Metrics!Inserted
<1>4. /\ p.type \in Metrics!Types /\ p.draft \in Measured /\ p.asked \in Nat /\ p.asked <= clock
      /\ clock \in Nat /\ report.until \in Nat /\ report.until <= clock
  BY DEF MeasureIInv, MeasureTyped, MeasureInserts, MeasureReports
<1>5. new \in MeasureEvents /\ new.at <= clock
  BY <1>2, <1>4 DEF MeasureEvents
<1>6. MeasureTyped'
  <2>1. IsFiniteSet(events')
    BY <1>3, FS_AddElement DEF MeasureIInv, MeasureTyped
  <2>2. events' \subseteq MeasureEvents /\ \A e \in events' : e.at <= clock
    BY <1>3, <1>5 DEF MeasureIInv, MeasureTyped
  <2> QED BY <1>3, <2>1, <2>2 DEF MeasureIInv, MeasureTyped
<1>7. MeasureAsked(p.type, p.draft) /\ ~MeasureLogged(p.type, p.draft)
  BY <1>4 DEF MeasureAsked, MeasureIInv, MeasureKnown
<1>8. \A d \in Measured, t \in Metrics!Types :
        /\ MeasureAsked(t, d)' <=> MeasureAsked(t, d) /\ ~(t = p.type /\ d = p.draft)
        /\ MeasureLogged(t, d)' <=> MeasureLogged(t, d) \/ (t = p.type /\ d = p.draft)
  <2> SUFFICES ASSUME NEW d \in Measured, NEW t \in Metrics!Types
      PROVE /\ MeasureAsked(t, d)' <=> MeasureAsked(t, d) /\ ~(t = p.type /\ d = p.draft)
            /\ MeasureLogged(t, d)' <=> MeasureLogged(t, d) \/ (t = p.type /\ d = p.draft)
    OBVIOUS
  <2>1. \A q \in pending : q.type = p.type /\ q.draft = p.draft => q = p
    BY DEF MeasureIInv, MeasureOnce
  <2>2. MeasureAsked(t, d)' <=> MeasureAsked(t, d) /\ ~(t = p.type /\ d = p.draft)
    BY <1>3, <2>1 DEF MeasureAsked
  <2>3. MeasureLogged(t, d)' <=> MeasureLogged(t, d) \/ (t = p.type /\ d = p.draft)
    BY <1>3 DEF MeasureLogged
  <2> QED BY <2>2, <2>3
<1>9. MeasureKnown'
  <2> SUFFICES ASSUME NEW c \in Measured, NEW t \in Metrics!Types
      PROVE /\ MeasureHas(t, draft[c]) <=> MeasureAsked(t, c)' \/ MeasureLogged(t, c)'
            /\ ~(MeasureAsked(t, c)' /\ MeasureLogged(t, c)')
    BY <1>3 DEF MeasureKnown, MeasureHas
  <2>1. /\ MeasureHas(t, draft[c]) <=> MeasureAsked(t, c) \/ MeasureLogged(t, c)
        /\ ~(MeasureAsked(t, c) /\ MeasureLogged(t, c))
    BY DEF MeasureIInv, MeasureKnown
  <2>2. CASE t = p.type /\ c = p.draft
    BY <1>7, <1>8, <2>1, <2>2
  <2>3. CASE ~(t = p.type /\ c = p.draft)
    BY <1>8, <2>1, <2>3
  <2> QED BY <2>2, <2>3
<1>10. MeasureOnce'
  <2>1. \A e \in events : ~(e.type = new.type /\ e.draft = new.draft)
    BY <1>3, <1>7 DEF MeasureLogged
  <2> QED BY <1>3, <2>1 DEF MeasureIInv, MeasureOnce
<1>11. \A d \in Measured : MeasureOrder(draft'[d], clock')
  BY <1>3 DEF MeasureIInv
<1>12. MeasureCounted' /\ MeasureFunnel' /\ MeasureDetailed' /\ MeasureTimes' /\ MeasureDaily'
  <2>1. report.quiet /\ report.at \in {"details", "series", "done"} => \A q \in pending : q.asked >= report.until
    BY DEF MeasureIInv, MeasureCounted
  <2>2. report.quiet /\ report.at \in {"details", "series", "done"} => new.at >= report.until
    BY <1>3, <1>4, <2>1
  <2>3. report.quiet /\ report.at \in {"details", "series", "done"} =>
          /\ \A e \in events' \ events : e.at >= report.until
          /\ \A q \in pending' : q.asked >= report.until
    BY <1>3, <2>1, <2>2
  <2>4. events \subseteq events' /\ \A d \in Measured : draft[d].action = "AUTO_SEND" => draft'[d].action = "AUTO_SEND"
    BY <1>3
  <2> QED BY <1>3, <1>6, <2>3, <2>4, MeasureReportStays
<1> QED BY <1>6, <1>9, <1>10, <1>11, <1>12 DEF MeasureIInv

-----------------------------------------------------------------------------
\* A statement of the report only reads.
LEMMA MeasureReads ==
  ASSUME MeasureIInv, UNCHANGED <<clock, draft, events, pending>>,
         report' \in MeasureReports, report'.until <= clock
  PROVE  MeasureTyped' /\ (\A d \in Measured : MeasureOrder(draft'[d], clock')) /\ MeasureKnown' /\ MeasureOnce'
<1>1. MeasureTyped'
  BY DEF MeasureIInv, MeasureTyped
<1>2. MeasureKnown' /\ MeasureOnce'
  BY DEF MeasureIInv, MeasureKnown, MeasureOnce, MeasureHas, MeasureAsked, MeasureLogged
<1> QED BY <1>1, <1>2 DEF MeasureIInv

\* When no insert is under way, the events of a type are as many as the drafts they are of.
LEMMA MeasureCount ==
  ASSUME MeasureIInv, pending = {}, NEW t \in Metrics!Types
  PROVE  Cardinality({e \in events : e.type = t}) = Cardinality({d \in Measured : MeasureHas(t, draft[d])})
<1> DEFINE evs == {e \in events : e.type = t}
           ds  == {d \in Measured : MeasureHas(t, draft[d])}
           f   == [e \in evs |-> e.draft]
<1>1. IsFiniteSet(evs)
  BY MeasureFinite DEF MeasureIInv
<1>2. \A d \in Measured : MeasureHas(t, draft[d]) <=> MeasureLogged(t, d)
  BY DEF MeasureIInv, MeasureKnown, MeasureAsked
<1>3. f \in Bijection(evs, ds)
  <2>1. \A e \in evs : f[e] \in ds
    BY <1>2 DEF MeasureLogged, MeasureIInv, MeasureTyped, MeasureEvents
  <2>2. f \in [evs -> ds]
    BY <2>1
  <2>3. \A e, g \in evs : f[e] = f[g] => e = g
    BY DEF MeasureIInv, MeasureOnce
  <2>4. \A d \in ds : \E e \in evs : f[e] = d
    BY <1>2 DEF MeasureLogged
  <2> QED BY <2>2, <2>3, <2>4 DEF Bijection, Injection, Surjection, IsInjective
<1>4. ExistsBijection(evs, ds)
  BY <1>3 DEF ExistsBijection
<1> QED BY <1>1, <1>4, FS_Bijection

\* What the drafts have went through the funnel.
LEMMA MeasureNarrows ==
  ASSUME MeasureIInv
  PROVE  LET n(type) == Cardinality({d \in Measured : MeasureHas(type, draft[d])})
         IN  /\ n("draft.created") <= n("policy.evaluated") /\ n("policy.evaluated") <= n("inbound.enqueued")
             /\ n("draft.approved") + n("draft.auto_queued") + n("draft.rejected") <= n("draft.created")
             /\ n("outbound.sent") <= n("draft.approved") + n("draft.auto_queued")
             /\ n("draft.auto_sent") <= n("draft.auto_queued")
<1> DEFINE has(type) == {d \in Measured : MeasureHas(type, draft[d])}
<1>1. \A S : S \subseteq Measured => IsFiniteSet(S) /\ Cardinality(S) \in Nat
  BY DraftsAreCounted, FS_Subset, FS_CardinalityType
<1>2. \A S, T : S \subseteq T /\ T \subseteq Measured => Cardinality(S) <= Cardinality(T)
  BY <1>1, FS_Subset
<1>3. /\ has("draft.created") \subseteq has("policy.evaluated")
      /\ has("policy.evaluated") \subseteq has("inbound.enqueued")
      /\ has("draft.auto_sent") \subseteq has("draft.auto_queued")
  BY DEF MeasureHas, MeasureIInv, MeasureOrder
<1>4. /\ has("draft.approved") \cap has("draft.auto_queued") = {}
      /\ (has("draft.approved") \cup has("draft.auto_queued")) \cap has("draft.rejected") = {}
      /\ (has("draft.approved") \cup has("draft.auto_queued")) \cup has("draft.rejected") \subseteq has("draft.created")
      /\ has("outbound.sent") \subseteq has("draft.approved") \cup has("draft.auto_queued")
  BY DEF MeasureHas, MeasureIInv, MeasureOrder
<1>5. \A type : has(type) \subseteq Measured
  OBVIOUS
<1> HIDE DEF has
<1>6. Cardinality(has("draft.approved") \cup has("draft.auto_queued")) =
        Cardinality(has("draft.approved")) + Cardinality(has("draft.auto_queued"))
  BY <1>1, <1>4, <1>5, DisjointUnion
<1>7. Cardinality((has("draft.approved") \cup has("draft.auto_queued")) \cup has("draft.rejected")) =
        Cardinality(has("draft.approved") \cup has("draft.auto_queued")) + Cardinality(has("draft.rejected"))
  BY <1>1, <1>4, <1>5, DisjointUnion
<1>8. /\ Cardinality(has("draft.created")) <= Cardinality(has("policy.evaluated"))
      /\ Cardinality(has("policy.evaluated")) <= Cardinality(has("inbound.enqueued"))
      /\ Cardinality(has("draft.auto_sent")) <= Cardinality(has("draft.auto_queued"))
      /\ Cardinality((has("draft.approved") \cup has("draft.auto_queued")) \cup has("draft.rejected"))
           <= Cardinality(has("draft.created"))
      /\ Cardinality(has("outbound.sent")) <= Cardinality(has("draft.approved") \cup has("draft.auto_queued"))
  BY <1>2, <1>3, <1>4, <1>5
<1> QED BY <1>6, <1>7, <1>8 DEF has

LEMMA MeasureAsk ==
  ASSUME MeasureIInv, NEW days \in {1, MaxTime}, Metrics!Ask(days)
  PROVE  MeasureIInv'
<1>1. clock \in Nat /\ UNCHANGED <<clock, draft, events, pending>>
  BY DEF Metrics!Ask, MeasureIInv, MeasureTyped
<1>2. PICK since : since = IF clock > days * DayLength THEN clock - days * DayLength ELSE 0
  OBVIOUS
<1>3. since \in Nat
  <2>1. days * DayLength \in Nat
    BY TimesAreTicks
  <2> QED BY <1>1, <1>2, <2>1
<1>4. report' = [Metrics!NoReport EXCEPT !.at = "counts", !.until = clock, !.since = since]
  BY <1>2 DEF Metrics!Ask, Metrics!Never
<1>5. report' \in MeasureReports /\ report'.at = "counts" /\ report'.until = clock /\ report'.latencies = {}
  BY <1>1, <1>3, <1>4 DEF MeasureReports, Metrics!NoReport, Metrics!Never
<1>6. MeasureTyped' /\ (\A d \in Measured : MeasureOrder(draft'[d], clock')) /\ MeasureKnown' /\ MeasureOnce'
  BY <1>1, <1>5, MeasureReads
<1> QED BY <1>5, <1>6 DEF MeasureIInv, MeasureCounted, MeasureFunnel, MeasureDetailed, MeasureTimes, MeasureDaily

LEMMA MeasureCountsEvents == MeasureIInv /\ Metrics!CountEvents => MeasureIInv'
<1> SUFFICES ASSUME MeasureIInv, Metrics!CountEvents PROVE MeasureIInv'
  OBVIOUS
<1>1. PICK r \in MeasureReports : r = report
  BY DEF MeasureIInv, MeasureTyped
<1>2. PICK q \in BOOLEAN : q <=> Metrics!Quiet
  OBVIOUS
<1>3. PICK counts : counts = [type \in Metrics!Types |-> Cardinality(MeasureIn(type))]
  OBVIOUS
<1>4. \A type : MeasureIn(type) \subseteq events /\ Cardinality(MeasureIn(type)) \in Nat
  BY MeasureFinite DEF MeasureIn, MeasureIInv
<1>5. counts \in MeasureCounts
  BY <1>3, <1>4 DEF MeasureCounts
<1>6. Metrics!EventCounts = counts
  BY <1>3, CardinalityIsMetrics DEF Metrics!EventCounts, MeasureIn
<1>7. /\ report' = [r EXCEPT !.at = "details", !.counts = counts, !.quiet = Metrics!Quiet]
      /\ r.at = "counts" /\ UNCHANGED <<clock, draft, events, pending>>
  BY <1>1, <1>6 DEF Metrics!CountEvents, Metrics!Selects
<1>8. /\ report' \in MeasureReports /\ report'.at = "details" /\ report'.counts = counts
      /\ (report'.quiet <=> Metrics!Quiet) /\ report'.since = r.since /\ report'.until = r.until
      /\ report'.latencies = r.latencies
  <2>1. Metrics!Quiet \in BOOLEAN
    BY DEF Metrics!Quiet
  <2> QED BY <1>1, <1>5, <1>7, <2>1 DEF MeasureReports
<1>9. MeasureTyped' /\ (\A d \in Measured : MeasureOrder(draft'[d], clock')) /\ MeasureKnown' /\ MeasureOnce'
  BY <1>1, <1>7, <1>8, MeasureReads DEF MeasureIInv, MeasureTyped
<1>10. \A type : MeasureIn(type)' = MeasureIn(type)
  BY <1>1, <1>7, <1>8 DEF MeasureIn, Metrics!In
<1>11. MeasureCounted'
  <2>1. \A type \in Metrics!Types : counts[type] = Cardinality(MeasureIn(type)) /\ counts[type] \in Nat
    BY <1>3, <1>4
  <2>2. Metrics!Quiet => \A p \in pending' : p.asked >= report'.until
    BY <1>7 DEF Metrics!Quiet
  <2> QED BY <1>5, <1>8, <1>10, <2>1, <2>2 DEF MeasureCounted
<1>12. MeasureFunnel'
  <2> SUFFICES ASSUME Metrics!Quiet, r.since = 0
      PROVE /\ counts["draft.created"] <= counts["policy.evaluated"]
            /\ counts["policy.evaluated"] <= counts["inbound.enqueued"]
            /\ counts["draft.approved"] + counts["draft.auto_queued"] + counts["draft.rejected"] <= counts["draft.created"]
            /\ counts["outbound.sent"] <= counts["draft.approved"] + counts["draft.auto_queued"]
            /\ counts["draft.auto_sent"] <= counts["draft.auto_queued"]
    BY <1>8 DEF MeasureFunnel
  <2>1. pending = {} /\ \A e \in events : e.at \in Nat /\ e.at < r.until
    BY <1>1 DEF Metrics!Quiet, MeasureIInv, MeasureTyped, MeasureEvents
  <2>2. \A type : MeasureIn(type) = {e \in events : e.type = type}
    BY <1>1, <2>1 DEF MeasureIn, Metrics!In
  <2>3. \A type \in Metrics!Types : counts[type] = Cardinality({d \in Measured : MeasureHas(type, draft[d])})
    BY <1>3, <2>1, <2>2, MeasureCount
  <2>4. {"draft.created", "policy.evaluated", "inbound.enqueued", "draft.approved", "draft.auto_queued",
         "draft.rejected", "outbound.sent", "draft.auto_sent"} \subseteq Metrics!Types
    BY DEF Metrics!Types
  <2> QED BY <2>3, <2>4, MeasureNarrows
<1>13. MeasureTimes'
  BY <1>1, <1>7, <1>8 DEF MeasureIInv, MeasureTimes
<1> QED BY <1>8, <1>9, <1>11, <1>12, <1>13 DEF MeasureIInv, MeasureDetailed, MeasureDaily

\* The actions of the policy part the evaluations of the window.
LEMMA MeasurePoliciesPart ==
  ASSUME MeasureIInv
  PROVE  /\ Metrics!PolicyCounts \in [Metrics!Actions -> Nat]
         /\ Metrics!PolicyCounts["AUTO_SEND"] + Metrics!PolicyCounts["REVIEW"] + Metrics!PolicyCounts["BLOCK"]
              = Cardinality(MeasureIn("policy.evaluated"))
<1> DEFINE by(action) == {e \in events : e.type = "policy.evaluated" /\ Metrics!In(e.at) /\ draft[e.draft].action = action}
<1>1. Metrics!Actions = {"AUTO_SEND", "REVIEW", "BLOCK"}
  BY DEF Metrics!Actions
<1>2. \A action : IsFiniteSet(by(action)) /\ Cardinality(by(action)) \in Nat
  BY MeasureFinite DEF MeasureIInv
<1>3. Metrics!PolicyCounts = [action \in Metrics!Actions |-> Cardinality(by(action))]
  BY CardinalityIsMetrics DEF Metrics!PolicyCounts
<1>4. /\ by("AUTO_SEND") \cap by("REVIEW") = {}
      /\ (by("AUTO_SEND") \cup by("REVIEW")) \cap by("BLOCK") = {}
  OBVIOUS
<1>5. (by("AUTO_SEND") \cup by("REVIEW")) \cup by("BLOCK") = MeasureIn("policy.evaluated")
  <2>1. ASSUME NEW e \in events, e.type = "policy.evaluated"
        PROVE  draft[e.draft].action \in {"AUTO_SEND", "REVIEW", "BLOCK"}
    <3>1. e.draft \in Measured /\ e.type \in Metrics!Types
      BY DEF MeasureIInv, MeasureTyped, MeasureEvents
    <3>2. MeasureHas("policy.evaluated", draft[e.draft])
      BY <2>1, <3>1 DEF MeasureIInv, MeasureKnown, MeasureLogged
    <3>3. draft[e.draft].action # "none"
      BY <3>2 DEF MeasureHas
    <3>4. draft[e.draft] \in MeasureRows
      BY <3>1 DEF MeasureIInv, MeasureTyped
    <3> QED BY <1>1, <3>3, <3>4 DEF MeasureRows
  <2> QED BY <2>1 DEF MeasureIn
<1> HIDE DEF by
<1>6. IsFiniteSet(by("AUTO_SEND") \cup by("REVIEW"))
      /\ Cardinality(by("AUTO_SEND") \cup by("REVIEW")) = Cardinality(by("AUTO_SEND")) + Cardinality(by("REVIEW"))
  BY <1>2, <1>4, DisjointUnion
<1>7. Cardinality((by("AUTO_SEND") \cup by("REVIEW")) \cup by("BLOCK")) =
        Cardinality(by("AUTO_SEND") \cup by("REVIEW")) + Cardinality(by("BLOCK"))
  BY <1>2, <1>4, <1>6, DisjointUnion
<1> QED BY <1>1, <1>2, <1>3, <1>5, <1>6, <1>7

\* The spans are of what happened, in its order.
LEMMA MeasureSpansOf ==
  ASSUME MeasureIInv
  PROVE  /\ Metrics!Latencies \in SUBSET MeasureSpans
         /\ \A span \in Metrics!Latencies :
              span.takes < 0 => span.of = "approval" /\ draft[span.draft].action = "AUTO_SEND"
<1> SUFFICES ASSUME NEW span \in Metrics!Latencies
    PROVE  /\ span \in MeasureSpans
           /\ span.takes < 0 => span.of = "approval" /\ draft[span.draft].action = "AUTO_SEND"
  OBVIOUS
<1>1. PICK d \in Measured :
        \/ /\ draft[d].created # 0
           /\ span = [of |-> "draft", draft |-> d, takes |-> draft[d].created - draft[d].received]
        \/ /\ draft[d].created # 0 /\ draft[d].approved # 0
           /\ span = [of |-> "approval", draft |-> d, takes |-> draft[d].approved - draft[d].created]
        \/ /\ draft[d].sent # 0
           /\ span = [of |-> "send", draft |-> d, takes |-> draft[d].sent - draft[d].approved]
        \/ /\ draft[d].sent # 0
           /\ span = [of |-> "resolution", draft |-> d, takes |-> draft[d].sent - draft[d].received]
  BY DEF Metrics!Latencies, Metrics!Never
<1>2. PICK r \in MeasureRows : r = draft[d]
  BY DEF MeasureIInv, MeasureTyped
<1>3. /\ r.received \in Nat /\ r.approved \in Nat /\ r.created \in Nat /\ r.sent \in Nat
  BY DEF MeasureRows
<1>4. MeasureOrder(r, clock)
  BY <1>2 DEF MeasureIInv
<1>5. CASE r.created # 0 /\ span = [of |-> "draft", draft |-> d, takes |-> r.created - r.received]
  <2>1. r.created - r.received \in Int /\ ~(r.created - r.received < 0)
    BY <1>3, <1>4, <1>5 DEF MeasureOrder
  <2> QED BY <1>5, <2>1 DEF MeasureSpans
<1>6. CASE r.created # 0 /\ r.approved # 0 /\ span = [of |-> "approval", draft |-> d, takes |-> r.approved - r.created]
  <2>1. r.approved - r.created \in Int /\ (r.approved - r.created < 0 => r.action = "AUTO_SEND")
    BY <1>3, <1>4, <1>6 DEF MeasureOrder
  <2> QED BY <1>2, <1>6, <2>1 DEF MeasureSpans
<1>7. CASE r.sent # 0 /\ span = [of |-> "send", draft |-> d, takes |-> r.sent - r.approved]
  <2>1. r.sent - r.approved \in Int /\ ~(r.sent - r.approved < 0)
    BY <1>3, <1>4, <1>7 DEF MeasureOrder
  <2> QED BY <1>7, <2>1 DEF MeasureSpans
<1>8. CASE r.sent # 0 /\ span = [of |-> "resolution", draft |-> d, takes |-> r.sent - r.received]
  <2>1. r.sent - r.received \in Int /\ ~(r.sent - r.received < 0)
    BY <1>3, <1>4, <1>8 DEF MeasureOrder
  <2> QED BY <1>8, <2>1 DEF MeasureSpans
<1> QED BY <1>1, <1>2, <1>5, <1>6, <1>7, <1>8

LEMMA MeasureCountsDetails == MeasureIInv /\ Metrics!CountDetails => MeasureIInv'
<1> SUFFICES ASSUME MeasureIInv, Metrics!CountDetails PROVE MeasureIInv'
  OBVIOUS
<1>1. PICK r \in MeasureReports : r = report
  BY DEF MeasureIInv, MeasureTyped
<1>2. PICK policies \in [Metrics!Actions -> Nat] : policies = Metrics!PolicyCounts
  BY MeasurePoliciesPart
<1>3. PICK spans \in SUBSET MeasureSpans : spans = Metrics!Latencies
  BY MeasureSpansOf
<1>4. PICK regrets \in Nat : regrets = Metrics!Regrets /\ regrets = Cardinality(MeasureIn("feedback.regret"))
  <2>1. Metrics!Regrets = Cardinality(MeasureIn("feedback.regret"))
    BY CardinalityIsMetrics DEF Metrics!Regrets, MeasureIn
  <2>2. Cardinality(MeasureIn("feedback.regret")) \in Nat
    BY MeasureFinite DEF MeasureIn, MeasureIInv
  <2> QED BY <2>1, <2>2
<1>5. /\ report' = [r EXCEPT !.at = "series", !.policies = policies, !.latencies = spans, !.regrets = regrets]
      /\ r.at = "details" /\ UNCHANGED <<clock, draft, events, pending>>
  BY <1>1, <1>2, <1>3, <1>4 DEF Metrics!CountDetails, Metrics!Selects
<1>6. /\ report' \in MeasureReports /\ report'.at = "series" /\ report'.counts = r.counts
      /\ report'.quiet = r.quiet /\ report'.since = r.since /\ report'.until = r.until
      /\ report'.latencies = spans /\ report'.policies = policies /\ report'.regrets = regrets
  BY <1>5 DEF MeasureReports
<1>7. MeasureTyped' /\ (\A d \in Measured : MeasureOrder(draft'[d], clock')) /\ MeasureKnown' /\ MeasureOnce'
  BY <1>1, <1>5, <1>6, MeasureReads DEF MeasureIInv, MeasureTyped
<1>8. \A type : MeasureIn(type)' = MeasureIn(type)
  BY <1>1, <1>5, <1>6 DEF MeasureIn, Metrics!In
<1>9. MeasureCounted' /\ MeasureFunnel'
  BY <1>1, <1>5, <1>6, <1>8 DEF MeasureIInv, MeasureCounted, MeasureFunnel
<1>10. MeasureDetailed'
  <2>1. /\ r.counts \in MeasureCounts
        /\ \A type \in Metrics!Types : r.counts[type] <= Cardinality(MeasureIn(type))
    BY <1>1, <1>5 DEF MeasureIInv, MeasureCounted
  <2>2. /\ r.counts["policy.evaluated"] <= Cardinality(MeasureIn("policy.evaluated"))
        /\ r.counts["feedback.regret"] <= Cardinality(MeasureIn("feedback.regret"))
    BY <2>1 DEF Metrics!Types
  <2>3. policies["AUTO_SEND"] + policies["REVIEW"] + policies["BLOCK"] = Cardinality(MeasureIn("policy.evaluated"))
    BY <1>2, MeasurePoliciesPart
  <2>4. Cardinality(MeasureIn("policy.evaluated")) \in Nat
    BY MeasureFinite DEF MeasureIn, MeasureIInv
  <2> QED BY <1>4, <1>6, <1>8, <2>2, <2>3, <2>4 DEF MeasureDetailed, MeasurePolicies
<1>11. MeasureTimes'
  BY <1>3, <1>5, <1>6, MeasureSpansOf DEF MeasureTimes
<1> QED BY <1>6, <1>7, <1>9, <1>10, <1>11 DEF MeasureIInv, MeasureDaily

-----------------------------------------------------------------------------
\* The days have all of the window: the pairs of a day and a number up to its count are
\* as many as the events.
LEMMA MeasureDaysSum ==
  ASSUME MeasureIInv, NEW t \in Metrics!Types
  PROVE  Cardinality(UNION {{day} \X (1..Metrics!DailySeries[day][t]) : day \in DOMAIN Metrics!DailySeries})
           = Cardinality(MeasureIn(t))
<1> DEFINE D == {Metrics!Day(e.at) : e \in {e \in events : Metrics!In(e.at)}}
           E(day) == {e \in events : e.type = t /\ Metrics!In(e.at) /\ Metrics!Day(e.at) = day}
           N(day) == Cardinality(E(day))
           P == UNION {{day} \X (1..N(day)) : day \in D}
           h == [day \in D |-> CHOOSE f : f \in Bijection(1..N(day), E(day))]
           g == [p \in P |-> h[p[1]][p[2]]]
<1>1. /\ DOMAIN Metrics!DailySeries = D
      /\ \A day \in D : Metrics!DailySeries[day][t] = N(day)
  BY CardinalityIsMetrics DEF Metrics!DailySeries
<1>2. UNION {{day} \X (1..Metrics!DailySeries[day][t]) : day \in DOMAIN Metrics!DailySeries} = P
  <2> HIDE DEF D, E, N
  <2>1. \A day \in D : {day} \X (1..Metrics!DailySeries[day][t]) = {day} \X (1..N(day))
    BY <1>1
  <2>2. {{day} \X (1..Metrics!DailySeries[day][t]) : day \in D} = {{day} \X (1..N(day)) : day \in D}
    BY <2>1
  <2> QED BY <1>1, <2>2
<1>3. \A day \in D : h[day] \in Bijection(1..N(day), E(day))
  <2> SUFFICES ASSUME NEW day \in D PROVE \E f : f \in Bijection(1..N(day), E(day))
    OBVIOUS
  <2>1. IsFiniteSet(E(day))
    BY MeasureFinite DEF MeasureIInv
  <2>2. ExistsBijection(1..Cardinality(E(day)), E(day))
    <3> HIDE DEF E
    <3> QED BY <2>1, FS_CardinalityType
  <2> QED BY <2>2 DEF ExistsBijection
<1>4. \A p \in P : p[1] \in D /\ p[2] \in 1..N(p[1]) /\ p = <<p[1], p[2]>>
  <2> SUFFICES ASSUME NEW p \in P PROVE p[1] \in D /\ p[2] \in 1..N(p[1]) /\ p = <<p[1], p[2]>>
    OBVIOUS
  <2> HIDE DEF D, E, N
  <2>1. PICK day \in D : p \in {day} \X (1..N(day))
    OBVIOUS
  <2>2. p[1] = day /\ p[2] \in 1..N(day) /\ p = <<p[1], p[2]>>
    BY <2>1
  <2> QED BY <2>1, <2>2
<1>5. \A day \in D : \A k \in 1..N(day) : <<day, k>> \in P
  <2> SUFFICES ASSUME NEW day \in D, NEW k \in 1..N(day) PROVE <<day, k>> \in P
    OBVIOUS
  <2> HIDE DEF D, E, N
  <2>1. <<day, k>> \in {day} \X (1..N(day))
    OBVIOUS
  <2> QED BY <2>1
<1>6. \A day \in D : /\ \A k \in 1..N(day) : h[day][k] \in E(day)
                     /\ \A j, k \in 1..N(day) : h[day][j] = h[day][k] => j = k
                     /\ \A e \in E(day) : \E k \in 1..N(day) : h[day][k] = e
  <2> HIDE DEF E, D, h, N
  <2> QED BY <1>3 DEF Bijection, Injection, Surjection, IsInjective
<1>7. \A e \in MeasureIn(t) : Metrics!Day(e.at) \in D /\ e \in E(Metrics!Day(e.at))
  BY DEF MeasureIn
<1>8. \A day, e : e \in E(day) => e \in MeasureIn(t) /\ Metrics!Day(e.at) = day
  BY DEF MeasureIn
<1>9. \A p \in P : g[p] = h[p[1]][p[2]]
  OBVIOUS
<1>10. g \in Bijection(P, MeasureIn(t))
  <2>0. \A p \in P : g[p] \in E(p[1])
    <3> HIDE DEF E, D, h, N, P, g
    <3> QED BY <1>4, <1>6, <1>9
  <2>1. g \in [P -> MeasureIn(t)]
    <3>1. \A p \in P : g[p] \in MeasureIn(t)
      <4> HIDE DEF E, D, h, N, P, g
      <4> QED BY <1>8, <2>0
    <3> QED BY <3>1
  <2>2. ASSUME NEW p \in P, NEW q \in P, g[p] = g[q] PROVE p = q
    <3> HIDE DEF E, D, h, N, P, g
    <3>1. p[1] = q[1]
      BY <1>8, <2>0, <2>2
    <3>2. p[2] = q[2]
      BY <1>4, <1>6, <1>9, <2>2, <3>1
    <3> QED BY <1>4, <3>1, <3>2
  <2>3. ASSUME NEW e \in MeasureIn(t) PROVE \E p \in P : g[p] = e
    <3> HIDE DEF E, D, h, N, P, g
    <3>1. PICK day : day = Metrics!Day(e.at)
      OBVIOUS
    <3>2. day \in D /\ e \in E(day)
      BY <1>7, <3>1
    <3>3. PICK k \in 1..N(day) : h[day][k] = e
      BY <1>6, <3>2
    <3>4. <<day, k>> \in P
      BY <1>5, <3>2
    <3> QED BY <1>9, <3>3, <3>4
  <2> HIDE DEF E, D, h, N, P, g
  <2> QED BY <2>1, <2>2, <2>3 DEF Bijection, Injection, Surjection, IsInjective
<1>11. IsFiniteSet(MeasureIn(t))
  BY MeasureFinite DEF MeasureIn, MeasureIInv
<1>12. ExistsBijection(P, MeasureIn(t))
  BY <1>10 DEF ExistsBijection
<1>13. ExistsBijection(MeasureIn(t), P)
  <2> HIDE DEF P
  <2> QED BY <1>12, Fun_ExistsBijSymmetric
<1>14. Cardinality(P) = Cardinality(MeasureIn(t))
  <2> HIDE DEF P
  <2> QED BY <1>11, <1>13, FS_Bijection
<1> QED BY <1>2, <1>14

LEMMA MeasureCountsDays == MeasureIInv /\ Metrics!CountDays => MeasureIInv'
<1> SUFFICES ASSUME MeasureIInv, Metrics!CountDays PROVE MeasureIInv'
  OBVIOUS
<1>1. PICK r \in MeasureReports : r = report
  BY DEF MeasureIInv, MeasureTyped
<1>2. PICK D \in SUBSET MeasureDays : D = {Metrics!Day(e.at) : e \in {e \in events : Metrics!In(e.at)}}
  <2>1. \A e \in events : e.at \in Nat
    BY DEF MeasureIInv, MeasureTyped, MeasureEvents
  <2> QED BY <2>1 DEF MeasureDays
<1>3. Metrics!DailySeries \in [D -> MeasureCounts]
  <2>1. \A day, type : Cardinality({e \in events : e.type = type /\ Metrics!In(e.at) /\ Metrics!Day(e.at) = day}) \in Nat
    BY MeasureFinite DEF MeasureIInv
  <2>2. \A day \in D : [type \in Metrics!Types |-> Metrics!Cardinality({e \in events : e.type = type /\ Metrics!In(e.at)
                                                                        /\ Metrics!Day(e.at) = day})] \in MeasureCounts
    BY <2>1, CardinalityIsMetrics DEF MeasureCounts
  <2> QED BY <1>2, <2>2 DEF Metrics!DailySeries
<1>4. PICK series \in {<<>>} \cup UNION {[F -> MeasureCounts] : F \in SUBSET MeasureDays} : series = Metrics!DailySeries
  BY <1>2, <1>3
<1>5. /\ report' = [r EXCEPT !.at = "done", !.series = series]
      /\ r.at = "series" /\ UNCHANGED <<clock, draft, events, pending>>
  BY <1>1, <1>4 DEF Metrics!CountDays, Metrics!Selects
<1>6. /\ report' \in MeasureReports /\ report'.at = "done" /\ report'.counts = r.counts
      /\ report'.quiet = r.quiet /\ report'.since = r.since /\ report'.until = r.until
      /\ report'.latencies = r.latencies /\ report'.policies = r.policies /\ report'.regrets = r.regrets
      /\ report'.series = series
  BY <1>5 DEF MeasureReports
<1>7. MeasureTyped' /\ (\A d \in Measured : MeasureOrder(draft'[d], clock')) /\ MeasureKnown' /\ MeasureOnce'
  BY <1>1, <1>5, <1>6, MeasureReads DEF MeasureIInv, MeasureTyped
<1>8. \A type : MeasureIn(type)' = MeasureIn(type)
  BY <1>1, <1>5, <1>6 DEF MeasureIn, Metrics!In
<1>9. MeasureCounted' /\ MeasureFunnel'
  BY <1>1, <1>5, <1>6, <1>8 DEF MeasureIInv, MeasureCounted, MeasureFunnel
<1>10. MeasureDetailed'
  BY <1>1, <1>5, <1>6, <1>8 DEF MeasureIInv, MeasureDetailed, MeasurePolicies
<1>11. MeasureTimes'
  BY <1>1, <1>5, <1>6 DEF MeasureIInv, MeasureTimes
<1>12. MeasureDaily'
  <2>1. \A type \in Metrics!Types : MeasureTotal(type)' = Cardinality(MeasureIn(type))
    BY <1>4, <1>6, MeasureDaysSum DEF MeasureTotal
  <2> QED BY <1>8, <2>1 DEF MeasureDaily
<1> QED BY <1>7, <1>9, <1>10, <1>11, <1>12 DEF MeasureIInv

LEMMA MeasureStepKeepsIInv == MeasureIInv /\ [Metrics!Next]_Metrics!vars => MeasureIInv'
<1> SUFFICES ASSUME MeasureIInv, [Metrics!Next]_Metrics!vars PROVE MeasureIInv'
  OBVIOUS
<1>1. CASE Metrics!Tick
  BY <1>1, MeasureTick DEF Metrics!Tick
<1>2. CASE UNCHANGED Metrics!vars
  BY <1>2, MeasureTick DEF Metrics!vars
<1>3. CASE Metrics!Next /\ ~Metrics!Tick
  BY <1>3, MeasureDraftStep, MeasureInserted, MeasureAsk, MeasureCountsEvents, MeasureCountsDetails,
     MeasureCountsDays DEF Metrics!Next
<1> QED BY <1>1, <1>2, <1>3

LEMMA MeasureIInvTells == MeasureIInv => Metrics!RollupIsWhole
<1> SUFFICES ASSUME MeasureIInv PROVE Metrics!RollupIsWhole
  OBVIOUS
<1>1. Metrics!StatementsAgree
  <2> SUFFICES ASSUME report.at = "done"
      PROVE /\ \A type \in Metrics!Types :
                 /\ report.counts[type] <= MeasureTotal(type)
                 /\ report.quiet => report.counts[type] = MeasureTotal(type)
            /\ report.counts["policy.evaluated"] <= MeasurePolicies
            /\ MeasurePolicies <= MeasureTotal("policy.evaluated")
            /\ report.counts["feedback.regret"] <= report.regrets
            /\ report.regrets <= MeasureTotal("feedback.regret")
    BY CardinalityIsMetrics DEF Metrics!StatementsAgree, MeasureTotal, MeasurePolicies
  <2>1. \A type \in Metrics!Types : MeasureTotal(type) = Cardinality(MeasureIn(type))
    BY DEF MeasureIInv, MeasureDaily
  <2>2. "policy.evaluated" \in Metrics!Types /\ "feedback.regret" \in Metrics!Types
    BY DEF Metrics!Types
  <2> QED BY <2>1, <2>2 DEF MeasureIInv, MeasureCounted, MeasureDetailed
<1>2. Metrics!TimesAreSpans
  BY DEF MeasureIInv, MeasureTimes, Metrics!TimesAreSpans
<1>3. Metrics!FunnelNarrows
  BY DEF MeasureIInv, MeasureFunnel, Metrics!FunnelNarrows, Metrics!Never
<1> QED BY <1>1, <1>2, <1>3 DEF Metrics!RollupIsWhole

-----------------------------------------------------------------------------
\* A behaviour is of one part: the others stay as they began.
TriageIInv ==
  /\ part = "log" => LogIInv
  /\ part = "rollup" => MeasureIInv
  /\ part = "exchanges" => ExchangeIInv
  /\ part = "doers" => DoerIInv

LEMMA TriageInitIInv == TriageInit => TriageIInv
BY LogInitIInv, MeasureInitIInv, ExchangeInitIInv, DoerInitIInv DEF TriageInit, TriageIInv

LEMMA TriageStepKeepsIInv == TriageIInv /\ [TriageNext]_all => TriageIInv'
<1> SUFFICES ASSUME TriageIInv, [TriageNext]_all PROVE TriageIInv'
  OBVIOUS
<1>1. part' = part
  BY DEF TriageNext, all
<1>2. CASE part = "exchanges"
  <2>1. [Exchange!Next]_Exchange!vars
    BY <1>2 DEF TriageNext, all, exchangeVars, Exchange!vars
  <2> QED BY <1>1, <1>2, <2>1, ExchangeStepKeepsIInv DEF TriageIInv
<1>3. CASE part = "doers"
  <2>1. [Doers!Next]_Doers!vars
    BY <1>3 DEF TriageNext, all, doerVars, Doers!vars
  <2> QED BY <1>1, <1>3, <2>1, DoerStepKeepsIInv DEF TriageIInv
<1>4. CASE part = "log"
  <2>1. [Delegation!Next]_Delegation!vars
    BY <1>4 DEF TriageNext, all, logVars, Delegation!vars
  <2> QED BY <1>1, <1>4, <2>1, LogStepKeepsIInv DEF TriageIInv
<1>5. CASE part = "rollup"
  <2>1. [Metrics!Next]_Metrics!vars
    BY <1>5 DEF TriageNext, all, metricVars, Metrics!vars
  <2> QED BY <1>1, <1>5, <2>1, MeasureStepKeepsIInv DEF TriageIInv
<1> QED BY <1>1, <1>2, <1>3, <1>4, <1>5 DEF TriageIInv

\* Of an envelope one decision is taken and nobody but its addressee is told that he took
\* it; a call that is placed is in the log, with one end; and a doer is said to be done
\* only if its process closed with the whole answer, whatever is lost and in any order.
THEOREM ExchangesAreToldHolds == TriageSpec => []ExchangesAreTold
<1>1. TriageIInv => ExchangesAreTold
  BY ExchangeIInvTells, DoerIInvTells DEF TriageIInv, ExchangesAreTold
<1> QED BY <1>1, TriageInitIInv, TriageStepKeepsIInv, PTL DEF TriageSpec

\* The log never tells two fates of a draft, nor that somebody approved what the policy
\* sent; when nothing was lost the counts made of it are those of the drafts, but for the
\* few whose mark-sent looked too early; and the statements of one rollup, between which
\* drafts and inserts go on, agree with each other.
THEOREM LogTellsWhoSentHolds == TriageSpec => []LogTellsWhoSent
<1>1. TriageIInv => LogTellsWhoSent
  BY LogIInvTells, MeasureIInvTells DEF TriageIInv, LogTellsWhoSent
<1> QED BY <1>1, TriageInitIInv, TriageStepKeepsIInv, PTL DEF TriageSpec
=============================================================================
