------------------------------- MODULE Drafting -------------------------------
(***************************************************************************)
(* How a reply is written and judged (packages/agent-core, policy-engine): *)
(* the context of a message is read, a language model is asked for help at *)
(* several steps, templates stand in where it does not answer, and the     *)
(* policy decides whether the reply is sent, reviewed or blocked.          *)
(*                                                                         *)
(* A message is "inbound" for the worker; "assist" for the routes that only*)
(* suggest replies; "runtime" for the runtime that keeps all in memory.    *)
(* A call of the model gives a text, or no text (no key, a timeout, an     *)
(* error status), or an answer that cannot be read, which throws at the    *)
(* calls that do not catch it.  Confidence is counted in hundredths; no    *)
(* sum of its terms is at a limit that decides, so rounding does not matter.*)
(***************************************************************************)
EXTENDS Integers

CONSTANTS MaxChanges  \* of the relationship, by its user

VARIABLES
  allow,      \* MIRACHAT_ALLOW_AUTO_SEND, MIRACHAT_TWILIO_AUTO_SEND, and a key for the model
  kind, message,
  risk,       \* the risk level of the contact as saved
  pc,
  seen,       \* what the context has: the risk level, recent messages, hits in other threads
  attended,   \* facts of the ledger that the model found to matter here
  reply,      \* who wrote it, and whether it matches a sensitive pattern
  judge,      \* what the model said of it: "none", "safe", "unreachable" or "block"
  decision,
  options, summary,  \* who wrote the options and the summary of the thread
  changes

vars == <<allow, kind, message, risk, pc, seen, attended, reply, judge, decision, options, summary,
          changes>>

Risks   == {"low", "medium", "high"}
Domains == {"general", "scheduling", "finance", "delivery", "follow_up"}
Authors == {"none", "model", "template", "clarifier"}

\* An acknowledgement or a reference to something not named is of no domain.
MessageKinds ==
  {m \in [domain : Domains, ack : BOOLEAN, referential : BOOLEAN, group : BOOLEAN, twilio : BOOLEAN] :
     /\ m.ack \/ m.referential => m.domain = "general"
     /\ ~(m.ack /\ m.referential)}

Unread  == [risk |-> "high", recent |-> FALSE, cross |-> FALSE, facts |-> FALSE]
NoReply == [by |-> "none", sensitive |-> FALSE]

Init ==
  /\ allow \in [any : BOOLEAN, twilio : BOOLEAN, key : BOOLEAN, primary : BOOLEAN]
  /\ kind \in {"inbound", "assist", "runtime"} /\ message \in MessageKinds /\ risk \in Risks
  /\ pc = "context" /\ seen = Unread /\ attended = FALSE /\ reply = NoReply
  /\ judge = "none" /\ decision = "none" /\ options = "none" /\ summary = "none" /\ changes = 0

\* The routes that suggest replies to a user, and the runtime in memory.
Suggests == kind = "assist"
InMemory == kind = "runtime"

-----------------------------------------------------------------------------
\* openRouterFetch and the reading of its answer.
Calls(answer) ==
  \/ allow.key /\ answer \in {"text", "nothing", "broken"}
  \/ answer = "nothing"

Fails ==
  /\ pc' = "failed"
  /\ UNCHANGED <<allow, kind, message, risk, seen, attended, reply, judge, decision, options, summary,
                 changes>>

\* The user changes the relationship while the reply is written.
ChangeRisk ==
  /\ pc \notin {"done", "failed"} /\ changes < MaxChanges /\ changes' = changes + 1
  /\ risk' \in Risks
  /\ UNCHANGED <<allow, kind, message, pc, seen, attended, reply, judge, decision, options, summary>>

\* buildContextBundle: identity, relationship and recent messages; then the search.
ReadContext ==
  /\ pc = "context" /\ pc' = "search"
  /\ \E r \in BOOLEAN : seen' = [seen EXCEPT !.risk = risk, !.recent = r]
  /\ UNCHANGED <<allow, kind, message, risk, attended, reply, judge, decision, options, summary, changes>>

SearchMessages ==
  /\ pc = "search" /\ pc' = "analysis"
  /\ \E c \in BOOLEAN, f \in BOOLEAN : seen' = [seen EXCEPT !.cross = c, !.facts = f]
  /\ UNCHANGED <<allow, kind, message, risk, attended, reply, judge, decision, options, summary, changes>>

\* The analysis goes into the instruction; for most general messages it is skipped.
Analyse ==
  /\ pc = "analysis"
  /\ \/ \E a \in {"text", "nothing"} : Calls(a)
        /\ pc' = "attention"
        /\ UNCHANGED <<allow, kind, message, risk, seen, attended, reply, judge, decision, options,
                       summary, changes>>
     \/ Calls("broken") /\ Fails

\* openRouterMemoryAttention, when the ledger has been kept.
Attend ==
  /\ pc = "attention"
  /\ \/ /\ pc' = "reply" /\ \E a \in {"text", "nothing"} :
                               /\ Calls(a) /\ attended' = (seen.facts /\ a = "text")
        /\ UNCHANGED <<allow, kind, message, risk, seen, reply, judge, decision, options, summary, changes>>
     \/ seen.facts /\ Calls("broken") /\ Fails

-----------------------------------------------------------------------------
\* executor: templates for all domains but general; the finance one has the words
\* "financial commitment", the others may repeat what the user set as boundaries.
FinanceReply == [by |-> "template", sensitive |-> TRUE]

Replies(answer) ==
  IF message.referential THEN {[by |-> "clarifier", sensitive |-> FALSE]}
  ELSE IF message.domain = "finance" THEN {FinanceReply}
  ELSE IF message.domain # "general" THEN [by : {"template"}, sensitive : BOOLEAN]
  ELSE IF answer = "text" /\ allow.primary THEN [by : {"model"}, sensitive : BOOLEAN]
  ELSE [by : {"template"}, sensitive : BOOLEAN]

WriteReply ==
  /\ pc = "reply"
  /\ \/ /\ pc' = IF Suggests THEN "options" ELSE "policy"
        /\ \E a \in {"text", "nothing"} : Calls(a) /\ reply' \in Replies(a)
        /\ UNCHANGED <<allow, kind, message, risk, seen, attended, judge, decision, options, summary,
                       changes>>
     \/ message.domain = "general" /\ ~message.referential /\ allow.primary /\ Calls("broken") /\ Fails

\* evaluator
Clamp(n) == IF n < 46 THEN 46 ELSE IF n > 93 THEN 93 ELSE n

Confidence ==
  Clamp(64 + (IF message.domain # "general" THEN 8 ELSE 0) + (IF message.ack THEN 22 ELSE 0)
           + (IF seen.recent THEN 7 ELSE 0) + (IF seen.cross THEN 4 ELSE 0)
           - (IF seen.risk = "high" THEN 18 ELSE IF seen.risk = "medium" THEN 8 ELSE 0)
           - (IF message.domain = "finance" THEN 18 ELSE 0))

-----------------------------------------------------------------------------
\* openRouterPolicyEvaluation: a judge that cannot be reached lets the reply pass.
Judge ==
  /\ pc = "policy" /\ judge = "none" /\ attended /\ kind = "inbound" /\ ~reply.sensitive
  /\ \/ /\ \/ Calls("text") /\ judge' \in {"safe", "block"}
           \/ Calls("nothing") /\ judge' = "unreachable"
        /\ UNCHANGED <<allow, kind, message, risk, pc, seen, attended, reply, decision, options, summary,
                       changes>>
     \/ Calls("broken") /\ Fails

MinConfidence == IF allow.any /\ seen.risk = "low" THEN 78 ELSE 85

\* Mutant: the risk level is only looked at once the confidence was enough for a low one.
LaxVerdict ==
  IF reply.sensitive \/ judge = "block" THEN "BLOCK"
  ELSE IF \/ Confidence < MinConfidence
          \/ message.group
          \/ message.twilio /\ ~(allow.any /\ allow.twilio)
          \/ ~allow.any
       THEN "REVIEW" ELSE "AUTO_SEND"

\* DefaultPolicyEngine.evaluate
Verdict ==
  IF reply.sensitive \/ judge = "block" THEN "BLOCK"
  ELSE IF \/ seen.risk = "high"
          \/ Confidence < MinConfidence
          \/ message.group
          \/ message.twilio /\ ~(allow.any /\ allow.twilio)
          \/ ~(allow.any /\ seen.risk = "low")
       THEN "REVIEW" ELSE "AUTO_SEND"

\* The runtime in memory does not tell the policy what was attended to.
Evaluate ==
  /\ pc = "policy" /\ (attended /\ kind = "inbound" /\ ~reply.sensitive => judge # "none")
  /\ decision' = Verdict
  /\ pc' = IF InMemory \/ Verdict = "BLOCK" THEN "done" ELSE "options"
  /\ UNCHANGED <<allow, kind, message, risk, seen, attended, reply, judge, options, summary, changes>>

\* buildReplyOptions, for what is reviewed or suggested, next to the summary of the thread;
\* either falls back to a template.
Finish ==
  /\ pc = "options"
  /\ \/ /\ pc' = "done"
        /\ IF decision = "AUTO_SEND" THEN UNCHANGED options
           ELSE \E a \in {"text", "nothing"} :
                  Calls(a) /\ options' \in (IF a = "text" THEN {"model", "template"} ELSE {"template"})
        /\ \E a \in {"text", "nothing"} :
                  Calls(a) /\ summary' = IF a = "text" THEN "model" ELSE "template"
        /\ UNCHANGED <<allow, kind, message, risk, seen, attended, reply, judge, decision, changes>>
     \/ Calls("broken") /\ Fails

Next ==
  \/ ChangeRisk \/ ReadContext \/ SearchMessages \/ Analyse \/ Attend
  \/ WriteReply \/ Judge \/ Evaluate \/ Finish

Spec == Init /\ [][Next]_vars

-----------------------------------------------------------------------------
\* The type of every variable.
TypeOK ==
  /\ allow \in [any : BOOLEAN, twilio : BOOLEAN, key : BOOLEAN, primary : BOOLEAN]
  /\ kind \in {"inbound", "assist", "runtime"} /\ message \in MessageKinds /\ risk \in Risks
  /\ pc \in {"context", "search", "analysis", "attention", "reply", "policy", "options", "done", "failed"}
  /\ seen \in [risk : Risks, recent : BOOLEAN, cross : BOOLEAN, facts : BOOLEAN]
  /\ attended \in BOOLEAN /\ reply \in [by : Authors, sensitive : BOOLEAN]
  /\ judge \in {"none", "safe", "unreachable", "block"}
  /\ decision \in {"none", "BLOCK", "REVIEW", "AUTO_SEND"}
  /\ options \in Authors /\ summary \in Authors /\ changes \in Nat

\* What is sent unattended is allowed to be, answers a contact of low risk in a
\* conversation of two, and has no sensitive words; what the model wrote is sent unattended
\* only in answer to an acknowledgement, and a template only where messages came before.
UnattendedIsBounded ==
  decision = "AUTO_SEND" =>
    /\ allow.any /\ (message.twilio => allow.twilio)
    /\ ~message.group /\ ~reply.sensitive
    /\ message.ack \/ (reply.by = "template" /\ message.domain # "general" /\ seen.recent)

\* The level was low when it was read, and is so still unless the user has changed it since.
RiskIsHeeded == decision = "AUTO_SEND" => seen.risk = "low" /\ (risk = "low" \/ changes > 0)

\* Facts that matter are held against the reply, unless the judge cannot be reached: it
\* fails open.
FactsAreHeeded ==
  kind = "inbound" /\ decision = "AUTO_SEND" /\ attended => judge \in {"safe", "unreachable"}

\* No reply about money goes out or comes up for review: its template is blocked.
FinanceIsBlocked == message.domain = "finance" /\ decision # "none" => decision = "BLOCK"

\* What comes up for review has its options and its summary, whatever failed.
ReviewIsComplete ==
  pc = "done" /\ (kind = "assist" \/ (kind = "inbound" /\ decision = "REVIEW")) =>
    options # "none" /\ summary # "none"

RepliesAreJudged ==
  UnattendedIsBounded /\ RiskIsHeeded /\ FactsAreHeeded /\ FinanceIsBlocked /\ ReviewIsComplete
=============================================================================
