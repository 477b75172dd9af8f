----------------------------- MODULE ServiceProofs -----------------------------
(***************************************************************************)
(* Proofs about what comes of a message at the API.  Of a reply: whatever  *)
(* a model says, and however the context changes while it is written, what *)
(* goes out unattended is judged on what was read (RepliesAreJudged).  Of  *)
(* what is known for it: profiles, imported memory and the pages that show *)
(* both are as their writers left them (KnowledgeIsKept).  One inductive   *)
(* invariant for each of the four parts, and a step of one of them leaves  *)
(* the others as they began.                                               *)
(***************************************************************************)
EXTENDS MCService, SequenceTheorems, FiniteSetTheorems, NaturalsInduction, WellFoundedInduction, TLAPS

-----------------------------------------------------------------------------
\* The reply.

ReplyEarly == {"context", "search", "analysis", "attention", "reply"}

\* Before the policy is asked nothing is judged, and before that nothing is written.
ReplyUntouched ==
  /\ pc \in ReplyEarly => reply = Reply!NoReply
  /\ pc \in ReplyEarly => judge = "none"
  /\ pc \in ReplyEarly \cup {"policy"} => verdict = "none"
  /\ kind = "assist" => verdict = "none" /\ pc # "policy"

\* The risk level is that of the relationship, as it was read.
ReplyRead == pc # "context" => changes > 0 \/ risk = seen.risk

\* Who may have written the reply.
ReplyWritten ==
  pc \notin ReplyEarly \cup {"failed"} =>
    /\ message.domain = "finance" => reply.sensitive
    /\ message.domain # "general" => reply.by = "template"

\* A decision is what the policy says of the reply, which the judge has seen.
ReplyDecided ==
  verdict # "none" =>
    /\ verdict = Reply!Verdict
    /\ attended /\ kind = "inbound" /\ ~reply.sensitive => judge # "none"
    /\ message.domain = "finance" => reply.sensitive
    /\ message.domain # "general" => reply.by = "template"

ReplyCompleted ==
  /\ pc = "done" /\ (kind = "assist" \/ (kind = "inbound" /\ verdict = "REVIEW")) =>
       options # "none" /\ summary # "none"

ReplyIInv == Reply!TypeOK /\ ReplyUntouched /\ ReplyRead /\ ReplyWritten /\ ReplyDecided /\ ReplyCompleted

-----------------------------------------------------------------------------
\* A conversation that is general and no mere acknowledgement is never certain enough, and
\* one about something is only with messages that came before.
LEMMA ReplyWhatIsCertain ==
  ASSUME Reply!TypeOK, Reply!Confidence >= 78
  PROVE  message.ack \/ (message.domain # "general" /\ seen.recent)
<1>1. /\ message.domain \in Reply!Domains /\ message.ack \in BOOLEAN
      /\ seen.recent \in BOOLEAN /\ seen.cross \in BOOLEAN /\ seen.risk \in Reply!Risks
  BY DEF Reply!TypeOK, Reply!MessageKinds
<1> QED  BY <1>1 DEF Reply!Confidence, Reply!Clamp, Reply!Domains, Reply!Risks

\* The verdict is one of three, and to send is the strictest.
LEMMA ReplyWhatIsSent ==
  ASSUME Reply!TypeOK, Reply!Verdict = "AUTO_SEND"
  PROVE  /\ allow.any /\ (message.twilio => allow.twilio)
         /\ ~message.group /\ ~reply.sensitive /\ judge # "block"
         /\ seen.risk = "low"
         /\ message.ack \/ (message.domain # "general" /\ seen.recent)
<1>1. /\ allow.any /\ (message.twilio => allow.twilio)
      /\ ~message.group /\ ~reply.sensitive /\ judge # "block"
      /\ seen.risk = "low" /\ ~(Reply!Confidence < Reply!MinConfidence)
  BY DEF Reply!Verdict
<1>2. Reply!Confidence \in Int
  BY DEF Reply!TypeOK, Reply!Confidence, Reply!Clamp
<1>3. Reply!Confidence >= 78
  BY <1>1, <1>2 DEF Reply!MinConfidence
<1> QED  BY <1>1, <1>3, ReplyWhatIsCertain

LEMMA ReplyVerdictType == Reply!Verdict \in {"BLOCK", "REVIEW", "AUTO_SEND"}
  BY DEF Reply!Verdict

-----------------------------------------------------------------------------
LEMMA ReplyInitIInv == Reply!Init => ReplyIInv
<1> SUFFICES ASSUME Reply!Init PROVE ReplyIInv
  OBVIOUS
<1>1. Reply!TypeOK
  BY DEF Reply!Init, Reply!TypeOK, Reply!Unread, Reply!NoReply, Reply!Risks, Reply!Authors
<1> QED  BY <1>1 DEF Reply!Init, ReplyIInv, ReplyUntouched, ReplyRead, ReplyWritten, ReplyDecided, ReplyCompleted, ReplyEarly

\* A call that throws ends it all; nothing calls before the context is read.
LEMMA ReplyFailsKeeps == ASSUME ReplyIInv, Reply!Fails, pc # "context" PROVE ReplyIInv'
<1>1. Reply!TypeOK'
  BY DEF ReplyIInv, Reply!TypeOK, Reply!Fails
<1>2. Reply!Verdict' = Reply!Verdict
  BY DEF Reply!Fails, Reply!Verdict, Reply!Confidence, Reply!MinConfidence
<1>3. ReplyDecided'
  BY <1>2 DEF ReplyIInv, ReplyDecided, Reply!Fails
<1> QED  BY <1>1, <1>3 DEF ReplyIInv, ReplyUntouched, ReplyRead, ReplyWritten, ReplyCompleted, Reply!Fails, ReplyEarly

LEMMA ReplyStepKeepsIInv == ReplyIInv /\ [Reply!Next]_Reply!vars => ReplyIInv'
<1> SUFFICES ASSUME ReplyIInv, [Reply!Next]_Reply!vars PROVE ReplyIInv'
  OBVIOUS
<1> USE DEF ReplyEarly, Reply!Suggests, Reply!InMemory
<1>0. Reply!TypeOK /\ ReplyUntouched /\ ReplyRead /\ ReplyWritten /\ ReplyDecided /\ ReplyCompleted
  BY DEF ReplyIInv
<1>1. CASE Reply!ChangeRisk
  <2>1. Reply!TypeOK'
    BY <1>0, <1>1 DEF Reply!ChangeRisk, Reply!TypeOK
  <2>2. changes' > 0
    BY <1>0, <1>1 DEF Reply!ChangeRisk, Reply!TypeOK
  <2>3. Reply!Verdict' = Reply!Verdict
    BY <1>1 DEF Reply!ChangeRisk, Reply!Verdict, Reply!Confidence, Reply!MinConfidence
  <2>4. ReplyDecided'
    BY <1>0, <1>1, <2>3 DEF Reply!ChangeRisk, ReplyDecided
  <2> QED  BY <1>0, <1>1, <2>1, <2>2, <2>4 DEF Reply!ChangeRisk, ReplyIInv, ReplyUntouched, ReplyRead, ReplyWritten, ReplyCompleted
<1>2. CASE Reply!ReadContext
  <2>1. seen' \in [risk : Reply!Risks, recent : BOOLEAN, cross : BOOLEAN, facts : BOOLEAN]
        /\ seen'.risk = risk
    BY <1>0, <1>2 DEF Reply!ReadContext, Reply!TypeOK
  <2>2. Reply!TypeOK'
    BY <1>0, <1>2, <2>1 DEF Reply!ReadContext, Reply!TypeOK
  <2> QED  BY <1>0, <1>2, <2>1, <2>2 DEF Reply!ReadContext, ReplyIInv, ReplyUntouched, ReplyRead, ReplyWritten, ReplyDecided, ReplyCompleted
<1>3. CASE Reply!SearchMessages
  <2>1. seen' \in [risk : Reply!Risks, recent : BOOLEAN, cross : BOOLEAN, facts : BOOLEAN]
        /\ seen'.risk = seen.risk
    BY <1>0, <1>3 DEF Reply!SearchMessages, Reply!TypeOK
  <2>2. Reply!TypeOK'
    BY <1>0, <1>3, <2>1 DEF Reply!SearchMessages, Reply!TypeOK
  <2> QED  BY <1>0, <1>3, <2>1, <2>2 DEF Reply!SearchMessages, ReplyIInv, ReplyUntouched, ReplyRead, ReplyWritten, ReplyDecided, ReplyCompleted
<1>4. CASE Reply!Analyse
  <2>1. CASE Reply!Fails
    BY <1>4, <2>1, ReplyFailsKeeps DEF Reply!Analyse
  <2>2. CASE ~Reply!Fails
    <3>1. Reply!TypeOK'
      BY <1>0, <1>4, <2>2 DEF Reply!Analyse, Reply!TypeOK
    <3> QED  BY <1>0, <1>4, <2>2, <3>1 DEF Reply!Analyse, ReplyIInv, ReplyUntouched, ReplyRead, ReplyWritten, ReplyDecided, ReplyCompleted
  <2> QED  BY <2>1, <2>2
<1>5. CASE Reply!Attend
  <2>1. CASE Reply!Fails
    BY <1>5, <2>1, ReplyFailsKeeps DEF Reply!Attend
  <2>2. CASE ~Reply!Fails
    <3>1. Reply!TypeOK'
      BY <1>0, <1>5, <2>2 DEF Reply!Attend, Reply!TypeOK
    <3> QED  BY <1>0, <1>5, <2>2, <3>1 DEF Reply!Attend, ReplyIInv, ReplyUntouched, ReplyRead, ReplyWritten, ReplyDecided, ReplyCompleted
  <2> QED  BY <2>1, <2>2
<1>6. CASE Reply!WriteReply
  <2>1. CASE Reply!Fails
    BY <1>6, <2>1, ReplyFailsKeeps DEF Reply!WriteReply
  <2>2. CASE ~Reply!Fails
    <3>1. PICK a \in {"text", "nothing"} : reply' \in Reply!Replies(a)
      BY <1>6, <2>2 DEF Reply!WriteReply
    <3>2. message.referential => message.domain = "general"
      BY <1>0 DEF Reply!TypeOK, Reply!MessageKinds
    <3>3. /\ reply' \in [by : Reply!Authors, sensitive : BOOLEAN]
          /\ message.domain = "finance" => reply'.sensitive
          /\ message.domain # "general" => reply'.by = "template"
      <4>1. CASE message.referential
        <5>1. reply' = [by |-> "clarifier", sensitive |-> FALSE]
          BY <3>1, <4>1 DEF Reply!Replies
        <5>2. message.domain = "general"
          BY <3>2, <4>1
        <5> QED  BY <5>1, <5>2 DEF Reply!Authors
      <4>2. CASE ~message.referential /\ message.domain = "finance"
        <5>1. reply' = [by |-> "template", sensitive |-> TRUE]
          BY <3>1, <4>2 DEF Reply!Replies, Reply!FinanceReply
        <5> QED  BY <5>1 DEF Reply!Authors
      <4>3. CASE ~message.referential /\ message.domain # "finance"
        <5>1. reply' \in [by : {"template", "model"}, sensitive : BOOLEAN]
          BY <3>1, <4>3 DEF Reply!Replies
        <5>2. message.domain # "general" => reply' \in [by : {"template"}, sensitive : BOOLEAN]
          BY <3>1, <4>3 DEF Reply!Replies
        <5> QED  BY <4>3, <5>1, <5>2 DEF Reply!Authors
      <4> QED  BY <4>1, <4>2, <4>3
    <3>4. Reply!TypeOK'
      BY <1>0, <1>6, <2>2, <3>3 DEF Reply!WriteReply, Reply!TypeOK
    <3> QED  BY <1>0, <1>6, <2>2, <3>3, <3>4 DEF Reply!WriteReply, ReplyIInv, ReplyUntouched, ReplyRead, ReplyWritten, ReplyDecided, ReplyCompleted
  <2> QED  BY <2>1, <2>2
<1>7. CASE Reply!Judge
  <2>1. CASE Reply!Fails
    BY <1>7, <2>1, ReplyFailsKeeps DEF Reply!Judge
  <2>2. CASE ~Reply!Fails
    <3>1. Reply!TypeOK'
      BY <1>0, <1>7, <2>2 DEF Reply!Judge, Reply!TypeOK
    <3> QED  BY <1>0, <1>7, <2>2, <3>1 DEF Reply!Judge, ReplyIInv, ReplyUntouched, ReplyRead, ReplyWritten, ReplyDecided, ReplyCompleted
  <2> QED  BY <2>1, <2>2
<1>8. CASE Reply!Evaluate
  <2>1. Reply!TypeOK'
    BY <1>0, <1>8, ReplyVerdictType DEF Reply!Evaluate, Reply!TypeOK
  <2>2. Reply!Verdict' = Reply!Verdict
    BY <1>8 DEF Reply!Evaluate, Reply!Verdict, Reply!Confidence, Reply!MinConfidence
  <2>3. kind # "assist" /\ pc = "policy"
    BY <1>0, <1>8 DEF Reply!Evaluate, ReplyUntouched
  <2>4. ReplyDecided'
    BY <1>0, <1>8, <2>2, <2>3 DEF Reply!Evaluate, ReplyDecided, ReplyWritten
  <2>5. ReplyCompleted'
    BY <1>8, <2>3 DEF Reply!Evaluate, ReplyCompleted
  <2> QED  BY <1>0, <1>8, <2>1, <2>3, <2>4, <2>5 DEF Reply!Evaluate, ReplyIInv, ReplyUntouched, ReplyRead, ReplyWritten
<1>9. CASE Reply!Finish
  <2>1. CASE Reply!Fails
    BY <1>9, <2>1, ReplyFailsKeeps DEF Reply!Finish
  <2>2. CASE ~Reply!Fails
    <3>1. summary' \in {"model", "template"}
      BY <1>9, <2>2 DEF Reply!Finish
    <3>2. IF verdict = "AUTO_SEND" THEN options' = options ELSE options' \in {"model", "template"}
      BY <1>9, <2>2 DEF Reply!Finish
    <3>3. Reply!TypeOK'
      BY <1>0, <1>9, <2>2, <3>1, <3>2 DEF Reply!Finish, Reply!TypeOK, Reply!Authors
    <3>4. Reply!Verdict' = Reply!Verdict
      BY <1>9, <2>2 DEF Reply!Finish, Reply!Verdict, Reply!Confidence, Reply!MinConfidence
    <3>5. ReplyDecided'
      BY <1>0, <1>9, <2>2, <3>4 DEF Reply!Finish, ReplyDecided
    <3>6. ReplyCompleted'
      BY <1>0, <1>9, <2>2, <3>1, <3>2 DEF Reply!Finish, ReplyCompleted, ReplyUntouched
    <3> QED  BY <1>0, <1>9, <2>2, <3>3, <3>5, <3>6 DEF Reply!Finish, ReplyIInv, ReplyUntouched, ReplyRead, ReplyWritten
  <2> QED  BY <2>1, <2>2
<1>10. CASE UNCHANGED Reply!vars
  <2>1. Reply!Verdict' = Reply!Verdict
    BY <1>10 DEF Reply!vars, Reply!Verdict, Reply!Confidence, Reply!MinConfidence
  <2> QED  BY <1>0, <1>10, <2>1 DEF Reply!vars, ReplyIInv, Reply!TypeOK, ReplyUntouched, ReplyRead, ReplyWritten, ReplyDecided, ReplyCompleted
<1> QED  BY <1>1, <1>2, <1>3, <1>4, <1>5, <1>6, <1>7, <1>8, <1>9, <1>10 DEF Reply!Next

\* The invariant has what is promised.
LEMMA ReplyIInvJudges == ReplyIInv => Reply!RepliesAreJudged
<1> SUFFICES ASSUME ReplyIInv PROVE Reply!RepliesAreJudged
  OBVIOUS
<1>1. Reply!TypeOK /\ ReplyDecided
  BY DEF ReplyIInv
<1>2. ASSUME verdict = "AUTO_SEND"
      PROVE  /\ allow.any /\ (message.twilio => allow.twilio)
             /\ ~message.group /\ ~reply.sensitive /\ judge # "block"
             /\ seen.risk = "low"
             /\ message.ack \/ (message.domain # "general" /\ seen.recent)
  BY <1>1, <1>2, ReplyWhatIsSent DEF ReplyDecided
<1>3. Reply!UnattendedIsBounded
  BY <1>1, <1>2 DEF Reply!UnattendedIsBounded, ReplyDecided
<1>4. Reply!RiskIsHeeded
  <2> SUFFICES ASSUME verdict = "AUTO_SEND" PROVE seen.risk = "low" /\ (risk = "low" \/ changes > 0)
    BY DEF Reply!RiskIsHeeded
  <2>1. pc # "context"
    BY DEF ReplyIInv, ReplyUntouched, ReplyEarly
  <2> QED  BY <1>2, <2>1 DEF ReplyIInv, ReplyRead
<1>5. Reply!FactsAreHeeded
  BY <1>1, <1>2 DEF Reply!FactsAreHeeded, ReplyDecided, Reply!TypeOK
<1>6. Reply!FinanceIsBlocked
  BY <1>1 DEF Reply!FinanceIsBlocked, ReplyDecided, Reply!Verdict
<1>7. Reply!ReviewIsComplete
  BY DEF ReplyIInv, ReplyCompleted, Reply!ReviewIsComplete
<1> QED  BY <1>3, <1>4, <1>5, <1>6, <1>7 DEF Reply!RepliesAreJudged

-----------------------------------------------------------------------------
\* The profiles.
ProfileRows ==
  [does : {"idle", "put", "ingest", "draft", "mode"},
   at : {"idle", "memory", "readProfile", "readRows", "drafted", "profile", "delete", "insert",
         "readRelationship", "relationship", "mode", "logMode"},
   style : Seq(Hints), bounds : SUBSET (Boundaries \cup Default), left : SUBSET (Boundaries \cup Default),
   notes : SUBSET Notes, hint : SUBSET Hints, note : SUBSET Notes, mode : {"auto", "off"},
   stale : BOOLEAN, notesStale : BOOLEAN]

ProfilePhase(q) ==
  /\ q.at = "idle" <=> q.does = "idle"
  /\ q.at \in {"mode", "logMode"} <=> q.does = "mode"
  /\ q.at \in {"memory", "readRelationship"} => q.does = "ingest"
  /\ q.at \in {"readProfile", "readRows"} => q.does \in {"ingest", "draft"}
  /\ q.at = "drafted" => q.does = "draft"
  /\ q.at \in {"profile", "delete", "insert", "relationship"} => q.does \in {"put", "ingest"}
  /\ Len(q.style) <= Cap /\ IsFiniteSet(q.hint)

ProfileTyped ==
  /\ style \in Seq(Hints) /\ Len(style) <= Cap /\ failures \in Nat
  /\ rows \subseteq Boundaries \cup Default /\ notes \subseteq Notes
  /\ auto \in BOOLEAN /\ raced \in BOOLEAN /\ modesRaced \in BOOLEAN
  /\ request \in [Requests -> ProfileRows]
  /\ \A r \in Requests : ProfilePhase(request[r])

\* Who has read the identity and not been outdated since has read what is stored, whole.
ProfileReads(q) == ~q.stale /\ q.does \in {"ingest", "draft"}
                   /\ q.at \in {"readProfile", "readRows", "drafted", "profile"}
ProfileHas(q) ==
  /\ q.at = "readRows" => style = q.style
  /\ q.at = "profile" => Profile!ToSet(style) \subseteq Profile!ToSet(q.style)

ProfileFresh ==
  \A r \in Requests : ProfileReads(request[r]) =>
    ProfileHas(request[r]) /\ \A s \in Requests : ~Profile!Upserting(s)

\* Upserts that do not meet: what is written is what the one under way has.
ProfileAlone ==
  ~raced =>
    /\ \A r, s \in Requests : Profile!Upserting(r) /\ Profile!Upserting(s) => r = s
    /\ \A r \in Requests : Profile!Upserting(r) => style = request[r].style
    /\ promised \subseteq Profile!ToSet(style)

ProfileBound ==
  ~raced =>
    /\ rows \subseteq wanted
    /\ \A r \in Requests : request[r].at = "insert" =>
         request[r].left \subseteq wanted /\ wanted \subseteq rows \cup request[r].left
    /\ failures = 0 /\ (\A r \in Requests : request[r].at # "insert") => rows = wanted

ProfileDrafts ==
  \A r \in Requests : request[r].at = "drafted" /\ ~request[r].stale /\ failures = 0 /\ ~raced =>
    request[r].bounds = Profile!Effective(wanted)

\* An ingest has the notes it read with its own.
ProfileAdds(q) ==
  q.at = "relationship" /\ q.does = "ingest" =>
    /\ q.note \subseteq q.notes
    /\ q.notesStale \/ notes \subseteq q.notes

ProfileNotes ==
  /\ \A r \in Requests : ProfileAdds(request[r])
  /\ ~raced => notesPromised \subseteq notes

ProfileModes ==
  ~modesRaced =>
    /\ \A r, s \in Requests : request[r].does = "mode" /\ request[s].does = "mode" => r = s
    /\ \A r \in Requests : request[r].at = "logMode" => (auto <=> request[r].mode = "auto")
    /\ failures = 0 /\ (\A r \in Requests : request[r].does # "mode") => (auto <=> logged = "auto")

ProfileIInv ==
  /\ ProfileTyped /\ ProfileFresh /\ ProfileAlone /\ ProfileBound /\ ProfileDrafts /\ ProfileNotes /\ ProfileModes

-----------------------------------------------------------------------------
\* mergeUniqueStrings keeps what was there.
LEMMA ProfileMerges ==
  ASSUME NEW old \in Seq(Hints), Len(old) <= Cap, NEW new \in SUBSET Hints, IsFiniteSet(new)
  PROVE  /\ Profile!Merged(old, new) \in Seq(Hints) /\ Len(Profile!Merged(old, new)) <= Cap
         /\ Profile!ToSet(old) \subseteq Profile!ToSet(Profile!Merged(old, new))
<1> DEFINE S == new \ Profile!ToSet(old)
           t == Profile!SetToSeq(S)
           a == old \o t
           n == IF Len(a) < Cap THEN Len(a) ELSE Cap
           m == SubSeq(a, 1, n)
<1>1. t \in Seq(Hints)
  <2>1. IsFiniteSet(S) /\ S \subseteq Hints
    BY FS_Subset
  <2>2. Cardinality(S) \in Nat /\ ExistsBijection(1..Cardinality(S), S)
    BY <2>1, FS_CardinalityType
  <2>3. \E f \in [1..Cardinality(S) -> S] : Profile!IsInjective(f)
    BY <2>2 DEF ExistsBijection, Bijection, Injection, Profile!IsInjective, IsInjective
  <2>6. Cardinality(S) = Profile!Cardinality(S)
    <3> HIDE DEF S
    <3> QED BY DEF Cardinality, Profile!Cardinality
  <2>4. t \in [1..Cardinality(S) -> S]
    <3> HIDE DEF S
    <3> QED BY <2>3, <2>6 DEF Profile!SetToSeq
  <2>5. t \in [1..Cardinality(S) -> Hints]
    BY <2>1, <2>4
  <2> HIDE DEF S, t
  <2> QED BY <2>2, <2>5
<1> HIDE DEF t
<1>2. /\ a \in Seq(Hints) /\ Len(a) = Len(old) + Len(t) /\ Len(old) \in Nat /\ Len(t) \in Nat /\ Cap \in Nat
      /\ \A i \in 1..Len(old) : a[i] = old[i]
  BY <1>1, ConcatProperties, LimitsAreRooms
<1> HIDE DEF a
<1>3. n \in Nat /\ n <= Cap /\ n <= Len(a) /\ Len(old) <= n
  BY <1>2
<1> HIDE DEF n
<1>4. m \in Seq(Hints) /\ Len(m) = n /\ \A i \in 1..n : m[i] = a[i]
  BY <1>2, <1>3, SubSeqProperties
<1>5. Profile!Merged(old, new) = m
  BY DEF Profile!Merged, a, n, t
<1> HIDE DEF m
<1>6. Profile!ToSet(old) \subseteq Profile!ToSet(m)
  <2>1. \A i \in DOMAIN old : i \in DOMAIN m /\ m[i] = old[i]
    BY <1>2, <1>3, <1>4
  <2> QED BY <2>1 DEF Profile!ToSet
<1> QED BY <1>3, <1>4, <1>5, <1>6

-----------------------------------------------------------------------------
\* A step of a request that writes no identity, no notes and no mode.
LEMMA ProfileQuietly ==
  ASSUME ProfileIInv, NEW r \in Requests, NEW q \in ProfileRows, ProfilePhase(q),
         request' = [request EXCEPT ![r] = q],
         UNCHANGED <<style, rows, notes, auto, logged, notesPromised, wanted, raced>>,
         failures' \in Nat, failures' >= failures, modesRaced' \in BOOLEAN, modesRaced => modesRaced',
         q.at \notin {"delete", "insert", "logMode"},
         ProfileReads(q) => ProfileHas(q) /\ \A s \in Requests : s # r => ~Profile!Upserting(s),
         q.at = "drafted" /\ ~q.stale /\ failures = 0 /\ ~raced => q.bounds = Profile!Effective(wanted),
         ProfileAdds(q),
         ~raced => promised' \subseteq Profile!ToSet(style),
         request[r].at = "insert" => request[r].left = {} \/ failures' > 0,
         request[r].does = "mode" => failures' > 0,
         q.does = "mode" => modesRaced' \/ \A s \in Requests : request[s].does # "mode"
  PROVE  ProfileIInv'
<1> USE DEF ProfileIInv
<1>0. /\ request' \in [Requests -> ProfileRows] /\ request'[r] = q
      /\ \A s \in Requests : s # r => request'[s] = request[s]
      /\ DOMAIN request = Requests
  BY DEF ProfileTyped
<1>0a. failures' = 0 => failures = 0
  BY DEF ProfileTyped
<1>0b. /\ \A s \in Requests : Profile!Upserting(s)' => s # r /\ Profile!Upserting(s)
       /\ \A s \in Requests : s # r => (Profile!Upserting(s)' <=> Profile!Upserting(s))
  BY <1>0 DEF Profile!Upserting
<1>1. ProfileTyped'
  BY <1>0 DEF ProfileTyped
<1>2. ProfileFresh'
  <2> SUFFICES ASSUME NEW p \in Requests, ProfileReads(request[p])'
               PROVE  ProfileHas(request[p])' /\ \A s \in Requests : ~Profile!Upserting(s)'
    BY DEF ProfileFresh
  <2>1. CASE p = r
    BY <1>0, <1>0b, <2>1 DEF ProfileHas, ProfileReads
  <2>2. CASE p # r
    BY <1>0, <1>0b, <2>2 DEF ProfileHas, ProfileReads, ProfileFresh
  <2> QED BY <2>1, <2>2
<1>3. ProfileAlone'
  BY <1>0, <1>0b DEF ProfileAlone
<1>4. ProfileBound'
  <2> SUFFICES ASSUME ~raced PROVE (rows \subseteq wanted
        /\ (\A p \in Requests : request[p].at = "insert" =>
             request[p].left \subseteq wanted /\ wanted \subseteq rows \cup request[p].left)
        /\ (failures = 0 /\ (\A p \in Requests : request[p].at # "insert") => rows = wanted))'
    BY DEF ProfileBound
  <2>1. rows' \subseteq wanted'
    BY DEF ProfileBound
  <2>2. \A p \in Requests : request'[p].at = "insert" =>
             request'[p].left \subseteq wanted' /\ wanted' \subseteq rows' \cup request'[p].left
    BY <1>0 DEF ProfileBound
  <2>3. ASSUME failures' = 0, \A p \in Requests : request'[p].at # "insert" PROVE rows' = wanted'
    <3>1. CASE request[r].at = "insert"
      <4>1. request[r].left = {}
        BY <2>3, <3>1
      <4> QED BY <3>1, <4>1 DEF ProfileBound
    <3>2. CASE request[r].at # "insert"
      <4>1. \A p \in Requests : request[p].at # "insert"
        BY <1>0, <2>3, <3>2
      <4> QED BY <1>0a, <2>3, <4>1 DEF ProfileBound
    <3> QED BY <3>1, <3>2
  <2> QED BY <2>1, <2>2, <2>3
<1>5. ProfileDrafts'
  BY <1>0, <1>0a DEF ProfileDrafts, Profile!Effective
<1>6. ProfileNotes'
  <2>1. \A p \in Requests : ProfileAdds(request[p])'
    BY <1>0 DEF ProfileNotes, ProfileAdds
  <2> QED BY <2>1 DEF ProfileNotes
<1>7. ProfileModes'
  <2> SUFFICES ASSUME ~modesRaced' PROVE (
        /\ \A p, s \in Requests : request[p].does = "mode" /\ request[s].does = "mode" => p = s
        /\ \A p \in Requests : request[p].at = "logMode" => (auto <=> request[p].mode = "auto")
        /\ failures = 0 /\ (\A p \in Requests : request[p].does # "mode") => (auto <=> logged = "auto"))'
    BY DEF ProfileModes
  <2>1. \A p, s \in Requests : request'[p].does = "mode" /\ request'[s].does = "mode" => p = s
    BY <1>0 DEF ProfileModes
  <2>2. \A p \in Requests : request'[p].at = "logMode" => (auto' <=> request'[p].mode = "auto")
    BY <1>0 DEF ProfileModes
  <2>3. ASSUME failures' = 0, \A p \in Requests : request'[p].does # "mode" PROVE auto' <=> logged' = "auto"
    <3>1. \A p \in Requests : request[p].does # "mode"
      BY <1>0, <2>3 DEF ProfileTyped
    <3> QED BY <1>0a, <2>3, <3>1 DEF ProfileModes
  <2> QED BY <2>1, <2>2, <2>3
<1> QED BY <1>1, <1>2, <1>3, <1>4, <1>5, <1>6, <1>7

\* A request that begins.
LEMMA ProfileBegins ==
  ASSUME ProfileIInv, NEW r \in Requests,
         Profile!PutIdentity(r) \/ Profile!PutRelationship(r) \/ Profile!Ingest(r)
           \/ Profile!Draft(r) \/ Profile!DelegationMode(r)
  PROVE  ProfileIInv'
<1>0. /\ failures \in Nat /\ modesRaced \in BOOLEAN
      /\ request \in [Requests -> ProfileRows]
      /\ ~raced => promised \subseteq Profile!ToSet(style)
  BY DEF ProfileIInv, ProfileTyped, ProfileAlone
<1>0a. Cap \in Nat /\ Cap >= 1
  BY LimitsAreRooms
<1>0b. request[r] = Profile!Idle
  BY DEF Profile!PutIdentity, Profile!PutRelationship,
     Profile!Ingest, Profile!Draft, Profile!DelegationMode, Profile!Begins
<1>1. /\ Profile!Idle.does = "idle" /\ Profile!Idle.at = "idle"
      /\ Profile!Idle \in ProfileRows /\ Len(Profile!Idle.style) = 0 /\ IsFiniteSet(Profile!Idle.hint)
  <2>1. <<>> \in Seq(Hints) /\ Len(<<>>) = 0
    OBVIOUS
  <2> QED BY <2>1, FS_EmptySet DEF Profile!Idle, ProfileRows
<1>2. CASE Profile!PutIdentity(r)
  <2>1. PICK s \in Profile!SeqOf(Hints, 1), bounds \in SUBSET Boundaries :
          Profile!Begins(r, [Profile!Idle EXCEPT !.does = "put", !.at = "profile", !.style = s, !.bounds = bounds])
    BY <1>2 DEF Profile!PutIdentity
  <2> DEFINE q == [Profile!Idle EXCEPT !.does = "put", !.at = "profile", !.style = s, !.bounds = bounds]
  <2>2. s \in Seq(Hints) /\ Len(s) <= Cap
    <3>1. PICK n \in 0..1 : s \in [1..n -> Hints]
      BY DEF Profile!SeqOf
    <3>2. s \in Seq(Hints) /\ Len(s) = n
      BY <3>1
    <3> QED BY <1>0a, <3>2
  <2>3. q \in ProfileRows /\ ProfilePhase(q)
    BY <2>2, <1>0a, <1>1 DEF ProfileRows, ProfilePhase
  <2>4. q.does = "put" /\ q.at = "profile"
    BY DEF Profile!Idle
  <2>5. /\ request' = [request EXCEPT ![r] = q]
        /\ UNCHANGED <<style, rows, notes, auto, logged, notesPromised, wanted, raced>>
        /\ UNCHANGED <<promised, failures, modesRaced>>
    BY <2>1, <1>2 DEF Profile!Begins, Profile!stored, Profile!PutIdentity
  <2> HIDE DEF q
  <2>8. failures' \in Nat /\ failures' >= failures /\ modesRaced' \in BOOLEAN /\ (modesRaced => modesRaced')
    BY <1>0, <2>5
  <2> QED BY <1>0, <1>0b, <1>1, <2>3, <2>8, <2>4, <2>5, ProfileQuietly DEF ProfileReads, ProfileAdds
<1>3. CASE Profile!PutRelationship(r)
  <2>1. PICK ns \in SUBSET Notes :
          Profile!Begins(r, [Profile!Idle EXCEPT !.does = "put", !.at = "relationship", !.notes = ns])
    BY <1>3 DEF Profile!PutRelationship
  <2> DEFINE q == [Profile!Idle EXCEPT !.does = "put", !.at = "relationship", !.notes = ns]
  <2>4. /\ q.does = "put" /\ q.at = "relationship"
        /\ q \in ProfileRows /\ q.style = Profile!Idle.style /\ q.hint = Profile!Idle.hint
    BY <1>1 DEF ProfileRows
  <2>5. /\ request' = [request EXCEPT ![r] = q]
        /\ UNCHANGED <<style, rows, notes, auto, logged, notesPromised, wanted, raced>>
        /\ UNCHANGED <<promised, failures, modesRaced>>
    BY <2>1, <1>3 DEF Profile!Begins, Profile!stored, Profile!PutRelationship
  <2> HIDE DEF q
  <2>3. ProfilePhase(q)
    BY <1>0a, <1>1, <2>4 DEF ProfilePhase
  <2>8. failures' \in Nat /\ failures' >= failures /\ modesRaced' \in BOOLEAN /\ (modesRaced => modesRaced')
    BY <1>0, <2>5
  <2> QED BY <1>0, <1>0b, <1>1, <2>3, <2>8, <2>4, <2>5, ProfileQuietly DEF ProfileReads, ProfileAdds
<1>4. CASE Profile!Ingest(r)
  <2>1. PICK hint \in {{}} \cup {{h} : h \in Hints}, note \in {{}} \cup {{n} : n \in Notes} :
          Profile!Begins(r, [Profile!Idle EXCEPT !.does = "ingest", !.at = "memory", !.hint = hint, !.note = note])
    BY <1>4 DEF Profile!Ingest
  <2> DEFINE q == [Profile!Idle EXCEPT !.does = "ingest", !.at = "memory", !.hint = hint, !.note = note]
  <2>2. hint \in SUBSET Hints /\ note \in SUBSET Notes /\ IsFiniteSet(hint)
    <3>1. hint \in SUBSET Hints /\ note \in SUBSET Notes
      OBVIOUS
    <3>2. hint = {} \/ \E h \in Hints : hint = {h}
      OBVIOUS
    <3>3. IsFiniteSet(hint)
      BY <3>2, FS_EmptySet, FS_Singleton, Zenon
    <3> QED BY <3>1, <3>3
  <2>4. /\ q.does = "ingest" /\ q.at = "memory"
        /\ q \in ProfileRows /\ q.style = Profile!Idle.style /\ q.hint = hint
    BY <1>1, <2>2 DEF ProfileRows
  <2>5. /\ request' = [request EXCEPT ![r] = q]
        /\ UNCHANGED <<style, rows, notes, auto, logged, notesPromised, wanted, raced>>
        /\ UNCHANGED <<promised, failures, modesRaced>>
    BY <2>1, <1>4 DEF Profile!Begins, Profile!stored, Profile!Ingest
  <2> HIDE DEF q
  <2>3. ProfilePhase(q)
    BY <1>0a, <1>1, <2>2, <2>4 DEF ProfilePhase
  <2>8. failures' \in Nat /\ failures' >= failures /\ modesRaced' \in BOOLEAN /\ (modesRaced => modesRaced')
    BY <1>0, <2>5
  <2> QED BY <1>0, <1>0b, <1>1, <2>3, <2>8, <2>4, <2>5, ProfileQuietly DEF ProfileReads, ProfileAdds
<1>5. CASE Profile!Draft(r)
  <2> DEFINE q == [Profile!Idle EXCEPT !.does = "draft", !.at = "readProfile", !.stale = \E s \in Requests : Profile!Upserting(s)]
  <2>4. /\ q.does = "draft" /\ q.at = "readProfile" /\ (q.stale <=> \E s \in Requests : Profile!Upserting(s))
        /\ q \in ProfileRows /\ q.style = Profile!Idle.style /\ q.hint = Profile!Idle.hint
    BY <1>1 DEF ProfileRows
  <2>5. /\ request' = [request EXCEPT ![r] = q]
        /\ UNCHANGED <<style, rows, notes, auto, logged, notesPromised, wanted, raced>>
        /\ UNCHANGED <<promised, failures, modesRaced>>
    BY <1>5 DEF Profile!Begins, Profile!stored, Profile!Draft
  <2>6. ProfileReads(q) => \A s \in Requests : ~Profile!Upserting(s)
    BY <2>4 DEF ProfileReads
  <2> HIDE DEF q
  <2>3. ProfilePhase(q)
    BY <1>0a, <1>1, <2>4 DEF ProfilePhase
  <2>7. ProfileHas(q) /\ ProfileAdds(q)
    BY <2>4 DEF ProfileHas, ProfileAdds
  <2>8. failures' \in Nat /\ failures' >= failures /\ modesRaced' \in BOOLEAN /\ (modesRaced => modesRaced')
    BY <1>0, <2>5
  <2> QED BY <1>0, <1>0b, <1>1, <2>3, <2>8, <2>4, <2>5, <2>6, <2>7, ProfileQuietly
<1>6. CASE Profile!DelegationMode(r)
  <2>1. PICK mode \in {"auto", "off"} :
          Profile!Begins(r, [Profile!Idle EXCEPT !.does = "mode", !.at = "mode", !.mode = mode])
    BY <1>6 DEF Profile!DelegationMode
  <2> DEFINE q == [Profile!Idle EXCEPT !.does = "mode", !.at = "mode", !.mode = mode]
  <2>4. /\ q.does = "mode" /\ q.at = "mode"
        /\ q \in ProfileRows /\ q.style = Profile!Idle.style /\ q.hint = Profile!Idle.hint
    BY <1>1 DEF ProfileRows
  <2>5. /\ request' = [request EXCEPT ![r] = q]
        /\ UNCHANGED <<style, rows, notes, auto, logged, notesPromised, wanted, raced>>
        /\ UNCHANGED <<promised, failures>>
        /\ modesRaced' = (modesRaced \/ \E s \in Requests : request[s].does = "mode")
    BY <2>1, <1>6 DEF Profile!Begins, Profile!stored, Profile!DelegationMode
  <2> HIDE DEF q
  <2>3. ProfilePhase(q)
    BY <1>0a, <1>1, <2>4 DEF ProfilePhase
  <2>6. ~ProfileReads(q) /\ ProfileAdds(q)
    BY <2>4 DEF ProfileReads, ProfileAdds
  <2>8. failures' \in Nat /\ failures' >= failures /\ modesRaced' \in BOOLEAN /\ (modesRaced => modesRaced')
    BY <1>0, <2>5
  <2>9. modesRaced' \/ \A s \in Requests : request[s].does # "mode"
    BY <2>5
  <2> QED BY <1>0, <1>0b, <1>1, <2>3, <2>4, <2>5, <2>6, <2>8, <2>9, ProfileQuietly
<1> QED BY <1>2, <1>3, <1>4, <1>5, <1>6

\* What is read is what is stored, and an ingest has its own with it.
LEMMA ProfileReading ==
  ASSUME ProfileIInv, NEW r \in Requests,
         Profile!StoreMemory(r) \/ Profile!ReadProfile(r) \/ Profile!ReadRows(r) \/ Profile!ReadRelationship(r)
  PROVE  ProfileIInv'
<1> DEFINE q0 == request[r]
<1>0. /\ q0 \in ProfileRows /\ ProfilePhase(q0) /\ failures \in Nat /\ modesRaced \in BOOLEAN
      /\ style \in Seq(Hints) /\ Len(style) <= Cap /\ rows \subseteq Boundaries \cup Default /\ notes \subseteq Notes
      /\ ~raced => promised \subseteq Profile!ToSet(style)
      /\ request \in [Requests -> ProfileRows]
      /\ ProfileReads(q0) => ProfileHas(q0) /\ \A s \in Requests : ~Profile!Upserting(s)
  BY DEF ProfileIInv, ProfileTyped, ProfileAlone, ProfileFresh
<1>1. CASE Profile!StoreMemory(r)
  <2> DEFINE q == [request[r] EXCEPT !.at = "readProfile", !.stale = \E s \in Requests : Profile!Upserting(s)]
  <2>1. /\ request' = [request EXCEPT ![r] = q] /\ q0.does = "ingest" /\ q0.at = "memory"
        /\ UNCHANGED <<style, rows, notes, auto, logged, notesPromised, wanted, raced>>
        /\ UNCHANGED <<promised, failures, modesRaced>>
    BY <1>0, <1>1 DEF Profile!stored, Profile!recalled, Profile!StoreMemory, Profile!At
  <2>2. q \in ProfileRows /\ ProfilePhase(q)
    BY <1>0, <2>1 DEF ProfileRows, ProfilePhase
  <2>3. q.does = "ingest" /\ q.at = "readProfile" /\ (q.stale <=> \E s \in Requests : Profile!Upserting(s))
    BY <1>0, <2>1 DEF ProfileRows
  <2> HIDE DEF q
  <2>4. (ProfileReads(q) => \A s \in Requests : ~Profile!Upserting(s)) /\ ProfileHas(q) /\ ProfileAdds(q)
    BY <2>3 DEF ProfileReads, ProfileHas, ProfileAdds
  <2>9. failures' \in Nat /\ failures' >= failures /\ modesRaced' \in BOOLEAN /\ (modesRaced => modesRaced')
    BY <1>0, <2>1
  <2> QED BY <1>0, <2>1, <2>2, <2>3, <2>4, <2>9, ProfileQuietly
<1>2. CASE Profile!ReadProfile(r)
  <2> DEFINE passes == q0.does = "ingest" /\ q0.hint = {}
             q == IF passes THEN [request[r] EXCEPT !.at = "readRelationship"]
                  ELSE [request[r] EXCEPT !.style = style, !.at = "readRows"]
  <2>1. /\ request' = [request EXCEPT ![r] = q] /\ q0.at = "readProfile" /\ q0.does \in {"ingest", "draft"}
        /\ UNCHANGED <<style, rows, notes, auto, logged, notesPromised, wanted, raced>>
        /\ UNCHANGED <<promised, failures, modesRaced>>
    BY <1>0, <1>2 DEF Profile!stored, Profile!recalled, Profile!ReadProfile, Profile!Goes, ProfilePhase
  <2>2. q \in ProfileRows /\ ProfilePhase(q)
    BY <1>0, <2>1 DEF ProfileRows, ProfilePhase
  <2>3. /\ q.does = q0.does /\ (q.stale <=> q0.stale)
        /\ \/ q.at = "readRelationship" /\ passes
           \/ q.at = "readRows" /\ q.style = style
    BY <1>0, <2>1 DEF ProfileRows
  <2> HIDE DEF q
  <2>4. (ProfileReads(q) => \A s \in Requests : ~Profile!Upserting(s)) /\ ProfileHas(q) /\ ProfileAdds(q)
    BY <1>0, <2>1, <2>3 DEF ProfileReads, ProfileHas, ProfileAdds
  <2>9. failures' \in Nat /\ failures' >= failures /\ modesRaced' \in BOOLEAN /\ (modesRaced => modesRaced')
    BY <1>0, <2>1
  <2> QED BY <1>0, <2>1, <2>2, <2>3, <2>4, <2>9, ProfileQuietly
<1>3. CASE Profile!ReadRows(r)
  <2> DEFINE merged == Profile!Merged(q0.style, q0.hint)
             at == IF q0.does = "draft" THEN "drafted"
                   ELSE IF merged = q0.style THEN "readRelationship" ELSE "profile"
             bounds == Profile!Effective(rows)
             q == [request[r] EXCEPT !.at = at, !.style = merged, !.bounds = bounds]
  <2>1. /\ request' = [request EXCEPT ![r] = q] /\ q0.at = "readRows" /\ q0.does \in {"ingest", "draft"}
        /\ UNCHANGED <<style, rows, notes, auto, logged, notesPromised, wanted, raced>>
        /\ UNCHANGED <<promised, failures, modesRaced>>
    BY <1>0, <1>3 DEF Profile!stored, Profile!recalled, Profile!ReadRows, ProfilePhase
  <2>2. /\ merged \in Seq(Hints) /\ Len(merged) <= Cap
        /\ Profile!ToSet(q0.style) \subseteq Profile!ToSet(merged)
    BY <1>0, ProfileMerges DEF ProfileRows, ProfilePhase
  <2>3. bounds \in SUBSET (Boundaries \cup Default)
    BY <1>0, Zenon DEF Profile!Effective
  <2> HIDE DEF merged, bounds
  <2>4. \/ at = "drafted" /\ q0.does = "draft"
        \/ at \in {"readRelationship", "profile"} /\ q0.does = "ingest"
    <3>1. CASE q0.does = "draft"
      BY <3>1
    <3>2. CASE q0.does = "ingest"
      BY <3>2
    <3> QED BY <2>1, <3>1, <3>2
  <2> HIDE DEF at
  <2>5. q \in ProfileRows /\ ProfilePhase(q)
    BY <1>0, <2>1, <2>2, <2>3, <2>4 DEF ProfileRows, ProfilePhase
  <2>6. q.does = q0.does /\ (q.stale <=> q0.stale) /\ q.at = at /\ q.style = merged /\ q.bounds = bounds
    BY <1>0 DEF ProfileRows
  <2> HIDE DEF q
  <2>7. (ProfileReads(q) => ProfileHas(q) /\ \A s \in Requests : ~Profile!Upserting(s)) /\ ProfileAdds(q)
    BY <1>0, <2>1, <2>2, <2>4, <2>6 DEF ProfileReads, ProfileHas, ProfileAdds
  <2>8. ASSUME q.at = "drafted", ~q.stale, failures = 0, ~raced PROVE q.bounds = Profile!Effective(wanted)
    <3>1. ProfileReads(q0)
      BY <2>1, <2>6, <2>8 DEF ProfileReads
    <3>2. \A s \in Requests : request[s].at # "insert"
      BY <1>0, <3>1 DEF Profile!Upserting
    <3>3. rows = wanted
      BY <2>8, <3>2 DEF ProfileIInv, ProfileBound
    <3> QED BY <2>6, <3>3 DEF bounds
  <2>9. failures' \in Nat /\ failures' >= failures /\ modesRaced' \in BOOLEAN /\ (modesRaced => modesRaced')
    BY <1>0, <2>1
  <2> QED BY <1>0, <2>1, <2>4, <2>5, <2>6, <2>7, <2>8, <2>9, ProfileQuietly
<1>4. CASE Profile!ReadRelationship(r)
  <2> DEFINE q == IF q0.note \subseteq notes THEN Profile!Idle
                  ELSE [request[r] EXCEPT !.at = "relationship", !.notesStale = FALSE, !.notes = notes \cup request[r].note]
  <2>1. /\ request' = [request EXCEPT ![r] = q] /\ q0.at = "readRelationship" /\ q0.does = "ingest"
        /\ UNCHANGED <<style, rows, notes, auto, logged, notesPromised, wanted, raced>>
        /\ UNCHANGED <<promised, failures, modesRaced>>
    BY <1>0, <1>4 DEF Profile!stored, Profile!recalled, Profile!ReadRelationship, Profile!Ends, Profile!At
  <2>a. Profile!Idle \in ProfileRows /\ ProfilePhase(Profile!Idle) /\ Profile!Idle.at = "idle" /\ Profile!Idle.does = "idle"
    BY FS_EmptySet, LimitsAreRooms DEF ProfileRows, ProfilePhase, Profile!Idle
  <2> DEFINE p == [request[r] EXCEPT !.at = "relationship", !.notesStale = FALSE, !.notes = notes \cup request[r].note]
  <2>b. /\ p \in ProfileRows /\ p.at = "relationship" /\ p.does = "ingest" /\ p.style = q0.style /\ p.hint = q0.hint
        /\ p.note \subseteq p.notes /\ notes \subseteq p.notes
    BY <1>0, <2>1 DEF ProfileRows
  <2>c. q = Profile!Idle \/ q = p
    OBVIOUS
  <2> HIDE DEF p
  <2>d. ProfilePhase(p)
    BY <1>0, <2>b DEF ProfilePhase
  <2> HIDE DEF q
  <2>2. q \in ProfileRows /\ ProfilePhase(q)
    BY <2>a, <2>b, <2>c, <2>d
  <2>3. \/ q.at = "idle" /\ q.does = "idle"
        \/ q.at = "relationship" /\ q.does = "ingest" /\ q.note \subseteq q.notes /\ notes \subseteq q.notes
    <3>1. CASE q = Profile!Idle
      BY <2>a, <3>1
    <3>2. CASE q = p
      BY <2>b, <3>2
    <3> QED BY <2>c, <3>1, <3>2
  <2>4. ~ProfileReads(q) /\ ProfileAdds(q)
    BY <2>3 DEF ProfileReads, ProfileAdds
  <2>9. failures' \in Nat /\ failures' >= failures /\ modesRaced' \in BOOLEAN /\ (modesRaced => modesRaced')
    BY <1>0, <2>1
  <2> QED BY <1>0, <2>1, <2>2, <2>3, <2>4, <2>9, ProfileQuietly
<1> QED BY <1>1, <1>2, <1>3, <1>4

\* Requests that end, or go on from an upsert that is complete.
LEMMA ProfileEnds ==
  ASSUME ProfileIInv, NEW r \in Requests,
         Profile!Drafted(r) \/ Profile!Upserted(r) \/ Profile!Fails(r)
  PROVE  ProfileIInv'
<1> DEFINE q0 == request[r]
<1>0. /\ q0 \in ProfileRows /\ ProfilePhase(q0) /\ failures \in Nat /\ modesRaced \in BOOLEAN
      /\ ~raced => promised \subseteq Profile!ToSet(style)
      /\ request \in [Requests -> ProfileRows]
  BY DEF ProfileIInv, ProfileTyped, ProfileAlone
<1>1. /\ Profile!Idle.does = "idle" /\ Profile!Idle.at = "idle"
      /\ Profile!Idle \in ProfileRows /\ ProfilePhase(Profile!Idle)
  BY FS_EmptySet, LimitsAreRooms DEF ProfileRows, ProfilePhase, Profile!Idle
<1>2. ~ProfileReads(Profile!Idle) /\ ProfileAdds(Profile!Idle)
  BY <1>1 DEF ProfileReads, ProfileAdds
<1>3. CASE Profile!Drafted(r)
  <2>1. /\ request' = [request EXCEPT ![r] = Profile!Idle] /\ q0.at = "drafted" /\ q0.does = "draft"
        /\ UNCHANGED <<style, rows, notes, auto, logged, notesPromised, wanted, raced>>
        /\ UNCHANGED <<promised, failures, modesRaced>>
    BY <1>3 DEF Profile!stored, Profile!recalled, Profile!Drafted, Profile!Ends, Profile!At
  <2>9. failures' \in Nat /\ failures' >= failures /\ modesRaced' \in BOOLEAN /\ (modesRaced => modesRaced')
    BY <1>0, <2>1
  <2> QED BY <1>0, <1>1, <1>2, <2>1, <2>9, ProfileQuietly
<1>4. CASE Profile!Upserted(r)
  <2> DEFINE q == IF q0.does = "put" THEN Profile!Idle ELSE [request[r] EXCEPT !.at = "readRelationship"]
  <2>1. /\ request' = [request EXCEPT ![r] = q] /\ q0.at = "insert" /\ q0.left = {}
        /\ UNCHANGED <<style, rows, notes, auto, logged, notesPromised, wanted, raced>>
        /\ UNCHANGED <<failures, modesRaced>>
        /\ q0.does \in {"put", "ingest"}
        /\ \/ promised' = promised
           \/ promised' = promised \cup (q0.hint \cap Profile!ToSet(q0.style))
    BY <1>0, <1>4 DEF Profile!stored, Profile!recalled, Profile!Upserted, Profile!Ends, Profile!Goes, ProfilePhase
  <2>2. q \in ProfileRows /\ ProfilePhase(q)
    BY <1>0, <1>1, <2>1 DEF ProfileRows, ProfilePhase
  <2>3. q.at \in {"idle", "readRelationship"} /\ q.does # "mode"
    BY <1>0, <1>1, <2>1 DEF ProfileRows
  <2> HIDE DEF q
  <2>4. ~ProfileReads(q) /\ ProfileAdds(q)
    BY <2>3 DEF ProfileReads, ProfileAdds
  <2>5. ~raced => style = q0.style
    BY <2>1 DEF ProfileIInv, ProfileAlone, Profile!Upserting
  <2>6. ~raced => promised' \subseteq Profile!ToSet(style)
    BY <1>0, <2>1, <2>5
  <2>9. failures' \in Nat /\ failures' >= failures /\ modesRaced' \in BOOLEAN /\ (modesRaced => modesRaced')
    BY <1>0, <2>1
  <2> QED BY <1>0, <2>1, <2>2, <2>3, <2>4, <2>6, <2>9, ProfileQuietly
<1>5. CASE Profile!Fails(r)
  <2>1. /\ request' = [request EXCEPT ![r] = Profile!Idle] /\ failures' = failures + 1
        /\ UNCHANGED <<style, rows, notes, auto, logged, notesPromised, wanted, raced>>
        /\ UNCHANGED <<promised, modesRaced>>
    BY <1>5 DEF Profile!stored, Profile!recalled, Profile!Fails, Profile!Ends
  <2>2. failures' \in Nat /\ failures' > 0 /\ failures' >= failures
    BY <1>0, <2>1
  <2>9. failures' \in Nat /\ failures' >= failures /\ modesRaced' \in BOOLEAN /\ (modesRaced => modesRaced')
    BY <1>0, <2>1
  <2> QED BY <1>0, <1>1, <1>2, <2>1, <2>2, <2>9, ProfileQuietly
<1> QED BY <1>3, <1>4, <1>5

LEMMA ProfileStales ==
  ASSUME NEW p \in ProfileRows, NEW q, q = [p EXCEPT !.stale = TRUE]
  PROVE  /\ q \in ProfileRows /\ q.does = p.does /\ q.at = p.at /\ q.style = p.style /\ q.left = p.left
         /\ q.hint = p.hint /\ q.mode = p.mode /\ q.note = p.note /\ q.notes = p.notes
         /\ q.notesStale = p.notesStale /\ q.stale
<1>1. q \in ProfileRows
  BY DEF ProfileRows
<1>2. /\ q.does = p.does /\ q.at = p.at /\ q.style = p.style /\ q.left = p.left
      /\ q.hint = p.hint /\ q.mode = p.mode /\ q.note = p.note /\ q.notes = p.notes
  BY DEF ProfileRows
<1>3. q.notesStale = p.notesStale
  BY DEF ProfileRows
<1>4. q.stale
  BY DEF ProfileRows
<1> QED BY <1>1, <1>2, <1>3, <1>4

\* A statement of an upsert: whoever was reading has read an old identity.
LEMMA ProfileOutdates ==
  ASSUME ProfileIInv, NEW r \in Requests, NEW q \in ProfileRows, ProfilePhase(q),
         request' = [Profile!Outdates(r) EXCEPT ![r] = q],
         q.at \in {"delete", "insert"}, request[r].does = q.does,
         UNCHANGED <<notes, auto, logged, notesPromised, modesRaced, failures>>,
         raced => raced', raced' \in BOOLEAN,
         style' \in Seq(Hints), Len(style') <= Cap, rows' \subseteq Boundaries \cup Default
  PROVE  /\ ProfileTyped' /\ ProfileFresh' /\ ProfileDrafts' /\ ProfileNotes' /\ ProfileModes'
         /\ request'[r] = q
         /\ \A s \in Requests : s # r =>
              /\ request'[s].at = request[s].at /\ request'[s].left = request[s].left
              /\ request'[s].style = request[s].style
<1> USE DEF ProfileIInv
<1>0. request \in [Requests -> ProfileRows] /\ \A s \in Requests : ProfilePhase(request[s])
  BY DEF ProfileTyped
<1>1. request'[r] = q
  BY DEF Profile!Outdates
<1>2. ASSUME NEW s \in Requests, s # r
      PROVE  request'[s] = IF request[s].at # "idle" THEN [request[s] EXCEPT !.stale = TRUE] ELSE request[s]
  BY <1>2 DEF Profile!Outdates
<1>3. ASSUME NEW s \in Requests, s # r
      PROVE  /\ request'[s] \in ProfileRows
             /\ request'[s].does = request[s].does /\ request'[s].at = request[s].at
             /\ request'[s].style = request[s].style /\ request'[s].left = request[s].left
             /\ request'[s].hint = request[s].hint /\ request'[s].mode = request[s].mode
             /\ request'[s].note = request[s].note /\ request'[s].notes = request[s].notes
             /\ request'[s].notesStale = request[s].notesStale
             /\ request[s].at = "idle" \/ request'[s].stale
  <2>1. CASE request[s].at = "idle"
    BY <1>0, <1>2, <1>3, <2>1
  <2>2. CASE request[s].at # "idle"
    <3>1. request'[s] = [request[s] EXCEPT !.stale = TRUE] /\ request[s] \in ProfileRows
      BY <1>0, <1>2, <1>3, <2>2
    <3> QED BY <2>2, <3>1, ProfileStales
  <2> QED BY <2>1, <2>2
<1>4. request' \in [Requests -> ProfileRows]
  <2>1. request' = [s \in Requests |-> request'[s]]
    BY DEF Profile!Outdates
  <2>2. \A s \in Requests : request'[s] \in ProfileRows
    BY <1>1, <1>3
  <2> QED BY <2>1, <2>2
<1>5. \A s \in Requests : ProfilePhase(request'[s])
  BY <1>0, <1>1, <1>3 DEF ProfilePhase
<1>6. ProfileTyped'
  BY <1>4, <1>5 DEF ProfileTyped, ProfilePhase
<1>7. \A s \in Requests : request'[s].at \in {"idle", "delete", "insert"} \/ request'[s].stale
  BY <1>1, <1>3
<1>8. ProfileFresh' /\ ProfileDrafts'
  BY <1>7 DEF ProfileFresh, ProfileDrafts, ProfileReads
<1>9. ProfileNotes'
  <2>1. \A s \in Requests : ProfileAdds(request[s])'
    BY <1>1, <1>3 DEF ProfileNotes, ProfileAdds
  <2> QED BY <2>1 DEF ProfileNotes
<1>10. ProfileModes'
  <2>1. \A s \in Requests : request'[s].does = request[s].does
    BY <1>1, <1>3
  <2>2. \A s \in Requests : request'[s].at = "logMode" => request[s].at = "logMode" /\ request'[s].mode = request[s].mode
    BY <1>1, <1>3
  <2> QED BY <2>1, <2>2 DEF ProfileModes
<1> QED BY <1>1, <1>3, <1>6, <1>8, <1>9, <1>10

LEMMA ProfileUpserts ==
  ASSUME ProfileIInv, NEW r \in Requests,
         Profile!UpsertProfile(r) \/ Profile!DeleteConstraints(r) \/ Profile!InsertConstraint(r)
  PROVE  ProfileIInv'
<1> DEFINE q0 == request[r]
<1>0. /\ q0 \in ProfileRows /\ ProfilePhase(q0) /\ raced \in BOOLEAN
      /\ style \in Seq(Hints) /\ Len(style) <= Cap /\ rows \subseteq Boundaries \cup Default
      /\ request \in [Requests -> ProfileRows]
  BY DEF ProfileIInv, ProfileTyped
<1>1. CASE Profile!UpsertProfile(r)
  <2> DEFINE q == [request[r] EXCEPT !.at = "delete"]
  <2>1. /\ q0.at = "profile" /\ style' = q0.style
        /\ request' = [Profile!Outdates(r) EXCEPT ![r] = q]
        /\ promised' = IF request[r].does = "put" THEN Profile!ToSet(style') ELSE promised
        /\ raced' = (raced \/ request[r].stale \/ \E s \in Requests : Profile!Upserting(s))
        /\ UNCHANGED <<notes, auto, logged, notesPromised, modesRaced, failures>>
        /\ UNCHANGED <<rows, wanted>>
    BY <1>1 DEF Profile!UpsertProfile, Profile!Outdates
  <2>2. /\ q \in ProfileRows /\ q.at = "delete" /\ q.does = q0.does /\ q.style = q0.style /\ q.hint = q0.hint
        /\ q.does \in {"put", "ingest"}
    BY <1>0, <2>1 DEF ProfileRows, ProfilePhase
  <2> HIDE DEF q
  <2>3. ProfilePhase(q)
    BY <1>0, <2>2 DEF ProfilePhase
  <2>4. style' \in Seq(Hints) /\ Len(style') <= Cap /\ rows' \subseteq Boundaries \cup Default
    BY <1>0, <2>1 DEF ProfileRows, ProfilePhase
  <2>5. raced' \in BOOLEAN /\ (raced => raced')
    BY <2>1
  <2>6. /\ ProfileTyped' /\ ProfileFresh' /\ ProfileDrafts' /\ ProfileNotes' /\ ProfileModes'
        /\ request'[r] = q
        /\ \A s \in Requests : s # r =>
              /\ request'[s].at = request[s].at /\ request'[s].left = request[s].left
              /\ request'[s].style = request[s].style
    BY <2>1, <2>2, <2>3, <2>4, <2>5, ProfileOutdates
  <2>7. ProfileAlone'
    <3> SUFFICES ASSUME ~raced'
                 PROVE  (/\ \A p, s \in Requests : Profile!Upserting(p) /\ Profile!Upserting(s) => p = s
                         /\ \A p \in Requests : Profile!Upserting(p) => style = request[p].style
                         /\ promised \subseteq Profile!ToSet(style))'
      BY DEF ProfileAlone
    <3>1. ~raced /\ ~q0.stale /\ \A s \in Requests : ~Profile!Upserting(s)
      BY <2>1
    <3>2. \A s \in Requests : Profile!Upserting(s)' => s = r
      BY <2>6, <3>1 DEF Profile!Upserting
    <3>3. promised' \subseteq Profile!ToSet(style')
      <4>1. CASE q0.does = "put"
        BY <2>1, <4>1
      <4>2. CASE q0.does = "ingest"
        <5>1. ProfileReads(q0)
          BY <2>1, <3>1, <4>2 DEF ProfileReads
        <5>2. Profile!ToSet(style) \subseteq Profile!ToSet(q0.style)
          BY <2>1, <5>1 DEF ProfileIInv, ProfileFresh, ProfileHas
        <5>3. promised \subseteq Profile!ToSet(style)
          BY <3>1 DEF ProfileIInv, ProfileAlone
        <5> QED BY <2>1, <4>2, <5>2, <5>3
      <4> QED BY <2>2, <4>1, <4>2
    <3> QED BY <2>1, <2>2, <2>6, <3>2, <3>3
  <2>8. ProfileBound'
    <3> SUFFICES ASSUME ~raced'
        PROVE (/\ rows \subseteq wanted
               /\ \A p \in Requests : request[p].at = "insert" =>
                    request[p].left \subseteq wanted /\ wanted \subseteq rows \cup request[p].left
               /\ failures = 0 /\ (\A p \in Requests : request[p].at # "insert") => rows = wanted)'
      BY DEF ProfileBound
    <3>1. ~raced
      BY <2>1
    <3>2. \A p \in Requests : (request'[p].at = "insert" <=> request[p].at = "insert")
      BY <2>1, <2>2, <2>6
    <3>3. \A p \in Requests : request'[p].at = "insert" => request'[p].left = request[p].left
      BY <2>2, <2>6
    <3> QED BY <2>1, <3>1, <3>2, <3>3 DEF ProfileIInv, ProfileBound
  <2> QED BY <2>6, <2>7, <2>8 DEF ProfileIInv
<1>2. CASE Profile!DeleteConstraints(r)
  <2> DEFINE q == [request[r] EXCEPT !.at = "insert", !.left = request[r].bounds]
  <2>1. /\ q0.at = "delete" /\ rows' = {} /\ wanted' = q0.bounds
        /\ request' = [Profile!Outdates(r) EXCEPT ![r] = q]
        /\ UNCHANGED <<notes, auto, logged, notesPromised, modesRaced, failures>>
        /\ UNCHANGED <<style, promised, raced>>
    BY <1>2 DEF Profile!DeleteConstraints, Profile!Outdates
  <2>2. /\ q \in ProfileRows /\ q.at = "insert" /\ q.does = q0.does /\ q.style = q0.style /\ q.hint = q0.hint
        /\ q.left = q0.bounds /\ q.does \in {"put", "ingest"}
    BY <1>0, <2>1 DEF ProfileRows, ProfilePhase
  <2> HIDE DEF q
  <2>3. ProfilePhase(q)
    BY <1>0, <2>2 DEF ProfilePhase
  <2>4. style' \in Seq(Hints) /\ Len(style') <= Cap /\ rows' \subseteq Boundaries \cup Default
    BY <1>0, <2>1
  <2>5. raced' \in BOOLEAN /\ (raced => raced')
    BY <1>0, <2>1
  <2>6. /\ ProfileTyped' /\ ProfileFresh' /\ ProfileDrafts' /\ ProfileNotes' /\ ProfileModes'
        /\ request'[r] = q
        /\ \A s \in Requests : s # r =>
              /\ request'[s].at = request[s].at /\ request'[s].left = request[s].left
              /\ request'[s].style = request[s].style
    BY <2>1, <2>2, <2>3, <2>4, <2>5, ProfileOutdates
  <2>7. /\ \A s \in Requests : (Profile!Upserting(s)' <=> Profile!Upserting(s))
        /\ \A s \in Requests : request'[s].style = request[s].style
    BY <2>1, <2>2, <2>6 DEF Profile!Upserting
  <2>8. ProfileAlone'
    BY <2>1, <2>7 DEF ProfileIInv, ProfileAlone
  <2>9. ProfileBound'
    <3> SUFFICES ASSUME ~raced'
        PROVE (/\ rows \subseteq wanted
               /\ \A p \in Requests : request[p].at = "insert" =>
                    request[p].left \subseteq wanted /\ wanted \subseteq rows \cup request[p].left
               /\ failures = 0 /\ (\A p \in Requests : request[p].at # "insert") => rows = wanted)'
      BY DEF ProfileBound
    <3>1. \A p \in Requests : request'[p].at = "insert" => p = r
      BY <2>1, <2>6 DEF ProfileIInv, ProfileAlone, Profile!Upserting
    <3> QED BY <2>1, <2>2, <2>6, <3>1
  <2> QED BY <2>6, <2>8, <2>9 DEF ProfileIInv
<1>3. CASE Profile!InsertConstraint(r)
  <2>0. PICK b \in q0.left :
          /\ rows' = rows \cup {b}
          /\ request' = [Profile!Outdates(r) EXCEPT ![r].left = @ \ {b}]
    BY <1>3 DEF Profile!InsertConstraint
  <2> DEFINE q == [request[r] EXCEPT !.left = request[r].left \ {b}]
  <2>1. /\ q0.at = "insert"
        /\ request' = [Profile!Outdates(r) EXCEPT ![r] = q]
        /\ UNCHANGED <<notes, auto, logged, notesPromised, modesRaced, failures>>
        /\ UNCHANGED <<style, promised, raced, wanted>>
    BY <1>3, <2>0 DEF Profile!InsertConstraint, Profile!Outdates, Profile!recalled
  <2>2. /\ q \in ProfileRows /\ q.at = "insert" /\ q.does = q0.does /\ q.style = q0.style /\ q.hint = q0.hint
        /\ q.left = q0.left \ {b} /\ q.does \in {"put", "ingest"} /\ b \in Boundaries \cup Default
    BY <1>0, <2>0, <2>1 DEF ProfileRows, ProfilePhase
  <2> HIDE DEF q
  <2>3. ProfilePhase(q)
    BY <1>0, <2>2 DEF ProfilePhase
  <2>4. style' \in Seq(Hints) /\ Len(style') <= Cap /\ rows' \subseteq Boundaries \cup Default
    BY <1>0, <2>0, <2>1, <2>2
  <2>5. raced' \in BOOLEAN /\ (raced => raced')
    BY <1>0, <2>1
  <2>6. /\ ProfileTyped' /\ ProfileFresh' /\ ProfileDrafts' /\ ProfileNotes' /\ ProfileModes'
        /\ request'[r] = q
        /\ \A s \in Requests : s # r =>
              /\ request'[s].at = request[s].at /\ request'[s].left = request[s].left
              /\ request'[s].style = request[s].style
    BY <2>1, <2>2, <2>3, <2>4, <2>5, ProfileOutdates
  <2>7. /\ \A s \in Requests : (Profile!Upserting(s)' <=> Profile!Upserting(s))
        /\ \A s \in Requests : request'[s].style = request[s].style
    BY <2>1, <2>2, <2>6 DEF Profile!Upserting
  <2>8. ProfileAlone'
    BY <2>1, <2>7 DEF ProfileIInv, ProfileAlone
  <2>9. ProfileBound'
    <3> SUFFICES ASSUME ~raced'
        PROVE (/\ rows \subseteq wanted
               /\ \A p \in Requests : request[p].at = "insert" =>
                    request[p].left \subseteq wanted /\ wanted \subseteq rows \cup request[p].left
               /\ failures = 0 /\ (\A p \in Requests : request[p].at # "insert") => rows = wanted)'
      BY DEF ProfileBound
    <3>0. ~raced
      BY <2>1
    <3>1. \A p \in Requests : request'[p].at = "insert" => p = r
      BY <2>1, <2>6, <3>0 DEF ProfileIInv, ProfileAlone, Profile!Upserting
    <3>2. rows \subseteq wanted /\ q0.left \subseteq wanted /\ wanted \subseteq rows \cup q0.left
      BY <2>1, <3>0 DEF ProfileIInv, ProfileBound
    <3> QED BY <2>0, <2>1, <2>2, <2>6, <3>1, <3>2
  <2> QED BY <2>6, <2>8, <2>9 DEF ProfileIInv
<1> QED BY <1>1, <1>2, <1>3

\* An upsert of the relationship, and a change of the mode.
LEMMA ProfileRelates ==
  ASSUME ProfileIInv, NEW r \in Requests, Profile!UpsertRelationship(r)
  PROVE  ProfileIInv'
<1> DEFINE q0 == request[r]
<1>0. /\ q0 \in ProfileRows /\ ProfilePhase(q0) /\ raced \in BOOLEAN
      /\ request \in [Requests -> ProfileRows] /\ \A s \in Requests : ProfilePhase(request[s])
  BY DEF ProfileIInv, ProfileTyped
<1>1. /\ Profile!Idle.does = "idle" /\ Profile!Idle.at = "idle"
      /\ Profile!Idle \in ProfileRows /\ ProfilePhase(Profile!Idle)
  BY FS_EmptySet, LimitsAreRooms DEF ProfileRows, ProfilePhase, Profile!Idle
<1>2. /\ q0.at = "relationship" /\ notes' = q0.notes /\ q0.does \in {"put", "ingest"}
      /\ request' = [s \in Requests |-> IF s = r THEN Profile!Idle ELSE [request[s] EXCEPT !.notesStale = request[s].at # "idle"]]
      /\ notesPromised' = IF q0.does = "put" THEN q0.notes ELSE notesPromised \cup q0.note
      /\ raced' = (raced \/ (q0.notesStale /\ q0.does = "ingest"))
      /\ UNCHANGED <<style, rows, auto, logged, promised, wanted, modesRaced, failures>>
  BY <1>0 DEF Profile!UpsertRelationship, ProfilePhase
<1>3. raced' \in BOOLEAN /\ (raced => raced')
  BY <1>2
<1>4. request'[r] = Profile!Idle
  BY <1>2
<1>5. ASSUME NEW s \in Requests, s # r
      PROVE  /\ request'[s] \in ProfileRows
             /\ request'[s].does = request[s].does /\ request'[s].at = request[s].at
             /\ request'[s].style = request[s].style /\ request'[s].left = request[s].left
             /\ request'[s].hint = request[s].hint /\ request'[s].mode = request[s].mode
             /\ request'[s].note = request[s].note /\ request'[s].notes = request[s].notes
             /\ request'[s].stale = request[s].stale /\ request'[s].bounds = request[s].bounds
             /\ request[s].at = "idle" \/ request'[s].notesStale
  <2>1. request'[s] = [request[s] EXCEPT !.notesStale = request[s].at # "idle"] /\ request[s] \in ProfileRows
    BY <1>0, <1>2, <1>5
  <2> QED BY <2>1 DEF ProfileRows
<1>6. request' \in [Requests -> ProfileRows]
  <2>1. \A s \in Requests : request'[s] \in ProfileRows
    BY <1>1, <1>4, <1>5
  <2>2. request' = [s \in Requests |-> request'[s]]
    BY <1>2
  <2> QED BY <2>1, <2>2
<1>7. \A s \in Requests : ProfilePhase(request'[s])
  BY <1>0, <1>1, <1>4, <1>5 DEF ProfilePhase
<1>8. \A s \in Requests : (Profile!Upserting(s)' <=> Profile!Upserting(s))
  BY <1>1, <1>2, <1>4, <1>5 DEF Profile!Upserting
<1>9. ProfileTyped'
  <2>1. notes' \subseteq Notes
    BY <1>0, <1>2 DEF ProfileRows
  <2> QED BY <1>2, <1>3, <1>6, <1>7, <2>1 DEF ProfileIInv, ProfileTyped, ProfilePhase
<1>10. ProfileFresh'
  <2> SUFFICES ASSUME NEW p \in Requests, ProfileReads(request[p])'
               PROVE  ProfileHas(request[p])' /\ \A s \in Requests : ~Profile!Upserting(s)'
    BY DEF ProfileFresh
  <2>1. p # r
    BY <1>1, <1>4 DEF ProfileReads
  <2>2. ProfileReads(request[p])
    BY <1>5, <2>1 DEF ProfileReads
  <2> QED BY <1>2, <1>5, <1>8, <2>1, <2>2 DEF ProfileIInv, ProfileFresh, ProfileHas
<1>11. ProfileAlone'
  <2>1. \A s \in Requests : Profile!Upserting(s) => request'[s].style = request[s].style
    BY <1>2, <1>5 DEF Profile!Upserting
  <2> QED BY <1>2, <1>3, <1>8, <2>1 DEF ProfileIInv, ProfileAlone
<1>12. ProfileBound'
  <2>1. \A s \in Requests : (request'[s].at = "insert" <=> request[s].at = "insert")
    BY <1>1, <1>2, <1>4, <1>5
  <2>2. \A s \in Requests : request'[s].at = "insert" => request'[s].left = request[s].left
    BY <1>1, <1>4, <1>5
  <2> QED BY <1>2, <1>3, <2>1, <2>2 DEF ProfileIInv, ProfileBound
<1>13. ProfileDrafts'
  <2>1. \A s \in Requests : request'[s].at = "drafted" => s # r
    BY <1>1, <1>4
  <2> QED BY <1>2, <1>3, <1>5, <2>1 DEF ProfileIInv, ProfileDrafts, Profile!Effective
<1>14. ProfileNotes'
  <2>1. \A s \in Requests : ProfileAdds(request[s])'
    <3> SUFFICES ASSUME NEW s \in Requests PROVE ProfileAdds(request[s])'
      OBVIOUS
    <3>1. CASE s = r
      BY <1>1, <1>4, <3>1 DEF ProfileAdds
    <3>2. CASE s # r
      BY <1>5, <3>2 DEF ProfileIInv, ProfileNotes, ProfileAdds
    <3> QED BY <3>1, <3>2
  <2>2. ASSUME ~raced' PROVE notesPromised' \subseteq notes'
    <3>1. CASE q0.does = "put"
      BY <1>2, <3>1
    <3>2. CASE q0.does = "ingest"
      <4>1. ~raced /\ ~q0.notesStale
        BY <1>2, <2>2, <3>2
      <4>2. q0.note \subseteq q0.notes /\ notes \subseteq q0.notes
        BY <1>2, <3>2, <4>1 DEF ProfileIInv, ProfileNotes, ProfileAdds
      <4> QED BY <1>2, <3>2, <4>1, <4>2 DEF ProfileIInv, ProfileNotes
    <3> QED BY <1>2, <3>1, <3>2
  <2> QED BY <2>1, <2>2 DEF ProfileNotes
<1>15. ProfileModes'
  <2>1. \A s \in Requests : (request'[s].does = "mode" <=> request[s].does = "mode")
    BY <1>1, <1>2, <1>4, <1>5
  <2>2. \A s \in Requests : request'[s].at = "logMode" => request[s].at = "logMode" /\ request'[s].mode = request[s].mode
    BY <1>1, <1>4, <1>5
  <2> QED BY <1>2, <2>1, <2>2 DEF ProfileIInv, ProfileModes
<1> QED BY <1>9, <1>10, <1>11, <1>12, <1>13, <1>14, <1>15 DEF ProfileIInv

LEMMA ProfileSwitches ==
  ASSUME ProfileIInv, NEW r \in Requests, Profile!SetMode(r) \/ Profile!LogMode(r)
  PROVE  ProfileIInv'
<1> DEFINE q0 == request[r]
           q == IF Profile!SetMode(r) THEN [request[r] EXCEPT !.at = "logMode"] ELSE Profile!Idle
<1>0. /\ q0 \in ProfileRows /\ ProfilePhase(q0)
      /\ request \in [Requests -> ProfileRows] /\ \A s \in Requests : ProfilePhase(request[s])
  BY DEF ProfileIInv, ProfileTyped
<1>1. /\ Profile!Idle.does = "idle" /\ Profile!Idle.at = "idle"
      /\ Profile!Idle \in ProfileRows /\ ProfilePhase(Profile!Idle)
  BY FS_EmptySet, LimitsAreRooms DEF ProfileRows, ProfilePhase, Profile!Idle
<1>2. /\ request' = [request EXCEPT ![r] = q] /\ q0.does = "mode" /\ q0.at \in {"mode", "logMode"}
      /\ UNCHANGED <<style, rows, notes, promised, notesPromised, wanted, raced, modesRaced, failures>>
  BY DEF Profile!SetMode, Profile!LogMode, Profile!Goes, Profile!Ends, Profile!At, Profile!recalled
<1>3. /\ Profile!SetMode(r) =>
           /\ auto' = (q0.mode = "auto") /\ logged' = logged /\ q.at = "logMode" /\ q.mode = q0.mode /\ q.does = "mode"
           /\ q.style = q0.style /\ q.hint = q0.hint
      /\ ~Profile!SetMode(r) => auto' = auto /\ logged' = q0.mode /\ q0.at = "logMode" /\ q = Profile!Idle
      /\ q \in ProfileRows
  BY <1>0, <1>1 DEF Profile!SetMode, Profile!LogMode, ProfileRows, Profile!At
<1> HIDE DEF q
<1>4. ProfilePhase(q) /\ q.at \in {"idle", "logMode"} /\ q.does \in {"idle", "mode"}
  BY <1>0, <1>1, <1>3 DEF ProfilePhase
<1>5. /\ request' \in [Requests -> ProfileRows] /\ request'[r] = q
      /\ \A s \in Requests : s # r => request'[s] = request[s]
  BY <1>0, <1>2, <1>3
<1>6. \A s \in Requests : (Profile!Upserting(s)' <=> Profile!Upserting(s))
  BY <1>2, <1>4, <1>5 DEF Profile!Upserting
<1>7. ProfileTyped'
  <2>1. auto' \in BOOLEAN
    BY <1>3 DEF ProfileIInv, ProfileTyped
  <2> QED BY <1>0, <1>2, <1>4, <1>5, <2>1 DEF ProfileIInv, ProfileTyped
<1>8. ProfileFresh'
  <2> SUFFICES ASSUME NEW p \in Requests, ProfileReads(request[p])'
               PROVE  ProfileHas(request[p])' /\ \A s \in Requests : ~Profile!Upserting(s)'
    BY DEF ProfileFresh
  <2>1. p # r
    BY <1>4, <1>5 DEF ProfileReads
  <2> QED BY <1>2, <1>5, <1>6, <2>1 DEF ProfileIInv, ProfileFresh, ProfileHas, ProfileReads
<1>9. ProfileAlone'
  BY <1>2, <1>4, <1>5, <1>6 DEF ProfileIInv, ProfileAlone, Profile!Upserting
<1>10. ProfileBound'
  <2>1. \A s \in Requests : (request'[s].at = "insert" <=> request[s].at = "insert")
    BY <1>2, <1>4, <1>5
  <2>2. \A s \in Requests : request'[s].at = "insert" => request'[s].left = request[s].left
    BY <1>4, <1>5
  <2> QED BY <1>2, <2>1, <2>2 DEF ProfileIInv, ProfileBound
<1>11. ProfileDrafts'
  BY <1>2, <1>4, <1>5 DEF ProfileIInv, ProfileDrafts, Profile!Effective
<1>12. ProfileNotes'
  <2>1. \A s \in Requests : ProfileAdds(request[s])'
    BY <1>2, <1>4, <1>5 DEF ProfileIInv, ProfileNotes, ProfileAdds
  <2> QED BY <1>2, <2>1 DEF ProfileIInv, ProfileNotes
<1>13. ProfileModes'
  <2> SUFFICES ASSUME ~modesRaced
      PROVE (/\ \A p, s \in Requests : request[p].does = "mode" /\ request[s].does = "mode" => p = s
             /\ \A p \in Requests : request[p].at = "logMode" => (auto <=> request[p].mode = "auto")
             /\ failures = 0 /\ (\A p \in Requests : request[p].does # "mode") => (auto <=> logged = "auto"))'
    BY <1>2 DEF ProfileModes
  <2>1. /\ \A s \in Requests : request[s].does = "mode" => s = r
        /\ q0.at = "logMode" => (auto <=> q0.mode = "auto")
    BY <1>2 DEF ProfileIInv, ProfileModes
  <2>2. \A s \in Requests : request'[s].does = "mode" => s = r
    BY <1>5, <2>1
  <2>3. \A s \in Requests : request'[s].at = "logMode" => s = r
    BY <1>0, <1>5, <2>1 DEF ProfilePhase
  <2>4. CASE Profile!SetMode(r)
    <3>1. request'[r].does = "mode" /\ (auto' <=> request'[r].mode = "auto")
      BY <1>3, <1>5, <2>4
    <3> QED BY <2>2, <2>3, <3>1
  <2>5. CASE ~Profile!SetMode(r)
    <3>1. request'[r].at # "logMode" /\ (auto' <=> logged' = "auto")
      BY <1>1, <1>3, <1>5, <2>1, <2>5
    <3> QED BY <2>2, <2>3, <3>1
  <2> QED BY <2>4, <2>5
<1> QED BY <1>7, <1>8, <1>9, <1>10, <1>11, <1>12, <1>13 DEF ProfileIInv

LEMMA ProfileInitIInv == Profile!Init => ProfileIInv
<1> SUFFICES ASSUME Profile!Init PROVE ProfileIInv
  OBVIOUS
<1>1. /\ Profile!Idle.does = "idle" /\ Profile!Idle.at = "idle"
      /\ Profile!Idle \in ProfileRows /\ ProfilePhase(Profile!Idle)
  BY FS_EmptySet, LimitsAreRooms DEF ProfileRows, ProfilePhase, Profile!Idle
<1>2. style \in Seq(Hints) /\ Len(style) <= Cap
  <2>1. PICK n \in 0..1 : style \in [1..n -> Hints]
    BY DEF Profile!Init, Profile!SeqOf
  <2>2. style \in Seq(Hints) /\ Len(style) = n
    BY <2>1
  <2> QED BY <2>2, LimitsAreRooms
<1>3. request \in [Requests -> ProfileRows] /\ \A r \in Requests : request[r] = Profile!Idle
  BY <1>1 DEF Profile!Init
<1>4. ProfileTyped
  BY <1>1, <1>2, <1>3 DEF Profile!Init, ProfileTyped
<1>5. ProfileFresh /\ ProfileDrafts
  BY <1>1, <1>3 DEF ProfileFresh, ProfileDrafts, ProfileReads
<1>6. ProfileAlone /\ ProfileBound /\ ProfileModes
  BY <1>1, <1>3 DEF Profile!Init, ProfileAlone, ProfileBound, ProfileModes, Profile!Upserting
<1>7. ProfileNotes
  BY <1>1, <1>3 DEF Profile!Init, ProfileNotes, ProfileAdds
<1> QED BY <1>4, <1>5, <1>6, <1>7 DEF ProfileIInv

LEMMA ProfileStepKeepsIInv == ProfileIInv /\ [Profile!Next]_Profile!vars => ProfileIInv'
<1> SUFFICES ASSUME ProfileIInv, [Profile!Next]_Profile!vars PROVE ProfileIInv'
  OBVIOUS
<1>1. CASE UNCHANGED Profile!vars
  <2> USE <1>1 DEF Profile!vars, Profile!stored, Profile!recalled, ProfileIInv
  <2>1. ProfileTyped'
    BY DEF ProfileTyped
  <2>2. ProfileFresh'
    BY DEF ProfileFresh, ProfileHas, Profile!Upserting
  <2>3. ProfileAlone' /\ ProfileBound'
    BY DEF ProfileAlone, ProfileBound, Profile!Upserting
  <2>4. ProfileDrafts' /\ ProfileNotes' /\ ProfileModes'
    BY DEF ProfileDrafts, ProfileNotes, ProfileModes, ProfileAdds, Profile!Effective
  <2> QED BY <2>1, <2>2, <2>3, <2>4
<1>2. CASE Profile!Next
  <2>1. PICK r \in Requests :
          \/ Profile!PutIdentity(r) \/ Profile!PutRelationship(r) \/ Profile!Ingest(r) \/ Profile!Draft(r) \/ Profile!DelegationMode(r)
          \/ Profile!StoreMemory(r) \/ Profile!ReadProfile(r) \/ Profile!ReadRows(r) \/ Profile!ReadRelationship(r)
          \/ Profile!Drafted(r) \/ Profile!Upserted(r) \/ Profile!Fails(r)
          \/ Profile!UpsertProfile(r) \/ Profile!DeleteConstraints(r) \/ Profile!InsertConstraint(r)
          \/ Profile!UpsertRelationship(r) \/ Profile!SetMode(r) \/ Profile!LogMode(r)
    BY <1>2 DEF Profile!Next
  <2>2. CASE Profile!PutIdentity(r) \/ Profile!PutRelationship(r) \/ Profile!Ingest(r) \/ Profile!Draft(r) \/ Profile!DelegationMode(r)
    BY <2>2, ProfileBegins
  <2>3. CASE Profile!StoreMemory(r) \/ Profile!ReadProfile(r) \/ Profile!ReadRows(r) \/ Profile!ReadRelationship(r)
    BY <2>3, ProfileReading
  <2>4. CASE Profile!Drafted(r) \/ Profile!Upserted(r) \/ Profile!Fails(r)
    BY <2>4, ProfileEnds
  <2>5. CASE Profile!UpsertProfile(r) \/ Profile!DeleteConstraints(r) \/ Profile!InsertConstraint(r)
    BY <2>5, ProfileUpserts
  <2>6. CASE Profile!UpsertRelationship(r)
    BY <2>6, ProfileRelates
  <2>7. CASE Profile!SetMode(r) \/ Profile!LogMode(r)
    BY <2>7, ProfileSwitches
  <2> QED BY <2>1, <2>2, <2>3, <2>4, <2>5, <2>6, <2>7
<1> QED BY <1>1, <1>2

LEMMA ProfileIInvKeeps == ProfileIInv => Profile!ProfilesAreKept
<1> SUFFICES ASSUME ProfileIInv PROVE Profile!ProfilesAreKept
  OBVIOUS
<1>1. Profile!AddedStays
  BY DEF ProfileIInv, ProfileAlone, ProfileNotes, Profile!AddedStays
<1>2. Profile!ConstraintsStand
  BY DEF ProfileIInv, ProfileBound, Profile!ConstraintsStand
<1>3. Profile!DraftsSeeConstraints
  BY DEF ProfileIInv, ProfileDrafts, Profile!DraftsSeeConstraints, Profile!At
<1>4. Profile!LoggedModeIsInForce
  BY DEF ProfileIInv, ProfileModes, Profile!LoggedModeIsInForce
<1> QED BY <1>1, <1>2, <1>3, <1>4 DEF Profile!ProfilesAreKept

-----------------------------------------------------------------------------
\* The ingest.
IngestThreads == Chats \cup {"", "google_gmail", "slack"}
IngestTexts   == {"line", "blank", "reply"}
IngestBefore  == {"idle", "list", "fetch", "ask", "again"}

IngestRows ==
  [does : {"idle", "import", "desktop"}, at : IngestBefore \cup {"store", "answered", "failed"},
   thread : IngestThreads, token : Nat, left : Nat, contents : Seq(IngestTexts), stored : Nat]
IngestChunks == [ingest : Imports, thread : IngestThreads, says : IngestTexts]

\* Nothing is stored before all of it is there, and who was answered has stored it.
IngestPhase(q) ==
  /\ q.stored <= Len(q.contents)
  /\ q.at \in IngestBefore => q.stored = 0
  /\ q.at = "idle" => q.contents = <<>>
  /\ q.at = "fetch" => q.left > 0
  /\ q.at = "answered" => q.stored = Len(q.contents)

IngestTyped ==
  /\ provider \in {"google_gmail", "slack"}
  /\ account \in [access : Nat, refresh : Nat] /\ grants \in Nat
  /\ callback \in [Callbacks -> [at : {"idle", "exchange", "store", "connected", "failed"}, grant : Nat, renews : BOOLEAN]]
  /\ refused \subseteq Nat /\ crossed \in BOOLEAN /\ refusals \in Nat
  /\ ingest \in [Imports -> IngestRows] /\ \A i \in Imports : IngestPhase(ingest[i])
  /\ chunks \in Seq(IngestChunks)
  /\ prompt.answered \subseteq Imports /\ prompt.quoted \subseteq DOMAIN chunks

\* Grants are stored in their order, unless two were there to be stored.
IngestAccounts ==
  ~crossed =>
    /\ \A c \in Callbacks : callback[c].grant <= grants
    /\ \A c \in Callbacks : callback[c].at = "store" => callback[c].grant = grants
    /\ \A c, d \in Callbacks : callback[c].at = "store" /\ callback[d].at = "store" => c = d
    /\ Ingests!AccountsAreLatest

\* The chunks of an ingest are what it has stored so far, in its order.
IngestUpTo(i, k) == {j \in Ingests!StoredBy(i) : j <= k}
IngestStored ==
  \A i \in Imports :
    /\ Cardinality(Ingests!StoredBy(i)) = ingest[i].stored
    /\ \A k \in Ingests!StoredBy(i) :
         /\ Cardinality(IngestUpTo(i, k)) <= Len(ingest[i].contents)
         /\ chunks[k].says = ingest[i].contents[Cardinality(IngestUpTo(i, k))]

IngestTold ==
  \A e \in counted : /\ e.ingest \in Imports /\ ingest[e.ingest].at = "answered"
                     /\ e.count = ingest[e.ingest].stored

\* A blank line is of a token that was refused, or of a fault.
IngestExcused(q) == q.token \in refused \/ refusals > 0
IngestBlanks ==
  /\ \A i \in Imports : \A n \in DOMAIN ingest[i].contents :
       ingest[i].contents[n] = "blank" => IngestExcused(ingest[i])
  /\ Ingests!BlanksAreRefusals

\* What was read stays as it was, as who was answered stores no more.
IngestRead ==
  /\ \A i \in prompt.answered : ingest[i].at = "answered"
  /\ Ingests!SuggestionIsLatest

IngestIInv == IngestTyped /\ IngestAccounts /\ IngestStored /\ IngestTold /\ IngestBlanks /\ IngestRead

-----------------------------------------------------------------------------
\* Among finitely many rows one is the latest.
LEMMA LatestOf ==
  ASSUME NEW n \in Nat, NEW S, S \subseteq 1..n, S # {}
  PROVE  \E k \in S : \A j \in S : j <= k
<1> DEFINE T == {n - k : k \in S}
<1>1. T \subseteq Nat /\ T # {}
  <2>1. \A k \in S : k \in Nat /\ n - k \in Nat
    OBVIOUS
  <2> QED BY <2>1
<1>2. PICK x \in T : \A y \in T : ~(<<y, x>> \in OpToRel(<, Nat))
  BY <1>1, NatLessThanWellFounded, WFMin
<1>3. ASSUME NEW y \in T PROVE x <= y
  <2>1. x \in Nat /\ y \in Nat
    BY <1>1
  <2>2. y < x => <<y, x>> \in OpToRel(<, Nat)
    BY <2>1 DEF OpToRel
  <2>3. ~(y < x)
    BY <1>2, <1>3, <2>2
  <2> HIDE DEF T
  <2> QED BY <2>1, <2>3
<1>4. PICK k \in S : x = n - k
  OBVIOUS
<1>5. ASSUME NEW j \in S PROVE j <= k
  <2>1. x <= n - j
    BY <1>3
  <2>2. j \in Nat /\ k \in Nat
    BY <1>4, <1>5
  <2> QED BY <1>4, <2>1, <2>2
<1> QED BY <1>4, <1>5

LEMMA IngestStoredFinite ==
  ASSUME IngestTyped, NEW i
  PROVE  /\ DOMAIN chunks = 1..Len(chunks) /\ Len(chunks) \in Nat
         /\ IsFiniteSet(Ingests!StoredBy(i)) /\ Cardinality(Ingests!StoredBy(i)) \in Nat
         /\ Ingests!StoredBy(i) \subseteq 1..Len(chunks)
         /\ Cardinality(Ingests!StoredBy(i)) = 0 => Ingests!StoredBy(i) = {}
<1>1. DOMAIN chunks = 1..Len(chunks) /\ Len(chunks) \in Nat
  BY DEF IngestTyped
<1>2. Ingests!StoredBy(i) \subseteq 1..Len(chunks)
  BY <1>1 DEF Ingests!StoredBy
<1>3. IsFiniteSet(1..Len(chunks))
  BY <1>1, FS_Interval
<1>4. IsFiniteSet(Ingests!StoredBy(i))
  BY <1>2, <1>3, FS_Subset
<1> QED BY <1>1, <1>2, <1>4, FS_CardinalityType, FS_EmptySet

-----------------------------------------------------------------------------
\* A step of one ingest that stores nothing and is not its answer.
LEMMA IngestMoves ==
  ASSUME IngestIInv, NEW i \in Imports, NEW q \in IngestRows, IngestPhase(q),
         ingest' = [ingest EXCEPT ![i] = q],
         UNCHANGED <<provider, account, callback, grants, crossed, refused, chunks, counted, prompt>>,
         refusals' \in Nat, refusals' >= refusals,
         ingest[i].at # "answered", q.stored = ingest[i].stored,
         q.contents = ingest[i].contents \/ ingest[i].stored = 0,
         q.token = ingest[i].token \/ ingest[i].at = "idle",
         \A n \in DOMAIN q.contents :
           q.contents[n] = "blank" => q.token \in refused \/ refusals' > 0
  PROVE  IngestIInv'
<1> USE DEF IngestIInv
<1>1. /\ ingest' \in [Imports -> IngestRows] /\ ingest'[i] = q
      /\ \A j \in Imports : j # i => ingest'[j] = ingest[j]
      /\ refusals \in Nat
  BY DEF IngestTyped
<1>2. IngestTyped'
  BY <1>1 DEF IngestTyped
<1>3. IngestAccounts'
  BY DEF IngestAccounts, Ingests!AccountsAreLatest
<1>4. \A j : Ingests!StoredBy(j)' = Ingests!StoredBy(j)
  BY DEF Ingests!StoredBy
<1>5. \A j, k : IngestUpTo(j, k)' = IngestUpTo(j, k)
  BY <1>4 DEF IngestUpTo
<1>6. ingest[i].stored = 0 => Ingests!StoredBy(i) = {}
  BY IngestStoredFinite DEF IngestStored
<1>7. IngestStored'
  <2> SUFFICES ASSUME NEW j \in Imports
      PROVE (/\ Cardinality(Ingests!StoredBy(j)) = ingest[j].stored
             /\ \A k \in Ingests!StoredBy(j) :
                  /\ Cardinality(IngestUpTo(j, k)) <= Len(ingest[j].contents)
                  /\ chunks[k].says = ingest[j].contents[Cardinality(IngestUpTo(j, k))])'
    BY DEF IngestStored
  <2>1. CASE j = i
    BY <1>1, <1>4, <1>5, <1>6, <2>1 DEF IngestStored
  <2>2. CASE j # i
    BY <1>1, <1>4, <1>5, <2>2 DEF IngestStored
  <2> QED BY <2>1, <2>2
<1>8. IngestTold'
  BY <1>1 DEF IngestTold
<1>9. IngestBlanks'
  <2>1. \A j \in Imports : \A n \in DOMAIN ingest'[j].contents :
          ingest'[j].contents[n] = "blank" => IngestExcused(ingest[j])'
    BY <1>1 DEF IngestBlanks, IngestExcused
  <2>2. Ingests!BlanksAreRefusals'
    <3> SUFFICES ASSUME NEW k \in DOMAIN chunks, chunks[k].says = "blank"
        PROVE  ingest'[chunks[k].ingest].token \in refused \/ refusals' > 0
      BY DEF Ingests!BlanksAreRefusals
    <3>1. ingest[chunks[k].ingest].token \in refused \/ refusals > 0
      BY DEF IngestBlanks, Ingests!BlanksAreRefusals
    <3>2. chunks[k].ingest \in Imports /\ k \in Ingests!StoredBy(chunks[k].ingest)
      <4>1. chunks[k] \in IngestChunks
        BY DEF IngestTyped
      <4> QED BY <4>1 DEF IngestChunks, Ingests!StoredBy
    <3>3. CASE chunks[k].ingest = i
      <4>1. ingest[i].stored # 0
        BY <1>6, <3>2, <3>3
      <4>2. q.token = ingest[i].token
        BY <4>1 DEF IngestTyped, IngestPhase, IngestBefore
      <4> QED BY <1>1, <3>1, <3>3, <4>2
    <3>4. CASE chunks[k].ingest # i
      BY <1>1, <3>1, <3>2, <3>4
    <3> QED BY <3>3, <3>4
  <2> QED BY <2>1, <2>2 DEF IngestBlanks
<1>10. IngestRead'
  <2>1. Ingests!SuggestionIsLatest'
    BY DEF IngestRead, Ingests!SuggestionIsLatest
  <2> QED BY <1>1, <2>1 DEF IngestRead, IngestTyped
<1> QED BY <1>2, <1>3, <1>7, <1>8, <1>9, <1>10

\* What is listed, fetched and answered by the model.
LEMMA IngestGathers ==
  ASSUME IngestIInv, NEW i \in Imports,
         \/ Ingests!StartImport(i) \/ Ingests!ListMessages(i) \/ Ingests!FetchMail(i)
         \/ \E chat \in Chats : Ingests!StartDesktop(i, chat)
         \/ Ingests!AskModel(i) \/ Ingests!IngestFails(i)
  PROVE  IngestIInv'
<1> DEFINE p == ingest[i]
<1>0. /\ p \in IngestRows /\ IngestPhase(p) /\ refusals \in Nat /\ account.access \in Nat
      /\ provider \in IngestThreads /\ ingest \in [Imports -> IngestRows]
      /\ p.contents \in Seq(IngestTexts) /\ Len(p.contents) \in Nat
      /\ \A n \in DOMAIN p.contents : p.contents[n] = "blank" => p.token \in refused \/ refusals > 0
  <2>1. p \in IngestRows /\ provider \in IngestThreads
    BY DEF IngestIInv, IngestTyped, IngestThreads
  <2>2. p.contents \in Seq(IngestTexts)
    BY <2>1 DEF IngestRows
  <2> QED BY <2>1, <2>2 DEF IngestIInv, IngestTyped, IngestBlanks, IngestExcused
<1>1. ASSUME NEW q, Ingests!Sets(i, q)
      PROVE  /\ ingest' = [ingest EXCEPT ![i] = q]
             /\ UNCHANGED <<provider, account, callback, grants, crossed, refused, chunks, counted, prompt>>
  BY <1>1 DEF Ingests!Sets, Ingests!accounts
<1>2. ASSUME Ingests!Fault PROVE refusals' = refusals + 1
  BY <1>2 DEF Ingests!Fault
<1>3. ASSUME NEW n \in Nat
      PROVE  /\ Ingests!Lines(n) \in Seq(IngestTexts) /\ Len(Ingests!Lines(n)) = n
             /\ \A k \in DOMAIN Ingests!Lines(n) : Ingests!Lines(n)[k] # "blank"
  BY DEF Ingests!Lines, IngestTexts
<1>4. CASE Ingests!StartImport(i)
  <2> DEFINE q == [p EXCEPT !.does = "import", !.thread = provider, !.token = account.access,
                            !.at = IF account.access = Ingests!None THEN "failed" ELSE "list"]
  <2>1. p.at = "idle" /\ Ingests!Sets(i, q) /\ refusals' = refusals
    BY <1>4 DEF Ingests!StartImport
  <2>2. /\ q \in IngestRows /\ q.at \in {"failed", "list"} /\ q.contents = <<>> /\ q.stored = p.stored /\ q.stored = 0
    BY <1>0, <2>1 DEF IngestRows, IngestPhase, IngestBefore
  <2> HIDE DEF q
  <2>3. IngestPhase(q)
    BY <2>2 DEF IngestPhase, IngestBefore
  <2>4. DOMAIN q.contents = {} /\ refusals' \in Nat /\ refusals' >= refusals
    BY <1>0, <2>1, <2>2
  <2> QED BY <1>0, <1>1, <2>1, <2>2, <2>3, <2>4, IngestMoves
<1>5. CASE Ingests!ListMessages(i)
  <2>1. p.at = "list" /\ refusals' = refusals /\ p.stored = 0
    BY <1>0, <1>5 DEF Ingests!ListMessages, IngestPhase, IngestBefore
  <2>2. PICK q : /\ Ingests!Sets(i, q)
                 /\ \/ q = [p EXCEPT !.at = "failed"]
                    \/ \E n \in Nat : q = [p EXCEPT !.at = "store", !.contents = Ingests!Lines(n)]
                    \/ \E n \in Nat : q = [p EXCEPT !.at = IF n = 0 THEN "store" ELSE "fetch", !.left = n]
    <3>1. CASE p.token \in refused
      BY <1>5, <3>1 DEF Ingests!ListMessages
    <3>2. CASE p.token \notin refused
      <4>1. PICK n \in 0..MaxMessages :
              Ingests!Sets(i, IF provider = "slack" THEN [p EXCEPT !.at = "store", !.contents = Ingests!Lines(n)]
                              ELSE [p EXCEPT !.at = IF n = 0 THEN "store" ELSE "fetch", !.left = n])
        BY <1>5, <3>2 DEF Ingests!ListMessages
      <4>2. n \in Nat
        OBVIOUS
      <4>3. CASE provider = "slack"
        BY <4>1, <4>2, <4>3
      <4>4. CASE provider # "slack"
        BY <4>1, <4>2, <4>4
      <4> QED BY <4>3, <4>4
    <3> QED BY <3>1, <3>2
  <2>a. /\ Ingests!Sets(i, q) /\ refusals' \in Nat /\ refusals' >= refusals /\ p.at = "list"
        /\ \A n \in DOMAIN p.contents : p.contents[n] = "blank" => p.token \in refused \/ refusals' > 0
    <3>1. Ingests!Sets(i, q)
      BY <2>2
    <3>2. refusals' \in Nat /\ refusals' >= refusals /\ p.at = "list"
      BY <1>0, <2>1
    <3> QED BY <1>0, <2>1, <3>1, <3>2
  <2>3. CASE q = [p EXCEPT !.at = "failed"]
    <3>1. /\ q \in IngestRows /\ q.at = "failed" /\ q.contents = p.contents /\ q.stored = 0 /\ q.token = p.token
      BY <1>0, <2>1, <2>3 DEF IngestRows
    <3>2. IngestPhase(q)
      BY <1>0, <3>1 DEF IngestPhase, IngestBefore
    <3> QED BY <1>0, <1>1, <2>1, <2>a, <3>1, <3>2, IngestMoves
  <2>4. ASSUME NEW n \in Nat, q = [p EXCEPT !.at = "store", !.contents = Ingests!Lines(n)] PROVE IngestIInv'
    <3>1. /\ q \in IngestRows /\ q.at = "store" /\ q.contents = Ingests!Lines(n) /\ q.stored = 0 /\ q.token = p.token
      BY <1>0, <1>3, <2>1, <2>4 DEF IngestRows
    <3>2. IngestPhase(q)
      BY <1>3, <3>1 DEF IngestPhase, IngestBefore
    <3>3. \A k \in DOMAIN q.contents : q.contents[k] # "blank"
      BY <1>3, <3>1
    <3> QED BY <1>0, <1>1, <2>1, <2>a, <3>1, <3>2, <3>3, IngestMoves
  <2>5. ASSUME NEW n \in Nat, q = [p EXCEPT !.at = IF n = 0 THEN "store" ELSE "fetch", !.left = n] PROVE IngestIInv'
    <3>1. /\ q \in IngestRows /\ q.at \in {"store", "fetch"} /\ q.contents = p.contents /\ q.stored = 0 /\ q.token = p.token
          /\ q.left = n /\ (q.at = "fetch" => n > 0)
      <4> DEFINE at == IF n = 0 THEN "store" ELSE "fetch"
      <4>1. at \in {"store", "fetch"} /\ (at = "fetch" => n > 0)
        OBVIOUS
      <4>2. q = [p EXCEPT !.at = at, !.left = n]
        BY <2>5
      <4> HIDE DEF at
      <4> QED BY <1>0, <2>1, <4>1, <4>2 DEF IngestRows, IngestBefore
    <3>2. IngestPhase(q)
      BY <1>0, <3>1 DEF IngestPhase, IngestBefore
    <3> QED BY <1>0, <1>1, <2>1, <2>a, <3>1, <3>2, IngestMoves
  <2> QED BY <2>2, <2>3, <2>4, <2>5
<1>6. CASE Ingests!FetchMail(i)
  <2>1. PICK line \in {"line", "blank"} :
          /\ Ingests!Gets(i, line) /\ refusals' \in Nat /\ refusals' >= refusals
          /\ line = "blank" => p.token \in refused \/ refusals' > 0
    BY <1>0, <1>2, <1>6 DEF Ingests!FetchMail
  <2>2. p.at = "fetch" /\ p.left > 0 /\ p.stored = 0
    BY <1>0, <1>6 DEF Ingests!FetchMail, IngestPhase, IngestBefore
  <2> DEFINE q == [p EXCEPT !.left = @ - 1, !.contents = Append(@, line),
                            !.at = IF p.left = 1 THEN "store" ELSE "fetch"]
  <2>3. Ingests!Sets(i, q)
    BY <2>1 DEF Ingests!Gets
  <2>4. /\ Append(p.contents, line) \in Seq(IngestTexts) /\ Len(Append(p.contents, line)) = Len(p.contents) + 1
        /\ \A n \in DOMAIN Append(p.contents, line) :
             \/ Append(p.contents, line)[n] = line
             \/ n \in DOMAIN p.contents /\ Append(p.contents, line)[n] = p.contents[n]
    BY <1>0, AppendProperties DEF IngestTexts
  <2>5. p.left \in Nat
    BY <1>0 DEF IngestRows
  <2>6. /\ q \in IngestRows /\ q.at \in {"store", "fetch"} /\ q.contents = Append(p.contents, line)
        /\ q.stored = 0 /\ q.token = p.token /\ q.left = p.left - 1 /\ (q.at = "fetch" => q.left > 0)
    <3> DEFINE at == IF p.left = 1 THEN "store" ELSE "fetch"
               text == Append(p.contents, line)
               left == p.left - 1
    <3>1. at \in {"store", "fetch"} /\ left \in Nat /\ (at = "fetch" => left > 0)
      BY <2>2, <2>5
    <3>2. q = [p EXCEPT !.left = left, !.contents = text, !.at = at]
      BY <1>0 DEF IngestRows
    <3> HIDE DEF at, text, left, q
    <3>3. text \in Seq(IngestTexts)
      BY <2>4 DEF text
    <3>4. /\ q \in IngestRows /\ q.at = at /\ q.contents = text
          /\ q.stored = 0 /\ q.token = p.token /\ q.left = left
      BY <1>0, <2>2, <3>1, <3>2, <3>3 DEF IngestRows, IngestBefore
    <3> QED BY <3>1, <3>4 DEF text, left
  <2> HIDE DEF q
  <2>7. IngestPhase(q)
    BY <1>0, <2>4, <2>6 DEF IngestPhase, IngestBefore
  <2>8. \A n \in DOMAIN q.contents : q.contents[n] = "blank" => q.token \in refused \/ refusals' > 0
    BY <1>0, <2>1, <2>4, <2>6
  <2> QED BY <1>0, <1>1, <2>1, <2>2, <2>3, <2>6, <2>7, <2>8, IngestMoves
<1>7. ASSUME NEW chat \in Chats, Ingests!StartDesktop(i, chat) PROVE IngestIInv'
  <2>1. PICK sight \in SUBSET Ingests!Sights, asks \in BOOLEAN :
          Ingests!Sets(i, IF ~Ingests!Acceptable(sight) THEN [p EXCEPT !.at = "failed"]
                          ELSE [p EXCEPT !.does = "desktop", !.thread = chat, !.contents = Ingests!ContextChunks(sight),
                                         !.at = IF asks THEN "ask" ELSE "store"])
    BY <1>7 DEF Ingests!StartDesktop
  <2>2. p.at = "idle" /\ p.stored = 0 /\ refusals' = refusals /\ chat \in IngestThreads
    BY <1>0, <1>7 DEF Ingests!StartDesktop, IngestPhase, IngestBefore, IngestThreads
  <2> DEFINE text == Ingests!ContextChunks(sight)
             q == [p EXCEPT !.does = "desktop", !.thread = chat, !.contents = text, !.at = IF asks THEN "ask" ELSE "store"]
             f == [p EXCEPT !.at = "failed"]
  <2>3. text \in Seq(IngestTexts) /\ Len(text) \in Nat /\ \A k \in DOMAIN text : text[k] # "blank"
    BY <1>3 DEF Ingests!ContextChunks
  <2> HIDE DEF text
  <2>4. CASE ~Ingests!Acceptable(sight)
    <3>1. Ingests!Sets(i, f)
      BY <2>1, <2>4
    <3>2. /\ f \in IngestRows /\ f.at = "failed" /\ f.contents = p.contents /\ f.stored = 0 /\ f.token = p.token
      BY <1>0, <2>2 DEF IngestRows
    <3> HIDE DEF f
    <3>3. IngestPhase(f)
      BY <1>0, <3>2 DEF IngestPhase, IngestBefore
    <3> QED BY <1>0, <1>1, <2>2, <3>1, <3>2, <3>3, IngestMoves
  <2>5. CASE Ingests!Acceptable(sight)
    <3>1. Ingests!Sets(i, q)
      BY <2>1, <2>5 DEF text
    <3>2. /\ q \in IngestRows /\ q.at \in {"ask", "store"} /\ q.contents = text /\ q.stored = 0 /\ q.token = p.token
      BY <1>0, <2>2, <2>3 DEF IngestRows, IngestBefore
    <3> HIDE DEF q
    <3>3. IngestPhase(q)
      BY <2>3, <3>2 DEF IngestPhase, IngestBefore
    <3> QED BY <1>0, <1>1, <2>2, <2>3, <3>1, <3>2, <3>3, IngestMoves
  <2> QED BY <2>4, <2>5
<1>8. CASE Ingests!AskModel(i)
  <2>1. CASE p.at \in {"ask", "again"} /\ \E b \in Bundles : Ingests!Takes(i, b)
    <3>1. PICK b \in Bundles : Ingests!Takes(i, b)
      BY <2>1
    <3> DEFINE text == p.contents \o b
               q == [p EXCEPT !.at = "store", !.contents = text]
    <3>2. Ingests!Sets(i, q) /\ refusals' = refusals /\ p.stored = 0
      BY <1>0, <2>1, <3>1 DEF Ingests!Takes, IngestPhase, IngestBefore
    <3>3. b \in Seq({"line", "reply"}) /\ b \in Seq(IngestTexts)
      <4>1. b \in Seq({"line", "reply"})
        BY BundlesAreLines
      <4> QED BY <4>1 DEF IngestTexts
    <3>4. /\ text \in Seq(IngestTexts) /\ Len(text) = Len(p.contents) + Len(b) /\ Len(b) \in Nat
          /\ \A n \in DOMAIN text : \/ n \in DOMAIN p.contents /\ text[n] = p.contents[n]
                                   \/ text[n] # "blank"
      <4>1. /\ text \in Seq(IngestTexts) /\ Len(text) = Len(p.contents) + Len(b) /\ Len(b) \in Nat
            /\ \A n \in 1..Len(text) : text[n] = IF n <= Len(p.contents) THEN p.contents[n] ELSE b[n - Len(p.contents)]
        BY <1>0, <3>3, ConcatProperties
      <4>2. \A m \in 1..Len(b) : b[m] # "blank"
        BY <3>3
      <4>3. DOMAIN text = 1..Len(text) /\ DOMAIN p.contents = 1..Len(p.contents)
        BY <1>0, <4>1
      <4> HIDE DEF text
      <4>4. ASSUME NEW n \in DOMAIN text
            PROVE  (n \in DOMAIN p.contents /\ text[n] = p.contents[n]) \/ text[n] # "blank"
        <5>1. n \in 1..Len(text)
          BY <4>3
        <5>2. CASE n <= Len(p.contents)
          BY <1>0, <4>1, <4>3, <5>1, <5>2
        <5>3. CASE ~(n <= Len(p.contents))
          <6>1. n - Len(p.contents) \in 1..Len(b)
            BY <1>0, <4>1, <5>1, <5>3
          <6> QED BY <4>1, <4>2, <5>1, <5>3, <6>1
        <5> QED BY <5>2, <5>3
      <4> QED BY <4>1, <4>4
    <3> HIDE DEF text
    <3>5. /\ q \in IngestRows /\ q.at = "store" /\ q.contents = text /\ q.stored = 0 /\ q.token = p.token
      BY <1>0, <3>2, <3>4 DEF IngestRows
    <3> HIDE DEF q
    <3>6. IngestPhase(q)
      BY <1>0, <3>4, <3>5 DEF IngestPhase, IngestBefore
    <3>7. \A n \in DOMAIN q.contents : q.contents[n] = "blank" => q.token \in refused \/ refusals' > 0
      BY <1>0, <3>2, <3>4, <3>5
    <3> QED BY <1>0, <1>1, <2>1, <3>2, <3>5, <3>6, <3>7, IngestMoves
  <2>2. CASE p.at = "ask" /\ Ingests!Fault /\ Ingests!Sets(i, [p EXCEPT !.at = "again"])
    <3> DEFINE q == [p EXCEPT !.at = "again"]
    <3>1. refusals' \in Nat /\ refusals' > 0 /\ refusals' >= refusals /\ Ingests!Sets(i, q) /\ p.stored = 0
      BY <1>0, <1>2, <2>2 DEF IngestPhase, IngestBefore
    <3>2. /\ q \in IngestRows /\ q.at = "again" /\ q.contents = p.contents /\ q.stored = 0 /\ q.token = p.token
      BY <1>0, <3>1 DEF IngestRows, IngestBefore
    <3> HIDE DEF q
    <3>3. IngestPhase(q)
      BY <1>0, <3>2 DEF IngestPhase, IngestBefore
    <3> QED BY <1>0, <1>1, <2>2, <3>1, <3>2, <3>3, IngestMoves
  <2> QED BY <1>8, <2>1, <2>2 DEF Ingests!AskModel
<1>9. CASE Ingests!IngestFails(i)
  <2> DEFINE q == [p EXCEPT !.at = "failed"]
  <2>1. refusals' \in Nat /\ refusals' > 0 /\ refusals' >= refusals /\ Ingests!Sets(i, q) /\ p.at \notin {"idle", "answered"}
    BY <1>0, <1>2, <1>9 DEF Ingests!IngestFails
  <2>2. /\ q \in IngestRows /\ q.at = "failed" /\ q.contents = p.contents /\ q.stored = p.stored /\ q.token = p.token
    BY <1>0 DEF IngestRows
  <2> HIDE DEF q
  <2>3. IngestPhase(q)
    BY <1>0, <2>2 DEF IngestPhase, IngestBefore
  <2> QED BY <1>0, <1>1, <2>1, <2>2, <2>3, IngestMoves
<1> QED BY <1>4, <1>5, <1>6, <1>7, <1>8, <1>9

-----------------------------------------------------------------------------
\* A chunk is stored after all that are there.
LEMMA IngestInserts ==
  ASSUME IngestIInv, NEW i \in Imports, Ingests!InsertChunk(i)
  PROVE  IngestIInv'
<1>0. PICK n \in Nat : n = Len(chunks)
  BY DEF IngestIInv, IngestTyped
<1> DEFINE p == ingest[i]
           c == [ingest |-> i, thread |-> p.thread, says |-> p.contents[p.stored + 1]]
           q == [p EXCEPT !.stored = p.stored + 1]
<1>1. /\ p \in IngestRows /\ IngestPhase(p) /\ ingest \in [Imports -> IngestRows]
      /\ chunks \in Seq(IngestChunks)
  BY DEF IngestIInv, IngestTyped
<1>2. p.contents \in Seq(IngestTexts) /\ p.stored \in Nat /\ p.thread \in IngestThreads /\ Len(p.contents) \in Nat
  BY <1>1 DEF IngestRows
<1>3. /\ p.at = "store" /\ p.stored < Len(p.contents) /\ chunks' = Append(chunks, c)
      /\ ingest' = [ingest EXCEPT ![i] = q]
      /\ UNCHANGED <<provider, account, callback, grants, crossed, refused, counted, prompt, refusals>>
  BY <1>1 DEF Ingests!InsertChunk, Ingests!accounts
<1>4. p.contents[p.stored + 1] \in IngestTexts /\ p.stored + 1 \in DOMAIN p.contents
  BY <1>2, <1>3
<1>5. c \in IngestChunks
  BY <1>2, <1>4 DEF IngestChunks
<1>6. c.ingest = i /\ c.says = p.contents[p.stored + 1]
  OBVIOUS
<1>7. /\ q \in IngestRows /\ q.at = "store" /\ q.contents = p.contents /\ q.token = p.token
      /\ q.stored = p.stored + 1
  <2>1. p.stored + 1 \in Nat
    BY <1>2
  <2> QED BY <1>1, <1>3, <2>1 DEF IngestRows, IngestBefore
<1> HIDE DEF c, q
<1>8. IngestPhase(q)
  BY <1>2, <1>3, <1>7 DEF IngestPhase, IngestBefore
<1>9. /\ ingest' \in [Imports -> IngestRows] /\ ingest'[i] = q
      /\ \A j \in Imports : j # i => ingest'[j] = ingest[j]
  BY <1>1, <1>3, <1>7
<1>10. /\ chunks' \in Seq(IngestChunks) /\ Len(chunks') = n + 1 /\ chunks'[n + 1] = c
       /\ \A k \in 1..n : chunks'[k] = chunks[k]
       /\ DOMAIN chunks = 1..n /\ DOMAIN chunks' = 1..(n + 1)
  BY <1>0, <1>1, <1>3, <1>5, AppendProperties
<1>11. IngestTyped'
  <2>1. \A j \in Imports : IngestPhase(ingest'[j])
    BY <1>8, <1>9 DEF IngestIInv, IngestTyped
  <2>2. prompt'.quoted \subseteq DOMAIN chunks'
    BY <1>1, <1>3, <1>10 DEF IngestIInv, IngestTyped
  <2> QED BY <1>3, <1>9, <1>10, <2>1, <2>2 DEF IngestIInv, IngestTyped, IngestPhase
<1>12. IngestAccounts'
  BY <1>3 DEF IngestIInv, IngestAccounts, Ingests!AccountsAreLatest
<1>13. /\ Ingests!StoredBy(i)' = Ingests!StoredBy(i) \cup {n + 1}
       /\ \A j \in Imports : j # i => Ingests!StoredBy(j)' = Ingests!StoredBy(j)
       /\ n + 1 \notin Ingests!StoredBy(i)
  <2>1. \A j \in Imports : Ingests!StoredBy(j)' = Ingests!StoredBy(j) \cup {k \in {n + 1} : c.ingest = j}
    BY <1>1, <1>10 DEF Ingests!StoredBy
  <2>2. n + 1 \notin Ingests!StoredBy(i)
    BY <1>1, <1>10 DEF Ingests!StoredBy
  <2> QED BY <1>6, <2>1, <2>2
<1>14. ASSUME NEW j \in Imports
       PROVE  /\ IsFiniteSet(Ingests!StoredBy(j)) /\ Cardinality(Ingests!StoredBy(j)) \in Nat
              /\ Ingests!StoredBy(j) \subseteq 1..n
  BY <1>0, IngestStoredFinite DEF IngestIInv
<1>15. \A j \in Imports, k \in 1..n : IngestUpTo(j, k)' = IngestUpTo(j, k)
  BY <1>1, <1>13 DEF IngestUpTo
<1>16. IngestUpTo(i, n + 1)' = Ingests!StoredBy(i)'
  <2>1. \A k \in Ingests!StoredBy(i)' : k <= n + 1
    BY <1>13, <1>14
  <2> QED BY <2>1 DEF IngestUpTo
<1>17. Cardinality(Ingests!StoredBy(i)') = p.stored + 1
  <2>1. Cardinality(Ingests!StoredBy(i)) = p.stored /\ IsFiniteSet(Ingests!StoredBy(i))
    BY <1>14 DEF IngestIInv, IngestStored
  <2> QED BY <1>13, <2>1, FS_AddElement
<1>18. IngestStored'
  <2> SUFFICES ASSUME NEW j \in Imports
      PROVE (/\ Cardinality(Ingests!StoredBy(j)) = ingest[j].stored
             /\ \A k \in Ingests!StoredBy(j) :
                  /\ Cardinality(IngestUpTo(j, k)) <= Len(ingest[j].contents)
                  /\ chunks[k].says = ingest[j].contents[Cardinality(IngestUpTo(j, k))])'
    BY DEF IngestStored
  <2>1. ASSUME NEW k \in Ingests!StoredBy(j)
        PROVE  /\ Cardinality(IngestUpTo(j, k)') <= Len(ingest'[j].contents)
               /\ chunks'[k].says = ingest'[j].contents[Cardinality(IngestUpTo(j, k)')]
    <3>1. k \in 1..n /\ ingest'[j].contents = ingest[j].contents
      BY <1>7, <1>9, <1>14
    <3>2. IngestUpTo(j, k)' = IngestUpTo(j, k) /\ chunks'[k] = chunks[k]
      BY <1>10, <1>15, <3>1
    <3> QED BY <3>1, <3>2 DEF IngestIInv, IngestStored
  <2>2. CASE j # i
    BY <1>9, <1>13, <2>1, <2>2 DEF IngestIInv, IngestStored
  <2>3. CASE j = i
    <3>1. /\ Cardinality(IngestUpTo(i, n + 1)') <= Len(ingest'[i].contents)
          /\ chunks'[n + 1].says = ingest'[i].contents[Cardinality(IngestUpTo(i, n + 1)')]
      BY <1>2, <1>3, <1>6, <1>7, <1>9, <1>10, <1>16, <1>17
    <3> QED BY <1>7, <1>9, <1>13, <1>17, <2>1, <2>3, <3>1
  <2> QED BY <2>2, <2>3
<1>19. IngestTold'
  BY <1>3, <1>9 DEF IngestIInv, IngestTold
<1>20. IngestBlanks'
  <2>1. \A j \in Imports : ingest'[j].contents = ingest[j].contents /\ ingest'[j].token = ingest[j].token
    BY <1>7, <1>9
  <2>2. \A j \in Imports : IngestExcused(ingest[j])' <=> IngestExcused(ingest[j])
    BY <1>3, <2>1 DEF IngestExcused
  <2>3. Ingests!BlanksAreRefusals'
    <3> SUFFICES ASSUME NEW k \in 1..(n + 1), chunks'[k].says = "blank"
        PROVE  ingest'[chunks'[k].ingest].token \in refused \/ refusals > 0
      BY <1>3, <1>10 DEF Ingests!BlanksAreRefusals
    <3>1. CASE k = n + 1
      BY <1>4, <1>6, <1>10, <2>1, <3>1 DEF IngestIInv, IngestBlanks, IngestExcused
    <3>2. CASE k # n + 1
      <4>1. k \in 1..n
        BY <1>1, <3>2
      <4>2. chunks'[k] = chunks[k] /\ chunks[k] \in IngestChunks
        BY <1>1, <1>10, <4>1
      <4>3. chunks[k].ingest \in Imports
        BY <4>2 DEF IngestChunks
      <4> QED BY <1>10, <2>1, <4>1, <4>2, <4>3 DEF IngestIInv, IngestBlanks, Ingests!BlanksAreRefusals
    <3> QED BY <3>1, <3>2
  <2> QED BY <2>1, <2>2, <2>3 DEF IngestIInv, IngestBlanks
<1>21. IngestRead'
  <2>1. \A k \in prompt.quoted : k \in 1..n /\ chunks'[k] = chunks[k]
    BY <1>10 DEF IngestIInv, IngestTyped
  <2>2. \A j \in prompt.answered : ingest'[j].at = "answered" /\ j # i /\ j \in Imports
    BY <1>3, <1>9 DEF IngestIInv, IngestRead, IngestTyped
  <2>3. \A j \in prompt.answered : \A k \in DOMAIN chunks' : chunks'[k].ingest = j => k \in 1..n /\ chunks'[k] = chunks[k]
    BY <1>1, <1>6, <1>10, <2>2
  <2>4. Ingests!SuggestionIsLatest'
    <3>1. \A k \in prompt.quoted : chunks'[k].thread = prompt.thread
      BY <2>1 DEF IngestIInv, IngestRead, Ingests!SuggestionIsLatest
    <3>2. ASSUME NEW j \in prompt.answered, NEW k \in DOMAIN chunks',
                 chunks'[k].ingest = j, chunks'[k].thread = prompt.thread, chunks'[k].says = "reply"
          PROVE  \E quoted \in prompt.quoted : quoted >= k /\ chunks'[quoted].says = "reply"
      <4>1. k \in DOMAIN chunks /\ chunks'[k] = chunks[k]
        BY <1>10, <2>3, <3>2
      <4>2. PICK quoted \in prompt.quoted : quoted >= k /\ chunks[quoted].says = "reply"
        BY <3>2, <4>1 DEF IngestIInv, IngestRead, Ingests!SuggestionIsLatest
      <4> QED BY <2>1, <4>2
    <3>3. \A k, other \in prompt.quoted : chunks'[k].says = "reply" /\ chunks'[other].says = "reply" => k = other
      BY <2>1 DEF IngestIInv, IngestRead, Ingests!SuggestionIsLatest
    <3> QED BY <1>3, <3>1, <3>2, <3>3 DEF Ingests!SuggestionIsLatest
  <2> QED BY <1>3, <2>2, <2>4 DEF IngestRead
<1> QED BY <1>11, <1>12, <1>18, <1>19, <1>20, <1>21 DEF IngestIInv

\* The answer, with its event or without.
LEMMA IngestCompletes ==
  ASSUME IngestIInv, NEW i \in Imports, Ingests!Complete(i)
  PROVE  IngestIInv'
<1> DEFINE p == ingest[i]
           q == [p EXCEPT !.at = "answered"]
<1>1. /\ p \in IngestRows /\ IngestPhase(p) /\ ingest \in [Imports -> IngestRows] /\ refusals \in Nat
  BY DEF IngestIInv, IngestTyped
<1>2. /\ p.at = "store" /\ p.stored = Len(p.contents)
      /\ ingest' = [ingest EXCEPT ![i] = q]
      /\ \/ counted' = counted \cup {[ingest |-> i, count |-> p.stored]}
         \/ counted' = counted
      /\ UNCHANGED <<provider, account, callback, grants, crossed, refused, chunks, prompt>>
  BY DEF Ingests!Complete, Ingests!accounts
<1>3. refusals' \in Nat /\ refusals' >= refusals
  BY <1>1 DEF Ingests!Complete, Ingests!Fault
<1>4. /\ q \in IngestRows /\ q.at = "answered" /\ q.contents = p.contents /\ q.token = p.token
      /\ q.stored = p.stored
  BY <1>1 DEF IngestRows
<1> HIDE DEF q
<1>5. IngestPhase(q)
  BY <1>1, <1>2, <1>4 DEF IngestPhase, IngestBefore
<1>6. /\ ingest' \in [Imports -> IngestRows] /\ ingest'[i] = q
      /\ \A j \in Imports : j # i => ingest'[j] = ingest[j]
      /\ \A j \in Imports : /\ ingest'[j].contents = ingest[j].contents /\ ingest'[j].token = ingest[j].token
                            /\ ingest'[j].stored = ingest[j].stored
  BY <1>1, <1>2, <1>4
<1>7. IngestTyped'
  BY <1>2, <1>3, <1>5, <1>6 DEF IngestIInv, IngestTyped
<1>8. IngestAccounts'
  BY <1>2 DEF IngestIInv, IngestAccounts, Ingests!AccountsAreLatest
<1>9. /\ \A j : Ingests!StoredBy(j)' = Ingests!StoredBy(j)
      /\ \A j, k : IngestUpTo(j, k)' = IngestUpTo(j, k)
  BY <1>2 DEF Ingests!StoredBy, IngestUpTo
<1>10. IngestStored'
  BY <1>2, <1>6, <1>9 DEF IngestIInv, IngestStored
<1>11. IngestTold'
  <2> SUFFICES ASSUME NEW e \in counted'
      PROVE  e.ingest \in Imports /\ ingest'[e.ingest].at = "answered" /\ e.count = ingest'[e.ingest].stored
    BY DEF IngestTold
  <2>1. CASE e \in counted
    BY <1>2, <1>4, <1>6, <2>1 DEF IngestIInv, IngestTold
  <2>2. CASE e = [ingest |-> i, count |-> p.stored]
    BY <1>4, <1>6, <2>2
  <2> QED BY <1>2, <2>1, <2>2
<1>12. IngestBlanks'
  <2>1. \A j \in Imports : IngestExcused(ingest[j]) => IngestExcused(ingest[j])'
    BY <1>1, <1>2, <1>3, <1>6 DEF IngestExcused
  <2>2. \A k \in DOMAIN chunks : chunks[k].ingest \in Imports
    <3>1. \A k \in DOMAIN chunks : chunks[k] \in IngestChunks
      BY DEF IngestIInv, IngestTyped
    <3> QED BY <3>1 DEF IngestChunks
  <2>3. Ingests!BlanksAreRefusals'
    BY <1>1, <1>2, <1>3, <1>6, <2>2 DEF IngestIInv, IngestBlanks, Ingests!BlanksAreRefusals
  <2> QED BY <1>6, <2>1, <2>3 DEF IngestIInv, IngestBlanks
<1>13. IngestRead'
  <2>1. Ingests!SuggestionIsLatest'
    BY <1>2 DEF IngestIInv, IngestRead, Ingests!SuggestionIsLatest
  <2>2. \A j \in prompt.answered : ingest'[j].at = "answered"
    BY <1>2, <1>4, <1>6 DEF IngestIInv, IngestRead, IngestTyped
  <2> QED BY <1>2, <2>1, <2>2 DEF IngestRead
<1> QED BY <1>7, <1>8, <1>10, <1>11, <1>12, <1>13 DEF IngestIInv

\* A draft quotes the latest reply that was suggested, if there is one.
LEMMA IngestReads ==
  ASSUME IngestIInv, NEW chat \in Chats, Ingests!ReadRecent(chat)
  PROVE  IngestIInv'
<1> DEFINE replies == Ingests!Says(chat, "reply")
<1>1. /\ prompt'.thread = chat /\ prompt'.quoted = Ingests!Quoted(chat)
      /\ prompt'.answered = {i \in Imports : ingest[i].at = "answered"}
      /\ UNCHANGED <<provider, account, callback, grants, crossed, refused, chunks, counted, ingest, refusals>>
  BY DEF Ingests!ReadRecent, Ingests!accounts
<1>2. DOMAIN chunks = 1..Len(chunks) /\ Len(chunks) \in Nat
  BY DEF IngestIInv, IngestTyped
<1>3. Ingests!Quoted(chat) = (Ingests!InThread(chat) \ replies) \cup {k \in replies : \A other \in replies : other <= k}
  BY DEF Ingests!Quoted
<1>4. replies \subseteq 1..Len(chunks) /\ Ingests!InThread(chat) \subseteq 1..Len(chunks)
  BY <1>2 DEF Ingests!Says, Ingests!InThread
<1>5. IngestTyped'
  BY <1>1, <1>2, <1>3, <1>4 DEF IngestIInv, IngestTyped
<1>6. IngestAccounts'
  BY <1>1 DEF IngestIInv, IngestAccounts, Ingests!AccountsAreLatest
<1>7. /\ \A j : Ingests!StoredBy(j)' = Ingests!StoredBy(j)
      /\ \A j, k : IngestUpTo(j, k)' = IngestUpTo(j, k)
  BY <1>1 DEF Ingests!StoredBy, IngestUpTo
<1>8. IngestStored' /\ IngestTold'
  BY <1>1, <1>7 DEF IngestIInv, IngestStored, IngestTold
<1>9. IngestBlanks'
  BY <1>1 DEF IngestIInv, IngestBlanks, Ingests!BlanksAreRefusals, IngestExcused
<1>10. Ingests!SuggestionIsLatest'
  <2>1. \A k \in Ingests!Quoted(chat) : chunks[k].thread = chat
    BY <1>3 DEF Ingests!InThread, Ingests!Says
  <2>2. ASSUME NEW k \in DOMAIN chunks, chunks[k].thread = chat, chunks[k].says = "reply"
        PROVE  \E quoted \in Ingests!Quoted(chat) : quoted >= k /\ chunks[quoted].says = "reply"
    <3>1. k \in replies
      BY <2>2 DEF Ingests!Says
    <3>2. PICK latest \in replies : \A j \in replies : j <= latest
      <4> HIDE DEF replies
      <4> QED BY <1>2, <1>4, <3>1, LatestOf
    <3>3. latest \in Ingests!Quoted(chat) /\ chunks[latest].says = "reply" /\ latest >= k
      BY <1>2, <1>3, <1>4, <3>1, <3>2 DEF Ingests!Says
    <3> QED BY <3>3
  <2>3. ASSUME NEW k \in Ingests!Quoted(chat), NEW other \in Ingests!Quoted(chat),
               chunks[k].says = "reply", chunks[other].says = "reply"
        PROVE  k = other
    <3>1. k \in replies /\ other \in replies
      BY <1>3, <2>3 DEF Ingests!Says, Ingests!InThread
    <3>2. k <= other /\ other <= k
      BY <1>3, <2>3, <3>1
    <3> QED BY <1>2, <1>4, <3>1, <3>2
  <2> QED BY <1>1, <2>1, <2>2, <2>3 DEF Ingests!SuggestionIsLatest
<1>11. IngestRead'
  BY <1>1, <1>10 DEF IngestRead
<1> QED BY <1>5, <1>6, <1>8, <1>9, <1>11 DEF IngestIInv

-----------------------------------------------------------------------------
\* A step of the accounts: the memory and its ingests stay.
LEMMA IngestGrants ==
  ASSUME IngestIInv,
         \/ Ingests!TokenExpires
         \/ \E c \in Callbacks : \/ Ingests!Consent(c) \/ Ingests!ExchangeCode(c) \/ Ingests!StoreAccount(c)
                                \/ Ingests!CallbackFails(c)
  PROVE  IngestIInv'
<1> DEFINE callbacks == [at : {"idle", "exchange", "store", "connected", "failed"}, grant : Nat, renews : BOOLEAN]
<1>1. /\ UNCHANGED <<provider, chunks, counted, ingest, prompt>>
      /\ refusals' \in Nat /\ refusals' >= refusals /\ refused \subseteq refused'
      /\ refused' \subseteq Nat /\ refusals \in Nat
  <2>1. refusals \in Nat /\ refused \subseteq Nat /\ grants \in Nat
    BY DEF IngestIInv, IngestTyped
  <2>2. CASE Ingests!TokenExpires
    BY <2>1, <2>2 DEF Ingests!TokenExpires, Ingests!Fault, Ingests!accounts, Ingests!memory
  <2>3. ASSUME NEW c \in Callbacks,
               Ingests!Consent(c) \/ Ingests!ExchangeCode(c) \/ Ingests!StoreAccount(c) \/ Ingests!CallbackFails(c)
        PROVE  /\ UNCHANGED <<provider, chunks, counted, ingest, prompt>>
               /\ refusals' \in Nat /\ refusals' >= refusals /\ refused' = refused
    <3>1. CASE Ingests!Consent(c)
      BY <2>1, <3>1 DEF Ingests!Consent, Ingests!memory
    <3>4. CASE Ingests!ExchangeCode(c)
      <4>1. UNCHANGED <<provider, chunks, counted, ingest, prompt>>
        BY <3>4, Zenon DEF Ingests!ExchangeCode, Ingests!memory
      <4>2. refused' = refused /\ refusals' = refusals
        BY <3>4, Zenon DEF Ingests!ExchangeCode
      <4> QED BY <2>1, <4>1, <4>2
    <3>2. CASE Ingests!StoreAccount(c)
      BY <2>1, <3>2 DEF Ingests!StoreAccount, Ingests!Stores, Ingests!memory
    <3>3. CASE Ingests!CallbackFails(c)
      BY <2>1, <3>3 DEF Ingests!CallbackFails, Ingests!Fault, Ingests!memory
    <3> QED BY <2>3, <3>1, <3>2, <3>3, <3>4
  <2> QED BY <2>1, <2>2, <2>3
<1>2. /\ account \in [access : Nat, refresh : Nat] /\ grants \in Nat /\ crossed \in BOOLEAN
      /\ callback \in [Callbacks -> callbacks]
  BY DEF IngestIInv, IngestTyped
<1>3. /\ account' \in [access : Nat, refresh : Nat] /\ grants' \in Nat /\ crossed' \in BOOLEAN
      /\ callback' \in [Callbacks -> callbacks]
      /\ IngestAccounts'
  <2>1. CASE Ingests!TokenExpires
    BY <1>2, <2>1 DEF Ingests!TokenExpires, Ingests!accounts, IngestIInv, IngestAccounts, Ingests!AccountsAreLatest
  <2>2. ASSUME NEW c \in Callbacks, Ingests!Consent(c)
        PROVE  /\ account' \in [access : Nat, refresh : Nat] /\ grants' \in Nat /\ crossed' \in BOOLEAN
               /\ callback' \in [Callbacks -> callbacks] /\ IngestAccounts'
    <3>1. /\ callback' = [callback EXCEPT ![c].at = "exchange"] /\ callback[c].at = "idle"
          /\ UNCHANGED <<account, grants, crossed>>
      BY <2>2 DEF Ingests!Consent
    <3>2. /\ callback' \in [Callbacks -> callbacks]
          /\ \A d \in Callbacks : /\ callback'[d].grant = callback[d].grant
                                 /\ callback'[d].renews = callback[d].renews
                                 /\ callback'[d].at \in {"store", "connected"} => callback'[d].at = callback[d].at
      BY <1>2, <3>1
    <3> HIDE DEF callbacks
    <3> QED BY <1>2, <3>1, <3>2 DEF IngestIInv, IngestAccounts, Ingests!AccountsAreLatest
  <2>3. ASSUME NEW c \in Callbacks, Ingests!CallbackFails(c)
        PROVE  /\ account' \in [access : Nat, refresh : Nat] /\ grants' \in Nat /\ crossed' \in BOOLEAN
               /\ callback' \in [Callbacks -> callbacks] /\ IngestAccounts'
    <3>1. /\ callback' = [callback EXCEPT ![c].at = "failed"]
          /\ UNCHANGED <<account, grants, crossed>>
      BY <2>3 DEF Ingests!CallbackFails
    <3>2. /\ callback' \in [Callbacks -> callbacks]
          /\ \A d \in Callbacks : /\ callback'[d].grant = callback[d].grant
                                 /\ callback'[d].renews = callback[d].renews
                                 /\ callback'[d].at \in {"store", "connected"} => callback'[d].at = callback[d].at
      BY <1>2, <3>1
    <3> HIDE DEF callbacks
    <3> QED BY <1>2, <3>1, <3>2 DEF IngestIInv, IngestAccounts, Ingests!AccountsAreLatest
  <2>4. ASSUME NEW c \in Callbacks, Ingests!ExchangeCode(c)
        PROVE  /\ account' \in [access : Nat, refresh : Nat] /\ grants' \in Nat /\ crossed' \in BOOLEAN
               /\ callback' \in [Callbacks -> callbacks] /\ IngestAccounts'
    <3>1. PICK renews \in BOOLEAN :
            callback' = [callback EXCEPT ![c].at = "store", ![c].grant = grants + 1, ![c].renews = renews]
      BY <2>4 DEF Ingests!ExchangeCode
    <3>2. /\ account' = account /\ grants' = grants + 1 /\ callback[c].at = "exchange"
          /\ crossed' = (crossed \/ \E d \in Callbacks : callback[d].at = "store")
      BY <2>4 DEF Ingests!ExchangeCode
    <3>3. grants + 1 \in Nat
      BY <1>2
    <3>4. /\ callback' \in [Callbacks -> callbacks]
          /\ callback'[c].at = "store" /\ callback'[c].grant = grants + 1
          /\ \A d \in Callbacks : d # c => callback'[d] = callback[d]
      BY <1>2, <3>1, <3>3
    <3> HIDE DEF callbacks
    <3>5. ASSUME ~crossed'
          PROVE  /\ \A d \in Callbacks : callback'[d].grant <= grants'
                 /\ \A d \in Callbacks : callback'[d].at = "store" => callback'[d].grant = grants'
                 /\ \A d, e \in Callbacks : callback'[d].at = "store" /\ callback'[e].at = "store" => d = e
                 /\ \A d \in Callbacks : callback'[d].at = "connected" =>
                      /\ account'.access >= callback'[d].grant
                      /\ callback'[d].renews => account'.refresh >= callback'[d].grant
      <4>1. ~crossed /\ \A d \in Callbacks : callback[d].at # "store"
        BY <3>2, <3>5
      <4>2. \A d \in Callbacks : callback[d].grant <= grants /\ callback[d].grant \in Nat
        BY <1>2, <4>1 DEF IngestIInv, IngestAccounts, callbacks
      <4>3. \A d \in Callbacks : callback'[d].at = "store" => d = c
        BY <3>4, <4>1
      <4>4. \A d \in Callbacks : callback'[d].grant <= grants'
        BY <1>2, <3>2, <3>4, <4>2
      <4> QED BY <3>2, <3>4, <4>1, <4>3, <4>4 DEF IngestIInv, IngestAccounts, Ingests!AccountsAreLatest
    <3>6. IngestAccounts'
      BY <3>5 DEF IngestAccounts, Ingests!AccountsAreLatest
    <3> QED BY <1>2, <3>2, <3>3, <3>4, <3>6
  <2>5. ASSUME NEW c \in Callbacks, Ingests!StoreAccount(c)
        PROVE  /\ account' \in [access : Nat, refresh : Nat] /\ grants' \in Nat /\ crossed' \in BOOLEAN
               /\ callback' \in [Callbacks -> callbacks] /\ IngestAccounts'
    <3> DEFINE refresh == IF callback[c].renews THEN callback[c].grant ELSE account.refresh
    <3>1. /\ callback[c].at = "store" /\ account' = [access |-> callback[c].grant, refresh |-> refresh]
          /\ callback' = [callback EXCEPT ![c].at = "connected"]
          /\ UNCHANGED <<grants, crossed>>
      BY <2>5 DEF Ingests!StoreAccount, Ingests!Stores
    <3>2. callback[c].grant \in Nat /\ callback[c].renews \in BOOLEAN /\ account.refresh \in Nat /\ refresh \in Nat
          /\ (callback[c].renews => refresh = callback[c].grant) /\ (~callback[c].renews => refresh = account.refresh)
      BY <1>2
    <3> HIDE DEF refresh
    <3>3. account' \in [access : Nat, refresh : Nat] /\ account'.access = callback[c].grant /\ account'.refresh = refresh
      BY <3>1, <3>2
    <3>4. /\ callback' \in [Callbacks -> callbacks] /\ callback'[c].at = "connected"
          /\ callback'[c].grant = callback[c].grant /\ (callback'[c].renews <=> callback[c].renews)
          /\ \A d \in Callbacks : d # c => callback'[d] = callback[d]
      BY <1>2, <3>1
    <3>5. \A d \in Callbacks : callback[d].grant \in Nat
      BY <1>2
    <3> HIDE DEF callbacks
    <3>6. ASSUME ~crossed'
          PROVE  /\ \A d \in Callbacks : callback'[d].grant <= grants'
                 /\ \A d \in Callbacks : callback'[d].at = "store" => callback'[d].grant = grants'
                 /\ \A d, e \in Callbacks : callback'[d].at = "store" /\ callback'[e].at = "store" => d = e
                 /\ \A d \in Callbacks : callback'[d].at = "connected" =>
                      /\ account'.access >= callback'[d].grant
                      /\ callback'[d].renews => account'.refresh >= callback'[d].grant
      <4>1. ~crossed /\ callback[c].grant = grants /\ \A d \in Callbacks : callback[d].grant <= grants
        BY <3>1, <3>6 DEF IngestIInv, IngestAccounts
      <4>2. \A d \in Callbacks : callback'[d].grant <= grants'
        BY <3>1, <3>4, <4>1
      <4>3. \A d \in Callbacks : callback'[d].at = "store" => d # c /\ callback[d].at = "store"
        BY <3>4
      <4>4. ASSUME NEW d \in Callbacks, callback'[d].at = "connected"
            PROVE  /\ account'.access >= callback'[d].grant
                   /\ callback'[d].renews => account'.refresh >= callback'[d].grant
        <5>1. account'.access >= callback'[d].grant
          BY <1>2, <3>1, <3>3, <4>1, <4>2
        <5>2. ASSUME callback'[d].renews PROVE account'.refresh >= callback'[d].grant
          <6>1. CASE callback[c].renews
            BY <1>2, <3>1, <3>2, <3>3, <4>1, <4>2, <6>1
          <6>2. CASE ~callback[c].renews
            BY <3>2, <3>3, <3>4, <4>1, <4>4, <5>2, <6>2 DEF IngestIInv, IngestAccounts, Ingests!AccountsAreLatest
          <6> QED BY <6>1, <6>2
        <5> QED BY <5>1, <5>2
      <4> QED BY <3>1, <3>4, <4>1, <4>2, <4>3, <4>4 DEF IngestIInv, IngestAccounts
    <3>7. IngestAccounts'
      BY <3>6 DEF IngestAccounts, Ingests!AccountsAreLatest
    <3> QED BY <1>2, <3>1, <3>3, <3>4, <3>7
  <2> QED BY <2>1, <2>2, <2>3, <2>4, <2>5
<1>4. IngestTyped'
  BY <1>1, <1>3 DEF IngestIInv, IngestTyped
<1>5. /\ \A j : Ingests!StoredBy(j)' = Ingests!StoredBy(j)
      /\ \A j, k : IngestUpTo(j, k)' = IngestUpTo(j, k)
  BY <1>1 DEF Ingests!StoredBy, IngestUpTo
<1>6. IngestStored' /\ IngestTold'
  BY <1>1, <1>5 DEF IngestIInv, IngestStored, IngestTold
<1>7. IngestBlanks'
  <2>1. \A j \in Imports : IngestExcused(ingest[j]) => IngestExcused(ingest[j])'
    <3> SUFFICES ASSUME NEW j \in Imports, IngestExcused(ingest[j]) PROVE IngestExcused(ingest[j])'
      OBVIOUS
    <3>1. CASE refusals > 0
      <4>1. refusals' > 0
        BY <1>1, <3>1
      <4> QED BY <4>1 DEF IngestExcused
    <3>2. CASE ingest[j].token \in refused
      BY <1>1, <3>2 DEF IngestExcused
    <3> QED BY <3>1, <3>2 DEF IngestExcused
  <2>2. Ingests!BlanksAreRefusals'
    <3> SUFFICES ASSUME NEW k \in DOMAIN chunks, chunks[k].says = "blank"
        PROVE  ingest[chunks[k].ingest].token \in refused' \/ refusals' > 0
      BY <1>1 DEF Ingests!BlanksAreRefusals
    <3>1. ingest[chunks[k].ingest].token \in refused \/ refusals > 0
      BY DEF IngestIInv, IngestBlanks, Ingests!BlanksAreRefusals
    <3>2. refusals > 0 => refusals' > 0
      BY <1>1
    <3> QED BY <1>1, <3>1, <3>2
  <2> QED BY <1>1, <2>1, <2>2 DEF IngestIInv, IngestBlanks
<1>8. IngestRead'
  BY <1>1 DEF IngestIInv, IngestRead, Ingests!SuggestionIsLatest
<1> QED BY <1>3, <1>4, <1>6, <1>7, <1>8 DEF IngestIInv

LEMMA IngestInitIInv == Ingests!Init => IngestIInv
<1> SUFFICES ASSUME Ingests!Init PROVE IngestIInv
  OBVIOUS
<1>1. ingest \in [Imports -> IngestRows] /\ \A i \in Imports : IngestPhase(ingest[i]) /\ ingest[i].contents = <<>> /\ ingest[i].stored = 0
  <2> DEFINE q == [does |-> "idle", at |-> "idle", thread |-> "", token |-> 0, left |-> 0, contents |-> <<>>, stored |-> 0]
  <2>1. q \in IngestRows
    BY DEF IngestRows, IngestBefore, IngestThreads
  <2>2. q.at = "idle" /\ q.contents = <<>> /\ q.stored = 0 /\ Len(<<>>) = 0
    OBVIOUS
  <2>3. ingest = [i \in Imports |-> q]
    BY DEF Ingests!Init, Ingests!None
  <2> HIDE DEF q
  <2>4. IngestPhase(q)
    BY <2>2 DEF IngestPhase
  <2> QED BY <2>1, <2>2, <2>3, <2>4
<1>2. chunks = <<>> /\ DOMAIN chunks = {} /\ chunks \in Seq(IngestChunks)
  <2>1. chunks = <<>>
    BY DEF Ingests!Init
  <2> QED BY <2>1
<1>3. IngestTyped
  BY <1>1, <1>2 DEF Ingests!Init, Ingests!None, IngestTyped
<1>4. IngestAccounts
  <2>1. \A c \in Callbacks : callback[c].at = "idle" /\ callback[c].grant = 0
    BY DEF Ingests!Init, Ingests!None
  <2>2. grants = 0
    BY DEF Ingests!Init
  <2> QED BY <2>1, <2>2 DEF IngestAccounts, Ingests!AccountsAreLatest
<1>5. \A i : Ingests!StoredBy(i) = {}
  BY <1>2 DEF Ingests!StoredBy
<1>6. IngestStored
  BY <1>1, <1>5, FS_EmptySet DEF IngestStored
<1>7. IngestTold
  BY DEF Ingests!Init, IngestTold
<1>8. IngestBlanks
  BY <1>1, <1>2 DEF IngestBlanks, Ingests!BlanksAreRefusals
<1>9. IngestRead
  BY DEF Ingests!Init, IngestRead, Ingests!SuggestionIsLatest
<1> QED BY <1>3, <1>4, <1>6, <1>7, <1>8, <1>9 DEF IngestIInv

LEMMA IngestStepKeepsIInv == IngestIInv /\ [Ingests!Next]_Ingests!vars => IngestIInv'
<1> SUFFICES ASSUME IngestIInv, [Ingests!Next]_Ingests!vars PROVE IngestIInv'
  OBVIOUS
<1>1. CASE UNCHANGED Ingests!vars
  <2> USE <1>1 DEF Ingests!vars, Ingests!accounts, Ingests!memory, IngestIInv
  <2>1. IngestTyped'
    BY DEF IngestTyped
  <2>2. IngestAccounts'
    BY DEF IngestAccounts, Ingests!AccountsAreLatest
  <2>3. IngestStored' /\ IngestTold'
    BY DEF IngestStored, IngestTold, IngestUpTo, Ingests!StoredBy
  <2>4. IngestBlanks'
    BY DEF IngestBlanks, IngestExcused, Ingests!BlanksAreRefusals
  <2>5. IngestRead'
    BY DEF IngestRead, Ingests!SuggestionIsLatest
  <2> QED BY <2>1, <2>2, <2>3, <2>4, <2>5
<1>2. CASE Ingests!Next
  <2>1. CASE \/ Ingests!TokenExpires
             \/ \E c \in Callbacks : \/ Ingests!Consent(c) \/ Ingests!ExchangeCode(c) \/ Ingests!StoreAccount(c)
                                    \/ Ingests!CallbackFails(c)
    BY <2>1, IngestGrants
  <2>2. ASSUME NEW i \in Imports,
               \/ Ingests!StartImport(i) \/ Ingests!ListMessages(i) \/ Ingests!FetchMail(i)
               \/ \E chat \in Chats : Ingests!StartDesktop(i, chat)
               \/ Ingests!AskModel(i) \/ Ingests!IngestFails(i)
        PROVE  IngestIInv'
    BY <2>2, IngestGathers
  <2>3. ASSUME NEW i \in Imports, Ingests!InsertChunk(i) PROVE IngestIInv'
    BY <2>3, IngestInserts
  <2>4. ASSUME NEW i \in Imports, Ingests!Complete(i) PROVE IngestIInv'
    BY <2>4, IngestCompletes
  <2>5. ASSUME NEW chat \in Chats, Ingests!ReadRecent(chat) PROVE IngestIInv'
    BY <2>5, IngestReads
  <2> QED BY <1>2, <2>1, <2>2, <2>3, <2>4, <2>5 DEF Ingests!Next
<1> QED BY <1>1, <1>2

LEMMA CardinalityIsIngests == \A S : Ingests!Cardinality(S) = Cardinality(S)
BY DEF Ingests!Cardinality, Cardinality

LEMMA IngestIInvTells == IngestIInv => Ingests!MemoryIsTold
<1> SUFFICES ASSUME IngestIInv PROVE Ingests!MemoryIsTold
  OBVIOUS
<1>1. Ingests!AccountsAreLatest
  <2>1. CASE crossed
    BY <2>1 DEF Ingests!AccountsAreLatest
  <2>2. CASE ~crossed
    BY <2>2 DEF IngestIInv, IngestAccounts
  <2> QED BY <2>1, <2>2
<1>2. Ingests!StoredIsTold
  <2>2. \A i \in Imports : ingest[i].at = "answered" => Cardinality(Ingests!StoredBy(i)) = Len(ingest[i].contents)
    BY DEF IngestIInv, IngestStored, IngestTyped, IngestPhase
  <2>3. \A e \in counted : e.count = Cardinality(Ingests!StoredBy(e.ingest))
    BY DEF IngestIInv, IngestTold, IngestStored
  <2>4. ASSUME NEW i \in Imports, NEW k \in Ingests!StoredBy(i)
        PROVE  LET nth == Cardinality({j \in Ingests!StoredBy(i) : j <= k})
               IN  nth <= Len(ingest[i].contents) /\ chunks[k].says = ingest[i].contents[nth]
    BY DEF IngestIInv, IngestStored, IngestUpTo
  <2>5. ASSUME NEW i \in Imports
        PROVE  /\ \A k \in Ingests!StoredBy(i) :
                    LET nth == Cardinality({j \in Ingests!StoredBy(i) : j <= k})
                    IN  nth <= Len(ingest[i].contents) /\ chunks[k].says = ingest[i].contents[nth]
               /\ ingest[i].at = "answered" => Cardinality(Ingests!StoredBy(i)) = Len(ingest[i].contents)
    <3>1. ingest[i].at = "answered" => Cardinality(Ingests!StoredBy(i)) = Len(ingest[i].contents)
      BY <2>2
    <3> QED BY <2>4, <3>1
  <2> QED BY <2>3, <2>5, CardinalityIsIngests DEF Ingests!StoredIsTold
<1> QED BY <1>1, <1>2 DEF IngestIInv, IngestBlanks, IngestRead, Ingests!MemoryIsTold

-----------------------------------------------------------------------------
\* Views.  A row keeps its number, its kind, its thread and its text; only the status and
\* the time of a draft change, and one that was sent stays so.
ViewRows == [kind : {"inbound", "draft", "memory"}, thread : Views!Threads,
             session : Views!Sessions \cup {All},
             status : {"received", "stored", "DRAFTED", "APPROVED", "REJECTED", "SENT", "FAILED"},
             match : Matches, at : Nat]
ViewPages == [reads : {"nothing", "threads", "thread", "memory", "parts", "search"},
              of : Views!Threads \cup {All}, previews : SUBSET Nat,
              said : SUBSET [row : Nat, direction : {"inbound", "outbound", "draft_reference"}],
              hits : SUBSET Nat, before : SUBSET Nat]
ViewTyped ==
  /\ writes \in Nat /\ written \in Seq(ViewRows) /\ page \in ViewPages
  /\ \A i \in DOMAIN written : written[i].at \in 1..writes

\* Drafts have a status of their own, and are in the thread of a message.
ViewDrafts ==
  \A i \in DOMAIN written :
    /\ written[i].kind = "draft" <=> written[i].status \in {"DRAFTED", "APPROVED", "REJECTED", "SENT", "FAILED"}
    /\ written[i].kind = "draft" =>
         \E j \in DOMAIN written : written[j].kind = "inbound" /\ written[j].thread = written[i].thread

\* What a page has of the rows is so for good.
ViewPreviews == \A i \in page.previews : i \in DOMAIN written /\ written[i].kind # "memory"
ViewHits     == \A i \in page.hits : i \in DOMAIN written /\ (written[i].kind = "draft" => written[i].status = "SENT")
ViewSaid     == \A s \in page.said :
                  s.row \in DOMAIN written /\ (s.direction # "draft_reference" => Views!Direction(s.row) = s.direction)

\* A search that has not found the word goes on to its parts, and has what had them when
\* it began still before it.
ViewSearch ==
  /\ page.reads = "parts" => page.hits = {} /\ page.before \subseteq Views!Having(page.of, {"word", "part"})
  /\ page.reads = "search" /\ page.hits = {} => page.before = {}

ViewIInv == ViewTyped /\ ViewDrafts /\ ViewPreviews /\ ViewHits /\ ViewSaid /\ ViewSearch

LEMMA CardinalityIsViews == \A S : Views!Cardinality(S) = Cardinality(S)
BY DEF Views!Cardinality, Cardinality

\* Sets of rows are finite.
LEMMA ViewFinite ==
  ASSUME ViewTyped, NEW S, S \subseteq DOMAIN written
  PROVE  /\ IsFiniteSet(S) /\ Cardinality(S) \in Nat
         /\ Views!Cardinality(S) = Cardinality(S)
         /\ Cardinality(S) = 0 <=> S = {}
<1>1. DOMAIN written = 1..Len(written) /\ Len(written) \in Nat
  BY DEF ViewTyped
<1>2. IsFiniteSet(DOMAIN written)
  BY <1>1, FS_Interval
<1>3. IsFiniteSet(S)
  BY <1>2, FS_Subset
<1> QED BY <1>3, FS_CardinalityType, FS_EmptySet, CardinalityIsViews

\* Of some rows the newest are some.
LEMMA ViewNewest ==
  ASSUME ViewTyped, NEW S, S \subseteq DOMAIN written, S # {}, NEW n \in Nat \ {0}
  PROVE  Views!Newest(S, n) # {}
<1> DEFINE times == {written[i].at : i \in S}
<1>1. times # {} /\ times \subseteq 1..writes /\ writes \in Nat
  BY DEF ViewTyped
<1>2. PICK t \in times : \A u \in times : u <= t
  BY <1>1, LatestOf
<1>3. PICK i \in S : written[i].at = t
  BY <1>2
<1>4. \A j \in S : written[j].at \in Nat /\ written[j].at <= written[i].at
  BY <1>1, <1>2, <1>3
<1>5. {j \in S : written[j].at > written[i].at} = {}
  BY <1>3, <1>4
<1>6. Views!Cardinality({j \in S : written[j].at > written[i].at}) = 0
  BY <1>5, FS_EmptySet, CardinalityIsViews
<1>7. i \in Views!Newest(S, n)
  BY <1>3, <1>6 DEF Views!Newest
<1> QED BY <1>7

-----------------------------------------------------------------------------
LEMMA ViewInitIInv == Views!Init => ViewIInv
<1> SUFFICES ASSUME Views!Init PROVE ViewIInv
  OBVIOUS
<1>1. writes = 0 /\ written = <<>> /\ page = Views!NoPage
  BY DEF Views!Init
<1>2. DOMAIN written = {}
  BY <1>1
<1>3. page \in ViewPages
  BY <1>1 DEF Views!NoPage, ViewPages
<1> QED BY <1>1, <1>2, <1>3
        DEF Views!NoPage, ViewIInv, ViewTyped, ViewDrafts, ViewPreviews, ViewHits, ViewSaid, ViewSearch

\* What stays of a row.
ViewKept(i) ==
  /\ i \in DOMAIN written'
  /\ written'[i].kind = written[i].kind /\ written'[i].thread = written[i].thread
  /\ written'[i].match = written[i].match
  /\ written[i].status = "SENT" => written'[i].status = "SENT"

LEMMA ViewKeeps ==
  ASSUME ViewIInv, ViewTyped', ViewDrafts', \A i \in DOMAIN written : ViewKept(i), page' = page
  PROVE  ViewIInv'
<1>1. ViewPreviews' /\ ViewHits'
  BY DEF ViewIInv, ViewPreviews, ViewHits, ViewKept
<1>2. ViewSaid'
  <2> SUFFICES ASSUME NEW s \in page.said
      PROVE  s.row \in DOMAIN written' /\ (s.direction # "draft_reference" => Views!Direction(s.row)' = s.direction)
    BY DEF ViewSaid
  <2>1. /\ s.row \in DOMAIN written /\ ViewKept(s.row)
        /\ s.direction # "draft_reference" => Views!Direction(s.row) = s.direction
    BY DEF ViewIInv, ViewSaid
  <2> QED BY <2>1 DEF Views!Direction, ViewKept
<1>3. ViewSearch'
  <2>1. \A i \in Views!Having(page.of, {"word", "part"}) : i \in Views!Having(page.of, {"word", "part"})'
    BY DEF Views!Having, Views!Searchable, ViewKept
  <2> QED BY <2>1 DEF ViewIInv, ViewSearch
<1> QED BY <1>1, <1>2, <1>3 DEF ViewIInv

\* A new row.
LEMMA ViewCreates ==
  ASSUME ViewIInv, NEW r, r \in ViewRows, r.at = writes + 1, writes' = writes + 1, page' = page,
         written' = Append(written, r),
         r.kind = "draft" <=> r.status \in {"DRAFTED", "APPROVED", "REJECTED", "SENT", "FAILED"},
         r.kind = "draft" =>
           \E j \in DOMAIN written : written[j].kind = "inbound" /\ written[j].thread = r.thread
  PROVE  ViewIInv'
<1>1. writes \in Nat /\ written \in Seq(ViewRows) /\ Len(written) \in Nat /\ DOMAIN written = 1..Len(written)
  BY DEF ViewIInv, ViewTyped
<1>2. /\ written' \in Seq(ViewRows) /\ DOMAIN written' = 1..(Len(written) + 1)
      /\ \A i \in DOMAIN written : i \in DOMAIN written' /\ written'[i] = written[i]
      /\ written'[Len(written) + 1] = r
  BY <1>1
<1>3. \A i \in DOMAIN written' : i \in DOMAIN written \/ i = Len(written) + 1
  BY <1>1, <1>2
<1>4. \A i \in DOMAIN written : written[i].at \in 1..writes
  BY DEF ViewIInv, ViewTyped
<1>5. ViewTyped'
  <2>1. \A i \in DOMAIN written' : written'[i].at \in 1..writes'
    BY <1>1, <1>2, <1>3, <1>4
  <2> QED BY <1>1, <1>2, <2>1 DEF ViewIInv, ViewTyped
<1>6. ViewDrafts'
  <2> SUFFICES ASSUME NEW i \in DOMAIN written'
      PROVE  /\ written'[i].kind = "draft" <=> written'[i].status \in {"DRAFTED", "APPROVED", "REJECTED", "SENT", "FAILED"}
             /\ written'[i].kind = "draft" =>
                  \E j \in DOMAIN written' : written'[j].kind = "inbound" /\ written'[j].thread = written'[i].thread
    BY DEF ViewDrafts
  <2>1. CASE i \in DOMAIN written
    BY <1>2, <2>1 DEF ViewIInv, ViewDrafts
  <2>2. CASE i = Len(written) + 1
    BY <1>2, <2>2
  <2> QED BY <1>3, <2>1, <2>2
<1>7. \A i \in DOMAIN written : ViewKept(i)
  BY <1>2 DEF ViewKept
<1> QED BY <1>5, <1>6, <1>7, ViewKeeps

\* A draft is decided or delivered.
LEMMA ViewChanges ==
  ASSUME ViewIInv, NEW i \in DOMAIN written, NEW from, from \subseteq {"DRAFTED", "APPROVED"},
         NEW to \in {"APPROVED", "SENT", "REJECTED", "FAILED"}, Views!Changes(i, from, to)
  PROVE  ViewIInv'
<1>1. writes \in Nat /\ written \in Seq(ViewRows) /\ Len(written) \in Nat /\ DOMAIN written = 1..Len(written)
  BY DEF ViewIInv, ViewTyped
<1>2. /\ writes' = writes + 1 /\ page' = page
      /\ written[i].kind = "draft" /\ written[i].status \in {"DRAFTED", "APPROVED"}
      /\ written' = [written EXCEPT ![i] = [written[i] EXCEPT !.status = to, !.at = writes + 1]]
  BY <1>1 DEF Views!Changes, Views!Writes
<1>3. written[i] \in ViewRows
  BY <1>1
<1>4. /\ DOMAIN written' = DOMAIN written
      /\ \A j \in DOMAIN written : j # i => written'[j] = written[j]
      /\ written'[i] = [written[i] EXCEPT !.status = to, !.at = writes + 1]
  BY <1>2
<1>5. /\ written'[i] \in ViewRows
      /\ written'[i].kind = written[i].kind /\ written'[i].thread = written[i].thread
      /\ written'[i].match = written[i].match
      /\ written'[i].status = to /\ written'[i].at = writes + 1
  <2>1. PICK r \in ViewRows : r = written[i]
    BY <1>3
  <2>2. PICK x \in Nat : x = writes + 1
    BY <1>1
  <2>3. written'[i] = [r EXCEPT !.status = to, !.at = x]
    BY <1>4, <2>1, <2>2
  <2>4. /\ [r EXCEPT !.status = to, !.at = x] \in ViewRows
        /\ [r EXCEPT !.status = to, !.at = x].kind = r.kind
        /\ [r EXCEPT !.status = to, !.at = x].thread = r.thread
        /\ [r EXCEPT !.status = to, !.at = x].match = r.match
        /\ [r EXCEPT !.status = to, !.at = x].status = to
        /\ [r EXCEPT !.status = to, !.at = x].at = x
    BY DEF ViewRows
  <2> QED BY <2>1, <2>2, <2>3, <2>4
<1>6. written' \in Seq(ViewRows)
  <2>1. written' \in [1..Len(written) -> ViewRows]
    BY <1>1, <1>2, <1>4, <1>5
  <2> QED BY <1>1, <2>1, SeqDef
<1>7. ViewTyped'
  <2>1. \A j \in DOMAIN written' : written'[j].at \in 1..writes'
    BY <1>1, <1>2, <1>4, <1>5 DEF ViewIInv, ViewTyped
  <2> QED BY <1>1, <1>2, <1>6, <2>1 DEF ViewIInv, ViewTyped
<1>8. \A j \in DOMAIN written : ViewKept(j)
  BY <1>2, <1>4, <1>5 DEF ViewKept
<1>9. ViewDrafts'
  <2> SUFFICES ASSUME NEW j \in DOMAIN written'
      PROVE  /\ written'[j].kind = "draft" <=> written'[j].status \in {"DRAFTED", "APPROVED", "REJECTED", "SENT", "FAILED"}
             /\ written'[j].kind = "draft" =>
                  \E k \in DOMAIN written' : written'[k].kind = "inbound" /\ written'[k].thread = written'[j].thread
    BY DEF ViewDrafts
  <2>1. written'[j].kind = "draft" <=> written'[j].status \in {"DRAFTED", "APPROVED", "REJECTED", "SENT", "FAILED"}
    BY <1>2, <1>4, <1>5 DEF ViewIInv, ViewDrafts
  <2>2. ASSUME written'[j].kind = "draft"
        PROVE  \E k \in DOMAIN written' : written'[k].kind = "inbound" /\ written'[k].thread = written'[j].thread
    <3>1. PICK k \in DOMAIN written : written[k].kind = "inbound" /\ written[k].thread = written[j].thread
      BY <1>4, <1>8, <2>2 DEF ViewIInv, ViewDrafts, ViewKept
    <3> QED BY <1>4, <1>8, <3>1 DEF ViewKept
  <2> QED BY <2>1, <2>2
<1> QED BY <1>2, <1>7, <1>8, <1>9, ViewKeeps

-----------------------------------------------------------------------------
\* A page is read: of it only what was read is to be shown.
LEMMA ViewReads ==
  ASSUME ViewIInv, NEW read \in ViewPages, Views!Reads(read),
         \A i \in read.previews : i \in DOMAIN written /\ written[i].kind # "memory",
         \A i \in read.hits : i \in DOMAIN written /\ (written[i].kind = "draft" => written[i].status = "SENT"),
         \A s \in read.said : s.row \in DOMAIN written /\ Views!Direction(s.row) = s.direction,
         read.reads = "parts" => read.hits = {} /\ read.before \subseteq Views!Having(read.of, {"word", "part"}),
         read.reads = "search" /\ read.hits = {} => read.before = {}
  PROVE  ViewIInv'
<1>1. page' = read /\ UNCHANGED <<written, writes, aged>>
  BY DEF Views!Reads
<1>2. ViewTyped' /\ ViewDrafts'
  BY <1>1 DEF ViewIInv, ViewTyped, ViewDrafts
<1>3. ViewPreviews' /\ ViewHits'
  BY <1>1 DEF ViewPreviews, ViewHits
<1>4. ViewSaid'
  BY <1>1 DEF ViewSaid, Views!Direction
<1>5. ViewSearch'
  BY <1>1 DEF ViewSearch, Views!Having, Views!Searchable
<1> QED BY <1>2, <1>3, <1>4, <1>5 DEF ViewIInv

\* A search that could find something does.
LEMMA ViewBest ==
  ASSUME ViewTyped, NEW S, S \subseteq DOMAIN written, {} \in Views!Best(S)
  PROVE  S = {}
<1>1. Views!Cardinality(S) = Cardinality(S) /\ Cardinality(S) \in Nat /\ (Cardinality(S) = 0 <=> S = {})
  BY ViewFinite
<1>2. Views!Cardinality({}) = 0
  BY FS_EmptySet, CardinalityIsViews
<1>3. 0 = IF Views!Cardinality(S) < SearchLimit THEN Views!Cardinality(S) ELSE SearchLimit
  BY <1>2 DEF Views!Best
<1>4. SearchLimit \in Nat \ {0}
  BY LimitsAreRooms
<1> QED BY <1>1, <1>3, <1>4

\* A page before anything is read.
LEMMA ViewBlank ==
  /\ Views!NoPage \in ViewPages
  /\ Views!NoPage.previews = {} /\ Views!NoPage.said = {} /\ Views!NoPage.hits = {} /\ Views!NoPage.before = {}
BY DEF Views!NoPage, ViewPages

LEMMA ViewStepKeepsIInv == ViewIInv /\ [Views!Next]_Views!vars => ViewIInv'
<1> SUFFICES ASSUME ViewIInv, [Views!Next]_Views!vars PROVE ViewIInv'
  OBVIOUS
<1>1. /\ writes \in Nat /\ written \in Seq(ViewRows) /\ DOMAIN written \subseteq Nat
      /\ \A i \in DOMAIN written : written[i] \in ViewRows
  BY DEF ViewIInv, ViewTyped
<1>2. CASE UNCHANGED Views!vars
  <2>1. UNCHANGED <<written, writes, aged, page>>
    BY <1>2 DEF Views!vars
  <2> QED BY <2>1 DEF ViewIInv, ViewTyped, ViewDrafts, ViewPreviews, ViewHits, ViewSaid, ViewSearch,
                      Views!Direction, Views!Having, Views!Searchable
<1>3. CASE Views!Next
  <2>1. ASSUME NEW match \in Matches, NEW place \in Places, Views!Arrive(place, match) PROVE ViewIInv'
    <3>1. PICK r : r = [kind |-> "inbound", thread |-> place[1], session |-> place[2], status |-> "received",
                        match |-> match, at |-> writes + 1]
      OBVIOUS
    <3>2. place[1] \in Views!Threads /\ place[2] \in Views!Sessions
      BY DEF Views!Threads, Views!Sessions
    <3>3. r \in ViewRows /\ r.at = writes + 1 /\ r.kind = "inbound" /\ r.status = "received"
      BY <1>1, <3>1, <3>2 DEF ViewRows
    <3>4. writes' = writes + 1 /\ page' = page /\ written' = Append(written, r)
      BY <2>1, <3>1 DEF Views!Arrive, Views!Writes, Views!Creates, Views!Row
    <3> QED BY <3>3, <3>4, ViewCreates
  <2>2. ASSUME NEW match \in Matches, NEW thread \in Views!Threads, Views!Remember(thread, match)
        PROVE  ViewIInv'
    <3>1. PICK r : r = [kind |-> "memory", thread |-> thread, session |-> All, status |-> "stored",
                        match |-> match, at |-> writes + 1]
      OBVIOUS
    <3>2. r \in ViewRows /\ r.at = writes + 1 /\ r.kind = "memory" /\ r.status = "stored"
      BY <1>1, <3>1 DEF ViewRows
    <3>3. writes' = writes + 1 /\ page' = page /\ written' = Append(written, r)
      BY <2>2, <3>1 DEF Views!Remember, Views!Writes, Views!Creates, Views!Row
    <3> QED BY <3>2, <3>3, ViewCreates
  <2>3. ASSUME NEW i \in DOMAIN written, NEW status \in {"DRAFTED", "APPROVED", "REJECTED"},
               NEW match \in Matches, Views!Compose(i, status, match)
        PROVE  ViewIInv'
    <3>1. PICK r : r = [kind |-> "draft", thread |-> written[i].thread, session |-> written[i].session,
                        status |-> status, match |-> match, at |-> writes + 1]
      OBVIOUS
    <3>2. written[i].thread \in Views!Threads /\ written[i].session \in Views!Sessions \cup {All}
      BY <1>1 DEF ViewRows
    <3>3. /\ r \in ViewRows /\ r.at = writes + 1 /\ r.kind = "draft" /\ r.status = status
          /\ r.thread = written[i].thread
      BY <1>1, <3>1, <3>2 DEF ViewRows
    <3>4. /\ writes' = writes + 1 /\ page' = page /\ written' = Append(written, r)
          /\ written[i].kind = "inbound"
      BY <2>3, <3>1 DEF Views!Compose, Views!Writes, Views!Creates, Views!Row
    <3> QED BY <3>3, <3>4, ViewCreates
  <2>4. ASSUME NEW i \in DOMAIN written, Views!Triage(i) PROVE ViewIInv'
    <3>1. PICK to \in {"APPROVED", "SENT", "REJECTED"} : Views!Changes(i, {"DRAFTED"}, to)
      BY <2>4 DEF Views!Triage
    <3> QED BY <3>1, ViewChanges
  <2>5. ASSUME NEW i \in DOMAIN written, Views!Deliver(i) PROVE ViewIInv'
    <3>1. PICK to \in {"SENT", "APPROVED", "FAILED"} : Views!Changes(i, {"APPROVED"}, to)
      BY <2>5 DEF Views!Deliver
    <3> QED BY <3>1, ViewChanges
  <2>6. ASSUME Views!DayPasses PROVE ViewIInv'
    <3>1. UNCHANGED <<written, writes, page>>
      BY <2>6 DEF Views!DayPasses
    <3> QED BY <3>1 DEF ViewIInv, ViewTyped, ViewDrafts, ViewPreviews, ViewHits, ViewSaid, ViewSearch,
                        Views!Direction, Views!Having, Views!Searchable
  <2>7. ASSUME NEW session \in Views!Sessions \cup {All}, Views!ReadThreads(session) PROVE ViewIInv'
    <3>1. PICK previews : previews = {s.preview : s \in Views!ThreadSummaries(session)}
      OBVIOUS
    <3>2. \A i \in previews : i \in DOMAIN written /\ written[i].kind # "memory"
      <4>1. Views!Newest(Views!Previews(session), ListLimit) \subseteq Views!Activity(session)
        BY DEF Views!Newest, Views!Previews
      <4>2. ASSUME NEW s \in Views!ThreadSummaries(session)
            PROVE  s.preview \in Views!Activity(session)
        <5>1. PICK i \in Views!Newest(Views!Previews(session), ListLimit) :
                s = [thread |-> written[i].thread, preview |-> i,
                     count |-> Views!Cardinality(Views!Activity(session) \cap Views!In(written[i].thread))]
          BY DEF Views!ThreadSummaries
        <5> QED BY <4>1, <5>1
      <4> QED BY <3>1, <4>2 DEF Views!Activity
    <3>3. PICK none \in ViewPages : none = Views!NoPage
      BY ViewBlank
    <3>4. PICK read : read = [none EXCEPT !.reads = "threads", !.previews = previews]
      OBVIOUS
    <3>5. Views!Reads(read)
      BY <2>7, <3>1, <3>3, <3>4 DEF Views!ReadThreads
    <3>6. previews \subseteq Nat
      BY <1>1, <3>2
    <3>7. /\ read \in ViewPages /\ read.reads = "threads" /\ read.previews = previews
          /\ read.said = none.said /\ read.hits = none.hits /\ read.before = none.before
      BY <3>4, <3>6 DEF ViewPages
    <3>8. none.said = {} /\ none.hits = {}
      BY <3>3, ViewBlank
    <3> QED BY <3>2, <3>5, <3>7, <3>8, ViewReads
  <2>8. ASSUME NEW thread \in Views!Threads, Views!ReadThread(thread) PROVE ViewIInv'
    <3>1. PICK said : said = {[row |-> i, direction |-> Views!Direction(i)] : i \in Views!Transcript(thread)}
      OBVIOUS
    <3>2. Views!Transcript(thread) \subseteq DOMAIN written
      BY DEF Views!Transcript, Views!Newest, Views!Transcribed, Views!In
    <3>3. \A s \in said : s.row \in DOMAIN written /\ Views!Direction(s.row) = s.direction
      BY <3>1, <3>2
    <3>4. \A i : Views!Direction(i) \in {"inbound", "outbound", "draft_reference"}
      BY DEF Views!Direction
    <3>5. said \subseteq [row : Nat, direction : {"inbound", "outbound", "draft_reference"}]
      BY <1>1, <3>1, <3>2, <3>4
    <3>6. PICK none \in ViewPages : none = Views!NoPage
      BY ViewBlank
    <3>7. PICK read : read = [none EXCEPT !.reads = "thread", !.said = said]
      OBVIOUS
    <3>8. Views!Reads(read)
      BY <2>8, <3>1, <3>6, <3>7 DEF Views!ReadThread
    <3>9. /\ read \in ViewPages /\ read.reads = "thread" /\ read.said = said
          /\ read.previews = none.previews /\ read.hits = none.hits /\ read.before = none.before
      BY <3>5, <3>7 DEF ViewPages
    <3>10. none.previews = {} /\ none.hits = {}
      BY <3>6, ViewBlank
    <3> QED BY <3>3, <3>8, <3>9, <3>10, ViewReads
  <2>9. ASSUME NEW thread \in Views!Threads \cup {All}, Views!ReadMemory(thread) PROVE ViewIInv'
    <3>1. PICK hits : hits = Views!MemoryChunks(thread)
      OBVIOUS
    <3>2. \A i \in hits : i \in DOMAIN written /\ written[i].kind = "memory"
      BY <3>1 DEF Views!MemoryChunks, Views!Newest, Views!Of
    <3>3. PICK none \in ViewPages : none = Views!NoPage
      BY ViewBlank
    <3>4. PICK read : read = [none EXCEPT !.reads = "memory", !.hits = hits]
      OBVIOUS
    <3>5. Views!Reads(read)
      BY <2>9, <3>1, <3>3, <3>4 DEF Views!ReadMemory
    <3>6. hits \subseteq Nat
      BY <1>1, <3>2
    <3>7. /\ read \in ViewPages /\ read.reads = "memory" /\ read.hits = hits
          /\ read.previews = none.previews /\ read.said = none.said /\ read.before = none.before
      BY <3>4, <3>6 DEF ViewPages
    <3>8. none.previews = {} /\ none.said = {}
      BY <3>3, ViewBlank
    <3> QED BY <3>2, <3>5, <3>7, <3>8, ViewReads
  <2>10. ASSUME NEW thread \in Views!Threads \cup {All}, Views!SearchWords(thread) PROVE ViewIInv'
    <3>1. PICK found \in Views!Best(Views!Having(thread, {"word"})) :
            Views!Reads([Views!NoPage EXCEPT !.reads = IF found = {} THEN "parts" ELSE "search", !.of = thread,
                                             !.hits = found, !.before = Views!Having(thread, {"word", "part"})])
      BY <2>10 DEF Views!SearchWords
    <3>2. PICK before : before = Views!Having(thread, {"word", "part"})
      OBVIOUS
    <3>3. PICK reads : reads = IF found = {} THEN "parts" ELSE "search"
      OBVIOUS
    <3>4. PICK none \in ViewPages : none = Views!NoPage
      BY ViewBlank
    <3>5. PICK read : read = [none EXCEPT !.reads = reads, !.of = thread, !.hits = found, !.before = before]
      OBVIOUS
    <3>6. Views!Reads(read)
      BY <3>1, <3>2, <3>3, <3>4, <3>5
    <3>7. before \subseteq DOMAIN written
      BY <3>2 DEF Views!Having, Views!Searchable
    <3>8. \A i \in found : i \in DOMAIN written /\ (written[i].kind = "draft" => written[i].status = "SENT")
      BY DEF Views!Best, Views!Having, Views!Searchable
    <3>9. reads \in {"parts", "search"} /\ found \subseteq Nat /\ before \subseteq Nat
      BY <1>1, <3>3, <3>7, <3>8
    <3>10. /\ read \in ViewPages /\ read.reads = reads /\ read.of = thread
           /\ read.hits = found /\ read.before = before
           /\ read.previews = none.previews /\ read.said = none.said
      BY <3>5, <3>9 DEF ViewPages
    <3>11. none.previews = {} /\ none.said = {}
      BY <3>4, ViewBlank
    <3> QED BY <3>2, <3>3, <3>6, <3>8, <3>10, <3>11, ViewReads
  <2>11. ASSUME Views!SearchParts PROVE ViewIInv'
    <3>1. PICK found \in Views!Best(Views!Having(page.of, {"word", "part"})) :
            page' = [page EXCEPT !.reads = "search", !.hits = found]
      BY <2>11 DEF Views!SearchParts
    <3>2. UNCHANGED <<written, writes, aged>> /\ page.reads = "parts" /\ page \in ViewPages
      BY <2>11 DEF Views!SearchParts, ViewIInv, ViewTyped
    <3>3. Views!Having(page.of, {"word", "part"}) \subseteq DOMAIN written
      BY DEF Views!Having, Views!Searchable
    <3>4. \A i \in found : i \in DOMAIN written /\ (written[i].kind = "draft" => written[i].status = "SENT")
      BY DEF Views!Best, Views!Having, Views!Searchable
    <3>5. /\ page' \in ViewPages /\ page'.reads = "search" /\ page'.hits = found
          /\ page'.before = page.before /\ page'.previews = page.previews /\ page'.said = page.said
      BY <1>1, <3>1, <3>2, <3>4 DEF ViewPages
    <3>6. found = {} => Views!Having(page.of, {"word", "part"}) = {}
      BY <3>3, ViewBest DEF ViewIInv
    <3>7. found = {} => page.before = {}
      BY <3>2, <3>6 DEF ViewIInv, ViewSearch
    <3>8. ViewTyped' /\ ViewDrafts'
      BY <3>2, <3>5 DEF ViewIInv, ViewTyped, ViewDrafts
    <3>9. ViewPreviews' /\ ViewHits'
      BY <3>2, <3>4, <3>5 DEF ViewIInv, ViewPreviews, ViewHits
    <3>10. ViewSaid'
      BY <3>2, <3>5 DEF ViewIInv, ViewSaid, Views!Direction
    <3>11. ViewSearch'
      BY <3>5, <3>7 DEF ViewSearch
    <3> QED BY <3>8, <3>9, <3>10, <3>11 DEF ViewIInv
  <2> QED BY <1>3, <2>1, <2>2, <2>3, <2>4, <2>5, <2>6, <2>7, <2>8, <2>9, <2>10, <2>11 DEF Views!Next
<1> QED BY <1>2, <1>3

-----------------------------------------------------------------------------
\* What is in the transcript's choice is shown in it or pushed out of it.
LEMMA ViewTranscribed ==
  ASSUME ViewIInv, NEW i \in DOMAIN written,
         written[i].kind = "draft" => written[i].status \in {"SENT", "REJECTED", "DRAFTED"}
  PROVE  Views!Shown(i) \/ Views!PushedOut(i)
<1> DEFINE newer == {j \in Views!Transcribed(written[i].thread) : written[j].at > written[i].at}
<1>1. i \in Views!Transcribed(written[i].thread)
  BY DEF Views!Transcribed, Views!In
<1>2. newer \subseteq DOMAIN written
  BY DEF Views!Transcribed, Views!In
<1>3. Views!Cardinality(newer) \in Nat
  BY <1>2, ViewFinite DEF ViewIInv
<1>4. ThreadLimit \in Nat
  BY LimitsAreRooms
<1>5. CASE Views!Cardinality(newer) >= ThreadLimit
  BY <1>5 DEF Views!PushedOut
<1>6. CASE Views!Cardinality(newer) < ThreadLimit
  BY <1>1, <1>6 DEF Views!Shown, Views!Transcript, Views!Newest
<1> QED BY <1>3, <1>4, <1>5, <1>6

LEMMA ViewIInvAgrees == ViewIInv => Views!ViewsAgree
<1> SUFFICES ASSUME ViewIInv PROVE Views!ViewsAgree
  OBVIOUS
<1>1. Views!SaidForGood
  BY DEF ViewIInv, ViewSaid, Views!SaidForGood
<1>2. Views!ListedIsThere
  <2> SUFFICES ASSUME NEW i \in page.previews
      PROVE  /\ Views!Transcript(written[i].thread) # {}
             /\ Views!Shown(i) \/ Views!PushedOut(i) \/ written[i].status \in {"APPROVED", "FAILED"}
    BY DEF Views!ListedIsThere
  <2>1. i \in DOMAIN written /\ written[i].kind # "memory" /\ written[i] \in ViewRows
    BY DEF ViewIInv, ViewPreviews, ViewTyped
  <2>2. PICK j \in DOMAIN written : written[j].kind = "inbound" /\ written[j].thread = written[i].thread
    BY <2>1 DEF ViewIInv, ViewDrafts, ViewRows
  <2>3. j \in Views!Transcribed(written[i].thread)
    BY <2>2 DEF Views!Transcribed, Views!In
  <2>4. Views!Transcribed(written[i].thread) \subseteq DOMAIN written
    BY DEF Views!Transcribed, Views!In
  <2>5. Views!Transcript(written[i].thread) # {}
    BY <2>3, <2>4, ViewNewest, LimitsAreRooms DEF ViewIInv, Views!Transcript
  <2>6. \/ written[i].status \in {"APPROVED", "FAILED"}
        \/ written[i].kind = "draft" => written[i].status \in {"SENT", "REJECTED", "DRAFTED"}
    BY <2>1 DEF ViewIInv, ViewDrafts
  <2> QED BY <2>1, <2>5, <2>6, ViewTranscribed
<1>3. Views!DraftsAreSeen
  <2> SUFFICES ASSUME NEW i \in Views!Of("draft")
      PROVE  \/ Views!Shown(i) \/ Views!PushedOut(i)
             \/ i \in Views!DraftsToReview(All)
             \/ Views!Cardinality({j \in Views!Of("draft") : j > i}) >= DraftLimit
             \/ written[i].status = "FAILED"
             \/ written[i].status = "APPROVED" /\ i \in aged
    BY Zenon DEF Views!DraftsAreSeen
  <2>1. i \in DOMAIN written /\ written[i].kind = "draft"
    BY DEF Views!Of
  <2>2. written[i].status \in {"DRAFTED", "APPROVED", "REJECTED", "SENT", "FAILED"}
    BY <2>1 DEF ViewIInv, ViewDrafts
  <2>3. CASE written[i].status \in {"SENT", "REJECTED", "DRAFTED"}
    BY <2>1, <2>3, ViewTranscribed
  <2>4. CASE written[i].status = "APPROVED" /\ i \notin aged
    <3> DEFINE queued == {j \in Views!Activity(All) \ aged : written[j].status \in {"DRAFTED", "REJECTED", "APPROVED"}}
               newer  == {j \in queued : j > i}
               later  == {j \in Views!Of("draft") : j > i}
    <3>1. i \in queued
      BY <2>1, <2>4 DEF Views!Activity
    <3>2. newer \subseteq later /\ later \subseteq DOMAIN written
      BY DEF Views!Activity, Views!Of, ViewIInv, ViewDrafts
    <3>3. /\ IsFiniteSet(newer) /\ IsFiniteSet(later)
          /\ Cardinality(newer) \in Nat /\ Cardinality(later) \in Nat
          /\ Views!Cardinality(newer) = Cardinality(newer) /\ Views!Cardinality(later) = Cardinality(later)
      BY <3>2, ViewFinite DEF ViewIInv
    <3>4. Cardinality(newer) <= Cardinality(later)
      BY <3>2, <3>3, FS_Subset
    <3>5. DraftLimit \in Nat
      BY LimitsAreRooms
    <3>6. CASE Views!Cardinality(newer) < DraftLimit
      BY <3>1, <3>6 DEF Views!DraftsToReview
    <3>7. CASE Views!Cardinality(newer) >= DraftLimit
      BY <3>3, <3>4, <3>5, <3>7
    <3> QED BY <3>3, <3>5, <3>6, <3>7
  <2> QED BY <2>2, <2>3, <2>4
<1>4. Views!FoundIsThere
  <2> SUFFICES ASSUME NEW i \in page.hits
      PROVE  (Views!Shown(i) \/ Views!PushedOut(i)) /\ Views!Direction(i) # "draft_reference"
    BY DEF Views!FoundIsThere
  <2>1. i \in DOMAIN written /\ (written[i].kind = "draft" => written[i].status = "SENT")
    BY DEF ViewIInv, ViewHits
  <2> QED BY <2>1, ViewTranscribed DEF Views!Direction
<1>5. Views!NothingIsMissed
  BY DEF ViewIInv, ViewSearch, Views!NothingIsMissed
<1> QED BY <1>1, <1>2, <1>3, <1>4, <1>5 DEF Views!ViewsAgree

-----------------------------------------------------------------------------
\* A behaviour is of one part: the others stay as they began.
ServiceIInv ==
  /\ part = "drafting" => ReplyIInv
  /\ part = "profiles" => ProfileIInv
  /\ part = "ingest" => IngestIInv
  /\ part = "views" => ViewIInv

LEMMA ServiceInitIInv == ServiceInit => ServiceIInv
BY ReplyInitIInv, ProfileInitIInv, IngestInitIInv, ViewInitIInv DEF ServiceInit, ServiceIInv

LEMMA ServiceStepKeepsIInv == ServiceIInv /\ [ServiceNext]_all => ServiceIInv'
<1> SUFFICES ASSUME ServiceIInv, [ServiceNext]_all PROVE ServiceIInv'
  OBVIOUS
<1>1. part' = part
  BY DEF ServiceNext, all
<1>2. CASE part = "drafting"
  <2>1. [Reply!Next]_Reply!vars
    BY <1>2 DEF ServiceNext, all, replyVars, Reply!vars
  <2> QED BY <1>1, <1>2, <2>1, ReplyStepKeepsIInv DEF ServiceIInv
<1>3. CASE part = "profiles"
  <2>1. [Profile!Next]_Profile!vars
    <3>1. Profile!Next \/ UNCHANGED profileVars
      BY <1>3 DEF ServiceNext, all
    <3>2. ASSUME UNCHANGED profileVars PROVE UNCHANGED Profile!vars
      BY <3>2 DEF profileVars, Profile!vars, Profile!stored, Profile!recalled
    <3> QED BY <3>1, <3>2
  <2> QED BY <1>1, <1>3, <2>1, ProfileStepKeepsIInv DEF ServiceIInv
<1>4. CASE part = "ingest"
  <2>1. [Ingests!Next]_Ingests!vars
    <3>1. Ingests!Next \/ UNCHANGED ingestVars
      BY <1>4 DEF ServiceNext, all
    <3>2. ASSUME UNCHANGED ingestVars PROVE UNCHANGED Ingests!vars
      BY <3>2 DEF ingestVars, Ingests!vars, Ingests!accounts, Ingests!memory
    <3> QED BY <3>1, <3>2
  <2> QED BY <1>1, <1>4, <2>1, IngestStepKeepsIInv DEF ServiceIInv
<1>5. CASE part = "views"
  <2>1. [Views!Next]_Views!vars
    BY <1>5 DEF ServiceNext, all, viewVars, Views!vars
  <2> QED BY <1>1, <1>5, <2>1, ViewStepKeepsIInv DEF ServiceIInv
<1> QED BY <1>1, <1>2, <1>3, <1>4, <1>5 DEF ServiceIInv

\* Every reply that openRouterFetch, the executor and the policy engine can bring about is
\* judged as promised: what goes out unattended is bounded, heeds the risk level and the
\* facts that were read, and is never about money.
THEOREM RepliesAreJudgedHolds == ServiceSpec => []RepliesAreJudged
<1>1. ServiceIInv => RepliesAreJudged
  BY ReplyIInvJudges DEF ServiceIInv, RepliesAreJudged
<1> QED BY <1>1, ServiceInitIInv, ServiceStepKeepsIInv, PTL DEF ServiceSpec

\* What is known of a user is kept, in however many requests, imports and rows: profiles
\* lose no constraint and no note but to a write that crossed them (repos.ts), an answered
\* ingest is stored whole and in order and a draft quotes the latest of its thread
\* (postgres-memory.ts, oauth.ts), and the pages of threads, transcripts, drafts and
\* searches agree on the rows that are there.
THEOREM KnowledgeIsKeptHolds == ServiceSpec => []KnowledgeIsKept
<1>1. ServiceIInv => KnowledgeIsKept
  BY ProfileIInvKeeps, IngestIInvTells, ViewIInvAgrees DEF ServiceIInv, KnowledgeIsKept
<1> QED BY <1>1, ServiceInitIInv, ServiceStepKeepsIInv, PTL DEF ServiceSpec
=============================================================================
