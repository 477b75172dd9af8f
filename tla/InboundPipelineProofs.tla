------------------------- MODULE InboundPipelineProofs -------------------------
(***************************************************************************)
(* Proofs about InboundPipeline for any messages and threads, any number   *)
(* of executions that overlap, any retry limit and any number of faults.   *)
(*                                                                         *)
(* IInv is the inductive invariant: at most one execution has a job        *)
(* (Solo), the drafts of a message are numbered without a gap (Numbers),   *)
(* who works on a message found it unsettled (Unsettled), an answer is in  *)
(* the table before the message is DONE (Answering), drafts and what may   *)
(* still be drafted are paid for by the message or by a fault (Budgeted),  *)
(* and every enrichment has a draft of its own (Covered, Faultless).       *)
(***************************************************************************)
EXTENDS InboundPipeline, FiniteSetTheorems, TLAPS

BusyIn(table) == {r \in Runs : table[r].pc # "idle"}
Busy == BusyIn(runs)

\* One execution has a job; the others have outlived theirs, by a fault.
Solo ==
  /\ IsFiniteSet(Busy)
  /\ \A r, s \in Attached : r = s
  /\ \A r \in Busy : ~runs[r].attached => MsgOf(r) \in outlived
  /\ faults = 0 => outlived = {}

Count(m) == Cardinality(DraftsOf(m))

\* The drafts of a message are numbered from 1.
Numbers ==
  \A m \in Messages, d \in Drafts :
    d[1] = m => (drafts[d].status # Absent <=> d[2] <= Count(m))

\* Nobody settles a message meanwhile that an execution has claimed.
Unsettled ==
  \A r \in Busy :
    /\ runs[r].pc \in {"claiming", "composing", "superseding", "finishing"}
    /\ MsgOf(r) \notin outlived
    => inbound[MsgOf(r)] \in {"PENDING", "PROCESSING"}

\* Before an execution marks a message DONE it has a draft of it stored and the
\* older ones of the thread rejected.
Answering ==
  /\ \A d \in Drafts : drafts[d].status # Absent => drafts[d].createdAt < now
  /\ \A r \in Busy :
       /\ runs[r].pc \in {"superseding", "finishing", "enriching"} =>
            runs[r].draft \in DraftsOf(MsgOf(r))
       /\ runs[r].pc \in {"finishing", "enriching"} =>
            Superseded(drafts, runs[r].draft) = {}
  /\ DoneIsAnswered

\* What an execution that has outlived its job may still add: to claim the
\* message again, for which it may be drafted once more, and to draft it.
ShareOf(run, m) ==
  IF run.pc = "idle" THEN 0
  ELSE IF run.job.msg # m \/ run.attached THEN 0
  ELSE IF run.pc \in {"reading", "claiming"} THEN 2
  ELSE IF run.pc = "composing" THEN 1 ELSE 0

\* A job of the message may still have it drafted.
Open(m) ==
  \/ \E r \in Attached : MsgOf(r) = m /\ runs[r].pc \in {"claiming", "composing"}
  \/ /\ inbound[m] \notin Settled
     /\ \A r \in Attached : MsgOf(r) = m =>
          runs[r].pc \notin {"superseding", "finishing", "failing"}

Credit(m) == IF Open(m) THEN 1 ELSE 0

\* The shares of the executions, counted one by one.
OwedIn(table, m) == {p \in BusyIn(table) \X (1..2) : p[2] <= ShareOf(table[p[1]], m)}
Owed(m) == OwedIn(runs, m)

Budgeted ==
  \A m \in Messages : Count(m) + Cardinality(Owed(m)) + Credit(m) <= 1 + 2 * faults

\* An execution has drafted a message that it has yet to have enriched.
Enriches(run, m) ==
  /\ run.pc \in {"superseding", "finishing", "enriching"}
  /\ run.job.msg = m
EnrichingIn(table, m) == {r \in BusyIn(table) : Enriches(table[r], m)}
Enriching(m) == EnrichingIn(runs, m)

Covered == \A m \in Messages : enrich[m] + Cardinality(Enriching(m)) <= Count(m)

\* While nothing has gone wrong, DONE and enriched go together.
Faultless ==
  faults = 0 =>
    /\ \A m \in Messages :
         /\ inbound[m] # "DONE" => enrich[m] = 0
         /\ inbound[m] = "DONE" =>
              enrich[m] = 1 \/ \E r \in Busy : runs[r].pc = "enriching" /\ MsgOf(r) = m
    /\ \A r \in Busy :
         /\ runs[r].pc = "failing" => inbound[MsgOf(r)] \notin Settled
         /\ runs[r].pc = "enriching" => inbound[MsgOf(r)] = "DONE" /\ enrich[MsgOf(r)] = 0

IInv == /\ TypeOK /\ Solo /\ Numbers /\ Unsettled /\ Answering
        /\ Budgeted /\ Covered /\ Faultless

-----------------------------------------------------------------------------
\* Executions.

Phases == {"reading", "claiming", "composing", "superseding", "finishing",
           "enriching", "failing"}

Working ==
  [pc : Phases, job : Job, attached : BOOLEAN, draft : Drafts \cup {NoDraft}]

LEMMA RunStatesAre == RunStates = {IdleRun} \cup Working
BY DEF RunStates, Working, Phases

LEMMA IdleOrWorking ==
  ASSUME TypeOK, NEW r \in Runs
  PROVE  /\ runs[r].pc = "idle" <=> runs[r] = IdleRun
         /\ runs[r].pc # "idle" => runs[r] \in Working
<1>1. runs[r] = IdleRun \/ runs[r] \in Working
  BY RunStatesAre DEF TypeOK
<1>2. IdleRun.pc = "idle"
  BY DEF IdleRun
<1>3. \A run \in Working : run.pc # "idle"
  BY DEF Working, Phases
<1> QED  BY <1>1, <1>2, <1>3

LEMMA MessageOfRun ==
  ASSUME TypeOK, NEW r \in Runs, runs[r].pc # "idle"
  PROVE  MsgOf(r) \in Messages /\ runs[r].job \in Job
BY IdleOrWorking DEF MsgOf, Working, Job

\* Execution r, and no other, takes a step with its job, or returns.
Advances(r) ==
  /\ runs[r].pc # "idle"
  /\ \A s \in Runs \ {r} : runs'[s] = runs[s]
  /\ \/ runs'[r] = IdleRun
     \/ /\ runs'[r] \in Working
        /\ runs'[r].job = runs[r].job
        /\ runs'[r].attached = runs[r].attached
  /\ runs' \in [Runs -> RunStates]

LEMMA ReturnAdvances ==
  ASSUME TypeOK, NEW r \in Runs, runs[r].pc # "idle", Return(r)
  PROVE  Advances(r) /\ runs'[r] = IdleRun /\ runs'[r].pc = "idle"
BY RunStatesAre DEF Return, Advances, TypeOK, IdleRun

LEMMA GotoAdvances ==
  ASSUME TypeOK, NEW r \in Runs, runs[r].pc # "idle", NEW pc \in Phases, Goto(r, pc)
  PROVE  /\ Advances(r)
         /\ runs'[r].pc = pc /\ runs'[r].draft = runs[r].draft
         /\ runs'[r].job = runs[r].job /\ runs'[r].attached = runs[r].attached
<1>1. runs[r] \in Working
  BY IdleOrWorking
<1>2. runs' = [runs EXCEPT ![r] = [runs[r] EXCEPT !.pc = pc]] /\ runs \in [Runs -> RunStates]
  BY DEF Goto, TypeOK
<1>3. [runs[r] EXCEPT !.pc = pc] \in Working
  BY <1>1 DEF Working
<1>4. runs'[r] = [runs[r] EXCEPT !.pc = pc] /\ runs'[r] \in Working
  BY <1>2, <1>3
<1>5. /\ runs'[r].pc = pc /\ runs'[r].job = runs[r].job
      /\ runs'[r].attached = runs[r].attached /\ runs'[r].draft = runs[r].draft
  BY <1>1, <1>4 DEF Working
<1> QED  BY <1>2, <1>3, <1>4, <1>5, RunStatesAre DEF Advances

LEMMA PhasesAre ==
  ASSUME NEW pc \in {"reading", "claiming", "composing", "superseding", "finishing",
                     "enriching", "failing"}
  PROVE  pc \in Phases
BY DEF Phases

LEMMA SoloAdvances ==
  ASSUME TypeOK, Solo, NEW r \in Runs, Advances(r), UNCHANGED outlived,
         faults' = faults \/ Fault
  PROVE  Solo'
<1>1. Busy' \subseteq Busy
  BY DEF Busy, BusyIn, Advances
<1>2. IsFiniteSet(Busy')
  BY <1>1, FS_Subset DEF Solo
<1>3. IdleRun.pc = "idle"
  BY DEF IdleRun
<1>4. \A s \in Attached' : s \in Attached
  BY <1>3 DEF Attached, Advances
<1>5. \A s \in Busy' : /\ s \in Busy /\ runs'[s].attached = runs[s].attached
                       /\ MsgOf(s)' = MsgOf(s)
  BY <1>1, <1>3 DEF Busy, BusyIn, Advances, MsgOf
<1>6. faults' = 0 => faults = 0
  BY BoundsAreCounts DEF Fault, TypeOK
<1> QED  BY <1>2, <1>4, <1>5, <1>6 DEF Solo

\* While nothing has gone wrong nobody else is at work.
LEMMA Alone ==
  ASSUME Solo, faults = 0, NEW r \in Busy
  PROVE  r \in Attached /\ Busy = {r} /\ outlived = {}
<1>1. \A s \in Busy : s \in Attached
  BY DEF Solo, Attached, Busy, BusyIn
<1> QED  BY <1>1 DEF Solo

-----------------------------------------------------------------------------
\* The table.

\* No draft disappears or is taken back, and none gets an older one to review.
TableKept ==
  /\ drafts' \in [Drafts -> Row]
  /\ now' \in Nat
  /\ \A d \in Drafts : drafts[d].status # Absent =>
       /\ drafts'[d].status # Absent
       /\ Superseded(drafts', d) \subseteq Superseded(drafts, d)
  /\ \A d \in Drafts : drafts'[d].status # Absent => drafts'[d].createdAt < now'

LEMMA SameTable ==
  ASSUME TypeOK, Answering, UNCHANGED <<drafts, now>>
  PROVE  TableKept
BY DEF TypeOK, Answering, TableKept

\* DraftsOf, of any state of the table.
DraftsIn(table, m) == {d \in Drafts : d[1] = m /\ table[d].status # Absent}

LEMMA CountsAreNumbers ==
  ASSUME NEW m
  PROVE  IsFiniteSet(DraftsOf(m)) /\ Count(m) \in Nat
<1>1. DraftsOf(m) \in SUBSET Drafts
  BY DEF DraftsOf
<1> QED  BY <1>1, DraftsFinite, FS_Subset, FS_CardinalityType DEF Count

\* The number of drafts only depends on which there are.
LEMMA SameDrafts ==
  ASSUME Numbers,
         \A d \in Drafts : drafts'[d].status # Absent <=> drafts[d].status # Absent
  PROVE  Numbers' /\ \A m : DraftsOf(m)' = DraftsOf(m) /\ Count(m)' = Count(m)
<1>1. \A m : DraftsOf(m)' = DraftsOf(m)
  BY DEF DraftsOf
<1>2. \A m : Count(m)' = Count(m)
  BY <1>1 DEF Count
<1> QED  BY <1>1, <1>2 DEF Numbers

\* An insertion adds the draft that comes next.
LEMMA DraftInserted ==
  ASSUME TypeOK, Numbers, Answering, NEW m \in Messages, NEW d \in Drafts,
         d = <<m, Count(m) + 1>>,
         NEW status \in {"DRAFTED", "APPROVED", "REJECTED"}, NEW t \in Nat,
         drafts' = InsertOutboundDraft(drafts, d, status, t, now), now' = now + 1
  PROVE  /\ TableKept /\ Numbers'
         /\ DraftsOf(m)' = DraftsOf(m) \cup {d} /\ Count(m)' = Count(m) + 1
         /\ \A e \in Messages \ {m} : Count(e)' = Count(e)
<1>0. Count(m) \in Nat /\ IsFiniteSet(DraftsOf(m))
  BY CountsAreNumbers
<1>1. /\ drafts' = [drafts EXCEPT ![d] = NewRow(status, t, now)]
      /\ drafts \in [Drafts -> Row] /\ now \in Nat
  BY DEF InsertOutboundDraft, TypeOK
<1>2. /\ drafts'[d].status # Absent /\ drafts'[d].createdAt = now
      /\ \A e \in Drafts \ {d} : drafts'[e] = drafts[e]
      /\ NewRow(status, t, now) \in Row
  BY <1>1 DEF NewRow, Row, OutboundStatus, Absent
<1>3. drafts[d].status = Absent
  <2>1. d[1] = m /\ ~(d[2] <= Count(m))
    BY <1>0
  <2> QED  BY <2>1 DEF Numbers
<1>4. TableKept
  <2>1. drafts' \in [Drafts -> Row] /\ now' \in Nat
    BY <1>1, <1>2
  <2>2. \A e \in Drafts : drafts[e].status # Absent => drafts[e].createdAt < now
    BY DEF Answering
  <2>3. \A e \in Drafts : drafts[e].createdAt \in Nat
    BY <1>1 DEF Row
  <2>4. ASSUME NEW e \in Drafts, drafts[e].status # Absent
        PROVE  /\ drafts'[e].status # Absent
               /\ Superseded(drafts', e) \subseteq Superseded(drafts, e)
    <3>1. e # d /\ drafts'[e] = drafts[e] /\ drafts[e].createdAt < now
      BY <1>2, <1>3, <2>2, <2>4
    <3>2. d \notin Superseded(drafts', e)
      BY <1>1, <1>2, <2>3, <3>1 DEF Superseded
    <3>3. \A x \in Superseded(drafts', e) : x \in Superseded(drafts, e)
      BY <1>2, <3>1, <3>2 DEF Superseded
    <3> QED  BY <2>4, <3>1, <3>3
  <2>5. \A e \in Drafts : drafts'[e].status # Absent => drafts'[e].createdAt < now'
    BY <1>1, <1>2, <2>2, <2>3
  <2> QED  BY <2>1, <2>4, <2>5 DEF TableKept
<1>5. DraftsOf(m)' = DraftsOf(m) \cup {d} /\ d \notin DraftsOf(m)
  BY <1>2, <1>3 DEF DraftsOf
<1>6. Count(m)' = Count(m) + 1
  BY <1>0, <1>5, FS_AddElement DEF Count
<1>7. \A e \in Messages \ {m} : Count(e)' = Count(e)
  <2>1. \A e \in Messages \ {m} : DraftsOf(e)' = DraftsOf(e)
    BY <1>2 DEF DraftsOf
  <2> QED  BY <2>1 DEF Count
<1>8. Numbers'
  <2> SUFFICES ASSUME NEW e \in Messages, NEW x \in Drafts, x[1] = e
               PROVE  drafts'[x].status # Absent <=> x[2] <= Count(e)'
    BY DEF Numbers
  <2>1. drafts[x].status # Absent <=> x[2] <= Count(e)
    BY DEF Numbers
  <2>2. CASE e # m
    BY <1>2, <1>7, <2>1, <2>2
  <2>3. CASE e = m
    <3>1. x = <<m, x[2]>> /\ x[2] \in Nat
      BY <2>3, DraftsAreNumbered, BoundsAreCounts
    <3>2. x = d <=> x[2] = Count(m) + 1
      BY <3>1
    <3>3. CASE x = d
      BY <1>0, <1>2, <1>6, <2>3, <3>2, <3>3
    <3>4. CASE x # d
      BY <1>0, <1>2, <1>6, <2>1, <2>3, <3>1, <3>2, <3>4
    <3> QED  BY <3>3, <3>4
  <2> QED  BY <2>2, <2>3
<1> QED  BY <1>4, <1>5, <1>6, <1>7, <1>8

\* A supersession rejects drafts and leaves none older than the one it keeps.
LEMMA DraftsSuperseded ==
  ASSUME TypeOK, Answering, NEW keep \in Drafts, UNCHANGED now,
         drafts' = RejectSupersededDraftsForThread(drafts, keep)
  PROVE  /\ TableKept /\ Superseded(drafts', keep) = {}
         /\ \A d \in Drafts : drafts'[d].status # Absent <=> drafts[d].status # Absent
<1> DEFINE S == Superseded(drafts, keep)
<1>0. drafts \in [Drafts -> Row]
  BY DEF TypeOK
<1>1. drafts' = [d \in Drafts |-> IF d \in S THEN Rejected(drafts[d]) ELSE drafts[d]]
  BY DEF RejectSupersededDraftsForThread
<1>2. \A d \in Drafts : d \in S => drafts[d].status = "DRAFTED"
  BY DEF Superseded
<1>3. \A row \in Row : /\ Rejected(row) \in Row /\ Rejected(row).status = "REJECTED"
                       /\ Rejected(row).createdAt = row.createdAt
  BY DEF Rejected, Row, OutboundStatus
<1> HIDE DEF S
<1>4. \A d \in Drafts : /\ drafts'[d] \in Row
                        /\ drafts'[d].createdAt = drafts[d].createdAt
                        /\ d \in S => drafts'[d].status = "REJECTED"
                        /\ d \notin S => drafts'[d] = drafts[d]
  BY <1>0, <1>1, <1>3
<1>5. \A d \in Drafts : drafts'[d].status # Absent <=> drafts[d].status # Absent
  BY <1>2, <1>4 DEF Absent
<1>6. \A d, e \in Drafts : e \in Superseded(drafts', d) => e \in Superseded(drafts, d) /\ e \notin S
  BY <1>2, <1>4 DEF Superseded
<1>7. \A d \in Drafts : Superseded(drafts', d) \subseteq Superseded(drafts, d)
  BY <1>6 DEF Superseded
<1>8. Superseded(drafts', keep) = {}
  <2>1. \A e \in Superseded(drafts', keep) : e \in Drafts
    BY DEF Superseded
  <2> QED  BY <1>6, <2>1 DEF S
<1>9. drafts' \in [Drafts -> Row]
  BY <1>1, <1>4
<1>10. TableKept
  BY <1>4, <1>5, <1>7, <1>9 DEF TableKept, TypeOK, Answering
<1> QED  BY <1>5, <1>8, <1>10

-----------------------------------------------------------------------------
\* The budget of drafts.

LEMMA SharesAreCounts ==
  ASSUME NEW run, NEW m
  PROVE  ShareOf(run, m) \in 0..2
BY DEF ShareOf

OwedBesides(table, r, m) == {p \in OwedIn(table, m) : p[1] # r}

LEMMA OwedIsFinite ==
  ASSUME NEW table, IsFiniteSet(BusyIn(table)), NEW m
  PROVE  IsFiniteSet(OwedIn(table, m)) /\ Cardinality(OwedIn(table, m)) \in Nat
<1>1. IsFiniteSet(1..2)
  <2>1. \A a, b \in Int : IsFiniteSet(a..b)
    BY FS_Interval
  <2>2. 1 \in Int /\ 2 \in Int
    OBVIOUS
  <2> QED  BY <2>1, <2>2
<1>2. IsFiniteSet(BusyIn(table) \X (1..2))
  BY <1>1, FS_Product
<1>3. OwedIn(table, m) \in SUBSET (BusyIn(table) \X (1..2))
  BY DEF OwedIn
<1> QED  BY <1>2, <1>3, FS_Subset, FS_CardinalityType

LEMMA PairsCount ==
  ASSUME NEW r, NEW k \in Nat
  PROVE  IsFiniteSet({r} \X (1..k)) /\ Cardinality({r} \X (1..k)) = k
<1>1. IsFiniteSet({r}) /\ Cardinality({r}) = 1
  BY FS_Singleton
<1>2. IsFiniteSet(1..k) /\ Cardinality(1..k) = k
  BY FS_Interval
<1>3. /\ IsFiniteSet({r} \X (1..k))
      /\ Cardinality({r} \X (1..k)) = Cardinality({r}) * Cardinality(1..k)
  BY <1>1, <1>2, FS_Product, Zenon
<1> QED  BY <1>1, <1>2, <1>3

LEMMA OwedSplits ==
  ASSUME NEW table \in [Runs -> RunStates], IsFiniteSet(BusyIn(table)),
         NEW r \in Runs, NEW m \in Messages
  PROVE  /\ Cardinality(OwedBesides(table, r, m)) \in Nat
         /\ Cardinality(OwedIn(table, m))
              = Cardinality(OwedBesides(table, r, m)) + ShareOf(table[r], m)
<1> DEFINE k == ShareOf(table[r], m)
           mine == {r} \X (1..k)
<1>1. k \in Nat /\ k <= 2
  BY SharesAreCounts
<1>2. IsFiniteSet(OwedIn(table, m))
  BY OwedIsFinite
<1>3. IsFiniteSet(OwedBesides(table, r, m)) /\ Cardinality(OwedBesides(table, r, m)) \in Nat
  <2>1. OwedBesides(table, r, m) \in SUBSET OwedIn(table, m)
    BY DEF OwedBesides
  <2> QED  BY <1>2, <2>1, FS_Subset, FS_CardinalityType
<1>4. IsFiniteSet(mine) /\ Cardinality(mine) = k
  BY <1>1, PairsCount
<1>5. OwedIn(table, m) = OwedBesides(table, r, m) \cup mine
  <2>1. ASSUME NEW p, p \in OwedIn(table, m) PROVE p \in OwedBesides(table, r, m) \cup mine
    <3>1. p \in BusyIn(table) \X (1..2) /\ p[2] <= ShareOf(table[p[1]], m)
      BY <2>1 DEF OwedIn
    <3>2. CASE p[1] = r
      <4>1. p = <<r, p[2]>> /\ p[2] \in 1..k
        BY <1>1, <3>1, <3>2
      <4> QED  BY <4>1
    <3>3. CASE p[1] # r
      BY <2>1, <3>3 DEF OwedBesides
    <3> QED  BY <3>2, <3>3
  <2>2. ASSUME NEW p, p \in mine PROVE p \in OwedIn(table, m)
    <3>1. p = <<r, p[2]>> /\ p[2] \in 1..k
      BY <2>2
    <3>2. table[r].pc # "idle"
      BY <1>1, <3>1 DEF ShareOf
    <3>3. p[1] = r /\ p[2] \in 1..2 /\ r \in BusyIn(table) /\ p[2] <= k
      BY <1>1, <3>1, <3>2 DEF BusyIn
    <3>4. p \in BusyIn(table) \X (1..2)
      BY <3>1, <3>3
    <3> QED  BY <3>3, <3>4 DEF OwedIn
  <2> QED  BY <2>1, <2>2 DEF OwedBesides
<1>6. OwedBesides(table, r, m) \cap mine = {}
  BY DEF OwedBesides
<1>7. Cardinality({}) = 0
  BY FS_EmptySet
<1> HIDE DEF mine, k
<1>8. Cardinality(OwedIn(table, m)) = Cardinality(OwedBesides(table, r, m)) + k - 0
  BY <1>3, <1>4, <1>5, <1>6, <1>7, FS_Union
<1> QED  BY <1>1, <1>3, <1>8 DEF k

\* What the step of one execution adds, to the drafts or to what may be drafted,
\* is paid by a fault.
LEMMA BudgetKept ==
  ASSUME TypeOK, TypeOK', Solo, Solo', Budgeted, NEW r \in Runs,
         \A s \in Runs \ {r} : runs'[s] = runs[s],
         faults' \in {faults, faults + 1},
         \A m \in Messages :
           Count(m)' + ShareOf(runs'[r], m) + Credit(m)'
             <= Count(m) + ShareOf(runs[r], m) + Credit(m)
                  + (IF faults' = faults THEN 0 ELSE 2)
  PROVE  Budgeted'
<1> SUFFICES ASSUME NEW m \in Messages
             PROVE  Count(m)' + Cardinality(Owed(m)') + Credit(m)' <= 1 + 2 * faults'
  BY DEF Budgeted
<1>0. /\ runs \in [Runs -> RunStates] /\ IsFiniteSet(BusyIn(runs))
      /\ runs' \in [Runs -> RunStates] /\ IsFiniteSet(BusyIn(runs'))
  BY DEF TypeOK, Solo, Busy
<1>1. /\ Cardinality(OwedBesides(runs, r, m)) \in Nat
      /\ Cardinality(Owed(m)) = Cardinality(OwedBesides(runs, r, m)) + ShareOf(runs[r], m)
  BY <1>0, OwedSplits DEF Owed
<1>2. Cardinality(Owed(m)') = Cardinality(OwedBesides(runs', r, m)) + ShareOf(runs'[r], m)
  BY <1>0, OwedSplits DEF Owed
<1>3. OwedBesides(runs', r, m) = OwedBesides(runs, r, m)
  <2>1. \A p \in BusyIn(runs) \X (1..2) : p[1] \in Runs
    BY DEF BusyIn
  <2>2. \A p \in BusyIn(runs') \X (1..2) : p[1] \in Runs
    BY DEF BusyIn
  <2>3. \A s \in Runs \ {r} :
          (s \in BusyIn(runs') <=> s \in BusyIn(runs)) /\ ShareOf(runs'[s], m) = ShareOf(runs[s], m)
    BY DEF BusyIn
  <2>4. \A p \in BusyIn(runs') \X (1..2) : p[1] # r => p \in BusyIn(runs) \X (1..2)
    BY <2>2, <2>3
  <2>5. \A p \in BusyIn(runs) \X (1..2) : p[1] # r => p \in BusyIn(runs') \X (1..2)
    BY <2>1, <2>3
  <2> QED  BY <2>1, <2>2, <2>3, <2>4, <2>5 DEF OwedBesides, OwedIn
<1>4. /\ Count(m) \in Nat /\ Count(m)' \in Nat /\ faults \in Nat /\ faults' \in Nat
      /\ Credit(m) \in Nat /\ Credit(m)' \in Nat
  <2>1. Count(m) \in Nat
    BY CountsAreNumbers
  <2>2. Count(m)' \in Nat
    <3>1. DraftsOf(m)' \in SUBSET Drafts
      BY DEF DraftsOf
    <3> QED  BY <3>1, DraftsFinite, FS_Subset, FS_CardinalityType DEF Count
  <2> QED  BY <2>1, <2>2, BoundsAreCounts DEF TypeOK, Credit
<1>5. ShareOf(runs[r], m) \in 0..2 /\ ShareOf(runs'[r], m) \in 0..2
  BY SharesAreCounts
<1>6. Count(m) + Cardinality(Owed(m)) + Credit(m) <= 1 + 2 * faults
  BY DEF Budgeted
<1>7. Count(m)' + ShareOf(runs'[r], m) + Credit(m)'
        <= Count(m) + ShareOf(runs[r], m) + Credit(m)
             + (IF faults' = faults THEN 0 ELSE 2)
  OBVIOUS
<1> QED  BY <1>1, <1>2, <1>3, <1>4, <1>5, <1>6, <1>7

LEMMA OpenElsewhere ==
  ASSUME NEW r \in Runs, Advances(r), NEW m \in Messages,
         MsgOf(r) # m \/ ~runs[r].attached,
         inbound'[m] \in Settled \/ (inbound[m] \notin Settled)
  PROVE  Open(m)' => Open(m)
<1>1. IdleRun.pc = "idle"
  BY DEF IdleRun
<1>2. \A s \in Runs : s # r => (s \in Attached' <=> s \in Attached) /\ runs'[s] = runs[s]
  BY DEF Advances, Attached
<1>3. r \in Attached' => r \in Attached /\ MsgOf(r)' = MsgOf(r)
  BY <1>1 DEF Advances, Attached, MsgOf
<1>4. r \in Attached => MsgOf(r) # m
  BY DEF Attached
<1> QED  BY <1>2, <1>3, <1>4 DEF Open, Attached, MsgOf

\* Whether a message is open depends on the execution that has its job.
OpenFor(run, status) ==
  \/ run.pc \in {"claiming", "composing"}
  \/ /\ status \notin Settled
     /\ run.pc \notin {"superseding", "finishing", "failing"}

LEMMA OpenHere ==
  ASSUME TypeOK, Solo, Solo', NEW r \in Runs, Advances(r), runs[r].attached,
         NEW m \in Messages, m = MsgOf(r)
  PROVE  /\ Open(m) <=> OpenFor(runs[r], inbound[m])
         /\ runs'[r].pc = "idle" => (Open(m)' <=> inbound'[m] \notin Settled)
         /\ runs'[r].pc # "idle" => (Open(m)' <=> OpenFor(runs'[r], inbound'[m]))
<1>0. r \in Attached
  BY DEF Advances, Attached
<1>1. Open(m) <=> OpenFor(runs[r], inbound[m])
  <2>1. \A s \in Attached : s = r
    BY <1>0 DEF Solo
  <2> QED  BY <1>0, <2>1 DEF Open, OpenFor, MsgOf
<1>2. ASSUME runs'[r].pc = "idle"
      PROVE  Open(m)' <=> inbound'[m] \notin Settled
  <2>1. \A s \in Attached' : s \in Attached /\ s # r
    BY <1>2 DEF Attached, Advances
  <2>2. \A s \in Attached' : FALSE
    BY <1>0, <2>1 DEF Solo
  <2> QED  BY <2>2 DEF Open
<1>3. ASSUME runs'[r].pc # "idle"
      PROVE  Open(m)' <=> OpenFor(runs'[r], inbound'[m])
  <2>1. runs'[r].job = runs[r].job /\ runs'[r].attached
    <3>1. runs'[r] # IdleRun
      BY <1>3 DEF IdleRun
    <3> QED  BY <3>1, Zenon DEF Advances
  <2>2. r \in Attached' /\ runs'[r].job.msg = m
    BY <1>3, <2>1 DEF Attached, MsgOf
  <2>3. \A s \in Attached' : s = r
    BY <2>2 DEF Solo
  <2> QED  BY <2>2, <2>3 DEF Open, OpenFor, MsgOf
<1> QED  BY <1>1, <1>2, <1>3

\* The message an execution works on decides.
LEMMA BudgetHere ==
  ASSUME TypeOK, TypeOK', Solo, Solo', Budgeted, NEW r \in Runs, Advances(r),
         NEW n \in Messages, n = MsgOf(r),
         faults' \in {faults, faults + 1},
         \A m \in Messages \ {n} : Count(m)' = Count(m) /\ inbound'[m] = inbound[m],
         Count(n)' + ShareOf(runs'[r], n) + Credit(n)'
           <= Count(n) + ShareOf(runs[r], n) + Credit(n)
                + (IF faults' = faults THEN 0 ELSE 2)
  PROVE  Budgeted'
<1>1. ASSUME NEW m \in Messages \ {n}
      PROVE  Count(m)' + ShareOf(runs'[r], m) + Credit(m)'
               <= Count(m) + ShareOf(runs[r], m) + Credit(m)
                    + (IF faults' = faults THEN 0 ELSE 2)
  <2>1. ShareOf(runs'[r], m) = 0 /\ ShareOf(runs[r], m) = 0
    BY DEF ShareOf, Advances, MsgOf, IdleRun
  <2>2. Open(m)' => Open(m)
    BY OpenElsewhere
  <2>3. Credit(m)' <= Credit(m) /\ Credit(m) \in Nat /\ Credit(m)' \in Nat
    BY <2>2 DEF Credit
  <2>4. Count(m)' = Count(m) /\ Count(m) \in Nat
    BY CountsAreNumbers
  <2> QED  BY <2>1, <2>3, <2>4
<1>2. \A s \in Runs \ {r} : runs'[s] = runs[s]
  BY DEF Advances
<1>3. \A m \in Messages :
        Count(m)' + ShareOf(runs'[r], m) + Credit(m)'
          <= Count(m) + ShareOf(runs[r], m) + Credit(m)
               + (IF faults' = faults THEN 0 ELSE 2)
  <2>1. \A m \in Messages : m = n \/ m \in Messages \ {n}
    OBVIOUS
  <2> QED  BY <1>1, <2>1
<1> QED  BY <1>2, <1>3, BudgetKept

-----------------------------------------------------------------------------
\* Enrichments.

\* An execution counts for the message it has drafted.
EnrichesOf(run, m) == IF Enriches(run, m) THEN 1 ELSE 0

LEMMA EnrichingSplits ==
  ASSUME NEW table, IsFiniteSet(BusyIn(table)), NEW r \in Runs, NEW m
  PROVE  /\ IsFiniteSet(EnrichingIn(table, m)) /\ IsFiniteSet(EnrichingIn(table, m) \ {r})
         /\ Cardinality(EnrichingIn(table, m) \ {r}) \in Nat
         /\ Cardinality(EnrichingIn(table, m))
              = Cardinality(EnrichingIn(table, m) \ {r}) + EnrichesOf(table[r], m)
<1>1. IsFiniteSet(EnrichingIn(table, m))
  <2>1. EnrichingIn(table, m) \in SUBSET BusyIn(table)
    BY DEF EnrichingIn
  <2> QED  BY <2>1, FS_Subset
<1>2. r \in EnrichingIn(table, m) <=> Enriches(table[r], m)
  BY DEF EnrichingIn, Enriches, BusyIn
<1>3. /\ IsFiniteSet(EnrichingIn(table, m) \ {r})
      /\ Cardinality(EnrichingIn(table, m) \ {r})
           = IF r \in EnrichingIn(table, m) THEN Cardinality(EnrichingIn(table, m)) - 1
             ELSE Cardinality(EnrichingIn(table, m))
  BY <1>1, FS_RemoveElement
<1>4. /\ Cardinality(EnrichingIn(table, m)) \in Nat
      /\ Cardinality(EnrichingIn(table, m) \ {r}) \in Nat
  BY <1>1, <1>3, FS_CardinalityType
<1> QED  BY <1>1, <1>2, <1>3, <1>4 DEF EnrichesOf

\* The step of one execution keeps what covers the enrichments.
LEMMA CoverKept ==
  ASSUME TypeOK, TypeOK', Solo, Solo', Covered, NEW r \in Runs,
         \A s \in Runs \ {r} : runs'[s] = runs[s],
         \A m \in Messages :
           enrich'[m] + EnrichesOf(runs'[r], m) + Count(m)
             <= enrich[m] + EnrichesOf(runs[r], m) + Count(m)'
  PROVE  Covered'
<1> SUFFICES ASSUME NEW m \in Messages
             PROVE  enrich'[m] + Cardinality(Enriching(m)') <= Count(m)'
  BY DEF Covered
<1>0. IsFiniteSet(BusyIn(runs)) /\ IsFiniteSet(BusyIn(runs'))
  BY DEF Solo, Busy
<1>1. /\ Cardinality(EnrichingIn(runs, m) \ {r}) \in Nat
      /\ Cardinality(Enriching(m))
           = Cardinality(EnrichingIn(runs, m) \ {r}) + EnrichesOf(runs[r], m)
  BY <1>0, EnrichingSplits DEF Enriching
<1>2. Cardinality(Enriching(m)')
        = Cardinality(EnrichingIn(runs', m) \ {r}) + EnrichesOf(runs'[r], m)
  BY <1>0, EnrichingSplits DEF Enriching
<1>3. EnrichingIn(runs', m) \ {r} = EnrichingIn(runs, m) \ {r}
  BY DEF EnrichingIn, BusyIn
<1>4. Count(m) \in Nat /\ Count(m)' \in Nat /\ enrich[m] \in Nat /\ enrich'[m] \in Nat
  <2>1. Count(m) \in Nat
    BY CountsAreNumbers
  <2>2. Count(m)' \in Nat
    <3>1. DraftsOf(m)' \in SUBSET Drafts
      BY DEF DraftsOf
    <3> QED  BY <3>1, DraftsFinite, FS_Subset, FS_CardinalityType DEF Count
  <2> QED  BY <2>1, <2>2 DEF TypeOK
<1>5. EnrichesOf(runs[r], m) \in Nat /\ EnrichesOf(runs'[r], m) \in Nat
  BY DEF EnrichesOf
<1>6. enrich[m] + Cardinality(Enriching(m)) <= Count(m)
  BY DEF Covered
<1>7. enrich'[m] + EnrichesOf(runs'[r], m) + Count(m)
        <= enrich[m] + EnrichesOf(runs[r], m) + Count(m)'
  OBVIOUS
<1>8. ASSUME NEW a \in Nat, NEW b \in Nat, NEW e \in Nat, NEW f \in Nat,
             NEW c \in Nat, NEW d \in Nat, NEW others \in Nat,
             e + (others + a) <= c, f + b + c <= e + a + d
      PROVE  f + (others + b) <= d
  BY <1>8
<1>9. enrich'[m] + (Cardinality(EnrichingIn(runs, m) \ {r}) + EnrichesOf(runs'[r], m)) <= Count(m)'
  BY <1>1, <1>4, <1>5, <1>6, <1>7, <1>8
<1> QED  BY <1>2, <1>3, <1>9

-----------------------------------------------------------------------------
\* What the step of one execution keeps.

LEMMA QueuesStay ==
  ASSUME NEW queue \in Queues, NEW job \in Job
  PROVE  /\ Put(queue, job) \in Queues /\ Retry(queue, job) \in Queues
         /\ queue[job] > 0 => Take(queue, job) \in Queues
<1>1. \A j \in Job : Put(queue, j) \in Queues
  BY DEF Queues, Put
<1>2. job.tries < RetryLimit => [job EXCEPT !.tries = job.tries + 1] \in Job
  BY RetryLimitIsNat DEF Job
<1>3. queue[job] > 0 => Take(queue, job) \in Queues
  BY DEF Queues, Take
<1> QED  BY <1>1, <1>2, <1>3 DEF Retry

LEMMA NewJobIsJob == \A m \in Messages : NewJob(m) \in Job
BY RetryLimitIsNat DEF NewJob, Job

LEMMA TypeKept ==
  ASSUME TypeOK, NEW r \in Runs, Advances(r),
         UNCHANGED <<posting, listed, orphaned, outlived, sweeps>>,
         inbound' \in [Messages -> InboundStatus], enrich' \in [Messages -> Nat],
         TableKept, waiting' \in Queues, faults' = faults \/ Fault
  PROVE  TypeOK' /\ faults' \in {faults, faults + 1} /\ faults \in Nat
<1>1. runs' \in [Runs -> RunStates] /\ drafts' \in [Drafts -> Row] /\ now' \in Nat
  BY DEF Advances, TableKept
<1>2. faults' \in 0..MaxFaults /\ faults' \in {faults, faults + 1} /\ faults \in Nat
  BY BoundsAreCounts DEF TypeOK, Fault
<1>3. /\ posting' \subseteq Messages /\ listed' \subseteq Messages /\ orphaned' \in Queues
      /\ outlived' \subseteq Messages /\ sweeps' \in 0..MaxSweeps
  BY DEF TypeOK
<1> QED  BY <1>1, <1>2, <1>3 DEF TypeOK

LEMMA UnsettledKept ==
  ASSUME TypeOK, Solo, Unsettled, NEW r \in Runs, Advances(r), UNCHANGED outlived,
         \A m \in Messages \ {MsgOf(r)} : inbound'[m] = inbound[m],
         /\ runs'[r].pc \in {"claiming", "composing", "superseding", "finishing"}
         /\ MsgOf(r) \notin outlived
         => inbound'[MsgOf(r)] \in {"PENDING", "PROCESSING"}
  PROVE  Unsettled'
<1> SUFFICES ASSUME NEW s \in Busy',
                    runs'[s].pc \in {"claiming", "composing", "superseding", "finishing"},
                    runs'[s].job.msg \notin outlived
             PROVE  inbound'[runs'[s].job.msg] \in {"PENDING", "PROCESSING"}
  BY DEF Unsettled, MsgOf
<1>1. CASE s = r
  <2>1. runs'[r].job = runs[r].job
    BY <1>1 DEF Busy, BusyIn, Advances, IdleRun
  <2> QED  BY <1>1, <2>1 DEF MsgOf
<1>2. CASE s # r
  <2>1. s \in Busy /\ runs'[s] = runs[s] /\ s \in Runs
    BY <1>2 DEF Busy, BusyIn, Advances
  <2>2. runs[s].job.msg \in Messages
    BY <2>1, MessageOfRun DEF Busy, BusyIn, MsgOf
  <2>3. inbound[runs[s].job.msg] \in {"PENDING", "PROCESSING"}
    BY <2>1 DEF Unsettled, MsgOf
  <2>4. runs[s].job.msg # runs[r].job.msg
    <3> SUFFICES ASSUME runs[s].job.msg = runs[r].job.msg PROVE FALSE
      OBVIOUS
    <3>1. s \in Attached /\ r \in Attached
      BY <2>1 DEF Solo, Attached, Advances, Busy, BusyIn, MsgOf
    <3> QED  BY <1>2, <3>1 DEF Solo
  <2> QED  BY <2>1, <2>2, <2>3, <2>4 DEF MsgOf
<1> QED  BY <1>1, <1>2

\* An answer once stored stays one.
LEMMA AnsweringKept ==
  ASSUME TypeOK, Answering, TableKept, NEW r \in Runs, Advances(r),
         NEW n \in Messages, n = MsgOf(r),
         runs'[r].pc \in {"superseding", "finishing", "enriching"} =>
           runs'[r].draft \in DraftsOf(n)',
         runs'[r].pc \in {"finishing", "enriching"} =>
           Superseded(drafts', runs'[r].draft) = {},
         \A m \in Messages : inbound'[m] = "DONE" =>
           \/ inbound[m] = "DONE"
           \/ \E d \in DraftsOf(m)' : Superseded(drafts', d) = {}
  PROVE  Answering'
<1>0. \A m : DraftsOf(m) = DraftsIn(drafts, m) /\ DraftsOf(m)' = DraftsIn(drafts', m)
  BY DEF DraftsOf, DraftsIn
<1>1. \A m, d : d \in DraftsIn(drafts, m) =>
        d \in DraftsIn(drafts', m) /\ Superseded(drafts', d) \subseteq Superseded(drafts, d)
  BY DEF TableKept, DraftsIn
<1>2. \A d \in Drafts : drafts'[d].status # Absent => drafts'[d].createdAt < now'
  BY DEF TableKept
<1>3. ASSUME NEW s \in Busy'
      PROVE  /\ runs'[s].pc \in {"superseding", "finishing", "enriching"} =>
                  runs'[s].draft \in DraftsIn(drafts', runs'[s].job.msg)
             /\ runs'[s].pc \in {"finishing", "enriching"} =>
                  Superseded(drafts', runs'[s].draft) = {}
  <2>1. CASE s = r
    <3>1. runs'[r].job = runs[r].job
      BY <1>3, <2>1 DEF Busy, BusyIn, Advances, IdleRun
    <3> QED  BY <1>0, <2>1, <3>1 DEF MsgOf
  <2>2. CASE s # r
    <3>1. s \in Busy /\ runs'[s] = runs[s]
      BY <1>3, <2>2 DEF Busy, BusyIn, Advances
    <3>2. /\ runs[s].pc \in {"superseding", "finishing", "enriching"} =>
               runs[s].draft \in DraftsIn(drafts, runs[s].job.msg)
          /\ runs[s].pc \in {"finishing", "enriching"} =>
               Superseded(drafts, runs[s].draft) = {}
      BY <1>0, <3>1 DEF Answering, MsgOf
    <3> QED  BY <1>1, <3>1, <3>2
  <2> QED  BY <2>1, <2>2
<1>4. \A m \in Messages : inbound'[m] = "DONE" =>
        \E d \in DraftsIn(drafts', m) : Superseded(drafts', d) = {}
  <2> SUFFICES ASSUME NEW m \in Messages, inbound'[m] = "DONE", inbound[m] = "DONE"
               PROVE  \E d \in DraftsIn(drafts', m) : Superseded(drafts', d) = {}
    BY <1>0
  <2>1. PICK d \in DraftsIn(drafts, m) : Superseded(drafts, d) = {}
    BY <1>0 DEF Answering, DoneIsAnswered
  <2> QED  BY <1>1, <2>1
<1>5. DoneIsAnswered'
  BY <1>0, <1>4 DEF DoneIsAnswered
<1>6. \A s \in Busy' :
        /\ runs'[s].pc \in {"superseding", "finishing", "enriching"} =>
             runs'[s].draft \in DraftsOf(MsgOf(s))'
        /\ runs'[s].pc \in {"finishing", "enriching"} =>
             Superseded(drafts', runs'[s].draft) = {}
  BY <1>3 DEF DraftsOf, DraftsIn, MsgOf
<1> QED  BY <1>2, <1>5, <1>6 DEF Answering

\* While nothing goes wrong an execution is alone and brings its message from
\* the claim to the enrichment.
LEMMA FaultlessKept ==
  ASSUME TypeOK, Solo, Faultless, NEW r \in Runs, Advances(r), NEW n \in Messages, n = MsgOf(r),
         faults' = faults \/ Fault,
         \A m \in Messages \ {n} : inbound'[m] = inbound[m] /\ enrich'[m] = enrich[m],
         faults = 0 /\ faults' = 0 =>
           /\ inbound'[n] # "DONE" => enrich'[n] = 0
           /\ inbound'[n] = "DONE" => enrich'[n] = 1 \/ runs'[r].pc = "enriching"
           /\ runs'[r].pc = "failing" => inbound'[n] \notin Settled
           /\ runs'[r].pc = "enriching" => inbound'[n] = "DONE" /\ enrich'[n] = 0
  PROVE  Faultless'
<1>0. faults' = 0 => faults = 0
  BY BoundsAreCounts DEF TypeOK, Fault
<1> SUFFICES ASSUME faults' = 0, faults = 0
             PROVE  /\ \A m \in Messages :
                         /\ inbound'[m] # "DONE" => enrich'[m] = 0
                         /\ inbound'[m] = "DONE" =>
                              \/ enrich'[m] = 1
                              \/ \E s \in Busy' : runs'[s].pc = "enriching" /\ runs'[s].job.msg = m
                    /\ \A s \in Busy' :
                         /\ runs'[s].pc = "failing" => inbound'[runs'[s].job.msg] \notin Settled
                         /\ runs'[s].pc = "enriching" =>
                              inbound'[runs'[s].job.msg] = "DONE" /\ enrich'[runs'[s].job.msg] = 0
  BY <1>0 DEF Faultless, MsgOf
<1>1. r \in Busy /\ Busy = {r}
  <2>1. r \in Busy
    BY DEF Busy, BusyIn, Advances
  <2> QED  BY <2>1, Alone
<1>2. \A s \in Busy' : s = r /\ runs'[r].job = runs[r].job
  BY <1>1 DEF Busy, BusyIn, Advances, IdleRun
<1>3. runs'[r].pc = "enriching" => r \in Busy' /\ runs'[r].job.msg = n
  BY DEF Busy, BusyIn, Advances, IdleRun, MsgOf
<1>4. ASSUME NEW m \in Messages \ {n}
      PROVE  /\ inbound'[m] # "DONE" => enrich'[m] = 0
             /\ inbound'[m] = "DONE" => enrich'[m] = 1
  BY <1>1 DEF Faultless
<1> QED  BY <1>2, <1>3, <1>4 DEF MsgOf

\* The invariant, from what an execution does to the message it works on.
LEMMA RunKeeps ==
  ASSUME IInv, NEW r \in Runs, Advances(r), NEW n \in Messages, n = MsgOf(r),
         UNCHANGED <<posting, listed, orphaned, outlived, sweeps>>,
         waiting' \in Queues, faults' = faults \/ Fault,
         inbound' \in [Messages -> InboundStatus], enrich' \in [Messages -> Nat],
         \A m \in Messages \ {n} :
           inbound'[m] = inbound[m] /\ enrich'[m] = enrich[m] /\ Count(m)' = Count(m),
         TableKept, Numbers',
         /\ runs'[r].pc \in {"claiming", "composing", "superseding", "finishing"}
         /\ n \notin outlived
         => inbound'[n] \in {"PENDING", "PROCESSING"},
         runs'[r].pc \in {"superseding", "finishing", "enriching"} =>
           runs'[r].draft \in DraftsOf(n)',
         runs'[r].pc \in {"finishing", "enriching"} =>
           Superseded(drafts', runs'[r].draft) = {},
         inbound'[n] = "DONE" =>
           \/ inbound[n] = "DONE"
           \/ \E d \in DraftsOf(n)' : Superseded(drafts', d) = {},
         Count(n)' + ShareOf(runs'[r], n) + Credit(n)'
           <= Count(n) + ShareOf(runs[r], n) + Credit(n)
                + (IF faults' = faults THEN 0 ELSE 2),
         enrich'[n] + EnrichesOf(runs'[r], n) + Count(n)
           <= enrich[n] + EnrichesOf(runs[r], n) + Count(n)',
         faults = 0 /\ faults' = 0 =>
           /\ inbound'[n] # "DONE" => enrich'[n] = 0
           /\ inbound'[n] = "DONE" => enrich'[n] = 1 \/ runs'[r].pc = "enriching"
           /\ runs'[r].pc = "failing" => inbound'[n] \notin Settled
           /\ runs'[r].pc = "enriching" => inbound'[n] = "DONE" /\ enrich'[n] = 0
  PROVE  IInv'
<1>0. TypeOK /\ Solo /\ Unsettled /\ Answering /\ Budgeted /\ Covered /\ Faultless
  BY DEF IInv
<1>1. TypeOK' /\ faults' \in {faults, faults + 1}
  BY <1>0, TypeKept
<1>2. Solo'
  BY <1>0, SoloAdvances
<1>3. Unsettled'
  BY <1>0, UnsettledKept
<1>4. Answering'
  <2>1. \A m \in Messages : inbound'[m] = "DONE" =>
          \/ inbound[m] = "DONE"
          \/ \E d \in DraftsOf(m)' : Superseded(drafts', d) = {}
    <3>1. CASE inbound'[n] = "DONE" /\ inbound[n] # "DONE"
      <4>1. PICK d \in DraftsOf(n)' : Superseded(drafts', d) = {}
        BY <3>1
      <4> QED  BY <4>1
    <3>2. CASE ~(inbound'[n] = "DONE" /\ inbound[n] # "DONE")
      BY <3>2
    <3> QED  BY <3>1, <3>2
  <2> QED  BY <1>0, <2>1, AnsweringKept
<1>5. Budgeted'
  BY <1>0, <1>1, <1>2, BudgetHere
<1>6. Covered'
  <2>1. ASSUME NEW m \in Messages \ {n}
        PROVE  enrich'[m] + EnrichesOf(runs'[r], m) + Count(m)
                 <= enrich[m] + EnrichesOf(runs[r], m) + Count(m)'
    <3>1. EnrichesOf(runs'[r], m) = 0 /\ EnrichesOf(runs[r], m) = 0
      BY DEF EnrichesOf, Enriches, Advances, MsgOf, IdleRun
    <3>2. enrich[m] \in Nat /\ Count(m) \in Nat /\ enrich'[m] = enrich[m] /\ Count(m)' = Count(m)
      BY <1>0, CountsAreNumbers DEF TypeOK
    <3> QED  BY <3>1, <3>2
  <2>2. \A m \in Messages : m = n \/ m \in Messages \ {n}
    OBVIOUS
  <2>3. \A m \in Messages :
          enrich'[m] + EnrichesOf(runs'[r], m) + Count(m)
            <= enrich[m] + EnrichesOf(runs[r], m) + Count(m)'
    BY <2>1, <2>2
  <2>4. \A s \in Runs \ {r} : runs'[s] = runs[s]
    BY DEF Advances
  <2> QED  BY <1>0, <1>1, <1>2, <2>3, <2>4, CoverKept
<1>7. Faultless'
  BY <1>0, FaultlessKept
<1> QED  BY <1>1, <1>2, <1>3, <1>4, <1>5, <1>6, <1>7 DEF IInv

\* A message is not opened by an execution that does not bring it back.
LEMMA CreditKept ==
  ASSUME TypeOK, Solo, Solo', NEW r \in Runs, Advances(r), NEW n \in Messages, n = MsgOf(r),
         \/ ~runs[r].attached
         \/ OpenFor(runs'[r], inbound'[n]) => OpenFor(runs[r], inbound[n]),
         \/ runs[r].attached
         \/ inbound'[n] \in Settled \/ inbound[n] \notin Settled
  PROVE  Credit(n)' <= Credit(n) /\ Credit(n) \in 0..1 /\ Credit(n)' \in 0..1
<1>1. CASE ~runs[r].attached
  <2>1. Open(n)' => Open(n)
    BY <1>1, OpenElsewhere
  <2> QED  BY <2>1 DEF Credit
<1>2. CASE runs[r].attached
  <2>1. /\ Open(n) <=> OpenFor(runs[r], inbound[n])
        /\ runs'[r].pc = "idle" => (Open(n)' <=> inbound'[n] \notin Settled)
        /\ runs'[r].pc # "idle" => (Open(n)' <=> OpenFor(runs'[r], inbound'[n]))
    BY <1>2, OpenHere
  <2>2. runs'[r].pc = "idle" => (OpenFor(runs'[r], inbound'[n]) <=> inbound'[n] \notin Settled)
    BY DEF OpenFor
  <2>3. Open(n)' => Open(n)
    BY <1>2, <2>1, <2>2
  <2> QED  BY <2>3 DEF Credit
<1> QED  BY <1>1, <1>2

-----------------------------------------------------------------------------
\* The steps of one execution.

\* An execution goes on, is done with its job or gives up, and the table and
\* the enrichments stay.
LEMMA QuietStep ==
  ASSUME IInv, NEW r \in Runs, Advances(r), NEW n \in Messages, n = MsgOf(r),
         UNCHANGED <<drafts, now, posting, listed, orphaned, enrich, outlived, sweeps>>,
         waiting' \in Queues, faults' = faults \/ Fault,
         NEW status \in InboundStatus, inbound' = [inbound EXCEPT ![n] = status],
         runs'[r] = IdleRun \/ runs'[r].draft = runs[r].draft,
         \/ runs'[r].pc \in {"idle", "failing"}
         \/ /\ runs'[r].pc \in {"claiming", "composing"}
            /\ n \notin outlived => status \in {"PENDING", "PROCESSING"}
         \/ runs[r].pc = "finishing" /\ runs'[r].pc = "enriching",
         status = "DONE" => inbound[n] = "DONE" \/ runs[r].pc = "finishing",
         ShareOf(runs'[r], n) + Credit(n)'
           <= ShareOf(runs[r], n) + Credit(n) + (IF faults' = faults THEN 0 ELSE 2),
         faults = 0 /\ faults' = 0 =>
           /\ status # "DONE" => enrich[n] = 0
           /\ status = "DONE" => enrich[n] = 1 \/ runs'[r].pc = "enriching"
           /\ runs'[r].pc = "failing" => status \notin Settled
           /\ runs'[r].pc = "enriching" => status = "DONE" /\ enrich[n] = 0
  PROVE  IInv'
<1>0. TypeOK /\ Answering /\ Numbers
  BY DEF IInv
<1>1. TableKept /\ Numbers' /\ \A m : DraftsOf(m)' = DraftsOf(m) /\ Count(m)' = Count(m)
  BY <1>0, SameTable, SameDrafts
<1>2. /\ inbound' \in [Messages -> InboundStatus] /\ inbound'[n] = status
      /\ \A m \in Messages \ {n} : inbound'[m] = inbound[m]
      /\ enrich' \in [Messages -> Nat] /\ \A m \in Messages : enrich'[m] = enrich[m]
  BY <1>0 DEF TypeOK
<1>3. r \in Busy
  BY DEF Busy, BusyIn, Advances
<1>4. /\ runs'[r].pc \notin {"superseding", "finishing"}
      /\ runs'[r].pc = "enriching" => runs[r].pc = "finishing" /\ runs'[r].draft = runs[r].draft
  BY DEF IdleRun
<1>5. /\ runs[r].pc \in {"finishing", "enriching"} => runs[r].draft \in DraftsOf(n)
      /\ runs[r].pc \in {"finishing", "enriching"} => Superseded(drafts, runs[r].draft) = {}
  BY <1>0, <1>3 DEF Answering
<1>6. inbound'[n] = "DONE" =>
        inbound[n] = "DONE" \/ \E d \in DraftsOf(n)' : Superseded(drafts', d) = {}
  BY <1>1, <1>2, <1>5
<1>7. /\ Count(n) \in Nat /\ Credit(n) \in Nat /\ Credit(n)' \in Nat /\ enrich[n] \in Nat
      /\ ShareOf(runs[r], n) \in 0..2 /\ ShareOf(runs'[r], n) \in 0..2
  BY <1>0, CountsAreNumbers, SharesAreCounts DEF Credit, TypeOK
<1>8. Count(n)' + ShareOf(runs'[r], n) + Credit(n)'
        <= Count(n) + ShareOf(runs[r], n) + Credit(n) + (IF faults' = faults THEN 0 ELSE 2)
  BY <1>1, <1>7
<1>9. enrich'[n] + EnrichesOf(runs'[r], n) + Count(n)
        <= enrich[n] + EnrichesOf(runs[r], n) + Count(n)'
  <2>1. EnrichesOf(runs'[r], n) <= EnrichesOf(runs[r], n)
    BY <1>4 DEF EnrichesOf, Enriches, MsgOf
  <2>2. EnrichesOf(runs'[r], n) \in Nat /\ EnrichesOf(runs[r], n) \in Nat
    BY DEF EnrichesOf
  <2> QED  BY <1>1, <1>2, <1>7, <2>1, <2>2
<1>10. runs'[r].pc = "enriching" =>
         runs'[r].draft \in DraftsOf(n)' /\ Superseded(drafts', runs'[r].draft) = {}
  BY <1>1, <1>4, <1>5
<1>11. /\ runs'[r].pc \in {"claiming", "composing", "superseding", "finishing"}
       /\ n \notin outlived
       => inbound'[n] \in {"PENDING", "PROCESSING"}
  BY <1>2, <1>4
<1> QED  BY <1>1, <1>2, <1>4, <1>6, <1>8, <1>9, <1>10, <1>11, RunKeeps

LEMMA ReadInboundStep ==
  ASSUME IInv, NEW r \in Runs, ReadInbound(r)
  PROVE  IInv'
<1>0. TypeOK /\ Solo /\ Faultless
  BY DEF IInv
<1>1. /\ runs[r].pc = "reading"
      /\ UNCHANGED <<inbound, drafts, now, posting, listed, waiting, orphaned, enrich,
                     outlived, sweeps, faults>>
  BY DEF ReadInbound
<1>2. PICK n \in Messages : n = MsgOf(r) /\ runs[r].pc # "idle"
  BY <1>0, <1>1, MessageOfRun
<1>3. \/ Return(r)
      \/ Goto(r, "claiming") /\ inbound[n] \in {"PENDING", "PROCESSING"}
  BY <1>2 DEF ReadInbound
<1>4. /\ Advances(r)
      /\ \/ runs'[r] = IdleRun /\ runs'[r].pc = "idle"
         \/ /\ runs'[r].pc = "claiming" /\ runs'[r].draft = runs[r].draft
            /\ runs'[r].job = runs[r].job /\ runs'[r].attached = runs[r].attached
            /\ inbound[n] \in {"PENDING", "PROCESSING"}
  BY <1>0, <1>2, <1>3, ReturnAdvances, GotoAdvances, PhasesAre
<1>5. Solo'
  BY <1>0, <1>1, <1>4, SoloAdvances
<1>6. /\ waiting' \in Queues /\ inbound[n] \in InboundStatus
      /\ inbound' = [inbound EXCEPT ![n] = inbound[n]]
  BY <1>0, <1>1 DEF TypeOK
<1>7. ShareOf(runs'[r], n) + Credit(n)'
        <= ShareOf(runs[r], n) + Credit(n) + (IF faults' = faults THEN 0 ELSE 2)
  <2>1. OpenFor(runs'[r], inbound'[n]) => OpenFor(runs[r], inbound[n])
    BY <1>1, <1>4 DEF OpenFor, Settled
  <2>2. Credit(n)' <= Credit(n) /\ Credit(n) \in 0..1 /\ Credit(n)' \in 0..1
    BY <1>0, <1>1, <1>2, <1>4, <1>5, <2>1, CreditKept
  <2>3. ShareOf(runs'[r], n) <= ShareOf(runs[r], n)
    BY <1>1, <1>4 DEF ShareOf
  <2>4. ShareOf(runs'[r], n) \in 0..2 /\ ShareOf(runs[r], n) \in 0..2
    BY SharesAreCounts
  <2> QED  BY <1>1, <2>2, <2>3, <2>4
<1>8. faults = 0 /\ faults' = 0 =>
        /\ inbound[n] # "DONE" => enrich[n] = 0
        /\ inbound[n] = "DONE" => enrich[n] = 1
  <2> SUFFICES ASSUME faults = 0
               PROVE  /\ inbound[n] # "DONE" => enrich[n] = 0
                      /\ inbound[n] = "DONE" => enrich[n] = 1
    OBVIOUS
  <2>1. r \in Busy
    BY <1>2 DEF Busy, BusyIn
  <2>2. Busy = {r}
    BY <1>0, <2>1, Alone
  <2> QED  BY <1>0, <1>1, <2>2 DEF Faultless
<1>9. runs'[r].pc \notin {"failing", "enriching"}
  BY <1>4
<1>10. CASE runs'[r] = IdleRun /\ runs'[r].pc = "idle"
  BY <1>1, <1>2, <1>4, <1>6, <1>7, <1>8, <1>9, <1>10, QuietStep
<1>11. CASE /\ runs'[r].pc = "claiming" /\ runs'[r].draft = runs[r].draft
            /\ inbound[n] \in {"PENDING", "PROCESSING"}
  BY <1>1, <1>2, <1>4, <1>6, <1>7, <1>8, <1>9, <1>11, QuietStep
<1> QED  BY <1>4, <1>10, <1>11

LEMMA ClaimStep ==
  ASSUME IInv, NEW r \in Runs, Claim(r)
  PROVE  IInv'
<1>0. TypeOK /\ Solo /\ Unsettled /\ Faultless
  BY DEF IInv
<1>1. /\ runs[r].pc = "claiming" /\ Goto(r, "composing")
      /\ inbound' = [inbound EXCEPT ![MsgOf(r)] = "PROCESSING"]
      /\ UNCHANGED <<drafts, now, posting, listed, waiting, orphaned, enrich,
                     outlived, sweeps, faults>>
  BY DEF Claim
<1>2. PICK n \in Messages : n = MsgOf(r) /\ runs[r].pc # "idle"
  BY <1>0, <1>1, MessageOfRun
<1>3. /\ Advances(r) /\ runs'[r].pc = "composing" /\ runs'[r].draft = runs[r].draft
      /\ runs'[r].job = runs[r].job /\ runs'[r].attached = runs[r].attached
  BY <1>0, <1>1, <1>2, GotoAdvances, PhasesAre
<1>4. Solo'
  BY <1>0, <1>1, <1>3, SoloAdvances
<1>5. waiting' \in Queues /\ "PROCESSING" \in InboundStatus
  BY <1>0, <1>1 DEF TypeOK, InboundStatus
<1>6. ShareOf(runs'[r], n) + Credit(n)'
        <= ShareOf(runs[r], n) + Credit(n) + (IF faults' = faults THEN 0 ELSE 2)
  <2>0. Credit(n)' \in 0..1 /\ Credit(n) \in 0..1
    BY DEF Credit
  <2>1. CASE runs[r].attached
    <3>1. ShareOf(runs'[r], n) = 0 /\ ShareOf(runs[r], n) = 0
      BY <1>3, <2>1 DEF ShareOf
    <3>2. Credit(n)' <= Credit(n)
      BY <1>0, <1>1, <1>2, <1>3, <1>4, <2>1, CreditKept DEF OpenFor
    <3> QED  BY <1>1, <2>0, <3>1, <3>2
  <2>2. CASE ~runs[r].attached
    <3>1. ShareOf(runs'[r], n) = 1 /\ ShareOf(runs[r], n) = 2
      BY <1>1, <1>2, <1>3, <2>2 DEF ShareOf, MsgOf
    <3> QED  BY <1>1, <2>0, <3>1
  <2> QED  BY <2>1, <2>2
<1>7. faults = 0 /\ faults' = 0 => enrich[n] = 0
  <2> SUFFICES ASSUME faults = 0 PROVE enrich[n] = 0
    OBVIOUS
  <2>1. r \in Busy
    BY <1>2 DEF Busy, BusyIn
  <2>2. n \notin outlived
    BY <1>0, <2>1, Alone
  <2>3. inbound[n] # "DONE"
    BY <1>0, <1>1, <1>2, <2>1, <2>2 DEF Unsettled
  <2> QED  BY <1>0, <2>3 DEF Faultless
<1> QED  BY <1>1, <1>2, <1>3, <1>5, <1>6, <1>7, QuietStep

\* What a message that is being worked on cannot have become, without a fault.
LEMMA WorkedOn ==
  ASSUME IInv, faults = 0, NEW r \in Runs, NEW n \in Messages, n = MsgOf(r),
         runs[r].pc \in {"claiming", "composing", "superseding", "finishing", "failing"}
  PROVE  inbound[n] \notin Settled /\ enrich[n] = 0
<1>0. Solo /\ Unsettled /\ Faultless
  BY DEF IInv
<1>1. r \in Busy
  BY DEF Busy, BusyIn
<1>2. n \notin outlived
  BY <1>0, <1>1, Alone
<1>3. inbound[n] \notin Settled
  <2>1. CASE runs[r].pc = "failing"
    BY <1>0, <1>1, <2>1 DEF Faultless
  <2>2. CASE runs[r].pc # "failing"
    BY <1>0, <1>1, <1>2, <2>2 DEF Unsettled, Settled
  <2> QED  BY <2>1, <2>2
<1> QED  BY <1>0, <1>3 DEF Faultless, Settled

\* What an execution still owed and what its message had open were for a draft
\* that the message now has, or does without.
LEMMA DraftPaid ==
  ASSUME TypeOK, Solo, Solo', NEW r \in Runs, Advances(r), NEW n \in Messages, n = MsgOf(r),
         runs[r].pc = "composing", runs'[r].pc \in {"superseding", "failing"},
         UNCHANGED inbound
  PROVE  ShareOf(runs'[r], n) + Credit(n)' + 1 <= ShareOf(runs[r], n) + Credit(n)
<1>0. Credit(n)' \in 0..1 /\ Credit(n) \in 0..1 /\ ShareOf(runs'[r], n) = 0
  BY DEF Credit, ShareOf
<1>1. CASE runs[r].attached
  <2>1. Open(n) /\ ~Open(n)'
    BY <1>1, OpenHere DEF OpenFor
  <2>2. ShareOf(runs[r], n) = 0
    BY <1>1 DEF ShareOf
  <2> QED  BY <1>0, <2>1, <2>2 DEF Credit
<1>2. CASE ~runs[r].attached
  <2>1. ShareOf(runs[r], n) = 1
    BY <1>2 DEF ShareOf, MsgOf
  <2>2. Credit(n)' <= Credit(n)
    BY <1>2, CreditKept
  <2> QED  BY <1>0, <2>1, <2>2
<1> QED  BY <1>1, <1>2

LEMMA ComposeStep ==
  ASSUME IInv, NEW r \in Runs, NEW status \in {"DRAFTED", "APPROVED", "REJECTED"},
         Compose(r, status)
  PROVE  IInv'
<1>0. TypeOK /\ Solo /\ Numbers /\ Unsettled /\ Answering
  BY DEF IInv
<1>1. /\ runs[r].pc = "composing" /\ now' = now + 1
      /\ UNCHANGED <<inbound, posting, listed, waiting, orphaned, enrich, outlived, sweeps>>
  BY DEF Compose
<1>2. PICK n \in Messages : n = MsgOf(r) /\ runs[r].pc # "idle" /\ runs[r] \in Working
  BY <1>0, <1>1, MessageOfRun, IdleOrWorking
<1>3. PICK d \in Drafts :
        /\ d = <<n, Count(n) + 1>>
        /\ drafts' = InsertOutboundDraft(drafts, d, status,
                       IF status = "APPROVED" THEN now ELSE 0, now)
        /\ \/ runs' = [runs EXCEPT ![r].pc = "superseding", ![r].draft = d] /\ UNCHANGED faults
           \/ Fault /\ Goto(r, "failing")
  BY <1>2 DEF Compose, Count
<1>4. /\ TableKept /\ Numbers'
      /\ DraftsOf(n)' = DraftsOf(n) \cup {d} /\ Count(n)' = Count(n) + 1
      /\ \A m \in Messages \ {n} : Count(m)' = Count(m)
  <2>1. (IF status = "APPROVED" THEN now ELSE 0) \in Nat
    BY <1>0 DEF TypeOK
  <2> QED  BY <1>0, <1>1, <1>3, <2>1, DraftInserted
<1>5. /\ Advances(r) /\ runs'[r].job = runs[r].job /\ runs'[r].attached = runs[r].attached
      /\ \/ runs'[r].pc = "superseding" /\ runs'[r].draft = d /\ UNCHANGED faults
         \/ Fault /\ runs'[r].pc = "failing"
  <2>1. CASE Fault /\ Goto(r, "failing")
    BY <1>0, <1>2, <2>1, GotoAdvances, PhasesAre
  <2>2. CASE runs' = [runs EXCEPT ![r].pc = "superseding", ![r].draft = d] /\ UNCHANGED faults
    <3>1. [runs[r] EXCEPT !.pc = "superseding", !.draft = d] \in Working
      BY <1>2 DEF Working, Phases
    <3>2. runs' = [runs EXCEPT ![r] = [runs[r] EXCEPT !.pc = "superseding", !.draft = d]]
      BY <1>0, <2>2 DEF TypeOK
    <3>3. runs'[r] = [runs[r] EXCEPT !.pc = "superseding", !.draft = d]
      BY <1>0, <3>2 DEF TypeOK
    <3>4. runs' \in [Runs -> RunStates] /\ \A s \in Runs \ {r} : runs'[s] = runs[s]
      BY <1>0, <3>1, <3>2, RunStatesAre DEF TypeOK
    <3>5. /\ runs'[r].pc = "superseding" /\ runs'[r].draft = d /\ runs'[r].job = runs[r].job
          /\ runs'[r].attached = runs[r].attached
      BY <1>2, <3>3 DEF Working
    <3> QED  BY <1>2, <2>2, <3>1, <3>3, <3>4, <3>5 DEF Advances
  <2> QED  BY <1>3, <2>1, <2>2
<1>6. Solo'
  BY <1>0, <1>1, <1>5, SoloAdvances
<1>7. /\ Count(n) \in Nat /\ Credit(n) \in Nat /\ Credit(n)' \in Nat /\ enrich[n] \in Nat
      /\ ShareOf(runs[r], n) \in 0..2 /\ ShareOf(runs'[r], n) \in 0..2
  BY <1>0, CountsAreNumbers, SharesAreCounts DEF Credit, TypeOK
<1>8. Count(n)' + ShareOf(runs'[r], n) + Credit(n)'
        <= Count(n) + ShareOf(runs[r], n) + Credit(n) + (IF faults' = faults THEN 0 ELSE 2)
  <2>1. ShareOf(runs'[r], n) + Credit(n)' + 1 <= ShareOf(runs[r], n) + Credit(n)
    BY <1>0, <1>1, <1>2, <1>5, <1>6, DraftPaid
  <2> QED  BY <1>4, <1>7, <2>1
<1>9. enrich'[n] + EnrichesOf(runs'[r], n) + Count(n)
        <= enrich[n] + EnrichesOf(runs[r], n) + Count(n)'
  <2>1. EnrichesOf(runs'[r], n) \in 0..1 /\ EnrichesOf(runs[r], n) \in 0..1
    BY DEF EnrichesOf
  <2> QED  BY <1>1, <1>4, <1>7, <2>1
<1>10. n \notin outlived => inbound[n] \in {"PENDING", "PROCESSING"}
  BY <1>0, <1>1, <1>2 DEF Unsettled, Busy, BusyIn
<1>11. faults = 0 => inbound[n] \notin Settled /\ enrich[n] = 0
  BY <1>1, <1>2, WorkedOn
<1>12. /\ inbound' \in [Messages -> InboundStatus] /\ enrich' \in [Messages -> Nat]
       /\ waiting' \in Queues
  BY <1>0, <1>1 DEF TypeOK
<1>13. runs'[r].pc = "superseding" => runs'[r].draft \in DraftsOf(n)'
  BY <1>4, <1>5
<1> QED  BY <1>1, <1>2, <1>4, <1>5, <1>8, <1>9, <1>10, <1>11, <1>12, <1>13, RunKeeps DEF Settled

\* A fault pays for an execution that ends.
LEMMA FaultPays ==
  ASSUME TypeOK, Solo, Solo', NEW r \in Runs, Advances(r), NEW n \in Messages, n = MsgOf(r),
         Fault, runs'[r].pc \in {"idle", "failing"}
  PROVE  ShareOf(runs'[r], n) + Credit(n)'
           <= ShareOf(runs[r], n) + Credit(n) + (IF faults' = faults THEN 0 ELSE 2)
<1>1. ShareOf(runs'[r], n) = 0
  BY DEF ShareOf
<1>2. Credit(n) \in 0..1 /\ Credit(n)' \in 0..1 /\ ShareOf(runs[r], n) \in 0..2
  BY SharesAreCounts DEF Credit
<1>3. faults' # faults
  BY BoundsAreCounts DEF Fault, TypeOK
<1> QED  BY <1>1, <1>2, <1>3

LEMMA SupersedeStep ==
  ASSUME IInv, NEW r \in Runs, Supersede(r)
  PROVE  IInv'
<1>0. TypeOK /\ Solo /\ Numbers /\ Unsettled /\ Answering
  BY DEF IInv
<1>1. /\ runs[r].pc = "superseding"
      /\ drafts' = RejectSupersededDraftsForThread(drafts, runs[r].draft)
      /\ UNCHANGED <<inbound, now, posting, listed, waiting, orphaned, enrich, outlived, sweeps>>
      /\ \/ Goto(r, "finishing") /\ UNCHANGED faults
         \/ Fault /\ Goto(r, "failing")
  BY DEF Supersede, Answered
<1>2. PICK n \in Messages : n = MsgOf(r) /\ runs[r].pc # "idle"
  BY <1>0, <1>1, MessageOfRun
<1>3. /\ Advances(r) /\ runs'[r].draft = runs[r].draft
      /\ \/ runs'[r].pc = "finishing" /\ UNCHANGED faults
         \/ Fault /\ runs'[r].pc = "failing"
  BY <1>0, <1>1, <1>2, GotoAdvances, PhasesAre
<1>4. r \in Busy /\ runs[r].draft \in DraftsOf(n)
  BY <1>0, <1>1, <1>2 DEF Busy, BusyIn, Answering
<1>5. /\ TableKept /\ Superseded(drafts', runs[r].draft) = {}
      /\ \A d \in Drafts : drafts'[d].status # Absent <=> drafts[d].status # Absent
  <2>1. runs[r].draft \in Drafts
    BY <1>4 DEF DraftsOf
  <2> QED  BY <1>0, <1>1, <2>1, DraftsSuperseded
<1>6. Numbers' /\ \A m : DraftsOf(m)' = DraftsOf(m) /\ Count(m)' = Count(m)
  BY <1>0, <1>5, SameDrafts
<1>7. Solo'
  BY <1>0, <1>1, <1>3, SoloAdvances
<1>8. /\ Credit(n)' <= Credit(n) /\ Credit(n) \in 0..1 /\ Credit(n)' \in 0..1
      /\ ShareOf(runs'[r], n) = 0 /\ ShareOf(runs[r], n) = 0
      /\ Count(n) \in Nat /\ enrich[n] \in Nat
  <2>1. ~OpenFor(runs'[r], inbound'[n])
    BY <1>3 DEF OpenFor
  <2>2. Credit(n)' <= Credit(n) /\ Credit(n) \in 0..1 /\ Credit(n)' \in 0..1
    BY <1>0, <1>1, <1>2, <1>3, <1>7, <2>1, CreditKept
  <2> QED  BY <1>0, <1>1, <1>3, <2>2, CountsAreNumbers DEF ShareOf, TypeOK
<1>9. Count(n)' + ShareOf(runs'[r], n) + Credit(n)'
        <= Count(n) + ShareOf(runs[r], n) + Credit(n) + (IF faults' = faults THEN 0 ELSE 2)
  BY <1>6, <1>8
<1>10. enrich'[n] + EnrichesOf(runs'[r], n) + Count(n)
         <= enrich[n] + EnrichesOf(runs[r], n) + Count(n)'
  <2>1. EnrichesOf(runs'[r], n) \in 0..1 /\ EnrichesOf(runs[r], n) = 1
    BY <1>1, <1>2 DEF EnrichesOf, Enriches, MsgOf
  <2> QED  BY <1>1, <1>6, <1>8, <2>1
<1>11. n \notin outlived => inbound[n] \in {"PENDING", "PROCESSING"}
  BY <1>0, <1>1, <1>2, <1>4 DEF Unsettled
<1>12. faults = 0 => inbound[n] \notin Settled /\ enrich[n] = 0
  BY <1>1, <1>2, WorkedOn
<1>13. /\ inbound' \in [Messages -> InboundStatus] /\ enrich' \in [Messages -> Nat]
       /\ waiting' \in Queues
  BY <1>0, <1>1 DEF TypeOK
<1>14. runs'[r].draft \in DraftsOf(n)' /\ Superseded(drafts', runs'[r].draft) = {}
  BY <1>3, <1>4, <1>5, <1>6
<1> QED  BY <1>1, <1>2, <1>3, <1>5, <1>6, <1>9, <1>10, <1>11, <1>12, <1>13, <1>14, RunKeeps
            DEF Settled

LEMMA FinishStep ==
  ASSUME IInv, NEW r \in Runs, Finish(r)
  PROVE  IInv'
<1>0. TypeOK /\ Solo
  BY DEF IInv
<1>1. /\ runs[r].pc = "finishing"
      /\ inbound' = [inbound EXCEPT ![MsgOf(r)] = "DONE"]
      /\ UNCHANGED <<drafts, now, posting, listed, waiting, orphaned, enrich, outlived, sweeps>>
      /\ \/ Goto(r, "enriching") /\ UNCHANGED faults
         \/ Fault /\ Goto(r, "failing")
  BY DEF Finish, Answered
<1>2. PICK n \in Messages : n = MsgOf(r) /\ runs[r].pc # "idle"
  BY <1>0, <1>1, MessageOfRun
<1>3. /\ Advances(r) /\ runs'[r].draft = runs[r].draft
      /\ \/ runs'[r].pc = "enriching" /\ UNCHANGED faults
         \/ Fault /\ runs'[r].pc = "failing"
  BY <1>0, <1>1, <1>2, GotoAdvances, PhasesAre
<1>4. Solo'
  BY <1>0, <1>1, <1>3, SoloAdvances
<1>5. inbound'[n] = "DONE" /\ waiting' \in Queues /\ "DONE" \in InboundStatus
  BY <1>0, <1>1, <1>2 DEF TypeOK, InboundStatus
<1>6. ShareOf(runs'[r], n) + Credit(n)'
        <= ShareOf(runs[r], n) + Credit(n) + (IF faults' = faults THEN 0 ELSE 2)
  <2>1. ~OpenFor(runs'[r], inbound'[n])
    BY <1>3, <1>5 DEF OpenFor, Settled
  <2>2. Credit(n)' <= Credit(n) /\ Credit(n) \in 0..1 /\ Credit(n)' \in 0..1
    BY <1>0, <1>1, <1>2, <1>3, <1>4, <1>5, <2>1, CreditKept DEF Settled
  <2>3. ShareOf(runs'[r], n) = 0 /\ ShareOf(runs[r], n) = 0
    BY <1>1, <1>3 DEF ShareOf
  <2> QED  BY <2>2, <2>3
<1>7. faults = 0 /\ faults' = 0 => runs'[r].pc = "enriching" /\ enrich[n] = 0
  <2>1. Fault => faults' # 0
    BY <1>0, BoundsAreCounts DEF Fault, TypeOK
  <2>2. faults = 0 => enrich[n] = 0
    BY <1>1, <1>2, WorkedOn
  <2> QED  BY <1>3, <2>1, <2>2
<1> QED  BY <1>1, <1>2, <1>3, <1>5, <1>6, <1>7, QuietStep

LEMMA StepFailsStep ==
  ASSUME IInv, NEW r \in Runs, StepFails(r)
  PROVE  IInv'
<1>0. TypeOK /\ Solo
  BY DEF IInv
<1>1. /\ Goto(r, "failing")
      /\ \/ runs[r].pc = "composing" /\ UNCHANGED faults
         \/ runs[r].pc \in {"superseding", "finishing"} /\ Fault
      /\ UNCHANGED <<inbound, drafts, now, posting, listed, waiting, orphaned, enrich,
                     outlived, sweeps>>
  BY DEF StepFails
<1>2. PICK n \in Messages : n = MsgOf(r) /\ runs[r].pc # "idle"
  BY <1>0, <1>1, MessageOfRun
<1>3. Advances(r) /\ runs'[r].draft = runs[r].draft /\ runs'[r].pc = "failing"
  BY <1>0, <1>1, <1>2, GotoAdvances, PhasesAre
<1>4. Solo'
  BY <1>0, <1>1, <1>3, SoloAdvances
<1>5. /\ inbound[n] \in InboundStatus /\ waiting' \in Queues
      /\ inbound' = [inbound EXCEPT ![n] = inbound[n]]
  BY <1>0, <1>1 DEF TypeOK
<1>6. ShareOf(runs'[r], n) + Credit(n)'
        <= ShareOf(runs[r], n) + Credit(n) + (IF faults' = faults THEN 0 ELSE 2)
  <2>1. CASE Fault
    BY <1>0, <1>2, <1>3, <1>4, <2>1, FaultPays
  <2>2. CASE runs[r].pc = "composing" /\ UNCHANGED faults
    <3>1. ShareOf(runs'[r], n) + Credit(n)' + 1 <= ShareOf(runs[r], n) + Credit(n)
      BY <1>0, <1>1, <1>2, <1>3, <1>4, <2>2, DraftPaid
    <3>2. /\ Credit(n) \in 0..1 /\ Credit(n)' \in 0..1
          /\ ShareOf(runs[r], n) \in 0..2 /\ ShareOf(runs'[r], n) \in 0..2
      BY SharesAreCounts DEF Credit
    <3> QED  BY <2>2, <3>1, <3>2
  <2> QED  BY <1>1, <2>1, <2>2
<1>7. faults = 0 => inbound[n] \notin Settled /\ enrich[n] = 0
  BY <1>1, <1>2, WorkedOn
<1> QED  BY <1>1, <1>2, <1>3, <1>5, <1>6, <1>7, QuietStep DEF Settled

LEMMA MarkFailedStep ==
  ASSUME IInv, NEW r \in Runs, MarkFailed(r)
  PROVE  IInv'
<1>0. TypeOK /\ Solo
  BY DEF IInv
<1>1. /\ Return(r) /\ runs[r].pc = "failing"
      /\ inbound' = [inbound EXCEPT ![MsgOf(r)] = "FAILED"]
      /\ UNCHANGED <<drafts, now, posting, listed, waiting, orphaned, enrich,
                     outlived, sweeps, faults>>
  BY DEF MarkFailed
<1>2. PICK n \in Messages : n = MsgOf(r) /\ runs[r].pc # "idle"
  BY <1>0, <1>1, MessageOfRun
<1>3. Advances(r) /\ runs'[r] = IdleRun /\ runs'[r].pc = "idle"
  BY <1>0, <1>1, <1>2, ReturnAdvances
<1>4. Solo'
  BY <1>0, <1>1, <1>3, SoloAdvances
<1>5. inbound'[n] = "FAILED" /\ waiting' \in Queues /\ "FAILED" \in InboundStatus
  BY <1>0, <1>1, <1>2 DEF TypeOK, InboundStatus
<1>6. ShareOf(runs'[r], n) + Credit(n)'
        <= ShareOf(runs[r], n) + Credit(n) + (IF faults' = faults THEN 0 ELSE 2)
  <2>1. ~OpenFor(runs'[r], inbound'[n])
    BY <1>3, <1>5 DEF OpenFor, Settled
  <2>2. Credit(n)' <= Credit(n) /\ Credit(n) \in 0..1 /\ Credit(n)' \in 0..1
    BY <1>0, <1>1, <1>2, <1>3, <1>4, <1>5, <2>1, CreditKept DEF Settled
  <2>3. ShareOf(runs'[r], n) = 0 /\ ShareOf(runs[r], n) = 0
    BY <1>1, <1>3 DEF ShareOf
  <2> QED  BY <1>1, <2>2, <2>3
<1>7. faults = 0 => enrich[n] = 0
  BY <1>1, <1>2, WorkedOn
<1> QED  BY <1>1, <1>2, <1>3, <1>5, <1>6, <1>7, QuietStep

LEMMA ThrowsStep ==
  ASSUME IInv, NEW r \in Runs, Throws(r)
  PROVE  IInv'
<1>0. TypeOK /\ Solo
  BY DEF IInv
<1>1. /\ runs[r].pc \in {"reading", "claiming", "failing"} /\ Fault /\ Return(r)
      /\ waiting' = IF runs[r].attached THEN Retry(waiting, runs[r].job) ELSE waiting
      /\ UNCHANGED <<drafts, now, posting, listed, orphaned, enrich, outlived, sweeps>>
  BY DEF Throws
<1>2. PICK n \in Messages : n = MsgOf(r) /\ runs[r].pc # "idle" /\ runs[r].job \in Job
  BY <1>0, <1>1, MessageOfRun
<1>3. Advances(r) /\ runs'[r] = IdleRun /\ runs'[r].pc = "idle"
  BY <1>0, <1>1, <1>2, ReturnAdvances
<1>4. Solo'
  BY <1>0, <1>1, <1>3, SoloAdvances
<1>5. PICK status \in InboundStatus :
        inbound' = [inbound EXCEPT ![n] = status] /\ (status = "DONE" => inbound[n] = "DONE")
  <2>1. inbound = [inbound EXCEPT ![n] = inbound[n]] /\ inbound[n] \in InboundStatus
    BY <1>0 DEF TypeOK
  <2>2. "PROCESSING" \in InboundStatus /\ "FAILED" \in InboundStatus
    BY DEF InboundStatus
  <2> QED  BY <1>2, <2>1, <2>2 DEF Throws
<1>6. waiting' \in Queues
  BY <1>0, <1>1, <1>2, QueuesStay DEF TypeOK
<1>7. ShareOf(runs'[r], n) + Credit(n)'
        <= ShareOf(runs[r], n) + Credit(n) + (IF faults' = faults THEN 0 ELSE 2)
  BY <1>0, <1>1, <1>2, <1>3, <1>4, FaultPays
<1>8. faults' # 0
  BY <1>0, <1>1, BoundsAreCounts DEF Fault, TypeOK
<1> QED  BY <1>1, <1>2, <1>3, <1>5, <1>6, <1>7, <1>8, QuietStep

LEMMA EnqueueEnrichmentStep ==
  ASSUME IInv, NEW r \in Runs, EnqueueEnrichment(r)
  PROVE  IInv'
<1>0. TypeOK /\ Solo /\ Answering /\ Numbers /\ Faultless
  BY DEF IInv
<1>1. /\ runs[r].pc = "enriching" /\ Return(r)
      /\ \/ enrich' = [enrich EXCEPT ![MsgOf(r)] = enrich[MsgOf(r)] + 1] /\ UNCHANGED faults
         \/ Fault /\ UNCHANGED enrich
      /\ UNCHANGED <<inbound, drafts, now, posting, listed, waiting, orphaned, outlived, sweeps>>
  BY DEF EnqueueEnrichment
<1>2. PICK n \in Messages : n = MsgOf(r) /\ runs[r].pc # "idle"
  BY <1>0, <1>1, MessageOfRun
<1>3. Advances(r) /\ runs'[r] = IdleRun /\ runs'[r].pc = "idle"
  BY <1>0, <1>1, <1>2, ReturnAdvances
<1>4. TableKept /\ Numbers' /\ \A m : DraftsOf(m)' = DraftsOf(m) /\ Count(m)' = Count(m)
  BY <1>0, <1>1, SameTable, SameDrafts
<1>5. Solo'
  BY <1>0, <1>1, <1>3, SoloAdvances
<1>6. /\ enrich' \in [Messages -> Nat] /\ \A m \in Messages \ {n} : enrich'[m] = enrich[m]
      /\ enrich[n] \in Nat
      /\ \/ enrich'[n] = enrich[n] + 1 /\ UNCHANGED faults
         \/ enrich'[n] = enrich[n] /\ Fault
  BY <1>0, <1>1, <1>2 DEF TypeOK
<1>7. /\ Credit(n)' <= Credit(n) /\ Credit(n) \in 0..1 /\ Credit(n)' \in 0..1
      /\ ShareOf(runs'[r], n) = 0 /\ ShareOf(runs[r], n) = 0 /\ Count(n) \in Nat
  <2>1. OpenFor(runs'[r], inbound'[n]) => OpenFor(runs[r], inbound[n])
    BY <1>1, <1>3 DEF OpenFor
  <2>2. Credit(n)' <= Credit(n) /\ Credit(n) \in 0..1 /\ Credit(n)' \in 0..1
    BY <1>0, <1>1, <1>2, <1>3, <1>5, <2>1, CreditKept
  <2> QED  BY <1>1, <1>3, <2>2, CountsAreNumbers DEF ShareOf
<1>8. Count(n)' + ShareOf(runs'[r], n) + Credit(n)'
        <= Count(n) + ShareOf(runs[r], n) + Credit(n) + (IF faults' = faults THEN 0 ELSE 2)
  BY <1>4, <1>7
<1>9. enrich'[n] + EnrichesOf(runs'[r], n) + Count(n)
        <= enrich[n] + EnrichesOf(runs[r], n) + Count(n)'
  <2>1. EnrichesOf(runs'[r], n) = 0 /\ EnrichesOf(runs[r], n) = 1
    BY <1>1, <1>2, <1>3 DEF EnrichesOf, Enriches, MsgOf
  <2> QED  BY <1>4, <1>6, <1>7, <2>1
<1>10. faults = 0 /\ faults' = 0 => inbound'[n] = "DONE" /\ enrich'[n] = 1
  <2>1. Fault => faults' # 0
    BY <1>0, BoundsAreCounts DEF Fault, TypeOK
  <2>2. faults = 0 => inbound[n] = "DONE" /\ enrich[n] = 0
    BY <1>0, <1>1, <1>2 DEF Faultless, Busy, BusyIn
  <2> QED  BY <1>1, <1>6, <2>1, <2>2
<1>11. inbound' \in [Messages -> InboundStatus] /\ waiting' \in Queues
  BY <1>0, <1>1 DEF TypeOK
<1> QED  BY <1>1, <1>2, <1>3, <1>4, <1>6, <1>8, <1>9, <1>10, <1>11, RunKeeps

-----------------------------------------------------------------------------
\* Deliveries, expiries and crashes: the messages, the table and the
\* enrichments stay.

LEMMA StartJobStep ==
  ASSUME IInv, NEW r \in Runs, NEW job \in Job, StartJob(r, job)
  PROVE  IInv'
<1> DEFINE fresh == [pc |-> "reading", job |-> job, attached |-> TRUE, draft |-> NoDraft]
<1>0. TypeOK /\ Solo /\ Numbers /\ Unsettled /\ Answering /\ Budgeted /\ Covered /\ Faultless
  BY DEF IInv
<1>1. /\ runs[r].pc = "idle" /\ Attached = {} /\ waiting[job] > 0
      /\ waiting' = Take(waiting, job)
      /\ runs' = [runs EXCEPT ![r] = fresh]
      /\ UNCHANGED <<inbound, drafts, now, posting, listed, orphaned, enrich, outlived,
                     sweeps, faults>>
  BY DEF StartJob
<1>2. fresh \in Working
  BY DEF Working, Phases
<1>3. /\ runs'[r] = fresh /\ \A s \in Runs \ {r} : runs'[s] = runs[s]
      /\ runs' \in [Runs -> RunStates]
  BY <1>0, <1>1, <1>2, RunStatesAre DEF TypeOK
<1>4. runs'[r].pc = "reading" /\ runs'[r].attached = TRUE /\ runs'[r].job = job
  BY <1>3
<1>5. TypeOK'
  <2>1. waiting' \in Queues
    BY <1>0, <1>1, QueuesStay DEF TypeOK
  <2> QED  BY <1>0, <1>1, <1>3, <2>1 DEF TypeOK
<1>6. /\ Busy' = Busy \cup {r} /\ r \notin Busy
      /\ \A s \in Busy : s \in Runs /\ runs'[s] = runs[s] /\ ~runs[s].attached
  BY <1>1, <1>3, <1>4 DEF Busy, BusyIn, Attached
<1>7. Attached' = {r}
  BY <1>4, <1>6 DEF Attached, Busy, BusyIn
<1>8. Solo'
  <2>1. IsFiniteSet(Busy')
    BY <1>0, <1>6, FS_AddElement DEF Solo
  <2>2. \A s \in Busy' : ~runs'[s].attached => runs'[s].job.msg \in outlived
    BY <1>0, <1>4, <1>6 DEF Solo, MsgOf
  <2> QED  BY <1>0, <1>1, <1>7, <2>1, <2>2 DEF Solo, MsgOf
<1>9. Numbers' /\ \A m : DraftsOf(m)' = DraftsOf(m) /\ Count(m)' = Count(m)
  BY <1>0, <1>1, SameDrafts
<1>10. Unsettled'
  BY <1>0, <1>1, <1>4, <1>6 DEF Unsettled, MsgOf
<1>11. Answering'
  <2>1. DoneIsAnswered'
    BY <1>0, <1>1, <1>9 DEF Answering, DoneIsAnswered
  <2>2. \A s \in Busy' :
          /\ runs'[s].pc \in {"superseding", "finishing", "enriching"} =>
               runs'[s].draft \in DraftsOf(MsgOf(s))'
          /\ runs'[s].pc \in {"finishing", "enriching"} =>
               Superseded(drafts', runs'[s].draft) = {}
    BY <1>0, <1>1, <1>4, <1>6 DEF Answering, DraftsOf, MsgOf
  <2> QED  BY <1>0, <1>1, <2>1, <2>2 DEF Answering
<1>12. Budgeted'
  <2>1. ASSUME NEW m \in Messages
        PROVE  Count(m)' + ShareOf(runs'[r], m) + Credit(m)'
                 <= Count(m) + ShareOf(runs[r], m) + Credit(m)
                      + (IF faults' = faults THEN 0 ELSE 2)
    <3>1. ShareOf(runs'[r], m) = 0 /\ ShareOf(runs[r], m) = 0
      BY <1>1, <1>4 DEF ShareOf
    <3>2. Open(m)' => Open(m)
      BY <1>1, <1>4, <1>7 DEF Open
    <3>3. /\ Credit(m) \in Nat /\ Credit(m)' \in Nat /\ Credit(m)' <= Credit(m)
          /\ Count(m) \in Nat
      BY <3>2, CountsAreNumbers DEF Credit
    <3> QED  BY <1>1, <1>9, <3>1, <3>3
  <2> QED  BY <1>0, <1>1, <1>3, <1>5, <1>8, <2>1, BudgetKept
<1>13. Covered'
  <2>1. ASSUME NEW m \in Messages
        PROVE  enrich'[m] + EnrichesOf(runs'[r], m) + Count(m)
                 <= enrich[m] + EnrichesOf(runs[r], m) + Count(m)'
    <3>1. EnrichesOf(runs'[r], m) = 0 /\ EnrichesOf(runs[r], m) = 0
      BY <1>1, <1>4 DEF EnrichesOf, Enriches
    <3>2. enrich[m] \in Nat /\ Count(m) \in Nat
      BY <1>0, CountsAreNumbers DEF TypeOK
    <3> QED  BY <1>1, <1>9, <3>1, <3>2
  <2> QED  BY <1>0, <1>3, <1>5, <1>8, <2>1, CoverKept
<1>14. Faultless'
  <2> SUFFICES ASSUME faults = 0 PROVE Faultless'
    BY <1>1 DEF Faultless
  <2>1. \A s \in Busy : s \in Busy' /\ runs'[s] = runs[s]
    BY <1>6
  <2>2. ASSUME NEW m \in Messages
        PROVE  /\ inbound'[m] # "DONE" => enrich'[m] = 0
               /\ inbound'[m] = "DONE" =>
                    \/ enrich'[m] = 1
                    \/ \E s \in Busy' : runs'[s].pc = "enriching" /\ runs'[s].job.msg = m
    BY <1>0, <1>1, <2>1 DEF Faultless, MsgOf
  <2>3. ASSUME NEW s \in Busy'
        PROVE  /\ runs'[s].pc = "failing" => inbound'[runs'[s].job.msg] \notin Settled
               /\ runs'[s].pc = "enriching" =>
                    inbound'[runs'[s].job.msg] = "DONE" /\ enrich'[runs'[s].job.msg] = 0
    <3>1. CASE s = r
      BY <1>4, <3>1
    <3>2. CASE s # r
      BY <1>0, <1>1, <1>6, <3>2 DEF Faultless, MsgOf
    <3> QED  BY <3>1, <3>2
  <2> QED  BY <2>2, <2>3 DEF Faultless, MsgOf
<1> QED  BY <1>5, <1>8, <1>9, <1>10, <1>11, <1>12, <1>13, <1>14 DEF IInv

\* An execution that outlives its job may have its message drafted again, and so
\* may the retried job: the fault pays for both.
LEMMA ExpireStep ==
  ASSUME IInv, NEW r \in Runs, Expire(r)
  PROVE  IInv'
<1>0. TypeOK /\ Solo /\ Numbers /\ Unsettled /\ Answering /\ Budgeted /\ Covered
  BY DEF IInv
<1>1. /\ runs[r].pc # "idle" /\ runs[r].attached /\ Fault
      /\ waiting' = Retry(waiting, runs[r].job)
      /\ outlived' = outlived \cup {MsgOf(r)}
      /\ runs' = [runs EXCEPT ![r] = [runs[r] EXCEPT !.attached = FALSE]]
      /\ UNCHANGED <<inbound, drafts, now, posting, listed, orphaned, enrich, sweeps>>
  BY DEF Expire
<1>2. PICK n \in Messages : n = MsgOf(r) /\ runs[r].job \in Job /\ runs[r] \in Working
  BY <1>0, <1>1, MessageOfRun, IdleOrWorking
<1>3. /\ runs'[r] \in Working /\ runs'[r].attached = FALSE /\ runs'[r].pc = runs[r].pc
      /\ runs'[r].job = runs[r].job /\ runs'[r].draft = runs[r].draft
      /\ \A s \in Runs \ {r} : runs'[s] = runs[s]
      /\ runs' \in [Runs -> RunStates]
  <2>1. [runs[r] EXCEPT !.attached = FALSE] \in Working
    BY <1>2 DEF Working
  <2>2. runs'[r] = [runs[r] EXCEPT !.attached = FALSE]
    BY <1>0, <1>1 DEF TypeOK
  <2>3. /\ \A s \in Runs \ {r} : runs'[s] = runs[s]
        /\ runs' \in [Runs -> RunStates]
    BY <1>0, <1>1, <2>1, RunStatesAre DEF TypeOK
  <2> QED  BY <1>2, <2>1, <2>2, <2>3 DEF Working
<1>4. TypeOK' /\ faults \in Nat /\ faults' = faults + 1
  <2>1. waiting' \in Queues
    BY <1>0, <1>1, <1>2, QueuesStay DEF TypeOK
  <2>2. faults \in Nat /\ faults' = faults + 1 /\ faults' \in 0..MaxFaults
    BY <1>0, <1>1, BoundsAreCounts DEF TypeOK, Fault
  <2> QED  BY <1>0, <1>1, <1>2, <1>3, <2>1, <2>2 DEF TypeOK
<1>5. Busy' = Busy /\ r \in Busy
  BY <1>1, <1>3 DEF Busy, BusyIn
<1>6. r \in Attached /\ Attached' = {}
  <2>1. r \in Attached
    BY <1>1 DEF Attached
  <2>2. \A s \in Attached' : s \in Attached /\ s # r
    BY <1>3 DEF Attached
  <2> QED  BY <1>0, <2>1, <2>2 DEF Solo
<1>7. Solo'
  <2>1. \A s \in Busy' : runs'[s].job.msg \in outlived'
    BY <1>0, <1>1, <1>3, <1>5, <1>6 DEF Solo, MsgOf, Busy, BusyIn, Attached
  <2> QED  BY <1>0, <1>4, <1>5, <1>6, <2>1 DEF Solo, MsgOf
<1>8. \A s \in Busy' : /\ runs'[s].pc = runs[s].pc /\ runs'[s].job = runs[s].job
                       /\ runs'[s].draft = runs[s].draft
  BY <1>3, <1>5 DEF Busy, BusyIn
<1>9. Numbers' /\ \A m : DraftsOf(m)' = DraftsOf(m) /\ Count(m)' = Count(m)
  BY <1>0, <1>1, SameDrafts
<1>10. Unsettled'
  BY <1>0, <1>1, <1>5, <1>8 DEF Unsettled, MsgOf
<1>11. Answering'
  <2>1. DoneIsAnswered'
    BY <1>0, <1>1, <1>9 DEF Answering, DoneIsAnswered
  <2>2. \A s \in Busy' :
          /\ runs'[s].pc \in {"superseding", "finishing", "enriching"} =>
               runs'[s].draft \in DraftsOf(MsgOf(s))'
          /\ runs'[s].pc \in {"finishing", "enriching"} =>
               Superseded(drafts', runs'[s].draft) = {}
    BY <1>0, <1>1, <1>5, <1>8 DEF Answering, DraftsOf, MsgOf
  <2> QED  BY <1>0, <1>1, <2>1, <2>2 DEF Answering
<1>12. Budgeted'
  <2>1. ASSUME NEW m \in Messages
        PROVE  Count(m)' + ShareOf(runs'[r], m) + Credit(m)'
                 <= Count(m) + ShareOf(runs[r], m) + Credit(m)
                      + (IF faults' = faults THEN 0 ELSE 2)
    <3>1. /\ Credit(m) \in 0..1 /\ Credit(m)' \in 0..1 /\ Count(m) \in Nat
          /\ ShareOf(runs[r], m) = 0 /\ ShareOf(runs'[r], m) \in 0..2
      BY <1>1, SharesAreCounts, CountsAreNumbers DEF Credit, ShareOf
    <3>2. Open(m)' <=> inbound[m] \notin Settled
      BY <1>1, <1>6 DEF Open
    <3>3. ShareOf(runs'[r], m) + Credit(m)' <= Credit(m) + 2
      <4>1. CASE ShareOf(runs'[r], m) \in 0..1
        BY <3>1, <4>1
      <4>2. CASE ShareOf(runs'[r], m) = 2
        <5>1. MsgOf(r) = m /\ runs[r].pc \in {"reading", "claiming"}
          BY <1>3, <4>2 DEF ShareOf, MsgOf
        <5>2. \A s \in Attached : s = r
          BY <1>0, <1>6 DEF Solo
        <5>3. Open(m)' => Open(m)
          BY <1>6, <3>2, <5>1, <5>2 DEF Open
        <5> QED  BY <3>1, <4>2, <5>3 DEF Credit
      <4> QED  BY <3>1, <4>1, <4>2
    <3> QED  BY <1>4, <1>9, <3>1, <3>3
  <2> QED  BY <1>0, <1>3, <1>4, <1>7, <2>1, BudgetKept
<1>13. Covered'
  <2>1. ASSUME NEW m \in Messages
        PROVE  enrich'[m] + EnrichesOf(runs'[r], m) + Count(m)
                 <= enrich[m] + EnrichesOf(runs[r], m) + Count(m)'
    <3>1. EnrichesOf(runs'[r], m) = EnrichesOf(runs[r], m) /\ EnrichesOf(runs[r], m) \in 0..1
      BY <1>3 DEF EnrichesOf, Enriches
    <3>2. enrich[m] \in Nat /\ Count(m) \in Nat
      BY <1>0, CountsAreNumbers DEF TypeOK
    <3> QED  BY <1>1, <1>9, <3>1, <3>2
  <2> QED  BY <1>0, <1>3, <1>4, <1>7, <2>1, CoverKept
<1>14. Faultless'
  BY <1>4 DEF Faultless
<1> QED  BY <1>4, <1>7, <1>9, <1>10, <1>11, <1>12, <1>13, <1>14 DEF IInv

LEMMA ApiCrashStep ==
  ASSUME IInv, ApiCrash
  PROVE  IInv'
<1>0. TypeOK /\ Solo /\ Numbers /\ Answering /\ Budgeted /\ Covered
  BY DEF IInv
<1>1. /\ Fault /\ runs' = [r \in Runs |-> IdleRun]
      /\ posting' = {} /\ listed' = {}
      /\ orphaned' = [job \in Job |->
           orphaned[job] + Cardinality({r \in Attached : runs[r].job = job})]
      /\ UNCHANGED <<inbound, drafts, now, waiting, enrich, outlived, sweeps>>
  BY DEF ApiCrash
<1>2. faults \in Nat /\ faults' = faults + 1 /\ faults' \in 0..MaxFaults
  BY <1>0, <1>1, BoundsAreCounts DEF TypeOK, Fault
<1>3. Busy' = {} /\ Attached' = {}
  BY <1>1 DEF Busy, BusyIn, Attached, IdleRun
<1>4. orphaned' \in Queues
  <2>1. ASSUME NEW job \in Job
        PROVE  Cardinality({r \in Attached : runs[r].job = job}) \in Nat
    <3>1. {r \in Attached : runs[r].job = job} \in SUBSET Busy
      BY DEF Attached, Busy, BusyIn
    <3> QED  BY <1>0, <3>1, FS_Subset, FS_CardinalityType DEF Solo
  <2>2. \A job \in Job : orphaned[job] \in Nat
    BY <1>0 DEF TypeOK, Queues
  <2>3. \A job \in Job :
          orphaned[job] + Cardinality({r \in Attached : runs[r].job = job}) \in Nat
    BY <2>1, <2>2
  <2> QED  BY <1>1, <2>3 DEF Queues
<1>5. TypeOK'
  BY <1>0, <1>1, <1>2, <1>4 DEF TypeOK, RunStates
<1>6. Numbers' /\ \A m : DraftsOf(m)' = DraftsOf(m) /\ Count(m)' = Count(m)
  BY <1>0, <1>1, SameDrafts
<1>7. Solo' /\ Unsettled' /\ Faultless'
  BY <1>0, <1>1, <1>2, <1>3, FS_EmptySet DEF Solo, Unsettled, Faultless
<1>8. Answering'
  <2>1. DoneIsAnswered'
    BY <1>0, <1>1, <1>6 DEF Answering, DoneIsAnswered
  <2> QED  BY <1>0, <1>1, <1>3, <2>1 DEF Answering
<1>9. Budgeted'
  <2> SUFFICES ASSUME NEW m \in Messages
               PROVE  Count(m)' + Cardinality(Owed(m)') + Credit(m)' <= 1 + 2 * faults'
    BY DEF Budgeted
  <2>1. Cardinality(Owed(m)') = 0
    <3>1. Owed(m)' = {}
      BY <1>3 DEF Owed, OwedIn, Busy
    <3> QED  BY <3>1, FS_EmptySet
  <2>2. Credit(m) \in 0..1 /\ Credit(m)' \in 0..1 /\ Count(m) \in Nat
    BY CountsAreNumbers DEF Credit
  <2>3. Cardinality(Owed(m)) \in Nat
    BY <1>0, OwedIsFinite DEF Solo, Owed, Busy
  <2>4. Count(m) + Cardinality(Owed(m)) + Credit(m) <= 1 + 2 * faults
    BY <1>0 DEF Budgeted
  <2> QED  BY <1>2, <1>6, <2>1, <2>2, <2>3, <2>4
<1>10. Covered'
  <2> SUFFICES ASSUME NEW m \in Messages
               PROVE  enrich'[m] + Cardinality(Enriching(m)') <= Count(m)'
    BY DEF Covered
  <2>1. Cardinality(Enriching(m)') = 0
    <3>1. Enriching(m)' = {}
      BY <1>3 DEF Enriching, EnrichingIn, Busy
    <3> QED  BY <3>1, FS_EmptySet
  <2>2. Cardinality(Enriching(m)) \in Nat
    <3>1. Enriching(m) \in SUBSET Busy
      BY DEF Enriching, EnrichingIn, Busy
    <3> QED  BY <1>0, <3>1, FS_Subset, FS_CardinalityType DEF Solo
  <2>3. enrich[m] \in Nat /\ Count(m) \in Nat /\ enrich[m] + Cardinality(Enriching(m)) <= Count(m)
    BY <1>0, CountsAreNumbers DEF TypeOK, Covered
  <2> QED  BY <1>1, <1>6, <2>1, <2>2, <2>3
<1> QED  BY <1>5, <1>6, <1>7, <1>8, <1>9, <1>10 DEF IInv

\* The API and the queue leave the executions and what they have stored; a
\* message that is posted is open as it was before.
LEMMA OutsideStep ==
  ASSUME IInv, UNCHANGED <<drafts, now, runs, enrich, outlived>>,
         \A m \in Messages :
           inbound'[m] = inbound[m] \/ (inbound[m] = Absent /\ inbound'[m] = "PENDING"),
         TypeOK', faults \in Nat, faults' \in {faults, faults + 1}
  PROVE  IInv'
<1>0. TypeOK /\ Solo /\ Numbers /\ Unsettled /\ Answering /\ Budgeted /\ Covered /\ Faultless
  BY DEF IInv
<1>1. /\ Busy' = Busy /\ Attached' = Attached
      /\ faults' = 0 => faults = 0
  BY DEF Busy, BusyIn, Attached
<1>2. Numbers' /\ \A m : DraftsOf(m)' = DraftsOf(m) /\ Count(m)' = Count(m)
  BY <1>0, SameDrafts
<1>3. \A m \in Messages :
        /\ inbound'[m] \in Settled <=> inbound[m] \in Settled
        /\ inbound'[m] = "DONE" <=> inbound[m] = "DONE"
        /\ inbound[m] \in {"PENDING", "PROCESSING"} => inbound'[m] \in {"PENDING", "PROCESSING"}
  BY DEF Settled, Absent
<1>4. \A s \in Busy : s \in Runs /\ runs[s].job.msg \in Messages
  BY <1>0, MessageOfRun DEF Busy, BusyIn, MsgOf
<1>5. Solo'
  BY <1>0, <1>1 DEF Solo, MsgOf
<1>6. Unsettled'
  BY <1>0, <1>1, <1>3, <1>4 DEF Unsettled, MsgOf
<1>7. Answering'
  <2>1. DoneIsAnswered'
    BY <1>0, <1>2, <1>3 DEF Answering, DoneIsAnswered
  <2> QED  BY <1>0, <1>1, <2>1 DEF Answering, DraftsOf, MsgOf
<1>8. Budgeted'
  <2> SUFFICES ASSUME NEW m \in Messages
               PROVE  Count(m)' + Cardinality(Owed(m)') + Credit(m)' <= 1 + 2 * faults'
    BY DEF Budgeted
  <2>1. Owed(m)' = Owed(m) /\ Credit(m)' = Credit(m)
    BY <1>1, <1>3 DEF Owed, Credit, Open, MsgOf
  <2>2. Count(m) + Cardinality(Owed(m)) + Credit(m) <= 1 + 2 * faults
    BY <1>0 DEF Budgeted
  <2>3. /\ Credit(m) \in Nat /\ Count(m) \in Nat /\ Cardinality(Owed(m)) \in Nat
    BY <1>0, CountsAreNumbers, OwedIsFinite DEF Credit, Solo, Owed, Busy
  <2> QED  BY <1>2, <2>1, <2>2, <2>3
<1>9. Covered'
  BY <1>0, <1>2 DEF Covered, Enriching
<1>10. Faultless'
  <2> SUFFICES ASSUME faults = 0 PROVE Faultless'
    BY <1>1 DEF Faultless
  <2>1. /\ \A m \in Messages :
             /\ inbound'[m] # "DONE" => enrich'[m] = 0
             /\ inbound'[m] = "DONE" =>
                  enrich'[m] = 1 \/ \E s \in Busy : runs[s].pc = "enriching" /\ MsgOf(s) = m
        /\ \A s \in Busy :
             /\ runs[s].pc = "failing" => inbound'[MsgOf(s)] \notin Settled
             /\ runs[s].pc = "enriching" => inbound'[MsgOf(s)] = "DONE" /\ enrich'[MsgOf(s)] = 0
    BY <1>0, <1>3, <1>4 DEF Faultless, MsgOf
  <2> QED  BY <1>1, <2>1 DEF Faultless, MsgOf
<1> QED  BY <1>2, <1>5, <1>6, <1>7, <1>8, <1>9, <1>10 DEF IInv

-----------------------------------------------------------------------------
\* The invariant.

LEMMA InitIInv == Init => IInv
<1> SUFFICES ASSUME Init PROVE IInv
  OBVIOUS
<1>1. TypeOK
  BY BoundsAreCounts
     DEF Init, TypeOK, Queues, EmptyQueue, EmptyTable, NewRow, Row, RunStates, InboundStatus
<1>2. Busy = {} /\ Attached = {}
  BY DEF Init, Busy, BusyIn, Attached, IdleRun
<1>3. \A d \in Drafts : drafts[d].status = Absent
  BY DEF Init, EmptyTable, NewRow
<1>4. \A m : Count(m) = 0
  <2>1. \A m : DraftsOf(m) = {}
    BY <1>3 DEF DraftsOf
  <2> QED  BY <2>1, FS_EmptySet DEF Count
<1>5. Solo /\ Unsettled
  BY <1>2, FS_EmptySet DEF Init, Solo, Unsettled
<1>6. Numbers
  <2> SUFFICES ASSUME NEW m \in Messages, NEW d \in Drafts, d[1] = m
               PROVE  ~(d[2] <= Count(m))
    BY <1>3 DEF Numbers
  <2>1. d[2] \in 1..MaxDrafts
    BY DraftsAreNumbered
  <2> QED  BY <1>4, <2>1, BoundsAreCounts
<1>7. Answering
  BY <1>2, <1>3 DEF Init, Answering, DoneIsAnswered, Absent
<1>8. Budgeted
  <2> SUFFICES ASSUME NEW m \in Messages
               PROVE  Count(m) + Cardinality(Owed(m)) + Credit(m) <= 1 + 2 * faults
    BY DEF Budgeted
  <2>1. Cardinality(Owed(m)) = 0
    <3>1. Owed(m) = {}
      BY <1>2 DEF Owed, OwedIn, Busy
    <3> QED  BY <3>1, FS_EmptySet
  <2>2. Credit(m) \in 0..1 /\ faults = 0
    BY DEF Credit, Init
  <2> QED  BY <1>4, <2>1, <2>2
<1>9. Covered
  <2> SUFFICES ASSUME NEW m \in Messages
               PROVE  enrich[m] + Cardinality(Enriching(m)) <= Count(m)
    BY DEF Covered
  <2>1. Cardinality(Enriching(m)) = 0
    <3>1. Enriching(m) = {}
      BY <1>2 DEF Enriching, EnrichingIn, Busy
    <3> QED  BY <3>1, FS_EmptySet
  <2> QED  BY <1>4, <2>1 DEF Init
<1>10. Faultless
  BY <1>2 DEF Init, Faultless, Absent
<1> QED  BY <1>1, <1>5, <1>6, <1>7, <1>8, <1>9, <1>10 DEF IInv

LEMMA RunKeepsIInv ==
  ASSUME IInv, NEW r \in Runs, RunStep(r) \/ Throws(r) \/ Expire(r)
  PROVE  IInv'
<1>1. ASSUME NEW job \in Job, StartJob(r, job) PROVE IInv'
  BY <1>1, StartJobStep
<1>2. CASE ReadInbound(r)
  BY <1>2, ReadInboundStep
<1>3. CASE Claim(r)
  BY <1>3, ClaimStep
<1>4. ASSUME NEW status \in {"DRAFTED", "APPROVED", "REJECTED"}, Compose(r, status) PROVE IInv'
  BY <1>4, ComposeStep
<1>5. CASE Supersede(r)
  BY <1>5, SupersedeStep
<1>6. CASE Finish(r)
  BY <1>6, FinishStep
<1>7. CASE EnqueueEnrichment(r)
  BY <1>7, EnqueueEnrichmentStep
<1>8. CASE StepFails(r)
  BY <1>8, StepFailsStep
<1>9. CASE MarkFailed(r)
  BY <1>9, MarkFailedStep
<1>10. CASE Throws(r)
  BY <1>10, ThrowsStep
<1>11. CASE Expire(r)
  BY <1>11, ExpireStep
<1> QED  BY <1>1, <1>2, <1>3, <1>4, <1>5, <1>6, <1>7, <1>8, <1>9, <1>10, <1>11 DEF RunStep

\* Steps that leave the executions to themselves, the types included.
LEMMA QuietOutside ==
  ASSUME IInv, UNCHANGED <<drafts, now, runs, enrich, outlived>>,
         \A m \in Messages :
           inbound'[m] = inbound[m] \/ (inbound[m] = Absent /\ inbound'[m] = "PENDING"),
         inbound' \in [Messages -> InboundStatus],
         posting' \subseteq Messages, listed' \subseteq Messages,
         waiting' \in Queues, orphaned' \in Queues,
         sweeps' \in 0..MaxSweeps, faults' = faults \/ Fault
  PROVE  IInv'
<1>0. TypeOK
  BY DEF IInv
<1>1. faults \in Nat /\ faults' \in {faults, faults + 1} /\ faults' \in 0..MaxFaults
  BY <1>0, BoundsAreCounts DEF TypeOK, Fault
<1>2. TypeOK'
  BY <1>0, <1>1 DEF TypeOK
<1> QED  BY <1>1, <1>2, OutsideStep

LEMMA StepKeepsIInv == IInv /\ [Next]_vars => IInv'
<1> SUFFICES ASSUME IInv, [Next]_vars PROVE IInv'
  OBVIOUS
<1>0. TypeOK
  BY DEF IInv
<1>1. ASSUME NEW r \in Runs, RunStep(r) \/ Throws(r) \/ Expire(r) PROVE IInv'
  BY <1>1, RunKeepsIInv
<1>2. CASE ApiCrash
  BY <1>2, ApiCrashStep
<1>3. ASSUME NEW m \in Messages, PostInbound(m) PROVE IInv'
  <2>1. /\ inbound[m] = Absent /\ inbound' = [inbound EXCEPT ![m] = "PENDING"]
        /\ posting' = posting \cup {m}
        /\ UNCHANGED <<drafts, now, listed, waiting, orphaned, runs, enrich, outlived,
                       sweeps, faults>>
    BY <1>3 DEF PostInbound
  <2>2. /\ inbound' \in [Messages -> InboundStatus]
        /\ \A e \in Messages :
             inbound'[e] = inbound[e] \/ (inbound[e] = Absent /\ inbound'[e] = "PENDING")
    BY <1>0, <2>1 DEF TypeOK, InboundStatus
  <2> QED  BY <1>0, <2>1, <2>2, QuietOutside DEF TypeOK
<1>4. ASSUME NEW m \in Messages, EnqueuePosted(m) \/ EnqueueFails(m) \/ EnqueueListed(m)
      PROVE  IInv'
  <2>1. /\ UNCHANGED <<inbound, drafts, now, orphaned, runs, enrich, outlived, sweeps>>
        /\ posting' \subseteq posting /\ listed' \subseteq listed
        /\ waiting' \in {waiting, Put(waiting, NewJob(m))}
        /\ faults' = faults \/ Fault
    BY <1>4 DEF EnqueuePosted, EnqueueFails, EnqueueListed
  <2>2. waiting' \in Queues
    BY <1>0, <2>1, NewJobIsJob, QueuesStay DEF TypeOK
  <2> QED  BY <1>0, <2>1, <2>2, QuietOutside DEF TypeOK
<1>5. CASE ProcessPending
  <2>1. /\ UNCHANGED <<inbound, drafts, now, posting, waiting, orphaned, runs, enrich,
                       outlived, faults>>
        /\ listed' \subseteq Messages /\ sweeps < MaxSweeps /\ sweeps' = sweeps + 1
    BY <1>5 DEF ProcessPending
  <2>2. sweeps' \in 0..MaxSweeps
    BY <1>0, <2>1, BoundsAreCounts DEF TypeOK
  <2> QED  BY <1>0, <2>1, <2>2, QuietOutside DEF TypeOK
<1>6. ASSUME NEW job \in Job, OrphanExpires(job) PROVE IInv'
  <2>1. /\ UNCHANGED <<inbound, drafts, now, posting, listed, runs, enrich, outlived,
                       sweeps, faults>>
        /\ orphaned[job] > 0 /\ orphaned' = Take(orphaned, job)
        /\ waiting' = Retry(waiting, job)
    BY <1>6 DEF OrphanExpires
  <2>2. orphaned' \in Queues /\ waiting' \in Queues
    BY <1>0, <2>1, QueuesStay DEF TypeOK
  <2> QED  BY <1>0, <2>1, <2>2, QuietOutside DEF TypeOK
<1>7. CASE UNCHANGED vars
  <2>1. /\ UNCHANGED <<inbound, drafts, now, posting, listed, waiting, orphaned, runs>>
        /\ UNCHANGED <<enrich, outlived, sweeps, faults>>
    BY <1>7 DEF vars
  <2> QED  BY <1>0, <2>1, QuietOutside DEF TypeOK
<1> QED  BY <1>1, <1>2, <1>3, <1>4, <1>5, <1>6, <1>7 DEF Next, Api

\* Whatever the deliveries, expiries, crashes, sweeps and lost answers, the
\* invariant holds: the theorems below follow from it.
THEOREM InductiveInvariant == Spec => []IInv
<1> QED  BY InitIInv, StepKeepsIInv, PTL DEF Spec

\* Every variable has its type: queues never go below zero, an execution is in
\* a phase of processInboundJob with a job of its queue.
THEOREM TypeCorrect == Spec => []TypeOK
<1>1. IInv => TypeOK
  BY DEF IInv
<1> QED  BY <1>1, InductiveInvariant, PTL

\* A message in status DONE has a draft that leaves no older draft of its
\* thread to review, whichever executions overlap.
THEOREM DoneIsAnsweredHolds == Spec => []DoneIsAnswered
<1>1. IInv => DoneIsAnswered
  BY DEF IInv, Answering
<1> QED  BY <1>1, InductiveInvariant, PTL

\* A message has one draft and at most two more for every fault; it is enriched
\* at most once per draft, and exactly once if nothing went wrong.
THEOREM DraftsAreExplainedHolds == Spec => []DraftsAreExplained
<1>1. IInv => DraftsAreExplained
  <2> SUFFICES ASSUME IInv PROVE DraftsAreExplained
    OBVIOUS
  <2>0. TypeOK /\ Solo /\ Budgeted /\ Covered /\ Faultless
    BY DEF IInv
  <2>1. ASSUME NEW m \in Messages
        PROVE  Count(m) <= 1 + 2 * faults /\ enrich[m] <= Count(m)
    <3>1. /\ Count(m) \in Nat /\ Credit(m) \in Nat /\ enrich[m] \in Nat /\ faults \in Nat
      BY <2>0, CountsAreNumbers, BoundsAreCounts DEF Credit, TypeOK
    <3>2. Cardinality(Owed(m)) \in Nat
      BY <2>0, OwedIsFinite DEF Solo, Owed, Busy
    <3>3. Cardinality(Enriching(m)) \in Nat
      <4>1. Enriching(m) \in SUBSET Busy
        BY DEF Enriching, EnrichingIn, Busy
      <4> QED  BY <2>0, <4>1, FS_Subset, FS_CardinalityType DEF Solo
    <3>4. /\ Count(m) + Cardinality(Owed(m)) + Credit(m) <= 1 + 2 * faults
          /\ enrich[m] + Cardinality(Enriching(m)) <= Count(m)
      BY <2>0 DEF Budgeted, Covered
    <3> QED  BY <3>1, <3>2, <3>3, <3>4
  <2>2. RedraftsExplained
    BY <2>1 DEF RedraftsExplained, Count
  <2>3. EnrichmentFollowsDraft
    BY <2>0, <2>1 DEF EnrichmentFollowsDraft, Faultless, Count, Busy, BusyIn
  <2> QED  BY <2>2, <2>3 DEF DraftsAreExplained
<1> QED  BY <1>1, InductiveInvariant, PTL

\* An answered or failed message is not taken up again, by no redelivery, sweep
\* or crash, unless an execution outlived its job.
THEOREM SettledStandsHolds == Spec => SettledStands
<1> DEFINE Stands ==
      \A m \in Messages \ outlived : inbound[m] \in Settled => inbound'[m] \in Settled
<1>1. IInv /\ [Next]_vars => [Stands]_vars
  <2> SUFFICES ASSUME IInv, Next, NEW m \in Messages \ outlived, inbound[m] \in Settled
               PROVE  inbound'[m] \in Settled
    OBVIOUS
  <2>0. TypeOK /\ Unsettled
    BY DEF IInv
  <2>1. ASSUME NEW r \in Runs, RunStep(r) \/ Throws(r) \/ Expire(r)
        PROVE  \/ UNCHANGED inbound
               \/ \E status \in Settled : inbound' = [inbound EXCEPT ![MsgOf(r)] = status]
               \/ /\ runs[r].pc = "claiming"
                  /\ inbound' = [inbound EXCEPT ![MsgOf(r)] = "PROCESSING"]
    BY <2>1 DEF RunStep, StartJob, ReadInbound, Claim, Compose, Supersede, Finish,
       EnqueueEnrichment, StepFails, MarkFailed, Throws, Expire, Settled
  <2>2. ASSUME NEW r \in Runs, RunStep(r) \/ Throws(r) \/ Expire(r)
        PROVE  inbound'[m] \in Settled
    <3>1. CASE UNCHANGED inbound
      BY <3>1
    <3>2. ASSUME NEW status \in Settled, inbound' = [inbound EXCEPT ![MsgOf(r)] = status]
          PROVE  inbound'[m] \in Settled
      BY <2>0, <3>2 DEF TypeOK
    <3>3. CASE /\ runs[r].pc = "claiming"
               /\ inbound' = [inbound EXCEPT ![MsgOf(r)] = "PROCESSING"]
      <4>1. MsgOf(r) # m
        BY <2>0, <3>3 DEF Unsettled, Busy, BusyIn, Settled
      <4> QED  BY <2>0, <3>3, <4>1 DEF TypeOK
    <3> QED  BY <2>1, <2>2, <3>1, <3>2, <3>3
  <2>3. ASSUME NEW n \in Messages, PostInbound(n) PROVE inbound'[m] \in Settled
    <3>1. inbound[n] = Absent /\ inbound' = [inbound EXCEPT ![n] = "PENDING"]
      BY <2>3 DEF PostInbound
    <3>2. n # m
      BY <3>1 DEF Settled, Absent
    <3> QED  BY <2>0, <3>1, <3>2 DEF TypeOK
  <2>4. ASSUME \/ ApiCrash \/ ProcessPending
               \/ \E n \in Messages : EnqueuePosted(n) \/ EnqueueFails(n) \/ EnqueueListed(n)
               \/ \E job \in Job : OrphanExpires(job)
        PROVE  UNCHANGED inbound
    BY <2>4 DEF ApiCrash, ProcessPending, EnqueuePosted, EnqueueFails, EnqueueListed, OrphanExpires
  <2> QED  BY <2>2, <2>3, <2>4 DEF Next, Api
<1> QED  BY <1>1, InductiveInvariant, PTL DEF Spec, SettledStands
=============================================================================
