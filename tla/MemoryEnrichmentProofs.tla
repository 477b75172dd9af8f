------------------------ MODULE MemoryEnrichmentProofs ------------------------
(***************************************************************************)
(* Proofs about MemoryEnrichment for any messages, any number of           *)
(* executions that overlap, any retry limit and any number of faults.      *)
(*                                                                         *)
(* IInv is the inductive invariant: at most one execution has a job        *)
(* (Solo), what an execution read of the narrative is current as long as   *)
(* its version is (Versioned, Narrated), who writes an outcome found none  *)
(* (Unsettled), and a message's events and what may still be inserted for  *)
(* it are paid for by its first answer or by a fault (Budgeted).           *)
(***************************************************************************)
EXTENDS MemoryEnrichment, FiniteSetTheorems, TLAPS

Recorded == {"success", "skipped"}

Busy == {r \in Runs : runs[r].pc # "idle"}

\* The phases between reading the narrative and writing it.
Composing == {"asking", "entities", "events", "narrating"}

\* One execution has a job; the others have outlived theirs.
Solo ==
  /\ IsFiniteSet(Busy)
  /\ \A r, s \in Attached : r = s
  /\ \A r \in Busy : ~runs[r].attached => MsgOf(r) \in outlived

\* A narrative an execution has read is the one stored or an older one.
Versioned ==
  /\ narrative.version = 0 => narrative.covers = {}
  /\ \A r \in Busy : runs[r].pc \in Composing =>
       /\ runs[r].prior.version <= narrative.version
       /\ runs[r].prior.version = narrative.version => runs[r].prior = narrative

\* While no execution has outlived its job, no upsert meets a conflict.
Narrated ==
  outlived = {} =>
    /\ promised \subseteq narrative.covers
    /\ \A r \in Busy :
         /\ runs[r].pc \in Composing => runs[r].prior = narrative
         /\ runs[r].pc = "recording" /\ runs[r].answer.delta =>
              MsgOf(r) \in narrative.covers

\* Who is past the check of the record found none, and nobody makes one meanwhile.
Unsettled ==
  \A r \in Busy :
    runs[r].pc \notin {"reading", "checking", "failing"} /\ MsgOf(r) \notin outlived
      => record[MsgOf(r)] \notin Recorded

\* The events an execution may still insert for a message: those of its answer,
\* and those of an answer to come if no job would bring that one.
ShareOf(run, m) ==
  IF run.pc = "idle" THEN 0
  ELSE IF run.job.msg # m THEN 0
  ELSE IF run.pc \in {"entities", "events"} THEN run.answer.events
  ELSE IF ~run.attached /\ run.pc \in {"reading", "checking", "recalling", "asking", "failing"}
       THEN MaxEvents ELSE 0

\* A job of the message may still bring an answer.
Open(m) ==
  \/ \E r \in Attached : MsgOf(r) = m /\ runs[r].pc \in {"recalling", "asking", "failing"}
  \/ /\ record[m] \notin Recorded
     /\ \A r \in Attached : MsgOf(r) = m =>
          runs[r].pc \notin {"entities", "events", "narrating", "recording"}

Credit(m) == IF Open(m) THEN MaxEvents ELSE 0

\* The events the executions may still insert, counted one by one.
BusyIn(table) == {r \in Runs : table[r].pc # "idle"}
OwedIn(table, m) ==
  {p \in BusyIn(table) \X (1..MaxEvents) : p[2] <= ShareOf(table[p[1]], m)}
Owed(m) == OwedIn(runs, m)

Budgeted ==
  \A m \in Messages :
    events[m] + Cardinality(Owed(m)) + Credit(m) <= MaxEvents * (1 + faults)

IInv == TypeOK /\ Solo /\ Versioned /\ Narrated /\ Unsettled /\ Budgeted

-----------------------------------------------------------------------------
\* Executions.

Phases == {"reading", "checking", "skipping", "recalling", "asking", "entities",
           "events", "narrating", "recording", "failing"}

Working ==
  [pc : Phases, job : Job, attached : BOOLEAN, prior : Narratives,
   answer : [events : 0..MaxEvents, delta : BOOLEAN]]

LEMMA RunStatesAre == RunStates = {IdleRun} \cup Working
BY DEF RunStates, Working, Phases

LEMMA IdleOrWorking ==
  ASSUME TypeOK, NEW r \in Runs
  PROVE  /\ runs[r].pc = "idle" <=> runs[r] = IdleRun
         /\ runs[r].pc # "idle" => runs[r] \in Working
<1>1. runs[r] = IdleRun \/ runs[r] \in Working
  BY RunStatesAre DEF TypeOK
<1>2. IdleRun.pc = "idle"
  BY DEF IdleRun
<1>3. \A run \in Working : run.pc # "idle"
  BY DEF Working, Phases
<1> QED  BY <1>1, <1>2, <1>3

\* Execution r, and no other, takes a step with its job, or returns.
Advances(r) ==
  /\ runs[r].pc # "idle"
  /\ \A s \in Runs \ {r} : runs'[s] = runs[s]
  /\ \/ runs'[r] = IdleRun
     \/ /\ runs'[r] \in Working
        /\ runs'[r].job = runs[r].job
        /\ runs'[r].attached = runs[r].attached
  /\ runs' \in [Runs -> RunStates]

LEMMA ReturnAdvances ==
  ASSUME TypeOK, NEW r \in Runs, runs[r].pc # "idle", Return(r)
  PROVE  Advances(r) /\ runs'[r] = IdleRun
BY RunStatesAre DEF Return, Advances, TypeOK

LEMMA GotoAdvances ==
  ASSUME TypeOK, NEW r \in Runs, runs[r].pc # "idle", NEW pc \in Phases, Goto(r, pc)
  PROVE  /\ Advances(r)
         /\ runs'[r] = [runs[r] EXCEPT !.pc = pc]
         /\ runs'[r].pc = pc
         /\ runs'[r].prior = runs[r].prior /\ runs'[r].answer = runs[r].answer
         /\ runs'[r].job = runs[r].job /\ runs'[r].attached = runs[r].attached
<1>1. runs[r] \in Working
  BY IdleOrWorking
<1>2. runs' = [runs EXCEPT ![r] = [runs[r] EXCEPT !.pc = pc]] /\ runs \in [Runs -> RunStates]
  BY DEF Goto, TypeOK
<1>3. [runs[r] EXCEPT !.pc = pc] \in Working
  BY <1>1 DEF Working
<1>4. runs'[r] = [runs[r] EXCEPT !.pc = pc] /\ runs'[r] \in Working
  BY <1>2, <1>3
<1>5. /\ runs'[r].pc = pc /\ runs'[r].job = runs[r].job
      /\ runs'[r].attached = runs[r].attached
      /\ runs'[r].prior = runs[r].prior /\ runs'[r].answer = runs[r].answer
  BY <1>1, <1>4 DEF Working
<1> QED  BY <1>2, <1>3, <1>4, <1>5, RunStatesAre DEF Advances

LEMMA SoloAdvances ==
  ASSUME TypeOK, Solo, NEW r \in Runs, Advances(r), UNCHANGED outlived
  PROVE  Solo'
<1>1. Busy' \subseteq Busy
  BY DEF Busy, Advances
<1>2. IsFiniteSet(Busy')
  BY <1>1, FS_Subset DEF Solo
<1>3. IdleRun.pc = "idle"
  BY DEF IdleRun
<1>4. \A s \in Attached' : s \in Attached
  BY <1>3 DEF Attached, Advances
<1>5. \A s \in Busy' : /\ s \in Busy /\ runs'[s].attached = runs[s].attached
                       /\ MsgOf(s)' = MsgOf(s)
  BY <1>1, <1>3 DEF Busy, Advances, MsgOf
<1> QED  BY <1>2, <1>4, <1>5 DEF Solo

-----------------------------------------------------------------------------
\* The budget of events.

LEMMA SharesAreCounts ==
  ASSUME NEW run \in RunStates, NEW m \in Messages
  PROVE  ShareOf(run, m) \in 0..MaxEvents
<1>1. CASE run = IdleRun
  BY <1>1, EventsAreCounted DEF ShareOf, IdleRun
<1>2. CASE run \in Working
  <2>1. run.answer.events \in 0..MaxEvents
    BY <1>2 DEF Working
  <2> QED  BY <2>1, EventsAreCounted DEF ShareOf
<1> QED  BY <1>1, <1>2, RunStatesAre

\* What is owed by the other executions.
OwedBesides(table, r, m) == {p \in OwedIn(table, m) : p[1] # r}

LEMMA PairsCount ==
  ASSUME NEW r, NEW k \in Nat
  PROVE  IsFiniteSet({r} \X (1..k)) /\ Cardinality({r} \X (1..k)) = k
<1>1. IsFiniteSet({r}) /\ Cardinality({r}) = 1
  BY FS_Singleton
<1>2. IsFiniteSet(1..k) /\ Cardinality(1..k) = k
  BY FS_Interval
<1>3. /\ IsFiniteSet({r} \X (1..k))
      /\ Cardinality({r} \X (1..k)) = Cardinality({r}) * Cardinality(1..k)
  BY <1>1, <1>2, FS_Product, Zenon
<1> QED  BY <1>1, <1>2, <1>3

LEMMA OwedIsFinite ==
  ASSUME NEW table, IsFiniteSet(BusyIn(table)), NEW m
  PROVE  IsFiniteSet(OwedIn(table, m)) /\ Cardinality(OwedIn(table, m)) \in Nat
<1>1. IsFiniteSet(1..MaxEvents)
  BY FS_Interval, EventsAreCounted
<1>2. IsFiniteSet(BusyIn(table) \X (1..MaxEvents))
  BY <1>1, FS_Product
<1>3. OwedIn(table, m) \in SUBSET (BusyIn(table) \X (1..MaxEvents))
  BY DEF OwedIn
<1> QED  BY <1>2, <1>3, FS_Subset, FS_CardinalityType

LEMMA OwedSplits ==
  ASSUME NEW table \in [Runs -> RunStates], IsFiniteSet(BusyIn(table)),
         NEW r \in Runs, NEW m \in Messages
  PROVE  /\ IsFiniteSet(OwedBesides(table, r, m))
         /\ Cardinality(OwedBesides(table, r, m)) \in Nat
         /\ Cardinality(OwedIn(table, m))
              = Cardinality(OwedBesides(table, r, m)) + ShareOf(table[r], m)
<1> DEFINE k == ShareOf(table[r], m)
           mine == {r} \X (1..k)
<1>1. k \in Nat /\ k <= MaxEvents
  BY SharesAreCounts, EventsAreCounted
<1>2. IsFiniteSet(OwedIn(table, m))
  BY OwedIsFinite
<1>3. IsFiniteSet(OwedBesides(table, r, m)) /\ Cardinality(OwedBesides(table, r, m)) \in Nat
  <2>1. OwedBesides(table, r, m) \in SUBSET OwedIn(table, m)
    BY DEF OwedBesides
  <2> QED  BY <1>2, <2>1, FS_Subset, FS_CardinalityType
<1>4. IsFiniteSet(mine) /\ Cardinality(mine) = k
  BY <1>1, PairsCount
<1>5. OwedIn(table, m) = OwedBesides(table, r, m) \cup mine
  <2>1. ASSUME NEW p, p \in OwedIn(table, m) PROVE p \in OwedBesides(table, r, m) \cup mine
    <3>1. p \in BusyIn(table) \X (1..MaxEvents) /\ p[2] <= ShareOf(table[p[1]], m)
      BY <2>1 DEF OwedIn
    <3>2. CASE p[1] = r
      <4>1. p = <<r, p[2]>> /\ p[2] \in 1..k
        BY <1>1, <3>1, <3>2, EventsAreCounted
      <4> QED  BY <4>1
    <3>3. CASE p[1] # r
      BY <2>1, <3>3 DEF OwedBesides
    <3> QED  BY <3>2, <3>3
  <2>2. ASSUME NEW p, p \in mine PROVE p \in OwedIn(table, m)
    <3>1. p = <<r, p[2]>> /\ p[2] \in 1..k
      BY <2>2
    <3>2. table[r].pc # "idle"
      BY <1>1, <3>1, EventsAreCounted DEF ShareOf
    <3>3. p[1] = r /\ p[2] \in 1..MaxEvents /\ r \in BusyIn(table) /\ p[2] <= k
      BY <1>1, <3>1, <3>2, EventsAreCounted DEF BusyIn
    <3>4. p \in BusyIn(table) \X (1..MaxEvents)
      BY <3>1, <3>3
    <3> QED  BY <3>3, <3>4 DEF OwedIn
  <2> QED  BY <2>1, <2>2 DEF OwedBesides
<1>6. OwedBesides(table, r, m) \cap mine = {}
  BY DEF OwedBesides
<1>7. Cardinality({}) = 0
  BY FS_EmptySet
<1> HIDE DEF mine, k
<1>8. Cardinality(OwedIn(table, m)) = Cardinality(OwedBesides(table, r, m)) + k - 0
  BY <1>3, <1>4, <1>5, <1>6, <1>7, FS_Union
<1> QED  BY <1>1, <1>3, <1>8 DEF k

LEMMA OneFaultMore ==
  ASSUME NEW f \in Nat
  PROVE  MaxEvents * (1 + (f + 1)) = MaxEvents * (1 + f) + MaxEvents
BY EventsAreCounted

\* What the step of one execution adds, to what is inserted or may be, is paid
\* by a fault.
LEMMA BudgetKept ==
  ASSUME TypeOK, TypeOK', Solo, Solo', Budgeted, NEW r \in Runs,
         \A s \in Runs \ {r} : runs'[s] = runs[s],
         faults' \in {faults, faults + 1},
         \A m \in Messages :
           events'[m] + ShareOf(runs'[r], m) + Credit(m)'
             <= events[m] + ShareOf(runs[r], m) + Credit(m)
                  + (IF faults' = faults THEN 0 ELSE MaxEvents)
  PROVE  Budgeted'
<1> SUFFICES ASSUME NEW m \in Messages
             PROVE  events'[m] + Cardinality(Owed(m)') + Credit(m)'
                      <= MaxEvents * (1 + faults')
  BY DEF Budgeted
<1>0. /\ runs \in [Runs -> RunStates] /\ IsFiniteSet(BusyIn(runs))
      /\ runs' \in [Runs -> RunStates] /\ IsFiniteSet(BusyIn(runs'))
  BY DEF TypeOK, Solo, Busy, BusyIn
<1>1. /\ Cardinality(OwedBesides(runs, r, m)) \in Nat
      /\ Cardinality(Owed(m)) = Cardinality(OwedBesides(runs, r, m)) + ShareOf(runs[r], m)
  BY <1>0, OwedSplits DEF Owed
<1>2. Cardinality(Owed(m)') = Cardinality(OwedBesides(runs', r, m)) + ShareOf(runs'[r], m)
  BY <1>0, OwedSplits DEF Owed
<1>3. OwedBesides(runs', r, m) = OwedBesides(runs, r, m)
  <2>1. \A p \in BusyIn(runs) \X (1..MaxEvents) : p[1] \in Runs
    BY DEF BusyIn
  <2>2. \A p \in BusyIn(runs') \X (1..MaxEvents) : p[1] \in Runs
    BY DEF BusyIn
  <2>3. \A s \in Runs \ {r} :
          (s \in BusyIn(runs') <=> s \in BusyIn(runs)) /\ ShareOf(runs'[s], m) = ShareOf(runs[s], m)
    BY DEF BusyIn
  <2>4. \A p \in BusyIn(runs') \X (1..MaxEvents) :
          p[1] # r => p \in BusyIn(runs) \X (1..MaxEvents)
    BY <2>2, <2>3
  <2>5. \A p \in BusyIn(runs) \X (1..MaxEvents) :
          p[1] # r => p \in BusyIn(runs') \X (1..MaxEvents)
    BY <2>1, <2>3
  <2> QED  BY <2>1, <2>2, <2>3, <2>4, <2>5 DEF OwedBesides, OwedIn
<1>4. /\ events[m] \in Nat /\ events'[m] \in Nat /\ faults \in Nat /\ faults' \in Nat
      /\ Credit(m) \in Nat /\ Credit(m)' \in Nat
  BY EventsAreCounted, FaultsAreCounted DEF TypeOK, Credit
<1>5. ShareOf(runs[r], m) \in Nat /\ ShareOf(runs'[r], m) \in Nat
  BY <1>0, SharesAreCounts, EventsAreCounted
<1>6. events[m] + Cardinality(Owed(m)) + Credit(m) <= MaxEvents * (1 + faults)
  BY DEF Budgeted
<1>7. MaxEvents * (1 + faults') = MaxEvents * (1 + faults)
                                    + (IF faults' = faults THEN 0 ELSE MaxEvents)
  <2>1. CASE faults' = faults
    BY <1>4, <2>1, EventsAreCounted
  <2>2. CASE faults' # faults
    <3>1. faults' = faults + 1
      BY <2>2
    <3>2. MaxEvents * (1 + (faults + 1)) = MaxEvents * (1 + faults) + MaxEvents
      BY <1>4, OneFaultMore
    <3> QED  BY <2>2, <3>1, <3>2
  <2> QED  BY <2>1, <2>2
<1>8. MaxEvents * (1 + faults) \in Int /\ MaxEvents * (1 + faults') \in Int
  BY <1>4, EventsAreCounted
<1>9. events'[m] + ShareOf(runs'[r], m) + Credit(m)'
        <= events[m] + ShareOf(runs[r], m) + Credit(m)
             + (IF faults' = faults THEN 0 ELSE MaxEvents)
  OBVIOUS
<1> QED  BY <1>1, <1>2, <1>3, <1>4, <1>5, <1>6, <1>7, <1>8, <1>9, EventsAreCounted

-----------------------------------------------------------------------------
\* What one execution does to the parts of the invariant.

\* The narrative as such does not change.
LEMMA NarrativeUntouched ==
  ASSUME TypeOK, Versioned, Narrated, NEW r \in Runs, Advances(r),
         UNCHANGED <<narrative, outlived>>, promised' \subseteq promised,
         runs'[r].pc \in Composing =>
           \/ runs'[r].prior = narrative
           \/ runs[r].pc \in Composing /\ runs'[r].prior = runs[r].prior,
         runs'[r].pc = "recording" => ~runs'[r].answer.delta
  PROVE  Versioned' /\ Narrated'
<1>1. \A s \in Busy' : s # r => s \in Busy /\ runs'[s] = runs[s]
  BY DEF Busy, Advances
<1>2. narrative.version \in Nat
  BY DEF TypeOK, Narratives
<1>3. r \in Busy
  BY DEF Busy, Advances
<1>4. Versioned'
  <2> SUFFICES ASSUME NEW s \in Busy', runs'[s].pc \in Composing
               PROVE  /\ runs'[s].prior.version <= narrative.version
                      /\ runs'[s].prior.version = narrative.version => runs'[s].prior = narrative
    BY DEF Versioned
  <2>1. CASE s = r
    BY <1>2, <1>3, <2>1 DEF Versioned
  <2>2. CASE s # r
    BY <1>1, <2>2 DEF Versioned
  <2> QED  BY <2>1, <2>2
<1>5. Narrated'
  <2> SUFFICES ASSUME outlived = {}
               PROVE  /\ promised' \subseteq narrative.covers
                      /\ \A s \in Busy' :
                           /\ runs'[s].pc \in Composing => runs'[s].prior = narrative
                           /\ runs'[s].pc = "recording" /\ runs'[s].answer.delta =>
                                runs'[s].job.msg \in narrative.covers
    BY DEF Narrated, MsgOf
  <2> QED  BY <1>1, <1>3 DEF Narrated, MsgOf
<1> QED  BY <1>4, <1>5

\* No other execution is past the check of the record of a message.
LEMMA UnsettledKept ==
  ASSUME TypeOK, Solo, Unsettled, NEW r \in Runs, Advances(r), UNCHANGED outlived,
         \A m \in Messages \ {MsgOf(r)} : record'[m] = record[m],
         /\ runs'[r].pc \notin {"idle", "reading", "checking", "failing"}
         /\ MsgOf(r) \notin outlived
         => record'[MsgOf(r)] \notin Recorded
  PROVE  Unsettled'
<1> SUFFICES ASSUME NEW s \in Busy',
                    runs'[s].pc \notin {"reading", "checking", "failing"},
                    runs'[s].job.msg \notin outlived
             PROVE  record'[runs'[s].job.msg] \notin Recorded
  BY DEF Unsettled, MsgOf
<1>1. CASE s = r
  <2>1. runs'[r].job = runs[r].job /\ runs'[r].pc # "idle"
    BY <1>1 DEF Busy, Advances, IdleRun
  <2> QED  BY <1>1, <2>1 DEF MsgOf
<1>2. CASE s # r
  <2>1. s \in Busy /\ runs'[s] = runs[s] /\ s \in Runs
    BY <1>2 DEF Busy, Advances
  <2>2. runs[s].job.msg \in Messages
    BY <2>1, IdleOrWorking DEF Busy, Working, Job
  <2>3. record[runs[s].job.msg] \notin Recorded
    BY <2>1 DEF Unsettled, MsgOf
  <2>4. runs[s].job.msg # runs[r].job.msg
    <3> SUFFICES ASSUME runs[s].job.msg = runs[r].job.msg PROVE FALSE
      OBVIOUS
    <3>1. s \in Attached /\ r \in Attached
      BY <2>1 DEF Solo, Attached, Advances, Busy, MsgOf
    <3> QED  BY <1>2, <3>1 DEF Solo
  <2> QED  BY <2>1, <2>2, <2>3, <2>4 DEF MsgOf
<1> QED  BY <1>1, <1>2

\* Whether a message is open depends on the execution that has its job.
OpenFor(run, outcome) ==
  \/ run.pc \in {"recalling", "asking", "failing"}
  \/ /\ outcome \notin Recorded
     /\ run.pc \notin {"entities", "events", "narrating", "recording"}

LEMMA OpenOfAttached ==
  \A r \in Runs, m \in Messages :
    Solo /\ r \in Attached /\ MsgOf(r) = m => (Open(m) <=> OpenFor(runs[r], record[m]))
BY DEF Solo, Open, OpenFor

LEMMA MessageOfRun ==
  ASSUME TypeOK, NEW r \in Runs, runs[r].pc # "idle"
  PROVE  MsgOf(r) \in Messages /\ runs[r].job \in Job
BY IdleOrWorking DEF MsgOf, Working, Job

\* A message is not opened by the executions of others, or by one that has
\* outlived its job.
LEMMA OpenElsewhere ==
  ASSUME NEW r \in Runs, Advances(r), NEW m \in Messages,
         MsgOf(r) # m \/ ~runs[r].attached,
         record'[m] = record[m] \/ record'[m] \in Recorded
  PROVE  Open(m)' => Open(m)
<1>1. IdleRun.pc = "idle"
  BY DEF IdleRun
<1>2. \A s \in Runs : s # r => (s \in Attached' <=> s \in Attached) /\ runs'[s] = runs[s]
  BY DEF Advances, Attached
<1>3. r \in Attached' => r \in Attached /\ MsgOf(r)' = MsgOf(r)
  BY <1>1 DEF Advances, Attached, MsgOf
<1>4. r \in Attached => MsgOf(r) # m
  BY DEF Attached
<1> QED  BY <1>2, <1>3, <1>4 DEF Open, Attached, MsgOf

\* The step of the execution that has the job of a message.
LEMMA OpenHere ==
  ASSUME TypeOK, Solo, Solo', NEW r \in Runs, Advances(r), runs[r].attached
  PROVE  /\ Open(MsgOf(r)) <=> OpenFor(runs[r], record[MsgOf(r)])
         /\ \A m \in Messages : m = MsgOf(r) /\ runs'[r] = IdleRun =>
              (Open(m)' <=> record'[m] \notin Recorded)
         /\ \A m \in Messages : m = MsgOf(r) /\ runs'[r].pc # "idle" =>
              (Open(m)' <=> OpenFor(runs'[r], record'[m]))
<1>0. MsgOf(r) \in Messages /\ r \in Attached
  BY MessageOfRun DEF Advances, Attached
<1>1. Open(MsgOf(r)) <=> OpenFor(runs[r], record[MsgOf(r)])
  BY <1>0, OpenOfAttached
<1>2. ASSUME NEW m \in Messages, m = MsgOf(r), runs'[r] = IdleRun
      PROVE  Open(m)' <=> record'[m] \notin Recorded
  <2>1. IdleRun.pc = "idle"
    BY DEF IdleRun
  <2>2. \A s \in Attached' : s \in Attached /\ s # r
    BY <1>2, <2>1 DEF Attached, Advances
  <2>3. \A s \in Attached' : FALSE
    BY <1>0, <2>2 DEF Solo
  <2> QED  BY <2>3 DEF Open
<1>3. ASSUME NEW m \in Messages, m = MsgOf(r), runs'[r].pc # "idle"
      PROVE  Open(m)' <=> OpenFor(runs'[r], record'[m])
  <2>1. runs'[r].job = runs[r].job /\ runs'[r].attached
    <3>1. runs'[r] # IdleRun
      BY <1>3 DEF IdleRun
    <3> QED  BY <3>1, Zenon DEF Advances
  <2>2. r \in Attached' /\ runs'[r].job.msg = m
    BY <1>3, <2>1 DEF Attached, MsgOf
  <2>3. \A s \in Attached' : s = r
    BY <2>2 DEF Solo
  <2> QED  BY <2>2, <2>3 DEF Open, OpenFor, MsgOf
<1> QED  BY <1>1, <1>2, <1>3

\* The budget of the message an execution works on decides.
LEMMA BudgetHere ==
  ASSUME TypeOK, TypeOK', Solo, Solo', Budgeted, NEW r \in Runs, Advances(r),
         NEW n \in Messages, n = MsgOf(r),
         faults' \in {faults, faults + 1},
         \A m \in Messages \ {n} : events'[m] = events[m] /\ record'[m] = record[m],
         events'[n] + ShareOf(runs'[r], n) + Credit(n)'
           <= events[n] + ShareOf(runs[r], n) + Credit(n)
                + (IF faults' = faults THEN 0 ELSE MaxEvents)
  PROVE  Budgeted'
<1>1. ASSUME NEW m \in Messages \ {n}
      PROVE  events'[m] + ShareOf(runs'[r], m) + Credit(m)'
               <= events[m] + ShareOf(runs[r], m) + Credit(m)
                    + (IF faults' = faults THEN 0 ELSE MaxEvents)
  <2>1. ShareOf(runs'[r], m) = 0 /\ ShareOf(runs[r], m) = 0
    BY DEF ShareOf, Advances, MsgOf, IdleRun
  <2>2. Open(m)' => Open(m)
    BY OpenElsewhere
  <2>3. Credit(m)' <= Credit(m) /\ Credit(m) \in Nat /\ Credit(m)' \in Nat
    BY <2>2, EventsAreCounted DEF Credit
  <2>4. events'[m] = events[m] /\ events[m] \in Nat
    BY DEF TypeOK
  <2> QED  BY <2>1, <2>3, <2>4, EventsAreCounted
<1>2. \A s \in Runs \ {r} : runs'[s] = runs[s]
  BY DEF Advances
<1>3. \A m \in Messages :
        events'[m] + ShareOf(runs'[r], m) + Credit(m)'
          <= events[m] + ShareOf(runs[r], m) + Credit(m)
               + (IF faults' = faults THEN 0 ELSE MaxEvents)
  <2>1. \A m \in Messages : m = n \/ m \in Messages \ {n}
    OBVIOUS
  <2> QED  BY <1>1, <2>1
<1> QED  BY <1>2, <1>3, BudgetKept

\* A step without a fault opens nothing.
LEMMA BudgetOfAStep ==
  ASSUME TypeOK, TypeOK', Solo, Solo', Budgeted, NEW r \in Runs, Advances(r),
         NEW n \in Messages, n = MsgOf(r), UNCHANGED faults,
         \A m \in Messages \ {n} : events'[m] = events[m] /\ record'[m] = record[m],
         Open(n)' => Open(n),
         events'[n] + ShareOf(runs'[r], n) <= events[n] + ShareOf(runs[r], n)
  PROVE  Budgeted'
<1>1. Credit(n)' <= Credit(n) /\ Credit(n) \in Nat /\ Credit(n)' \in Nat
  BY EventsAreCounted DEF Credit
<1>2. events[n] \in Nat /\ events'[n] \in Nat
  BY DEF TypeOK
<1>3. ShareOf(runs[r], n) \in Nat /\ ShareOf(runs'[r], n) \in Nat
  BY SharesAreCounts, EventsAreCounted DEF TypeOK
<1>4. events'[n] + ShareOf(runs'[r], n) + Credit(n)'
        <= events[n] + ShareOf(runs[r], n) + Credit(n)
             + (IF faults' = faults THEN 0 ELSE MaxEvents)
  BY <1>1, <1>2, <1>3
<1> QED  BY <1>4, BudgetHere

\* A fault pays for the answer that it may make the queue ask for again.
LEMMA BudgetOfAFault ==
  ASSUME TypeOK, TypeOK', Solo, Solo', Budgeted, NEW r \in Runs, Advances(r),
         NEW n \in Messages, n = MsgOf(r), faults' = faults + 1,
         \A m \in Messages \ {n} : events'[m] = events[m] /\ record'[m] = record[m],
         \/ runs'[r] = IdleRun
         \/ /\ runs'[r].pc = "failing"
            /\ record'[n] = record[n] \/ record'[n] \in Recorded,
         events'[n] <= events[n] + ShareOf(runs[r], n)
  PROVE  Budgeted'
<1>1. /\ Credit(n) \in 0..MaxEvents /\ Credit(n)' \in 0..MaxEvents
      /\ events[n] \in Nat /\ events'[n] \in Nat /\ faults \in Nat
      /\ ShareOf(runs[r], n) \in 0..MaxEvents /\ ShareOf(runs'[r], n) \in 0..MaxEvents
  BY SharesAreCounts, EventsAreCounted, FaultsAreCounted DEF Credit, TypeOK
<1>2. ShareOf(runs'[r], n) + Credit(n)' <= Credit(n) + MaxEvents
  <2>1. CASE runs'[r] = IdleRun \/ runs[r].attached
    <3>1. ShareOf(runs'[r], n) = 0
      BY <2>1 DEF ShareOf, IdleRun, Advances
    <3> QED  BY <1>1, <3>1, EventsAreCounted
  <2>2. CASE runs'[r] # IdleRun /\ ~runs[r].attached
    <3>1. Open(n)' => Open(n)
      BY <2>2, OpenElsewhere
    <3>2. Credit(n)' <= Credit(n)
      BY <3>1, EventsAreCounted DEF Credit
    <3> QED  BY <1>1, <3>2, EventsAreCounted
  <2> QED  BY <2>1, <2>2
<1>3. events'[n] + ShareOf(runs'[r], n) + Credit(n)'
        <= events[n] + ShareOf(runs[r], n) + Credit(n)
             + (IF faults' = faults THEN 0 ELSE MaxEvents)
  BY <1>1, <1>2, EventsAreCounted
<1> QED  BY <1>3, BudgetHere

-----------------------------------------------------------------------------
\* Every action keeps the types.

LEMMA QueuesStay ==
  ASSUME NEW queue \in Queues, NEW job \in Job
  PROVE  /\ Put(queue, job) \in Queues /\ Retry(queue, job) \in Queues
         /\ queue[job] > 0 => Take(queue, job) \in Queues
<1>1. \A j \in Job : Put(queue, j) \in Queues
  BY DEF Queues, Put
<1>2. job.tries < RetryLimit => [job EXCEPT !.tries = job.tries + 1] \in Job
  BY RetryLimitIsNat DEF Job
<1>3. queue[job] > 0 => Take(queue, job) \in Queues
  BY DEF Queues, Take
<1> QED  BY <1>1, <1>2, <1>3 DEF Retry

LEMMA NewJobIsJob == \A m \in Messages : NewJob(m) \in Job
BY RetryLimitIsNat DEF NewJob, Job

\* What stays typed when one execution moves and the rest is written as usual.
LEMMA TypeKept ==
  ASSUME TypeOK, NEW r \in Runs, Advances(r), UNCHANGED <<done, sends, hasKey, orphaned>>,
         record' \in [Messages -> {"none", "skipped", "success", "failed"}],
         entities' \subseteq Messages, events' \in [Messages -> Nat],
         narrative' \in Narratives, promised' \subseteq Messages,
         waiting' \in Queues, outlived' \subseteq Messages,
         faults' = faults \/ Fault
  PROVE  TypeOK' /\ faults' \in {faults, faults + 1} /\ faults \in Nat
<1>1. runs' \in [Runs -> RunStates]
  BY DEF Advances
<1>2. faults' \in 0..MaxFaults /\ faults' \in {faults, faults + 1} /\ faults \in Nat
  BY FaultsAreCounted DEF TypeOK, Fault
<1>3. /\ done' \in [Messages -> BOOLEAN] /\ sends' \in [Messages -> Nat]
      /\ hasKey' \in BOOLEAN /\ orphaned' \in Queues
  BY DEF TypeOK
<1> QED  BY <1>1, <1>2, <1>3 DEF TypeOK

-----------------------------------------------------------------------------
\* The steps of one execution.

LEMMA PhasesAre ==
  ASSUME NEW pc \in {"reading", "checking", "skipping", "recalling", "asking", "entities",
                     "events", "narrating", "recording", "failing"}
  PROVE  pc \in Phases
BY DEF Phases

\* Reading, checking, giving up and leaving the loop over the events.
LEMMA QuietStep ==
  ASSUME IInv, NEW r \in Runs,
         ReadInbound(r) \/ CheckRecord(r) \/ AskFails(r) \/ EventsInserted(r)
  PROVE  IInv'
<1>0. TypeOK /\ Solo /\ Versioned /\ Narrated /\ Unsettled /\ Budgeted
  BY DEF IInv
<1>1. /\ runs[r].pc \in {"reading", "checking", "asking", "events"}
      /\ UNCHANGED <<record, entities, events, narrative, promised>>
      /\ UNCHANGED <<done, sends, waiting, orphaned, outlived, hasKey, faults>>
  BY DEF ReadInbound, CheckRecord, AskFails, EventsInserted, stored, queued
<1>2. PICK n \in Messages : n = MsgOf(r) /\ runs[r].pc # "idle" /\ runs[r] \in Working
  BY <1>0, <1>1, MessageOfRun, IdleOrWorking
<1>3. \/ Return(r)
      \/ runs[r].pc = "reading" /\ Goto(r, "checking")
      \/ /\ runs[r].pc = "checking" /\ record[n] \notin Recorded
         /\ Goto(r, "skipping") \/ Goto(r, "recalling")
      \/ runs[r].pc = "asking" /\ Goto(r, "failing")
      \/ /\ runs[r].pc = "events" /\ runs[r].answer.events = 0
         /\ \/ Goto(r, "narrating")
            \/ ~runs[r].answer.delta /\ Goto(r, "recording")
  BY <1>2 DEF ReadInbound, CheckRecord, AskFails, EventsInserted, Recorded
<1>4. Advances(r)
  BY <1>0, <1>2, <1>3, ReturnAdvances, GotoAdvances, PhasesAre
<1>5. \/ runs'[r] = IdleRun /\ runs[r].pc \in {"reading", "checking"}
      \/ /\ runs'[r].prior = runs[r].prior /\ runs'[r].answer = runs[r].answer
         /\ runs'[r].job = runs[r].job /\ runs'[r].attached = runs[r].attached
         /\ \/ runs[r].pc = "reading" /\ runs'[r].pc = "checking"
            \/ /\ runs[r].pc = "checking" /\ record[n] \notin Recorded
               /\ runs'[r].pc \in {"skipping", "recalling"}
            \/ runs[r].pc = "asking" /\ runs'[r].pc = "failing"
            \/ /\ runs[r].pc = "events" /\ runs[r].answer.events = 0
               /\ \/ runs'[r].pc = "narrating"
                  \/ ~runs[r].answer.delta /\ runs'[r].pc = "recording"
  <2>1. CASE Return(r)
    <3>1. runs'[r] = IdleRun
      BY <1>0, <1>2, <2>1, ReturnAdvances
    <3>2. runs[r].pc \in {"reading", "checking"}
      <4>1. runs'[r].pc = "idle"
        BY <3>1 DEF IdleRun
      <4>2. ASSUME NEW pc \in Phases, Goto(r, pc) PROVE FALSE
        BY <1>0, <1>2, <4>1, <4>2, GotoAdvances DEF Phases
      <4> QED  BY <4>2, PhasesAre DEF ReadInbound, CheckRecord, AskFails, EventsInserted
    <3> QED  BY <3>1, <3>2
  <2>2. CASE ~Return(r)
    <3>1. PICK pc \in Phases :
            /\ Goto(r, pc)
            /\ \/ runs[r].pc = "reading" /\ pc = "checking"
               \/ /\ runs[r].pc = "checking" /\ record[n] \notin Recorded
                  /\ pc \in {"skipping", "recalling"}
               \/ runs[r].pc = "asking" /\ pc = "failing"
               \/ /\ runs[r].pc = "events" /\ runs[r].answer.events = 0
                  /\ \/ pc = "narrating"
                     \/ ~runs[r].answer.delta /\ pc = "recording"
      BY <1>3, <2>2, PhasesAre
    <3> QED  BY <1>0, <1>2, <3>1, GotoAdvances
  <2> QED  BY <2>1, <2>2
<1>6. TypeOK'
  BY <1>0, <1>1, <1>4, TypeKept DEF TypeOK
<1>7. Solo'
  BY <1>0, <1>1, <1>4, SoloAdvances
<1>8. Versioned' /\ Narrated'
  <2>1. runs'[r].pc \in Composing => runs[r].pc \in Composing /\ runs'[r].prior = runs[r].prior
    BY <1>5 DEF Composing, IdleRun
  <2>2. runs'[r].pc = "recording" => ~runs'[r].answer.delta
    BY <1>5 DEF IdleRun
  <2> QED  BY <1>0, <1>1, <1>4, <2>1, <2>2, NarrativeUntouched
<1>9. Unsettled'
  <2>1. /\ runs'[r].pc \notin {"idle", "reading", "checking", "failing"}
        /\ n \notin outlived
        => record[n] \notin Recorded
    BY <1>0, <1>2, <1>5 DEF Unsettled, Busy, IdleRun
  <2> QED  BY <1>0, <1>1, <1>2, <1>4, <2>1, UnsettledKept
<1>10. Budgeted'
  <2>1. Open(n)' => Open(n)
    <3>1. CASE ~runs[r].attached
      BY <1>1, <1>2, <1>4, <3>1, OpenElsewhere
    <3>2. CASE runs[r].attached
      <4>1. /\ Open(n) <=> OpenFor(runs[r], record[n])
            /\ runs'[r] = IdleRun => (Open(n)' <=> record[n] \notin Recorded)
            /\ runs'[r].pc # "idle" => (Open(n)' <=> OpenFor(runs'[r], record[n]))
        BY <1>0, <1>1, <1>2, <1>4, <1>7, <3>2, OpenHere
      <4> QED  BY <1>5, <4>1 DEF OpenFor
    <3> QED  BY <3>1, <3>2
  <2>2. ShareOf(runs'[r], n) <= ShareOf(runs[r], n)
    BY <1>2, <1>5, EventsAreCounted DEF ShareOf, MsgOf, IdleRun
  <2>3. /\ ShareOf(runs'[r], n) \in 0..MaxEvents /\ ShareOf(runs[r], n) \in 0..MaxEvents
        /\ events[n] \in Nat /\ events' = events
    BY <1>0, <1>1, <1>2, <1>6, SharesAreCounts DEF TypeOK
  <2>4. events'[n] + ShareOf(runs'[r], n) <= events[n] + ShareOf(runs[r], n)
    BY <2>2, <2>3, EventsAreCounted
  <2> QED  BY <1>0, <1>1, <1>2, <1>4, <1>6, <1>7, <2>1, <2>3, <2>4, BudgetOfAStep
<1> QED  BY <1>6, <1>7, <1>8, <1>9, <1>10 DEF IInv

\* The parts of the invariant that do not depend on what is written of the
\* narrative and the events.
LEMMA RestKept ==
  ASSUME IInv, NEW r \in Runs, Advances(r), NEW n \in Messages, n = MsgOf(r),
         UNCHANGED <<done, sends, hasKey, orphaned, outlived>>,
         record' \in [Messages -> {"none", "skipped", "success", "failed"}],
         \A m \in Messages \ {n} : record'[m] = record[m],
         entities' \subseteq Messages, events' \in [Messages -> Nat],
         narrative' \in Narratives, promised' \subseteq Messages,
         waiting' \in Queues, faults' = faults \/ Fault,
         /\ runs'[r].pc \notin {"idle", "reading", "checking", "failing"}
         /\ n \notin outlived
         => runs[r].pc \notin {"reading", "checking", "failing"} /\ record'[n] = record[n]
  PROVE  /\ TypeOK' /\ Solo' /\ Unsettled'
         /\ faults \in Nat /\ faults' \in {faults, faults + 1}
<1>0. TypeOK /\ Solo /\ Unsettled
  BY DEF IInv
<1>1. TypeOK' /\ faults \in Nat /\ faults' \in {faults, faults + 1}
  <2>1. outlived' \subseteq Messages
    BY <1>0 DEF TypeOK
  <2> QED  BY <1>0, <2>1, TypeKept
<1>2. Solo'
  BY <1>0, SoloAdvances
<1>3. Unsettled'
  <2>1. /\ runs'[r].pc \notin {"idle", "reading", "checking", "failing"}
        /\ n \notin outlived
        => record'[n] \notin Recorded
    BY <1>0 DEF Unsettled, Busy, Advances
  <2> QED  BY <1>0, <2>1, UnsettledKept
<1> QED  BY <1>1, <1>2, <1>3

LEMMA ReadNarrativeStep ==
  ASSUME IInv, NEW r \in Runs, ReadNarrative(r)
  PROVE  IInv'
<1>0. TypeOK /\ Solo /\ Versioned /\ Narrated /\ Unsettled /\ Budgeted
  BY DEF IInv
<1>1. /\ runs[r].pc = "recalling"
      /\ runs' = [runs EXCEPT ![r] = [runs[r] EXCEPT !.pc = "asking", !.prior = narrative]]
      /\ UNCHANGED <<record, entities, events, narrative, promised>>
      /\ UNCHANGED <<done, sends, waiting, orphaned, outlived, hasKey, faults>>
  BY DEF ReadNarrative, stored, queued
<1>2. PICK n \in Messages : n = MsgOf(r) /\ runs[r].pc # "idle" /\ runs[r] \in Working
  BY <1>0, <1>1, MessageOfRun, IdleOrWorking
<1>3. /\ runs'[r] \in Working /\ runs'[r].pc = "asking" /\ runs'[r].prior = narrative
      /\ runs'[r].job = runs[r].job /\ runs'[r].attached = runs[r].attached
      /\ \A s \in Runs \ {r} : runs'[s] = runs[s]
      /\ runs' \in [Runs -> RunStates]
  <2>1. [runs[r] EXCEPT !.pc = "asking", !.prior = narrative] \in Working
    BY <1>0, <1>2 DEF Working, Phases, TypeOK
  <2>2. runs'[r] = [runs[r] EXCEPT !.pc = "asking", !.prior = narrative]
    BY <1>0, <1>1 DEF TypeOK
  <2>3. /\ \A s \in Runs \ {r} : runs'[s] = runs[s]
        /\ runs' \in [Runs -> RunStates]
    BY <1>0, <1>1, <2>1, RunStatesAre DEF TypeOK
  <2> QED  BY <1>2, <2>1, <2>2, <2>3 DEF Working
<1>4. Advances(r)
  BY <1>2, <1>3 DEF Advances
<1>5. TypeOK' /\ Solo' /\ Unsettled'
  BY <1>0, <1>1, <1>2, <1>4, RestKept DEF TypeOK
<1>6. Versioned' /\ Narrated'
  BY <1>0, <1>1, <1>3, <1>4, NarrativeUntouched
<1>7. Budgeted'
  <2>1. Open(n)' => Open(n)
    <3>1. CASE ~runs[r].attached
      BY <1>1, <1>2, <1>4, <3>1, OpenElsewhere
    <3>2. CASE runs[r].attached
      BY <1>0, <1>1, <1>2, <1>4, <1>5, <3>2, OpenHere DEF OpenFor
    <3> QED  BY <3>1, <3>2
  <2>2. ShareOf(runs'[r], n) = ShareOf(runs[r], n)
    BY <1>1, <1>3 DEF ShareOf
  <2>3. events'[n] + ShareOf(runs'[r], n) <= events[n] + ShareOf(runs[r], n)
    BY <1>0, <1>1, <1>2, <2>2, SharesAreCounts, EventsAreCounted DEF TypeOK
  <2> QED  BY <1>0, <1>1, <1>2, <1>4, <1>5, <2>1, <2>3, BudgetOfAStep
<1> QED  BY <1>5, <1>6, <1>7 DEF IInv

\* A fault sends an execution to record the failure.
LEMMA ToFailing ==
  ASSUME IInv, NEW r \in Runs, runs[r].pc # "idle", NEW n \in Messages, n = MsgOf(r),
         Goto(r, "failing"), Fault,
         UNCHANGED <<done, sends, waiting, orphaned, outlived, hasKey>>,
         record' \in [Messages -> {"none", "skipped", "success", "failed"}],
         entities' \subseteq Messages, events' \in [Messages -> Nat],
         narrative' \in Narratives, promised' \subseteq Messages,
         \A m \in Messages \ {n} : events'[m] = events[m] /\ record'[m] = record[m],
         record'[n] = record[n] \/ record'[n] \in Recorded,
         events'[n] <= events[n] + ShareOf(runs[r], n),
         Versioned', Narrated'
  PROVE  IInv'
<1>0. TypeOK /\ Solo /\ Budgeted
  BY DEF IInv
<1>1. Advances(r) /\ runs'[r].pc = "failing"
  BY <1>0, GotoAdvances, PhasesAre
<1>2. TypeOK' /\ Solo' /\ Unsettled' /\ faults \in Nat
  BY <1>0, <1>1, RestKept DEF TypeOK
<1>3. Budgeted'
  BY <1>0, <1>1, <1>2, BudgetOfAFault DEF Fault
<1> QED  BY <1>2, <1>3 DEF IInv

\* An answered statement lets an execution go on.
LEMMA ToNext ==
  ASSUME IInv, NEW r \in Runs, NEW n \in Messages, n = MsgOf(r),
         NEW pc \in Phases, Goto(r, pc),
         \/ runs[r].pc = "entities" /\ pc = "events"
         \/ runs[r].pc = "narrating" /\ pc = "recording",
         UNCHANGED <<done, sends, record, waiting, orphaned, outlived, hasKey, faults>>,
         entities' \subseteq Messages, events' = events,
         narrative' \in Narratives, promised' \subseteq Messages,
         Versioned', Narrated'
  PROVE  IInv'
<1>0. TypeOK /\ Solo /\ Budgeted
  BY DEF IInv
<1>1. /\ Advances(r) /\ runs'[r].pc = pc /\ runs'[r].answer = runs[r].answer
      /\ runs'[r].job = runs[r].job
  BY <1>0, GotoAdvances
<1>2. TypeOK' /\ Solo' /\ Unsettled'
  BY <1>0, <1>1, RestKept DEF TypeOK
<1>3. Open(n)' => Open(n)
  <2>1. CASE ~runs[r].attached
    BY <1>1, <2>1, OpenElsewhere
  <2>2. CASE runs[r].attached
    BY <1>0, <1>1, <1>2, <2>2, OpenHere DEF OpenFor
  <2> QED  BY <2>1, <2>2
<1>4. events'[n] + ShareOf(runs'[r], n) <= events[n] + ShareOf(runs[r], n)
  <2>1. ShareOf(runs'[r], n) <= ShareOf(runs[r], n)
    <3>1. runs[r].answer.events \in Nat
      BY <1>0, IdleOrWorking DEF Working
    <3> QED  BY <1>1, <3>1 DEF ShareOf
  <2>2. /\ ShareOf(runs'[r], n) \in 0..MaxEvents /\ ShareOf(runs[r], n) \in 0..MaxEvents
        /\ events[n] \in Nat
    BY <1>0, <1>2, SharesAreCounts DEF TypeOK
  <2> QED  BY <2>1, <2>2, EventsAreCounted
<1>5. Budgeted'
  BY <1>0, <1>1, <1>2, <1>3, <1>4, BudgetOfAStep
<1> QED  BY <1>2, <1>5 DEF IInv

LEMMA UpsertEntitiesStep ==
  ASSUME IInv, NEW r \in Runs, UpsertEntities(r)
  PROVE  IInv'
<1>0. TypeOK /\ Solo /\ Versioned /\ Narrated
  BY DEF IInv
<1>1. /\ runs[r].pc = "entities" /\ entities' = entities \cup {MsgOf(r)}
      /\ \/ Goto(r, "events") /\ UNCHANGED faults
         \/ Fault /\ Goto(r, "failing")
      /\ UNCHANGED <<record, events, narrative, promised>>
      /\ UNCHANGED <<done, sends, waiting, orphaned, outlived, hasKey>>
  BY DEF UpsertEntities, Answered, queued
<1>2. PICK n \in Messages : n = MsgOf(r)
  BY <1>0, <1>1, MessageOfRun
<1>3. PICK pc \in Phases : Goto(r, pc) /\ pc \in {"events", "failing"}
  BY <1>1, PhasesAre
<1>4. /\ Advances(r) /\ runs'[r].pc \in {"events", "failing"}
      /\ runs'[r].prior = runs[r].prior
  BY <1>0, <1>1, <1>3, GotoAdvances
<1>5. Versioned' /\ Narrated'
  BY <1>0, <1>1, <1>4, NarrativeUntouched DEF Composing
<1>6. entities' \subseteq Messages
  BY <1>0, <1>1, <1>2 DEF TypeOK
<1>7. CASE Goto(r, "events") /\ UNCHANGED faults
  <2>1. narrative' \in Narratives /\ promised' \subseteq Messages
    BY <1>0, <1>1 DEF TypeOK
  <2>2. "events" \in Phases
    BY DEF Phases
  <2>3. /\ runs[r].pc = "entities" /\ Goto(r, "events") /\ events' = events
        /\ UNCHANGED <<done, sends, record, waiting, orphaned, outlived, hasKey, faults>>
    BY <1>1, <1>7
  <2> QED  BY <1>2, <1>5, <1>6, <2>1, <2>2, <2>3, ToNext
<1>8. CASE Fault /\ Goto(r, "failing")
  <2>1. ShareOf(runs[r], n) \in Nat /\ events[n] \in Nat
    BY <1>0, <1>2, SharesAreCounts, EventsAreCounted DEF TypeOK
  <2>2. events'[n] <= events[n] + ShareOf(runs[r], n)
    BY <1>1, <2>1
  <2> QED  BY <1>0, <1>1, <1>2, <1>5, <1>6, <1>8, <2>2, ToFailing DEF TypeOK
<1> QED  BY <1>1, <1>7, <1>8

LEMMA StepFailsStep ==
  ASSUME IInv, NEW r \in Runs, StepFails(r)
  PROVE  IInv'
<1>0. TypeOK /\ Solo /\ Versioned /\ Narrated
  BY DEF IInv
<1>1. /\ runs[r].pc # "idle" /\ Fault /\ Goto(r, "failing")
      /\ UNCHANGED <<record, entities, events, narrative, promised>>
      /\ UNCHANGED <<done, sends, waiting, orphaned, outlived, hasKey>>
  BY DEF StepFails, stored, queued
<1>2. PICK n \in Messages : n = MsgOf(r)
  BY <1>0, <1>1, MessageOfRun
<1>3. Advances(r) /\ runs'[r].pc = "failing"
  BY <1>0, <1>1, GotoAdvances, PhasesAre
<1>4. Versioned' /\ Narrated'
  BY <1>0, <1>1, <1>3, NarrativeUntouched DEF Composing
<1>5. ShareOf(runs[r], n) \in Nat /\ events[n] \in Nat
  BY <1>0, <1>2, SharesAreCounts, EventsAreCounted DEF TypeOK
<1>6. events'[n] <= events[n] + ShareOf(runs[r], n)
  BY <1>1, <1>5
<1> QED  BY <1>0, <1>1, <1>2, <1>4, <1>6, ToFailing DEF TypeOK

LEMMA InsertEventStep ==
  ASSUME IInv, NEW r \in Runs, InsertEvent(r)
  PROVE  IInv'
<1>0. TypeOK /\ Solo /\ Versioned /\ Narrated /\ Unsettled /\ Budgeted
  BY DEF IInv
<1>1. /\ runs[r].pc = "events" /\ runs[r].answer.events > 0
      /\ events' = [events EXCEPT ![MsgOf(r)] = @ + 1]
      /\ \/ runs' = [runs EXCEPT ![r].answer.events = @ - 1] /\ UNCHANGED faults
         \/ Fault /\ Goto(r, "failing")
      /\ UNCHANGED <<record, entities, narrative, promised>>
      /\ UNCHANGED <<done, sends, waiting, orphaned, outlived, hasKey>>
  BY DEF InsertEvent, queued
<1>2. PICK n \in Messages : n = MsgOf(r) /\ runs[r].pc # "idle" /\ runs[r] \in Working
  BY <1>0, <1>1, MessageOfRun, IdleOrWorking
<1>3. /\ events' \in [Messages -> Nat] /\ events'[n] = events[n] + 1 /\ events[n] \in Nat
      /\ \A m \in Messages \ {n} : events'[m] = events[m]
  BY <1>0, <1>1, <1>2 DEF TypeOK
<1>4. ShareOf(runs[r], n) = runs[r].answer.events /\ runs[r].answer.events \in 1..MaxEvents
  BY <1>1, <1>2, EventsAreCounted DEF ShareOf, MsgOf, Working
<1>5. CASE Fault /\ Goto(r, "failing")
  <2>1. Advances(r) /\ runs'[r].pc = "failing"
    BY <1>0, <1>2, <1>5, GotoAdvances, PhasesAre
  <2>2. Versioned' /\ Narrated'
    BY <1>0, <1>1, <2>1, NarrativeUntouched DEF Composing
  <2>3. events'[n] <= events[n] + ShareOf(runs[r], n)
    BY <1>3, <1>4, EventsAreCounted
  <2> QED  BY <1>0, <1>1, <1>2, <1>3, <1>5, <2>2, <2>3, ToFailing DEF TypeOK
<1>6. CASE runs' = [runs EXCEPT ![r].answer.events = @ - 1] /\ UNCHANGED faults
  <2>1. /\ runs'[r] \in Working /\ runs'[r].pc = "events" /\ runs'[r].prior = runs[r].prior
        /\ runs'[r].answer.events = runs[r].answer.events - 1
        /\ runs'[r].job = runs[r].job /\ runs'[r].attached = runs[r].attached
        /\ \A s \in Runs \ {r} : runs'[s] = runs[s]
        /\ runs' \in [Runs -> RunStates]
    <3> DEFINE next == [runs[r] EXCEPT !.answer = [runs[r].answer EXCEPT !.events = @ - 1]]
    <3>1. runs[r].answer.events - 1 \in 0..MaxEvents
      BY <1>4, EventsAreCounted
    <3>2. /\ [runs[r].answer EXCEPT !.events = @ - 1] \in [events : 0..MaxEvents, delta : BOOLEAN]
          /\ [runs[r].answer EXCEPT !.events = @ - 1].events = runs[r].answer.events - 1
      BY <1>2, <3>1 DEF Working
    <3>3. next \in Working
      BY <1>2, <3>2 DEF Working
    <3>4. runs' = [runs EXCEPT ![r] = next]
      BY <1>6
    <3>5. runs'[r] = next
      BY <1>0, <3>4 DEF TypeOK
    <3>6. /\ \A s \in Runs \ {r} : runs'[s] = runs[s]
          /\ runs' \in [Runs -> RunStates]
      BY <1>0, <3>3, <3>4, RunStatesAre DEF TypeOK
    <3>7. /\ next.pc = "events" /\ next.prior = runs[r].prior
          /\ next.answer.events = runs[r].answer.events - 1
          /\ next.job = runs[r].job /\ next.attached = runs[r].attached
      BY <1>1, <1>2, <3>2 DEF Working
    <3> QED  BY <3>3, <3>5, <3>6, <3>7
  <2>2. Advances(r)
    BY <1>2, <2>1 DEF Advances
  <2>3. TypeOK' /\ Solo' /\ Unsettled'
    BY <1>0, <1>1, <1>2, <1>3, <1>6, <2>1, <2>2, RestKept DEF TypeOK
  <2>4. Versioned' /\ Narrated'
    BY <1>0, <1>1, <2>1, <2>2, NarrativeUntouched DEF Composing
  <2>5. Open(n)' => Open(n)
    <3>1. CASE ~runs[r].attached
      BY <1>1, <1>2, <2>2, <3>1, OpenElsewhere
    <3>2. CASE runs[r].attached
      BY <1>0, <1>1, <1>2, <2>1, <2>2, <2>3, <3>2, OpenHere DEF OpenFor
    <3> QED  BY <3>1, <3>2
  <2>6. ShareOf(runs'[r], n) = runs[r].answer.events - 1
    BY <1>2, <2>1 DEF ShareOf, MsgOf
  <2>7. events'[n] + ShareOf(runs'[r], n) <= events[n] + ShareOf(runs[r], n)
    BY <1>3, <1>4, <2>6, EventsAreCounted
  <2>8. Budgeted'
    BY <1>0, <1>1, <1>2, <1>3, <1>6, <2>2, <2>3, <2>5, <2>7, BudgetOfAStep
  <2> QED  BY <2>3, <2>4, <2>8 DEF IInv
<1> QED  BY <1>1, <1>5, <1>6

\* The upsert replaces the narrative by one that was composed from it.
LEMMA UpsertedCovers ==
  ASSUME TypeOK, Versioned, NEW r \in Runs, runs[r].pc = "narrating"
  PROVE  /\ Upserted(r) \in Narratives
         /\ narrative.covers \subseteq Upserted(r).covers
         /\ \/ Upserted(r) = narrative
            \/ Upserted(r).version = narrative.version + 1
         /\ runs[r].prior = narrative => MsgOf(r) \in Upserted(r).covers
<1>1. /\ runs[r].prior \in Narratives /\ narrative \in Narratives /\ MsgOf(r) \in Messages
      /\ r \in Busy
  BY IdleOrWorking, MessageOfRun DEF Working, TypeOK, Busy
<1>2. /\ narrative.version = 0 => narrative.covers = {}
      /\ runs[r].prior.version = narrative.version => runs[r].prior = narrative
  BY <1>1 DEF Versioned, Composing
<1>3. CASE narrative.version \in {0, runs[r].prior.version}
  <2>1. Upserted(r) = [version |-> narrative.version + 1,
                       covers |-> runs[r].prior.covers \cup {MsgOf(r)}]
    BY <1>3 DEF Upserted
  <2>2. narrative.covers \subseteq runs[r].prior.covers
    BY <1>2, <1>3
  <2> QED  BY <1>1, <2>1, <2>2 DEF Narratives
<1>4. CASE narrative.version \notin {0, runs[r].prior.version}
  BY <1>1, <1>4 DEF Upserted
<1> QED  BY <1>3, <1>4

LEMMA UpsertNarrativeStep ==
  ASSUME IInv, NEW r \in Runs, UpsertNarrative(r)
  PROVE  IInv'
<1>0. TypeOK /\ Solo /\ Versioned /\ Narrated
  BY DEF IInv
<1>1. /\ runs[r].pc = "narrating" /\ narrative' = Upserted(r)
      /\ \/ Goto(r, "recording") /\ UNCHANGED faults
         \/ Fault /\ Goto(r, "failing")
      /\ UNCHANGED <<record, entities, events, promised>>
      /\ UNCHANGED <<done, sends, waiting, orphaned, outlived, hasKey>>
  BY DEF UpsertNarrative, Answered, queued
<1>2. PICK n \in Messages : n = MsgOf(r)
  BY <1>0, <1>1, MessageOfRun
<1>3. PICK pc \in Phases : Goto(r, pc) /\ pc \in {"recording", "failing"}
  BY <1>1, PhasesAre
<1>4. /\ Advances(r) /\ runs'[r].pc \in {"recording", "failing"}
      /\ runs'[r].job = runs[r].job
  BY <1>0, <1>1, <1>3, GotoAdvances
<1>5. /\ narrative' \in Narratives /\ narrative.covers \subseteq narrative'.covers
      /\ narrative' = narrative \/ narrative'.version = narrative.version + 1
      /\ runs[r].prior = narrative => n \in narrative'.covers
      /\ narrative \in Narratives
  BY <1>0, <1>1, <1>2, UpsertedCovers DEF TypeOK
<1>6. \A s \in Busy' : runs'[s].pc \in Composing \/ s # r => s \in Busy /\ runs'[s] = runs[s]
  BY <1>4 DEF Busy, Advances, Composing
<1>7. \A s \in Busy : runs[s].pc # "idle" /\ runs[s].prior.version \in Nat
  BY <1>0, IdleOrWorking DEF Busy, Working, Narratives
<1>8. Versioned'
  <2>1. narrative'.version = 0 => narrative'.covers = {}
    BY <1>0, <1>5 DEF Versioned, Narratives
  <2>2. ASSUME NEW s \in Busy', runs'[s].pc \in Composing
        PROVE  /\ runs'[s].prior.version <= narrative'.version
               /\ runs'[s].prior.version = narrative'.version => runs'[s].prior = narrative'
    <3>1. /\ runs'[s] = runs[s] /\ runs[s].prior.version \in Nat
          /\ runs[s].prior.version <= narrative.version
          /\ runs[s].prior.version = narrative.version => runs[s].prior = narrative
      BY <1>0, <1>6, <1>7, <2>2 DEF Versioned
    <3>2. narrative.version \in Nat
      BY <1>5 DEF Narratives
    <3> QED  BY <1>5, <3>1, <3>2
  <2> QED  BY <2>1, <2>2 DEF Versioned
<1>9. Narrated'
  <2> SUFFICES ASSUME outlived = {}
               PROVE  /\ promised \subseteq narrative'.covers
                      /\ \A s \in Busy' :
                           /\ runs'[s].pc \in Composing => runs'[s].prior = narrative'
                           /\ runs'[s].pc = "recording" /\ runs'[s].answer.delta =>
                                runs'[s].job.msg \in narrative'.covers
    BY <1>1 DEF Narrated, MsgOf
  <2>1. promised \subseteq narrative'.covers
    BY <1>0, <1>5 DEF Narrated
  <2>2. r \in Busy /\ r \in Attached
    BY <1>0, <1>1 DEF Busy, Solo, Attached
  <2>3. \A s \in Busy : s = r
    BY <1>0, <2>2 DEF Busy, Solo, Attached
  <2>4. runs[r].prior = narrative
    BY <1>0, <1>1, <2>2 DEF Narrated, Composing
  <2>5. \A s \in Busy' : s = r
    BY <1>6, <2>3
  <2>6. runs'[r].job.msg = n
    BY <1>2, <1>4 DEF MsgOf
  <2> QED  BY <1>4, <1>5, <2>1, <2>4, <2>5, <2>6 DEF Composing
<1>10. promised' \subseteq Messages /\ entities' \subseteq Messages
  BY <1>0, <1>1 DEF TypeOK
<1>11. CASE Goto(r, "recording") /\ UNCHANGED faults
  <2>1. "recording" \in Phases
    BY DEF Phases
  <2> QED  BY <1>1, <1>2, <1>5, <1>8, <1>9, <1>10, <1>11, <2>1, ToNext
<1>12. CASE Fault /\ Goto(r, "failing")
  <2>1. ShareOf(runs[r], n) \in Nat /\ events[n] \in Nat
    BY <1>0, <1>2, SharesAreCounts, EventsAreCounted DEF TypeOK
  <2>2. events'[n] <= events[n] + ShareOf(runs[r], n)
    BY <1>1, <2>1
  <2> QED  BY <1>0, <1>1, <1>2, <1>5, <1>8, <1>9, <1>10, <1>12, <2>2, ToFailing DEF TypeOK
<1> QED  BY <1>1, <1>11, <1>12

LEMMA AskStep ==
  ASSUME IInv, NEW r \in Runs, NEW k \in 0..MaxEvents, NEW delta \in BOOLEAN, Ask(r, k, delta)
  PROVE  IInv'
<1>0. TypeOK /\ Solo /\ Versioned /\ Narrated /\ Unsettled /\ Budgeted
  BY DEF IInv
<1>1. /\ runs[r].pc = "asking"
      /\ runs' = [runs EXCEPT ![r] = [runs[r] EXCEPT !.pc = "entities",
                                        !.answer = [events |-> k, delta |-> delta]]]
      /\ UNCHANGED <<record, entities, events, narrative, promised>>
      /\ UNCHANGED <<done, sends, waiting, orphaned, outlived, hasKey, faults>>
  BY DEF Ask, stored, queued
<1>2. PICK n \in Messages : n = MsgOf(r) /\ runs[r].pc # "idle" /\ runs[r] \in Working
  BY <1>0, <1>1, MessageOfRun, IdleOrWorking
<1>3. /\ runs'[r] \in Working /\ runs'[r].pc = "entities" /\ runs'[r].prior = runs[r].prior
      /\ runs'[r].answer.events = k
      /\ runs'[r].job = runs[r].job /\ runs'[r].attached = runs[r].attached
      /\ \A s \in Runs \ {r} : runs'[s] = runs[s]
      /\ runs' \in [Runs -> RunStates]
  <2> DEFINE next == [runs[r] EXCEPT !.pc = "entities", !.answer = [events |-> k, delta |-> delta]]
  <2>1. next \in Working
    BY <1>2 DEF Working, Phases
  <2>2. runs'[r] = next
    BY <1>0, <1>1 DEF TypeOK
  <2>3. /\ \A s \in Runs \ {r} : runs'[s] = runs[s]
        /\ runs' \in [Runs -> RunStates]
    BY <1>0, <1>1, <2>1, RunStatesAre DEF TypeOK
  <2> QED  BY <1>2, <2>1, <2>2, <2>3 DEF Working
<1>4. Advances(r)
  BY <1>2, <1>3 DEF Advances
<1>5. TypeOK' /\ Solo' /\ Unsettled' /\ faults \in Nat
  BY <1>0, <1>1, <1>2, <1>4, RestKept DEF TypeOK
<1>6. Versioned' /\ Narrated'
  BY <1>0, <1>1, <1>3, <1>4, NarrativeUntouched DEF Composing
<1>7. Budgeted'
  <2>1. ShareOf(runs'[r], n) = k
    BY <1>2, <1>3 DEF ShareOf, MsgOf
  <2>2. k + Credit(n)' <= ShareOf(runs[r], n) + Credit(n)
    <3>1. CASE ~runs[r].attached
      <4>1. ShareOf(runs[r], n) = MaxEvents
        BY <1>1, <1>2, <3>1 DEF ShareOf, MsgOf
      <4>2. Open(n)' => Open(n)
        BY <1>1, <1>2, <1>4, <3>1, OpenElsewhere
      <4> QED  BY <4>1, <4>2, EventsAreCounted DEF Credit
    <3>2. CASE runs[r].attached
      <4>1. ShareOf(runs[r], n) = 0
        BY <1>1, <1>2, <3>2 DEF ShareOf, MsgOf
      <4>2. Open(n) /\ ~Open(n)'
        BY <1>0, <1>1, <1>2, <1>3, <1>4, <1>5, <3>2, OpenHere DEF OpenFor
      <4> QED  BY <4>1, <4>2, EventsAreCounted DEF Credit
    <3> QED  BY <3>1, <3>2
  <2>3. /\ events[n] \in Nat /\ Credit(n) \in Nat /\ Credit(n)' \in Nat
        /\ ShareOf(runs[r], n) \in Nat
    BY <1>0, <1>2, SharesAreCounts, EventsAreCounted DEF TypeOK, Credit
  <2>4. events'[n] + ShareOf(runs'[r], n) + Credit(n)'
          <= events[n] + ShareOf(runs[r], n) + Credit(n)
               + (IF faults' = faults THEN 0 ELSE MaxEvents)
    BY <1>1, <2>1, <2>2, <2>3, EventsAreCounted
  <2>5. faults' \in {faults, faults + 1}
    BY <1>1
  <2> QED  BY <1>0, <1>1, <1>2, <1>4, <1>5, <2>4, <2>5, BudgetHere
<1> QED  BY <1>5, <1>6, <1>7 DEF IInv

\* An execution returns, perhaps with an outcome recorded.
LEMMA ReturnKeeps ==
  ASSUME IInv, NEW r \in Runs, runs[r].pc # "idle", NEW n \in Messages, n = MsgOf(r),
         Return(r),
         UNCHANGED <<done, sends, entities, events, narrative, orphaned, outlived, hasKey>>,
         NEW outcome \in {"none", "skipped", "success", "failed"},
         record' = [record EXCEPT ![n] = outcome],
         waiting' \in Queues, promised' \subseteq Messages,
         outlived = {} => promised' \subseteq narrative.covers,
         \/ Fault
         \/ UNCHANGED faults /\ (outcome \in Recorded \/ runs[r].pc = "failing")
  PROVE  IInv'
<1>0. TypeOK /\ Solo /\ Versioned /\ Narrated /\ Unsettled /\ Budgeted
  BY DEF IInv
<1>1. Advances(r) /\ runs'[r] = IdleRun
  BY <1>0, ReturnAdvances
<1>2. runs'[r].pc = "idle"
  BY <1>1 DEF IdleRun
<1>3. /\ record' \in [Messages -> {"none", "skipped", "success", "failed"}]
      /\ record'[n] = outcome
      /\ \A m \in Messages \ {n} : record'[m] = record[m]
  BY <1>0 DEF TypeOK
<1>4. TypeOK' /\ Solo' /\ Unsettled' /\ faults \in Nat
  BY <1>0, <1>1, <1>2, <1>3, RestKept DEF TypeOK
<1>5. \A s \in Busy' : s \in Busy /\ runs'[s] = runs[s]
  BY <1>1, <1>2 DEF Busy, Advances
<1>6. Versioned'
  BY <1>0, <1>5 DEF Versioned
<1>7. Narrated'
  BY <1>0, <1>5 DEF Narrated, MsgOf
<1>8. Budgeted'
  <2>1. CASE Fault
    <3>1. events'[n] <= events[n] + ShareOf(runs[r], n)
      BY <1>0, SharesAreCounts, EventsAreCounted DEF TypeOK
    <3> QED  BY <1>0, <1>1, <1>3, <1>4, <2>1, <3>1, BudgetOfAFault DEF Fault
  <2>2. CASE UNCHANGED faults /\ (outcome \in Recorded \/ runs[r].pc = "failing")
    <3>1. /\ ShareOf(runs'[r], n) = 0 /\ ShareOf(runs[r], n) \in Nat /\ events[n] \in Nat
          /\ Credit(n) \in {0, MaxEvents} /\ Credit(n)' \in {0, MaxEvents}
      BY <1>0, <1>2, SharesAreCounts, EventsAreCounted DEF TypeOK, ShareOf, Credit
    <3>2. Credit(n)' <= ShareOf(runs[r], n) + Credit(n)
      <4>1. CASE ~runs[r].attached /\ outcome \in Recorded
        <5>1. Open(n)' => Open(n)
          BY <1>1, <1>3, <4>1, OpenElsewhere
        <5> QED  BY <3>1, <5>1, EventsAreCounted DEF Credit
      <4>2. CASE ~runs[r].attached /\ runs[r].pc = "failing"
        <5>1. ShareOf(runs[r], n) = MaxEvents
          BY <4>2 DEF ShareOf, MsgOf
        <5> QED  BY <3>1, <5>1, EventsAreCounted
      <4>3. CASE runs[r].attached /\ outcome \in Recorded
        <5>1. ~Open(n)'
          BY <1>0, <1>1, <1>3, <1>4, <4>3, OpenHere
        <5> QED  BY <3>1, <5>1, EventsAreCounted DEF Credit
      <4>4. CASE runs[r].attached /\ runs[r].pc = "failing"
        <5>1. Open(n)
          BY <1>0, <1>1, <1>4, <4>4, OpenHere DEF OpenFor
        <5> QED  BY <3>1, <5>1, EventsAreCounted DEF Credit
      <4> QED  BY <2>2, <4>1, <4>2, <4>3, <4>4
    <3>3. events'[n] + ShareOf(runs'[r], n) + Credit(n)'
            <= events[n] + ShareOf(runs[r], n) + Credit(n)
                 + (IF faults' = faults THEN 0 ELSE MaxEvents)
      BY <2>2, <3>1, <3>2, EventsAreCounted
    <3> QED  BY <1>0, <1>1, <1>3, <1>4, <2>2, <3>3, BudgetHere
  <2> QED  BY <2>1, <2>2
<1> QED  BY <1>4, <1>6, <1>7, <1>8 DEF IInv

LEMMA SkipStep ==
  ASSUME IInv, NEW r \in Runs, Skip(r)
  PROVE  IInv'
<1>0. TypeOK /\ Narrated
  BY DEF IInv
<1>1. /\ runs[r].pc = "skipping" /\ Return(r)
      /\ record' = [record EXCEPT ![MsgOf(r)] = "skipped"]
      /\ UNCHANGED <<entities, events, narrative, promised>>
      /\ UNCHANGED <<done, sends, waiting, orphaned, outlived, hasKey, faults>>
  BY DEF Skip, stored, queued
<1>2. PICK n \in Messages : n = MsgOf(r)
  BY <1>0, <1>1, MessageOfRun
<1>3. /\ waiting' \in Queues /\ promised' \subseteq Messages
      /\ outlived = {} => promised' \subseteq narrative.covers
  BY <1>0, <1>1 DEF TypeOK, Narrated
<1> QED  BY <1>1, <1>2, <1>3, ReturnKeeps DEF Recorded

LEMMA RecordFailureStep ==
  ASSUME IInv, NEW r \in Runs, RecordFailure(r)
  PROVE  IInv'
<1>0. TypeOK /\ Narrated
  BY DEF IInv
<1>1. /\ runs[r].pc = "failing" /\ Return(r)
      /\ record' = [record EXCEPT ![MsgOf(r)] = "failed"]
      /\ promised' = promised \ {MsgOf(r)}
      /\ UNCHANGED <<entities, events, narrative>>
      /\ UNCHANGED <<done, sends, waiting, orphaned, outlived, hasKey, faults>>
  BY DEF RecordFailure, stored, queued
<1>2. PICK n \in Messages : n = MsgOf(r)
  BY <1>0, <1>1, MessageOfRun
<1>3. /\ waiting' \in Queues /\ promised' \subseteq Messages
      /\ outlived = {} => promised' \subseteq narrative.covers
  BY <1>0, <1>1 DEF TypeOK, Narrated
<1> QED  BY <1>1, <1>2, <1>3, ReturnKeeps

\* A success with a part in the narrative: the execution found its upsert done.
LEMMA RecordSuccessStep ==
  ASSUME IInv, NEW r \in Runs, RecordSuccess(r)
  PROVE  IInv'
<1>0. TypeOK /\ Solo /\ Versioned /\ Narrated
  BY DEF IInv
<1>1. /\ runs[r].pc = "recording"
      /\ record' = [record EXCEPT ![MsgOf(r)] = "success"]
      /\ promised' = IF runs[r].answer.delta THEN promised \cup {MsgOf(r)} ELSE promised
      /\ \/ Return(r) /\ UNCHANGED faults
         \/ Fault /\ Goto(r, "failing")
      /\ UNCHANGED <<entities, events, narrative>>
      /\ UNCHANGED <<done, sends, waiting, orphaned, outlived, hasKey>>
  BY DEF RecordSuccess, stored, queued
<1>2. PICK n \in Messages : n = MsgOf(r)
  BY <1>0, <1>1, MessageOfRun
<1>3. /\ waiting' \in Queues /\ promised' \subseteq Messages
      /\ outlived = {} => promised' \subseteq narrative.covers
  BY <1>0, <1>1, <1>2 DEF TypeOK, Narrated, Busy
<1>4. /\ record' \in [Messages -> {"none", "skipped", "success", "failed"}]
      /\ record'[n] = "success"
      /\ \A m \in Messages \ {n} : record'[m] = record[m]
  BY <1>0, <1>1, <1>2 DEF TypeOK
<1>5. CASE Return(r) /\ UNCHANGED faults
  BY <1>1, <1>2, <1>3, <1>5, ReturnKeeps DEF Recorded
<1>6. CASE Fault /\ Goto(r, "failing")
  <2>1. Advances(r) /\ runs'[r].pc = "failing"
    BY <1>0, <1>1, <1>6, GotoAdvances, PhasesAre
  <2>2. \A s \in Busy' : s # r => s \in Busy /\ runs'[s] = runs[s]
    BY <2>1 DEF Busy, Advances
  <2>3. Versioned'
    BY <1>0, <1>1, <2>1, <2>2 DEF Versioned, Composing
  <2>4. Narrated'
    BY <1>0, <1>1, <1>3, <2>1, <2>2 DEF Narrated, Composing, MsgOf
  <2>5. events'[n] <= events[n] + ShareOf(runs[r], n)
    BY <1>0, <1>1, SharesAreCounts, EventsAreCounted DEF TypeOK
  <2> QED  BY <1>0, <1>1, <1>2, <1>3, <1>4, <1>6, <2>3, <2>4, <2>5, ToFailing
              DEF TypeOK, Recorded
<1> QED  BY <1>1, <1>5, <1>6

LEMMA ThrowsStep ==
  ASSUME IInv, NEW r \in Runs, Throws(r)
  PROVE  IInv'
<1>0. TypeOK /\ Narrated
  BY DEF IInv
<1>1. /\ runs[r].pc # "idle" /\ Fault /\ Return(r)
      /\ waiting' = IF runs[r].attached THEN Retry(waiting, runs[r].job) ELSE waiting
      /\ UNCHANGED <<entities, events, narrative>>
      /\ UNCHANGED <<done, sends, orphaned, outlived, hasKey>>
  BY DEF Throws, stored
<1>2. PICK n \in Messages : n = MsgOf(r)
  BY <1>0, <1>1, MessageOfRun
<1>3. PICK outcome \in {"none", "skipped", "success", "failed"} :
        record' = [record EXCEPT ![n] = outcome]
  <2>1. record = [record EXCEPT ![n] = record[n]]
    BY <1>0 DEF TypeOK
  <2>2. record[n] \in {"none", "skipped", "success", "failed"}
    BY <1>0 DEF TypeOK
  <2> QED  BY <1>2, <2>1, <2>2 DEF Throws
<1>4. waiting' \in Queues
  <2>1. runs[r].job \in Job /\ waiting \in Queues
    BY <1>0, <1>1, MessageOfRun DEF TypeOK
  <2> QED  BY <1>1, <2>1, QueuesStay
<1>5. /\ promised' \subseteq Messages
      /\ outlived = {} => promised' \subseteq narrative.covers
  <2>1. promised' \subseteq promised
    BY DEF Throws
  <2> QED  BY <1>0, <2>1 DEF TypeOK, Narrated
<1> QED  BY <1>1, <1>2, <1>3, <1>4, <1>5, ReturnKeeps

-----------------------------------------------------------------------------
\* Deliveries, expiries and crashes.

LEMMA StartJobStep ==
  ASSUME IInv, NEW r \in Runs, NEW job \in Job, StartJob(r, job)
  PROVE  IInv'
<1> DEFINE fresh == [pc |-> "reading", job |-> job, attached |-> TRUE, prior |-> NoRow,
                     answer |-> [events |-> 0, delta |-> FALSE]]
<1>0. TypeOK /\ Solo /\ Versioned /\ Narrated /\ Unsettled /\ Budgeted
  BY DEF IInv
<1>1. /\ runs[r].pc = "idle" /\ Attached = {} /\ waiting[job] > 0
      /\ waiting' = Take(waiting, job)
      /\ runs' = [runs EXCEPT ![r] = fresh]
      /\ UNCHANGED <<record, entities, events, narrative, promised>>
      /\ UNCHANGED <<done, sends, orphaned, outlived, hasKey, faults>>
  BY DEF StartJob, stored
<1>2. fresh \in Working
  BY EventsAreCounted DEF Working, Phases, Narratives, NoRow
<1>3. /\ runs'[r] = fresh /\ \A s \in Runs \ {r} : runs'[s] = runs[s]
      /\ runs' \in [Runs -> RunStates]
  BY <1>0, <1>1, <1>2, RunStatesAre DEF TypeOK
<1>4. runs'[r].pc = "reading" /\ runs'[r].attached = TRUE /\ runs'[r].job = job
  BY <1>3
<1>5. TypeOK'
  <2>1. waiting' \in Queues
    BY <1>0, <1>1, QueuesStay DEF TypeOK
  <2> QED  BY <1>0, <1>1, <1>3, <2>1 DEF TypeOK
<1>6. /\ Busy' = Busy \cup {r} /\ r \notin Busy
      /\ \A s \in Busy : s \in Runs /\ runs'[s] = runs[s] /\ ~runs[s].attached
  BY <1>1, <1>3, <1>4 DEF Busy, Attached
<1>7. Attached' = {r}
  BY <1>4, <1>6 DEF Attached, Busy
<1>8. Solo'
  <2>1. IsFiniteSet(Busy')
    BY <1>0, <1>6, FS_AddElement DEF Solo
  <2>2. \A s \in Busy' : ~runs'[s].attached => runs'[s].job.msg \in outlived
    BY <1>0, <1>4, <1>6 DEF Solo, MsgOf
  <2> QED  BY <1>1, <1>7, <2>1, <2>2 DEF Solo, MsgOf
<1>9. Versioned'
  BY <1>0, <1>1, <1>4, <1>6 DEF Versioned, Composing
<1>10. Narrated'
  BY <1>0, <1>1, <1>4, <1>6 DEF Narrated, Composing, MsgOf
<1>11. Unsettled'
  BY <1>0, <1>1, <1>4, <1>6 DEF Unsettled, MsgOf
<1>12. Budgeted'
  <2> SUFFICES ASSUME NEW m \in Messages
               PROVE  events'[m] + ShareOf(runs'[r], m) + Credit(m)'
                        <= events[m] + ShareOf(runs[r], m) + Credit(m)
                             + (IF faults' = faults THEN 0 ELSE MaxEvents)
    BY <1>0, <1>1, <1>3, <1>5, <1>8, BudgetKept
  <2>1. ShareOf(runs'[r], m) = 0 /\ ShareOf(runs[r], m) = 0
    BY <1>1, <1>4 DEF ShareOf
  <2>2. Open(m)' => Open(m)
    BY <1>1, <1>4, <1>7 DEF Open
  <2>3. /\ Credit(m) \in Nat /\ Credit(m)' \in Nat /\ Credit(m)' <= Credit(m)
        /\ events[m] \in Nat
    BY <1>0, <2>2, EventsAreCounted DEF Credit, TypeOK
  <2> QED  BY <1>1, <2>1, <2>3
<1> QED  BY <1>5, <1>8, <1>9, <1>10, <1>11, <1>12 DEF IInv

\* An execution that outlives its job may bring an answer of its own: the fault
\* pays for it.
LEMMA ExpireStep ==
  ASSUME IInv, NEW r \in Runs, Expire(r)
  PROVE  IInv'
<1>0. TypeOK /\ Solo /\ Versioned /\ Narrated /\ Unsettled /\ Budgeted
  BY DEF IInv
<1>1. /\ runs[r].pc # "idle" /\ runs[r].attached /\ Fault
      /\ waiting' = Retry(waiting, runs[r].job)
      /\ outlived' = outlived \cup {MsgOf(r)}
      /\ runs' = [runs EXCEPT ![r] = [runs[r] EXCEPT !.attached = FALSE]]
      /\ UNCHANGED <<record, entities, events, narrative, promised>>
      /\ UNCHANGED <<done, sends, orphaned, hasKey>>
  BY DEF Expire, stored
<1>2. PICK n \in Messages : n = MsgOf(r) /\ runs[r].job \in Job /\ runs[r] \in Working
  BY <1>0, <1>1, MessageOfRun, IdleOrWorking
<1>3. /\ runs'[r] \in Working /\ runs'[r].attached = FALSE /\ runs'[r].pc = runs[r].pc
      /\ runs'[r].job = runs[r].job /\ runs'[r].prior = runs[r].prior
      /\ runs'[r].answer = runs[r].answer
      /\ \A s \in Runs \ {r} : runs'[s] = runs[s]
      /\ runs' \in [Runs -> RunStates]
  <2>1. [runs[r] EXCEPT !.attached = FALSE] \in Working
    BY <1>2 DEF Working
  <2>2. runs'[r] = [runs[r] EXCEPT !.attached = FALSE]
    BY <1>0, <1>1 DEF TypeOK
  <2>3. /\ \A s \in Runs \ {r} : runs'[s] = runs[s]
        /\ runs' \in [Runs -> RunStates]
    BY <1>0, <1>1, <2>1, RunStatesAre DEF TypeOK
  <2> QED  BY <1>2, <2>1, <2>2, <2>3 DEF Working
<1>4. TypeOK' /\ faults \in Nat /\ faults' = faults + 1
  <2>1. waiting' \in Queues
    BY <1>0, <1>1, <1>2, QueuesStay DEF TypeOK
  <2>2. faults \in Nat /\ faults' = faults + 1 /\ faults' \in 0..MaxFaults
    BY <1>0, <1>1, FaultsAreCounted DEF TypeOK, Fault
  <2> QED  BY <1>0, <1>1, <1>2, <1>3, <2>1, <2>2 DEF TypeOK
<1>5. Busy' = Busy /\ r \in Busy
  BY <1>1, <1>3 DEF Busy
<1>6. r \in Attached /\ Attached' = {}
  <2>1. r \in Attached
    BY <1>1 DEF Attached
  <2>2. \A s \in Attached' : s \in Attached /\ s # r
    BY <1>3 DEF Attached
  <2> QED  BY <1>0, <2>1, <2>2 DEF Solo
<1>7. Solo'
  <2>1. \A s \in Busy' : runs'[s].job.msg \in outlived'
    BY <1>0, <1>1, <1>3, <1>5, <1>6 DEF Solo, MsgOf, Busy, Attached
  <2> QED  BY <1>0, <1>5, <1>6, <2>1 DEF Solo, MsgOf
<1>8. \A s \in Busy' : /\ runs'[s].pc = runs[s].pc /\ runs'[s].job = runs[s].job
                       /\ runs'[s].prior = runs[s].prior
  BY <1>3, <1>5 DEF Busy
<1>9. Versioned'
  BY <1>0, <1>1, <1>5, <1>8 DEF Versioned
<1>10. Narrated'
  BY <1>1 DEF Narrated
<1>11. Unsettled'
  BY <1>0, <1>1, <1>5, <1>8 DEF Unsettled, MsgOf
<1>12. Budgeted'
  <2> SUFFICES ASSUME NEW m \in Messages
               PROVE  events'[m] + ShareOf(runs'[r], m) + Credit(m)'
                        <= events[m] + ShareOf(runs[r], m) + Credit(m)
                             + (IF faults' = faults THEN 0 ELSE MaxEvents)
    BY <1>0, <1>3, <1>4, <1>7, BudgetKept
  <2>1. /\ Credit(m) \in 0..MaxEvents /\ Credit(m)' \in 0..MaxEvents /\ events[m] \in Nat
        /\ ShareOf(runs[r], m) \in 0..MaxEvents /\ ShareOf(runs'[r], m) \in 0..MaxEvents
    BY <1>0, <1>4, SharesAreCounts, EventsAreCounted DEF Credit, TypeOK
  <2>2. ShareOf(runs'[r], m) + Credit(m)' <= ShareOf(runs[r], m) + Credit(m) + MaxEvents
    <3>1. CASE ShareOf(runs'[r], m) = ShareOf(runs[r], m)
      BY <2>1, <3>1, EventsAreCounted
    <3>2. CASE ShareOf(runs'[r], m) # ShareOf(runs[r], m)
      <4>1. /\ MsgOf(r) = m
            /\ runs[r].pc \in {"reading", "checking", "recalling", "asking", "failing"}
        BY <1>3, <3>2 DEF ShareOf, MsgOf
      <4>2. Open(m)' <=> record[m] \notin Recorded
        BY <1>1, <1>6 DEF Open
      <4>3. Open(m) <=> OpenFor(runs[r], record[m])
        BY <1>0, <1>6, <4>1, OpenOfAttached
      <4>4. Open(m)' => Open(m)
        BY <4>1, <4>2, <4>3 DEF OpenFor
      <4> QED  BY <2>1, <4>4, EventsAreCounted DEF Credit
    <3> QED  BY <3>1, <3>2
  <2> QED  BY <1>1, <1>4, <2>1, <2>2, EventsAreCounted
<1> QED  BY <1>4, <1>7, <1>9, <1>10, <1>11, <1>12 DEF IInv

LEMMA ApiCrashStep ==
  ASSUME IInv, ApiCrash
  PROVE  IInv'
<1>0. TypeOK /\ Solo /\ Versioned /\ Narrated /\ Budgeted
  BY DEF IInv
<1>1. /\ Fault /\ runs' = [r \in Runs |-> IdleRun] /\ hasKey' \in BOOLEAN
      /\ orphaned' = [job \in Job |->
           orphaned[job] + Cardinality({r \in Attached : runs[r].job = job})]
      /\ UNCHANGED <<record, entities, events, narrative, promised>>
      /\ UNCHANGED <<done, sends, waiting, outlived>>
  BY DEF ApiCrash, stored
<1>2. faults \in Nat /\ faults' = faults + 1 /\ faults' \in 0..MaxFaults
  BY <1>0, <1>1, FaultsAreCounted DEF TypeOK, Fault
<1>3. Busy' = {} /\ Attached' = {}
  BY <1>1 DEF Busy, Attached, IdleRun
<1>4. orphaned' \in Queues
  <2>1. ASSUME NEW job \in Job
        PROVE  Cardinality({r \in Attached : runs[r].job = job}) \in Nat
    <3>1. {r \in Attached : runs[r].job = job} \in SUBSET Busy
      BY DEF Attached, Busy
    <3> QED  BY <1>0, <3>1, FS_Subset, FS_CardinalityType DEF Solo
  <2>2. \A job \in Job : orphaned[job] \in Nat
    BY <1>0 DEF TypeOK, Queues
  <2>3. \A job \in Job :
          orphaned[job] + Cardinality({r \in Attached : runs[r].job = job}) \in Nat
    BY <2>1, <2>2
  <2> QED  BY <1>1, <2>3 DEF Queues
<1>5. TypeOK'
  BY <1>0, <1>1, <1>2, <1>4 DEF TypeOK, RunStates
<1>6. Solo' /\ Versioned' /\ Unsettled'
  BY <1>0, <1>1, <1>3, FS_EmptySet DEF Solo, Versioned, Unsettled
<1>7. Narrated'
  BY <1>0, <1>1, <1>3 DEF Narrated
<1>8. Budgeted'
  <2> SUFFICES ASSUME NEW m \in Messages
               PROVE  events'[m] + Cardinality(Owed(m)') + Credit(m)'
                        <= MaxEvents * (1 + faults')
    BY DEF Budgeted
  <2>1. Cardinality(Owed(m)') = 0
    <3>1. BusyIn(runs') = {}
      BY <1>1 DEF BusyIn, IdleRun
    <3>2. Owed(m)' = {}
      BY <3>1 DEF Owed, OwedIn
    <3> QED  BY <3>2, FS_EmptySet
  <2>2. /\ Credit(m) \in 0..MaxEvents /\ Credit(m)' \in 0..MaxEvents /\ events[m] \in Nat
    BY <1>0, EventsAreCounted DEF Credit, TypeOK
  <2>3. Cardinality(Owed(m)) \in Nat
    BY <1>0, OwedIsFinite DEF Solo, Owed, Busy, BusyIn
  <2>4. events[m] + Cardinality(Owed(m)) + Credit(m) <= MaxEvents * (1 + faults)
    BY <1>0 DEF Budgeted
  <2>5. MaxEvents * (1 + faults') = MaxEvents * (1 + faults) + MaxEvents
    BY <1>2, OneFaultMore
  <2>6. MaxEvents * (1 + faults) \in Int
    BY <1>2, EventsAreCounted
  <2> QED  BY <1>1, <2>1, <2>2, <2>3, <2>4, <2>5, <2>6, EventsAreCounted
<1> QED  BY <1>5, <1>6, <1>7, <1>8 DEF IInv

\* The inbound worker and the queue leave the executions and what they store.
LEMMA OutsideStep ==
  ASSUME IInv, UNCHANGED <<record, entities, events, narrative, promised, runs, outlived>>,
         TypeOK', faults \in Nat, faults' \in {faults, faults + 1}
  PROVE  IInv'
<1>0. TypeOK /\ Solo /\ Versioned /\ Narrated /\ Unsettled /\ Budgeted
  BY DEF IInv
<1>1. Busy' = Busy /\ Attached' = Attached
  BY DEF Busy, Attached
<1>2. Solo' /\ Versioned' /\ Narrated' /\ Unsettled'
  BY <1>0, <1>1 DEF Solo, Versioned, Narrated, Unsettled, MsgOf
<1>3. Budgeted'
  <2> SUFFICES ASSUME NEW m \in Messages
               PROVE  events'[m] + Cardinality(Owed(m)') + Credit(m)'
                        <= MaxEvents * (1 + faults')
    BY DEF Budgeted
  <2>1. Owed(m)' = Owed(m) /\ Credit(m)' = Credit(m)
    BY <1>1 DEF Owed, Credit, Open, MsgOf
  <2>2. events[m] + Cardinality(Owed(m)) + Credit(m) <= MaxEvents * (1 + faults)
    BY <1>0 DEF Budgeted
  <2>3. events'[m] + Cardinality(Owed(m)') + Credit(m)' = events[m] + Cardinality(Owed(m)) + Credit(m)
    BY <2>1
  <2>4. CASE faults' = faults
    BY <2>2, <2>3, <2>4
  <2>5. CASE faults' = faults + 1
    <3>1. MaxEvents * (1 + (faults + 1)) = MaxEvents * (1 + faults) + MaxEvents
      BY OneFaultMore
    <3>2. MaxEvents * (1 + faults) \in Int
      BY EventsAreCounted
    <3>3. Cardinality(Owed(m)) \in Nat
        BY <1>0, OwedIsFinite DEF Solo, Owed, Busy, BusyIn
    <3>4. events[m] \in Nat /\ Credit(m) \in Nat
      BY <1>0, EventsAreCounted DEF TypeOK, Credit
    <3> QED  BY <2>2, <2>3, <2>5, <3>1, <3>2, <3>3, <3>4, EventsAreCounted
  <2> QED  BY <2>4, <2>5
<1> QED  BY <1>2, <1>3 DEF IInv

-----------------------------------------------------------------------------
\* The invariant.

LEMMA InitIInv == Init => IInv
<1> SUFFICES ASSUME Init PROVE IInv
  OBVIOUS
<1>1. TypeOK
  BY FaultsAreCounted
     DEF Init, TypeOK, Queues, EmptyQueue, NoRow, Narratives, RunStates
<1>2. Busy = {} /\ Attached = {} /\ BusyIn(runs) = {}
  BY DEF Init, Busy, BusyIn, Attached, IdleRun
<1>3. Solo /\ Versioned /\ Narrated /\ Unsettled
  BY <1>2, FS_EmptySet DEF Init, Solo, Versioned, Narrated, Unsettled, NoRow
<1>4. Budgeted
  <2> SUFFICES ASSUME NEW m \in Messages
               PROVE  events[m] + Cardinality(Owed(m)) + Credit(m) <= MaxEvents * (1 + faults)
    BY DEF Budgeted
  <2>1. Owed(m) = {}
    BY <1>2 DEF Owed, OwedIn
  <2>2. Cardinality(Owed(m)) = 0
    BY <2>1, FS_EmptySet
  <2>3. events[m] = 0 /\ faults = 0 /\ Credit(m) <= MaxEvents /\ Credit(m) \in Nat
    BY EventsAreCounted DEF Init, Credit
  <2> QED  BY <2>2, <2>3, EventsAreCounted
<1> QED  BY <1>1, <1>3, <1>4 DEF IInv

LEMMA RunKeepsIInv ==
  ASSUME IInv, NEW r \in Runs, RunStep(r) \/ StepFails(r) \/ Throws(r) \/ Expire(r)
  PROVE  IInv'
<1>1. ASSUME NEW job \in Job, StartJob(r, job) PROVE IInv'
  BY <1>1, StartJobStep
<1>2. CASE ReadInbound(r) \/ CheckRecord(r) \/ AskFails(r) \/ EventsInserted(r)
  BY <1>2, QuietStep
<1>3. CASE Skip(r)
  BY <1>3, SkipStep
<1>4. CASE ReadNarrative(r)
  BY <1>4, ReadNarrativeStep
<1>5. ASSUME NEW k \in 0..MaxEvents, NEW delta \in BOOLEAN, Ask(r, k, delta) PROVE IInv'
  BY <1>5, AskStep
<1>6. CASE UpsertEntities(r)
  BY <1>6, UpsertEntitiesStep
<1>7. CASE InsertEvent(r)
  BY <1>7, InsertEventStep
<1>8. CASE UpsertNarrative(r)
  BY <1>8, UpsertNarrativeStep
<1>9. CASE RecordSuccess(r)
  BY <1>9, RecordSuccessStep
<1>10. CASE RecordFailure(r)
  BY <1>10, RecordFailureStep
<1>11. CASE StepFails(r)
  BY <1>11, StepFailsStep
<1>12. CASE Throws(r)
  BY <1>12, ThrowsStep
<1>13. CASE Expire(r)
  BY <1>13, ExpireStep
<1> QED
  BY <1>1, <1>2, <1>3, <1>4, <1>5, <1>6, <1>7, <1>8, <1>9, <1>10, <1>11, <1>12, <1>13
     DEF RunStep

LEMMA StepKeepsIInv == IInv /\ [Next]_vars => IInv'
<1> SUFFICES ASSUME IInv, [Next]_vars PROVE IInv'
  OBVIOUS
<1>0. TypeOK
  BY DEF IInv
<1>1. ASSUME NEW r \in Runs, RunStep(r) \/ StepFails(r) \/ Throws(r) \/ Expire(r) PROVE IInv'
  BY <1>1, RunKeepsIInv
<1>2. CASE ApiCrash
  BY <1>2, ApiCrashStep
<1>3. ASSUME NEW m \in Messages, Finish(m) \/ Reclaim(m) PROVE IInv'
  <2>1. /\ UNCHANGED <<record, entities, events, narrative, promised, runs, outlived>>
        /\ UNCHANGED <<orphaned, hasKey>>
        /\ faults' = faults \/ Fault
        /\ waiting' \in {waiting, Put(waiting, NewJob(m))}
        /\ done' \in {[done EXCEPT ![m] = TRUE], [done EXCEPT ![m] = FALSE]}
        /\ sends' \in {sends, [sends EXCEPT ![m] = @ + 1]}
    BY <1>3 DEF Finish, Reclaim, stored
  <2>2. waiting' \in Queues
    BY <1>0, <2>1, NewJobIsJob, QueuesStay DEF TypeOK
  <2>3. faults \in Nat /\ faults' \in {faults, faults + 1} /\ faults' \in 0..MaxFaults
    BY <1>0, <2>1, FaultsAreCounted DEF TypeOK, Fault
  <2>4. done' \in [Messages -> BOOLEAN] /\ sends' \in [Messages -> Nat]
    <3>1. done \in [Messages -> BOOLEAN] /\ sends \in [Messages -> Nat]
      BY <1>0 DEF TypeOK
    <3>2. [sends EXCEPT ![m] = @ + 1] \in [Messages -> Nat]
      BY <3>1
    <3>3. \A b \in BOOLEAN : [done EXCEPT ![m] = b] \in [Messages -> BOOLEAN]
      BY <3>1
    <3> QED  BY <2>1, <3>1, <3>2, <3>3
  <2>5. TypeOK'
    BY <1>0, <2>1, <2>2, <2>3, <2>4 DEF TypeOK
  <2> QED  BY <2>1, <2>3, <2>5, OutsideStep
<1>4. ASSUME NEW job \in Job, OrphanExpires(job) PROVE IInv'
  <2>1. /\ UNCHANGED <<record, entities, events, narrative, promised, runs, outlived>>
        /\ UNCHANGED <<done, sends, hasKey, faults>>
        /\ orphaned[job] > 0 /\ orphaned' = Take(orphaned, job)
        /\ waiting' = Retry(waiting, job)
    BY <1>4 DEF OrphanExpires, stored
  <2>2. orphaned' \in Queues /\ waiting' \in Queues
    BY <1>0, <2>1, QueuesStay DEF TypeOK
  <2>3. TypeOK' /\ faults \in Nat
    BY <1>0, <2>1, <2>2, FaultsAreCounted DEF TypeOK
  <2> QED  BY <2>1, <2>3, OutsideStep
<1>5. CASE UNCHANGED vars
  <2>1. /\ UNCHANGED <<record, entities, events, narrative, promised, runs, outlived>>
        /\ UNCHANGED <<done, sends, hasKey, faults, waiting, orphaned>>
    BY <1>5 DEF vars
  <2>2. TypeOK' /\ faults \in Nat
    BY <1>0, <2>1, FaultsAreCounted DEF TypeOK
  <2> QED  BY <2>1, <2>2, OutsideStep
<1> QED  BY <1>1, <1>2, <1>3, <1>4, <1>5 DEF Next

\* Whatever the deliveries, expiries, crashes and lost answers, the invariant
\* holds: the theorems below follow from it.
THEOREM InductiveInvariant == Spec => []IInv
<1> QED  BY InitIInv, StepKeepsIInv, PTL DEF Spec

\* Every variable has its type: queues never go below zero, an execution is in
\* a phase of processMemoryEnrichJob with a job of its queue.
THEOREM TypeCorrect == Spec => []TypeOK
<1>1. IInv => TypeOK
  BY DEF IInv
<1> QED  BY <1>1, InductiveInvariant, PTL

\* A message that is recorded as a success, and whose answer had a part for the
\* narrative, is in the narrative, unless an execution outlived its job.
THEOREM SuccessIsNarratedHolds == Spec => []SuccessIsNarrated
<1>1. IInv => SuccessIsNarrated
  BY DEF IInv, Narrated, SuccessIsNarrated
<1> QED  BY <1>1, InductiveInvariant, PTL

\* No message has more events than those of its answer, once and once again for
\* every fault.
THEOREM EventsExplainedHolds == Spec => []EventsExplained
<1>1. IInv => EventsExplained
  <2> SUFFICES ASSUME IInv, NEW m \in Messages
               PROVE  events[m] <= MaxEvents * (1 + faults)
    BY DEF EventsExplained
  <2>1. TypeOK /\ Solo /\ events[m] + Cardinality(Owed(m)) + Credit(m) <= MaxEvents * (1 + faults)
    BY DEF IInv, Budgeted
  <2>2. Cardinality(Owed(m)) \in Nat
    BY <2>1, OwedIsFinite DEF Solo, Owed, Busy, BusyIn
  <2>3. events[m] \in Nat /\ Credit(m) \in Nat /\ MaxEvents * (1 + faults) \in Int
    BY <2>1, EventsAreCounted, FaultsAreCounted DEF TypeOK, Credit
  <2> QED  BY <2>1, <2>2, <2>3
<1> QED  BY <1>1, InductiveInvariant, PTL

\* The narrative never loses a message it covers, whichever executions overlap.
THEOREM NarrativeKeepsHolds == Spec => NarrativeKeeps
<1>1. IInv /\ [Next]_vars => [narrative.covers \subseteq narrative'.covers]_vars
  <2> SUFFICES ASSUME IInv, Next PROVE narrative.covers \subseteq narrative'.covers
    OBVIOUS
  <2>0. TypeOK /\ Versioned
    BY DEF IInv
  <2>1. ASSUME NEW r \in Runs, UpsertNarrative(r) PROVE narrative.covers \subseteq narrative'.covers
    BY <2>0, <2>1, UpsertedCovers DEF UpsertNarrative
  <2>2. CASE UNCHANGED narrative
    BY <2>2
  <2>3. ASSUME NEW r \in Runs, RunStep(r) \/ StepFails(r) \/ Throws(r) \/ Expire(r)
        PROVE  UpsertNarrative(r) \/ UNCHANGED narrative
    BY <2>3 DEF RunStep, StartJob, ReadInbound, CheckRecord, Skip, ReadNarrative, AskFails, Ask,
       UpsertEntities, InsertEvent, EventsInserted, RecordSuccess, RecordFailure,
       StepFails, Throws, Expire, stored
  <2>4. ASSUME ApiCrash \/ (\E m \in Messages : Finish(m) \/ Reclaim(m))
                 \/ \E job \in Job : OrphanExpires(job)
        PROVE  UNCHANGED narrative
    BY <2>4 DEF ApiCrash, Finish, Reclaim, OrphanExpires, stored
  <2> QED  BY <2>1, <2>2, <2>3, <2>4 DEF Next
<1> QED  BY <1>1, InductiveInvariant, PTL DEF Spec, NarrativeKeeps

\* An outcome that ended the work on a message stands, unless an execution
\* outlived its job or the answer to the record of the outcome was lost.
THEOREM SettledRecordStandsHolds == Spec => SettledRecordStands
<1> DEFINE Stands ==
      \A m \in Messages \ outlived :
        (record[m] \in {"success", "skipped"} /\ record'[m] # record[m]) =>
          \E r \in Runs : runs[r].pc = "failing" /\ MsgOf(r) = m
<1>1. IInv /\ [Next]_vars => [Stands]_vars
  <2> SUFFICES ASSUME IInv, Next, NEW m \in Messages \ outlived,
                      record[m] \in Recorded, record'[m] # record[m]
               PROVE  \E r \in Runs : runs[r].pc = "failing" /\ MsgOf(r) = m
    BY DEF Recorded
  <2>0. TypeOK /\ Unsettled
    BY DEF IInv
  <2>1. ASSUME NEW r \in Runs, RunStep(r) \/ StepFails(r) \/ Throws(r) \/ Expire(r)
        PROVE  \/ UNCHANGED record
               \/ /\ runs[r].pc \in {"skipping", "recording", "failing"}
                  /\ \E outcome : record' = [record EXCEPT ![MsgOf(r)] = outcome]
    BY <2>1 DEF RunStep, StartJob, ReadInbound, CheckRecord, Skip, ReadNarrative, AskFails, Ask,
       UpsertEntities, InsertEvent, EventsInserted, UpsertNarrative, RecordSuccess, RecordFailure,
       StepFails, Throws, Expire
  <2>2. ASSUME ApiCrash \/ (\E n \in Messages : Finish(n) \/ Reclaim(n))
                 \/ \E job \in Job : OrphanExpires(job)
        PROVE  FALSE
    BY <2>2 DEF ApiCrash, Finish, Reclaim, OrphanExpires
  <2>3. PICK r \in Runs : /\ runs[r].pc \in {"skipping", "recording", "failing"}
                          /\ \E outcome : record' = [record EXCEPT ![MsgOf(r)] = outcome]
    BY <2>1, <2>2 DEF Next
  <2>4. MsgOf(r) = m
    BY <2>0, <2>3 DEF TypeOK
  <2>5. r \in Busy
    BY <2>3 DEF Busy
  <2> QED  BY <2>0, <2>3, <2>4, <2>5 DEF Unsettled
<1> QED  BY <1>1, InductiveInvariant, PTL DEF Spec, SettledRecordStands
=====
