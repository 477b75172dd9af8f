----------------------------- MODULE InboundProofs -----------------------------
(***************************************************************************)
(* Proofs about what comes in, for any conversations, messages, senders,   *)
(* deliveries and faults.                                                  *)
(*                                                                         *)
(* The inbox of the WeChat gateway loses nothing, repeats nothing and keeps*)
(* direct conversations in order.  Its inductive invariant says that a     *)
(* fragment lies with its own conversation (Homed), in exactly one place   *)
(* (Conserved), before what came later (Ordered), and what a stop has still*)
(* to do for it (Flushed).  Then, of the other parts of what comes in:     *)
(* what is told to a service is stored (WebhookGateways), a token of the   *)
(* cache is valid when it is handed out (WeComToken), and what is DONE was *)
(* answered (InboundPipeline, whose own proofs are cited).                 *)
(***************************************************************************)
EXTENDS MCInbound, FiniteSetTheorems, SequenceTheorems, TLAPS


\* The fragments of a row of inbound_messages.
Said(i) == ToSet(stored[i].parts)

Buffered(f) == \E k \in Keys : f \in Gathered(k)
Flying(f)   == \E p \in posts : f \in ToSet(p.parts)

\* A fragment is of the conversation whose buffer, request or row it is in, and
\* mention lists are awaited in rooms only.
Homed ==
  /\ \A f \in mentioning : f \in DOMAIN arrivals /\ arrivals[f] \in Rooms
  /\ \A k \in Keys : \A f \in Gathered(k) : f \in DOMAIN arrivals /\ arrivals[f] = k
  /\ \A p \in posts : \A f \in ToSet(p.parts) : f \in DOMAIN arrivals /\ arrivals[f] = p.key
  /\ \A i \in DOMAIN stored : \A f \in Said(i) : f \in DOMAIN arrivals /\ arrivals[f] = stored[i].key
  /\ lost \subseteq DOMAIN arrivals /\ atStop \subseteq DOMAIN arrivals

\* A fragment is somewhere, and nowhere else.
Conserved ==
  /\ \A f \in DOMAIN arrivals :
       /\ f \in mentioning \/ f \in lost \/ Buffered(f) \/ Flying(f) \/ IsStored(f)
       /\ f \in mentioning => f \notin lost /\ ~Buffered(f) /\ ~Flying(f) /\ ~IsStored(f)
       /\ f \in lost => ~Buffered(f) /\ ~Flying(f) /\ ~IsStored(f)
       /\ Buffered(f) => ~Flying(f) /\ ~IsStored(f)
       /\ Flying(f) => ~IsStored(f)
  /\ \A p, q \in posts : \A f \in ToSet(p.parts) : f \in ToSet(q.parts) => p = q
  /\ \A i, j \in DOMAIN stored : \A f \in Said(i) : f \in Said(j) => i = j

Increasing(s) == \A a, b \in DOMAIN s : a < b => s[a] < s[b]
Before(A, B) == \A a \in A, b \in B : a < b

\* A direct conversation without overlapping requests: what is stored came before
\* what is on its way, and that before what is gathered.
Ordered ==
  /\ \A k \in Keys \ Rooms : Increasing(buffers[k])
  /\ \A p \in posts : p.key \notin Rooms => Increasing(p.parts)
  /\ \A p, q \in posts : p.key = q.key /\ p.key \notin overlapped => p = q
  /\ \A p \in posts : p.key \notin Rooms \cup overlapped => Before(ToSet(p.parts), Gathered(p.key))
  /\ \A i \in DOMAIN stored, p \in posts :
       stored[i].key = p.key /\ p.key \notin Rooms \cup overlapped => Before(Said(i), ToSet(p.parts))
  /\ \A i \in DOMAIN stored :
       stored[i].key \notin Rooms \cup overlapped => Before(Said(i), Gathered(stored[i].key))
  /\ DirectIsInOrder

\* Conversations of which a fragment that the stop had to flush is lost.
Missing == {arrivals[f] : f \in atStop \cap lost}

\* What the stop has to flush is gathered while its conversation is still to come, and
\* on its way while the stop awaits it; a conversation it loses costs a fault.
Flushed ==
  /\ atStop \cap mentioning = {}
  /\ \A p \in posts : p.waiter = "timer" => ToSet(p.parts) \cap atStop = {}
  /\ \A f \in atStop : Buffered(f) => gw = "flushing" /\ arrivals[f] \in todo
  /\ \A f \in atStop : Flying(f) => gw = "flushing"
  /\ IsFiniteSet(Missing) /\ Cardinality(Missing) <= faults

\* A timer runs only where something is gathered.
Armed == \A k \in armed : buffers[k] # <<>>

IInv == TypeOK /\ Homed /\ Conserved /\ Ordered /\ Flushed /\ Armed

-----------------------------------------------------------------------------
\* Sequences of fragments.

LEMMA ElementsOfAppend ==
  ASSUME NEW S, NEW s \in Seq(S), NEW x \in S
  PROVE  /\ ToSet(Append(s, x)) = ToSet(s) \cup {x}
         /\ Append(s, x) \in Seq(S) /\ Append(s, x) # <<>>
         /\ \A i \in DOMAIN s : Append(s, x)[i] = s[i]
<1>1. /\ Append(s, x) \in Seq(S) /\ Append(s, x) # <<>> /\ Len(s) \in Nat
      /\ DOMAIN s = 1..Len(s) /\ DOMAIN Append(s, x) = 1..(Len(s) + 1)
      /\ \A i \in 1..Len(s) : Append(s, x)[i] = s[i]
      /\ Append(s, x)[Len(s) + 1] = x
  BY AppendProperties, LenProperties
<1>2. ASSUME NEW y PROVE y \in ToSet(Append(s, x)) <=> y \in ToSet(s) \cup {x}
  <2>1. y \in ToSet(Append(s, x)) <=> \E i \in 1..(Len(s) + 1) : Append(s, x)[i] = y
    BY <1>1 DEF ToSet
  <2>2. y \in ToSet(s) <=> \E i \in 1..Len(s) : s[i] = y
    BY <1>1 DEF ToSet
  <2>3. \A i \in 1..(Len(s) + 1) : i \in 1..Len(s) \/ i = Len(s) + 1
    BY <1>1
  <2>4. 1..Len(s) \subseteq 1..(Len(s) + 1) /\ Len(s) + 1 \in 1..(Len(s) + 1)
    BY <1>1
  <2> QED  BY <1>1, <2>1, <2>2, <2>3, <2>4
<1> QED  BY <1>1, <1>2

LEMMA ElementsOfSequence ==
  ASSUME NEW S, NEW s \in Seq(S)
  PROVE  /\ ToSet(s) \subseteq S /\ ToSet(<<>>) = {}
         /\ s # <<>> <=> ToSet(s) # {}
<1>1. DOMAIN s = 1..Len(s) /\ Len(s) \in Nat /\ (s = <<>> <=> Len(s) = 0)
  BY LenProperties, EmptySeq
<1>2. \A i \in 1..Len(s) : s[i] \in S
  BY ElementOfSeq
<1>3. DOMAIN <<>> = {}
  OBVIOUS
<1>4. s # <<>> => 1 \in DOMAIN s
  BY <1>1
<1> QED  BY <1>1, <1>2, <1>3, <1>4 DEF ToSet

LEMMA IncreasingAppend ==
  ASSUME NEW s \in Seq(Nat), NEW x \in Nat, Increasing(s), Before(ToSet(s), {x})
  PROVE  Increasing(Append(s, x))
<1>1. /\ Len(s) \in Nat /\ DOMAIN s = 1..Len(s) /\ DOMAIN Append(s, x) = 1..(Len(s) + 1)
      /\ \A i \in 1..Len(s) : Append(s, x)[i] = s[i]
      /\ Append(s, x)[Len(s) + 1] = x
  BY AppendProperties, LenProperties
<1>2. \A i \in 1..Len(s) : s[i] < x
  BY <1>1 DEF ToSet, Before
<1> SUFFICES ASSUME NEW a \in 1..(Len(s) + 1), NEW b \in 1..(Len(s) + 1), a < b
             PROVE  Append(s, x)[a] < Append(s, x)[b]
  BY <1>1 DEF Increasing
<1>3. a \in 1..Len(s)
  BY <1>1
<1>4. CASE b = Len(s) + 1
  BY <1>1, <1>2, <1>3, <1>4
<1>5. CASE b \in 1..Len(s)
  BY <1>1, <1>3, <1>5 DEF Increasing
<1> QED  BY <1>1, <1>4, <1>5

LEMMA IncreasingEmpty == Increasing(<<>>)
BY DEF Increasing

\* Everything is numbered.
LEMMA Numbers ==
  ASSUME TypeOK, Homed
  PROVE  /\ Fragments \subseteq Nat /\ Len(arrivals) \in Nat /\ DOMAIN arrivals = 1..Len(arrivals)
         /\ \A f \in DOMAIN arrivals : arrivals[f] \in Keys
         /\ \A k \in Keys : buffers[k] \in Seq(Fragments) /\ Gathered(k) \subseteq Fragments
         /\ \A p \in posts : p.parts \in Seq(Fragments) /\ p.key \in Keys /\ ToSet(p.parts) \subseteq Fragments
         /\ \A i \in DOMAIN stored : stored[i].parts \in Seq(Fragments) /\ stored[i].key \in Keys
                                     /\ Said(i) \subseteq Fragments
<1>1. Fragments \subseteq Nat
  BY BoundsAreCounts DEF Fragments
<1>2. Len(arrivals) \in Nat /\ DOMAIN arrivals = 1..Len(arrivals)
      /\ \A f \in DOMAIN arrivals : arrivals[f] \in Keys
  BY LenProperties, ElementOfSeq DEF TypeOK
<1>3. \A k \in Keys : buffers[k] \in Seq(Fragments)
  BY DEF TypeOK, Texts
<1>4. \A p \in posts : p.parts \in Seq(Fragments) /\ p.key \in Keys
  BY DEF TypeOK, Texts
<1>5. \A i \in DOMAIN stored : stored[i].parts \in Seq(Fragments) /\ stored[i].key \in Keys
  <2>1. \A i \in DOMAIN stored : stored[i] \in [key : Keys, parts : Texts]
    BY LenProperties, ElementOfSeq DEF TypeOK
  <2> QED  BY <2>1 DEF Texts
<1> QED  BY <1>1, <1>2, <1>3, <1>4, <1>5, ElementsOfSequence DEF Gathered, Said

-----------------------------------------------------------------------------
\* The steps a fragment takes.

\* A fragment that is nowhere but perhaps among the awaited mention lists joins the
\* buffer of its conversation.
LEMMA ScheduleKeeps ==
  ASSUME IInv, NEW k \in Keys, NEW f \in Fragments, Schedule(f, k),
         DOMAIN arrivals' = DOMAIN arrivals \cup {f}, arrivals'[f] = k,
         \A g \in DOMAIN arrivals : arrivals'[g] = arrivals[g],
         f \notin lost, ~Buffered(f), ~Flying(f), ~IsStored(f), f \notin atStop,
         k \notin Rooms => \A g \in DOMAIN arrivals : g < f,
         mentioning' = mentioning \ {f},
         UNCHANGED <<posts, stored, lost, overlapped, atStop, todo, gw, faults>>
  PROVE  Homed' /\ Conserved' /\ Ordered' /\ Flushed' /\ Armed'
<1>0. TypeOK /\ Homed /\ Conserved /\ Ordered /\ Flushed /\ Armed
  BY DEF IInv
<1>1. /\ buffers' \in [Keys -> Seq(Fragments)] /\ buffers'[k] = Append(buffers[k], f)
      /\ \A j \in Keys \ {k} : buffers'[j] = buffers[j]
      /\ buffers[k] \in Seq(Fragments) /\ buffers'[k] # <<>>
  <2>1. buffers \in [Keys -> Seq(Fragments)] /\ buffers' = [buffers EXCEPT ![k] = Append(@, f)]
    BY <1>0 DEF Schedule, TypeOK, Texts
  <2>2. Append(buffers[k], f) \in Seq(Fragments) /\ Append(buffers[k], f) # <<>>
    BY <2>1, ElementsOfAppend
  <2> QED  BY <2>1, <2>2
<1>2. /\ Gathered(k)' = Gathered(k) \cup {f}
      /\ \A j \in Keys \ {k} : Gathered(j)' = Gathered(j)
  BY <1>1, ElementsOfAppend DEF Gathered
<1>3. \A g : Buffered(g)' <=> Buffered(g) \/ g = f
  BY <1>2 DEF Buffered
<1>4. /\ \A g : Flying(g)' <=> Flying(g)
      /\ \A g : IsStored(g)' <=> IsStored(g)
      /\ \A i : Said(i)' = Said(i)
  BY DEF Flying, IsStored, Said
<1>5. Homed'
  BY <1>0, <1>2, <1>4 DEF Homed
<1>6. Conserved'
  <2>1. \A p, q \in posts' : \A g \in ToSet(p.parts) : g \in ToSet(q.parts) => p = q
    BY <1>0 DEF Conserved
  <2>2. \A i, j \in DOMAIN stored' : \A g \in Said(i)' : g \in Said(j)' => i = j
    BY <1>0, <1>4 DEF Conserved
  <2>3. ASSUME NEW g \in DOMAIN arrivals'
        PROVE /\ g \in mentioning' \/ g \in lost' \/ Buffered(g)' \/ Flying(g)' \/ IsStored(g)'
              /\ g \in mentioning' => g \notin lost' /\ ~Buffered(g)' /\ ~Flying(g)' /\ ~IsStored(g)'
              /\ g \in lost' => ~Buffered(g)' /\ ~Flying(g)' /\ ~IsStored(g)'
              /\ Buffered(g)' => ~Flying(g)' /\ ~IsStored(g)'
              /\ Flying(g)' => ~IsStored(g)'
    <3>1. CASE g = f
      BY <3>1, <1>3, <1>4
    <3>2. CASE g # f
      <4>1. g \in DOMAIN arrivals
        BY <3>2
      <4> QED  BY <3>2, <4>1, <1>0, <1>3, <1>4 DEF Conserved
    <3> QED  BY <3>1, <3>2
  <2> QED  BY <2>1, <2>2, <2>3 DEF Conserved
<1>7. Ordered'
  <2>1. k \notin Rooms =>
          /\ \A p \in posts : p.key = k => Before(ToSet(p.parts), {f})
          /\ \A i \in DOMAIN stored : stored[i].key = k => Before(Said(i), {f})
          /\ Before(Gathered(k), {f})
    BY <1>0 DEF Homed, Before
  <2>2. \A j \in Keys \ Rooms : Increasing(buffers'[j])
    <3> SUFFICES ASSUME NEW j \in Keys \ Rooms PROVE Increasing(buffers'[j])
      OBVIOUS
    <3>1. CASE j = k
      <4>1. buffers[k] \in Seq(Nat) /\ f \in Nat
        BY <1>0, <1>1, Numbers, SeqMonotonic
      <4>2. Increasing(Append(buffers[k], f))
        BY <1>0, <2>1, <3>1, <4>1, IncreasingAppend DEF Ordered, Gathered
      <4> QED  BY <1>1, <3>1, <4>2
    <3>2. CASE j # k
      BY <1>0, <1>1, <3>2 DEF Ordered
    <3> QED  BY <3>1, <3>2
  <2>3. \A p \in posts' : p.key \notin (Rooms \cup overlapped)' =>
          Before(ToSet(p.parts), Gathered(p.key)')
    <3> SUFFICES ASSUME NEW p \in posts, p.key \notin Rooms \cup overlapped
                 PROVE  Before(ToSet(p.parts), Gathered(p.key)')
      OBVIOUS
    <3>1. p.key \in Keys /\ Before(ToSet(p.parts), Gathered(p.key))
      BY <1>0, Numbers DEF Ordered
    <3>2. CASE p.key = k
      BY <1>2, <2>1, <3>1, <3>2 DEF Before
    <3>3. CASE p.key # k
      BY <1>2, <3>1, <3>3
    <3> QED  BY <3>2, <3>3
  <2>4. \A i \in DOMAIN stored : stored[i].key \notin Rooms \cup overlapped =>
          Before(Said(i), ToSet(buffers'[stored[i].key]))
    <3> SUFFICES ASSUME NEW i \in DOMAIN stored, stored[i].key \notin Rooms \cup overlapped
                 PROVE  Before(Said(i), ToSet(buffers'[stored[i].key]))
      OBVIOUS
    <3>1. stored[i].key \in Keys /\ Before(Said(i), ToSet(buffers[stored[i].key]))
      BY <1>0, Numbers DEF Ordered, Gathered
    <3>2. CASE stored[i].key = k
      BY <1>2, <2>1, <3>1, <3>2 DEF Before, Gathered
    <3>3. CASE stored[i].key # k
      BY <1>1, <3>1, <3>3
    <3> QED  BY <3>2, <3>3
  <2>5. DirectIsInOrder'
    BY <1>0 DEF Ordered, DirectIsInOrder
  <2>6. \A i \in DOMAIN stored', p \in posts' :
          stored'[i].key = p.key /\ p.key \notin (Rooms \cup overlapped)' => Before(Said(i)', ToSet(p.parts))
    BY <1>0, <1>4 DEF Ordered
  <2>7. /\ \A p \in posts' : p.key \notin Rooms => Increasing(p.parts)
        /\ \A p, q \in posts' : p.key = q.key /\ p.key \notin overlapped' => p = q
    BY <1>0 DEF Ordered
  <2> QED  BY <2>2, <2>3, <2>4, <2>5, <2>6, <2>7 DEF Ordered, Gathered, Said
<1>8. Flushed'
  <2>1. \A g \in atStop : Buffered(g)' => gw = "flushing" /\ arrivals'[g] \in todo
    BY <1>0, <1>3 DEF Flushed, Homed
  <2>2. Missing' = Missing
    BY <1>0 DEF Missing, Homed
  <2> QED  BY <1>0, <1>4, <2>1, <2>2 DEF Flushed
<1>9. Armed'
  BY <1>0, <1>1 DEF Armed, Schedule, TypeOK
<1> QED  BY <1>5, <1>6, <1>7, <1>8, <1>9

\* A buffer that is flushed goes on its way as one request.
LEMMA FlushKeeps ==
  ASSUME IInv, NEW k \in Keys, NEW waiter \in {"timer", "stop"}, Flush(k, waiter), buffers[k] # <<>>,
         atStop' \subseteq atStop, UNCHANGED <<arrivals, mentioning, stored, lost>>
  PROVE  /\ Homed' /\ Conserved' /\ Ordered'
         /\ \A g : Flying(g)' <=> Flying(g) \/ g \in Gathered(k)
         /\ \A g : Buffered(g)' <=> Buffered(g) /\ g \notin Gathered(k)
<1> DEFINE new == [key |-> k, parts |-> buffers[k], waiter |-> waiter]
<1>0. TypeOK /\ Homed /\ Conserved /\ Ordered
  BY DEF IInv
<1>1. /\ posts' = posts \cup {new} /\ new.key = k /\ new.parts = buffers[k]
      /\ ToSet(new.parts) = Gathered(k)
      /\ overlapped' = IF \E p \in posts : p.key = k THEN overlapped \cup {k} ELSE overlapped
  BY DEF Flush, Gathered
<1> HIDE DEF new
<1>2. /\ buffers' \in [Keys -> Texts] /\ buffers'[k] = <<>>
      /\ \A j \in Keys \ {k} : buffers'[j] = buffers[j]
      /\ Gathered(k)' = {} /\ \A j \in Keys \ {k} : Gathered(j)' = Gathered(j)
  BY <1>0, ElementsOfSequence DEF Flush, TypeOK, Texts, Gathered
<1>3. \A j \in Keys : Gathered(j)' \subseteq Gathered(j)
  BY <1>2
<1>4. \A j \in Keys \ {k} : Gathered(j) \cap Gathered(k) = {}
  BY <1>0 DEF Homed
<1>5. \A g : Buffered(g)' <=> Buffered(g) /\ g \notin Gathered(k)
  BY <1>2, <1>4 DEF Buffered
<1>6. /\ \A g : Flying(g)' <=> Flying(g) \/ g \in Gathered(k)
      /\ \A g : IsStored(g)' <=> IsStored(g)
      /\ \A i : Said(i)' = Said(i)
  BY <1>1 DEF Flying, IsStored, Said
<1>7. Homed'
  BY <1>0, <1>1, <1>3, <1>6 DEF Homed
<1>8. Conserved'
  <2>1. \A g \in Gathered(k) : Buffered(g) /\ g \in DOMAIN arrivals
    BY <1>0 DEF Buffered, Homed
  <2>2. \A p, q \in posts' : \A g \in ToSet(p.parts) : g \in ToSet(q.parts) => p = q
    <3>1. \A p \in posts : \A g \in ToSet(p.parts) : g \notin ToSet(new.parts)
      BY <1>0, <1>1, <2>1 DEF Conserved, Flying
    <3> QED  BY <1>0, <1>1, <3>1 DEF Conserved
  <2>3. \A i, j \in DOMAIN stored' : \A g \in Said(i)' : g \in Said(j)' => i = j
    BY <1>0, <1>6 DEF Conserved
  <2>4. \A g \in DOMAIN arrivals :
          /\ g \in mentioning \/ g \in lost \/ Buffered(g)' \/ Flying(g)' \/ IsStored(g)'
          /\ g \in mentioning => g \notin lost /\ ~Buffered(g)' /\ ~Flying(g)' /\ ~IsStored(g)'
          /\ g \in lost => ~Buffered(g)' /\ ~Flying(g)' /\ ~IsStored(g)'
          /\ Buffered(g)' => ~Flying(g)' /\ ~IsStored(g)'
          /\ Flying(g)' => ~IsStored(g)'
    BY <1>0, <1>5, <1>6, <2>1 DEF Conserved
  <2> QED  BY <2>2, <2>3, <2>4 DEF Conserved
<1>9. Ordered'
  <2>1. overlapped \subseteq overlapped' /\ (k \notin overlapped' => \A p \in posts : p.key # k)
    BY <1>1
  <2>2. \A j \in Keys \ Rooms : Increasing(buffers'[j])
    <3>1. \A j \in Keys \ Rooms : buffers'[j] \in {buffers[j], <<>>}
      BY <1>2
    <3> QED  BY <1>0, <3>1, IncreasingEmpty DEF Ordered
  <2>3. \A p \in posts' : p.key \notin Rooms => Increasing(p.parts)
    BY <1>0, <1>1 DEF Ordered
  <2>4. \A p, q \in posts' : p.key = q.key /\ p.key \notin overlapped' => p = q
    BY <1>0, <1>1, <2>1 DEF Ordered
  <2>5. \A p \in posts' : p.key \notin Rooms \cup overlapped' => Before(ToSet(p.parts), ToSet(buffers'[p.key]))
    <3> SUFFICES ASSUME NEW p \in posts', p.key \notin Rooms \cup overlapped'
                 PROVE  Before(ToSet(p.parts), ToSet(buffers'[p.key]))
      OBVIOUS
    <3>1. CASE p.key = k
      BY <1>2, <3>1 DEF Before, Gathered
    <3>2. CASE p.key # k
      <4>1. p \in posts /\ p.key \in Keys
        BY <1>0, <1>1, <3>2, Numbers
      <4> QED  BY <1>0, <1>2, <2>1, <3>2, <4>1 DEF Ordered, Gathered
    <3> QED  BY <3>1, <3>2
  <2>6. \A i \in DOMAIN stored, p \in posts' :
          stored[i].key = p.key /\ p.key \notin Rooms \cup overlapped' => Before(Said(i), ToSet(p.parts))
    <3> SUFFICES ASSUME NEW i \in DOMAIN stored, NEW p \in posts',
                        stored[i].key = p.key, p.key \notin Rooms \cup overlapped'
                 PROVE  Before(Said(i), ToSet(p.parts))
      OBVIOUS
    <3>1. CASE p \in posts
      BY <1>0, <2>1, <3>1 DEF Ordered
    <3>2. CASE p = new
      BY <1>0, <1>1, <2>1, <3>2 DEF Ordered
    <3> QED  BY <1>1, <3>1, <3>2
  <2>7. \A i \in DOMAIN stored : stored[i].key \notin Rooms \cup overlapped' =>
          Before(Said(i), ToSet(buffers'[stored[i].key]))
    <3> SUFFICES ASSUME NEW i \in DOMAIN stored, stored[i].key \notin Rooms \cup overlapped'
                 PROVE  Before(Said(i), ToSet(buffers'[stored[i].key]))
      OBVIOUS
    <3>1. stored[i].key \in Keys /\ Before(Said(i), ToSet(buffers[stored[i].key]))
      BY <1>0, <2>1, Numbers DEF Ordered, Gathered
    <3>2. CASE stored[i].key = k
      BY <1>2, <3>2 DEF Before, Gathered
    <3>3. CASE stored[i].key # k
      BY <1>2, <3>1, <3>3
    <3> QED  BY <3>2, <3>3
  <2>8. DirectIsInOrder'
    <3>1. DirectIsInOrder /\ stored' = stored /\ overlapped \subseteq overlapped'
      BY <1>0, <2>1 DEF Ordered
    <3> QED  BY <3>1 DEF DirectIsInOrder
  <2> QED  BY <2>2, <2>3, <2>4, <2>5, <2>6, <2>7, <2>8 DEF Ordered, Gathered, Said
<1> QED  BY <1>5, <1>6, <1>7, <1>8, <1>9

\* A request that is through is a row behind those of its conversation.
LEMMA PostArrivesKeeps ==
  ASSUME IInv, NEW p \in posts, PostArrives(p)
  PROVE  Homed' /\ Conserved' /\ Ordered' /\ Flushed' /\ Armed'
<1> DEFINE row == [key |-> p.key, parts |-> p.parts]
           n == Len(stored) + 1
<1>0. TypeOK /\ Homed /\ Conserved /\ Ordered /\ Flushed /\ Armed
  BY DEF IInv
<1>1. /\ posts' = posts \ {p} /\ stored' = Append(stored, row)
      /\ UNCHANGED <<arrivals, mentioning, buffers, armed, lost, gw, todo, atStop, overlapped, faults>>
  BY DEF PostArrives, inbox, process
<1>2. /\ Len(stored) \in Nat /\ DOMAIN stored = 1..Len(stored) /\ DOMAIN stored' = 1..n
      /\ \A i \in DOMAIN stored : stored'[i] = stored[i]
      /\ stored'[n] = row /\ n \notin DOMAIN stored
  <2>1. stored \in Seq([key : Keys, parts : Texts]) /\ row \in [key : Keys, parts : Texts]
    BY <1>0 DEF TypeOK
  <2> QED  BY <1>1, <2>1, AppendProperties, LenProperties
<1>3. /\ DOMAIN stored' = DOMAIN stored \cup {n} /\ n \in Nat
      /\ \A i \in DOMAIN stored : i \in Nat /\ i < n
      /\ row.key = p.key /\ row.parts = p.parts
  BY <1>2
<1> HIDE DEF row, n
<1>4. /\ \A i \in DOMAIN stored : ToSet(stored'[i].parts) = Said(i)
      /\ ToSet(stored'[n].parts) = ToSet(p.parts)
      /\ \A g : IsStored(g)' <=> IsStored(g) \/ g \in ToSet(p.parts)
      /\ \A g : Flying(g)' <=> Flying(g) /\ g \notin ToSet(p.parts)
      /\ \A g : Buffered(g)' <=> Buffered(g)
      /\ \A j \in Keys : Gathered(j)' = Gathered(j)
  <2>1. \A g : Flying(g)' <=> Flying(g) /\ g \notin ToSet(p.parts)
    BY <1>0, <1>1 DEF Flying, Conserved
  <2>2. \A g : IsStored(g)' <=> IsStored(g) \/ g \in ToSet(p.parts)
    BY <1>2, <1>3 DEF IsStored
  <2>3. \A i \in DOMAIN stored : ToSet(stored'[i].parts) = Said(i)
    BY <1>2 DEF Said
  <2>4. /\ \A g : Buffered(g)' <=> Buffered(g)
        /\ \A j \in Keys : Gathered(j)' = Gathered(j)
    BY <1>1 DEF Buffered, Gathered
  <2> QED  BY <1>2, <1>3, <2>1, <2>2, <2>3, <2>4
<1>5. Homed'
  <2>1. \A i \in DOMAIN stored' : \A g \in ToSet(stored'[i].parts) :
          g \in DOMAIN arrivals /\ arrivals[g] = stored'[i].key
    <3> SUFFICES ASSUME NEW i \in DOMAIN stored', NEW g \in ToSet(stored'[i].parts)
                 PROVE  g \in DOMAIN arrivals /\ arrivals[g] = stored'[i].key
      OBVIOUS
    <3>1. CASE i = n
      BY <1>0, <1>2, <1>3, <1>4, <3>1 DEF Homed
    <3>2. CASE i \in DOMAIN stored
      BY <1>0, <1>2, <1>4, <3>2 DEF Homed
    <3> QED  BY <1>3, <3>1, <3>2
  <2> QED  BY <1>0, <1>1, <1>4, <2>1 DEF Homed, Said
<1>6. Conserved'
  <2>1. \A g \in ToSet(p.parts) : Flying(g) /\ g \in DOMAIN arrivals
    BY <1>0 DEF Flying, Homed
  <2>2. \A q, r \in posts' : \A g \in ToSet(q.parts) : g \in ToSet(r.parts) => q = r
    BY <1>0, <1>1 DEF Conserved
  <2>3. \A i, j \in DOMAIN stored' : \A g \in ToSet(stored'[i].parts) : g \in ToSet(stored'[j].parts) => i = j
    <3>1. \A i \in DOMAIN stored : \A g \in Said(i) : IsStored(g)
      BY DEF Said, IsStored
    <3>2. \A i \in DOMAIN stored : \A g \in Said(i) : g \notin ToSet(p.parts)
      BY <1>0, <2>1, <3>1 DEF Conserved
    <3> QED  BY <1>0, <1>3, <1>4, <3>2 DEF Conserved
  <2>4. \A g \in DOMAIN arrivals :
          /\ g \in mentioning \/ g \in lost \/ Buffered(g)' \/ Flying(g)' \/ IsStored(g)'
          /\ g \in mentioning => g \notin lost /\ ~Buffered(g)' /\ ~Flying(g)' /\ ~IsStored(g)'
          /\ g \in lost => ~Buffered(g)' /\ ~Flying(g)' /\ ~IsStored(g)'
          /\ Buffered(g)' => ~Flying(g)' /\ ~IsStored(g)'
          /\ Flying(g)' => ~IsStored(g)'
    BY <1>0, <1>4, <2>1 DEF Conserved
  <2> QED  BY <1>1, <2>2, <2>3, <2>4 DEF Conserved, Said
<1>7. Ordered'
  <2>1. \A q \in posts' : q \in posts /\ (q.key = p.key => p.key \in overlapped)
    BY <1>0, <1>1 DEF Ordered
  <2>2. \A i \in DOMAIN stored', q \in posts' :
          stored'[i].key = q.key /\ q.key \notin Rooms \cup overlapped => Before(ToSet(stored'[i].parts), ToSet(q.parts))
    <3> SUFFICES ASSUME NEW i \in DOMAIN stored', NEW q \in posts',
                        stored'[i].key = q.key, q.key \notin Rooms \cup overlapped
                 PROVE  Before(ToSet(stored'[i].parts), ToSet(q.parts))
      OBVIOUS
    <3>1. i \in DOMAIN stored
      BY <1>2, <1>3, <2>1
    <3>2. stored[i].key = q.key /\ q \in posts
      BY <1>2, <2>1, <3>1
    <3>3. Before(Said(i), ToSet(q.parts))
      BY <1>0, <3>1, <3>2 DEF Ordered
    <3> QED  BY <1>4, <3>1, <3>3
  <2>3. \A i \in DOMAIN stored' : stored'[i].key \notin Rooms \cup overlapped =>
          Before(ToSet(stored'[i].parts), ToSet(buffers[stored'[i].key]))
    <3> SUFFICES ASSUME NEW i \in DOMAIN stored', stored'[i].key \notin Rooms \cup overlapped
                 PROVE  Before(ToSet(stored'[i].parts), ToSet(buffers[stored'[i].key]))
      OBVIOUS
    <3>1. CASE i = n
      BY <1>0, <1>2, <1>3, <1>4, <3>1 DEF Ordered, Gathered
    <3>2. CASE i # n
      BY <1>0, <1>2, <1>3, <1>4, <3>2 DEF Ordered, Gathered
    <3> QED  BY <3>1, <3>2
  <2>4. DirectIsInOrder'
    <3> SUFFICES ASSUME NEW i \in DOMAIN stored', NEW j \in DOMAIN stored',
                        stored'[i].key = stored'[j].key, stored'[i].key \notin Rooms \cup overlapped,
                        NEW a \in DOMAIN stored'[i].parts, NEW b \in DOMAIN stored'[j].parts,
                        i < j \/ (i = j /\ a < b)
                 PROVE  stored'[i].parts[a] < stored'[j].parts[b]
      BY <1>1 DEF DirectIsInOrder
    <3>1. CASE i \in DOMAIN stored /\ j \in DOMAIN stored
      <4>1. stored'[i] = stored[i] /\ stored'[j] = stored[j]
        BY <1>2, <3>1
      <4> QED  BY <1>0, <3>1, <4>1 DEF Ordered, DirectIsInOrder
    <3>2. CASE i \in DOMAIN stored /\ j = n
      <4>1. Before(Said(i), ToSet(p.parts))
        BY <1>0, <1>2, <1>3, <3>2 DEF Ordered
      <4>2. stored'[i].parts[a] \in Said(i) /\ stored'[j].parts[b] \in ToSet(p.parts)
        BY <1>2, <1>3, <3>2 DEF Said, ToSet
      <4> QED  BY <4>1, <4>2 DEF Before
    <3>3. CASE i = n
      <4>1. j = n
        BY <1>3, <3>3
      <4>2. Increasing(p.parts) /\ a < b /\ stored'[i].parts = p.parts
        BY <1>0, <1>2, <1>3, <3>3, <4>1 DEF Ordered
      <4> QED  BY <3>3, <4>1, <4>2 DEF Increasing
    <3> QED  BY <1>3, <3>1, <3>2, <3>3
  <2>5. /\ \A j \in Keys \ Rooms : Increasing(buffers[j])
        /\ \A q \in posts' : q.key \notin Rooms => Increasing(q.parts)
        /\ \A q, r \in posts' : q.key = r.key /\ q.key \notin overlapped => q = r
        /\ \A q \in posts' : q.key \notin Rooms \cup overlapped => Before(ToSet(q.parts), ToSet(buffers[q.key]))
    BY <1>0, <2>1 DEF Ordered, Gathered
  <2> QED  BY <1>1, <2>2, <2>3, <2>4, <2>5 DEF Ordered, Gathered, Said
<1>8. Flushed'
  <2>1. Missing' = Missing
    BY <1>1 DEF Missing
  <2> QED  BY <1>0, <1>1, <1>4, <2>1 DEF Flushed
<1>9. Armed'
  BY <1>0, <1>1 DEF Armed
<1> QED  BY <1>5, <1>6, <1>7, <1>8, <1>9

\* A request that fails loses its fragments, and of what a stop had to flush it loses
\* no more than one conversation for a fault.
LEMMA PostFailsKeeps ==
  ASSUME IInv, NEW p \in posts, PostFails(p)
  PROVE  Homed' /\ Conserved' /\ Ordered' /\ Flushed' /\ Armed'
<1>0. TypeOK /\ Homed /\ Conserved /\ Ordered /\ Flushed /\ Armed
  BY DEF IInv
<1>1. /\ posts' = posts \ {p} /\ lost' = lost \cup ToSet(p.parts)
      /\ UNCHANGED <<arrivals, mentioning, buffers, armed, stored, gw, todo, atStop, overlapped>>
  BY DEF PostFails, inbox, process
<1>2. /\ \A g : Flying(g)' <=> Flying(g) /\ g \notin ToSet(p.parts)
      /\ \A g : Buffered(g)' <=> Buffered(g)
      /\ \A g : IsStored(g)' <=> IsStored(g)
  BY <1>0, <1>1 DEF Flying, Conserved, Buffered, Gathered, IsStored
<1>3. \A g \in ToSet(p.parts) : Flying(g) /\ g \in DOMAIN arrivals /\ arrivals[g] = p.key
  BY <1>0 DEF Flying, Homed
<1>4. Homed'
  BY <1>0, <1>1, <1>3 DEF Homed, Gathered, Said
<1>5. Conserved'
  <2>1. \A g \in DOMAIN arrivals :
          /\ g \in mentioning \/ g \in lost' \/ Buffered(g)' \/ Flying(g)' \/ IsStored(g)'
          /\ g \in mentioning => g \notin lost' /\ ~Buffered(g)' /\ ~Flying(g)' /\ ~IsStored(g)'
          /\ g \in lost' => ~Buffered(g)' /\ ~Flying(g)' /\ ~IsStored(g)'
          /\ Buffered(g)' => ~Flying(g)' /\ ~IsStored(g)'
          /\ Flying(g)' => ~IsStored(g)'
    BY <1>0, <1>1, <1>2, <1>3 DEF Conserved
  <2>2. /\ \A q, r \in posts' : \A g \in ToSet(q.parts) : g \in ToSet(r.parts) => q = r
        /\ \A i, j \in DOMAIN stored' : \A g \in ToSet(stored'[i].parts) : g \in ToSet(stored'[j].parts) => i = j
    BY <1>0, <1>1 DEF Conserved, Said
  <2> QED  BY <1>1, <2>1, <2>2 DEF Conserved, Said
<1>6. Ordered'
  <2>1. DirectIsInOrder' /\ posts' \subseteq posts
    BY <1>0, <1>1 DEF Ordered, DirectIsInOrder
  <2> QED  BY <1>0, <1>1, <2>1 DEF Ordered, Gathered, Said
<1>7. Flushed'
  <2>1. CASE ToSet(p.parts) \cap atStop = {}
    <3>1. Missing' = Missing
      BY <1>1, <2>1 DEF Missing
    <3>2. Cardinality(Missing) \in Nat /\ faults \in Nat /\ faults' \in {faults, faults + 1}
      BY <1>0, FS_CardinalityType DEF Flushed, TypeOK, PostFails, Fault
    <3>3. Cardinality(Missing') <= faults'
      BY <1>0, <3>1, <3>2 DEF Flushed
    <3> QED  BY <1>0, <1>1, <1>2, <3>1, <3>3 DEF Flushed
  <2>2. CASE ToSet(p.parts) \cap atStop # {}
    <3>1. gw = "flushing"
      BY <1>0, <1>3, <2>2 DEF Flushed
    <3>2. faults' = faults + 1 /\ faults \in Nat
      BY <1>0, <3>1 DEF PostFails, Running, Fault, TypeOK
    <3>3. Missing' \subseteq Missing \cup {p.key}
      BY <1>1, <1>3 DEF Missing
    <3>4. /\ IsFiniteSet(Missing \cup {p.key}) /\ Cardinality(Missing \cup {p.key}) <= faults + 1
          /\ Cardinality(Missing \cup {p.key}) \in Nat
      <4>1. IsFiniteSet(Missing) /\ Cardinality(Missing) \in Nat /\ Cardinality(Missing) <= faults
        BY <1>0, FS_CardinalityType DEF Flushed
      <4>2. /\ IsFiniteSet(Missing \cup {p.key})
            /\ Cardinality(Missing \cup {p.key}) \in {Cardinality(Missing), Cardinality(Missing) + 1}
        BY <4>1, FS_AddElement
      <4> QED  BY <3>2, <4>1, <4>2
    <3>5. /\ IsFiniteSet(Missing') /\ Cardinality(Missing') <= Cardinality(Missing \cup {p.key})
      BY <3>3, <3>4, FS_Subset
    <3>6. Cardinality(Missing') <= faults'
      BY <3>2, <3>4, <3>5, FS_CardinalityType
    <3> QED  BY <1>0, <1>1, <1>2, <3>5, <3>6 DEF Flushed
  <2> QED  BY <2>1, <2>2
<1>8. Armed'
  BY <1>0, <1>1 DEF Armed
<1> QED  BY <1>4, <1>5, <1>6, <1>7, <1>8

\* Steps that move no fragment.
LEMMA NothingMoves ==
  ASSUME IInv, faults \in Nat, faults' \in {faults, faults + 1},
         UNCHANGED <<inbox, posts, stored, lost, overlapped, atStop>>,
         gw = "flushing" => gw' = "flushing" \/ \A f \in atStop : ~Buffered(f) /\ ~Flying(f),
         todo' = todo
  PROVE  Homed' /\ Conserved' /\ Ordered' /\ Flushed' /\ Armed'
<1>0. TypeOK /\ Homed /\ Conserved /\ Ordered /\ Flushed /\ Armed
  BY DEF IInv
<1> USE DEF inbox
<1>1. Homed'
  BY <1>0 DEF Homed, Gathered, Said
<1>2. \A f : (Buffered(f)' <=> Buffered(f)) /\ (Flying(f)' <=> Flying(f)) /\ (IsStored(f)' <=> IsStored(f))
  BY DEF Buffered, Flying, IsStored, Gathered
<1>3. Conserved'
  BY <1>0, <1>2 DEF Conserved, Said
<1>4. Ordered'
  <2>1. DirectIsInOrder'
    BY <1>0 DEF Ordered, DirectIsInOrder
  <2> QED  BY <1>0, <2>1 DEF Ordered, Gathered, Said
<1>5. Flushed'
  <2>1. Missing' = Missing
    BY DEF Missing
  <2>2. Cardinality(Missing') <= faults'
    BY <1>0, <2>1, FS_CardinalityType DEF Flushed
  <2> QED  BY <1>0, <1>2, <2>1, <2>2 DEF Flushed
<1>6. Armed'
  BY <1>0 DEF Armed
<1> QED  BY <1>1, <1>3, <1>4, <1>5, <1>6

-----------------------------------------------------------------------------
\* The actions.

LEMMA InitIInv == Init => IInv
<1> SUFFICES ASSUME Init PROVE IInv
  OBVIOUS
<1>1. TypeOK
  <2>1. 0 \in 0..MaxFaults
    BY BoundsAreCounts
  <2>2. /\ <<>> \in Seq(Keys) /\ <<>> \in Texts
        /\ <<>> \in Seq([key : Keys, parts : Texts])
    BY EmptySeq DEF Texts
  <2>3. buffers \in [Keys -> Texts]
    BY <2>2 DEF Init
  <2> QED  BY <2>1, <2>2, <2>3 DEF Init, TypeOK
<1>2. \A k \in Keys : Gathered(k) = {}
  <2>1. ToSet(<<>>) = {}
    BY DEF ToSet
  <2> QED  BY <2>1 DEF Init, Gathered
<1>3. /\ DOMAIN arrivals = {} /\ DOMAIN stored = {} /\ posts = {}
      /\ mentioning = {} /\ lost = {} /\ atStop = {} /\ armed = {} /\ faults = 0
  BY DEF Init
<1>4. Homed /\ Conserved /\ Armed
  BY <1>2, <1>3 DEF Homed, Conserved, Armed
<1>5. Ordered
  <2>1. \A k \in Keys \ Rooms : Increasing(buffers[k])
    BY IncreasingEmpty DEF Init
  <2> QED  BY <1>2, <1>3, <2>1 DEF Ordered, DirectIsInOrder
<1>6. Flushed
  <2>1. Missing = {}
    BY <1>3 DEF Missing
  <2> QED  BY <1>3, <2>1, FS_EmptySet DEF Flushed
<1> QED  BY <1>1, <1>4, <1>5, <1>6 DEF IInv

\* What the process holds: what is gathered and what awaits its mentions.
LEMMA EverythingIs ==
  \A g : g \in Everything <=> (\E k \in Keys : g \in Gathered(k)) \/ g \in mentioning
<1> SUFFICES ASSUME NEW g
             PROVE  g \in Everything
                      <=> (\E k \in Keys : g \in Gathered(k)) \/ g \in mentioning
  OBVIOUS
<1> DEFINE S == {Gathered(k) : k \in Keys}
<1>1. g \in UNION S <=> \E s \in S : g \in s
  <2> HIDE DEF S
  <2> QED  BY Zenon
<1>2. (\E s \in S : g \in s) <=> \E k \in Keys : g \in Gathered(k)
  BY Zenon
<1>3. g \in Everything <=> g \in UNION S \/ g \in mentioning
  BY DEF Everything
<1> QED  BY <1>1, <1>2, <1>3, Zenon

LEMMA TypeStep == IInv /\ [Next]_vars => TypeOK'
<1> SUFFICES ASSUME IInv, [Next]_vars PROVE TypeOK'
  OBVIOUS
<1> USE DEF inbox, connection, process
<1>0. TypeOK /\ Homed /\ Armed
  BY DEF IInv
<1>1. /\ MaxFragments \in Nat /\ MaxReports \in Nat /\ MaxFaults \in Nat
      /\ faults \in 0..MaxFaults /\ reports \in Nat
  BY <1>0, BoundsAreCounts DEF TypeOK
<1>2. ASSUME Fault PROVE faults' \in 0..MaxFaults
  BY <1>1, <1>2 DEF Fault
<1>3. ASSUME NEW k \in Keys, NEW f \in Fragments, Schedule(f, k)
      PROVE  buffers' \in [Keys -> Texts] /\ armed' \subseteq Keys
  <2>1. Append(buffers[k], f) \in Texts
    BY <1>0, ElementsOfAppend DEF TypeOK, Texts
  <2> QED  BY <1>0, <1>3, <2>1 DEF Schedule, TypeOK
<1>4. ASSUME NEW k \in Keys, NEW waiter \in {"timer", "stop"}, Flush(k, waiter), buffers[k] # <<>>
      PROVE  /\ buffers' \in [Keys -> Texts] /\ overlapped' \subseteq Keys
             /\ posts' \subseteq [key : Keys, parts : Texts \ {<<>>}, waiter : {"timer", "stop"}]
  <2>1. <<>> \in Texts
    BY EmptySeq DEF Texts
  <2> QED  BY <1>0, <1>4, <2>1 DEF Flush, TypeOK
<1>5. ASSUME NEW said \in {"ONLINE", "OFFLINE", "AUTH_REQUIRED"}, Report(said)
      PROVE  /\ reports' \in Nat /\ crossed' \in BOOLEAN
             /\ patches' \subseteq [n : 1..reports', status : {"ONLINE", "OFFLINE", "AUTH_REQUIRED"}]
  <2>1. reports' = reports + 1 /\ reports' \in 1..reports' /\ 1..reports \subseteq 1..reports'
    BY <1>1, <1>5 DEF Report
  <2> QED  BY <1>0, <1>5, <2>1 DEF Report, TypeOK
<1>6. ASSUME NEW k \in Keys, HandleMessage(k) PROVE TypeOK'
  <2>1. Len(arrivals) \in Nat /\ arrivals' \in Seq(Keys) /\ Len(arrivals') \in Fragments
    BY <1>0, <1>1, <1>6, AppendProperties, LenProperties DEF HandleMessage, TypeOK, Fragments
  <2>2. CASE k \in Rooms
    BY <1>0, <1>6, <2>1, <2>2 DEF HandleMessage, TypeOK
  <2>3. CASE k \notin Rooms
    BY <1>0, <1>3, <1>6, <2>1, <2>3 DEF HandleMessage, TypeOK
  <2> QED  BY <2>2, <2>3
<1>7. ASSUME NEW f \in Fragments, MentionsListed(f) PROVE TypeOK'
  <2>1. arrivals[f] \in Keys
    BY <1>0, <1>7, Numbers DEF MentionsListed, Homed
  <2> QED  BY <1>0, <1>3, <1>7, <2>1 DEF MentionsListed, TypeOK
<1>8. ASSUME NEW k \in Keys, TimerFires(k) PROVE TypeOK'
  BY <1>0, <1>4, <1>8 DEF TimerFires, TypeOK, Armed
<1>9. ASSUME NEW k \in Keys, FlushNext(k) PROVE TypeOK'
  BY <1>0, <1>4, <1>9 DEF FlushNext, TypeOK
<1>10. ASSUME NEW p \in posts, PostArrives(p) PROVE TypeOK'
  <2>1. [key |-> p.key, parts |-> p.parts] \in [key : Keys, parts : Texts]
    BY <1>0 DEF TypeOK
  <2>2. stored' \in Seq([key : Keys, parts : Texts])
    BY <1>0, <1>10, <2>1, AppendProperties DEF PostArrives, TypeOK
  <2> QED  BY <1>0, <1>10, <2>2 DEF PostArrives, TypeOK
<1>11. ASSUME NEW p \in posts, PostFails(p) PROVE TypeOK'
  <2>1. ToSet(p.parts) \subseteq Fragments
    BY <1>0, Numbers
  <2> QED  BY <1>0, <1>2, <1>11, <2>1 DEF PostFails, TypeOK
<1>12. ASSUME NEW p \in patches, PatchArrives(p) \/ PatchFails(p) PROVE TypeOK'
  BY <1>0, <1>2, <1>12 DEF PatchArrives, PatchFails, TypeOK
<1>13. CASE Scan \/ Login \/ Logout
  BY <1>0, <1>1, <1>5, <1>13 DEF Scan, Login, Logout, TypeOK
<1>14. CASE StopBegins
  <2>1. UNION {Gathered(k) : k \in Keys} \subseteq Fragments
    BY <1>0, Numbers
  <2> QED  BY <1>0, <1>14, <2>1 DEF StopBegins, TypeOK
<1>15. CASE ReportOffline
  BY <1>0, <1>1, <1>5, <1>15 DEF ReportOffline, TypeOK
<1>16. CASE Exit
  <2>1. Everything \subseteq Fragments
    BY <1>0, Numbers, EverythingIs DEF TypeOK
  <2>2. <<>> \in Texts
    BY EmptySeq DEF Texts
  <2> QED  BY <1>0, <1>2, <1>16, <2>1, <2>2 DEF Exit, TypeOK
<1>17. CASE UNCHANGED vars
  BY <1>0, <1>17 DEF vars, TypeOK, Texts
<1> QED  BY <1>6, <1>7, <1>8, <1>9, <1>10, <1>11, <1>12, <1>13, <1>14, <1>15, <1>16, <1>17 DEF Next, Api

\* A fragment that arrives is new; it joins the buffer or awaits its mention list.
LEMMA HandleMessageStep ==
  ASSUME IInv, NEW k \in Keys, HandleMessage(k)
  PROVE  Homed' /\ Conserved' /\ Ordered' /\ Flushed' /\ Armed'
<1> DEFINE f == Len(arrivals) + 1
<1>0. TypeOK /\ Homed /\ Conserved /\ Ordered /\ Flushed /\ Armed
  BY DEF IInv
<1>1. /\ DOMAIN arrivals = 1..Len(arrivals) /\ Len(arrivals) \in Nat /\ f \in Fragments
      /\ arrivals' = Append(arrivals, k) /\ Len(arrivals') = f
      /\ DOMAIN arrivals' = 1..f /\ arrivals'[f] = k
      /\ \A g \in 1..Len(arrivals) : arrivals'[g] = arrivals[g]
  BY <1>0, BoundsAreCounts, AppendProperties, LenProperties DEF HandleMessage, TypeOK, Fragments
<1>2. /\ DOMAIN arrivals' = DOMAIN arrivals \cup {f} /\ f \notin DOMAIN arrivals
      /\ \A g \in DOMAIN arrivals : arrivals'[g] = arrivals[g] /\ g < f
  BY <1>1
<1> HIDE DEF f
<1>3. /\ f \notin mentioning /\ f \notin lost /\ f \notin atStop
      /\ ~Buffered(f) /\ ~Flying(f) /\ ~IsStored(f)
  BY <1>0, <1>2 DEF Homed, Buffered, Flying, IsStored, Said
<1>4. CASE k \notin Rooms
  <2>1. Schedule(f, k) /\ mentioning' = mentioning \ {f}
    BY <1>1, <1>3, <1>4 DEF HandleMessage
  <2> QED  BY <1>1, <1>2, <1>3, <2>1, ScheduleKeeps DEF HandleMessage, process
<1>5. CASE k \in Rooms
  <2>1. /\ mentioning' = mentioning \cup {f}
        /\ UNCHANGED <<buffers, armed, posts, stored, lost, gw, todo, atStop, overlapped, faults>>
    BY <1>1, <1>5 DEF HandleMessage, process
  <2>2. Homed'
    BY <1>0, <1>1, <1>2, <1>5, <2>1 DEF Homed, Gathered, Said
  <2>3. \A g : (Buffered(g)' <=> Buffered(g)) /\ (Flying(g)' <=> Flying(g)) /\ (IsStored(g)' <=> IsStored(g))
    BY <2>1 DEF Buffered, Flying, IsStored, Gathered
  <2>4. Conserved'
    BY <1>0, <1>2, <1>3, <2>1, <2>3 DEF Conserved, Said
  <2>5. Ordered'
    <3>1. DirectIsInOrder'
      BY <1>0, <2>1 DEF Ordered, DirectIsInOrder
    <3> QED  BY <1>0, <2>1, <3>1 DEF Ordered, Gathered, Said
  <2>6. Flushed'
    <3>1. Missing' = Missing /\ \A g \in atStop : arrivals'[g] = arrivals[g]
      BY <1>0, <1>2, <2>1 DEF Missing, Homed
    <3> QED  BY <1>0, <1>3, <2>1, <2>3, <3>1 DEF Flushed
  <2>7. Armed'
    BY <1>0, <2>1 DEF Armed
  <2> QED  BY <2>2, <2>4, <2>5, <2>6, <2>7
<1> QED  BY <1>4, <1>5

LEMMA MentionsListedStep ==
  ASSUME IInv, NEW f \in Fragments, MentionsListed(f)
  PROVE  Homed' /\ Conserved' /\ Ordered' /\ Flushed' /\ Armed'
<1>0. TypeOK /\ Homed /\ Conserved /\ Ordered /\ Flushed /\ Armed
  BY DEF IInv
<1>1. f \in mentioning /\ f \in DOMAIN arrivals /\ arrivals[f] \in Rooms /\ arrivals[f] \in Keys
  BY <1>0, Numbers DEF MentionsListed, Homed
<1>2. /\ f \notin lost /\ f \notin atStop /\ ~Buffered(f) /\ ~Flying(f) /\ ~IsStored(f)
  BY <1>0, <1>1 DEF Conserved, Flushed
<1> QED  BY <1>1, <1>2, ScheduleKeeps DEF MentionsListed, process

\* What a timer sends is no longer for the stop to flush.
LEMMA TimerFiresStep ==
  ASSUME IInv, NEW k \in Keys, TimerFires(k)
  PROVE  Homed' /\ Conserved' /\ Ordered' /\ Flushed' /\ Armed'
<1>0. TypeOK /\ Homed /\ Conserved /\ Ordered /\ Flushed /\ Armed
  BY DEF IInv
<1>1. /\ Flush(k, "timer") /\ k \in armed /\ armed' = armed \ {k}
      /\ atStop' = atStop \ Gathered(k) /\ buffers[k] # <<>>
      /\ UNCHANGED <<arrivals, mentioning, stored, lost, gw, todo, faults>>
  BY <1>0 DEF TimerFires, process, Armed
<1>2. /\ Homed' /\ Conserved' /\ Ordered'
      /\ \A g : Flying(g)' <=> Flying(g) \/ g \in Gathered(k)
      /\ \A g : Buffered(g)' <=> Buffered(g) /\ g \notin Gathered(k)
  BY <1>1, FlushKeeps
<1>3. Flushed'
  <2>1. /\ Missing' \subseteq Missing /\ IsFiniteSet(Missing') /\ Cardinality(Missing') <= faults
    <3>1. Missing' \subseteq Missing
      BY <1>1 DEF Missing
    <3>2. IsFiniteSet(Missing) /\ Cardinality(Missing) \in Nat /\ Cardinality(Missing) <= faults
          /\ faults \in Nat
      BY <1>0, FS_CardinalityType DEF Flushed, TypeOK
    <3>3. IsFiniteSet(Missing') /\ Cardinality(Missing') <= Cardinality(Missing)
          /\ Cardinality(Missing') \in Nat
      BY <3>1, <3>2, FS_Subset, FS_CardinalityType
    <3> QED  BY <3>1, <3>2, <3>3
  <2>2. \A p \in posts' : p.waiter = "timer" => ToSet(p.parts) \cap atStop' = {}
    BY <1>0, <1>1 DEF Flush, Flushed, Gathered
  <2> QED  BY <1>0, <1>1, <1>2, <2>1, <2>2 DEF Flushed
<1>4. Armed'
  BY <1>0, <1>1 DEF Armed, Flush, TypeOK
<1> QED  BY <1>2, <1>3, <1>4

LEMMA FlushNextStep ==
  ASSUME IInv, NEW k \in Keys, FlushNext(k)
  PROVE  Homed' /\ Conserved' /\ Ordered' /\ Flushed' /\ Armed'
<1>0. TypeOK /\ Homed /\ Conserved /\ Ordered /\ Flushed /\ Armed
  BY DEF IInv
<1>1. /\ gw = "flushing" /\ gw' = gw /\ todo' = todo \ {k} /\ armed' = armed \ {k}
      /\ UNCHANGED <<arrivals, mentioning, stored, lost, atStop, faults>>
  BY DEF FlushNext
<1>2. Missing' = Missing
  BY <1>1 DEF Missing
<1>3. CASE buffers[k] # <<>>
  <2>1. Flush(k, "stop")
    BY <1>3 DEF FlushNext
  <2>2. /\ Homed' /\ Conserved' /\ Ordered'
        /\ \A g : Flying(g)' <=> Flying(g) \/ g \in Gathered(k)
        /\ \A g : Buffered(g)' <=> Buffered(g) /\ g \notin Gathered(k)
    BY <1>1, <1>3, <2>1, FlushKeeps
  <2>3. Flushed'
    <3>1. \A p \in posts' : p.waiter = "timer" => ToSet(p.parts) \cap atStop = {}
      BY <1>0, <2>1 DEF Flush, Flushed
    <3>2. \A g \in atStop : Buffered(g)' => arrivals[g] \in todo'
      BY <1>0, <1>1, <2>2 DEF Flushed, Homed, Buffered
    <3> QED  BY <1>0, <1>1, <1>2, <2>2, <3>1, <3>2 DEF Flushed
  <2>4. Armed'
    BY <1>0, <1>1, <2>1 DEF Armed, Flush, TypeOK
  <2> QED  BY <2>2, <2>3, <2>4
<1>4. CASE buffers[k] = <<>>
  <2>1. UNCHANGED <<buffers, posts, overlapped>>
    BY <1>4 DEF FlushNext
  <2>2. \A g : (Buffered(g)' <=> Buffered(g)) /\ (Flying(g)' <=> Flying(g)) /\ (IsStored(g)' <=> IsStored(g))
    BY <1>1, <2>1 DEF Buffered, Flying, IsStored, Gathered
  <2>3. Homed' /\ Conserved'
    BY <1>0, <1>1, <2>1, <2>2 DEF Homed, Conserved, Gathered, Said
  <2>4. Ordered'
    <3>1. DirectIsInOrder'
      BY <1>0, <1>1, <2>1 DEF Ordered, DirectIsInOrder
    <3> QED  BY <1>0, <1>1, <2>1, <3>1 DEF Ordered, Gathered, Said
  <2>5. Flushed'
    <3>1. Gathered(k) = {}
      BY <1>4 DEF Gathered, ToSet
    <3>2. \A g \in atStop : Buffered(g) => arrivals[g] # k
      BY <1>0, <3>1 DEF Buffered, Homed
    <3> QED  BY <1>0, <1>1, <1>2, <2>1, <2>2, <3>2 DEF Flushed
  <2>6. Armed'
    BY <1>0, <1>1, <2>1 DEF Armed
  <2> QED  BY <2>3, <2>4, <2>5, <2>6
<1> QED  BY <1>3, <1>4

LEMMA StopBeginsStep ==
  ASSUME IInv, StopBegins
  PROVE  Homed' /\ Conserved' /\ Ordered' /\ Flushed' /\ Armed'
<1>0. TypeOK /\ Homed /\ Conserved /\ Ordered /\ Flushed /\ Armed
  BY DEF IInv
<1>1. /\ gw' = "flushing" /\ todo' = {k \in Keys : buffers[k] # <<>>}
      /\ UNCHANGED <<arrivals, mentioning, buffers, armed, posts, stored, lost, overlapped, faults>>
  BY DEF StopBegins, inbox
<1>2. \A g \in atStop' : Buffered(g)
  BY DEF StopBegins, Buffered
<1>3. \A g \in atStop' : g \in DOMAIN arrivals
  BY <1>0, <1>2 DEF Buffered, Homed
<1>4. \A g : (Buffered(g)' <=> Buffered(g)) /\ (Flying(g)' <=> Flying(g)) /\ (IsStored(g)' <=> IsStored(g))
  BY <1>1 DEF Buffered, Flying, IsStored, Gathered
<1>5. Homed' /\ Conserved'
  BY <1>0, <1>1, <1>3, <1>4 DEF Homed, Conserved, Gathered, Said
<1>6. Ordered'
  <2>1. DirectIsInOrder'
    BY <1>0, <1>1 DEF Ordered, DirectIsInOrder
  <2> QED  BY <1>0, <1>1, <2>1 DEF Ordered, Gathered, Said
<1>7. Flushed'
  <2>1. atStop' \cap mentioning = {} /\ atStop' \cap lost = {} /\ \A g \in atStop' : ~Flying(g)
    BY <1>0, <1>2, <1>3 DEF Conserved
  <2>2. Missing' = {}
    BY <1>1, <2>1 DEF Missing
  <2>3. \A g \in atStop' : arrivals[g] \in todo'
    <3> SUFFICES ASSUME NEW g \in atStop' PROVE arrivals[g] \in todo'
      OBVIOUS
    <3>1. PICK k \in Keys : g \in Gathered(k)
      BY <1>2 DEF Buffered
    <3>2. buffers[k] # <<>>
      BY <3>1 DEF Gathered, ToSet
    <3> QED  BY <1>0, <1>1, <3>1, <3>2 DEF Homed
  <2>4. faults \in Nat
    BY <1>0 DEF TypeOK
  <2> QED  BY <1>1, <1>4, <2>1, <2>2, <2>3, <2>4, FS_EmptySet DEF Flushed, Flying
<1>8. Armed'
  BY <1>0, <1>1 DEF Armed
<1> QED  BY <1>5, <1>6, <1>7, <1>8

\* When all conversations are flushed and no request of the stop is awaited, what it
\* had to flush is neither gathered nor on its way.
LEMMA ReportOfflineStep ==
  ASSUME IInv, ReportOffline
  PROVE  Homed' /\ Conserved' /\ Ordered' /\ Flushed' /\ Armed'
<1>0. TypeOK /\ Flushed
  BY DEF IInv
<1>1. /\ todo = {} /\ \A p \in posts : p.waiter # "stop"
      /\ UNCHANGED <<inbox, posts, stored, lost, overlapped, atStop, todo, faults>>
  BY DEF ReportOffline, StopAwaits
<1>2. \A p \in posts : p.waiter = "timer"
  BY <1>0, <1>1 DEF TypeOK
<1>3. \A g \in atStop : ~Buffered(g) /\ ~Flying(g)
  BY <1>0, <1>1, <1>2 DEF Flushed, Flying
<1>4. faults \in Nat
  BY <1>0 DEF TypeOK
<1> QED  BY <1>1, <1>3, <1>4, NothingMoves

\* What is gathered when the process ends is lost.
LEMMA ExitStep ==
  ASSUME IInv, Exit
  PROVE  Homed' /\ Conserved' /\ Ordered' /\ Flushed' /\ Armed'
<1>0. TypeOK /\ Homed /\ Conserved /\ Ordered /\ Flushed /\ Armed
  BY DEF IInv
<1>1. /\ gw' = "exited" /\ lost' = lost \cup Everything
      /\ mentioning' = {} /\ armed' = {} /\ buffers' = [k \in Keys |-> <<>>]
      /\ atStop' = IF gw = "reporting" THEN atStop ELSE {}
      /\ UNCHANGED <<arrivals, posts, stored, todo, overlapped>>
  BY DEF Exit
<1>2. faults \in Nat /\ faults' \in {faults, faults + 1}
  BY <1>0 DEF Exit, Fault, TypeOK
<1>3. \A k \in Keys : ToSet(buffers'[k]) = {}
  BY <1>1 DEF ToSet
<1>4. /\ \A g : ~Buffered(g)'
      /\ \A g : (Flying(g)' <=> Flying(g)) /\ (IsStored(g)' <=> IsStored(g))
  BY <1>1, <1>3 DEF Buffered, Gathered, Flying, IsStored
<1>5. \A g : g \in Everything <=> Buffered(g) \/ g \in mentioning
  BY EverythingIs DEF Buffered
<1>6. Homed'
  <2>1. lost' \subseteq DOMAIN arrivals /\ atStop' \subseteq DOMAIN arrivals
    BY <1>0, <1>1, <1>5 DEF Homed, Buffered
  <2> QED  BY <1>0, <1>1, <1>3, <2>1 DEF Homed, Gathered, Said
<1>7. Conserved'
  <2>1. \A g \in DOMAIN arrivals :
          /\ g \in mentioning' \/ g \in lost' \/ Buffered(g)' \/ Flying(g)' \/ IsStored(g)'
          /\ g \in mentioning' => g \notin lost' /\ ~Buffered(g)' /\ ~Flying(g)' /\ ~IsStored(g)'
          /\ g \in lost' => ~Buffered(g)' /\ ~Flying(g)' /\ ~IsStored(g)'
          /\ Buffered(g)' => ~Flying(g)' /\ ~IsStored(g)'
          /\ Flying(g)' => ~IsStored(g)'
    BY <1>0, <1>1, <1>4, <1>5 DEF Conserved
  <2> QED  BY <1>0, <1>1, <2>1 DEF Conserved, Said
<1>8. Ordered'
  <2>1. DirectIsInOrder'
    BY <1>0, <1>1 DEF Ordered, DirectIsInOrder
  <2>2. \A k \in Keys : Increasing(buffers'[k])
    BY <1>1, IncreasingEmpty
  <2>3. /\ \A p \in posts : p.key \in Keys
        /\ \A i \in DOMAIN stored : stored[i].key \in Keys
    BY <1>0, Numbers
  <2>4. \A A : \A k \in Keys : Before(A, ToSet(buffers'[k]))
    BY <1>3 DEF Before
  <2> QED  BY <1>0, <1>1, <2>1, <2>2, <2>3, <2>4 DEF Ordered, Gathered, Said
<1>9. Flushed'
  <2>1. CASE gw = "reporting"
    <3>1. \A g \in atStop : ~Buffered(g) /\ ~Flying(g) /\ g \notin mentioning
      BY <1>0, <2>1 DEF Flushed
    <3>2. atStop' = atStop /\ atStop \cap lost' = atStop \cap lost
      BY <1>1, <1>5, <2>1, <3>1
    <3>3. Missing' = Missing
      BY <1>1, <3>2 DEF Missing
    <3>4. IsFiniteSet(Missing') /\ Cardinality(Missing') <= faults'
      BY <1>0, <1>2, <3>3, FS_CardinalityType DEF Flushed
    <3> QED  BY <1>0, <1>1, <1>4, <3>1, <3>2, <3>4 DEF Flushed
  <2>2. CASE gw # "reporting"
    <3>1. atStop' = {} /\ Missing' = {}
      BY <1>1, <2>2 DEF Missing
    <3> QED  BY <1>2, <3>1, FS_EmptySet DEF Flushed
  <2> QED  BY <2>1, <2>2
<1>10. Armed'
  BY <1>1 DEF Armed
<1> QED  BY <1>6, <1>7, <1>8, <1>9, <1>10

LEMMA StepKeepsIInv == IInv /\ [Next]_vars => IInv'
<1> SUFFICES ASSUME IInv, [Next]_vars PROVE IInv'
  OBVIOUS
<1>0. TypeOK' /\ faults \in Nat
  BY TypeStep DEF IInv, TypeOK
<1> DEFINE Rest == Homed' /\ Conserved' /\ Ordered' /\ Flushed' /\ Armed'
<1>1. ASSUME NEW k \in Keys, HandleMessage(k) \/ TimerFires(k) \/ FlushNext(k) PROVE Rest
  BY <1>1, HandleMessageStep, TimerFiresStep, FlushNextStep
<1>2. ASSUME NEW f \in Fragments, MentionsListed(f) PROVE Rest
  BY <1>2, MentionsListedStep
<1>3. ASSUME NEW p \in posts, PostArrives(p) \/ PostFails(p) PROVE Rest
  BY <1>3, PostArrivesKeeps, PostFailsKeeps
<1>4. ASSUME StopBegins \/ ReportOffline \/ Exit PROVE Rest
  <2>1. CASE StopBegins
    BY <2>1, StopBeginsStep
  <2>2. CASE ReportOffline
    BY <2>2, ReportOfflineStep
  <2>3. CASE Exit
    BY <2>3, ExitStep
  <2> QED  BY <1>4, <2>1, <2>2, <2>3
<1>5. ASSUME \/ \E p \in patches : PatchArrives(p) \/ PatchFails(p)
             \/ Scan \/ Login \/ Logout
             \/ UNCHANGED vars
      PROVE  Rest
  <2>1. /\ UNCHANGED <<inbox, posts, stored, lost, overlapped, atStop, gw, todo>>
        /\ faults' \in {faults, faults + 1}
    BY <1>5 DEF PatchArrives, PatchFails, Scan, Login, Logout, vars, inbox, process, Fault
  <2> QED  BY <1>0, <2>1, NothingMoves
<1>6. Rest
  <2> HIDE DEF Rest
  <2>1. CASE Next
    BY <1>1, <1>2, <1>3, <1>4, <1>5, <2>1 DEF Next, Api
  <2> QED  BY <1>5, <2>1
<1> QED  BY <1>0, <1>6 DEF IInv

-----------------------------------------------------------------------------
\* What the invariant says.

\* A fragment is counted in one place.
LEMMA IInvConserves == IInv => FragmentsAreConserved
<1> SUFFICES ASSUME IInv, NEW f \in DOMAIN arrivals
             PROVE  Cardinality({i \in DOMAIN stored : f \in ToSet(stored[i].parts)})
                      + Cardinality({k \in Keys : f \in Gathered(k)})
                      + Cardinality({p \in posts : f \in ToSet(p.parts)})
                      + Cardinality({s \in {mentioning, lost} : f \in s}) = 1
  BY DEF FragmentsAreConserved
<1> DEFINE records  == {i \in DOMAIN stored : f \in ToSet(stored[i].parts)}
           places == {k \in Keys : f \in Gathered(k)}
           flying == {p \in posts : f \in ToSet(p.parts)}
           rest   == {s \in {mentioning, lost} : f \in s}
<1>0. Homed /\ Conserved
  BY DEF IInv
<1>1. /\ records = {} <=> ~IsStored(f)
      /\ places = {} <=> ~Buffered(f)
      /\ flying = {} <=> ~Flying(f)
      /\ rest = {} <=> f \notin mentioning /\ f \notin lost
  BY DEF IsStored, Buffered, Flying
<1>2. \A i, j \in records : i = j
  BY <1>0 DEF Conserved, Said
<1>3. \A k, l \in places : k = l
  BY <1>0 DEF Homed
<1>4. \A p, q \in flying : p = q
  BY <1>0 DEF Conserved
<1>5. \A s, u \in rest : s = u
  BY <1>0 DEF Conserved
<1>6. \A A : (\A x, y \in A : x = y) => Cardinality(A) = IF A = {} THEN 0 ELSE 1
  <2> SUFFICES ASSUME NEW A, \A x, y \in A : x = y
               PROVE  Cardinality(A) = IF A = {} THEN 0 ELSE 1
    OBVIOUS
  <2>1. CASE A = {}
    BY <2>1, FS_EmptySet
  <2>2. CASE A # {}
    <3>1. PICK x : A = {x}
      BY <2>2
    <3> QED  BY <3>1, FS_Singleton
  <2> QED  BY <2>1, <2>2
<1>7. /\ Cardinality(records) = IF records = {} THEN 0 ELSE 1
      /\ Cardinality(places) = IF places = {} THEN 0 ELSE 1
      /\ Cardinality(flying) = IF flying = {} THEN 0 ELSE 1
      /\ Cardinality(rest) = IF rest = {} THEN 0 ELSE 1
  BY <1>2, <1>3, <1>4, <1>5, <1>6
<1>8. /\ f \in mentioning \/ f \in lost \/ Buffered(f) \/ Flying(f) \/ IsStored(f)
      /\ f \in mentioning => f \notin lost /\ ~Buffered(f) /\ ~Flying(f) /\ ~IsStored(f)
      /\ f \in lost => ~Buffered(f) /\ ~Flying(f) /\ ~IsStored(f)
      /\ Buffered(f) => ~Flying(f) /\ ~IsStored(f)
      /\ Flying(f) => ~IsStored(f)
  BY <1>0 DEF Conserved
<1> HIDE DEF records, places, flying, rest
<1>9. Cardinality(records) + Cardinality(places) + Cardinality(flying) + Cardinality(rest) = 1
  BY <1>1, <1>7, <1>8
<1> QED  BY <1>9 DEF records, places, flying, rest

\* After the stop, what it had to flush and is not stored is lost.
LEMMA IInvFlushes == IInv => StopFlushes
<1> SUFFICES ASSUME IInv, gw \in {"reporting", "exited"}
             PROVE  Cardinality({arrivals[f] : f \in {g \in atStop : ~IsStored(g)}}) <= faults
  BY DEF StopFlushes
<1>1. \A g \in atStop : IsStored(g) <=> g \notin lost
  BY DEF IInv, Homed, Conserved, Flushed
<1>2. {g \in atStop : ~IsStored(g)} = atStop \cap lost
  BY <1>1
<1> QED  BY <1>2 DEF IInv, Flushed, Missing

-----------------------------------------------------------------------------
\* The invariant holds of every behaviour of the gateway.
THEOREM InductiveInvariant == Spec => []IInv
<1>1. Init => IInv
  BY InitIInv
<1>2. IInv /\ [Next]_vars => IInv'
  BY StepKeepsIInv
<1> QED  BY <1>1, <1>2, PTL DEF Spec

\* The variables of the gateway keep their types.
THEOREM TypeCorrect == Spec => []TypeOK
<1>1. IInv => TypeOK
  BY DEF IInv
<1> QED  BY <1>1, InductiveInvariant, PTL

\* Timers, mention lists, a stop and new fragments may meet as they like: no fragment
\* is posted twice or forgotten.
THEOREM FragmentsAreConservedHolds == Spec => []FragmentsAreConserved
<1>1. IInv => FragmentsAreConserved
  BY IInvConserves
<1> QED  BY <1>1, InductiveInvariant, PTL

\* Where requests of a direct conversation do not overlap, its fragments are stored in
\* the order they came in.
THEOREM DirectIsInOrderHolds == Spec => []DirectIsInOrder
<1>1. IInv => DirectIsInOrder
  BY DEF IInv, Ordered
<1> QED  BY <1>1, InductiveInvariant, PTL

\* A stop costs a conversation for a fault at most: a request that fails does not keep
\* the others from being flushed.
THEOREM StopFlushesHolds == Spec => []StopFlushes
<1>1. IInv => StopFlushes
  BY IInvFlushes
<1> QED  BY <1>1, InductiveInvariant, PTL

-----------------------------------------------------------------------------
\* The proofs about the queue, of the queue of this composition.
QueueProofs == INSTANCE InboundPipelineProofs WITH
  Drafts <- Numbered, ThreadOf <- OneThread, Edits <- {}, MaxAttempts <- 1, PageLimit <- 1,
  MaxFaults <- MaxQueueFaults, faults <- queueFaults

-----------------------------------------------------------------------------
\* The gateways of the other services.
HooksSteps == Hooks!Finished \cup Hooks!Posting \cup {"posted", "failed", "reporting", "sulking", "refusing"}

HooksTyped ==
  /\ request \in [Hooks!Deliveries -> HooksSteps] /\ rows \in [Messages -> Nat] /\ told \in Nat
  /\ polls \in BOOLEAN /\ crowded \in BOOLEAN /\ astray \in BOOLEAN

\* A row is there before the service is told.
HooksStoredFirst ==
  \A i \in Hooks!Deliveries :
    i[1] \notin Silent /\ request[i] \in {"enqueuing", "posted", "reporting", "told"} => rows[i[1]] > 0

\* The deliveries that have got past the insertion of their row.
HooksPast(m) == {n \in 1..MaxTries : request[<<m, n>>] \notin {"new", "connecting", "storing"}}

HooksRowsArePast == \A m \in Messages : rows[m] <= Cardinality(HooksPast(m))

HooksOneAfterTheOther ==
  \A m \in Messages : \A n \in Hooks!Tries(m) \ {1} : request[<<m, n - 1>>] = "refused"

\* Once polling has ended with nothing else under way nothing comes after the report of it.
HooksLastReport == [by |-> <<"launch", 1>>, to |-> "OFFLINE"]

HooksEnded == kind = "polling" /\ ~polls /\ ~crowded /\ ~astray

HooksEndIsLast ==
  HooksEnded =>
    /\ Hooks!UnderWay = {} /\ told # 0 /\ reported \subseteq {HooksLastReport}
    /\ reported = {} => shown = "OFFLINE"

HooksIInv == HooksTyped /\ HooksStoredFirst /\ HooksRowsArePast /\ HooksOneAfterTheOther /\ HooksEndIsLast

-----------------------------------------------------------------------------
LEMMA HooksPastIsFinite == ASSUME NEW m PROVE IsFiniteSet(HooksPast(m)) /\ IsFiniteSet(Hooks!Tries(m))
<1>1. IsFiniteSet(1..MaxTries)
  BY FS_Interval, InboundBounds
<1>2. HooksPast(m) \subseteq 1..MaxTries /\ Hooks!Tries(m) \subseteq 1..MaxTries
  BY DEF HooksPast, Hooks!Tries
<1> QED BY <1>1, <1>2, FS_Subset

LEMMA HooksInitIInv == ASSUME Hooks!Init PROVE HooksIInv
<1>1. HooksTyped
  BY DEF Hooks!Init, HooksTyped, HooksSteps, Hooks!Finished
<1>2. HooksRowsArePast
  <2>1. \A m \in Messages : Cardinality(HooksPast(m)) \in Nat
    BY HooksPastIsFinite, FS_CardinalityType
  <2> QED BY <2>1 DEF Hooks!Init, HooksRowsArePast
<1> QED BY <1>1, <1>2 DEF Hooks!Init, HooksIInv, HooksStoredFirst, HooksOneAfterTheOther, Hooks!Tries, HooksEndIsLast, HooksEnded, Hooks!Deliveries

\* A step of one delivery: where it may go, what it leaves.
LEMMA HooksGoesStep ==
  ASSUME HooksIInv, NEW i \in Hooks!Deliveries, NEW pc \in HooksSteps, Hooks!Goes(i, pc), pc # "new",
         UNCHANGED <<rows, told>>, request[i] # "refused", request[i] # "new",
         pc \in {"connecting", "storing"} => request[i] \in {"connecting", "storing"},
         i[1] \notin Silent /\ pc \in {"enqueuing", "posted", "reporting", "told"} => rows[i[1]] > 0
  PROVE  HooksStoredFirst' /\ HooksRowsArePast' /\ HooksOneAfterTheOther'
<1>0. request' = [request EXCEPT ![i] = pc] /\ request \in [Hooks!Deliveries -> HooksSteps]
  BY DEF Hooks!Goes, HooksIInv, HooksTyped
<1>1. HooksStoredFirst'
  BY <1>0 DEF HooksIInv, HooksStoredFirst
<1>2. ASSUME NEW m \in Messages PROVE rows'[m] <= Cardinality(HooksPast(m)')
  <2>1. HooksPast(m) \subseteq HooksPast(m)'
    BY <1>0 DEF HooksPast, Hooks!Deliveries
  <2>2. IsFiniteSet(HooksPast(m)')
    <3>1. IsFiniteSet(1..MaxTries) /\ HooksPast(m)' \subseteq 1..MaxTries
      BY FS_Interval, InboundBounds DEF HooksPast
    <3> QED BY <3>1, FS_Subset
  <2>3. /\ Cardinality(HooksPast(m)) <= Cardinality(HooksPast(m)')
        /\ Cardinality(HooksPast(m)) \in Nat /\ Cardinality(HooksPast(m)') \in Nat
    BY <2>1, <2>2, HooksPastIsFinite, FS_Subset, FS_CardinalityType
  <2>4. rows[m] <= Cardinality(HooksPast(m)) /\ rows[m] \in Nat
    BY DEF HooksIInv, HooksRowsArePast, HooksTyped
  <2> QED BY <2>3, <2>4
<1>3. HooksOneAfterTheOther'
  <2> SUFFICES ASSUME NEW m \in Messages, NEW n \in Hooks!Tries(m)', n # 1
               PROVE  request'[<<m, n - 1>>] = "refused"
    BY DEF HooksOneAfterTheOther
  <2>1. n \in Hooks!Tries(m)
    BY <1>0 DEF Hooks!Tries, Hooks!Deliveries
  <2>2. request[<<m, n - 1>>] = "refused" /\ <<m, n - 1>> # i
    BY <2>1 DEF HooksIInv, HooksOneAfterTheOther
  <2> QED BY <1>0, <2>2
<1> QED BY <1>1, <1>2, <1>3 DEF HooksRowsArePast

\* Where only patches change.
LEMMA HooksRequestsAlone ==
  ASSUME HooksIInv, UNCHANGED <<request, rows>>
  PROVE  HooksStoredFirst' /\ HooksRowsArePast' /\ HooksOneAfterTheOther'
  BY DEF HooksIInv, HooksStoredFirst, HooksRowsArePast, HooksPast, HooksOneAfterTheOther, Hooks!Tries

\* A delivery under way means that polling has not ended, or not alone.
LEMMA HooksBusyIsNotEnded ==
  ASSUME HooksIInv, NEW i \in Hooks!Deliveries, request[i] \notin Hooks!Finished \/ (request[i] = "new" /\ (kind = "polling" => polls)),
         UNCHANGED <<kind, polls, crowded>>, astray => astray'
  PROVE  HooksEndIsLast'
<1>1. ~HooksEnded
  BY DEF HooksIInv, HooksEndIsLast, Hooks!UnderWay, HooksEnded
<1> QED BY <1>1 DEF HooksEndIsLast, HooksEnded

LEMMA HooksDeliverStep == ASSUME HooksIInv, NEW i \in Hooks!Deliveries, Hooks!Deliver(i) PROVE HooksIInv'
<1> DEFINE pc == IF i[1] \in Silent THEN "posted" ELSE "connecting"
<1>0. request' = [request EXCEPT ![i] = pc] /\ request \in [Hooks!Deliveries -> HooksSteps] /\ pc \in HooksSteps
      /\ UNCHANGED <<kind, rows, polls, crowded, told>>
  BY DEF Hooks!Deliver, Hooks!Goes, HooksIInv, HooksTyped, HooksSteps, Hooks!Posting
<1>1. HooksTyped'
  BY <1>0 DEF HooksIInv, HooksTyped, Hooks!Deliver
<1>2. HooksStoredFirst'
  BY <1>0 DEF HooksIInv, HooksStoredFirst
<1>3. HooksRowsArePast'
  <2> SUFFICES ASSUME NEW m \in Messages PROVE rows[m] <= Cardinality(HooksPast(m)')
    BY <1>0 DEF HooksRowsArePast
  <2>1. HooksPast(m) \subseteq HooksPast(m)'
    BY <1>0 DEF HooksPast, Hooks!Deliveries, Hooks!Deliver
  <2>2. IsFiniteSet(HooksPast(m)')
    <3>1. IsFiniteSet(1..MaxTries) /\ HooksPast(m)' \subseteq 1..MaxTries
      BY FS_Interval, InboundBounds DEF HooksPast
    <3> QED BY <3>1, FS_Subset
  <2>3. /\ Cardinality(HooksPast(m)) <= Cardinality(HooksPast(m)')
        /\ Cardinality(HooksPast(m)) \in Nat /\ Cardinality(HooksPast(m)') \in Nat
    BY <2>1, <2>2, HooksPastIsFinite, FS_Subset, FS_CardinalityType
  <2>4. rows[m] <= Cardinality(HooksPast(m)) /\ rows[m] \in Nat
    BY DEF HooksIInv, HooksRowsArePast, HooksTyped
  <2> QED BY <2>3, <2>4
<1>4. HooksOneAfterTheOther'
  <2> SUFFICES ASSUME NEW m \in Messages, NEW n \in Hooks!Tries(m)', n # 1
               PROVE  request'[<<m, n - 1>>] = "refused"
    BY DEF HooksOneAfterTheOther
  <2>1. request[<<m, n - 1>>] = "refused"
    <3>1. CASE <<m, n>> = i
      BY <3>1, InboundBounds DEF Hooks!Deliver, Hooks!Tries
    <3>2. CASE <<m, n>> # i
      <4>1. n \in Hooks!Tries(m)
        BY <1>0, <3>2 DEF Hooks!Tries, Hooks!Deliveries
      <4> QED BY <4>1 DEF HooksIInv, HooksOneAfterTheOther
    <3> QED BY <3>1, <3>2
  <2>2. <<m, n - 1>> # i
    BY <2>1 DEF Hooks!Deliver
  <2> QED BY <1>0, <2>1, <2>2
<1>5. HooksEndIsLast'
  BY <1>0, HooksBusyIsNotEnded DEF Hooks!Deliver
<1> QED BY <1>1, <1>2, <1>3, <1>4, <1>5 DEF HooksIInv

LEMMA HooksStoreStep == ASSUME HooksIInv, NEW i \in Hooks!Deliveries, Hooks!ApiStores(i) PROVE HooksIInv'
<1>0. /\ request' = [request EXCEPT ![i] = "enqueuing"] /\ request \in [Hooks!Deliveries -> HooksSteps]
      /\ rows' = [rows EXCEPT ![i[1]] = @ + 1] /\ rows \in [Messages -> Nat]
      /\ request[i] = "storing" /\ i[1] \in Messages /\ i[2] \in 1..MaxTries /\ i = <<i[1], i[2]>>
  BY DEF Hooks!ApiStores, Hooks!Goes, HooksIInv, HooksTyped, Hooks!Deliveries
<1>1. HooksTyped'
  BY <1>0 DEF HooksIInv, HooksTyped, Hooks!ApiStores, HooksSteps, Hooks!Posting
<1>2. HooksStoredFirst'
  <2> SUFFICES ASSUME NEW j \in Hooks!Deliveries, j[1] \notin Silent,
                      request'[j] \in {"enqueuing", "posted", "reporting", "told"}
               PROVE  rows'[j[1]] > 0
    BY DEF HooksStoredFirst
  <2>1. j[1] \in Messages
    BY DEF Hooks!Deliveries
  <2>2. CASE j[1] = i[1]
    BY <1>0, <2>2
  <2>3. CASE j[1] # i[1]
    BY <1>0, <2>1, <2>3 DEF HooksIInv, HooksStoredFirst
  <2> QED BY <2>2, <2>3
<1>3. HooksRowsArePast'
  <2> SUFFICES ASSUME NEW m \in Messages PROVE rows'[m] <= Cardinality(HooksPast(m)')
    BY DEF HooksRowsArePast
  <2>1. rows[m] <= Cardinality(HooksPast(m)) /\ rows[m] \in Nat /\ IsFiniteSet(HooksPast(m))
        /\ Cardinality(HooksPast(m)) \in Nat
    BY HooksPastIsFinite, FS_CardinalityType DEF HooksIInv, HooksRowsArePast, HooksTyped
  <2>2. CASE m = i[1]
    <3>1. HooksPast(m)' = HooksPast(m) \cup {i[2]} /\ i[2] \notin HooksPast(m)
      BY <1>0, <2>2 DEF HooksPast, Hooks!Deliveries
    <3>2. Cardinality(HooksPast(m)') = Cardinality(HooksPast(m)) + 1
      BY <2>1, <3>1, FS_AddElement
    <3> QED BY <1>0, <2>1, <2>2, <3>2
  <2>3. CASE m # i[1]
    <3>1. HooksPast(m)' = HooksPast(m)
      BY <1>0, <2>3 DEF HooksPast, Hooks!Deliveries
    <3> QED BY <1>0, <2>1, <2>3, <3>1
  <2> QED BY <2>2, <2>3
<1>4. HooksOneAfterTheOther'
  <2> SUFFICES ASSUME NEW m \in Messages, NEW n \in Hooks!Tries(m)', n # 1
               PROVE  request'[<<m, n - 1>>] = "refused"
    BY DEF HooksOneAfterTheOther
  <2>1. n \in Hooks!Tries(m)
    BY <1>0 DEF Hooks!Tries, Hooks!Deliveries
  <2>2. request[<<m, n - 1>>] = "refused" /\ <<m, n - 1>> # i
    BY <1>0, <2>1 DEF HooksIInv, HooksOneAfterTheOther
  <2> QED BY <1>0, <2>2
<1>5. HooksEndIsLast'
  BY <1>0, HooksBusyIsNotEnded DEF Hooks!ApiStores, Hooks!Finished
<1> QED BY <1>1, <1>2, <1>3, <1>4, <1>5 DEF HooksIInv

\* The other steps of a delivery but the end of polling: each comes from one place.
LEMMA HooksHandleStep ==
  ASSUME HooksIInv, NEW i \in Hooks!Deliveries,
         \/ Hooks!ApiConnects(i) \/ Hooks!ApiEnqueues(i) \/ Hooks!PostFails(i) \/ Hooks!ReportGood(i) \/ Hooks!ReportBad(i)
         \/ Hooks!Tell(i) \/ Hooks!Refuse(i) \/ (kind # "polling" /\ Hooks!Rethrow(i))
  PROVE  HooksIInv'
<1>0. /\ request[i] \in Hooks!Posting \cup {"posted", "failed", "reporting", "sulking", "refusing"}
      /\ UNCHANGED <<kind, rows, polls, crowded, told>> /\ (astray => astray') /\ astray' \in BOOLEAN
  BY DEF Hooks!ApiConnects, Hooks!ApiEnqueues, Hooks!PostFails, Hooks!ReportGood, Hooks!ReportBad,
         Hooks!Tell, Hooks!Refuse, Hooks!Rethrow, Hooks!Patch, Hooks!Posting,
         HooksIInv, HooksTyped
<1>1. PICK pc \in HooksSteps :
        /\ Hooks!Goes(i, pc) /\ pc # "new"
        /\ pc \in {"connecting", "storing"} => request[i] \in {"connecting", "storing"}
        /\ pc \in {"enqueuing", "posted", "reporting", "told"} => request[i] \in {"enqueuing", "posted", "reporting"}
  BY DEF Hooks!ApiConnects, Hooks!ApiEnqueues, Hooks!PostFails, Hooks!ReportGood, Hooks!ReportBad,
         Hooks!Tell, Hooks!Refuse, Hooks!Rethrow, HooksSteps, Hooks!Posting,
         Hooks!Finished
<1>2. HooksTyped'
  BY <1>0, <1>1 DEF HooksIInv, HooksTyped, Hooks!Goes
<1>3. HooksStoredFirst' /\ HooksRowsArePast' /\ HooksOneAfterTheOther'
  <2>1. i[1] \notin Silent /\ pc \in {"enqueuing", "posted", "reporting", "told"} => rows[i[1]] > 0
    BY <1>1 DEF HooksIInv, HooksStoredFirst
  <2>2. request[i] # "refused" /\ request[i] # "new"
    BY <1>0 DEF Hooks!Posting
  <2> QED BY <1>0, <1>1, <2>1, <2>2, HooksGoesStep
<1>4. HooksEndIsLast'
  <2>1. request[i] \notin Hooks!Finished
    BY <1>0 DEF Hooks!Posting, Hooks!Finished
  <2> QED BY <1>0, <2>1, HooksBusyIsNotEnded
<1> QED BY <1>2, <1>3, <1>4 DEF HooksIInv

LEMMA HooksEndOfPollingStep ==
  ASSUME HooksIInv, NEW i \in Hooks!Deliveries, kind = "polling", Hooks!Rethrow(i)
  PROVE  HooksIInv'
<1>0. /\ request[i] = "sulking" /\ Hooks!Goes(i, "refused") /\ polls' = FALSE
      /\ crowded' = (crowded \/ Hooks!UnderWay # {i} \/ told = 0)
      /\ UNCHANGED <<kind, rows, shown, told>>
      /\ IF polls THEN Hooks!Patch(<<"launch", 1>>, "OFFLINE") ELSE UNCHANGED <<reported, astray>>
  BY DEF Hooks!Rethrow
<1>1. HooksTyped'
  BY <1>0 DEF HooksIInv, HooksTyped, Hooks!Goes, Hooks!Patch, HooksSteps, Hooks!Finished
<1>2. HooksStoredFirst' /\ HooksRowsArePast' /\ HooksOneAfterTheOther'
  <2>1. "refused" \in HooksSteps
    BY DEF HooksSteps, Hooks!Finished
  <2> QED BY <1>0, <2>1, HooksGoesStep
<1>3. HooksEndIsLast'
  <2> SUFFICES ASSUME HooksEnded'
               PROVE  /\ Hooks!UnderWay' = {} /\ told' # 0 /\ reported' \subseteq {HooksLastReport}
                      /\ reported' = {} => shown' = "OFFLINE"
    BY DEF HooksEndIsLast
  <2>1. Hooks!UnderWay = {i} /\ told # 0 /\ ~crowded
    BY <1>0 DEF HooksEnded
  <2>2. Hooks!UnderWay' = {}
    BY <1>0, <2>1 DEF Hooks!UnderWay, Hooks!Goes, Hooks!Finished, HooksIInv, HooksTyped
  <2>3. CASE polls
    <3>1. reported = {} /\ reported' = {HooksLastReport}
      BY <1>0, <2>3 DEF Hooks!Patch, HooksEnded, HooksLastReport
    <3> QED BY <1>0, <2>1, <2>2, <3>1
  <2>4. CASE ~polls
    <3>1. HooksEnded
      BY <1>0, <2>1, <2>4 DEF HooksEnded
    <3> QED BY <2>1, <3>1 DEF HooksIInv, HooksEndIsLast
  <2> QED BY <2>3, <2>4
<1> QED BY <1>1, <1>2, <1>3 DEF HooksIInv

LEMMA HooksPatchStep == ASSUME HooksIInv, Hooks!Report \/ Hooks!PatchArrives \/ Hooks!PatchFails PROVE HooksIInv'
<1> USE DEF Hooks!Report, Hooks!PatchArrives, Hooks!PatchFails, Hooks!Patch, HooksIInv, HooksTyped
<1>0. UNCHANGED <<kind, request, rows, polls, crowded>> /\ (astray => astray') /\ astray' \in BOOLEAN
      /\ told' \in Nat
  <2>1. CASE Hooks!Report
    BY <2>1
  <2>2. CASE Hooks!PatchArrives
    BY <2>2
  <2>3. CASE Hooks!PatchFails
    BY <2>3
  <2> QED BY <2>1, <2>2, <2>3
<1>1. HooksTyped'
  BY <1>0
<1>2. HooksEndIsLast'
  <2> SUFFICES ASSUME HooksEnded'
               PROVE  /\ Hooks!UnderWay' = {} /\ told' # 0 /\ reported' \subseteq {HooksLastReport}
                      /\ reported' = {} => shown' = "OFFLINE"
    BY DEF HooksEndIsLast
  <2>1. HooksEnded /\ Hooks!UnderWay = {} /\ told # 0 /\ reported \subseteq {HooksLastReport}
        /\ (reported = {} => shown = "OFFLINE")
    BY <1>0 DEF HooksEnded, HooksIInv, HooksEndIsLast
  <2>2. Hooks!UnderWay' = {}
    BY <1>0, <2>1 DEF Hooks!UnderWay
  <2>3. ~Hooks!Report
    BY <2>1 DEF Hooks!Report, Hooks!Reports, HooksEnded
  <2>4. ~Hooks!PatchFails
    BY DEF Hooks!PatchFails, HooksEnded
  <2>5. Hooks!PatchArrives
    BY <2>3, <2>4
  <2> QED BY <2>1, <2>2, <2>5 DEF Hooks!PatchArrives, HooksLastReport
<1> QED BY <1>0, <1>1, <1>2, HooksRequestsAlone DEF HooksIInv

LEMMA HooksStepKeepsIInv == ASSUME HooksIInv, [Hooks!Next]_Hooks!vars PROVE HooksIInv'
<1>1. ASSUME NEW i \in Hooks!Deliveries, Hooks!Deliver(i) PROVE HooksIInv'
  BY <1>1, HooksDeliverStep
<1>2. ASSUME NEW i \in Hooks!Deliveries, Hooks!Handle(i) \/ Hooks!PostFails(i) PROVE HooksIInv'
  <2>1. \/ Hooks!ApiStores(i) \/ (kind = "polling" /\ Hooks!Rethrow(i))
        \/ Hooks!ApiConnects(i) \/ Hooks!ApiEnqueues(i) \/ Hooks!PostFails(i) \/ Hooks!ReportGood(i) \/ Hooks!ReportBad(i)
        \/ Hooks!Tell(i) \/ Hooks!Refuse(i) \/ (kind # "polling" /\ Hooks!Rethrow(i))
    BY <1>2 DEF Hooks!Handle
  <2> QED BY <2>1, HooksStoreStep, HooksEndOfPollingStep, HooksHandleStep
<1>3. CASE Hooks!Report \/ Hooks!PatchArrives \/ Hooks!PatchFails
  BY <1>3, HooksPatchStep
<1>4. CASE UNCHANGED Hooks!vars
  BY <1>4, HooksRequestsAlone DEF Hooks!vars, HooksIInv, HooksTyped, HooksEndIsLast, HooksEnded,
         Hooks!UnderWay
<1> QED BY <1>1, <1>2, <1>3, <1>4 DEF Hooks!Next

\* A count of WebhookGateways is one of this module.
LEMMA CardinalityIsHooks == \A S : Hooks!Cardinality(S) = Cardinality(S)
BY DEF Hooks!Cardinality, Cardinality

LEMMA HooksIInvIsTrue == ASSUME HooksIInv PROVE Hooks!GatewaysAreTrue
<1>1. Hooks!ToldIsStored
  BY DEF HooksIInv, HooksStoredFirst, Hooks!ToldIsStored
<1>2. Hooks!RowsAreDeliveries
  <2> SUFFICES ASSUME NEW m \in Messages PROVE rows[m] <= Cardinality(Hooks!Tries(m))
    BY CardinalityIsHooks DEF Hooks!RowsAreDeliveries, HooksIInv, HooksOneAfterTheOther
  <2>1. HooksPast(m) \subseteq Hooks!Tries(m)
    BY DEF HooksPast, Hooks!Tries
  <2>2. /\ Cardinality(HooksPast(m)) <= Cardinality(Hooks!Tries(m))
        /\ Cardinality(HooksPast(m)) \in Nat /\ Cardinality(Hooks!Tries(m)) \in Nat
    BY <2>1, HooksPastIsFinite, FS_Subset, FS_CardinalityType
  <2> QED BY <2>2 DEF HooksIInv, HooksTyped, HooksRowsArePast
<1>3. Hooks!EndOfPollingShows
  BY DEF HooksIInv, HooksEndIsLast, HooksEnded, Hooks!EndOfPollingShows
<1> QED BY <1>1, <1>2, <1>3 DEF Hooks!GatewaysAreTrue

-----------------------------------------------------------------------------
\* The token of WeCom.
TokenCalls == [pc : {"idle", "asking", "answering", "cached", "loaded"},
          since : Nat, token : Token!Tokens \cup {Token!None}, until : Nat]

TokenTyped ==
  /\ clock \in Nat \ {0} /\ ends \in [Token!Tokens -> Nat]
  /\ current \in [token : Token!Tokens \cup {Token!None}, until : Nat]
  /\ call \in [Sends -> TokenCalls]

\* What is claimed of a token is no more than the service grants.
TokenGranted(t, until) == t \in Token!Tokens /\ ends[t] # Token!None /\ until <= ends[t]

TokenCurrentIsGranted == current.token # Token!None => TokenGranted(current.token, current.until)

TokenCallsAreGranted ==
  \A s \in Sends :
    /\ call[s].since <= clock
    /\ call[s].pc = "answering" => TokenGranted(call[s].token, call[s].until)
    /\ call[s].pc = "cached" =>
         call[s].token \in Token!Tokens /\ ends[call[s].token] # Token!None
           /\ ends[call[s].token] > call[s].since + Margin

\* The inductive invariant.
TokenIInv == TokenTyped /\ TokenCurrentIsGranted /\ TokenCallsAreGranted

-----------------------------------------------------------------------------
LEMMA TokenInitIInv == Token!Init => TokenIInv
  BY DEF Token!Init, TokenIInv, TokenTyped, TokenCurrentIsGranted, TokenCallsAreGranted, TokenCalls,
         Token!Idle, Token!None

LEMMA TokenTickStep == ASSUME TokenIInv, Token!Tick PROVE TokenIInv'
  BY DEF TokenIInv, TokenTyped, TokenCurrentIsGranted, TokenCallsAreGranted, TokenGranted, TokenCalls,
         Token!Tick, Token!None

LEMMA TokenGetStep ==
  ASSUME TokenIInv, NEW s \in Sends, Token!Get(s) PROVE TokenIInv'
<1>1. CASE current.token # Token!None /\ current.until > clock + Margin
  <2>1. /\ TokenGranted(current.token, current.until)
        /\ call' = [call EXCEPT ![s] = [pc |-> "cached", since |-> clock, token |-> current.token,
                                        until |-> current.until]]
        /\ UNCHANGED <<clock, ends, current>>
    BY <1>1 DEF TokenIInv, TokenCurrentIsGranted, Token!Get
  <2>2. /\ current.token \in Token!Tokens /\ ends[current.token] # Token!None
        /\ ends[current.token] > clock + Margin
    BY <1>1, <2>1, InboundBounds DEF TokenIInv, TokenTyped, TokenGranted
  <2>3. call' \in [Sends -> TokenCalls]
    BY <2>1, <2>2 DEF TokenIInv, TokenTyped, TokenCalls
  <2>4. TokenCallsAreGranted'
    BY <2>1, <2>2 DEF TokenIInv, TokenTyped, TokenCallsAreGranted, TokenGranted
  <2> QED BY <2>1, <2>3, <2>4 DEF TokenIInv, TokenTyped, TokenCurrentIsGranted, TokenGranted
<1>2. CASE ~(current.token # Token!None /\ current.until > clock + Margin)
  <2>1. /\ call' = [call EXCEPT ![s] = [call[s] EXCEPT !.pc = "asking", !.since = clock]]
        /\ UNCHANGED <<clock, ends, current>>
    BY <1>2 DEF Token!Get
  <2>2. call' \in [Sends -> TokenCalls]
    BY <2>1 DEF TokenIInv, TokenTyped, TokenCalls
  <2>3. TokenCallsAreGranted'
    BY <2>1 DEF TokenIInv, TokenTyped, TokenCallsAreGranted, TokenGranted, TokenCalls
  <2> QED BY <2>1, <2>2, <2>3 DEF TokenIInv, TokenTyped, TokenCurrentIsGranted, TokenGranted
<1> QED BY <1>1, <1>2

LEMMA TokenGetTokenStep ==
  ASSUME TokenIInv, NEW s \in Sends, Token!GetToken(s) PROVE TokenIInv'
<1>1. PICK t \in Token!Tokens :
        /\ \/ ends[t] > clock /\ UNCHANGED ends
           \/ ends[t] = Token!None /\ ends' = [ends EXCEPT ![t] = clock + Lifetime]
        /\ call' = [call EXCEPT ![s].pc = "answering", ![s].token = t,
                                ![s].until = call[s].since + (ends'[t] - clock)]
  BY DEF Token!GetToken
<1>2. UNCHANGED <<clock, current>>
  BY DEF Token!GetToken
\* A token that is issued keeps its end, and the one that is handed out is issued.
<1>3. /\ ends' \in [Token!Tokens -> Nat] /\ ends'[t] # Token!None
      /\ \A u \in Token!Tokens : ends[u] # Token!None => ends'[u] = ends[u]
  BY <1>1, InboundBounds DEF TokenIInv, TokenTyped, Token!None
<1>4. call'[s] \in TokenCalls /\ call'[s].since <= clock /\ call'[s].pc = "answering"
      /\ call'[s].token = t /\ call'[s].until <= ends'[t]
  <2>1. call[s] \in TokenCalls /\ call[s].since \in Nat /\ call[s].since <= clock /\ clock \in Nat
    BY DEF TokenIInv, TokenTyped, TokenCallsAreGranted, TokenCalls
  <2>2. ends'[t] \in Nat /\ ends'[t] >= clock
    BY <1>1, <1>3, InboundBounds DEF TokenIInv, TokenTyped
  <2> DEFINE until == call[s].since + (ends'[t] - clock)
  <2>3. until \in Nat /\ until <= ends'[t]
    BY <2>1, <2>2
  <2>4. call'[s] = [call[s] EXCEPT !.pc = "answering", !.token = t, !.until = until]
    BY <1>1 DEF TokenIInv, TokenTyped
  <2> HIDE DEF until
  <2> QED BY <2>1, <2>3, <2>4 DEF TokenCalls
<1>5. \A r \in Sends \ {s} : call'[r] = call[r]
  BY <1>1 DEF TokenIInv, TokenTyped
<1>6. TokenTyped'
  BY <1>1, <1>2, <1>3, <1>4 DEF TokenIInv, TokenTyped, TokenCalls
<1>7. TokenCurrentIsGranted'
  BY <1>2, <1>3 DEF TokenIInv, TokenCurrentIsGranted, TokenGranted
<1>8. TokenCallsAreGranted'
  BY <1>2, <1>3, <1>4, <1>5 DEF TokenIInv, TokenCallsAreGranted, TokenGranted
<1> QED BY <1>6, <1>7, <1>8 DEF TokenIInv

LEMMA TokenKeepStep == ASSUME TokenIInv, NEW s \in Sends, Token!Keep(s) PROVE TokenIInv'
  BY DEF TokenIInv, TokenTyped, TokenCurrentIsGranted, TokenCallsAreGranted, TokenGranted, TokenCalls,
         Token!Keep, Token!None

LEMMA TokenEndStep ==
  ASSUME TokenIInv, NEW s \in Sends, Token!GetTokenFails(s) \/ Token!SendIsOver(s) PROVE TokenIInv'
<1>1. call' = [call EXCEPT ![s] = Token!Idle] /\ UNCHANGED <<clock, ends, current>>
  BY DEF Token!GetTokenFails, Token!SendIsOver
<1> QED BY <1>1 DEF TokenIInv, TokenTyped, TokenCurrentIsGranted, TokenCallsAreGranted, TokenGranted, TokenCalls, Token!Idle, Token!None

LEMMA TokenIInvStep == ASSUME TokenIInv, [Token!Next]_Token!vars PROVE TokenIInv'
<1>1. CASE Token!Tick
  BY <1>1, TokenTickStep
<1>2. ASSUME NEW s \in Sends, Token!Get(s) \/ Token!GetToken(s) \/ Token!Keep(s) \/ Token!GetTokenFails(s) \/ Token!SendIsOver(s)
      PROVE  TokenIInv'
  BY <1>2, TokenGetStep, TokenGetTokenStep, TokenKeepStep, TokenEndStep
<1>3. CASE UNCHANGED Token!vars
  BY <1>3 DEF Token!vars, TokenIInv, TokenTyped, TokenCurrentIsGranted, TokenCallsAreGranted, TokenGranted
<1> QED BY <1>1, <1>2, <1>3 DEF Token!Next

-----------------------------------------------------------------------------
\* The queue.  The constants of this composition are as InboundPipeline assumes.
LEMMA NumberedIsFinite == IsFiniteSet(Numbered)
BY MessagesFinite, InboundBounds, FS_Interval, FS_Product, 1 \in Int, MaxDrafts \in Int DEF Numbered

LEMMA FiniteIsQueues == \A S : QueueProofs!IsFiniteSet(S) <=> IsFiniteSet(S)
BY DEF QueueProofs!IsFiniteSet, IsFiniteSet

LEMMA QueueAssumptions ==
  /\ {MaxDrafts, MaxSweeps, MaxQueueFaults} \subseteq Nat /\ RetryLimit \in Nat
  /\ Numbered = Messages \X (1..MaxDrafts) /\ QueueProofs!IsFiniteSet(Numbered)
  /\ \A d, e \in Numbered : d[1] = e[1] => OneThread[d] = OneThread[e]
  /\ {} \cap {QueueProofs!Generated, QueueProofs!NoEdit} = {} /\ 1 \in Nat \ {0}
<1>1. \A d, e \in Numbered : d[1] = e[1] => OneThread[d] = OneThread[e]
  BY DEF OneThread
<1> QED BY <1>1, InboundBounds, NumberedIsFinite, FiniteIsQueues DEF Numbered

\* So its invariant is inductive here too.
LEMMA QueueIInvStarts == QueueProofs!Init => QueueProofs!IInv
BY QueueAssumptions, QueueProofs!InitIInv DEF QueueProofs!InitIInv

LEMMA QueueIInvStays == QueueProofs!IInv /\ [QueueProofs!Next]_(QueueProofs!vars) => QueueProofs!IInv'
BY QueueAssumptions, QueueProofs!StepKeepsIInv DEF QueueProofs!StepKeepsIInv

LEMMA QueueIInvAnswers == QueueProofs!IInv => Queue!DoneIsAnswered
BY DEF QueueProofs!IInv, QueueProofs!Answering, Queue!DoneIsAnswered, QueueProofs!DoneIsAnswered,
       Queue!Superseded, QueueProofs!Superseded, Queue!DraftsOf, QueueProofs!DraftsOf, Queue!Absent,
       QueueProofs!Absent

\* The two instances of InboundPipeline are the same, action by action.
LEMMA QueueInit == Queue!Init <=> QueueProofs!Init
BY DEF Queue!Init, QueueProofs!Init, Queue!IdleRun, QueueProofs!IdleRun, Queue!EmptyQueue,
       QueueProofs!EmptyQueue, Queue!Job, QueueProofs!Job, Queue!EmptyTable, QueueProofs!EmptyTable,
       Queue!Absent, QueueProofs!Absent, Queue!NewRow, QueueProofs!NewRow, Queue!NoEdit,
       QueueProofs!NoEdit

LEMMA QueuePostInbound == \A m : Queue!PostInbound(m) <=> QueueProofs!PostInbound(m)
BY DEF Queue!PostInbound, QueueProofs!PostInbound, Queue!Absent, QueueProofs!Absent

LEMMA QueueEnqueuePosted == \A m : Queue!EnqueuePosted(m) <=> QueueProofs!EnqueuePosted(m)
BY DEF Queue!EnqueuePosted, QueueProofs!EnqueuePosted, Queue!NewJob, QueueProofs!NewJob, Queue!Put,
       QueueProofs!Put

LEMMA QueueEnqueueFails == \A m : Queue!EnqueueFails(m) <=> QueueProofs!EnqueueFails(m)
BY DEF Queue!EnqueueFails, QueueProofs!EnqueueFails, Queue!Fault, QueueProofs!Fault

LEMMA QueueEnqueueListed == \A m : Queue!EnqueueListed(m) <=> QueueProofs!EnqueueListed(m)
BY DEF Queue!EnqueueListed, QueueProofs!EnqueueListed, Queue!NewJob, QueueProofs!NewJob, Queue!Put,
       QueueProofs!Put

LEMMA QueueProcessPending == Queue!ProcessPending <=> QueueProofs!ProcessPending
BY DEF Queue!ProcessPending, QueueProofs!ProcessPending

LEMMA QueueApiCrash == Queue!ApiCrash <=> QueueProofs!ApiCrash
BY DEF Queue!ApiCrash, QueueProofs!ApiCrash, Queue!IdleRun, QueueProofs!IdleRun, Queue!Attached,
       QueueProofs!Attached, Queue!Cardinality, QueueProofs!Cardinality, Queue!Job, QueueProofs!Job,
       Queue!Fault, QueueProofs!Fault

LEMMA QueueStartJob == \A r, job : Queue!StartJob(r, job) <=> QueueProofs!StartJob(r, job)
BY DEF Queue!StartJob, QueueProofs!StartJob, Queue!NoDraft, QueueProofs!NoDraft, Queue!Take,
       QueueProofs!Take, Queue!Attached, QueueProofs!Attached

LEMMA QueueReadInbound == \A r : Queue!ReadInbound(r) <=> QueueProofs!ReadInbound(r)
BY DEF Queue!ReadInbound, QueueProofs!ReadInbound, Queue!Return, QueueProofs!Return, Queue!IdleRun,
       QueueProofs!IdleRun, Queue!Goto, QueueProofs!Goto, Queue!MsgOf, QueueProofs!MsgOf

LEMMA QueueClaim == \A r : Queue!Claim(r) <=> QueueProofs!Claim(r)
BY DEF Queue!Claim, QueueProofs!Claim, Queue!Goto, QueueProofs!Goto, Queue!MsgOf, QueueProofs!MsgOf

LEMMA QueueCompose == \A r, next : Queue!Compose(r, next) <=> QueueProofs!Compose(r, next)
BY DEF Queue!Compose, QueueProofs!Compose, Queue!Goto, QueueProofs!Goto, Queue!Fault, QueueProofs!Fault,
       Queue!InsertOutboundDraft, QueueProofs!InsertOutboundDraft, Queue!NewRow, QueueProofs!NewRow,
       Queue!NoEdit, QueueProofs!NoEdit, Queue!MsgOf, QueueProofs!MsgOf, Queue!DraftsOf,
       QueueProofs!DraftsOf, Queue!Absent, QueueProofs!Absent, Queue!Cardinality, QueueProofs!Cardinality

LEMMA QueueSupersede == \A r : Queue!Supersede(r) <=> QueueProofs!Supersede(r)
BY DEF Queue!Supersede, QueueProofs!Supersede, Queue!Answered, QueueProofs!Answered, Queue!Goto,
       QueueProofs!Goto, Queue!Fault, QueueProofs!Fault, Queue!RejectSupersededDraftsForThread,
       QueueProofs!RejectSupersededDraftsForThread, Queue!Rejected, QueueProofs!Rejected,
       Queue!Superseded, QueueProofs!Superseded

LEMMA QueueFinish == \A r : Queue!Finish(r) <=> QueueProofs!Finish(r)
BY DEF Queue!Finish, QueueProofs!Finish, Queue!Answered, QueueProofs!Answered, Queue!Goto,
       QueueProofs!Goto, Queue!Fault, QueueProofs!Fault, Queue!MsgOf, QueueProofs!MsgOf

LEMMA QueueEnqueueEnrichment == \A r : Queue!EnqueueEnrichment(r) <=> QueueProofs!EnqueueEnrichment(r)
BY DEF Queue!EnqueueEnrichment, QueueProofs!EnqueueEnrichment, Queue!Return, QueueProofs!Return,
       Queue!IdleRun, QueueProofs!IdleRun, Queue!Fault, QueueProofs!Fault, Queue!MsgOf, QueueProofs!MsgOf

LEMMA QueueStepFails == \A r : Queue!StepFails(r) <=> QueueProofs!StepFails(r)
BY DEF Queue!StepFails, QueueProofs!StepFails, Queue!Goto, QueueProofs!Goto, Queue!Fault,
       QueueProofs!Fault

LEMMA QueueMarkFailed == \A r : Queue!MarkFailed(r) <=> QueueProofs!MarkFailed(r)
BY DEF Queue!MarkFailed, QueueProofs!MarkFailed, Queue!Return, QueueProofs!Return, Queue!IdleRun,
       QueueProofs!IdleRun, Queue!MsgOf, QueueProofs!MsgOf

LEMMA QueueThrows == \A r : Queue!Throws(r) <=> QueueProofs!Throws(r)
BY DEF Queue!Throws, QueueProofs!Throws, Queue!Return, QueueProofs!Return, Queue!IdleRun,
       QueueProofs!IdleRun, Queue!Retry, QueueProofs!Retry, Queue!Put, QueueProofs!Put, Queue!MsgOf,
       QueueProofs!MsgOf, Queue!Fault, QueueProofs!Fault

LEMMA QueueExpire == \A r : Queue!Expire(r) <=> QueueProofs!Expire(r)
BY DEF Queue!Expire, QueueProofs!Expire, Queue!MsgOf, QueueProofs!MsgOf, Queue!Retry, QueueProofs!Retry,
       Queue!Put, QueueProofs!Put, Queue!Fault, QueueProofs!Fault

LEMMA QueueOrphanExpires == \A job : Queue!OrphanExpires(job) <=> QueueProofs!OrphanExpires(job)
BY DEF Queue!OrphanExpires, QueueProofs!OrphanExpires, Queue!Retry, QueueProofs!Retry, Queue!Put,
       QueueProofs!Put, Queue!Take, QueueProofs!Take

LEMMA QueueNext == Queue!Next <=> QueueProofs!Next
BY QueuePostInbound, QueueEnqueuePosted, QueueEnqueueFails, QueueEnqueueListed, QueueProcessPending,
   QueueApiCrash, QueueStartJob, QueueReadInbound, QueueClaim, QueueCompose, QueueSupersede, QueueFinish,
   QueueEnqueueEnrichment, QueueStepFails, QueueMarkFailed, QueueThrows, QueueExpire, QueueOrphanExpires
   DEF Queue!Next, QueueProofs!Next, Queue!Api, QueueProofs!Api, Queue!RunStep, QueueProofs!RunStep,
       Queue!Job, QueueProofs!Job

-----------------------------------------------------------------------------
\* A behaviour is of one part: the others stay as they began.
PartsIInv ==
  /\ part = "hooks" => HooksIInv
  /\ part = "token" => TokenIInv
  /\ part = "queue" => QueueProofs!IInv

LEMMA PartsInitIInv == InboundInit => PartsIInv
BY HooksInitIInv, TokenInitIInv, QueueInit, QueueIInvStarts DEF InboundInit, PartsIInv

LEMMA PartsStepKeepsIInv == PartsIInv /\ [InboundNext]_all => PartsIInv'
<1> SUFFICES ASSUME PartsIInv, [InboundNext]_all PROVE PartsIInv'
  OBVIOUS
<1>1. part' = part
  BY DEF InboundNext, all
<1>2. CASE part = "hooks"
  <2>1. [Hooks!Next]_(Hooks!vars)
    BY <1>2 DEF InboundNext, all, hookVars, Hooks!vars
  <2> QED BY <1>1, <1>2, <2>1, HooksStepKeepsIInv DEF PartsIInv
<1>3. CASE part = "token"
  <2>1. [Token!Next]_(Token!vars)
    BY <1>3 DEF InboundNext, all, tokenVars, Token!vars
  <2> QED BY <1>1, <1>3, <2>1, TokenIInvStep DEF PartsIInv
<1>4. CASE part = "queue"
  <2>1. [QueueProofs!Next]_(QueueProofs!vars)
    BY <1>4, QueueNext DEF InboundNext, all, queueVars, QueueProofs!vars
  <2> QED BY <1>1, <1>4, <2>1, QueueIInvStays DEF PartsIInv
<1> QED BY <1>1, <1>2, <1>3, <1>4 DEF PartsIInv

LEMMA PartsHoldIInv == InboundSpec => []PartsIInv
BY PartsInitIInv, PartsStepKeepsIInv, PTL DEF InboundSpec

\* A service is told that a message was taken only when its row is there, a message has no
\* more rows than deliveries, those a refusal brought included, and once polling has ended
\* by itself the connection is shown to be down (startTelegram, the webhooks).
THEOREM GatewaysAreTrueHolds == InboundSpec => []GatewaysAreTrue
<1>1. PartsIInv => GatewaysAreTrue
  BY HooksIInvIsTrue DEF PartsIInv, GatewaysAreTrue
<1> QED BY <1>1, PartsHoldIInv, PTL

\* A token from the cache is valid for the margin from when it is handed out, whichever of
\* several answers was kept (WeComAccessTokenCache.get).
THEOREM CachedTokensServeHolds == InboundSpec => []CachedTokensServe
<1>1. PartsIInv => CachedTokensServe
  BY DEF PartsIInv, CachedTokensServe, Token!CachedTokensServe, TokenIInv, TokenCurrentIsGranted,
         TokenCallsAreGranted, TokenGranted
<1> QED BY <1>1, PartsHoldIInv, PTL

\* A message that is DONE has a draft beside which no older one of its thread is left to
\* review, whatever is retried, expires or crashes (processInboundJob).
THEOREM DoneIsAnsweredHolds == InboundSpec => []DoneIsAnswered
<1>1. PartsIInv => DoneIsAnswered
  BY QueueIInvAnswers DEF PartsIInv, DoneIsAnswered
<1> QED BY <1>1, PartsHoldIInv, PTL
=============================================================================
