------------------------------ MODULE ThreadViews ------------------------------
(***************************************************************************)
(* What the API shows of a user's messages, drafts and memory: the list of *)
(* threads, the transcript of one, the drafts to be reviewed, the imported *)
(* memory, and the search (repos.ts, postgres-memory.ts).  Each view is a  *)
(* SELECT of its own over the three tables, with its own choice of rows    *)
(* and its own limit; the search is two, one after the other.  Between the *)
(* reads of a page the worker, the operator and the gateways go on.        *)
(*                                                                         *)
(* Rows are numbered in the order they are created; no row is ever deleted.*)
(* Of a text only is told whether it has the word that is searched for, or *)
(* has it only as a part of another.  A behaviour has one read.            *)
(***************************************************************************)
EXTENDS Naturals, Sequences, FiniteSets

CONSTANTS
  Places,              \* threads, with the sessions (channel and account) they are met in
  All,                 \* instead of a session or a thread
  Matches,             \* how the texts match: "word", "part" or "none"
  ThreadLimit, SearchLimit, ListLimit, DraftLimit, MemoryLimit,  \* rows that are read
  MaxRows, MaxWrites

Threads  == {place[1] : place \in Places}
Sessions == {place[2] : place \in Places}

VARIABLES
  rows,   \* inbound_messages, outbound_drafts and memory_chunks
  now,    \* writes so far
  aged,   \* rows that are older than a day
  page    \* what was read: previews of threads, a transcript, or hits

vars == <<rows, now, aged, page>>

NoPage  == [reads |-> "nothing", of |-> All, previews |-> {}, said |-> {}, hits |-> {}, before |-> {}]

Init ==
  /\ rows = <<>> /\ now = 0 /\ aged = {} /\ page = NoPage

-----------------------------------------------------------------------------
\* Writes.  Every statement stamps its row with the time.
Writes == now < MaxWrites /\ now' = now + 1 /\ UNCHANGED page

Row(kind, thread, session, status, match) ==
  [kind |-> kind, thread |-> thread, session |-> session, status |-> status, match |-> match,
   at |-> now']

Creates(row) == Len(rows) < MaxRows /\ rows' = Append(rows, row) /\ UNCHANGED aged

\* ingestInboundMessage: into the thread that the gateway named.
Arrive(place, match) ==
  /\ Writes /\ Creates(Row("inbound", place[1], place[2], "received", match))

\* insertOutboundDraft: the reply to a message, in its thread and session.
Compose(i, status, match) ==
  /\ Writes /\ rows[i].kind = "inbound"
  /\ Creates(Row("draft", rows[i].thread, rows[i].session, status, match))

\* insertMemoryChunks.
Remember(thread, match) ==
  /\ Writes /\ Creates(Row("memory", thread, All, "stored", match))

Changes(i, from, to) ==
  /\ Writes /\ rows[i].kind = "draft" /\ rows[i].status \in from /\ UNCHANGED aged
  /\ rows' = [rows EXCEPT ![i].status = to, ![i].at = now']

\* The operator decides; with a doer it is sent at once.  A text of his own takes the
\* place of the draft's, which no view has shown as said; the match is that of the text
\* the row has in the end.
Triage(i) == \E to \in {"APPROVED", "SENT", "REJECTED"} : Changes(i, {"DRAFTED"}, to)

\* markOutboundSent; markOutboundSendFailed, which leaves it approved for a while.
Deliver(i) == \E to \in {"SENT", "APPROVED", "FAILED"} : Changes(i, {"APPROVED"}, to)

DayPasses ==
  /\ rows # <<>> /\ aged = {} /\ aged' = DOMAIN rows   \* once
  /\ UNCHANGED <<rows, now, page>>

-----------------------------------------------------------------------------
\* ORDER BY the time DESC LIMIT n.
Newest(S, n) == {i \in S : Cardinality({j \in S : rows[j].at > rows[i].at}) < n}

Of(kind)   == {i \in DOMAIN rows : rows[i].kind = kind}
In(thread) == {i \in DOMAIN rows : rows[i].thread = thread}

\* What getRecentMessages unites: messages, drafts but for those that are decided and
\* not delivered, and the memory of the thread.
Transcribed(thread) ==
  {i \in In(thread) : rows[i].kind = "draft" => rows[i].status \in {"SENT", "REJECTED", "DRAFTED"}}
Transcript(thread) == Newest(Transcribed(thread), ThreadLimit)

\* How the transcript says whose a row is.
Direction(i) ==
  IF rows[i].kind # "draft" THEN "inbound"
  ELSE IF rows[i].status = "SENT" THEN "outbound" ELSE "draft_reference"

\* listThreadSummariesForUser and ...ForSession: every message and every draft counts;
\* the newest of a thread is its preview.
Activity(session) ==
  {i \in DOMAIN rows : rows[i].kind # "memory" /\ session \in {All, rows[i].session}}
Previews(session) ==
  {i \in Activity(session) : \A j \in Activity(session) \cap In(rows[i].thread) : rows[j].at <= rows[i].at}
ThreadSummaries(session) ==
  {[thread |-> rows[i].thread, preview |-> i, count |-> Cardinality(Activity(session) \cap In(rows[i].thread))] :
     i \in Newest(Previews(session), ListLimit)}

\* listDraftedOutboundTriage, of the session or the user: by their creation, for a day.
DraftsToReview(session) ==
  LET listed == {i \in Activity(session) \ aged : rows[i].status \in {"DRAFTED", "REJECTED", "APPROVED"}}
  IN  {i \in listed : Cardinality({j \in listed : j > i}) < DraftLimit}

\* listMemoryChunksForUser.
MemoryChunks(thread) ==
  Newest(Of("memory") \cap (IF thread = All THEN DOMAIN rows ELSE In(thread)), MemoryLimit)

-----------------------------------------------------------------------------
Reads(read) == page = NoPage /\ page' = read /\ UNCHANGED <<rows, now, aged>>

\* GET /mirachat/threads, /mirachat/thread and /mirachat/memory.
ReadThreads(session) ==
  Reads([NoPage EXCEPT !.reads = "threads", !.previews = {s.preview : s \in ThreadSummaries(session)}])

ReadThread(thread) ==
  Reads([NoPage EXCEPT !.reads = "thread",
                       !.said = {[row |-> i, direction |-> Direction(i)] : i \in Transcript(thread)}])

ReadMemory(thread) ==
  Reads([NoPage EXCEPT !.reads = "memory", !.hits = MemoryChunks(thread)])

\* Mutant: drafts are searched whether they were sent or not.
SearchableAll(thread) == {i \in DOMAIN rows : thread \in {All, rows[i].thread}}

\* What is searched: messages, memory and what was sent; of one thread or of all.
Searchable(thread) ==
  {i \in DOMAIN rows : /\ thread \in {All, rows[i].thread}
                       /\ rows[i].kind = "draft" => rows[i].status = "SENT"}
Having(thread, matches) == {i \in Searchable(thread) : rows[i].match \in matches}

\* The best of them, by a rank that the texts decide.
Best(S) ==
  {T \in SUBSET S : Cardinality(T) = IF Cardinality(S) < SearchLimit THEN Cardinality(S) ELSE SearchLimit}

\* searchMessages, of at least one term of two letters: the word, by the index; if no
\* row has it, any part, in a second statement.
SearchWords(thread) ==
  \E found \in Best(Having(thread, {"word"})) :
    Reads([NoPage EXCEPT !.reads = IF found = {} THEN "parts" ELSE "search", !.of = thread,
                         !.hits = found, !.before = Having(thread, {"word", "part"})])

SearchParts ==
  /\ page.reads = "parts"
  /\ \E found \in Best(Having(page.of, {"word", "part"})) :
       page' = [page EXCEPT !.reads = "search", !.hits = found]
  /\ UNCHANGED <<rows, now, aged>>

-----------------------------------------------------------------------------
Next ==
  \/ \E match \in Matches : \/ \E place \in Places : Arrive(place, match)
                           \/ \E thread \in Threads : Remember(thread, match)
  \/ \E i \in DOMAIN rows :
       \/ \E status \in {"DRAFTED", "APPROVED", "REJECTED"}, match \in Matches : Compose(i, status, match)
       \/ Triage(i) \/ Deliver(i)
  \/ DayPasses
  \/ \E session \in Sessions \cup {All} : ReadThreads(session)
  \/ \E thread \in Threads : ReadThread(thread)
  \/ \E thread \in Threads \cup {All} : ReadMemory(thread) \/ SearchWords(thread)
  \/ SearchParts

Spec == Init /\ [][Next]_vars

-----------------------------------------------------------------------------
\* The type of what is stored and of what was read.
TypeOK ==
  /\ now \in 0..MaxWrites /\ aged \subseteq DOMAIN rows
  /\ \A i \in DOMAIN rows :
       rows[i] \in [kind : {"inbound", "draft", "memory"}, thread : Threads, session : Sessions \cup {All},
                    status : {"received", "stored", "DRAFTED", "APPROVED", "REJECTED", "SENT", "FAILED"},
                    match : Matches, at : 1..now]
  /\ page.previews \cup page.hits \cup page.before \subseteq DOMAIN rows

\* A row that a view leaves out because newer ones fill it.
PushedOut(i) == Cardinality({j \in Transcribed(rows[i].thread) : rows[j].at > rows[i].at}) >= ThreadLimit
Shown(i) == i \in Transcript(rows[i].thread)

\* What a page showed as said is said for good: it never becomes a draft that is
\* only referred to, however old the page.
SaidForGood ==
  \A s \in page.said : s.direction # "draft_reference" => Direction(s.row) = s.direction

\* A thread that was listed has something to show when it is opened, and what its
\* preview was of is there, unless it was decided meanwhile and waits for its delivery,
\* or newer rows have pushed it out.
ListedIsThere ==
  \A i \in page.previews :
    /\ Transcript(rows[i].thread) # {}
    /\ Shown(i) \/ PushedOut(i) \/ rows[i].status \in {"APPROVED", "FAILED"}

\* A draft that no view shows was given up by its gateway, or waits for one for more
\* than a day, if not for the limits.
DraftsAreSeen ==
  \A i \in Of("draft") :
    \/ Shown(i) \/ PushedOut(i)
    \/ i \in DraftsToReview(All) \/ Cardinality({j \in Of("draft") : j > i}) >= DraftLimit
    \/ rows[i].status = "FAILED"
    \/ rows[i].status = "APPROVED" /\ i \in aged

\* What a search or the memory page shows is found again in its thread, and nothing of
\* it is a draft that was not sent.
FoundIsThere ==
  \A i \in page.hits :
    (Shown(i) \/ PushedOut(i)) /\ Direction(i) # "draft_reference"

\* A search that comes back with nothing has missed nothing that was there when it
\* began.
NothingIsMissed ==
  page.reads = "search" /\ page.hits = {} => page.before = {}

ViewsAgree == SaidForGood /\ ListedIsThere /\ DraftsAreSeen /\ FoundIsThere /\ NothingIsMissed
=============================================================================
