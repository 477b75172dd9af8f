----------------------------- MODULE MemoryIngest -----------------------------
(***************************************************************************)
(* What comes into the memory of a user without a message: mail and Slack  *)
(* channels read through OAuth accounts (oauth-ingest.ts) and what a       *)
(* desktop client saw of a chat, with an analysis and a suggested reply by *)
(* a model (api-listener.ts, openrouter-assist.ts); and what a draft reads *)
(* of it (postgres-memory.ts).  Chunks are inserted one by one, without a  *)
(* transaction.  One user with an account at one provider is modelled;     *)
(* threads stay shorter than the 5000 rows that are read of one.           *)
(***************************************************************************)
EXTENDS Naturals, Sequences, FiniteSets

CONSTANTS
  Ingests, Callbacks,   \* requests, each sent once
  Chats,                \* threads of desktop clients
  Bundles,              \* what a model answers: a message it read, an analysis, a reply
  MaxRequests, MaxMessages, MaxFaults

VARIABLES
  provider,
  account,    \* oauth_accounts: the grants its access and refresh tokens are of
  callback,
  grants,     \* grants so far
  refused,    \* grants whose access token has expired or was revoked
  crossed,    \* two callbacks had tokens to store at a time
  chunks,     \* memory_chunks, oldest first
  told,       \* the ingest.completed events, with what they count
  ingest,
  draft,      \* what a draft reads
  faults

accounts == <<provider, account, callback, grants, crossed>>
memory   == <<chunks, told, ingest, draft>>
vars == <<accounts, refused, memory, faults>>

None == 0

Init ==
  /\ provider \in {"google_gmail", "slack"}
  /\ account = [access |-> None, refresh |-> None]
  /\ callback = [c \in Callbacks |-> [at |-> "idle", grant |-> None, renews |-> FALSE]]
  /\ grants = 0 /\ refused = {} /\ crossed = FALSE
  /\ chunks = <<>> /\ told = {}
  /\ ingest = [i \in Ingests |-> [does |-> "idle", at |-> "idle", thread |-> "", token |-> None,
                                  left |-> 0, contents |-> <<>>, stored |-> 0]]
  /\ draft = [thread |-> "", quoted |-> {}, answered |-> {}]
  /\ faults = 0

Begun ==
  Cardinality({c \in Callbacks : callback[c].at # "idle"})
  + Cardinality({i \in Ingests : ingest[i].at # "idle"})

Fault == faults < MaxFaults /\ faults' = faults + 1

-----------------------------------------------------------------------------
\* The user agrees at the provider, which sends the browser back with a code.
Consent(c) ==
  /\ callback[c].at = "idle" /\ Begun < MaxRequests
  /\ callback' = [callback EXCEPT ![c].at = "exchange"]
  /\ UNCHANGED <<provider, account, grants, crossed, refused, memory, faults>>

\* The callback exchanges the code for an access token and, with some grants, a
\* refresh token.
ExchangeCode(c) ==
  /\ callback[c].at = "exchange"
  /\ grants' = grants + 1
  /\ \E renews \in BOOLEAN :
       callback' = [callback EXCEPT ![c].at = "store", ![c].grant = grants + 1, ![c].renews = renews]
  /\ crossed' = (crossed \/ \E d \in Callbacks : callback[d].at = "store")
  /\ UNCHANGED <<provider, account, refused, memory, faults>>

Stores(c, refresh) ==
  /\ callback[c].at = "store"
  /\ account' = [access |-> callback[c].grant, refresh |-> refresh]
  /\ callback' = [callback EXCEPT ![c].at = "connected"]
  /\ UNCHANGED <<provider, grants, crossed, refused, memory, faults>>

\* upsertOAuthAccount keeps the refresh token when the grant brought none.
StoreAccount(c) ==
  Stores(c, IF callback[c].renews THEN callback[c].grant ELSE account.refresh)

\* The exchange is refused, or a statement fails.
CallbackFails(c) ==
  /\ callback[c].at \in {"exchange", "store"} /\ Fault
  /\ callback' = [callback EXCEPT ![c].at = "failed"]
  /\ UNCHANGED <<provider, account, grants, crossed, refused, memory>>

\* Nothing renews an access token.
TokenExpires ==
  /\ Fault
  /\ \E g \in 1..grants : g \notin refused /\ refused' = refused \cup {g}
  /\ UNCHANGED <<accounts, memory>>

-----------------------------------------------------------------------------
Sets(i, r) ==
  /\ ingest' = [ingest EXCEPT ![i] = r]
  /\ UNCHANGED <<accounts, refused, chunks, told, draft>>

\* POST /mirachat/ingest/gmail and /slack, whose threads are of their own; without
\* an account they end.
StartImport(i) ==
  /\ ingest[i].at = "idle" /\ Begun < MaxRequests
  /\ Sets(i, [ingest[i] EXCEPT !.does = "import", !.thread = provider, !.token = account.access,
                               !.at = IF account.access = None THEN "failed" ELSE "list"])
  /\ UNCHANGED faults

Lines(n) == [k \in 1..n |-> "line"]

\* The list of mails; the history of a channel comes with its texts.
ListMessages(i) ==
  /\ ingest[i].at = "list"
  /\ IF ingest[i].token \in refused THEN Sets(i, [ingest[i] EXCEPT !.at = "failed"])
     ELSE \E n \in 0..MaxMessages :
            Sets(i, IF provider = "slack" THEN [ingest[i] EXCEPT !.at = "store", !.contents = Lines(n)]
                    ELSE [ingest[i] EXCEPT !.at = IF n = 0 THEN "store" ELSE "fetch", !.left = n])
  /\ UNCHANGED faults

Gets(i, line) ==
  Sets(i, [ingest[i] EXCEPT !.left = @ - 1, !.contents = Append(@, line),
                            !.at = IF ingest[i].left = 1 THEN "store" ELSE "fetch"])

\* Whether the mail was given is not looked at: a refusal makes a blank line.
FetchMail(i) ==
  /\ ingest[i].at = "fetch"
  /\ \/ Gets(i, IF ingest[i].token \in refused THEN "blank" ELSE "line") /\ UNCHANGED faults
     \/ Gets(i, "blank") /\ Fault

-----------------------------------------------------------------------------
\* What a desktop client may have seen of a chat: something of it (a summary, hints, notes
\* or a picture), its text, and what is garbled, like a picture of no kind that
\* parseScreenshotImageBase64Field knows.
Sights == {"something", "text", "garbled"}

\* parseDesktopContextIngestRequest: something must have been seen.
Acceptable(seen) == seen # {} /\ "garbled" \notin seen

\* buildDesktopContextMemoryChunks: where it was seen with what was made of it, then the
\* text.
ContextChunks(seen) == Lines(IF "text" \in seen THEN 2 ELSE 1)

\* POST /mirachat/ingest/desktop-context: the model is asked when the client wants it and
\* there is a key.
StartDesktop(i, thread) ==
  /\ ingest[i].at = "idle" /\ Begun < MaxRequests
  /\ \E seen \in SUBSET Sights, asks \in BOOLEAN :
       Sets(i, IF ~Acceptable(seen) THEN [ingest[i] EXCEPT !.at = "failed"]
               ELSE [ingest[i] EXCEPT !.does = "desktop", !.thread = thread,
                                      !.contents = ContextChunks(seen),
                                      !.at = IF asks THEN "ask" ELSE "store"])
  /\ UNCHANGED faults

\* What is no JSON object is an analysis whole; no answer, a late one or a refusal is
\* nothing.
Takes(i, bundle) ==
  /\ Sets(i, [ingest[i] EXCEPT !.at = "store", !.contents = @ \o bundle])
  /\ UNCHANGED faults

\* A model that refuses to answer in JSON is asked once more without.
AskModel(i) ==
  \/ ingest[i].at \in {"ask", "again"} /\ \E b \in Bundles : Takes(i, b)
  \/ /\ ingest[i].at = "ask" /\ Fault
     /\ Sets(i, [ingest[i] EXCEPT !.at = "again"])

-----------------------------------------------------------------------------
\* insertMemoryChunks.
InsertChunk(i) ==
  /\ ingest[i].at = "store" /\ ingest[i].stored < Len(ingest[i].contents)
  /\ chunks' = Append(chunks, [ingest |-> i, thread |-> ingest[i].thread,
                               says |-> ingest[i].contents[ingest[i].stored + 1]])
  /\ ingest' = [ingest EXCEPT ![i].stored = @ + 1]
  /\ UNCHANGED <<accounts, refused, told, draft, faults>>

\* The event counts what was inserted.  Of an import it is not awaited, and its
\* failure is passed over.
Complete(i) ==
  /\ ingest[i].at = "store" /\ ingest[i].stored = Len(ingest[i].contents)
  /\ ingest' = [ingest EXCEPT ![i].at = "answered"]
  /\ \/ /\ told' = told \cup {[ingest |-> i, count |-> ingest[i].stored]}
        /\ UNCHANGED faults
     \/ ingest[i].does # "desktop" /\ Fault /\ UNCHANGED told
  /\ UNCHANGED <<accounts, refused, chunks, draft>>

\* A call or a statement fails, that of the profiles and of the event after the chunks
\* too: 500, and what was stored stays.
IngestFails(i) ==
  /\ ingest[i].at \in {"list", "fetch", "ask", "again", "store"} /\ Fault
  /\ Sets(i, [ingest[i] EXCEPT !.at = "failed"])

-----------------------------------------------------------------------------
Says(thread, what) == {k \in DOMAIN chunks : chunks[k].thread = thread /\ chunks[k].says = what}
InThread(thread) == {k \in DOMAIN chunks : chunks[k].thread = thread}

\* Mutant: no suggested reply is quoted, not the latest either.
QuotedWithout(thread) == InThread(thread) \ Says(thread, "reply")

\* The latest suggested reply leads; the imported memory has all the rest, without
\* any suggested reply.
Quoted(thread) ==
  LET replies == Says(thread, "reply")
  IN  (InThread(thread) \ replies) \cup {k \in replies : \A other \in replies : other <= k}

\* getRecentMessages, and the prompt made of it.
ReadRecent(thread) ==
  /\ draft.thread = ""
  /\ draft' = [thread |-> thread, quoted |-> Quoted(thread),
               answered |-> {i \in Ingests : ingest[i].at = "answered"}]
  /\ UNCHANGED <<accounts, refused, chunks, told, ingest, faults>>

-----------------------------------------------------------------------------
Next ==
  \/ \E c \in Callbacks :
       \/ Consent(c) \/ ExchangeCode(c) \/ StoreAccount(c) \/ CallbackFails(c)
  \/ TokenExpires
  \/ \E i \in Ingests :
       \/ StartImport(i) \/ ListMessages(i) \/ FetchMail(i)
       \/ \E chat \in Chats : StartDesktop(i, chat)
       \/ AskModel(i) \/ InsertChunk(i) \/ Complete(i) \/ IngestFails(i)
  \/ \E chat \in Chats : ReadRecent(chat)

Spec == Init /\ [][Next]_vars

-----------------------------------------------------------------------------
\* The type of what is stored.
TypeOK ==
  /\ account \in [access : 0..grants, refresh : 0..grants]
  /\ grants \in Nat /\ refused \subseteq 1..grants /\ crossed \in BOOLEAN
  /\ \A k \in DOMAIN chunks : chunks[k].ingest \in Ingests
  /\ \A e \in told : e.ingest \in Ingests /\ e.count \in Nat
  /\ faults \in 0..MaxFaults

\* Who was told to be connected is, with tokens of that grant or a later one, and a
\* refresh token is never lost, unless two callbacks crossed.
AccountsAreLatest ==
  \A c \in Callbacks :
    callback[c].at = "connected" /\ ~crossed =>
      /\ account.access >= callback[c].grant
      /\ callback[c].renews => account.refresh >= callback[c].grant

StoredBy(i) == {k \in DOMAIN chunks : chunks[k].ingest = i}

\* An ingest that was answered is stored whole and in order, however many run; one that
\* failed has left a first part.  The event counts what is there.
StoredIsTold ==
  /\ \A i \in Ingests :
       /\ \A k \in StoredBy(i) :
            LET nth == Cardinality({j \in StoredBy(i) : j <= k})
            IN  nth <= Len(ingest[i].contents) /\ chunks[k].says = ingest[i].contents[nth]
       /\ ingest[i].at = "answered" => Cardinality(StoredBy(i)) = Len(ingest[i].contents)
  /\ \A e \in told : e.count = Cardinality(StoredBy(e.ingest))

\* A line without text comes of a mail that was refused after the list was given.
BlanksAreRefusals ==
  \A k \in DOMAIN chunks : chunks[k].says = "blank" =>
    ingest[chunks[k].ingest].token \in refused \/ faults > 0

\* A draft quotes its own thread; of the replies that were suggested it has one, and no
\* older one than any of an ingest that had been answered.
SuggestionIsLatest ==
  /\ \A k \in draft.quoted : chunks[k].thread = draft.thread
  /\ \A i \in draft.answered, k \in DOMAIN chunks :
       /\ chunks[k].ingest = i /\ chunks[k].thread = draft.thread /\ chunks[k].says = "reply"
       => \E quoted \in draft.quoted : quoted >= k /\ chunks[quoted].says = "reply"
  /\ \A k, other \in draft.quoted : chunks[k].says = "reply" /\ chunks[other].says = "reply" => k = other

MemoryIsTold == AccountsAreLatest /\ StoredIsTold /\ BlanksAreRefusals /\ SuggestionIsLatest
=============================================================================
