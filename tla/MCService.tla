------------------------------ MODULE MCService ------------------------------
(***************************************************************************)
(* What comes of a message at the API, for TLC: the inbound pipeline, how  *)
(* one reply is written and judged, and what is known for it: the profiles *)
(* and what is ingested into memory, with the pages that show it.  The     *)
(* second is inside a single step of the pipeline (Compose); the others    *)
(* are rows of different tables.  A behaviour is of one of them.           *)
(***************************************************************************)
EXTENDS MCInboundPipeline, Sequences

CONSTANTS
  MaxChanges,                                                  \* of Drafting
  Requests, Hints, Notes, Boundaries, Default, Cap,
  MaxRequests, MaxFailures,                                    \* of Profiles
  Imports, Callbacks, Chats, Bundles,
  MaxImports, MaxMessages, MaxRefusals,                        \* of MemoryIngest
  Places, All, Matches, ThreadLimit, SearchLimit, ListLimit,
  DraftLimit, MemoryLimit, MaxRows, MaxWrites                  \* of ThreadViews

\* The list of style hints, a transcript, a search and a list of drafts have room for
\* something.
ASSUME LimitsAreRooms == {Cap, ThreadLimit, SearchLimit, DraftLimit} \subseteq Nat \ {0}

\* What a model answers becomes lines and suggested replies.
ASSUME BundlesAreLines == Bundles \subseteq Seq({"line", "reply"})

VARIABLES
  part,    \* "pipeline", "drafting", "profiles", "ingest" or "views"
  allow, kind, message, risk, pc, seen, attended, reply, judge, verdict, options, summary, changes,
  style, rows, notes, auto, memory, logged, request,
  promised, notesPromised, wanted, raced, modesRaced, started, failures,
  provider, account, callback, grants, refused, crossed, chunks, counted, ingest, prompt, refusals,
  written, writes, aged, page

Reply == INSTANCE Drafting WITH decision <- verdict

Profile == INSTANCE Profiles

Ingests == INSTANCE MemoryIngest WITH
  Ingests <- Imports, MaxRequests <- MaxImports, MaxFaults <- MaxRefusals,
  told <- counted, draft <- prompt, faults <- refusals

Views == INSTANCE ThreadViews WITH rows <- written, now <- writes

replyVars == <<allow, kind, message, risk, pc, seen, attended, reply, judge, verdict, options, summary,
               changes>>

profileVars == <<style, rows, notes, auto, memory, logged, request,
                 promised, notesPromised, wanted, raced, modesRaced, started, failures>>
ingestVars == <<provider, account, callback, grants, refused, crossed, chunks, counted, ingest,
                prompt, refusals>>
viewVars == <<written, writes, aged, page>>
all == <<part, vars, replyVars, profileVars, ingestVars, viewVars>>

\* Of the answers of a model only a suggested reply is told from any other line.  A part
\* that is not at play starts in one state.
ServiceInit ==
  /\ part \in {"pipeline", "drafting", "profiles", "ingest", "views"}
  /\ Profile!Init /\ (part # "profiles" => style = <<>> /\ rows = {})
  /\ Ingests!Init /\ (part # "ingest" => provider = "slack")
  /\ Init /\ Views!Init /\ Reply!Init
  /\ part # "drafting" => /\ kind = "inbound" /\ risk = "low" /\ allow.any /\ allow.key
                          /\ ~allow.twilio /\ ~allow.primary /\ message.domain = "general" /\ message.ack
                          /\ ~message.group /\ ~message.twilio
  /\ message.twilio => kind = "inbound"   \* its messages come by the API
  /\ allow.primary => allow.key           \* what is not looked at has one value
  /\ allow.twilio => allow.any /\ message.twilio
  /\ kind = "assist" => allow.any /\ ~message.group

ServiceNext ==
  /\ \/ part = "pipeline" /\ Next /\ UNCHANGED <<replyVars, profileVars, ingestVars, viewVars>>
     \/ part = "drafting" /\ Reply!Next /\ UNCHANGED <<vars, profileVars, ingestVars, viewVars>>
     \/ part = "profiles" /\ Profile!Next /\ UNCHANGED <<vars, replyVars, ingestVars, viewVars>>
     \/ part = "ingest" /\ Ingests!Next /\ UNCHANGED <<vars, replyVars, profileVars, viewVars>>
     \/ part = "views" /\ Views!Next /\ UNCHANGED <<vars, replyVars, profileVars, ingestVars>>
  /\ UNCHANGED part

ServiceSpec == ServiceInit /\ [][ServiceNext]_all

-----------------------------------------------------------------------------
\* Values of constants for TLC: two threads, each met in a session of its own, and a model
\* that answers with nothing or with a reply.
TwoPlaces  == {<<"a", "wechat">>, <<"b", "telegram">>}
TwoBundles == {<<>>, <<"reply">>}

\* What Profiles promises of concurrent reads and writes of a profile, and MemoryIngest
\* of accounts, of chunks and of what a draft quotes of them; and what ThreadViews promises
\* of the pages that show them.
KnowledgeIsKept ==
  /\ part = "profiles" => Profile!ProfilesAreKept
  /\ part = "ingest" => Ingests!MemoryIsTold
  /\ part = "views" => Views!ViewsAgree

\* What Drafting promises of a reply that is sent unattended, blocked or reviewed.
RepliesAreJudged == part = "drafting" => Reply!RepliesAreJudged
=============================================================================
