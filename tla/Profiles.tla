------------------------------- MODULE Profiles --------------------------------
(***************************************************************************)
(* What the API keeps of a user and of the user's contacts: the identity   *)
(* profile with its hard constraints and the relationship (postgres-       *)
(* identity.ts), as the routes of api-listener.ts read and write them.     *)
(* There are no transactions: every statement is a step, and a request may *)
(* die at any of them.  One user and one contact are modelled.             *)
(***************************************************************************)
EXTENDS Naturals, Sequences, SequencesExt

CONSTANTS
  Requests,      \* requests under way at a time
  Hints, Notes,  \* style hints and relationship notes
  Boundaries,    \* hard constraints
  Default,       \* those of defaultIdentity
  Cap,           \* 24 style hints; 40 notes
  MaxRequests, MaxFailures

VARIABLES
  style,         \* identity_profiles.style_guide
  rows,          \* hard_constraints
  notes, auto,   \* relationship_graph
  memory,        \* hints whose chunks are in memory_chunks
  logged,        \* the mode of the latest delegation_mode event
  request,
  \* and what is remembered for the properties:
  promised, notesPromised,  \* what an ingest said it had added
  wanted,        \* the constraints of the latest upsert
  raced,         \* an upsert was written over another it had not seen
  modesRaced,
  started, failures

stored  == <<style, rows, notes, auto, memory, logged>>
recalled == <<promised, notesPromised, wanted, raced, modesRaced>>
vars == <<stored, request, recalled, started, failures>>

Idle == [does |-> "idle", at |-> "idle", style |-> <<>>, bounds |-> {}, left |-> {},
         notes |-> {}, hint |-> {}, note |-> {}, mode |-> "off", stale |-> FALSE, notesStale |-> FALSE]

\* The user may be known from before.
Init ==
  /\ style \in SeqOf(Hints, 1) /\ rows \in SUBSET Boundaries /\ notes = {}
  /\ auto = FALSE /\ logged = "off" /\ memory = {}
  /\ request = [r \in Requests |-> Idle]
  /\ promised = ToSet(style) /\ notesPromised = notes /\ wanted = rows
  /\ raced = FALSE /\ modesRaced = FALSE
  /\ started = 0 /\ failures = 0

At(r, does, at) == request[r].does = does /\ request[r].at = at
Goes(r, at)     == request' = [request EXCEPT ![r].at = at]
Ends(r)         == request' = [request EXCEPT ![r] = Idle]

\* An upsert of the identity that has begun and not ended.
Upserting(r) == request[r].at \in {"delete", "insert"}

-----------------------------------------------------------------------------
Begins(r, what) ==
  /\ request[r] = Idle /\ started < MaxRequests /\ started' = started + 1
  /\ request' = [request EXCEPT ![r] = what]
  /\ UNCHANGED <<stored, promised, notesPromised, wanted, raced, failures>>

\* PUT /mirachat/identity and /mirachat/relationship: the body is the whole profile.
PutIdentity(r) ==
  /\ \E s \in SeqOf(Hints, 1), bounds \in SUBSET Boundaries :
       Begins(r, [Idle EXCEPT !.does = "put", !.at = "profile", !.style = s, !.bounds = bounds])
  /\ UNCHANGED modesRaced

PutRelationship(r) ==
  /\ \E ns \in SUBSET Notes :
       Begins(r, [Idle EXCEPT !.does = "put", !.at = "relationship", !.notes = ns])
  /\ UNCHANGED modesRaced

\* POST /mirachat/ingest/desktop-context, whose analysis by the model changes nothing here.
Ingest(r) ==
  /\ \E hint \in {{}} \cup {{h} : h \in Hints}, note \in {{}} \cup {{n} : n \in Notes} :
       Begins(r, [Idle EXCEPT !.does = "ingest", !.at = "memory", !.hint = hint, !.note = note])
  /\ UNCHANGED modesRaced

\* getIdentity for a draft, or GET /mirachat/identity.
Draft(r) ==
  /\ Begins(r, [Idle EXCEPT !.does = "draft", !.at = "readProfile",
                            !.stale = \E s \in Requests : Upserting(s)])
  /\ UNCHANGED modesRaced

\* POST /mirachat/delegation-mode.
DelegationMode(r) ==
  /\ \E mode \in {"auto", "off"} :
       Begins(r, [Idle EXCEPT !.does = "mode", !.at = "mode", !.mode = mode])
  /\ modesRaced' = (modesRaced \/ \E s \in Requests : request[s].does = "mode")

-----------------------------------------------------------------------------
\* The chunks of an ingest are inserted before anything else.
StoreMemory(r) ==
  /\ At(r, "ingest", "memory")
  /\ memory' = memory \cup request[r].hint
  /\ request' = [request EXCEPT ![r].at = "readProfile",
                                ![r].stale = \E s \in Requests : Upserting(s)]
  /\ UNCHANGED <<style, rows, notes, auto, logged, recalled, started, failures>>

\* getIdentity is two selects.
ReadProfile(r) ==
  /\ request[r].at = "readProfile"
  /\ IF request[r].does = "ingest" /\ request[r].hint = {}
     THEN Goes(r, "readRelationship")
     ELSE request' = [request EXCEPT ![r].style = style, ![r].at = "readRows"]
  /\ UNCHANGED <<stored, recalled, started, failures>>

Effective(bounds) == IF bounds = {} THEN Default ELSE bounds

\* mergeUniqueStrings: the new ones last, and the list cut at its cap.
Merged(old, new) ==
  LET all == old \o SetToSeq(new \ ToSet(old))
  IN  SubSeq(all, 1, IF Len(all) < Cap THEN Len(all) ELSE Cap)

\* An ingest goes on to write what it added to what it read; a draft has it all.
ReadRows(r) ==
  /\ request[r].at = "readRows"
  /\ LET merged == Merged(request[r].style, request[r].hint)
         at == IF request[r].does = "draft" THEN "drafted"
               ELSE IF merged = request[r].style THEN "readRelationship" ELSE "profile"
     IN  request' = [request EXCEPT ![r].at = at, ![r].style = merged,
                                    ![r].bounds = Effective(rows)]
  /\ UNCHANGED <<stored, recalled, started, failures>>

Drafted(r) ==
  /\ At(r, "draft", "drafted") /\ Ends(r)
  /\ UNCHANGED <<stored, recalled, started, failures>>

\* Who read the identity before this write has read an old one.
Outdates(r) ==
  [s \in Requests |-> IF s # r /\ request[s].at # "idle"
                      THEN [request[s] EXCEPT !.stale = TRUE] ELSE request[s]]

\* upsertIdentity: the profile, then the constraints, deleted and inserted one by one.
UpsertProfile(r) ==
  /\ request[r].at = "profile"
  /\ style' = request[r].style
  /\ request' = [Outdates(r) EXCEPT ![r].at = "delete"]
  /\ promised' = IF request[r].does = "put" THEN ToSet(style') ELSE promised
  /\ raced' = (raced \/ request[r].stale \/ \E s \in Requests : Upserting(s))
  /\ UNCHANGED <<rows, notes, auto, memory, logged, notesPromised, wanted, modesRaced, started, failures>>

\* Mutant: the constraints of before stay.
KeepConstraints(r) ==
  /\ request[r].at = "delete"
  /\ wanted' = request[r].bounds
  /\ request' = [Outdates(r) EXCEPT ![r].at = "insert", ![r].left = request[r].bounds]
  /\ UNCHANGED <<style, rows, notes, auto, memory, logged, promised, notesPromised, raced,
                 modesRaced, started, failures>>

DeleteConstraints(r) ==
  /\ request[r].at = "delete"
  /\ rows' = {} /\ wanted' = request[r].bounds
  /\ request' = [Outdates(r) EXCEPT ![r].at = "insert", ![r].left = request[r].bounds]
  /\ UNCHANGED <<style, notes, auto, memory, logged, promised, notesPromised, raced,
                 modesRaced, started, failures>>

InsertConstraint(r) ==
  /\ request[r].at = "insert"
  /\ \E b \in request[r].left :
       /\ rows' = rows \cup {b}
       /\ request' = [Outdates(r) EXCEPT ![r].left = @ \ {b}]
  /\ UNCHANGED <<style, notes, auto, memory, logged, recalled, started, failures>>

\* A PUT is answered, and an ingest has updated the identity.
Upserted(r) ==
  /\ request[r].at = "insert" /\ request[r].left = {}
  /\ IF request[r].does = "put" THEN Ends(r) /\ UNCHANGED promised
     ELSE /\ promised' = promised \cup (request[r].hint \cap ToSet(request[r].style))
          /\ Goes(r, "readRelationship")
  /\ UNCHANGED <<stored, notesPromised, wanted, raced, modesRaced, started, failures>>

-----------------------------------------------------------------------------
\* getRelationship; an ingest with nothing to add ends.
ReadRelationship(r) ==
  /\ At(r, "ingest", "readRelationship")
  /\ IF request[r].note \subseteq notes THEN Ends(r)
     ELSE request' = [request EXCEPT ![r].at = "relationship", ![r].notesStale = FALSE,
                                     ![r].notes = notes \cup request[r].note]
  /\ UNCHANGED <<stored, recalled, started, failures>>

\* Mutant: the row is written whole, with auto_reply_enabled as it is by default.
UpsertWholeRelationship(r) ==
  /\ request[r].at = "relationship"
  /\ notes' = request[r].notes /\ auto' = FALSE
  /\ request' = [s \in Requests |-> IF s = r THEN Idle ELSE [request[s] EXCEPT !.notesStale = request[s].at # "idle"]]
  /\ notesPromised' = (IF request[r].does = "put" THEN {} ELSE notesPromised) \cup request[r].notes
  /\ raced' = (raced \/ request[r].notesStale)
  /\ UNCHANGED <<style, rows, memory, logged, promised, wanted, modesRaced, started, failures>>

\* upsertRelationship leaves auto_reply_enabled alone, and the request is answered.
UpsertRelationship(r) ==
  /\ request[r].at = "relationship"
  /\ notes' = request[r].notes
  /\ request' = [s \in Requests |-> IF s = r THEN Idle ELSE [request[s] EXCEPT !.notesStale = request[s].at # "idle"]]
  /\ notesPromised' = IF request[r].does = "put" THEN notes' ELSE notesPromised \cup request[r].note
  /\ raced' = (raced \/ (request[r].notesStale /\ request[r].does = "ingest"))
  /\ UNCHANGED <<style, rows, auto, memory, logged, promised, wanted, modesRaced, started, failures>>

\* setRelationshipAutoReplyEnabled, then the event, which names the mode.
SetMode(r) ==
  /\ At(r, "mode", "mode")
  /\ auto' = (request[r].mode = "auto")
  /\ Goes(r, "logMode")
  /\ UNCHANGED <<style, rows, notes, memory, logged, recalled, started, failures>>

LogMode(r) ==
  /\ At(r, "mode", "logMode")
  /\ logged' = request[r].mode
  /\ Ends(r)
  /\ UNCHANGED <<style, rows, notes, auto, memory, recalled, started, failures>>

\* A statement fails: 500, and what was done before stays.  A restart is the same.
Fails(r) ==
  /\ request[r] # Idle /\ failures < MaxFailures /\ failures' = failures + 1
  /\ Ends(r)
  /\ UNCHANGED <<stored, recalled, started>>

-----------------------------------------------------------------------------
Next == \E r \in Requests :
  \/ PutIdentity(r) \/ PutRelationship(r) \/ Ingest(r) \/ Draft(r) \/ DelegationMode(r)
  \/ StoreMemory(r) \/ ReadProfile(r) \/ ReadRows(r) \/ Drafted(r)
  \/ UpsertProfile(r) \/ DeleteConstraints(r) \/ InsertConstraint(r) \/ Upserted(r)
  \/ ReadRelationship(r) \/ UpsertRelationship(r) \/ SetMode(r) \/ LogMode(r) \/ Fails(r)

Spec == Init /\ [][Next]_vars

-----------------------------------------------------------------------------
\* The type of what is stored.
TypeOK ==
  /\ style \in SeqOf(Hints, Cap) /\ rows \subseteq Boundaries \cup Default
  /\ notes \subseteq Notes /\ auto \in BOOLEAN /\ memory \subseteq Hints
  /\ logged \in {"auto", "off"}
  /\ started \in 0..MaxRequests /\ failures \in 0..MaxFailures

\* A hint or a note an ingest said it had added is still there, unless an upsert was
\* written over one it had not seen.
AddedStays ==
  ~raced => promised \subseteq ToSet(style) /\ notesPromised \subseteq notes

\* The constraints are those of the latest upsert; while it inserts them, or if it
\* died, some of them.
ConstraintsStand ==
  ~raced =>
    /\ rows \subseteq wanted
    /\ failures = 0 /\ (\A r \in Requests : request[r].at # "insert") => rows = wanted

\* A draft is written under the constraints of the latest upsert, or of none if there
\* are none, unless one was written while it read them, or had died or raced.
DraftsSeeConstraints ==
  \A r \in Requests : At(r, "draft", "drafted") /\ ~request[r].stale /\ failures = 0 /\ ~raced =>
    request[r].bounds = Effective(wanted)

\* The latest mode event tells the mode in force, unless two changes met or one died.
LoggedModeIsInForce ==
  failures = 0 /\ ~modesRaced /\ (\A r \in Requests : request[r].does # "mode") =>
    (auto <=> logged = "auto")

ProfilesAreKept == AddedStays /\ ConstraintsStand /\ DraftsSeeConstraints /\ LoggedModeIsInForce
=============================================================================
