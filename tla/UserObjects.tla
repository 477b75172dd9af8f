------------------------------ MODULE UserObjects ------------------------------
(***************************************************************************)
(* The contacts and rooms of the Wechaty SDK (src/user-modules).  There is *)
(* one pooled object per id; it holds the payload that was last read from  *)
(* the puppet, which caches payloads of its own until they are marked      *)
(* dirty.  Every method and every handler of a puppet event is a program   *)
(* of calls of the puppet with an await at each, and any number of them    *)
(* run at a time, so that an answer may be applied long after it was given.*)
(*                                                                         *)
(* Payloads are abstracted to versions: 0 when nothing was read yet.       *)
(***************************************************************************)
EXTENDS Naturals, Sequences, SequencesExt

CONSTANTS
  Contacts, Rooms,
  Self,         \* the contact of the bot itself
  MembersOf,    \* the contacts of each room
  Tasks,        \* programs under way at a time
  MaxStarts, MaxVersion, MaxFaults

Objects == Contacts \cup Rooms

ASSUME SelfIsContact == Self \in Contacts
ASSUME RoomsAreNoContacts == Contacts \cap Rooms = {}
ASSUME MembersAreContacts == MembersOf \in [Rooms -> Seq(Contacts)]
ASSUME ObjectBounds == MaxStarts \in Nat /\ MaxVersion \in Nat \ {0} /\ MaxFaults \in Nat

VARIABLES
  server,    \* the version of each payload at the service
  cached,    \* in the puppet's cache
  payload,   \* in the object
  newest,    \* the newest one the object ever held
  crossed,   \* objects of which two answers were on their way at a time
  tasks,     \* the programs
  starts, failures

vars == <<server, cached, payload, newest, crossed, tasks, starts, failures>>

None == 0
Ready(o) == payload[o] # None

Idle == [todo |-> <<>>, got |-> None, needs |-> [o \in Objects |-> None],
         about |-> {}, failed |-> {}]

Init ==
  /\ server = [o \in Objects |-> 1]
  /\ \E v \in {None, 1} : payload = [o \in Objects |-> v]   \* read before, or not
  /\ cached = payload /\ newest = payload
  /\ crossed = {} /\ tasks = [t \in Tasks |-> Idle] /\ starts = 0 /\ failures = 0

-----------------------------------------------------------------------------
\* Steps of programs.  One that is vital ends its program when it fails: with an
\* error, without a result, or quietly, as the setters of a contact do.
Step(do, o, vital) == [do |-> do, of |-> o, vital |-> vital]

Find(o)  == Step("find", o, TRUE)     \* ready(), which reads what is not ready
Try(o)   == Step("find", o, FALSE)    \* the same, where a failure is passed over
Read(o)  == Step("read", o, TRUE)     \* ready(true)
Dirty(o) == Step("dirty", o, TRUE)    \* payloadDirty
Write(o) == Step("write", o, TRUE)    \* a change at the service
Ask      == Step("ask", Self, TRUE)   \* other calls of the puppet, one or several
Tell     == Step("tell", Self, TRUE)  \* the event is emitted, or the promise resolves

\* A room that was read goes on with its members, each as far as it can; the call
\* for their list is part of the read.
TryAll(cs)    == [i \in DOMAIN cs |-> Try(cs[i])]
Members(room) == TryAll(MembersOf[room])

Sync(o) == <<Dirty(o), Read(o)>>

\* alias, phone, corporation, description of a contact that was read; name and
\* signature of the bot itself.
Set(c)  == <<Write(c)>> \o Sync(c) \o <<Tell>>
SetSelf == Set(Self)

\* Contact.find and Room.find by id, and of the bot itself; findAll; find by a query,
\* where the puppet is asked whether the first one found is still valid.
FindOne(o)  == <<Find(o), Tell>>
FindSelf    == FindOne(Self)
FindAll(o)  == <<Ask, Try(o), Tell>>
FindBy(o)   == <<Ask, Try(o), Ask, Tell>>

\* room.memberAll, member and the members as they are iterated; one that cannot be
\* read is left out.  room.topic gives a room without a topic the names of the others,
\* who are asked for all at once.
MemberList(room) == <<Ask>> \o Members(room) \o <<Tell>>
Others(room)     == SetToSeqs(ToSet(MembersOf[room]) \ {Self})
Topic(others)    == <<Ask>> \o TryAll(others) \o <<Tell>>

\* What needs nothing but the puppet: announce, qrCode, alias, readMark and has of a
\* room; toFileBox, recall, toUrlLink of a message; a tag put on a contact; a request
\* for friendship; the topic, the number of members and the date of an invitation.
Query           == <<Ask, Tell>>
Content         == Query
Tagging         == Query
AddFriend       == Query
InvitationQuery == Query

\* contact.sync, room.sync, on their own.
SyncOne(o) == Sync(o) \o <<Tell>>

\* topic of a room that was read, add, remove and quit change the room and read
\* nothing back.
Change(room)        == <<Write(room), Tell>>
ChangeMembers(room) == Change(room)

\* Mutant: the message is emitted before its talker was looked up.
MessageUnready(where, talker) == <<Ask, Try(where), Tell, Try(talker)>>

\* Message.find, Message.ready and the message event: the conversation is a
\* room or the listener.
Message(where, talker) == <<Ask, Try(where), Try(talker), Tell>>

\* say and forward, which end with the message that was sent, if it is found, as
\* toRecalled ends with the one that was recalled.
Say(where)                == Message(where, Self)
Forward(where)            == Say(where)
ToRecalled(where, talker) == Message(where, talker)

\* message.mentionList: by the ids of the payload, or else members of the room by name
\* (FindAll).  mentionText asks for their names in the room, too.
Mentions(c)    == <<Try(c), Tell>>
MentionText(c) == <<Try(c), Ask, Tell>>

\* message.toContact.
ToContact(c) == <<Ask, Find(c), Tell>>

\* The friendship event, which is what fromJSON does, too; Friendship.search, and
\* accept with its retries.
Friendship(c)   == <<Ask, Find(c), Tell>>
FromJSON(c)     == Friendship(c)
SearchFriend(c) == <<Ask, Find(c), Tell>>
Accept(c)       == <<Ask, Try(c)>> \o Sync(c) \o <<Tell>>

\* RoomInvitation.accept, inviter and memberList.
Inviter(c)          == <<Ask, Find(c), Tell>>
AcceptInvitation(c) == Inviter(c)
InvitedWith(c)      == <<Ask, Try(c), Tell>>

\* The login and logout events.
LogInOut == <<Find(Self), Tell>>

\* The dirty event: the puppet has dropped the payload.
DirtyEvent(o) == <<Find(o), Read(o), Tell>>

\* room-join, room-topic and room-leave: the room is synced, the contacts the
\* event names are looked up.  When the bot itself left, the room is marked
\* dirty afterwards.
RoomEvent(room, named, actor) ==
  <<Find(room)>> \o Sync(room) \o <<Try(named), Find(actor), Tell>>
RoomLeave(room, named, actor) ==
  RoomEvent(room, named, actor) \o (IF named = Self THEN <<Dirty(room)>> ELSE <<>>)

-----------------------------------------------------------------------------
Steps(program) == {program[i] : i \in DOMAIN program}

\* A program starts.  Of an object it syncs it needs the version of that moment;
\* when it ends, what it names is ready.
Start(t, program) ==
  /\ tasks[t].todo = <<>> /\ starts < MaxStarts /\ starts' = starts + 1
  /\ tasks' = [tasks EXCEPT ![t] =
       [todo |-> program, got |-> None, failed |-> {},
        needs |-> [o \in Objects |-> IF Dirty(o) \in Steps(program) THEN server[o] ELSE None],
        about |-> {s.of : s \in {s \in Steps(program) : s.do \in {"find", "read"}}}]]

\* A change gets the next version of all.
Changes(o) ==
  \E v \in 2..MaxVersion :
    /\ \A other \in Objects : server[other] < v
    /\ \E other \in Objects : server[other] = v - 1
    /\ server' = [server EXCEPT ![o] = v]

\* The application calls a method; some of them refuse an object that was not read.
Call ==
  \E t \in Tasks :
    /\ \/ \E o \in Objects : \/ Start(t, FindOne(o)) \/ Start(t, FindAll(o)) \/ Start(t, FindBy(o))
                             \/ Start(t, SyncOne(o)) \/ Start(t, Say(o)) \/ Start(t, Forward(o))
                             \/ \E c \in Contacts : Start(t, ToRecalled(o, c))
       \/ \E c \in Contacts : \/ Ready(c) /\ Start(t, Set(c))
                              \/ Start(t, ToContact(c)) \/ Start(t, Mentions(c)) \/ Start(t, MentionText(c))
                              \/ Start(t, Accept(c)) \/ Start(t, FromJSON(c)) \/ Start(t, SearchFriend(c))
                              \/ Start(t, AcceptInvitation(c)) \/ Start(t, InvitedWith(c))
       \/ \E room \in Rooms : \/ Start(t, MemberList(room)) \/ Start(t, ChangeMembers(room))
                              \/ Ready(room) /\ \/ Start(t, Change(room))
                                                \/ \E others \in Others(room) : Start(t, Topic(others))
       \/ Start(t, FindSelf) \/ Start(t, SetSelf)
       \/ Start(t, Query) \/ Start(t, Content) \/ Start(t, Tagging) \/ Start(t, AddFriend)
       \/ Start(t, InvitationQuery)
    /\ UNCHANGED <<server, cached, payload, newest, crossed, failures>>

PuppetEvent ==
  \E t \in Tasks :
    /\ \/ \E o \in Objects, c \in Contacts : Start(t, Message(o, c))
       \/ \E c \in Contacts : Start(t, Friendship(c))
       \/ Start(t, LogInOut)
    /\ UNCHANGED <<server, cached, payload, newest, crossed, failures>>

\* A room has changed at the service by the time its event comes.
RoomChanges ==
  \E t \in Tasks, room \in Rooms, named \in Contacts, actor \in Contacts :
    /\ \/ Start(t, RoomEvent(room, named, actor))
       \/ Start(t, RoomLeave(room, named, actor))
    /\ UNCHANGED <<server, cached, payload, newest, crossed, failures>>

ServerChanges ==
  /\ \E o \in Objects : Changes(o)
  /\ UNCHANGED <<cached, payload, newest, crossed, tasks, starts, failures>>

PuppetDirty ==
  \E t \in Tasks, o \in Objects :
    /\ tasks[t].todo = <<>> /\ starts < MaxStarts /\ starts' = starts + 1
    /\ cached' = [cached EXCEPT ![o] = None]
    /\ tasks' = [tasks EXCEPT ![t] =
         [Idle EXCEPT !.todo = DirtyEvent(o), !.needs[o] = server[o], !.about = {o}]]
    /\ UNCHANGED <<server, payload, newest, crossed, failures>>

-----------------------------------------------------------------------------
At(t, dos) == tasks[t].todo # <<>> /\ Head(tasks[t].todo).do \in dos
Of(t) == Head(tasks[t].todo).of
Next1(t) == [tasks[t] EXCEPT !.todo = Tail(@), !.got = None]

\* Mutant: a contact is never read again once it was.
SkipsReadToo(t) == At(t, {"find", "read"}) /\ Ready(Of(t))

\* ready() of what is ready reads nothing.
Skips(t) == At(t, {"find"}) /\ Ready(Of(t))

FindReady(t) ==
  /\ Skips(t) /\ tasks[t].got = None
  /\ tasks' = [tasks EXCEPT ![t] = Next1(t)]
  /\ UNCHANGED <<server, cached, payload, newest, crossed, starts, failures>>

\* contactPayload, roomPayload: from the puppet's cache or from the service.
Fetched(o) == IF cached[o] # None THEN cached[o] ELSE server[o]

Awaits(o) == {t \in Tasks : tasks[t].got # None /\ Of(t) = o}

Fetch(t) ==
  /\ At(t, {"find", "read"}) /\ ~Skips(t) /\ tasks[t].got = None
  /\ cached' = [cached EXCEPT ![Of(t)] = Fetched(Of(t))]
  /\ tasks' = [tasks EXCEPT ![t].got = Fetched(Of(t))]
  /\ crossed' = IF Awaits(Of(t)) # {} THEN crossed \cup {Of(t)} ELSE crossed
  /\ UNCHANGED <<server, payload, newest, starts, failures>>

\* The await of ready() ends; a room looks at its members next.
Apply(t) ==
  /\ tasks[t].got # None
  /\ LET o == Of(t) got == tasks[t].got
     IN  /\ payload' = [payload EXCEPT ![o] = got]
         /\ newest' = [newest EXCEPT ![o] = IF got > @ THEN got ELSE @]
         /\ tasks' = [tasks EXCEPT ![t] =
              IF o \in Rooms THEN [Next1(t) EXCEPT !.todo = Members(o) \o @,
                                                   !.about = @ \cup {MembersOf[o][i] : i \in DOMAIN MembersOf[o]}]
              ELSE Next1(t)]
  /\ UNCHANGED <<server, cached, crossed, starts, failures>>

\* Mutant: the object drops its payload with the puppet.
MarkDirtyForgets(t) ==
  /\ At(t, {"dirty"})
  /\ cached' = [cached EXCEPT ![Of(t)] = None] /\ payload' = [payload EXCEPT ![Of(t)] = None]
  /\ tasks' = [tasks EXCEPT ![t] = Next1(t)]
  /\ UNCHANGED <<server, newest, crossed, starts, failures>>

MarkDirty(t) ==
  /\ At(t, {"dirty"})
  /\ cached' = [cached EXCEPT ![Of(t)] = None]
  /\ tasks' = [tasks EXCEPT ![t] = Next1(t)]
  /\ UNCHANGED <<server, payload, newest, crossed, starts, failures>>

\* What was set is needed from then on, if it is read back at all.
SetRemote(t) ==
  /\ At(t, {"write"}) /\ Changes(Of(t))
  /\ tasks' = [tasks EXCEPT ![t] =
       [Next1(t) EXCEPT !.needs[Of(t)] = IF @ = None THEN None ELSE server'[Of(t)]]]
  /\ UNCHANGED <<cached, payload, newest, crossed, starts, failures>>

Answers(t) ==
  /\ At(t, {"ask", "tell"})
  /\ tasks' = [tasks EXCEPT ![t] = Next1(t)]
  /\ UNCHANGED <<server, cached, payload, newest, crossed, starts, failures>>

\* A vital step that fails ends its program, another leaves a hole.
Failed(t) ==
  IF Head(tasks[t].todo).vital THEN Idle
  ELSE [Next1(t) EXCEPT !.failed = @ \cup {Of(t)}]

\* The puppet rejects, before or after it has answered.
Fails(t) ==
  /\ At(t, {"find", "read", "dirty", "write", "ask"})
  /\ Skips(t) => tasks[t].got # None
  /\ failures < MaxFaults /\ failures' = failures + 1
  /\ tasks' = [tasks EXCEPT ![t] = Failed(t)]
  /\ UNCHANGED <<server, cached, payload, newest, crossed, starts>>

-----------------------------------------------------------------------------
Proceeds(t) == FindReady(t) \/ Fetch(t) \/ Apply(t) \/ MarkDirty(t) \/ SetRemote(t) \/ Answers(t)

Next ==
  \/ Call \/ PuppetEvent \/ RoomChanges \/ ServerChanges \/ PuppetDirty
  \/ \E t \in Tasks : Proceeds(t) \/ Fails(t)

Spec == Init /\ [][Next]_vars

-----------------------------------------------------------------------------
Version == 0..MaxVersion

\* The type of every variable; an answer is on its way only to a step that reads.
TypeOK ==
  /\ server \in [Objects -> Version]
  /\ cached \in [Objects -> Version] /\ payload \in [Objects -> Version]
  /\ newest \in [Objects -> Version] /\ crossed \subseteq Objects
  /\ starts \in 0..MaxStarts /\ failures \in 0..MaxFaults
  /\ \A t \in Tasks :
       /\ tasks[t].got \in Version /\ tasks[t].needs \in [Objects -> Version]
       /\ tasks[t].about \subseteq Objects /\ tasks[t].failed \subseteq Objects
       /\ tasks[t].got # None => At(t, {"find", "read"})

\* When a listener hears of a room, or a setter or a sync returns, the object
\* has held at least the version it was about, however its reads met others.
SyncedIsFresh ==
  \A t \in Tasks : At(t, {"tell"}) =>
    \A o \in Objects : newest[o] >= tasks[t].needs[o]

\* What an event or a result names has a payload, but for those the puppet failed
\* to give and the event passes over.
ToldIsReady ==
  \A t \in Tasks : At(t, {"tell"}) =>
    \A o \in tasks[t].about \ tasks[t].failed : Ready(o)

\* An object falls back to an older payload only where two of its reads crossed.
SetbacksAreCrossings ==
  \A o \in Objects : payload[o] < newest[o] => o \in crossed

ObjectsAreCurrent == SyncedIsFresh /\ ToldIsReady /\ SetbacksAreCrossings
=============================================================================
