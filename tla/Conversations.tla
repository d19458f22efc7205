--------------------------- MODULE Conversations ---------------------------
(***************************************************************************)
(* The concierge conversations: threads and messages in PostgreSQL, their  *)
(* assignment to one concierge, the emergency flag, and the Socket.io      *)
(* rooms through which the servers tell the clients.                       *)
(*                                                                         *)
(* Every handler commits one transaction and then works through a list of  *)
(* steps: queue a page, broadcast to a room, answer the caller.  Requests  *)
(* interleave between these steps, and the server may die there.           *)
(* The announcement that most transactions add to the thread tells nothing *)
(* that matters here and is left out.                                      *)
(***************************************************************************)
EXTENDS Naturals, Sequences, FiniteSets

CONSTANTS
  Threads,     \* ids of conversations
  Traveler,    \* who owns the booking and opens the threads
  Concierges,
  Admins,
  NoOne,       \* the null of conciergeId
  Requests,    \* concurrent HTTP requests and socket events
  Handlers,    \* the handlers that this instance calls
  MaxMessages, \* bound: messages of one thread
  QueueFails,  \* whether Redis may refuse a job
  Crashes      \* whether the server may restart

VARIABLES
  conv,          \* table conversations
  messages,      \* table messages, by thread
  online,        \* users with a connected socket, which is in its default rooms
  room,          \* sockets in conv:<id>
  received,      \* chat:message frames that a user has got
  acked,         \* messages whose sender has been told the id
  untold,        \* history: staff connected since a thread was opened, not yet told of it
  untoldEmergency, \* history: staff connected since the last flag, not yet told of it
  paged,         \* threads with a queued emergency.page_oncall
  holding,       \* history: who was told that they have the thread
  call           \* what each request still has to do

vars == <<conv, messages, online, room, received, acked, untold, untoldEmergency,
          paged, holding, call>>

-----------------------------------------------------------------------------
(* Types                                                                   *)

Staff == Concierges \cup Admins

Users == Staff \cup {Traveler}

Absent == [exists |-> FALSE, conciergeId |-> NoOne, isEmergency |-> FALSE]

\* The thread is about the one booking of the traveler; isClosed is never set.
Conversation == [exists : BOOLEAN, conciergeId : Staff \cup {NoOne}, isEmergency : BOOLEAN]

Message == [sender : Users, isRead : BOOLEAN]

Idle == [pc |-> "idle"]

\* "creating": no active thread was found.  "joining": the room is authorised.
\* "after": committed, with these steps left.
Steps == {"page", "room", "staff", "staffUpdated", "staffEmergency", "message", "ack"}

Todos == {todo \in Seq(Steps) : Len(todo) \in 1..3}

Call ==
  {Idle}
    \cup [pc : {"creating"}]
    \cup [pc : {"joining"}, user : Users, thread : Threads]
    \cup [pc : {"after"}, user : Users, thread : Threads, number : 0..MaxMessages, todo : Todos]

Numbers == 1..MaxMessages

\* A thread opens with a message; null is nobody's id.
ConversationsAssumption == MaxMessages \in Nat \ {0} /\ NoOne \notin Staff

\* What the types of tables, rooms, frames and requests allow.
TypeOK ==
  /\ conv \in [Threads -> Conversation]
  /\ messages \in [Threads -> Seq(Message)]
  /\ \A c \in Threads : Len(messages[c]) <= MaxMessages
  /\ online \subseteq Users
  /\ room \in [Threads -> SUBSET online]
  /\ received \in [Users -> SUBSET (Threads \X Numbers)]
  /\ acked \subseteq Threads \X Numbers
  /\ untold \in [Threads -> SUBSET Staff]
  /\ untoldEmergency \in [Threads -> SUBSET Staff]
  /\ paged \subseteq Threads
  /\ holding \in [Threads -> SUBSET Staff]
  /\ call \in [Requests -> Call]

Init ==
  /\ conv = [c \in Threads |-> Absent]
  /\ messages = [c \in Threads |-> <<>>]
  /\ online = {}
  /\ room = [c \in Threads |-> {}]
  /\ received = [u \in Users |-> {}]
  /\ acked = {}
  /\ untold = [c \in Threads |-> {}]
  /\ untoldEmergency = [c \in Threads |-> {}]
  /\ paged = {}
  /\ holding = [c \in Threads |-> {}]
  /\ call = [r \in Requests |-> Idle]

-----------------------------------------------------------------------------
(* Access                                                                  *)

\* getConversationById and sendMessage: the traveler of the thread and all staff.
MayPost(u, c) == conv[c].exists /\ u \in Users

\* joinConversationRoom is stricter with concierges.
MayJoin(u, c) ==
  /\ conv[c].exists
  /\ \/ u = Traveler
     \/ u \in Concierges /\ conv[c].conciergeId \in {u, NoOne}
     \/ u \in Admins

Active == {c \in Threads : conv[c].exists}

Goto(r, next) == call' = [call EXCEPT ![r] = next]

\* The transaction of a handler has committed; todo is what follows it.
After(r, u, c, number, todo) ==
  Goto(r, [pc |-> "after", user |-> u, thread |-> c, number |-> number, todo |-> todo])

Ready(r, handler) == call[r] = Idle /\ handler \in Handlers

-----------------------------------------------------------------------------
(* Sockets                                                                 *)

\* authenticateSocket and joinDefaultRooms.  A socket that comes back is told
\* nothing of what it missed, and its page reads nothing again.
Connect(u) ==
  /\ u \notin online
  /\ online' = online \cup {u}
  /\ UNCHANGED <<conv, messages, room, received, acked, untold, untoldEmergency,
                 paged, holding, call>>

\* Nobody owes an announcement to those who left.
Forgotten(owed, gone) == [c \in Threads |-> owed[c] \ gone]

\* Mutant: the rooms of a closed socket are not left.
DisconnectKeepsRooms(u) ==
  /\ u \in online
  /\ online' = online \ {u}
  /\ untold' = Forgotten(untold, {u})
  /\ untoldEmergency' = Forgotten(untoldEmergency, {u})
  /\ UNCHANGED <<conv, messages, room, received, acked, paged, holding, call>>

Disconnect(u) ==
  /\ u \in online
  /\ online' = online \ {u}
  /\ room' = [c \in Threads |-> room[c] \ {u}]
  /\ untold' = Forgotten(untold, {u})
  /\ untoldEmergency' = Forgotten(untoldEmergency, {u})
  /\ UNCHANGED <<conv, messages, received, acked, paged, holding, call>>

\* chat:join reads the thread first.
AuthorizeJoin(r, u, c) ==
  /\ Ready(r, "join")
  /\ u \in online
  /\ MayJoin(u, c)
  /\ Goto(r, [pc |-> "joining", user |-> u, thread |-> c])
  /\ UNCHANGED <<conv, messages, online, room, received, acked, untold, untoldEmergency,
                 paged, holding>>

EnterRoom(r) ==
  /\ call[r].pc = "joining"
  /\ room' = [room EXCEPT ![call[r].thread] = @ \cup ({call[r].user} \cap online)]
  /\ Goto(r, Idle)
  /\ UNCHANGED <<conv, messages, online, received, acked, untold, untoldEmergency, paged, holding>>

-----------------------------------------------------------------------------
(* Opening a thread                                                        *)

Appended(c, u) == [messages EXCEPT ![c] = Append(@, [sender |-> u, isRead |-> FALSE])]

\* createConversation, with a bookingId, looks for an active thread.
FindNone(r) ==
  /\ Ready(r, "create")
  /\ Active = {}
  /\ Goto(r, [pc |-> "creating"])
  /\ UNCHANGED <<conv, messages, online, room, received, acked, untold, untoldEmergency,
                 paged, holding>>

\* The message goes to the thread that was found; nobody is told.
AppendToExisting(r, c) ==
  /\ Ready(r, "create")
  /\ c \in Active
  /\ Len(messages[c]) < MaxMessages
  /\ messages' = Appended(c, Traveler)
  /\ UNCHANGED <<conv, online, room, received, acked, untold, untoldEmergency, paged, holding,
                 call>>

CreateConversation(r, c) ==
  /\ call[r].pc = "creating"
  /\ ~conv[c].exists
  /\ conv' = [conv EXCEPT ![c].exists = TRUE]
  /\ messages' = Appended(c, Traveler)
  /\ untold' = [untold EXCEPT ![c] = online \cap Staff]
  /\ After(r, Traveler, c, 0, <<"staff">>)
  /\ UNCHANGED <<online, room, received, acked, untoldEmergency, paged, holding>>

-----------------------------------------------------------------------------
(* Assignment                                                              *)

Assign(c, u) == conv' = [conv EXCEPT ![c].conciergeId = u]

\* Mutant: the update does not repeat the condition on conciergeId.
ClaimAnyRow(c, u) == conv[c].exists /\ Assign(c, u)

\* One conditional update decides who wins.
ClaimRow(c, u) == conv[c].exists /\ conv[c].conciergeId = NoOne /\ Assign(c, u)

\* So does one for the return: only the one who has it.
ReleaseRow(c, u) == conv[c].exists /\ conv[c].conciergeId = u /\ Assign(c, NoOne)

\* claimConversation
Claim(r, u, c) ==
  /\ Ready(r, "claim")
  /\ ClaimRow(c, u)
  /\ holding' = [holding EXCEPT ![c] = @ \cup {u}]
  /\ After(r, u, c, 0, <<"room">>)
  /\ UNCHANGED <<messages, online, room, received, acked, untold, untoldEmergency, paged>>

\* releaseConversation tells the room, and staff:concierge by another event.
Release(r, u, c) ==
  /\ Ready(r, "release")
  /\ ReleaseRow(c, u)
  /\ holding' = [holding EXCEPT ![c] = @ \ {u}]
  /\ After(r, u, c, 0, <<"room", "staffUpdated">>)
  /\ UNCHANGED <<messages, online, room, received, acked, untold, untoldEmergency, paged>>

\* adminReassign takes it from anyone and gives it to anyone, or to nobody.
AdminReassign(r, a, c, u) ==
  /\ Ready(r, "reassign")
  /\ a \in Admins
  /\ conv[c].exists
  /\ Assign(c, u)
  /\ holding' = [holding EXCEPT ![c] = {u} \cap Staff]
  /\ After(r, a, c, 0, <<"room">>)
  /\ UNCHANGED <<messages, online, room, received, acked, untold, untoldEmergency, paged>>

-----------------------------------------------------------------------------
(* Emergencies                                                             *)

\* flagEmergency, also when it is flagged already.
FlagEmergency(r, u, c) ==
  /\ Ready(r, "flag")
  /\ conv[c].exists
  /\ conv' = [conv EXCEPT ![c].isEmergency = TRUE]
  /\ untoldEmergency' = [untoldEmergency EXCEPT ![c] = online \cap Staff]
  /\ After(r, u, c, 0, <<"page", "room", "staffEmergency">>)
  /\ UNCHANGED <<messages, online, room, received, acked, untold, paged, holding>>

\* resolveEmergency tells the room only.
ResolveEmergency(r, u, c) ==
  /\ Ready(r, "resolve")
  /\ conv[c].exists
  /\ conv' = [conv EXCEPT ![c].isEmergency = FALSE]
  /\ After(r, u, c, 0, <<"room">>)
  /\ UNCHANGED <<messages, online, room, received, acked, untold, untoldEmergency, paged, holding>>

-----------------------------------------------------------------------------
(* Messages                                                                *)

\* Mutant: the room hears of the message before it is stored.
SendUnstored(r, u, c) ==
  /\ Ready(r, "send")
  /\ MayPost(u, c)
  /\ Len(messages[c]) < MaxMessages
  /\ After(r, u, c, Len(messages[c]) + 1, <<"message", "ack">>)
  /\ UNCHANGED <<conv, messages, online, room, received, acked, untold, untoldEmergency,
                 paged, holding>>

\* sendMessage stores; the fan-out and the answer follow.
SendMessage(r, u, c) ==
  /\ Ready(r, "send")
  /\ MayPost(u, c)
  /\ Len(messages[c]) < MaxMessages
  /\ messages' = Appended(c, u)
  /\ After(r, u, c, Len(messages[c]) + 1, <<"message", "ack">>)
  /\ UNCHANGED <<conv, online, room, received, acked, untold, untoldEmergency, paged, holding>>

ReadBy(u, m) == IF m.sender = u THEN m ELSE [m EXCEPT !.isRead = TRUE]

\* markRead: every message of the others, whoever they were meant for.
MarkRead(u, c) ==
  /\ "read" \in Handlers
  /\ \E i \in DOMAIN messages[c] : messages[c][i].sender # u /\ ~messages[c][i].isRead
  /\ messages' = [messages EXCEPT ![c] = [i \in DOMAIN @ |-> ReadBy(u, @[i])]]
  /\ UNCHANGED <<conv, online, room, received, acked, untold, untoldEmergency, paged, holding,
                 call>>

-----------------------------------------------------------------------------
(* What follows a commit                                                   *)

Doing(r, step) == call[r].pc = "after" /\ Head(call[r].todo) = step

Done(r) ==
  LET rest == Tail(call[r].todo)
  IN  Goto(r, IF rest = <<>> THEN Idle ELSE [call[r] EXCEPT !.todo = rest])

\* The priority job; a refusal is logged.
QueuePage(r) ==
  /\ Doing(r, "page")
  /\ paged' = paged \cup {call[r].thread}
  /\ Done(r)
  /\ UNCHANGED <<conv, messages, online, room, received, acked, untold, untoldEmergency, holding>>

\* Mutant: the refusal ends the request.
PageErrorPropagates(r) ==
  /\ QueueFails
  /\ Doing(r, "page")
  /\ Goto(r, Idle)
  /\ UNCHANGED <<conv, messages, online, room, received, acked, untold, untoldEmergency,
                 paged, holding>>

PageRefused(r) ==
  /\ QueueFails
  /\ Doing(r, "page")
  /\ Done(r)
  /\ UNCHANGED <<conv, messages, online, room, received, acked, untold, untoldEmergency,
                 paged, holding>>

\* conversation:assigned, released, reassigned, emergency, emergency_resolved.
TellRoom(r) ==
  /\ Doing(r, "room")
  /\ Done(r)
  /\ UNCHANGED <<conv, messages, online, room, received, acked, untold, untoldEmergency,
                 paged, holding>>

\* conversation:updated on staff:concierge: no client listens for it.
TellUpdate(r) ==
  /\ Doing(r, "staffUpdated")
  /\ Done(r)
  /\ UNCHANGED <<conv, messages, online, room, received, acked, untold, untoldEmergency,
                 paged, holding>>

\* conversation:created on staff:concierge.
TellQueue(r) ==
  /\ Doing(r, "staff")
  /\ untold' = [untold EXCEPT ![call[r].thread] = @ \ online]
  /\ Done(r)
  /\ UNCHANGED <<conv, messages, online, room, received, acked, untoldEmergency, paged, holding>>

\* conversation:emergency on staff:concierge.
TellEmergency(r) ==
  /\ Doing(r, "staffEmergency")
  /\ untoldEmergency' = [untoldEmergency EXCEPT ![call[r].thread] = @ \ online]
  /\ Done(r)
  /\ UNCHANGED <<conv, messages, online, room, received, acked, untold, paged, holding>>

\* chat:message goes to all sockets of the room, the sender's too.
FanOut(r) ==
  /\ Doing(r, "message")
  /\ received' = [u \in Users |->
       IF u \in room[call[r].thread]
       THEN received[u] \cup {<<call[r].thread, call[r].number>>}
       ELSE received[u]]
  /\ Done(r)
  /\ UNCHANGED <<conv, messages, online, room, acked, untold, untoldEmergency, paged, holding>>

Acknowledge(r) ==
  /\ Doing(r, "ack")
  /\ acked' = acked \cup {<<call[r].thread, call[r].number>>}
  /\ Done(r)
  /\ UNCHANGED <<conv, messages, online, room, received, untold, untoldEmergency, paged, holding>>

\* All that is in memory is gone.
Restart ==
  /\ Crashes
  /\ online # {} \/ \E r \in Requests : call[r] # Idle
  /\ online' = {}
  /\ room' = [c \in Threads |-> {}]
  /\ call' = [r \in Requests |-> Idle]
  /\ untold' = Forgotten(untold, online)
  /\ untoldEmergency' = Forgotten(untoldEmergency, online)
  /\ UNCHANGED <<conv, messages, received, acked, paged, holding>>

-----------------------------------------------------------------------------
FollowUp(r) ==
  \/ QueuePage(r)
  \/ PageRefused(r)
  \/ TellRoom(r)
  \/ TellUpdate(r)
  \/ TellQueue(r)
  \/ TellEmergency(r)
  \/ FanOut(r)
  \/ Acknowledge(r)

Serve(r) ==
  \/ EnterRoom(r)
  \/ FindNone(r)
  \/ \E c \in Threads :
       \/ AppendToExisting(r, c)
       \/ CreateConversation(r, c)
       \/ \E u \in Users : AuthorizeJoin(r, u, c) \/ SendMessage(r, u, c)
       \/ \E s \in Staff :
            \/ Claim(r, s, c)
            \/ Release(r, s, c)
            \/ FlagEmergency(r, s, c)
            \/ ResolveEmergency(r, s, c)
            \/ \E to \in Staff \cup {NoOne} : AdminReassign(r, s, c, to)

Next ==
  \/ \E r \in Requests : Serve(r) \/ FollowUp(r)
  \/ \E u \in Users : Connect(u) \/ Disconnect(u) \/ \E c \in Threads : MarkRead(u, c)
  \/ Restart

Spec == Init /\ [][Next]_vars

-----------------------------------------------------------------------------
(* Properties                                                              *)

Quiet(c) == \A r \in Requests : call[r].pc = "after" => call[r].thread # c

\* Whoever was told that a thread is theirs, and has neither given it back nor
\* lost it to an administrator, is the concierge of the thread: of concurrent
\* claims at most one is answered with success (ConversationRepository.claim).
HoldersAreAssigned ==
  \A c \in Threads : holding[c] \subseteq {conv[c].conciergeId}

\* Once the requests about a thread are done, every member of staff that has
\* been connected without a break since it was flagged has been told of the
\* emergency, also when Redis refused to queue the page (the try block of
\* flagEmergency) and whatever is claimed, released or resolved meanwhile.
EmergencyAnnounced == \A c \in Threads : Quiet(c) => untoldEmergency[c] = {}

\* The same of a thread that was opened: createConversation tells
\* staff:concierge.  A release is told to nobody who listens, and a socket that
\* was away learns nothing: neither is promised here.
OpeningAnnounced == \A c \in Threads : Quiet(c) => untold[c] = {}

\* Staff that stays connected hears of new threads and of emergencies.
StaffIsTold == OpeningAnnounced /\ EmergencyAnnounced

\* What a client has been shown or has had acknowledged is in the database,
\* whenever the server restarts: sendMessage persists first.
ShownIsStored ==
  \A m \in acked \cup UNION {received[u] : u \in Users} : m[2] <= Len(messages[m[1]])

-----------------------------------------------------------------------------
(* What comments, pages and tests say and the code does not keep: TLC      *)
(* refutes each on a small instance.                                       *)

\* One booking has one active thread, as the check in createConversation means.
NoDuplicateThread == Cardinality(Active) <= 1

\* A message goes to the traveler, to admins, and to concierges only while the
\* thread is theirs or waits for one.
OnlyParticipantsReceive ==
  [][\A u \in Concierges : \A m \in received'[u] \ received[u] : MayJoin(u, m[1])]_vars

\* The sender has the id of a message before the room has the message.
AckBeforeBroadcast ==
  \A u \in Users : \A m \in received[u] : m \in acked
=============================================================================
