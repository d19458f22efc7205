------------------------ MODULE ConversationsProofs ------------------------
(***************************************************************************)
(* Proofs about Conversations, for any sets of threads, staff and requests *)
(* and any number of messages.                                             *)
(***************************************************************************)
EXTENDS Conversations, SequenceTheorems, TLAPS

-----------------------------------------------------------------------------
(* Requests and what is left of them                                       *)

\* What a request holds at each point of its handler.
LEMMA CallFields ==
  ASSUME NEW k \in Call
  PROVE  /\ k.pc = "joining" => k.user \in Users /\ k.thread \in Threads
         /\ k.pc = "after" => /\ k.user \in Users
                              /\ k.thread \in Threads
                              /\ k.number \in 0..MaxMessages
                              /\ k.todo \in Todos
                              /\ k = [pc |-> "after", user |-> k.user, thread |-> k.thread,
                                      number |-> k.number, todo |-> k.todo]
BY DEF Call, Idle

\* What is left of the steps once the first is done.
LEMMA TodoRest ==
  ASSUME NEW todo \in Todos
  PROVE  /\ Head(todo) \in Steps
         /\ Tail(todo) = <<>> \/ Tail(todo) \in Todos
         /\ \A i \in DOMAIN Tail(todo) : i + 1 \in DOMAIN todo /\ Tail(todo)[i] = todo[i + 1]
         /\ \A i \in DOMAIN todo :
              todo[i] # Head(todo) => i - 1 \in DOMAIN Tail(todo) /\ Tail(todo)[i - 1] = todo[i]
<1>1. /\ todo \in Seq(Steps)
      /\ Len(todo) \in 1..3
      /\ DOMAIN todo = 1..Len(todo)
  BY DEF Todos
<1>2. /\ Head(todo) = todo[1]
      /\ Head(todo) \in Steps
      /\ Tail(todo) \in Seq(Steps)
      /\ Len(Tail(todo)) = Len(todo) - 1
      /\ \A i \in 1..(Len(todo) - 1) : Tail(todo)[i] = todo[i + 1]
  BY <1>1
<1>3. DOMAIN Tail(todo) = 1..(Len(todo) - 1)
  BY <1>2, <1>1
<1>4. Tail(todo) = <<>> \/ Tail(todo) \in Todos
  <2>1. CASE Len(todo) = 1
    <3>1. Len(Tail(todo)) = 0
      BY <2>1, <1>2
    <3> QED
      BY <3>1, <1>2, EmptySeq
  <2>2. CASE Len(todo) # 1
    BY <2>2, <1>1, <1>2 DEF Todos
  <2> QED
    BY <2>1, <2>2
<1>5. \A i \in DOMAIN Tail(todo) : i + 1 \in DOMAIN todo /\ Tail(todo)[i] = todo[i + 1]
  BY <1>1, <1>2, <1>3
<1>6. ASSUME NEW i \in DOMAIN todo, todo[i] # Head(todo)
      PROVE  i - 1 \in DOMAIN Tail(todo) /\ Tail(todo)[i - 1] = todo[i]
  BY <1>1, <1>2, <1>3, <1>6
<1> QED
  BY <1>2, <1>4, <1>5, <1>6

\* A step that is still to come for a thread.
Pending(k, c, step) ==
  /\ k.pc = "after"
  /\ k.thread = c
  /\ \E i \in DOMAIN k.todo : k.todo[i] = step

\* A request that goes on to its next step leaves the others alone, and forgets
\* no step but the one it has done.
LEMMA DoneEffect ==
  ASSUME TypeOK, NEW r \in Requests, NEW step, Doing(r, step), Done(r)
  PROVE  /\ call' \in [Requests -> Call]
         /\ \A s \in Requests : s # r => call'[s] = call[s]
         /\ call'[r].pc = "after" =>
              /\ call'[r].thread = call[r].thread
              /\ call'[r].number = call[r].number
              /\ call'[r].todo = Tail(call[r].todo)
         /\ \A c \in Threads, other \in Steps \ {step} :
              Pending(call[r], c, other) => Pending(call'[r], c, other)
<1> DEFINE k == call[r]
           rest == Tail(k.todo)
           next == [pc |-> "after", user |-> k.user, thread |-> k.thread, number |-> k.number,
                    todo |-> rest]
<1>1. k \in Call /\ k.pc = "after" /\ Head(k.todo) = step
  BY DEF TypeOK, Doing
<1>2. /\ k.user \in Users
      /\ k.thread \in Threads
      /\ k.number \in 0..MaxMessages
      /\ k.todo \in Todos
  BY <1>1, CallFields
<1>3. k = [pc |-> "after", user |-> k.user, thread |-> k.thread, number |-> k.number,
           todo |-> k.todo]
  BY <1>1, CallFields
<1>4. [k EXCEPT !.todo = rest] = next
  <2>1. ASSUME NEW u, NEW c, NEW number, NEW todo, NEW left
        PROVE  [[pc |-> "after", user |-> u, thread |-> c, number |-> number,
                 todo |-> todo] EXCEPT !.todo = left]
                 = [pc |-> "after", user |-> u, thread |-> c, number |-> number, todo |-> left]
    OBVIOUS
  <2> HIDE DEF k, rest
  <2>2. [k EXCEPT !.todo = rest]
          = [[pc |-> "after", user |-> k.user, thread |-> k.thread, number |-> k.number,
              todo |-> k.todo] EXCEPT !.todo = rest]
    BY <1>3
  <2>3. [[pc |-> "after", user |-> k.user, thread |-> k.thread, number |-> k.number,
          todo |-> k.todo] EXCEPT !.todo = rest] = next
    BY <2>1
  <2> QED
    BY <2>2, <2>3
<1>5. call' = [call EXCEPT ![r] = IF rest = <<>> THEN Idle ELSE next]
  BY <1>4 DEF Done, Goto
<1>6. rest # <<>> => next \in Call
  BY <1>2, TodoRest DEF Call
<1>7. Idle \in Call /\ Idle.pc = "idle"
  BY DEF Call, Idle
<1>8. call'[r] = IF rest = <<>> THEN Idle ELSE next
  BY <1>5 DEF TypeOK
<1>9. ASSUME NEW c \in Threads, NEW other \in Steps \ {step}, Pending(k, c, other)
      PROVE  Pending(call'[r], c, other)
  <2>1. PICK i \in DOMAIN k.todo : k.todo[i] = other
    BY <1>9 DEF Pending
  <2>2. i - 1 \in DOMAIN rest /\ rest[i - 1] = other
    BY <2>1, <1>1, <1>2, TodoRest
  <2>3. call'[r] = next
    BY <2>2, <1>8
  <2>4. k.thread = c
    BY <1>9 DEF Pending
  <2> QED
    BY <2>2, <2>3, <2>4 DEF Pending
<1> QED
  BY <1>5, <1>6, <1>7, <1>8, <1>9 DEF TypeOK

\* A handler that has committed leaves the other requests alone.
LEMMA AfterEffect ==
  ASSUME TypeOK, NEW r \in Requests, NEW u \in Users, NEW c \in Threads,
         NEW number \in 0..MaxMessages, NEW todo \in Todos,
         After(r, u, c, number, todo)
  PROVE  /\ call' \in [Requests -> Call]
         /\ call'[r] = [pc |-> "after", user |-> u, thread |-> c, number |-> number,
                        todo |-> todo]
         /\ \A s \in Requests : s # r => call'[s] = call[s]
<1>1. [pc |-> "after", user |-> u, thread |-> c, number |-> number, todo |-> todo] \in Call
  BY DEF Call
<1> QED
  BY <1>1 DEF TypeOK, After, Goto

\* What the handlers leave to do.
LEMMA Follows ==
  /\ <<"staff">> \in Todos
  /\ <<"room">> \in Todos
  /\ <<"room", "staffUpdated">> \in Todos
  /\ <<"page", "room", "staffEmergency">> \in Todos
  /\ <<"message", "ack">> \in Todos
BY DEF Todos, Steps

-----------------------------------------------------------------------------
(* Type correctness                                                        *)

\* A thread without a row has no messages: rows are never deleted.
Opened == \A c \in Threads : ~conv[c].exists => messages[c] = <<>>

\* Messages only grow, so the one a request is about to show is there.
MessageStored(k, table) ==
  k.pc = "after" =>
    /\ k.number <= Len(table[k.thread])
    /\ \A i \in DOMAIN k.todo : k.todo[i] \in {"message", "ack"} => k.number > 0

MessagesStored == \A r \in Requests : MessageStored(call[r], messages)

MessagesInv == TypeOK /\ Opened /\ MessagesStored

\* A message more in a thread.
LEMMA AppendEffect ==
  ASSUME ConversationsAssumption, TypeOK,
         NEW c \in Threads, NEW u \in Users, Len(messages[c]) < MaxMessages,
         messages' = Appended(c, u)
  PROVE  /\ messages' \in [Threads -> Seq(Message)]
         /\ Len(messages'[c]) = Len(messages[c]) + 1
         /\ \A d \in Threads : /\ d # c => messages'[d] = messages[d]
                               /\ Len(messages'[d]) >= Len(messages[d])
                               /\ Len(messages'[d]) <= MaxMessages
         /\ Len(messages[c]) + 1 \in Nat
<1> DEFINE m == [sender |-> u, isRead |-> FALSE]
<1>1. m \in Message
  BY DEF Message
<1>2. /\ messages \in [Threads -> Seq(Message)]
      /\ \A d \in Threads : Len(messages[d]) \in Nat /\ Len(messages[d]) <= MaxMessages
  BY DEF TypeOK
<1>3. messages' = [messages EXCEPT ![c] = Append(messages[c], m)]
  BY DEF Appended
<1> HIDE DEF m
<1>4. Append(messages[c], m) \in Seq(Message) /\ Len(Append(messages[c], m)) = Len(messages[c]) + 1
  BY <1>1, <1>2
<1>5. /\ messages' \in [Threads -> Seq(Message)]
      /\ messages'[c] = Append(messages[c], m)
      /\ \A d \in Threads : d # c => messages'[d] = messages[d]
  BY <1>2, <1>3, <1>4
<1> QED
  BY <1>2, <1>4, <1>5 DEF ConversationsAssumption

\* What a request that goes on, and one that has just committed, know of stored
\* messages.
LEMMA DoneStored ==
  ASSUME TypeOK, NEW r \in Requests, NEW step, Doing(r, step), Done(r),
         MessageStored(call[r], messages)
  PROVE  /\ MessageStored(call'[r], messages)
         /\ step \in {"message", "ack"} => call[r].number \in Numbers
<1>1. /\ call[r] \in Call
      /\ call[r].pc = "after"
      /\ Head(call[r].todo) = step
  BY DEF TypeOK, Doing
<1>2. call[r].todo \in Todos /\ call[r].number \in 0..MaxMessages
  BY <1>1, CallFields
<1>3. MessageStored(call'[r], messages)
  <2>1. call'[r].pc = "after" =>
          /\ call'[r].thread = call[r].thread
          /\ call'[r].number = call[r].number
          /\ call'[r].todo = Tail(call[r].todo)
    BY DoneEffect
  <2>2. \A i \in DOMAIN Tail(call[r].todo) :
          i + 1 \in DOMAIN call[r].todo /\ Tail(call[r].todo)[i] = call[r].todo[i + 1]
    BY <1>2, TodoRest
  <2> QED
    BY <1>1, <2>1, <2>2 DEF MessageStored
<1>4. 1 \in DOMAIN call[r].todo /\ Head(call[r].todo) = call[r].todo[1]
  BY <1>2 DEF Todos
<1>5. step \in {"message", "ack"} => call[r].number > 0
  BY <1>1, <1>4 DEF MessageStored
<1> QED
  BY <1>2, <1>3, <1>5 DEF Numbers

\* Whoever is not concerned by a step still has its message stored.
LEMMA StoredStays ==
  ASSUME ConversationsAssumption, MessagesInv, NEW r \in Requests,
         \A s \in Requests : s # r => call'[s] = call[s],
         \A d \in Threads : Len(messages'[d]) \in Nat /\ Len(messages'[d]) >= Len(messages[d]),
         MessageStored(call'[r], messages')
  PROVE  MessagesStored'
<1> SUFFICES ASSUME NEW s \in Requests
             PROVE  MessageStored(call'[s], messages')
  BY DEF MessagesStored
<1>1. CASE s = r
  BY <1>1
<1>2. CASE s # r
  <2>1. call'[s] = call[s] /\ call[s] \in Call /\ MessageStored(call[s], messages)
    BY <1>2 DEF MessagesInv, TypeOK, MessagesStored
  <2>2. call[s].pc = "after" => call[s].thread \in Threads /\ call[s].number \in 0..MaxMessages
    BY <2>1, CallFields
  <2>3. \A d \in Threads : Len(messages[d]) \in Nat
    BY DEF MessagesInv, TypeOK
  <2> QED
    BY <2>1, <2>2, <2>3 DEF MessageStored, ConversationsAssumption
<1> QED
  BY <1>1, <1>2

\* A handler that commits and leaves messages alone.
LEMMA CommitStored ==
  ASSUME ConversationsAssumption, MessagesInv,
         NEW r \in Requests, NEW u \in Users, NEW c \in Threads,
         NEW todo \in Todos, After(r, u, c, 0, todo),
         \A i \in DOMAIN todo : todo[i] \notin {"message", "ack"},
         \A d \in Threads : Len(messages'[d]) \in Nat /\ Len(messages'[d]) >= Len(messages[d])
  PROVE  call' \in [Requests -> Call] /\ MessagesStored'
<1>1. 0 \in 0..MaxMessages /\ TypeOK
  BY DEF ConversationsAssumption, MessagesInv
<1>2. /\ call' \in [Requests -> Call]
      /\ call'[r] = [pc |-> "after", user |-> u, thread |-> c, number |-> 0, todo |-> todo]
      /\ \A s \in Requests : s # r => call'[s] = call[s]
  BY <1>1, AfterEffect
<1>3. MessageStored(call'[r], messages')
  BY <1>2 DEF MessageStored
<1> QED
  BY <1>2, <1>3, StoredStays

\* No step of a request leaves a message shown or acknowledged that is not stored.
LEMMA ServeStored ==
  ASSUME ConversationsAssumption, MessagesInv, NEW r \in Requests, Serve(r)
  PROVE  MessagesInv'
<1> USE DEF MessagesInv
<1>1. /\ Idle \in Call /\ Idle.pc = "idle"
      /\ \A d \in Threads : Len(messages[d]) \in Nat
      /\ messages \in [Threads -> Seq(Message)]
      /\ call \in [Requests -> Call]
      /\ Staff \subseteq Users
  BY DEF Call, Idle, TypeOK, Users
<1>2. ASSUME EnterRoom(r)
      PROVE  MessagesInv'
  <2>1. call[r].user \in Users /\ call[r].thread \in Threads
    BY <1>1, <1>2, CallFields DEF EnterRoom
  <2>2. call' = [call EXCEPT ![r] = Idle]
    BY <1>2 DEF EnterRoom, Goto
  <2>3. MessagesStored'
    BY <2>2, <1>1, <1>2, StoredStays DEF EnterRoom, MessageStored
  <2>4. room' \in [Threads -> SUBSET online]
    BY <2>1, <1>2 DEF EnterRoom, TypeOK
  <2> QED
    BY <2>2, <2>3, <2>4, <1>1, <1>2 DEF EnterRoom, TypeOK, Opened
<1>3. ASSUME FindNone(r)
      PROVE  MessagesInv'
  <2>1. [pc |-> "creating"] \in Call
    BY DEF Call
  <2>2. call' = [call EXCEPT ![r] = [pc |-> "creating"]]
    BY <1>3 DEF FindNone, Goto
  <2>3. MessagesStored'
    BY <2>2, <1>1, <1>3, StoredStays DEF FindNone, MessageStored
  <2> QED
    BY <2>1, <2>2, <2>3, <1>1, <1>3 DEF FindNone, TypeOK, Opened
<1>4. ASSUME NEW c \in Threads, AppendToExisting(r, c)
      PROVE  MessagesInv'
  <2>1. /\ messages' \in [Threads -> Seq(Message)]
        /\ \A d \in Threads : /\ Len(messages'[d]) \in Nat
                              /\ Len(messages'[d]) >= Len(messages[d])
                              /\ Len(messages'[d]) <= MaxMessages
                              /\ d # c => messages'[d] = messages[d]
    BY <1>4, AppendEffect DEF AppendToExisting, Users
  <2>2. conv[c].exists
    BY <1>4 DEF AppendToExisting, Active
  <2>3. MessageStored(call'[r], messages')
    <3>1. call'[r] = call[r] /\ call[r] \in Call /\ MessageStored(call[r], messages)
      BY <1>4 DEF AppendToExisting, TypeOK, MessagesStored
    <3>2. call[r] = Idle
      BY <1>4 DEF AppendToExisting, Ready
    <3> QED
      BY <3>1, <3>2, <1>1 DEF MessageStored
  <2>4. MessagesStored'
    BY <2>1, <2>3, <1>4, StoredStays DEF AppendToExisting
  <2> QED
    BY <2>1, <2>2, <2>4, <1>4 DEF AppendToExisting, TypeOK, Opened
<1>5. ASSUME NEW c \in Threads, CreateConversation(r, c)
      PROVE  MessagesInv'
  <2>1. messages[c] = <<>> /\ 0 < MaxMessages
    BY <1>5 DEF CreateConversation, Opened, ConversationsAssumption
  <2>2. Len(messages[c]) < MaxMessages
    BY <2>1
  <2>3. Traveler \in Users
    BY DEF Users
  <2>4. /\ messages' \in [Threads -> Seq(Message)]
        /\ \A d \in Threads : /\ Len(messages'[d]) \in Nat
                              /\ Len(messages'[d]) >= Len(messages[d])
                              /\ Len(messages'[d]) <= MaxMessages
                              /\ d # c => messages'[d] = messages[d]
    BY <2>2, <2>3, <1>5, AppendEffect DEF CreateConversation
  <2>5. call' \in [Requests -> Call] /\ MessagesStored'
    BY <2>3, <2>4, <1>5, Follows, CommitStored DEF CreateConversation
  <2>6. conv' \in [Threads -> Conversation] /\ conv'[c].exists
           /\ \A d \in Threads : d # c => conv'[d] = conv[d]
    BY <1>5 DEF CreateConversation, TypeOK, Conversation
  <2> QED
    BY <2>4, <2>5, <2>6, <1>5 DEF CreateConversation, TypeOK, Opened
<1>6. ASSUME NEW c \in Threads, NEW u \in Users, AuthorizeJoin(r, u, c)
      PROVE  MessagesInv'
  <2>1. [pc |-> "joining", user |-> u, thread |-> c] \in Call
    BY DEF Call
  <2>2. call' = [call EXCEPT ![r] = [pc |-> "joining", user |-> u, thread |-> c]]
    BY <1>6 DEF AuthorizeJoin, Goto
  <2>3. MessagesStored'
    BY <2>2, <1>1, <1>6, StoredStays DEF AuthorizeJoin, MessageStored
  <2> QED
    BY <2>1, <2>2, <2>3, <1>1, <1>6 DEF AuthorizeJoin, TypeOK, Opened
<1>7. ASSUME NEW c \in Threads, NEW u \in Users, SendMessage(r, u, c)
      PROVE  MessagesInv'
  <2>1. /\ messages' \in [Threads -> Seq(Message)]
        /\ Len(messages'[c]) = Len(messages[c]) + 1
        /\ \A d \in Threads : /\ Len(messages'[d]) \in Nat
                              /\ Len(messages'[d]) >= Len(messages[d])
                              /\ Len(messages'[d]) <= MaxMessages
                              /\ d # c => messages'[d] = messages[d]
    BY <1>7, AppendEffect DEF SendMessage
  <2>2. Len(messages[c]) + 1 \in 0..MaxMessages /\ Len(messages[c]) + 1 > 0
    BY <2>1, <1>1 DEF ConversationsAssumption
  <2>3. /\ call' \in [Requests -> Call]
        /\ call'[r] = [pc |-> "after", user |-> u, thread |-> c,
                       number |-> Len(messages[c]) + 1, todo |-> <<"message", "ack">>]
        /\ \A s \in Requests : s # r => call'[s] = call[s]
    BY <2>2, <1>7, Follows, AfterEffect DEF SendMessage
  <2>4. MessageStored(call'[r], messages')
    BY <2>1, <2>2, <2>3, <1>1 DEF MessageStored
  <2>5. MessagesStored'
    BY <2>1, <2>3, <2>4, StoredStays
  <2>6. conv[c].exists
    BY <1>7 DEF SendMessage, MayPost
  <2> QED
    BY <2>1, <2>3, <2>5, <2>6, <1>7 DEF SendMessage, TypeOK, Opened
<1>8. ASSUME NEW c \in Threads, NEW u \in Staff,
             \/ Claim(r, u, c)
             \/ Release(r, u, c)
             \/ FlagEmergency(r, u, c)
             \/ ResolveEmergency(r, u, c)
             \/ \E to \in Staff \cup {NoOne} : AdminReassign(r, u, c, to)
      PROVE  MessagesInv'
  <2>1. messages' = messages
    BY <1>8 DEF Claim, Release, FlagEmergency, ResolveEmergency, AdminReassign
  <2>2. call' \in [Requests -> Call] /\ MessagesStored'
    <3>1. PICK todo \in {<<"room">>, <<"room", "staffUpdated">>,
                         <<"page", "room", "staffEmergency">>} :
            After(r, u, c, 0, todo)
      BY <1>8 DEF Claim, Release, FlagEmergency, ResolveEmergency, AdminReassign
    <3>2. todo \in Todos /\ \A i \in DOMAIN todo : todo[i] \notin {"message", "ack"}
      BY Follows
    <3> QED
      BY <2>1, <3>1, <3>2, <1>1, CommitStored
  <2>3. /\ conv' \in [Threads -> Conversation]
        /\ \A d \in Threads : conv'[d].exists = conv[d].exists
    <3>1. \/ \E to \in Staff \cup {NoOne} : conv' = [conv EXCEPT ![c].conciergeId = to]
          \/ \E flag \in BOOLEAN : conv' = [conv EXCEPT ![c].isEmergency = flag]
      BY <1>8 DEF Claim, Release, FlagEmergency, ResolveEmergency, AdminReassign,
                  ClaimRow, ReleaseRow, Assign
    <3>2. conv \in [Threads -> Conversation] /\ conv[c] \in Conversation
      BY DEF TypeOK
    <3>3. /\ \A to \in Staff \cup {NoOne} :
               LET row == [conv[c] EXCEPT !.conciergeId = to]
               IN  row \in Conversation /\ row.exists = conv[c].exists
          /\ \A flag \in BOOLEAN :
               LET row == [conv[c] EXCEPT !.isEmergency = flag]
               IN  row \in Conversation /\ row.exists = conv[c].exists
      BY <3>2 DEF Conversation
    <3>4. \E row \in Conversation :
            conv' = [conv EXCEPT ![c] = row] /\ row.exists = conv[c].exists
      BY <3>1, <3>3
    <3> QED
      BY <3>2, <3>4
  <2>4. /\ untold' \in [Threads -> SUBSET Staff]
        /\ untoldEmergency' \in [Threads -> SUBSET Staff]
        /\ holding' \in [Threads -> SUBSET Staff]
    <3>1. /\ untold' = untold
          /\ \/ untoldEmergency' = untoldEmergency
             \/ untoldEmergency' = [untoldEmergency EXCEPT ![c] = online \cap Staff]
      BY <1>8 DEF Claim, Release, FlagEmergency, ResolveEmergency, AdminReassign
    <3>2. \/ holding' = holding
          \/ holding' = [holding EXCEPT ![c] = @ \cup {u}]
          \/ holding' = [holding EXCEPT ![c] = @ \ {u}]
          \/ \E to \in Staff \cup {NoOne} : holding' = [holding EXCEPT ![c] = {to} \cap Staff]
      BY <1>8 DEF Claim, Release, FlagEmergency, ResolveEmergency, AdminReassign
    <3>3. /\ untold' \in [Threads -> SUBSET Staff]
          /\ untoldEmergency' \in [Threads -> SUBSET Staff]
      BY <3>1 DEF TypeOK
    <3>4. holding' \in [Threads -> SUBSET Staff]
      BY <3>2 DEF TypeOK
    <3> QED
      BY <3>3, <3>4
  <2>5. /\ online' = online /\ room' = room /\ received' = received /\ acked' = acked
        /\ paged' = paged
    BY <1>8 DEF Claim, Release, FlagEmergency, ResolveEmergency, AdminReassign
  <2> QED
    BY <2>1, <2>2, <2>3, <2>4, <2>5 DEF TypeOK, Opened
<1> QED
  BY <1>2, <1>3, <1>4, <1>5, <1>6, <1>7, <1>8 DEF Serve

\* Nor does what a request does after its commit.
LEMMA FollowUpStored ==
  ASSUME ConversationsAssumption, MessagesInv, NEW r \in Requests, FollowUp(r)
  PROVE  MessagesInv'
<1> USE DEF MessagesInv
<1>1. PICK step \in Steps : Doing(r, step) /\ Done(r)
  BY DEF FollowUp, QueuePage, PageRefused, TellRoom, TellUpdate, TellQueue, TellEmergency,
         FanOut, Acknowledge, Steps
<1>2. /\ call' \in [Requests -> Call]
      /\ \A s \in Requests : s # r => call'[s] = call[s]
  BY <1>1, DoneEffect
<1>3. messages' = messages /\ conv' = conv /\ online' = online /\ room' = room
        /\ holding' = holding
  BY DEF FollowUp, QueuePage, PageRefused, TellRoom, TellUpdate, TellQueue, TellEmergency,
         FanOut, Acknowledge
<1>4. MessageStored(call[r], messages) /\ call[r].pc = "after"
  BY <1>1 DEF MessagesStored, Doing
<1>5. MessagesStored'
  <2>1. MessageStored(call'[r], messages')
    BY <1>1, <1>3, <1>4, DoneStored
  <2> QED
    BY <2>1, <1>2, <1>3, StoredStays DEF TypeOK
<1>6. call[r].thread \in Threads
  BY <1>4, CallFields DEF TypeOK
<1>7. Doing(r, "message") \/ Doing(r, "ack") => call[r].number \in Numbers
  BY <1>1, <1>4, DoneStored DEF Doing
<1>8. paged' \subseteq Threads
  BY <1>6 DEF FollowUp, QueuePage, PageRefused, TellRoom, TellUpdate, TellQueue, TellEmergency,
              FanOut, Acknowledge, TypeOK
<1>9. /\ untold' \in [Threads -> SUBSET Staff]
      /\ untoldEmergency' \in [Threads -> SUBSET Staff]
  BY <1>6, ZenonT(40) DEF FollowUp, QueuePage, PageRefused, TellRoom, TellUpdate, TellQueue,
              TellEmergency, FanOut, Acknowledge, TypeOK
<1>10. /\ received' \in [Users -> SUBSET (Threads \X Numbers)]
       /\ acked' \subseteq Threads \X Numbers
  <2>1. CASE FanOut(r)
    BY <2>1, <1>6, <1>7 DEF FanOut, TypeOK
  <2>2. CASE Acknowledge(r)
    BY <2>2, <1>6, <1>7 DEF Acknowledge, TypeOK
  <2>3. CASE QueuePage(r) \/ PageRefused(r) \/ TellRoom(r) \/ TellUpdate(r)
              \/ TellQueue(r) \/ TellEmergency(r)
    BY <2>3 DEF QueuePage, PageRefused, TellRoom, TellUpdate, TellQueue, TellEmergency, TypeOK
  <2> QED
    BY <2>1, <2>2, <2>3 DEF FollowUp
<1> QED
  BY <1>2, <1>3, <1>5, <1>8, <1>9, <1>10 DEF TypeOK, Opened

\* Nor do connections, restarts and reads.
LEMMA UserStored ==
  ASSUME ConversationsAssumption, MessagesInv,
         \/ \E u \in Users : Connect(u) \/ Disconnect(u) \/ \E c \in Threads : MarkRead(u, c)
         \/ Restart
         \/ UNCHANGED vars
  PROVE  MessagesInv'
<1> USE DEF MessagesInv
<1>1. ASSUME NEW u \in Users, Connect(u)
      PROVE  MessagesInv'
  BY <1>1 DEF Connect, TypeOK, Opened, MessagesStored, MessageStored
<1>2. ASSUME NEW u \in Users, Disconnect(u)
      PROVE  MessagesInv'
  BY <1>2 DEF Disconnect, Forgotten, TypeOK, Opened, MessagesStored, MessageStored
<1>3. ASSUME NEW u \in Users, NEW c \in Threads, MarkRead(u, c)
      PROVE  MessagesInv'
  <2> DEFINE read == [i \in DOMAIN messages[c] |-> ReadBy(u, messages[c][i])]
  <2>1. messages[c] \in Seq(Message) /\ DOMAIN messages[c] = 1..Len(messages[c])
    BY DEF TypeOK
  <2>2. \A i \in 1..Len(messages[c]) : ReadBy(u, messages[c][i]) \in Message
    <3>1. \A m \in Message : ReadBy(u, m) \in Message
      BY DEF ReadBy, Message
    <3> QED
      BY <2>1, <3>1
  <2>3. read \in Seq(Message) /\ Len(read) = Len(messages[c])
    BY <2>1, <2>2
  <2>4. messages' = [messages EXCEPT ![c] = read]
    BY <1>3 DEF MarkRead
  <2> HIDE DEF read
  <2>5. /\ messages' \in [Threads -> Seq(Message)]
        /\ \A d \in Threads : Len(messages'[d]) = Len(messages[d])
        /\ \A d \in Threads : d # c => messages'[d] = messages[d]
    BY <2>3, <2>4 DEF TypeOK
  <2>6. conv[c].exists
    BY <1>3, <2>1 DEF MarkRead, Opened
  <2>7. MessagesStored'
    <3> SUFFICES ASSUME NEW s \in Requests
                 PROVE  MessageStored(call[s], messages')
      BY <1>3 DEF MarkRead, MessagesStored
    <3> QED
      BY <2>5, CallFields DEF MessagesStored, MessageStored, TypeOK
  <2> QED
    BY <2>5, <2>6, <2>7, <1>3 DEF MarkRead, TypeOK, Opened
<1>4. CASE Restart
  <2>1. Idle \in Call /\ Idle.pc = "idle"
    BY DEF Call, Idle
  <2>2. call' \in [Requests -> Call] /\ \A r \in Requests : call'[r].pc = "idle"
    BY <2>1, <1>4 DEF Restart
  <2>3. /\ untold' \in [Threads -> SUBSET Staff]
        /\ untoldEmergency' \in [Threads -> SUBSET Staff]
    BY <1>4 DEF Restart, Forgotten, TypeOK
  <2>4. MessagesStored'
    BY <2>2 DEF MessagesStored, MessageStored
  <2> QED
    BY <2>2, <2>3, <2>4, <1>4 DEF Restart, TypeOK, Opened
<1>5. CASE UNCHANGED vars
  BY <1>5 DEF vars, TypeOK, Opened, MessagesStored, MessageStored
<1> QED
  BY <1>1, <1>2, <1>3, <1>4, <1>5

LEMMA MessagesInvariant == ConversationsAssumption => (Spec => []MessagesInv)
<1> SUFFICES ASSUME ConversationsAssumption
             PROVE  Spec => []MessagesInv
  OBVIOUS
<1>1. Init => MessagesInv
  BY DEF Init, MessagesInv, TypeOK, Opened, MessagesStored, MessageStored, Absent,
         Conversation, Call, Idle, Users, ConversationsAssumption
<1>2. MessagesInv /\ [Next]_vars => MessagesInv'
  BY ServeStored, FollowUpStored, UserStored DEF Next
<1> QED
  BY <1>1, <1>2, PTL DEF Spec

\* Every reachable state is well typed: sockets are only in rooms they could
\* enter while connected, and no thread outgrows its bound.
THEOREM ConversationsTypeCorrect == ConversationsAssumption => (Spec => []TypeOK)
<1>1. MessagesInv => TypeOK
  BY DEF MessagesInv
<1> QED
  BY <1>1, MessagesInvariant, PTL

-----------------------------------------------------------------------------
(* What is shown is stored                                                 *)

\* No step deletes a message.
LEMMA MessagesGrow ==
  ASSUME ConversationsAssumption, MessagesInv, [Next]_vars, NEW d \in Threads
  PROVE  Len(messages'[d]) \in Nat /\ Len(messages'[d]) >= Len(messages[d])
<1>1. TypeOK /\ Opened /\ MessagesInv'
  BY ServeStored, FollowUpStored, UserStored DEF Next, MessagesInv
<1>2. messages[d] \in Seq(Message) /\ messages'[d] \in Seq(Message)
  BY <1>1 DEF MessagesInv, TypeOK
<1>3. CASE messages' = messages
  BY <1>2, <1>3
<1>4. ASSUME NEW c \in Threads, NEW u \in Users, Len(messages[c]) < MaxMessages,
             messages' = Appended(c, u)
      PROVE  Len(messages'[d]) >= Len(messages[d])
  BY <1>1, <1>4, AppendEffect
<1>5. ASSUME NEW u \in Users, NEW c \in Threads, MarkRead(u, c)
      PROVE  Len(messages'[d]) = Len(messages[d])
  <2> DEFINE read == [i \in 1..Len(messages[c]) |-> ReadBy(u, messages[c][i])]
  <2>1. messages[c] \in Seq(Message) /\ DOMAIN messages[c] = 1..Len(messages[c])
    BY <1>1 DEF TypeOK
  <2>2. messages' = [messages EXCEPT ![c] = read]
    BY <1>5, <2>1 DEF MarkRead
  <2>3. d # c => messages'[d] = messages[d]
    BY <2>2, <1>1 DEF TypeOK
  <2>4. d = c => DOMAIN messages'[d] = 1..Len(messages[d])
    BY <2>2, <1>1 DEF TypeOK
  <2> QED
    BY <2>1, <2>3, <2>4, <1>2
<1>6. \/ messages' = messages
      \/ \E c \in Threads, u \in Users :
           \/ Len(messages[c]) < MaxMessages /\ messages' = Appended(c, u)
           \/ MarkRead(u, c)
  <2>1. ASSUME NEW r \in Requests, Serve(r)
        PROVE  <1>6!:
    <3>1. Traveler \in Users
      BY DEF Users
    <3>2. ASSUME NEW c \in Threads, CreateConversation(r, c)
          PROVE  Len(messages[c]) < MaxMessages
      <4>1. messages[c] = <<>>
        BY <3>2, <1>1 DEF CreateConversation, Opened
      <4> QED
        BY <4>1 DEF ConversationsAssumption
    <3> QED
      BY <2>1, <3>1, <3>2
         DEF Serve, EnterRoom, FindNone, AppendToExisting, CreateConversation, AuthorizeJoin,
             SendMessage, Claim, Release, FlagEmergency, ResolveEmergency, AdminReassign
  <2>2. ASSUME NEW r \in Requests, FollowUp(r)
        PROVE  messages' = messages
    BY <2>2 DEF FollowUp, QueuePage, PageRefused, TellRoom, TellUpdate, TellQueue, TellEmergency,
                FanOut, Acknowledge
  <2> QED
    BY <2>1, <2>2 DEF Next, Connect, Disconnect, Restart, vars
<1> QED
  BY <1>2, <1>3, <1>4, <1>5, <1>6

\* A pair of a thread and a number that stands for a message of the table.
Stored(m, table) == m[2] <= Len(table[m[1]])

\* Whatever is stored stays stored.
LEMMA StoredForever ==
  ASSUME ConversationsAssumption, MessagesInv, [Next]_vars,
         NEW m \in Threads \X Numbers, Stored(m, messages)
  PROVE  Stored(m, messages')
<1>1. m[1] \in Threads /\ m[2] \in 1..MaxMessages
  BY DEF Numbers
<1>2. Len(messages[m[1]]) \in Nat
  BY <1>1 DEF MessagesInv, TypeOK
<1> QED
  BY <1>1, <1>2, MessagesGrow DEF Stored, ConversationsAssumption

\* Only two steps show a message.
LEMMA Showing ==
  ASSUME [Next]_vars
  PROVE  \/ acked' = acked /\ received' = received
         \/ \E r \in Requests : FanOut(r) \/ Acknowledge(r)
<1> DEFINE Nothing == acked' = acked /\ received' = received
<1>1. ASSUME NEW r \in Requests, Serve(r)
      PROVE  Nothing
  BY <1>1 DEF Serve, EnterRoom, FindNone, AppendToExisting, CreateConversation, AuthorizeJoin,
              SendMessage, Claim, Release, FlagEmergency, ResolveEmergency, AdminReassign
<1>2. ASSUME NEW r \in Requests, FollowUp(r)
      PROVE  Nothing \/ FanOut(r) \/ Acknowledge(r)
  BY <1>2 DEF FollowUp, QueuePage, PageRefused, TellRoom, TellUpdate, TellQueue, TellEmergency
<1>3. ASSUME NEW u \in Users, Connect(u) \/ Disconnect(u) \/ \E c \in Threads : MarkRead(u, c)
      PROVE  Nothing
  BY <1>3 DEF Connect, Disconnect, MarkRead
<1>4. Restart \/ UNCHANGED vars => Nothing
  BY DEF Restart, vars
<1> HIDE DEF Nothing
<1>5. Nothing \/ \E r \in Requests : FanOut(r) \/ Acknowledge(r)
  BY <1>1, <1>2, <1>3, <1>4 DEF Next
<1> QED
  BY <1>5 DEF Nothing

\* What a client was shown or had acknowledged is in the table of messages, after
\* every crash of the server too.
THEOREM ShownStaysStored == ConversationsAssumption => (Spec => []ShownIsStored)
<1> SUFFICES ASSUME ConversationsAssumption
             PROVE  Spec => []ShownIsStored
  OBVIOUS
<1>1. Init => ShownIsStored
  BY DEF Init, ShownIsStored
<1>2. ASSUME MessagesInv, ShownIsStored, [Next]_vars
      PROVE  ShownIsStored'
  <2> DEFINE AllStored(frames, table) == \A m \in frames : Stored(m, table)
  <2>1. TypeOK
    BY <1>2 DEF MessagesInv
  <2>2. AllStored(acked, messages) /\ \A u \in Users : AllStored(received[u], messages)
    BY <1>2 DEF ShownIsStored, Stored
  <2>3. AllStored(acked, messages') /\ \A u \in Users : AllStored(received[u], messages')
    BY <2>1, <2>2, <1>2, StoredForever DEF TypeOK
  <2> DEFINE ShownNext == /\ AllStored(acked', messages')
                          /\ \A u \in Users : AllStored(received'[u], messages')
  <2>4. SUFFICES ShownNext
    BY DEF ShownIsStored, Stored
  <2>5. ASSUME NEW r \in Requests, FanOut(r) \/ Acknowledge(r)
        PROVE  Stored(<<call[r].thread, call[r].number>>, messages')
    <3>1. messages' = messages
      BY <2>5 DEF FanOut, Acknowledge
    <3>2. MessageStored(call[r], messages) /\ call[r].pc = "after"
      BY <1>2, <2>5 DEF MessagesInv, MessagesStored, FanOut, Acknowledge, Doing
    <3> QED
      BY <3>1, <3>2 DEF MessageStored, Stored
  <2>6. ASSUME NEW r \in Requests, FanOut(r)
        PROVE  ShownNext
    <3>1. acked' = acked
      BY <2>6 DEF FanOut
    <3>2. \A u \in Users :
            received'[u] \subseteq received[u] \cup {<<call[r].thread, call[r].number>>}
      BY <2>1, <2>6 DEF FanOut, TypeOK
    <3> QED
      BY <2>3, <2>5, <2>6, <3>1, <3>2
  <2>7. ASSUME NEW r \in Requests, Acknowledge(r)
        PROVE  ShownNext
    BY <2>3, <2>5, <2>7 DEF Acknowledge
  <2>8. CASE acked' = acked /\ received' = received
    BY <2>3, <2>8
  <2>9. \/ acked' = acked /\ received' = received
        \/ \E r \in Requests : FanOut(r) \/ Acknowledge(r)
    BY <1>2, Showing
  <2> HIDE DEF ShownNext
  <2> QED
    BY <2>6, <2>7, <2>8, <2>9
<1> QED
  BY <1>1, <1>2, MessagesInvariant, PTL DEF Spec

-----------------------------------------------------------------------------
(* One holder                                                              *)

\* Only the three handlers of an assignment change who holds a thread or whose
\* it is.
LEMMA Assigning ==
  ASSUME TypeOK, [Next]_vars
  PROVE  \/ /\ holding' = holding
            /\ \A c \in Threads : conv'[c].conciergeId = conv[c].conciergeId
         \/ \E r \in Requests, c \in Threads, u \in Staff :
              \/ Claim(r, u, c)
              \/ Release(r, u, c)
              \/ \E to \in Staff \cup {NoOne} : AdminReassign(r, u, c, to)
<1> DEFINE Kept == /\ holding' = holding
                   /\ \A c \in Threads : conv'[c].conciergeId = conv[c].conciergeId
           Assigned(r) == \E c \in Threads, u \in Staff :
             \/ Claim(r, u, c)
             \/ Release(r, u, c)
             \/ \E to \in Staff \cup {NoOne} : AdminReassign(r, u, c, to)
<1>1. conv \in [Threads -> Conversation]
  BY DEF TypeOK
<1>2. ASSUME NEW r \in Requests, Serve(r)
      PROVE  Kept \/ Assigned(r)
  <2>1. ASSUME NEW c \in Threads, CreateConversation(r, c)
        PROVE  Kept
    BY <2>1, <1>1 DEF CreateConversation, Conversation
  <2>2. ASSUME NEW c \in Threads, NEW u \in Staff, FlagEmergency(r, u, c) \/ ResolveEmergency(r, u, c)
        PROVE  Kept
    BY <2>2, <1>1 DEF FlagEmergency, ResolveEmergency, Conversation
  <2>3. ASSUME NEW c \in Threads, NEW u \in Users,
               \/ EnterRoom(r) \/ FindNone(r) \/ AppendToExisting(r, c)
               \/ AuthorizeJoin(r, u, c) \/ SendMessage(r, u, c)
        PROVE  Kept
    BY <2>3 DEF EnterRoom, FindNone, AppendToExisting, AuthorizeJoin, SendMessage
  <2>4. EnterRoom(r) \/ FindNone(r) => Kept
    BY DEF EnterRoom, FindNone
  <2> HIDE DEF Kept
  <2>5. Traveler \in Users
    BY DEF Users
  <2> QED
    BY <1>2, <2>1, <2>2, <2>3, <2>4, <2>5 DEF Serve
<1>3. ASSUME NEW r \in Requests, FollowUp(r)
      PROVE  Kept
  BY <1>3 DEF FollowUp, QueuePage, PageRefused, TellRoom, TellUpdate, TellQueue, TellEmergency,
              FanOut, Acknowledge
<1>4. ASSUME NEW u \in Users, Connect(u) \/ Disconnect(u) \/ \E c \in Threads : MarkRead(u, c)
      PROVE  Kept
  BY <1>4 DEF Connect, Disconnect, MarkRead
<1>5. Restart \/ UNCHANGED vars => Kept
  BY DEF Restart, vars
<1> HIDE DEF Kept
<1>6. Kept \/ \E r \in Requests : Assigned(r)
  BY <1>2, <1>3, <1>4, <1>5 DEF Next
<1> QED
  BY <1>6 DEF Kept

\* At most one of several claims of a thread is told that it has won, and it
\* holds the thread until it gives it back or an administrator takes it away.
THEOREM HolderIsAssigned == ConversationsAssumption => (Spec => []HoldersAreAssigned)
<1> SUFFICES ASSUME ConversationsAssumption
             PROVE  Spec => []HoldersAreAssigned
  OBVIOUS
<1>1. Init => HoldersAreAssigned
  BY DEF Init, HoldersAreAssigned
<1>2. ASSUME TypeOK, HoldersAreAssigned, [Next]_vars
      PROVE  HoldersAreAssigned'
  <2>1. /\ conv \in [Threads -> Conversation]
        /\ holding \in [Threads -> SUBSET Staff]
        /\ NoOne \notin Staff
    BY <1>2 DEF TypeOK, ConversationsAssumption
  <2>2. ASSUME NEW r \in Requests, NEW c \in Threads, NEW u \in Staff, Claim(r, u, c)
        PROVE  HoldersAreAssigned'
    <3>1. conv[c].conciergeId = NoOne
      BY <2>2 DEF Claim, ClaimRow
    <3>2. holding[c] = {}
      BY <3>1, <2>1, <1>2 DEF HoldersAreAssigned
    <3>3. /\ conv' = [conv EXCEPT ![c].conciergeId = u]
          /\ holding' = [holding EXCEPT ![c] = @ \cup {u}]
      BY <2>2 DEF Claim, ClaimRow, Assign
    <3> QED
      BY <3>2, <3>3, <2>1, <1>2 DEF HoldersAreAssigned, Conversation
  <2>3. ASSUME NEW r \in Requests, NEW c \in Threads, NEW u \in Staff, Release(r, u, c)
        PROVE  HoldersAreAssigned'
    <3>1. conv[c].conciergeId = u
      BY <2>3 DEF Release, ReleaseRow
    <3>2. /\ conv' = [conv EXCEPT ![c].conciergeId = NoOne]
          /\ holding' = [holding EXCEPT ![c] = @ \ {u}]
      BY <2>3 DEF Release, ReleaseRow, Assign
    <3> QED
      BY <3>1, <3>2, <2>1, <1>2 DEF HoldersAreAssigned, Conversation
  <2>4. ASSUME NEW r \in Requests, NEW c \in Threads, NEW u \in Staff,
               NEW to \in Staff \cup {NoOne}, AdminReassign(r, u, c, to)
        PROVE  HoldersAreAssigned'
    <3>1. /\ conv' = [conv EXCEPT ![c].conciergeId = to]
          /\ holding' = [holding EXCEPT ![c] = {to} \cap Staff]
      BY <2>4 DEF AdminReassign, Assign
    <3> QED
      BY <3>1, <2>1, <1>2 DEF HoldersAreAssigned, Conversation
  <2>5. ASSUME holding' = holding,
               \A c \in Threads : conv'[c].conciergeId = conv[c].conciergeId
        PROVE  HoldersAreAssigned'
    BY <2>5, <1>2 DEF HoldersAreAssigned
  <2> QED
    BY <2>2, <2>3, <2>4, <2>5, <1>2, Assigning
<1> QED
  BY <1>1, <1>2, ConversationsTypeCorrect, PTL DEF Spec

-----------------------------------------------------------------------------
(* Staff is told                                                           *)

\* Those to whom an announcement is owed are connected, and a request is about
\* to make it.
Announced(c, owed, here, calls, step) ==
  /\ owed[c] \subseteq here
  /\ owed[c] = {} \/ \E r \in Requests : Pending(calls[r], c, step)

EmergencyKnown ==
  \A c \in Threads : Announced(c, untoldEmergency, online, call, "staffEmergency")

OpeningKnown == \A c \in Threads : Announced(c, untold, online, call, "staff")

\* A request about to do something in a handler has no announcement to make.
LEMMA NothingPending ==
  ASSUME TypeOK, NEW r \in Requests, Serve(r), NEW c, NEW step
  PROVE  /\ ~Pending(call[r], c, step)
         /\ \A s \in Requests : s # r => call'[s] = call[s]
         /\ online' = online
<1>1. Idle.pc = "idle" /\ call \in [Requests -> Call]
  BY DEF Idle, TypeOK
<1>2. call[r] = Idle \/ call[r].pc \in {"joining", "creating"}
  BY ZenonT(40)
  DEF Serve, EnterRoom, FindNone, AppendToExisting, CreateConversation, AuthorizeJoin,
         SendMessage, Claim, Release, FlagEmergency, ResolveEmergency, AdminReassign, Ready
<1>3. \E next : call' = [call EXCEPT ![r] = next]
  <2>1. call' = call => call' = [call EXCEPT ![r] = call[r]]
    BY <1>1
  <2> QED
    BY <2>1 DEF Serve, EnterRoom, FindNone, AppendToExisting, CreateConversation,
         AuthorizeJoin, SendMessage, Claim, Release, FlagEmergency, ResolveEmergency,
         AdminReassign, After, Goto
<1>4. online' = online
  BY DEF Serve, EnterRoom, FindNone, AppendToExisting, CreateConversation, AuthorizeJoin,
         SendMessage, Claim, Release, FlagEmergency, ResolveEmergency, AdminReassign
<1> QED
  BY <1>1, <1>2, <1>3, <1>4 DEF Pending

\* A request that has committed has its announcements to make.
LEMMA CommitPending ==
  ASSUME TypeOK, ConversationsAssumption, NEW r \in Requests, NEW u \in Users, NEW c \in Threads
  PROVE  /\ After(r, u, c, 0, <<"staff">>) => Pending(call'[r], c, "staff")
         /\ After(r, u, c, 0, <<"page", "room", "staffEmergency">>)
              => Pending(call'[r], c, "staffEmergency")
<1>1. 0 \in 0..MaxMessages
  BY DEF ConversationsAssumption
<1>2. ASSUME NEW todo \in Todos, After(r, u, c, 0, todo), NEW i \in DOMAIN todo
      PROVE  Pending(call'[r], c, todo[i])
  <2>1. call'[r] = [pc |-> "after", user |-> u, thread |-> c, number |-> 0, todo |-> todo]
    BY <1>1, <1>2, AfterEffect
  <2> QED
    BY <2>1, <1>2 DEF Pending
<1>3. After(r, u, c, 0, <<"staff">>) => Pending(call'[r], c, <<"staff">>[1])
  BY <1>2, Follows
<1>4. After(r, u, c, 0, <<"page", "room", "staffEmergency">>)
        => Pending(call'[r], c, <<"page", "room", "staffEmergency">>[3])
  BY <1>2, Follows
<1> QED
  BY <1>3, <1>4

\* Who disconnects is owed nothing more, and who connects nothing yet.
LEMMA UserAnnounced ==
  ASSUME TypeOK, NEW c \in Threads,
         \/ \E u \in Users : Connect(u) \/ Disconnect(u) \/ \E d \in Threads : MarkRead(u, d)
         \/ Restart
         \/ UNCHANGED vars
  PROVE  /\ Announced(c, untoldEmergency, online, call, "staffEmergency")
              => Announced(c, untoldEmergency', online', call', "staffEmergency")
         /\ Announced(c, untold, online, call, "staff")
              => Announced(c, untold', online', call', "staff")
<1>1. ASSUME NEW u \in Users, Connect(u) \/ \E d \in Threads : MarkRead(u, d)
      PROVE  /\ call' = call
             /\ online \subseteq online'
             /\ untoldEmergency' = untoldEmergency
             /\ untold' = untold
  BY <1>1 DEF Connect, MarkRead
<1>2. ASSUME NEW u \in Users, Disconnect(u)
      PROVE  /\ call' = call
             /\ online' = online \ {u}
             /\ untoldEmergency'[c] = untoldEmergency[c] \ {u}
             /\ untold'[c] = untold[c] \ {u}
  BY <1>2 DEF Disconnect, Forgotten
<1>3. Restart => /\ untoldEmergency'[c] = untoldEmergency[c] \ online
                 /\ untold'[c] = untold[c] \ online
  BY DEF Restart, Forgotten
<1>4. UNCHANGED vars => UNCHANGED <<call, online, untoldEmergency, untold>>
  BY DEF vars
<1>5. CASE \E u \in Users : Connect(u) \/ \E d \in Threads : MarkRead(u, d)
  BY <1>5, <1>1 DEF Announced
<1>6. CASE \E u \in Users : Disconnect(u)
  BY <1>6, <1>2 DEF Announced
<1>7. CASE Restart
  BY <1>7, <1>3 DEF Announced
<1>8. CASE UNCHANGED vars
  BY <1>8, <1>4 DEF Announced
<1> QED
  BY <1>5, <1>6, <1>7, <1>8

\* A request announces before it forgets that it has to.
LEMMA FollowUpAnnounced ==
  ASSUME TypeOK, NEW r \in Requests, FollowUp(r), NEW c \in Threads
  PROVE  /\ Announced(c, untoldEmergency, online, call, "staffEmergency")
              => Announced(c, untoldEmergency', online', call', "staffEmergency")
         /\ Announced(c, untold, online, call, "staff")
              => Announced(c, untold', online', call', "staff")
<1>1. online' = online
  BY DEF FollowUp, QueuePage, PageRefused, TellRoom, TellUpdate, TellQueue, TellEmergency,
         FanOut, Acknowledge
<1>2. ASSUME NEW step, Doing(r, step), Done(r)
      PROVE  /\ \A s \in Requests : s # r => call'[s] = call[s]
             /\ call[r].thread \in Threads
             /\ \A other \in Steps : other # step =>
                  (Pending(call[r], c, other) => Pending(call'[r], c, other))
  <2>1. call[r] \in Call /\ call[r].pc = "after"
    BY <1>2 DEF TypeOK, Doing
  <2> QED
    BY <2>1, <1>2, DoneEffect, CallFields
<1>3. "staff" \in Steps /\ "staffEmergency" \in Steps
  BY DEF Steps
<1>4. CASE TellQueue(r)
  <2>1. /\ Doing(r, "staff") /\ Done(r)
        /\ untold' = [untold EXCEPT ![call[r].thread] = @ \ online]
        /\ untoldEmergency' = untoldEmergency
    BY <1>4 DEF TellQueue
  <2>2. /\ untold'[c] \subseteq untold[c]
        /\ call[r].thread = c => untold'[c] = untold[c] \ online
    BY <2>1, <1>2 DEF TypeOK
  <2>3. call[r].thread # c => ~Pending(call[r], c, "staff")
    BY DEF Pending
  <2>4. Announced(c, untoldEmergency, online, call, "staffEmergency")
          => Announced(c, untoldEmergency', online', call', "staffEmergency")
    BY <1>1, <1>2, <1>3, <2>1 DEF Announced
  <2>5. Announced(c, untold, online, call, "staff")
          => Announced(c, untold', online', call', "staff")
    BY <1>1, <1>2, <2>1, <2>2, <2>3 DEF Announced
  <2> QED
    BY <2>4, <2>5
<1>5. CASE TellEmergency(r)
  <2>1. /\ Doing(r, "staffEmergency") /\ Done(r)
        /\ untoldEmergency' = [untoldEmergency EXCEPT ![call[r].thread] = @ \ online]
        /\ untold' = untold
    BY <1>5 DEF TellEmergency
  <2>2. /\ untoldEmergency'[c] \subseteq untoldEmergency[c]
        /\ call[r].thread = c => untoldEmergency'[c] = untoldEmergency[c] \ online
    BY <2>1, <1>2 DEF TypeOK
  <2>3. call[r].thread # c => ~Pending(call[r], c, "staffEmergency")
    BY DEF Pending
  <2>4. Announced(c, untold, online, call, "staff")
          => Announced(c, untold', online', call', "staff")
    BY <1>1, <1>2, <1>3, <2>1 DEF Announced
  <2>5. Announced(c, untoldEmergency, online, call, "staffEmergency")
          => Announced(c, untoldEmergency', online', call', "staffEmergency")
    BY <1>1, <1>2, <2>1, <2>2, <2>3 DEF Announced
  <2> QED
    BY <2>4, <2>5
<1>6. CASE \/ QueuePage(r) \/ PageRefused(r) \/ TellRoom(r) \/ TellUpdate(r)
           \/ FanOut(r) \/ Acknowledge(r)
  <2>1. PICK step \in Steps \ {"staff", "staffEmergency"} : Doing(r, step) /\ Done(r)
    BY <1>6 DEF QueuePage, PageRefused, TellRoom, TellUpdate, FanOut, Acknowledge, Steps
  <2>2. untold' = untold /\ untoldEmergency' = untoldEmergency
    BY <1>6 DEF QueuePage, PageRefused, TellRoom, TellUpdate, FanOut, Acknowledge
  <2> QED
    BY <1>1, <1>2, <1>3, <2>1, <2>2 DEF Announced
<1> QED
  BY <1>4, <1>5, <1>6 DEF FollowUp

\* A handler that owes an announcement goes on to make it; the others owe none.
LEMMA ServeAnnounced ==
  ASSUME ConversationsAssumption, TypeOK, NEW r \in Requests, Serve(r), NEW c \in Threads
  PROVE  /\ Announced(c, untoldEmergency, online, call, "staffEmergency")
              => Announced(c, untoldEmergency', online', call', "staffEmergency")
         /\ Announced(c, untold, online, call, "staff")
              => Announced(c, untold', online', call', "staff")
<1>1. /\ \A step : ~Pending(call[r], c, step)
      /\ \A s \in Requests : s # r => call'[s] = call[s]
      /\ online' = online
  BY NothingPending
<1>2. /\ untoldEmergency \in [Threads -> SUBSET Staff]
      /\ untold \in [Threads -> SUBSET Staff]
  BY DEF TypeOK
<1>3. untoldEmergency'[c] = untoldEmergency[c] =>
        (Announced(c, untoldEmergency, online, call, "staffEmergency")
           => Announced(c, untoldEmergency', online', call', "staffEmergency"))
  BY <1>1 DEF Announced
<1>4. untold'[c] = untold[c] =>
        (Announced(c, untold, online, call, "staff")
           => Announced(c, untold', online', call', "staff"))
  BY <1>1 DEF Announced
<1>5. ASSUME NEW d \in Threads, CreateConversation(r, d), c = d
      PROVE  Announced(c, untold', online', call', "staff")
  <2>1. Traveler \in Users
    BY DEF Users
  <2>2. /\ untold'[c] = online \cap Staff
        /\ Pending(call'[r], c, "staff")
    BY <2>1, <1>2, <1>5, CommitPending DEF CreateConversation
  <2> QED
    BY <2>2, <1>1 DEF Announced
<1>6. ASSUME NEW d \in Threads, NEW u \in Staff, FlagEmergency(r, u, d), c = d
      PROVE  Announced(c, untoldEmergency', online', call', "staffEmergency")
  <2>1. u \in Users
    BY DEF Users
  <2>2. /\ untoldEmergency'[c] = online \cap Staff
        /\ Pending(call'[r], c, "staffEmergency")
    BY <2>1, <1>2, <1>6, CommitPending DEF FlagEmergency
  <2> QED
    BY <2>2, <1>1 DEF Announced
<1>7. \/ untold'[c] = untold[c]
      \/ \E d \in Threads : CreateConversation(r, d) /\ c = d
  BY <1>2 DEF Serve, EnterRoom, FindNone, AppendToExisting, CreateConversation, AuthorizeJoin,
         SendMessage, Claim, Release, FlagEmergency, ResolveEmergency, AdminReassign
<1>8. \/ untoldEmergency'[c] = untoldEmergency[c]
      \/ \E d \in Threads, u \in Staff : FlagEmergency(r, u, d) /\ c = d
  BY <1>2, ZenonT(40)
  DEF Serve, EnterRoom, FindNone, AppendToExisting, CreateConversation, AuthorizeJoin,
         SendMessage, Claim, Release, FlagEmergency, ResolveEmergency, AdminReassign
<1> QED
  BY <1>3, <1>4, <1>5, <1>6, <1>7, <1>8

\* Once the requests about a thread are done, nothing is owed.
LEMMA QuietThread ==
  ASSUME NEW c \in Threads, Quiet(c), NEW owed, NEW step, Announced(c, owed, online, call, step)
  PROVE  owed[c] = {}
BY DEF Quiet, Announced, Pending

\* Every step keeps what is owed for a thread announced.
LEMMA StepAnnounced ==
  ASSUME ConversationsAssumption, TypeOK, [Next]_vars, NEW c \in Threads
  PROVE  /\ Announced(c, untoldEmergency, online, call, "staffEmergency")
              => Announced(c, untoldEmergency', online', call', "staffEmergency")
         /\ Announced(c, untold, online, call, "staff")
              => Announced(c, untold', online', call', "staff")
<1>1. CASE \E r \in Requests : Serve(r)
  BY <1>1, ServeAnnounced
<1>2. CASE \E r \in Requests : FollowUp(r)
  BY <1>2, FollowUpAnnounced
<1>3. CASE \/ \E u \in Users : Connect(u) \/ Disconnect(u) \/ \E d \in Threads : MarkRead(u, d)
           \/ Restart
           \/ UNCHANGED vars
  BY <1>3, UserAnnounced
<1> QED
  BY <1>1, <1>2, <1>3 DEF Next

\* Staff that stays connected gets to know of every emergency, also when Redis
\* refuses to queue the page and whatever else happens to the thread meanwhile.
THEOREM EmergencyIsAnnounced == ConversationsAssumption => (Spec => []EmergencyAnnounced)
<1> SUFFICES ASSUME ConversationsAssumption
             PROVE  Spec => []EmergencyAnnounced
  OBVIOUS
<1>1. Init => EmergencyKnown
  BY DEF Init, EmergencyKnown, Announced
<1>2. TypeOK /\ EmergencyKnown /\ [Next]_vars => EmergencyKnown'
  BY StepAnnounced DEF EmergencyKnown
<1>3. EmergencyKnown => EmergencyAnnounced
  BY QuietThread DEF EmergencyKnown, EmergencyAnnounced
<1> QED
  BY <1>1, <1>2, <1>3, ConversationsTypeCorrect, PTL DEF Spec

\* It also gets to know of every thread that is opened.
THEOREM StaffGetsToKnow == ConversationsAssumption => (Spec => []StaffIsTold)
<1> SUFFICES ASSUME ConversationsAssumption
             PROVE  Spec => []StaffIsTold
  OBVIOUS
<1>1. Init => OpeningKnown
  BY DEF Init, OpeningKnown, Announced
<1>2. TypeOK /\ OpeningKnown /\ [Next]_vars => OpeningKnown'
  BY StepAnnounced DEF OpeningKnown
<1>3. OpeningKnown /\ EmergencyAnnounced => StaffIsTold
  BY QuietThread DEF OpeningKnown, OpeningAnnounced, StaffIsTold
<1> QED
  BY <1>1, <1>2, <1>3, EmergencyIsAnnounced, ConversationsTypeCorrect, PTL DEF Spec
=============================================================================
