----------------------------- MODULE ChatClient -----------------------------
(***************************************************************************)
(* The realtime client of one page of the frontend: WebSocketManager with  *)
(* its sockets, the hooks that use it, and the query cache in which the    *)
(* messages of a thread are shown.  The server is what a client sees of    *)
(* it: sockets are in rooms, messages are stored and sent to rooms (see    *)
(* Conversations).                                                         *)
(***************************************************************************)
EXTENDS Naturals, FiniteSets

CONSTANTS
  Threads,     \* conversations of the user
  NoThread,    \* the null of currentConversationId
  MaxMessages, \* bound: messages of a thread
  MaxSockets,  \* bound: sockets that the page creates
  UserChanges, \* whether AuthProvider reads the user again
  Drops        \* whether connections break or are refused

VARIABLES
  sockets,  \* sockets created so far, and their state
  manager,  \* fields of WebSocketManager: socket (0 for null), currentConversationId
  outbox,   \* events that a socket has emitted and the server has not handled
  rooms,    \* rooms that the server has a socket in
  denied,   \* history: threads whose room the server last said no to for a connected socket
  frames,   \* chat:message frames on their way to a socket
  signedIn, \* whether the user is known, and useWebSocketConnection connected
  selected, \* the thread on the screen
  hooked,   \* the socket on which useChatSocket listens, 0 for none
  stored,   \* messages of each thread in the database
  cache,    \* ['messages', id] of the query cache
  fetching, \* answers to GET messages on their way
  heard     \* history: frames that a handler has been called with, by thread

vars == <<sockets, manager, outbox, rooms, denied, frames, signedIn, selected, hooked, stored,
          cache, fetching, heard>>

-----------------------------------------------------------------------------
(* Types                                                                   *)

Sockets == 1..MaxSockets

Messages == Threads \X (1..MaxMessages)

Events == {"join", "send"} \X Threads

\* "response": the answer of the server, whose data is the list.  "array": a
\* list.  The query selects data, so an array shows nothing.
Cached == [kind : {"none", "response", "array"}, messages : SUBSET Messages]

\* An answer on its way, or none.
Answers == {[pending |-> FALSE, messages |-> {}]} \cup [pending : {TRUE}, messages : SUBSET Messages]

TypeOK ==
  /\ sockets \in [Sockets -> {"none", "connecting", "connected", "closed"}]
  /\ manager \in [socket : 0..MaxSockets, currentConversationId : Threads \cup {NoThread}]
  /\ outbox \in [Sockets -> SUBSET Events]
  /\ rooms \in [Sockets -> SUBSET Threads]
  /\ denied \in [Sockets -> SUBSET Threads]
  /\ frames \in [Sockets -> SUBSET Messages]
  /\ \A s \in Sockets : sockets[s] # "connected" => rooms[s] = {} /\ frames[s] = {}
  /\ signedIn \in BOOLEAN
  /\ selected \in Threads \cup {NoThread}
  /\ hooked \in 0..MaxSockets
  /\ stored \in [Threads -> 0..MaxMessages]
  /\ cache \in [Threads -> Cached]
  /\ fetching \in [Threads -> Answers]
  /\ heard \in [Threads -> SUBSET Messages]

NotFetching == [pending |-> FALSE, messages |-> {}]

Init ==
  /\ sockets = [s \in Sockets |-> "none"]
  /\ manager = [socket |-> 0, currentConversationId |-> NoThread]
  /\ outbox = [s \in Sockets |-> {}]
  /\ rooms = [s \in Sockets |-> {}]
  /\ denied = [s \in Sockets |-> {}]
  /\ frames = [s \in Sockets |-> {}]
  /\ signedIn = FALSE
  /\ selected = NoThread
  /\ hooked = 0
  /\ stored = [c \in Threads |-> 0]
  /\ cache = [c \in Threads |-> [kind |-> "none", messages |-> {}]]
  /\ fetching = [c \in Threads |-> NotFetching]
  /\ heard = [c \in Threads |-> {}]

Created == Cardinality({s \in Sockets : sockets[s] # "none"})

\* What the screen shows of a thread.
Shown(c) == IF cache[c].kind = "response" THEN cache[c].messages ELSE {}

-----------------------------------------------------------------------------
(* WebSocketManager                                                        *)

\* connect() keeps the socket only if it is connected already; a socket that
\* is still connecting is forgotten, not closed.
Keeps == manager.socket # 0 /\ sockets[manager.socket] = "connected"

ConnectedSocket == IF Keeps THEN manager.socket ELSE Created + 1

AfterConnect == IF Keeps THEN sockets ELSE [sockets EXCEPT ![Created + 1] = "connecting"]

MayConnect == Keeps \/ Created < MaxSockets

\* Mutant: a socket that connects again does not join.
OpenOnly(s) ==
  /\ sockets[s] = "connecting"
  /\ sockets' = [sockets EXCEPT ![s] = "connected"]
  /\ UNCHANGED <<manager, outbox, rooms, denied, frames, signedIn, selected, hooked,
                 stored, cache, fetching, heard>>

\* Any socket that connects makes the last one join the current thread.
Open(s) ==
  /\ sockets[s] = "connecting"
  /\ sockets' = [sockets EXCEPT ![s] = "connected"]
  /\ outbox' = IF manager.currentConversationId # NoThread /\ manager.socket # 0
               THEN [outbox EXCEPT ![manager.socket] =
                       @ \cup {<<"join", manager.currentConversationId>>}]
               ELSE outbox
  /\ UNCHANGED <<manager, rooms, denied, frames, signedIn, selected, hooked, stored,
                 cache, fetching, heard>>

\* The token that the socket was created with has expired.
Refused(s) ==
  /\ Drops
  /\ sockets[s] = "connecting"
  /\ sockets' = [sockets EXCEPT ![s] = "closed"]
  /\ UNCHANGED <<manager, outbox, rooms, denied, frames, signedIn, selected, hooked,
                 stored, cache, fetching, heard>>

\* The connection breaks, and the socket tries again; what was on its way is lost.
Drop(s) ==
  /\ Drops
  /\ sockets[s] = "connected"
  /\ sockets' = [sockets EXCEPT ![s] = "connecting"]
  /\ outbox' = [outbox EXCEPT ![s] = {}]
  /\ rooms' = [rooms EXCEPT ![s] = {}]
  /\ denied' = [denied EXCEPT ![s] = {}]
  /\ frames' = [frames EXCEPT ![s] = {}]
  /\ UNCHANGED <<manager, signedIn, selected, hooked, stored, cache, fetching, heard>>

-----------------------------------------------------------------------------
(* Hooks                                                                   *)

\* useWebSocketConnection, once the user is known.
SignIn ==
  /\ ~signedIn /\ MayConnect
  /\ signedIn' = TRUE
  /\ sockets' = AfterConnect
  /\ manager' = [manager EXCEPT !.socket = ConnectedSocket]
  /\ UNCHANGED <<outbox, rooms, denied, frames, selected, hooked, stored, cache,
                 fetching, heard>>

\* refreshUser makes a new user object on each change of the path: the effect
\* of useWebSocketConnection disconnects and connects again.
UserRead ==
  /\ UserChanges /\ signedIn
  /\ manager.socket # 0 /\ Created < MaxSockets
  /\ sockets' = [sockets EXCEPT ![manager.socket] = "closed", ![Created + 1] = "connecting"]
  /\ manager' = [socket |-> Created + 1, currentConversationId |-> NoThread]
  /\ outbox' = [outbox EXCEPT ![manager.socket] = {}]
  /\ rooms' = [rooms EXCEPT ![manager.socket] = {}]
  /\ denied' = [denied EXCEPT ![manager.socket] = {}]
  /\ frames' = [frames EXCEPT ![manager.socket] = {}]
  /\ UNCHANGED <<signedIn, selected, hooked, stored, cache, fetching, heard>>

\* The effect of useChatSocket: listen no longer to the old thread, connect,
\* join, listen.  The old room is not left.
Select(c) ==
  /\ selected # c /\ MayConnect
  /\ selected' = c
  /\ sockets' = AfterConnect
  /\ manager' = [socket |-> ConnectedSocket, currentConversationId |-> c]
  /\ outbox' = [outbox EXCEPT ![ConnectedSocket] = @ \cup {<<"join", c>>}]
  /\ hooked' = ConnectedSocket
  /\ UNCHANGED <<rooms, denied, frames, signedIn, stored, cache, fetching, heard>>

\* sendMessage shows nothing itself; a socket that is not connected keeps it.
SendMessage ==
  /\ selected # NoThread /\ manager.socket # 0
  /\ sockets[manager.socket] # "closed"
  /\ outbox' = [outbox EXCEPT ![manager.socket] = @ \cup {<<"send", selected>>}]
  /\ UNCHANGED <<sockets, manager, rooms, denied, frames, signedIn, selected, hooked,
                 stored, cache, fetching, heard>>

-----------------------------------------------------------------------------
(* The server                                                              *)

Emitted(s, event) == sockets[s] = "connected" /\ event \in outbox[s]

Join(s, c) ==
  /\ Emitted(s, <<"join", c>>)
  /\ outbox' = [outbox EXCEPT ![s] = @ \ {<<"join", c>>}]
  /\ rooms' = [rooms EXCEPT ![s] = @ \cup {c}]
  /\ denied' = [denied EXCEPT ![s] = @ \ {c}]
  /\ UNCHANGED <<sockets, manager, frames, signedIn, selected, hooked, stored,
                 cache, fetching, heard>>

\* chat:join fails, or the thread is no longer one of the user's
\* (joinConversationRoom): the answer is { success: false }, after which the
\* client does nothing.
Deny(s, c) ==
  /\ Emitted(s, <<"join", c>>)
  /\ outbox' = [outbox EXCEPT ![s] = @ \ {<<"join", c>>}]
  /\ denied' = [denied EXCEPT ![s] = @ \cup {c}]
  /\ UNCHANGED <<sockets, manager, rooms, frames, signedIn, selected, hooked, stored,
                 cache, fetching, heard>>

Store(c) ==
  /\ stored[c] < MaxMessages
  /\ stored' = [stored EXCEPT ![c] = @ + 1]
  /\ frames' = [s \in Sockets |->
       IF c \in rooms[s] THEN frames[s] \cup {<<c, stored[c] + 1>>} ELSE frames[s]]

\* chat:send of this page.
Send(s, c) ==
  /\ Emitted(s, <<"send", c>>)
  /\ Store(c)
  /\ outbox' = [outbox EXCEPT ![s] = @ \ {<<"send", c>>}]
  /\ UNCHANGED <<sockets, manager, rooms, denied, signedIn, selected, hooked, cache,
                 fetching, heard>>

\* The other side writes.
OtherSends(c) ==
  /\ Store(c)
  /\ UNCHANGED <<sockets, manager, outbox, rooms, denied, signedIn, selected, hooked,
                 cache, fetching, heard>>

-----------------------------------------------------------------------------
(* The query cache                                                         *)

\* useConversationMessages: when the thread is opened, and when it is stale.
Fetch ==
  /\ selected # NoThread /\ ~fetching[selected].pending
  /\ fetching' = [fetching EXCEPT ![selected] =
       [pending |-> TRUE, messages |-> {<<selected, i>> : i \in 1..stored[selected]}]]
  /\ UNCHANGED <<sockets, manager, outbox, rooms, denied, frames, signedIn, selected,
                 hooked, stored, cache, heard>>

\* The whole response is cached, whatever has been put there meanwhile.
Fetched(c) ==
  /\ fetching[c].pending
  /\ cache' = [cache EXCEPT ![c] = [kind |-> "response", messages |-> fetching[c].messages]]
  /\ fetching' = [fetching EXCEPT ![c] = NotFetching]
  /\ UNCHANGED <<sockets, manager, outbox, rooms, denied, frames, signedIn, selected,
                 hooked, stored, heard>>

\* The updater of handleMessage: [msg] when there is nothing, the message added
\* to a list, and an exception when the response is there, which has no some().
Updated(entry, m) ==
  IF entry.kind = "response" THEN entry
  ELSE [kind |-> "array", messages |-> entry.messages \cup {m}]

\* handleMessage, for the thread that is open.
HandleMessage(s, m) ==
  /\ m \in frames[s]
  /\ frames' = [frames EXCEPT ![s] = @ \ {m}]
  /\ IF hooked = s /\ m[1] = selected
     THEN /\ cache' = [cache EXCEPT ![selected] = Updated(@, m)]
          /\ heard' = [heard EXCEPT ![selected] = @ \cup {m}]
     ELSE UNCHANGED <<cache, heard>>
  /\ UNCHANGED <<sockets, manager, outbox, rooms, denied, signedIn, selected, hooked,
                 stored, fetching>>

-----------------------------------------------------------------------------
Next ==
  \/ SignIn \/ UserRead \/ SendMessage \/ Fetch
  \/ \E c \in Threads : Select(c) \/ OtherSends(c) \/ Fetched(c)
  \/ \E s \in Sockets :
       \/ Open(s) \/ Refused(s) \/ Drop(s)
       \/ \E c \in Threads : Join(s, c) \/ Deny(s, c) \/ Send(s, c)
       \/ \E m \in Messages : HandleMessage(s, m)

Spec == Init /\ [][Next]_vars

-----------------------------------------------------------------------------
(* Properties                                                              *)

\* When the socket of the manager is connected and the server has handled what
\* it emitted, the server has been asked over this connection to let it into the
\* room of the manager's current thread, also after the connection broke or
\* another socket took its place (the connect handler): it is in the room,
\* unless the server refused or failed.
RejoinsAfterReconnect ==
  manager.socket # 0 /\ manager.currentConversationId # NoThread
    /\ sockets[manager.socket] = "connected" /\ outbox[manager.socket] = {}
    => manager.currentConversationId \in rooms[manager.socket] \cup denied[manager.socket]

-----------------------------------------------------------------------------
(* What comments, pages and tests say and the code does not keep: TLC      *)
(* refutes each on a small instance.                                       *)

\* A socket that has asked to join is in the room (nobody asks again).
JoinIsHeld ==
  manager.socket # 0 /\ manager.currentConversationId # NoThread
    /\ sockets[manager.socket] = "connected" /\ outbox[manager.socket] = {}
    => manager.currentConversationId \in rooms[manager.socket]

\* A message that the page has heard of is on the screen, once the thread has
\* been loaded.
LiveMessagesShown ==
  \A c \in Threads :
    cache[c].kind = "response" /\ ~fetching[c].pending => heard[c] \subseteq Shown(c)

\* Once all sockets have connected and the server has handled what they
\* emitted, the page listens to the thread on the screen.
HearsSelected ==
  selected # NoThread
    /\ (\A s \in Sockets : sockets[s] # "connecting" /\ outbox[s] = {})
    => selected \in rooms[hooked]
=============================================================================
