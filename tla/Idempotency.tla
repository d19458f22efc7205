---------------------------- MODULE Idempotency ----------------------------
(***************************************************************************)
(* The middleware in front of POST /bookings and POST /payments/intents    *)
(* that answers a request again from Redis when its Idempotency-Key was    *)
(* used before.  All commands go through one connection, which holds them  *)
(* back while it reconnects and executes them in order: what a request     *)
(* stores is there for every GET issued after its answer.                  *)
(***************************************************************************)
EXTENDS FiniteSets

CONSTANTS
  Requests, \* requests a client sends, retries included
  Keys,     \* values of the header
  Payloads, \* hashes of the body
  Overlap,  \* BOOLEAN: a request may be sent before an earlier one is answered
  Outages   \* BOOLEAN: the connection to Redis may break

VARIABLES
  request, \* what each request asked and where it is
  cache,   \* entries idem:<key>
  redis    \* the connection; "end" once the retries are exhausted

vars == <<request, cache, redis>>

-----------------------------------------------------------------------------
(* Types                                                                   *)

Unsent == [state |-> "unsent"]

Statuses == {"success", "failure", "mismatch"}

\* by: the request whose execution is reported.
Answer == [status : Statuses, by : Requests]

Nothing == [stored |-> FALSE]

CachedResponse == [stored : {TRUE}, answer : Answer, payloadHash : Payloads]

\* intercepted: res.json stores what it sends.
Sent ==
  [state : {"received"}, key : Keys, payload : Payloads]
    \cup [state : {"executing"}, key : Keys, payload : Payloads, intercepted : BOOLEAN]
    \cup [state : {"answered"}, key : Keys, payload : Payloads, answer : Answer]

TypeOK ==
  /\ request \in [Requests -> Sent \cup {Unsent}]
  /\ cache \in [Keys -> CachedResponse \cup {Nothing}]
  /\ redis \in {"up", "reconnecting", "end"}

Init ==
  /\ request = [r \in Requests |-> Unsent]
  /\ cache = [k \in Keys |-> Nothing]
  /\ redis = "up"

-----------------------------------------------------------------------------
(* Requests                                                                *)

InProgress(r) == request[r].state \in {"received", "executing"}

Send(r, k, p) ==
  /\ request[r] = Unsent
  /\ Overlap \/ \A s \in Requests : ~InProgress(s)
  /\ request' = [request EXCEPT ![r] = [state |-> "received", key |-> k, payload |-> p]]
  /\ UNCHANGED <<cache, redis>>

Answered(r, answer) ==
  [state |-> "answered", key |-> request[r].key, payload |-> request[r].payload, answer |-> answer]

Executing(r, intercepted) ==
  [state |-> "executing", key |-> request[r].key, payload |-> request[r].payload,
   intercepted |-> intercepted]

\* Mutant: the hash is not compared.
SameRequestAnyPayload(entry, r) == TRUE

SameRequest(entry, r) == entry.payloadHash = request[r].payload

\* What is stored under the key answers the request.
Lookup(r) ==
  LET entry == cache[request[r].key]
  IN  /\ request' = [request EXCEPT ![r] =
           IF ~entry.stored THEN Executing(r, TRUE)
           ELSE IF SameRequest(entry, r) THEN Answered(r, entry.answer)
           ELSE Answered(r, [status |-> "mismatch", by |-> entry.answer.by])]
      /\ UNCHANGED cache

\* Mutant: without Redis the middleware goes on waiting.
CheckWaits(r) ==
  /\ request[r].state = "received"
  /\ redis = "up"
  /\ Lookup(r)
  /\ UNCHANGED redis

Check(r) ==
  /\ request[r].state = "received"
  /\ \/ redis = "up" /\ Lookup(r)
     \/ \* The command fails, and the request proceeds without.
        /\ redis = "end"
        /\ request' = [request EXCEPT ![r] = Executing(r, FALSE)]
        /\ UNCHANGED cache
  /\ UNCHANGED redis

EntryOf(r, answer) == [stored |-> TRUE, answer |-> answer, payloadHash |-> request[r].payload]

\* The handler and its answer, which is stored whatever its status is.
Execute(r, status) ==
  LET answer == [status |-> status, by |-> r]
  IN  /\ request[r].state = "executing"
      /\ request' = [request EXCEPT ![r] = Answered(r, answer)]
      /\ cache' = IF request[r].intercepted /\ redis # "end"
                  THEN [cache EXCEPT ![request[r].key] = EntryOf(r, answer)]
                  ELSE cache
      /\ UNCHANGED redis

-----------------------------------------------------------------------------
(* Redis                                                                   *)

\* IDEMPOTENCY_TTL_SECONDS have passed: no client retries after a day, so it
\* happens to a key with no request to come.
Expire(k) ==
  /\ cache[k].stored
  /\ \A r \in Requests : request[r] # Unsent /\ (InProgress(r) => request[r].key # k)
  /\ cache' = [cache EXCEPT ![k] = Nothing]
  /\ UNCHANGED <<request, redis>>

Outage ==
  /\ Outages
  /\ redis = "up"
  /\ redis' = "reconnecting"
  /\ UNCHANGED <<request, cache>>

\* retryStrategy: ten attempts, after which nothing connects again.
Reconnect ==
  /\ redis = "reconnecting"
  /\ redis' \in {"up", "end"}
  /\ UNCHANGED <<request, cache>>

-----------------------------------------------------------------------------
Handle(r) == Check(r) \/ \E status \in {"success", "failure"} : Execute(r, status)

Next ==
  \/ \E r \in Requests, k \in Keys, p \in Payloads : Send(r, k, p)
  \/ \E r \in Requests : Handle(r)
  \/ \E k \in Keys : Expire(k)
  \/ Outage
  \/ Reconnect

\* A handler ends, and reconnecting ends one way or the other.
Fairness ==
  /\ \A r \in Requests : SF_vars(Handle(r))
  /\ WF_vars(Reconnect)

Spec == Init /\ [][Next]_vars /\ Fairness

-----------------------------------------------------------------------------
(* Properties                                                              *)

IsAnswered(r) == request[r].state = "answered"

\* Its handler ran, which the answer it got names it for.
Executed(r) == IsAnswered(r) /\ request[r].answer.by = r

\* A request gets the answer of an execution for the same key and body, and is
\* refused only after an execution for the same key and another body.
AnswersBelong ==
  \A r \in Requests : IsAnswered(r) =>
    LET answer == request[r].answer
        origin == request[answer.by]
    IN  /\ Executed(answer.by)
        /\ origin.key = request[r].key
        /\ IF answer.status = "mismatch" THEN origin.payload # request[r].payload
           ELSE origin.payload = request[r].payload /\ origin.answer = answer

\* Every request that is sent is answered, with Redis or without.
EveryRequestAnswered ==
  \A r \in Requests : InProgress(r) ~> IsAnswered(r)

-----------------------------------------------------------------------------
(* What comments, pages and tests say and the code does not keep: TLC      *)
(* refutes each on a small instance.                                       *)

\* "Ensures that mutating operations with the same Idempotency-Key return the
\* original response instead of executing again."
ExecutesOnce ==
  \A r, s \in Requests :
    r # s /\ Executed(r) /\ Executed(s) => request[r].key # request[s].key
=============================================================================
