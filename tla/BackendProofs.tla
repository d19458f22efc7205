--------------------------- MODULE BackendProofs ---------------------------
(***************************************************************************)
(* Proofs about smaller components of the backend, for all values of their *)
(* constants.                                                              *)
(***************************************************************************)
EXTENDS Backend, SumsProofs, TLAPS

-----------------------------------------------------------------------------
(* Idempotency                                                             *)

USE DEF Idem!Statuses

\* What a request holds at each point, and what an entry of the cache does.
LEMMA RequestFields ==
  ASSUME NEW q \in Idem!Sent \cup {Idem!Unsent}
  PROVE  /\ q.state \in {"unsent", "received", "executing", "answered"}
         /\ q.state # "unsent" => q.key \in Keys /\ q.payload \in Payloads
         /\ q.state = "executing" => q.intercepted \in BOOLEAN
         /\ q.state = "answered" => q.answer \in Idem!Answer
BY DEF Idem!Sent, Idem!Unsent

LEMMA EntryFields ==
  ASSUME NEW e \in Idem!CachedResponse \cup {Idem!Nothing}
  PROVE  /\ e.stored \in BOOLEAN
         /\ e.stored => e.answer \in Idem!Answer /\ e.payloadHash \in Payloads
<1>1. CASE e = Idem!Nothing
  BY <1>1 DEF Idem!Nothing
<1>2. CASE e \in Idem!CachedResponse
  <2>1. /\ e.stored = TRUE
        /\ e.answer \in Idem!Answer
        /\ e.payloadHash \in Payloads
    BY <1>2 DEF Idem!CachedResponse
  <2> QED
    BY <2>1
<1> QED
  BY <1>1, <1>2

\* Requests and entries stay well typed through every outage of Redis, and
\* also if Redis never comes back.
THEOREM IdempotencyTypeCorrect ==
  Idem!Init /\ [][Idem!Next]_(Idem!vars) => []Idem!TypeOK
<1>1. Idem!Init => Idem!TypeOK
  BY DEF Idem!Init, Idem!TypeOK
<1>2. Idem!TypeOK /\ [Idem!Next]_Idem!vars => Idem!TypeOK'
  <2> SUFFICES ASSUME Idem!TypeOK, [Idem!Next]_Idem!vars
               PROVE  Idem!TypeOK'
    OBVIOUS
  <2>1. ASSUME NEW r \in Requests, NEW k \in Keys, NEW p \in Payloads, Idem!Send(r, k, p)
        PROVE  Idem!TypeOK'
    <3>1. [state |-> "received", key |-> k, payload |-> p] \in Idem!Sent
      BY DEF Idem!Sent
    <3> QED
      BY <2>1, <3>1 DEF Idem!Send, Idem!TypeOK
  <2>2. ASSUME NEW r \in Requests, Idem!Check(r)
        PROVE  Idem!TypeOK'
    <3>1. request[r].state = "received" /\ request[r] \in Idem!Sent \cup {Idem!Unsent}
      BY <2>2 DEF Idem!Check, Idem!TypeOK
    <3>2. request[r].key \in Keys /\ request[r].payload \in Payloads
      BY <3>1, RequestFields
    <3>3. \A b \in BOOLEAN : Idem!Executing(r, b) \in Idem!Sent
      BY <3>2 DEF Idem!Executing, Idem!Sent
    <3>4. \A a \in Idem!Answer : Idem!Answered(r, a) \in Idem!Sent
      BY <3>2 DEF Idem!Answered, Idem!Sent
    <3>5. answers[request[r].key] \in Idem!CachedResponse \cup {Idem!Nothing}
      BY <3>2 DEF Idem!TypeOK
    <3>6. answers[request[r].key].stored =>
            /\ answers[request[r].key].answer \in Idem!Answer
            /\ [status |-> "mismatch", by |-> answers[request[r].key].answer.by] \in Idem!Answer
      BY <3>5, EntryFields DEF Idem!Answer
    <3>7. \E q \in Idem!Sent : request' = [request EXCEPT ![r] = q]
      BY <2>2, <3>3, <3>4, <3>6 DEF Idem!Check, Idem!Lookup
    <3>8. UNCHANGED <<answers, redis>>
      BY <2>2 DEF Idem!Check, Idem!Lookup
    <3> QED
      BY <3>7, <3>8 DEF Idem!TypeOK
  <2>3. ASSUME NEW r \in Requests, NEW status \in {"success", "failure"}, Idem!Execute(r, status)
        PROVE  Idem!TypeOK'
    <3> DEFINE answer == [status |-> status, by |-> r]
    <3>1. request[r].state = "executing" /\ request[r] \in Idem!Sent \cup {Idem!Unsent}
      BY <2>3 DEF Idem!Execute, Idem!TypeOK
    <3>2. request[r].key \in Keys /\ request[r].payload \in Payloads
      BY <3>1, RequestFields
    <3>3. answer \in Idem!Answer
      BY DEF Idem!Answer
    <3>4. request' = [request EXCEPT ![r] = Idem!Answered(r, answer)]
      BY <2>3 DEF Idem!Execute
    <3>5. \/ answers' = answers
          \/ answers' = [answers EXCEPT ![request[r].key] = Idem!EntryOf(r, answer)]
      BY <2>3 DEF Idem!Execute
    <3>6. Idem!Answered(r, answer) \in Idem!Sent /\ Idem!EntryOf(r, answer) \in Idem!CachedResponse
      BY <3>2, <3>3 DEF Idem!Answered, Idem!EntryOf, Idem!Sent, Idem!CachedResponse
    <3>7. redis' = redis
      BY <2>3 DEF Idem!Execute
    <3> QED
      BY <3>4, <3>5, <3>6, <3>7 DEF Idem!TypeOK
  <2>4. ASSUME NEW k \in Keys, Idem!Expire(k)
        PROVE  Idem!TypeOK'
    BY <2>4 DEF Idem!Expire, Idem!TypeOK
  <2>5. Idem!Outage \/ Idem!Reconnect \/ UNCHANGED Idem!vars => Idem!TypeOK'
    BY DEF Idem!Outage, Idem!Reconnect, Idem!vars, Idem!TypeOK
  <2> QED
    BY <2>1, <2>2, <2>3, <2>4, <2>5 DEF Idem!Next, Idem!Handle
<1> QED
  BY <1>1, <1>2, PTL

\* An execution that has been answered, for this key and body and with this
\* answer.
Origin(table, answer, key, payload) ==
  LET origin == table[answer.by]
  IN  /\ origin.state = "answered"
      /\ origin.answer = answer
      /\ origin.key = key
      /\ origin.payload = payload

\* An entry reports an execution for its key and its body.
EntriesReport ==
  \A k \in Keys : answers[k].stored =>
    /\ Origin(request, answers[k].answer, k, answers[k].payloadHash)
    /\ answers[k].answer.status # "mismatch"

AnswerInv == Idem!TypeOK /\ Idem!AnswersBelong /\ EntriesReport

\* The answer of one request, fresh, repeated or refused.
Belongs(table, q) ==
  q.state = "answered" =>
    /\ table[q.answer.by].state = "answered"
    /\ table[q.answer.by].answer.by = q.answer.by
    /\ table[q.answer.by].key = q.key
    /\ IF q.answer.status = "mismatch" THEN table[q.answer.by].payload # q.payload
       ELSE table[q.answer.by].payload = q.payload /\ table[q.answer.by].answer = q.answer

LEMMA AllBelong ==
  Idem!AnswersBelong <=> \A r \in Requests : Belongs(request, request[r])
BY DEF Idem!AnswersBelong, Idem!IsAnswered, Idem!Executed, Belongs

\* A request that has been answered is over: nothing that rests on it changes
\* when another one moves on.
LEMMA OriginsStay ==
  ASSUME AnswerInv, NEW r \in Requests, request[r].state # "answered",
         NEW q \in Idem!Sent \cup {Idem!Unsent}, request' = [request EXCEPT ![r] = q]
  PROVE  /\ \A a \in Idem!Answer : \A k, p :
              Origin(request, a, k, p) => Origin(request', a, k, p)
         /\ \A s \in Requests : s # r => Belongs(request', request'[s])
<1> USE DEF AnswerInv
<1>1. /\ request'[r] = q
      /\ \A s \in Requests : s # r => request'[s] = request[s]
  BY DEF Idem!TypeOK
<1>2. \A a \in Idem!Answer : a.by \in Requests
  BY DEF Idem!Answer
<1>3. \A a \in Idem!Answer : \A k, p : Origin(request, a, k, p) => Origin(request', a, k, p)
  BY <1>1, <1>2 DEF Origin
<1>4. ASSUME NEW s \in Requests, s # r
      PROVE  Belongs(request', request'[s])
  <2>1. Belongs(request, request[s]) /\ request'[s] = request[s]
    BY <1>1, <1>4, AllBelong
  <2>2. request[s].state = "answered" => request[s].answer \in Idem!Answer
    BY RequestFields DEF Idem!TypeOK
  <2>3. request[s].state = "answered" =>
          /\ request[s].answer.by \in Requests
          /\ request[s].answer.by # r
    BY <2>1, <2>2, <1>2 DEF Belongs
  <2> QED
    BY <2>1, <2>3, <1>1 DEF Belongs
<1> QED
  BY <1>3, <1>4

\* Whatever the connection to Redis does, a repeated answer is the one of an
\* execution for the same key and body, and a refusal has a reason.
LEMMA AnswersAreOfTheRequest ==
  Idem!Init /\ [][Idem!Next]_(Idem!vars) => []Idem!AnswersBelong
<1>1. Idem!Init => AnswerInv
  BY DEF Idem!Init, AnswerInv, Idem!TypeOK, Idem!AnswersBelong, Idem!IsAnswered, EntriesReport,
         Idem!Unsent, Idem!Nothing
<1>2. Idem!TypeOK' /\ AnswerInv /\ [Idem!Next]_Idem!vars => AnswerInv'
  <2> SUFFICES ASSUME Idem!TypeOK', AnswerInv, [Idem!Next]_Idem!vars
               PROVE  Idem!AnswersBelong' /\ EntriesReport'
    BY DEF AnswerInv
  <2>1. Idem!TypeOK /\ Idem!AnswersBelong /\ EntriesReport
    BY DEF AnswerInv
  <2>2. ASSUME NEW r \in Requests, NEW q \in Idem!Sent, request[r].state # "answered",
               request' = [request EXCEPT ![r] = q], Belongs(request', q)
        PROVE  Idem!AnswersBelong'
    <3>1. request'[r] = q
      BY <2>1, <2>2 DEF Idem!TypeOK
    <3>2. \A s \in Requests : Belongs(request', request'[s])
      BY <2>2, <3>1, OriginsStay
    <3> QED
      BY <3>2 DEF Idem!AnswersBelong, Idem!IsAnswered, Idem!Executed, Belongs
  <2>3. ASSUME NEW r \in Requests, NEW q \in Idem!Sent, request[r].state # "answered",
               request' = [request EXCEPT ![r] = q], answers' = answers
        PROVE  EntriesReport'
    <3>1. \A k \in Keys : answers[k].stored => answers[k].answer \in Idem!Answer
      BY <2>1, EntryFields DEF Idem!TypeOK
    <3> QED
      BY <2>1, <2>3, <3>1, OriginsStay DEF EntriesReport
  <2>4. ASSUME NEW r \in Requests, NEW k \in Keys, NEW p \in Payloads, Idem!Send(r, k, p)
        PROVE  Idem!AnswersBelong' /\ EntriesReport'
    <3> DEFINE q == [state |-> "received", key |-> k, payload |-> p]
    <3>1. q \in Idem!Sent /\ Belongs(request', q)
      BY DEF Idem!Sent, Belongs
    <3>2. request[r].state # "answered"
      BY <2>4 DEF Idem!Send, Idem!Unsent
    <3>3. request' = [request EXCEPT ![r] = q] /\ answers' = answers
      BY <2>4 DEF Idem!Send
    <3> HIDE DEF q
    <3> QED
      BY <3>1, <3>2, <3>3, <2>2, <2>3
  <2>5. ASSUME NEW r \in Requests, Idem!Check(r)
        PROVE  Idem!AnswersBelong' /\ EntriesReport'
    <3>1. request[r].state = "received" /\ request[r] \in Idem!Sent \cup {Idem!Unsent}
      BY <2>1, <2>5 DEF Idem!Check, Idem!TypeOK
    <3>2. request[r].key \in Keys /\ request[r].payload \in Payloads
      BY <3>1, RequestFields
    <3>3. answers' = answers
      BY <2>5 DEF Idem!Check, Idem!Lookup
    <3>4. PICK b \in BOOLEAN :
            \/ request' = [request EXCEPT ![r] = Idem!Executing(r, b)]
            \/ /\ answers[request[r].key].stored
               /\ \/ /\ Idem!SameRequest(answers[request[r].key], r)
                     /\ request' = [request EXCEPT ![r] =
                          Idem!Answered(r, answers[request[r].key].answer)]
                  \/ /\ ~Idem!SameRequest(answers[request[r].key], r)
                     /\ request' = [request EXCEPT ![r] =
                          Idem!Answered(r, [status |-> "mismatch",
                                            by |-> answers[request[r].key].answer.by])]
      BY <2>5 DEF Idem!Check, Idem!Lookup
    <3>5. CASE request' = [request EXCEPT ![r] = Idem!Executing(r, b)]
      <4>1. Idem!Executing(r, b) \in Idem!Sent /\ Belongs(request', Idem!Executing(r, b))
        BY <3>2 DEF Idem!Executing, Idem!Sent, Belongs
      <4> QED
        BY <4>1, <3>1, <3>3, <3>5, <2>2, <2>3
    <3>6. ASSUME answers[request[r].key].stored
          PROVE  LET a == answers[request[r].key].answer
                 IN  /\ a \in Idem!Answer
                     /\ a.by \in Requests
                     /\ a.status # "mismatch"
                     /\ Origin(request, a, request[r].key, answers[request[r].key].payloadHash)
                     /\ a.by # r
      <4>1. answers[request[r].key] \in Idem!CachedResponse \cup {Idem!Nothing}
        BY <3>2, <2>1 DEF Idem!TypeOK
      <4>2. answers[request[r].key].answer \in Idem!Answer
        BY <4>1, <3>6, EntryFields
      <4>3. answers[request[r].key].answer.by \in Requests
        BY <4>2 DEF Idem!Answer
      <4>4. /\ answers[request[r].key].answer.status # "mismatch"
            /\ Origin(request, answers[request[r].key].answer, request[r].key,
                      answers[request[r].key].payloadHash)
        BY <3>2, <3>6, <2>1 DEF EntriesReport
      <4> QED
        BY <4>2, <4>3, <4>4, <3>1 DEF Origin
    <3>7. CASE /\ answers[request[r].key].stored
               /\ Idem!SameRequest(answers[request[r].key], r)
               /\ request' = [request EXCEPT ![r] =
                    Idem!Answered(r, answers[request[r].key].answer)]
      <4> DEFINE a == answers[request[r].key].answer
                 q == Idem!Answered(r, a)
      <4>1. /\ a \in Idem!Answer /\ a.by \in Requests /\ a.by # r
            /\ a.status # "mismatch"
            /\ Origin(request, a, request[r].key, request[r].payload)
        BY <3>6, <3>7 DEF Idem!SameRequest
      <4>2. q \in Idem!Sent
        BY <4>1, <3>2 DEF Idem!Answered, Idem!Sent
      <4>3. request'[a.by] = request[a.by]
        BY <4>1, <3>7, <2>1 DEF Idem!TypeOK
      <4> HIDE DEF a
      <4>4. Belongs(request', q)
        BY <4>1, <4>3 DEF Belongs, Origin, Idem!Answered
      <4> QED
        BY <4>2, <4>4, <3>1, <3>3, <3>7, <2>2, <2>3 DEF a
    <3>8. CASE /\ answers[request[r].key].stored
               /\ ~Idem!SameRequest(answers[request[r].key], r)
               /\ request' = [request EXCEPT ![r] =
                    Idem!Answered(r, [status |-> "mismatch",
                                      by |-> answers[request[r].key].answer.by])]
      <4> DEFINE a == answers[request[r].key].answer
                 m == [status |-> "mismatch", by |-> a.by]
                 q == Idem!Answered(r, m)
      <4>1. /\ a \in Idem!Answer /\ a.by \in Requests /\ a.by # r
            /\ Origin(request, a, request[r].key, answers[request[r].key].payloadHash)
            /\ answers[request[r].key].payloadHash # request[r].payload
        BY <3>6, <3>8 DEF Idem!SameRequest
      <4>2. m \in Idem!Answer
        BY <4>1 DEF Idem!Answer
      <4>3. q \in Idem!Sent
        BY <4>2, <3>2 DEF Idem!Answered, Idem!Sent
      <4>4. request'[a.by] = request[a.by]
        BY <4>1, <3>8, <2>1 DEF Idem!TypeOK
      <4> HIDE DEF a
      <4>5. Belongs(request', q)
        BY <4>1, <4>4 DEF Belongs, Origin, Idem!Answered
      <4> QED
        BY <4>3, <4>5, <3>1, <3>3, <3>8, <2>2, <2>3 DEF a
    <3> QED
      BY <3>4, <3>5, <3>7, <3>8
  <2>6. ASSUME NEW r \in Requests, NEW status \in {"success", "failure"}, Idem!Execute(r, status)
        PROVE  Idem!AnswersBelong' /\ EntriesReport'
    <3> DEFINE a == [status |-> status, by |-> r]
               q == Idem!Answered(r, a)
    <3>1. request[r].state = "executing" /\ request[r] \in Idem!Sent \cup {Idem!Unsent}
      BY <2>1, <2>6 DEF Idem!Execute, Idem!TypeOK
    <3>2. request[r].key \in Keys /\ request[r].payload \in Payloads
      BY <3>1, RequestFields
    <3>3. a \in Idem!Answer /\ a.by = r /\ a.status # "mismatch"
      BY DEF Idem!Answer
    <3>4. q \in Idem!Sent /\ q.state = "answered" /\ q.answer = a
            /\ q.key = request[r].key /\ q.payload = request[r].payload
      BY <3>2, <3>3 DEF Idem!Answered, Idem!Sent
    <3>5. request' = [request EXCEPT ![r] = q]
      BY <2>6 DEF Idem!Execute
    <3>6. \/ answers' = answers
          \/ answers' = [answers EXCEPT ![request[r].key] = Idem!EntryOf(r, a)]
      BY <2>6 DEF Idem!Execute
    <3>7. Idem!EntryOf(r, a).answer = a /\ Idem!EntryOf(r, a).payloadHash = request[r].payload
      BY DEF Idem!EntryOf
    <3> HIDE DEF a, q
    <3>8. request'[r] = q
      BY <3>5, <2>1 DEF Idem!TypeOK
    <3>9. Belongs(request', q)
      BY <3>3, <3>4, <3>8 DEF Belongs
    <3>10. Idem!AnswersBelong'
      BY <3>1, <3>4, <3>5, <3>9, <2>2
    <3>11. CASE answers' = answers
      BY <3>1, <3>4, <3>5, <3>11, <2>3, <3>10
    <3>12. CASE answers' = [answers EXCEPT ![request[r].key] = Idem!EntryOf(r, a)]
      <4>1. /\ answers'[request[r].key] = Idem!EntryOf(r, a)
            /\ \A k \in Keys : k # request[r].key => answers'[k] = answers[k]
        BY <3>2, <3>12, <2>1 DEF Idem!TypeOK
      <4>2. Origin(request', a, request[r].key, request[r].payload)
        BY <3>3, <3>4, <3>8 DEF Origin
      <4>3. ASSUME NEW k \in Keys, k # request[r].key, answers[k].stored
            PROVE  /\ Origin(request', answers[k].answer, k, answers[k].payloadHash)
                   /\ answers[k].answer.status # "mismatch"
        <5>1. answers[k].answer \in Idem!Answer
          BY <4>3, <2>1, EntryFields DEF Idem!TypeOK
        <5>2. /\ Origin(request, answers[k].answer, k, answers[k].payloadHash)
              /\ answers[k].answer.status # "mismatch"
          BY <4>3, <2>1 DEF EntriesReport
        <5> QED
          BY <5>1, <5>2, <3>1, <3>4, <3>5, OriginsStay
      <4> QED
        BY <4>1, <4>2, <4>3, <3>3, <3>7, <3>10 DEF EntriesReport
    <3> QED
      BY <3>6, <3>11, <3>12, <3>10
  <2>7. ASSUME NEW k \in Keys, Idem!Expire(k)
        PROVE  Idem!AnswersBelong' /\ EntriesReport'
    <3>1. request' = request /\ answers' = [answers EXCEPT ![k] = Idem!Nothing]
      BY <2>7 DEF Idem!Expire
    <3>2. \A d \in Keys : answers'[d].stored => answers'[d] = answers[d]
      BY <3>1, <2>1 DEF Idem!TypeOK, Idem!Nothing
    <3>3. EntriesReport'
      BY <3>1, <3>2, <2>1 DEF EntriesReport
    <3>4. Idem!AnswersBelong'
      BY <3>1, <2>1 DEF Idem!AnswersBelong, Idem!IsAnswered, Idem!Executed
    <3> QED
      BY <3>3, <3>4
  <2>8. CASE request' = request /\ answers' = answers
    BY <2>8, <2>1 DEF Idem!AnswersBelong, Idem!IsAnswered, Idem!Executed, EntriesReport
  <2>9. Idem!Outage \/ Idem!Reconnect \/ UNCHANGED Idem!vars
          => request' = request /\ answers' = answers
    BY DEF Idem!Outage, Idem!Reconnect, Idem!vars
  <2> QED
    BY <2>4, <2>5, <2>6, <2>7, <2>8, <2>9 DEF Idem!Next, Idem!Handle
<1>3. AnswerInv => Idem!AnswersBelong
  BY DEF AnswerInv
<1> QED
  BY <1>1, <1>2, <1>3, IdempotencyTypeCorrect, PTL

-----------------------------------------------------------------------------
(* Notifications                                                           *)

\* A call that the attempt in hand has made already.
Called(k, calls, c) == \E i \in 1..(k.step - 1) : calls[i] = c

\* Attempts that were begun, as a number of one job.
BegunBy(k) ==
  k.attemptsMade + k.stalled + (IF k.state \in {"active", "orphaned", "completed"} THEN 1 ELSE 0)

\* What one job, and how often it reached whom, tell of each other: an attempt
\* calls each channel once and in order, an end comes after the last call.
Consistent(k, calls, count) ==
  /\ k \in Queue!Job
  /\ count \in [Queue!Channels -> Nat]
  /\ k.step <= Len(calls) + 1
  /\ k.state \in {"absent", "waiting", "delayed"} => k.step = 1
  /\ k.state \notin {"failed", "completed"} => k.attemptsMade < Attempts
  /\ k.state # "failed" => k.attemptsMade < Attempts /\ k.stalled < 2
  /\ \A c \in Queue!Channels : count[c] <= BegunBy(k)
  /\ BegunBy(k) <= Attempts + 1
  /\ k.state = "active" =>
       /\ \A c \in Queue!Channels : count[c] = BegunBy(k) => Called(k, calls, c)
       /\ \A i \in 1..(k.step - 1) : count[calls[i]] > 0
  /\ k.state = "completed" => \A i \in 1..Len(calls) : count[calls[i]] > 0

QueueInv ==
  /\ job \in [Queue!Jobs -> Queue!Job]
  /\ delivered \in [Queue!Jobs -> [Queue!Channels -> Nat]]
  /\ worker \in {"running", "closing", "down"}
  /\ restarts \in 0..Restarts
  /\ \A j \in Queue!Jobs : Consistent(job[j], Queue!Calls(j), delivered[j])

LEMMA CallsFact ==
  ASSUME NEW j \in Queue!Jobs
  PROVE  /\ Queue!Calls(j) \in Seq(Queue!Channels)
         /\ Len(Queue!Calls(j)) \in 1..2
         /\ \A i, l \in 1..Len(Queue!Calls(j)) : Queue!Calls(j)[i] = Queue!Calls(j)[l] => i = l
         /\ \A i \in 1..Len(Queue!Calls(j)) : Queue!Calls(j)[i] \in Queue!Channels
BY DEF Queue!Calls, Queue!Channels

\* What changes one job and its count only.
LEMMA OneJob ==
  ASSUME QueueInv, NEW j \in Queue!Jobs, NEW k, NEW count,
         Consistent(k, Queue!Calls(j), count),
         job' = [job EXCEPT ![j] = k], delivered' = [delivered EXCEPT ![j] = count],
         worker' = worker, restarts' = restarts
  PROVE  QueueInv'
<1>1. k \in Queue!Job /\ count \in [Queue!Channels -> Nat]
  BY DEF Consistent
<1>2. /\ job' \in [Queue!Jobs -> Queue!Job]
      /\ delivered' \in [Queue!Jobs -> [Queue!Channels -> Nat]]
      /\ job'[j] = k /\ delivered'[j] = count
      /\ \A i \in Queue!Jobs : i # j => job'[i] = job[i] /\ delivered'[i] = delivered[i]
  BY <1>1 DEF QueueInv
<1>3. \A i \in Queue!Jobs : Consistent(job'[i], Queue!Calls(i), delivered'[i])
  BY <1>2 DEF QueueInv
<1> QED
  BY <1>2, <1>3 DEF QueueInv, Queue!Calls, Queue!Channels

States == {"absent", "waiting", "active", "orphaned", "delayed", "completed", "failed"}

LEMMA JobFields ==
  ASSUME NEW k \in Queue!Job
  PROVE  /\ k.state \in States
         /\ k.attemptsMade \in 0..Attempts
         /\ k.stalled \in 0..2
         /\ k.step \in 1..3
BY DEF Queue!Job, States

\* A job with these fields.
Is(k, state, attemptsMade, stalled, step) ==
  /\ k \in Queue!Job
  /\ k.state = state
  /\ k.attemptsMade = attemptsMade
  /\ k.stalled = stalled
  /\ k.step = step

\* What the updates of the actions come to.
LEMMA StateUpdate ==
  ASSUME NEW k \in Queue!Job, NEW s \in States
  PROVE  Is([k EXCEPT !.state = s], s, k.attemptsMade, k.stalled, k.step)
BY DEF Queue!Job, Is, States

LEMMA StepUpdate ==
  ASSUME NEW k \in Queue!Job, NEW x \in 1..3
  PROVE  Is([k EXCEPT !.step = x], k.state, k.attemptsMade, k.stalled, x)
BY DEF Queue!Job, Is

LEMMA StallUpdate ==
  ASSUME NEW k \in Queue!Job, NEW s \in States, NEW x \in 1..3, NEW y \in 0..2
  PROVE  Is([k EXCEPT !.stalled = y, !.step = x, !.state = s], s, k.attemptsMade, y, x)
BY DEF Queue!Job, Is, States

LEMMA ErrorUpdate ==
  ASSUME NEW k \in Queue!Job, NEW s \in States, NEW x \in 1..3, NEW y \in 0..Attempts
  PROVE  Is([k EXCEPT !.attemptsMade = y, !.step = x, !.state = s], s, y, k.stalled, x)
BY DEF Queue!Job, Is, States

\* A step outside an attempt: only the state moves, and no attempt begins or
\* ends unless it is one that has made no call.
LEMMA QueueSteps ==
  ASSUME Queue!NotificationsAssumption, QueueInv, NEW j \in Queue!Jobs,
         \/ Queue!Add(j) \/ Queue!Backoff(j) \/ Queue!Stall(j) \/ Queue!Take(j)
         \/ Queue!Complete(j)
  PROVE  QueueInv'
<1> DEFINE k == job[j]
           calls == Queue!Calls(j)
           count == delivered[j]
<1>1. /\ Consistent(k, calls, count)
      /\ k \in Queue!Job
      /\ delivered \in [Queue!Jobs -> [Queue!Channels -> Nat]]
      /\ Attempts \in Nat \ {0}
  BY DEF QueueInv, Queue!NotificationsAssumption
<1>2. /\ k.attemptsMade \in 0..Attempts
      /\ k.stalled \in 0..2
      /\ k.step \in 1..3
      /\ Len(calls) \in 1..2
      /\ count \in [Queue!Channels -> Nat]
  BY <1>1, JobFields, CallsFact
<1>3. delivered' = [delivered EXCEPT ![j] = count] /\ worker' = worker /\ restarts' = restarts
  BY <1>1 DEF Queue!Add, Queue!Backoff, Queue!Stall, Queue!Take, Queue!Complete
<1>4. ASSUME NEW n, job' = [job EXCEPT ![j] = n], Consistent(n, calls, count)
      PROVE  QueueInv'
  BY <1>3, <1>4, OneJob
<1>5. CASE Queue!Add(j) \/ Queue!Backoff(j)
  <2> DEFINE n == [k EXCEPT !.state = "waiting"]
  <2>1. k.state \in {"absent", "delayed"} /\ job' = [job EXCEPT ![j] = n]
    BY <1>5 DEF Queue!Add, Queue!Backoff, Queue!Absent
  <2>2. Is(n, "waiting", k.attemptsMade, k.stalled, k.step)
    BY <1>1, StateUpdate DEF States
  <2> HIDE DEF n
  <2>3. Consistent(n, calls, count)
    BY <1>1, <1>2, <2>1, <2>2 DEF Consistent, BegunBy, Is
  <2> QED
    BY <2>1, <2>3, <1>4
<1>6. CASE Queue!Stall(j)
  <2> DEFINE s == IF k.stalled = 0 THEN "waiting" ELSE "failed"
             n == [k EXCEPT !.stalled = k.stalled + 1, !.step = 1, !.state = s]
  <2>1. k.state = "orphaned" /\ job' = [job EXCEPT ![j] = n]
    BY <1>6 DEF Queue!Stall
  <2>2. s \in States /\ k.stalled + 1 \in 0..2 /\ 1 \in 1..3
    BY <1>1, <1>2, <2>1 DEF Consistent, States
  <2> HIDE DEF k, s
  <2>3. Is(n, s, k.attemptsMade, k.stalled + 1, 1)
    BY <1>1, <2>2, StallUpdate
  <2> HIDE DEF n
  <2>4. Consistent(n, calls, count)
    BY <1>1, <1>2, <2>1, <2>3 DEF Consistent, BegunBy, Is, s
  <2> QED
    BY <2>1, <2>4, <1>4 DEF k, s
<1>7. CASE Queue!Take(j)
  <2> DEFINE n == [k EXCEPT !.state = "active"]
  <2>1. k.state = "waiting" /\ job' = [job EXCEPT ![j] = n]
    BY <1>7 DEF Queue!Take
  <2>2. Is(n, "active", k.attemptsMade, k.stalled, k.step)
    BY <1>1, StateUpdate DEF States
  <2> HIDE DEF n
  <2>3. Consistent(n, calls, count)
    BY <1>1, <1>2, <2>1, <2>2 DEF Consistent, BegunBy, Is
  <2> QED
    BY <2>1, <2>3, <1>4
<1>8. CASE Queue!Complete(j)
  <2> DEFINE n == [k EXCEPT !.state = "completed"]
  <2>1. /\ k.state = "active" /\ k.step > Len(calls)
        /\ job' = [job EXCEPT ![j] = n]
    BY <1>8 DEF Queue!Complete
  <2>2. Is(n, "completed", k.attemptsMade, k.stalled, k.step)
    BY <1>1, StateUpdate DEF States
  <2> HIDE DEF n
  <2>3. Consistent(n, calls, count)
    BY <1>1, <1>2, <2>1, <2>2 DEF Consistent, BegunBy, Is
  <2> QED
    BY <2>1, <2>3, <1>4
<1> QED
  BY <1>5, <1>6, <1>7, <1>8

\* A call to a provider, whether it succeeds, fails, or fails after it has
\* delivered.
LEMMA SendStep ==
  ASSUME Queue!NotificationsAssumption, QueueInv, NEW j \in Queue!Jobs,
         NEW ok \in BOOLEAN, NEW reached \in BOOLEAN, Queue!Send(j, ok, reached)
  PROVE  QueueInv'
<1> DEFINE k == job[j]
           calls == Queue!Calls(j)
           count == delivered[j]
           c == calls[k.step]
           grown == [count EXCEPT ![c] = IF reached THEN count[c] + 1 ELSE count[c]]
<1>1. /\ Consistent(k, calls, count)
      /\ k \in Queue!Job
      /\ Attempts \in Nat \ {0}
  BY DEF QueueInv, Queue!NotificationsAssumption
<1>2. /\ k.attemptsMade \in 0..Attempts
      /\ k.stalled \in 0..2
      /\ k.step \in 1..3
      /\ Len(calls) \in 1..2
      /\ count \in [Queue!Channels -> Nat]
      /\ \A i \in 1..Len(calls) : calls[i] \in Queue!Channels
      /\ \A i, l \in 1..Len(calls) : calls[i] = calls[l] => i = l
  BY <1>1, JobFields, CallsFact DEF QueueInv
<1>3. k.state = "active" /\ k.step \in 1..Len(calls)
  BY <1>2 DEF Queue!Send
<1>4. worker' = worker /\ restarts' = restarts
  BY DEF Queue!Send
<1>5. delivered' = [delivered EXCEPT ![j] = grown]
  BY DEF Queue!Send, Queue!Channel, QueueInv
<1>6. c \in Queue!Channels /\ count[c] < BegunBy(k) /\ BegunBy(k) \in Nat
  <2>1. c \in Queue!Channels /\ BegunBy(k) \in Nat
    BY <1>2, <1>3 DEF BegunBy
  <2>2. ~Called(k, calls, c)
    BY <1>2, <1>3 DEF Called
  <2>3. count[c] \in Nat /\ count[c] <= BegunBy(k) /\ count[c] # BegunBy(k)
    BY <1>1, <1>2, <1>3, <2>1, <2>2 DEF Consistent
  <2> QED
    BY <2>1, <2>3
<1>7. /\ grown \in [Queue!Channels -> Nat]
      /\ \A d \in Queue!Channels : grown[d] >= count[d] /\ grown[d] <= BegunBy(k)
      /\ \A d \in Queue!Channels : d # c => grown[d] = count[d]
      /\ reached => grown[c] > 0
  BY <1>1, <1>2, <1>6 DEF Consistent
<1> HIDE DEF grown
<1>8. CASE ok
  <2> DEFINE n == [k EXCEPT !.step = k.step + 1]
  <2>1. job' = [job EXCEPT ![j] = n] /\ reached
    BY <1>8 DEF Queue!Send
  <2>2. k.step + 1 \in 1..3
    BY <1>2, <1>3
  <2> HIDE DEF k
  <2>3. Is(n, k.state, k.attemptsMade, k.stalled, k.step + 1)
    BY <1>1, <2>2, StepUpdate
  <2> HIDE DEF n
  <2>4. BegunBy(n) = BegunBy(k)
    BY <2>3 DEF BegunBy, Is
  <2>5. \A i \in 1..k.step : grown[calls[i]] > 0
    <3>1. ASSUME NEW i \in 1..(k.step - 1)
          PROVE  grown[calls[i]] > 0
      BY <1>1, <1>2, <1>3, <1>7 DEF Consistent
    <3> QED
      BY <3>1, <1>2, <1>7, <2>1
  <2>6. \A d \in Queue!Channels : grown[d] = BegunBy(n) => Called(n, calls, d)
    <3>1. ASSUME NEW d \in Queue!Channels, d # c, grown[d] = BegunBy(n)
          PROVE  Called(n, calls, d)
      <4>1. Called(k, calls, d)
        BY <3>1, <1>1, <1>3, <1>7, <2>4 DEF Consistent
      <4> QED
        BY <4>1, <1>2, <2>3 DEF Called, Is
    <3>2. Called(n, calls, c)
      BY <1>2, <1>3, <2>3 DEF Called, Is
    <3> QED
      BY <3>1, <3>2
  <2>7. Consistent(n, calls, grown)
    BY <1>1, <1>2, <1>3, <1>7, <2>3, <2>4, <2>5, <2>6 DEF Consistent, Is
  <2> QED
    BY <2>1, <2>7, <1>4, <1>5, OneJob
<1>9. CASE ~ok
  <2> DEFINE s == IF k.attemptsMade + 1 < Attempts THEN "delayed" ELSE "failed"
             n == [k EXCEPT !.attemptsMade = k.attemptsMade + 1, !.step = 1, !.state = s]
  <2>1. job' = [job EXCEPT ![j] = n]
    BY <1>9 DEF Queue!Send, Queue!AfterError
  <2>2. s \in States /\ k.attemptsMade + 1 \in 0..Attempts /\ 1 \in 1..3
    BY <1>1, <1>2, <1>3 DEF Consistent, States
  <2> HIDE DEF k, s
  <2>3. Is(n, s, k.attemptsMade + 1, k.stalled, 1)
    BY <1>1, <2>2, ErrorUpdate
  <2> HIDE DEF n
  <2>4. BegunBy(n) = BegunBy(k)
    BY <1>2, <1>3, <2>3 DEF BegunBy, Is, s
  <2>5. Consistent(n, calls, grown)
    BY <1>1, <1>2, <1>3, <1>7, <2>2, <2>3, <2>4 DEF Consistent, Is, s
  <2> QED
    BY <2>1, <2>5, <1>4, <1>5, OneJob
<1> QED
  BY <1>8, <1>9

\* A worker that starts, closes or crashes: the jobs in hand are orphaned.
LEMMA WorkerSteps ==
  ASSUME Queue!NotificationsAssumption, QueueInv,
         Queue!Start \/ Queue!Shutdown \/ Queue!Close \/ Queue!Crash
  PROVE  QueueInv'
<1>1. CASE Queue!Start \/ Queue!Close
  BY <1>1 DEF Queue!Start, Queue!Close, QueueInv, Queue!Calls, Queue!Channels
<1>2. CASE Queue!Shutdown
  BY <1>2 DEF Queue!Shutdown, Queue!NotificationsAssumption, QueueInv, Queue!Calls, Queue!Channels
<1>3. CASE Queue!Crash
  <2>1. /\ worker' = "down" /\ restarts' = restarts + 1 /\ restarts < Restarts
        /\ delivered' = delivered
    BY <1>3 DEF Queue!Crash
  <2>2. restarts' \in 0..Restarts
    BY <2>1 DEF QueueInv, Queue!NotificationsAssumption
  <2>3. ASSUME NEW j \in Queue!Jobs
        PROVE  job'[j] \in Queue!Job /\ Consistent(job'[j], Queue!Calls(j), delivered[j])
    <3> DEFINE k == job[j]
               n == [k EXCEPT !.state = "orphaned"]
    <3>1. k \in Queue!Job /\ Consistent(k, Queue!Calls(j), delivered[j])
      BY DEF QueueInv
    <3>2. job'[j] = IF k.state = "active" THEN n ELSE k
      BY <1>3 DEF Queue!Crash, Queue!InHand
    <3>3. Is(n, "orphaned", k.attemptsMade, k.stalled, k.step)
      BY <3>1, StateUpdate DEF States
    <3> HIDE DEF n
    <3>4. k.state = "active" => BegunBy(n) = BegunBy(k)
      BY <3>3 DEF BegunBy, Is
    <3>5. k.state = "active" => Consistent(n, Queue!Calls(j), delivered[j])
      BY <3>1, <3>3, <3>4 DEF Consistent, Is
    <3> QED
      BY <3>1, <3>2, <3>3, <3>5 DEF Is
  <2>4. job' \in [Queue!Jobs -> Queue!Job]
    <3>1. job' = [j \in Queue!Jobs |-> job'[j]]
      BY <1>3 DEF Queue!Crash
    <3> QED
      BY <3>1, <2>3
  <2> QED
    BY <2>1, <2>2, <2>3, <2>4 DEF QueueInv, Queue!Calls, Queue!Channels
<1> QED
  BY <1>1, <1>2, <1>3

LEMMA QueueInvariant ==
  Queue!NotificationsAssumption => (Queue!Spec => []QueueInv)
<1> SUFFICES ASSUME Queue!NotificationsAssumption
             PROVE  Queue!Spec => []QueueInv
  OBVIOUS
<1>1. Queue!Init => QueueInv
  <2>1. Queue!Absent \in Queue!Job
    BY DEF Queue!Absent, Queue!Job, Queue!NotificationsAssumption
  <2>2. ASSUME NEW j \in Queue!Jobs, NEW zero, zero = [c \in Queue!Channels |-> 0]
        PROVE  Consistent(Queue!Absent, Queue!Calls(j), zero)
    <3>1. zero \in [Queue!Channels -> Nat] /\ \A c \in Queue!Channels : zero[c] = 0
      BY <2>2
    <3>2. /\ Queue!Absent.state = "absent" /\ Queue!Absent.attemptsMade = 0
          /\ Queue!Absent.stalled = 0 /\ Queue!Absent.step = 1
      BY DEF Queue!Absent
    <3>3. Attempts \in Nat \ {0} /\ Len(Queue!Calls(j)) \in 1..2
      BY CallsFact DEF Queue!NotificationsAssumption
    <3> QED
      BY <2>1, <3>1, <3>2, <3>3 DEF Consistent, BegunBy
  <2> SUFFICES ASSUME Queue!Init
               PROVE  QueueInv
    OBVIOUS
  <2>3. /\ job \in [Queue!Jobs -> Queue!Job]
        /\ delivered \in [Queue!Jobs -> [Queue!Channels -> Nat]]
        /\ worker = "running" /\ restarts \in 0..Restarts
    BY <2>1 DEF Queue!Init, Queue!NotificationsAssumption
  <2>4. \A j \in Queue!Jobs : /\ job[j] = Queue!Absent
                              /\ delivered[j] = [c \in Queue!Channels |-> 0]
    BY DEF Queue!Init
  <2> QED
    BY <2>2, <2>3, <2>4 DEF QueueInv
<1>2. QueueInv /\ [Queue!Next]_Queue!vars => QueueInv'
  <2>1. QueueInv /\ UNCHANGED Queue!vars => QueueInv'
    BY DEF Queue!vars, QueueInv, Queue!Calls, Queue!Channels
  <2> QED
    BY <2>1, QueueSteps, SendStep, WorkerSteps DEF Queue!Next, Queue!Attempt
<1> QED
  BY <1>1, <1>2, PTL DEF Queue!Spec

\* The jobs and the counts of deliveries stay in their ranges.
THEOREM NotificationsTypeCorrect ==
  Queue!NotificationsAssumption => (Queue!Spec => []Queue!TypeOK)
<1> SUFFICES ASSUME Queue!NotificationsAssumption
             PROVE  Queue!Spec => []Queue!TypeOK
  OBVIOUS
<1>1. QueueInv => Queue!TypeOK
  <2> SUFFICES ASSUME QueueInv
               PROVE  Queue!TypeOK
    OBVIOUS
  <2>1. ASSUME NEW j \in Queue!Jobs, NEW c \in Queue!Channels
        PROVE  delivered[j][c] \in 0..(Attempts + 1)
    <3>1. Consistent(job[j], Queue!Calls(j), delivered[j]) /\ job[j] \in Queue!Job
      BY DEF QueueInv
    <3>2. BegunBy(job[j]) \in Nat
      BY <3>1, JobFields DEF BegunBy
    <3> QED
      BY <3>1, <3>2 DEF Consistent, Queue!NotificationsAssumption
  <2> QED
    BY <2>1 DEF QueueInv, Queue!TypeOK
<1> QED
  BY <1>1, QueueInvariant, PTL

\* Whatever attempts fail and whenever the worker stops: a completed job has
\* reached every channel it is for, and no message goes out twice in one attempt.
LEMMA DeliveredOnce ==
  Queue!NotificationsAssumption => (Queue!Spec => []Queue!DeliveredOncePerAttempt)
<1> SUFFICES ASSUME Queue!NotificationsAssumption
             PROVE  Queue!Spec => []Queue!DeliveredOncePerAttempt
  OBVIOUS
<1>1. QueueInv => Queue!DeliveredOncePerAttempt
  <2> SUFFICES ASSUME QueueInv
               PROVE  Queue!OncePerAttempt /\ Queue!CompletedDelivered
    BY DEF Queue!DeliveredOncePerAttempt
  <2>1. \A j \in Queue!Jobs : Consistent(job[j], Queue!Calls(j), delivered[j])
    BY DEF QueueInv
  <2>2. Queue!OncePerAttempt
    BY <2>1 DEF Queue!OncePerAttempt, Queue!Begun, BegunBy, Consistent
  <2>3. Queue!CompletedDelivered
    BY <2>1, CallsFact DEF Queue!CompletedDelivered, Consistent
  <2> QED
    BY <2>2, <2>3
<1> QED
  BY <1>1, QueueInvariant, PTL

-----------------------------------------------------------------------------
(* Money                                                                   *)

\* A commission of 0 to 100 per cent, rounded to a cent either way, is between
\* nothing and all, and half a cent off at most.
LEMMA RoundFact ==
  ASSUME NEW total \in Nat, NEW rate \in 0..100, NEW c \in Cents!Round(total * rate)
  PROVE  /\ c \in 0..total
         /\ 100 * c - total * rate <= 50
         /\ -(100 * c - total * rate) <= 50
<1> DEFINE n == total * rate
<1>1. n \in Nat /\ n <= 100 * total
  <2>1. \A x, y \in Nat : x * y \in Nat
    OBVIOUS
  <2>2. total * (100 - rate) \in Nat /\ n \in Nat
    BY <2>1
  <2>3. total * (100 - rate) = 100 * total - n
    OBVIOUS
  <2> QED
    BY <2>2, <2>3
<1>2. c \in {(n + 50) \div 100, (n + 49) \div 100}
  BY DEF Cents!Round
<1> HIDE DEF n
<1>3. /\ c \in Int
      /\ 100 * c <= n + 50
      /\ 100 * c >= n - 50
  BY <1>1, <1>2
<1>4. c \in 0..total
  BY <1>1, <1>3
<1> QED
  BY <1>3, <1>4, <1>1 DEF n

\* What calculateBookingFinancials answers, for every price, number of guests
\* and rate.
LEMMA FinancialsFact ==
  ASSUME NEW price \in Nat, NEW guests \in Nat,
         NEW own \in Int \cup {None}, NEW default \in Int \cup {None},
         NEW f \in Cents!Financials(price, guests, own, default)
  PROVE  /\ f.totalCents \in Nat /\ f.commissionCents \in Nat
         /\ f.providerEarningsCents \in Nat /\ f.rate \in Int
         /\ f.commissionCents + f.providerEarningsCents = f.totalCents
         /\ LET error == 100 * f.commissionCents - f.totalCents * Cents!Clamp(f.rate)
            IN  error <= 50 /\ -error <= 50
<1> DEFINE rate == Cents!EffectiveRate(own, default)
           total == Cents!AtLeast(0, price * Cents!AtLeast(1, guests))
<1>1. rate \in Int
  BY DEF Cents!EffectiveRate, Cents!PlatformDefaultCommissionRate
<1>2. total \in Nat
  <2>1. Cents!AtLeast(1, guests) \in Nat
    BY DEF Cents!AtLeast
  <2>2. \A x, y \in Nat : x * y \in Int
    OBVIOUS
  <2>3. price * Cents!AtLeast(1, guests) \in Int
    BY <2>1, <2>2
  <2> QED
    BY <2>3 DEF Cents!AtLeast
<1>3. Cents!Clamp(rate) \in 0..100
  BY <1>1 DEF Cents!Clamp, Cents!AtLeast
<1>4. PICK c \in Cents!Round(total * Cents!Clamp(rate)) :
        f = [totalCents |-> total, commissionCents |-> c,
             providerEarningsCents |-> Cents!AtLeast(0, total - c), rate |-> rate]
  BY DEF Cents!Financials
<1> HIDE DEF rate, total
<1>5. /\ c \in 0..total
      /\ 100 * c - total * Cents!Clamp(rate) <= 50
      /\ -(100 * c - total * Cents!Clamp(rate)) <= 50
  BY <1>2, <1>3, RoundFact
<1>6. Cents!AtLeast(0, total - c) = total - c
  BY <1>2, <1>5 DEF Cents!AtLeast
<1>7. /\ f.totalCents = total /\ f.commissionCents = c
      /\ f.providerEarningsCents = total - c /\ f.rate = rate
  BY <1>4, <1>6
<1> QED
  BY <1>1, <1>2, <1>5, <1>7

\* Only a cancellation asks for a refund.
RefundedLast == row.status # "cancelled" => refund = Cents!NoRefund

MoneyInv ==
  Cents!TypeOK /\ Cents!MoneyAddsUp /\ Cents!RefundIsAllOrNothing /\ RefundedLast

LEMMA CreateStep ==
  ASSUME Cents!MoneyAssumption, MoneyInv, Cents!CreateBooking
  PROVE  MoneyInv'
<1>1. PICK price \in Prices, guests \in Guests, own \in ServiceRates,
           default \in ProviderRates :
        \E f \in Cents!Financials(price, guests, own, default) :
          row' = [status |-> "booked", totalCents |-> f.totalCents,
                  commissionCents |-> f.commissionCents,
                  providerEarningsCents |-> f.providerEarningsCents, rate |-> f.rate]
  BY DEF Cents!CreateBooking
<1>2. /\ price \in Nat /\ guests \in Nat
      /\ own \in Int \cup {None} /\ default \in Int \cup {None}
  BY DEF Cents!MoneyAssumption
<1>3. PICK f \in Cents!Financials(price, guests, own, default) :
        row' = [status |-> "booked", totalCents |-> f.totalCents,
                commissionCents |-> f.commissionCents,
                providerEarningsCents |-> f.providerEarningsCents, rate |-> f.rate]
  BY <1>1
<1>4. /\ f.totalCents \in Nat /\ f.commissionCents \in Nat
      /\ f.providerEarningsCents \in Nat /\ f.rate \in Int
      /\ f.commissionCents + f.providerEarningsCents = f.totalCents
      /\ LET error == 100 * f.commissionCents - f.totalCents * Cents!Clamp(f.rate)
         IN  error <= 50 /\ -error <= 50
  BY <1>2, FinancialsFact
<1>5. row = Cents!NoBooking /\ refund' = refund
  BY DEF Cents!CreateBooking
<1>6. Cents!MoneyAddsUp'
  BY <1>3, <1>4 DEF Cents!MoneyAddsUp
<1>7. Cents!TypeOK'
  BY <1>3, <1>4, <1>5 DEF MoneyInv, Cents!TypeOK
<1>8. refund' = Cents!NoRefund
  BY <1>5 DEF MoneyInv, RefundedLast, Cents!NoBooking
<1>9. Cents!RefundIsAllOrNothing' /\ RefundedLast'
  BY <1>8 DEF Cents!RefundIsAllOrNothing, RefundedLast, Cents!NoRefund
<1> QED
  BY <1>6, <1>7, <1>9 DEF MoneyInv

LEMMA CancelStep ==
  ASSUME Cents!MoneyAssumption, MoneyInv, NEW caller \in Cents!Caller, NEW notice \in Notices,
         Cents!CancelBooking(caller, notice)
  PROVE  MoneyInv'
<1> DEFINE canceller == IF caller = "provider" THEN "provider" ELSE "traveler"
           evaluation == Cents!EvaluateCancellationRules(canceller, notice, row.totalCents,
                                                         row.providerEarningsCents)
<1>1. /\ row.status = "booked"
      /\ row' = [row EXCEPT !.status = "cancelled"]
      /\ refund' = [cents |-> evaluation.refund, caller |-> caller, notice |-> notice]
  BY DEF Cents!CancelBooking
<1>2. row \in [status : {"booked", "cancelled"}, totalCents : Nat, commissionCents : Nat,
               providerEarningsCents : Nat, rate : Int]
  BY <1>1 DEF MoneyInv, Cents!TypeOK, Cents!NoBooking
<1>3. evaluation.refund =
        IF canceller = "provider" \/ notice > 24 THEN row.totalCents ELSE 0
  BY DEF Cents!EvaluateCancellationRules
<1>4. /\ row' \in [status : {"booked", "cancelled"}, totalCents : Nat, commissionCents : Nat,
                   providerEarningsCents : Nat, rate : Int]
      /\ row'.status = "cancelled" /\ row'.totalCents = row.totalCents
      /\ row'.commissionCents = row.commissionCents
      /\ row'.providerEarningsCents = row.providerEarningsCents /\ row'.rate = row.rate
  BY <1>1, <1>2
<1>5. evaluation.refund \in Nat /\ notice \in Int
  BY <1>2, <1>3 DEF Cents!MoneyAssumption
<1> HIDE DEF evaluation
<1>6. Cents!TypeOK'
  BY <1>1, <1>4, <1>5 DEF Cents!TypeOK
<1>7. row # Cents!NoBooking
  BY <1>1 DEF Cents!NoBooking
<1>8. Cents!MoneyAddsUp'
  BY <1>4, <1>7 DEF MoneyInv, Cents!MoneyAddsUp
<1>9. Cents!RefundIsAllOrNothing' /\ RefundedLast'
  BY <1>1, <1>3, <1>4, <1>5 DEF Cents!RefundIsAllOrNothing, RefundedLast
<1> QED
  BY <1>6, <1>8, <1>9 DEF MoneyInv

LEMMA MoneyInvariant == Cents!MoneyAssumption => (Cents!Spec => []MoneyInv)
<1> SUFFICES ASSUME Cents!MoneyAssumption
             PROVE  Cents!Spec => []MoneyInv
  OBVIOUS
<1>1. Cents!Init => MoneyInv
  BY DEF Cents!Init, MoneyInv, Cents!TypeOK, Cents!MoneyAddsUp, Cents!RefundIsAllOrNothing,
         RefundedLast, Cents!NoBooking, Cents!NoRefund
<1>2. MoneyInv /\ [Cents!Next]_Cents!vars => MoneyInv'
  <2>1. MoneyInv /\ UNCHANGED Cents!vars => MoneyInv'
    BY DEF Cents!vars, MoneyInv, Cents!TypeOK, Cents!MoneyAddsUp, Cents!RefundIsAllOrNothing,
           RefundedLast
  <2> QED
    BY <2>1, CreateStep, CancelStep DEF Cents!Next
<1> QED
  BY <1>1, <1>2, PTL DEF Cents!Spec

\* Amounts are whole cents and never negative.
THEOREM MoneyTypeCorrect == Cents!MoneyAssumption => (Cents!Spec => []Cents!TypeOK)
<1>1. MoneyInv => Cents!TypeOK
  BY DEF MoneyInv
<1> QED
  BY <1>1, MoneyInvariant, PTL

\* Commission and earnings add up to the price for every price, number of guests
\* and rate, whichever way a half is rounded; a cancellation by the provider or in
\* time refunds all of it, a late one nothing.
LEMMA MoneyIsKept ==
  Cents!MoneyAssumption
    => (Cents!Spec => [](Cents!MoneyAddsUp /\ Cents!RefundIsAllOrNothing))
<1>1. MoneyInv => Cents!MoneyAddsUp /\ Cents!RefundIsAllOrNothing
  BY DEF MoneyInv
<1> QED
  BY <1>1, MoneyInvariant, PTL

-----------------------------------------------------------------------------
(* Reviews                                                                 *)

TransactionFields == {"kind", "booking", "asked", "plan", "locks", "row", "rating"}

\* What a transaction has locked when these statements are left.
InOrder(t) ==
  /\ DOMAIN t = TransactionFields
  /\ t.booking \in Bookings
  /\ \/ t.plan \in {Rated!Plan("create", TRUE), Rated!Plan("update", FALSE)} /\ t.locks = {}
     \/ t.plan = <<"aggregate", "provider", "commit">> /\ t.locks = {t.booking}
     \/ t.plan = <<"provider", "commit">> /\ t.locks = {t.booking}
     \/ t.plan = <<"commit">> /\ t.locks \subseteq {t.booking, ProviderRow}

\* The inductive invariant: a transaction locks its review, then the provider.
LocksInOrder ==
  /\ DOMAIN tx = Requests
  /\ \A r \in Requests : tx[r] = Rated!Idle \/ InOrder(tx[r])

\* Statements are taken from the front.
LEMMA PlanFact ==
  /\ Head(<<"write", "aggregate", "provider", "commit">>) = "write"
  /\ Tail(<<"write", "aggregate", "provider", "commit">>) = <<"aggregate", "provider", "commit">>
  /\ Head(<<"write", "commit">>) = "write"
  /\ Tail(<<"write", "commit">>) = <<"commit">>
  /\ Head(<<"aggregate", "provider", "commit">>) = "aggregate"
  /\ Tail(<<"aggregate", "provider", "commit">>) = <<"provider", "commit">>
  /\ Head(<<"provider", "commit">>) = "provider"
  /\ Tail(<<"provider", "commit">>) = <<"commit">>
  /\ Head(<<"commit">>) = "commit"
OBVIOUS

\* A step that leaves one request in order, and the others alone.
LEMMA OneTransaction ==
  ASSUME LocksInOrder, NEW r \in Requests, NEW t, t = Rated!Idle \/ InOrder(t),
         tx' = [tx EXCEPT ![r] = t]
  PROVE  LocksInOrder'
<1>1. DOMAIN tx' = Requests
  BY DEF LocksInOrder
<1>2. \A q \in Requests : tx'[q] = IF q = r THEN t ELSE tx[q]
  BY DEF LocksInOrder
<1> QED
  BY <1>1, <1>2 DEF LocksInOrder, InOrder, TransactionFields, Rated!Idle, Rated!Plan

LEMMA RatedSteps == LocksInOrder /\ [Rated!Next]_Rated!vars => LocksInOrder'
<1> SUFFICES ASSUME LocksInOrder, [Rated!Next]_Rated!vars
             PROVE  LocksInOrder'
  OBVIOUS
<1>1. ASSUME NEW r \in Requests, NEW kind, NEW b \in Bookings, NEW asked, NEW recalculate \in BOOLEAN,
             Rated!Begin(r, kind, b, asked, recalculate)
      PROVE  LocksInOrder'
  <2> DEFINE t == [kind |-> kind, booking |-> b, asked |-> asked,
                   plan |-> Rated!Plan(kind, recalculate), locks |-> {},
                   row |-> Rated!NoReview, rating |-> Rated!NoRating]
  <2>1. Rated!Plan(kind, recalculate) \in {Rated!Plan("create", TRUE), Rated!Plan("update", FALSE)}
    BY DEF Rated!Plan
  <2>2. DOMAIN t = TransactionFields
    BY DEF TransactionFields
  <2>3. InOrder(t)
    BY <2>1, <2>2 DEF InOrder
  <2>4. tx' = [tx EXCEPT ![r] = t]
    BY <1>1 DEF Rated!Begin
  <2> HIDE DEF t
  <2> QED
    BY <2>3, <2>4, OneTransaction
<1>2. ASSUME NEW r \in Requests, Rated!WriteReview(r)
      PROVE  LocksInOrder'
  <2> DEFINE t == [tx[r] EXCEPT
                     !.row = Rated!NewRow(tx[r].kind, reviews[tx[r].booking], tx[r].asked),
                     !.locks = tx[r].locks \cup {tx[r].booking},
                     !.plan = Tail(tx[r].plan)]
  <2>1. InOrder(tx[r]) /\ Head(tx[r].plan) = "write"
    BY <1>2 DEF Rated!WriteReview, Rated!At, LocksInOrder
  <2>2. tx[r].plan \in {Rated!Plan("create", TRUE), Rated!Plan("update", FALSE)} /\ tx[r].locks = {}
    BY <2>1, PlanFact DEF InOrder
  <2>3. /\ DOMAIN t = TransactionFields
        /\ t.booking = tx[r].booking
        /\ t.locks = tx[r].locks \cup {tx[r].booking}
        /\ t.plan = Tail(tx[r].plan)
    BY <2>1 DEF InOrder, TransactionFields
  <2>4. tx' = [tx EXCEPT ![r] = t]
    BY <1>2 DEF Rated!WriteReview
  <2> HIDE DEF t
  <2>5. t.plan \in {<<"aggregate", "provider", "commit">>, <<"commit">>}
    BY <2>2, <2>3, PlanFact DEF Rated!Plan
  <2>6. InOrder(t)
    BY <2>1, <2>2, <2>3, <2>5 DEF InOrder
  <2> QED
    BY <2>4, <2>6, OneTransaction
<1>3. ASSUME NEW r \in Requests, Rated!AggregateReviews(r)
      PROVE  LocksInOrder'
  <2> DEFINE t == [tx[r] EXCEPT !.rating = Rated!Aggregate(Rated!Visible(r)),
                                !.plan = Tail(tx[r].plan)]
  <2>1. InOrder(tx[r]) /\ Head(tx[r].plan) = "aggregate"
    BY <1>3 DEF Rated!AggregateReviews, Rated!At, LocksInOrder
  <2>2. /\ tx[r].plan = <<"aggregate", "provider", "commit">>
        /\ tx[r].locks = {tx[r].booking}
    BY <2>1, PlanFact DEF InOrder, Rated!Plan
  <2>3. /\ DOMAIN t = TransactionFields
        /\ t.booking = tx[r].booking
        /\ t.locks = tx[r].locks
        /\ t.plan = Tail(tx[r].plan)
    BY <2>1 DEF InOrder, TransactionFields
  <2>4. tx' = [tx EXCEPT ![r] = t]
    BY <1>3 DEF Rated!AggregateReviews
  <2> HIDE DEF t
  <2>5. InOrder(t)
    BY <2>1, <2>2, <2>3, PlanFact DEF InOrder
  <2> QED
    BY <2>4, <2>5, OneTransaction
<1>4. ASSUME NEW r \in Requests, Rated!UpdateProvider(r)
      PROVE  LocksInOrder'
  <2> DEFINE t == [tx[r] EXCEPT !.locks = tx[r].locks \cup {ProviderRow},
                                !.plan = Tail(tx[r].plan)]
  <2>1. InOrder(tx[r]) /\ Head(tx[r].plan) = "provider"
    BY <1>4 DEF Rated!UpdateProvider, Rated!At, LocksInOrder
  <2>2. /\ tx[r].plan = <<"provider", "commit">>
        /\ tx[r].locks = {tx[r].booking}
    BY <2>1, PlanFact DEF InOrder, Rated!Plan
  <2>3. /\ DOMAIN t = TransactionFields
        /\ t.booking = tx[r].booking
        /\ t.locks = tx[r].locks \cup {ProviderRow}
        /\ t.plan = Tail(tx[r].plan)
    BY <2>1 DEF InOrder, TransactionFields
  <2>4. tx' = [tx EXCEPT ![r] = t]
    BY <1>4 DEF Rated!UpdateProvider
  <2> HIDE DEF t
  <2>5. InOrder(t)
    BY <2>1, <2>2, <2>3, PlanFact DEF InOrder
  <2> QED
    BY <2>4, <2>5, OneTransaction
<1>5. ASSUME NEW r \in Requests, Rated!Commit(r) \/ Rated!Rollback(r)
      PROVE  LocksInOrder'
  BY <1>5, OneTransaction DEF Rated!Commit, Rated!Rollback
<1>6. ASSUME NEW r \in Requests, NEW b \in Bookings,
             \/ \E n \in Ratings : Rated!CreateReview(r, b, n) \/ Rated!UpdateReview(r, b, n)
             \/ \E status \in {"published", "hidden"} : Rated!ModerateReview(r, b, status)
      PROVE  LocksInOrder'
  BY <1>1, <1>6 DEF Rated!CreateReview, Rated!UpdateReview, Rated!ModerateReview
<1>7. ASSUME UNCHANGED tx
      PROVE  LocksInOrder'
  BY <1>7 DEF LocksInOrder
<1> QED
  BY <1>2, <1>3, <1>4, <1>5, <1>6, <1>7
  DEF Rated!Next, Rated!Execute, Rated!CloseWindow, Rated!vars

\* Two requests never wait for rows of each other: what waits for the provider has
\* only its review, and what waits for a review has nothing.
LEMMA WritersDoNotDeadlock == ProviderRow \notin Bookings => (Rated!Spec => []Rated!NoDeadlock)
<1> SUFFICES ASSUME ProviderRow \notin Bookings
             PROVE  Rated!Spec => []Rated!NoDeadlock
  OBVIOUS
<1>1. Rated!Init => LocksInOrder
  BY DEF Rated!Init, LocksInOrder
<1>2. LocksInOrder => Rated!NoDeadlock
  <2> SUFFICES ASSUME LocksInOrder, NEW r \in Requests, NEW s \in Requests,
                      tx[r] # Rated!Idle, tx[s] # Rated!Idle,
                      NEW held \in tx[s].locks, Rated!WaitsFor(r, held),
                      NEW kept \in tx[r].locks, Rated!WaitsFor(s, kept)
               PROVE  FALSE
    BY DEF Rated!NoDeadlock
  <2>1. InOrder(tx[r]) /\ InOrder(tx[s])
    BY DEF LocksInOrder
  <2>2. Head(tx[r].plan) # "write" /\ Head(tx[s].plan) # "write"
    BY <2>1, PlanFact DEF InOrder
  <2>3. held = ProviderRow /\ Head(tx[s].plan) = "provider"
    BY <2>2 DEF Rated!WaitsFor, Rated!At
  <2>4. tx[s].locks = {tx[s].booking} /\ tx[s].booking \in Bookings
    BY <2>1, <2>3, PlanFact DEF InOrder, Rated!Plan
  <2> QED
    BY <2>3, <2>4
<1> QED
  BY <1>1, <1>2, RatedSteps, PTL DEF Rated!Spec

\* A mean of numbers from 0 to 5, in hundredths, rounded, is 0 to 500.
LEMMA MeanFact ==
  ASSUME NEW c \in Nat, c > 0, NEW t \in Nat, t <= 5 * c
  PROVE  (200 * t + c) \div (2 * c) \in 0..500
<1> DEFINE a == 200 * t + c
           d == 2 * c
           q == a \div d
<1>1. a \in Nat /\ d \in Nat /\ d > 0 /\ a <= 1001 * c
  OBVIOUS
<1>2. q \in Nat /\ d * q <= a
  <2> HIDE DEF a, d
  <2> QED
    BY <1>1
<1>3. q <= 500
  <2> SUFFICES ASSUME q >= 501 PROVE FALSE
    BY <1>2
  <2> HIDE DEF q
  <2>1. d * q = d * 501 + d * (q - 501)
    BY <1>1, <1>2
  <2>2. q - 501 \in Nat
    BY <1>2
  <2>3. d * (q - 501) \in Nat
    <3> HIDE DEF d
    <3>1. \A x, y \in Nat : x * y \in Nat
      OBVIOUS
    <3> QED
      BY <3>1, <2>2, <1>1
  <2>4. d * q >= d * 501
    <3> HIDE DEF d
    <3> QED
      BY <2>1, <2>3, <1>1
  <2>5. d * 501 = 1002 * c
    OBVIOUS
  <2>6. d * q \in Int
    BY <1>1, <1>2
  <2> HIDE DEF d, a
  <2> QED
    BY <1>1, <1>2, <2>4, <2>5, <2>6
<1> QED
  BY <1>2, <1>3

\* The component counts and adds up as the library does.
LEMMA RatedSums ==
  /\ \A f, S : Rated!SumFunctionOnSet(f, S) = SumFunctionOnSet(f, S)
  /\ \A S : Rated!Cardinality(S) = Cardinality(S)
  /\ \A S : Rated!IsFiniteSet(S) <=> IsFiniteSet(S)
BY DEF Rated!SumFunctionOnSet, Rated!FoldFunctionOnSet, Rated!MapThenFoldSet,
       SumFunctionOnSet, FoldFunctionOnSet, MapThenFoldSet,
       Rated!Cardinality, Cardinality, Rated!IsFiniteSet, IsFiniteSet

\* A review that is written exists.
LEMMA ReviewFields ==
  /\ \A v \in Rated!Review : v.exists <=> v # Rated!NoReview
  /\ \A v \in Rated!Review \ {Rated!NoReview} :
       v.rating \in Ratings /\ v.status \in {"published", "hidden"}
  /\ \A n \in Ratings, s \in {"published", "hidden"} :
       [exists |-> TRUE, rating |-> n, status |-> s] \in Rated!Review \ {Rated!NoReview}
  /\ \A v \in [exists : {TRUE}, rating : Ratings, status : {"published", "hidden"}] :
       v \in Rated!Review \ {Rated!NoReview}
<1>1. \A v \in Rated!Review :
        v = Rated!NoReview \/ v \in [exists : {TRUE}, rating : Ratings, status : {"published", "hidden"}]
  BY DEF Rated!Review
<1>2. Rated!NoReview.exists = FALSE
  BY DEF Rated!NoReview
<1>3. \A v \in [exists : {TRUE}, rating : Ratings, status : {"published", "hidden"}] :
        /\ v.exists /\ v # Rated!NoReview
        /\ v.rating \in Ratings /\ v.status \in {"published", "hidden"}
  <2> SUFFICES ASSUME NEW v \in [exists : {TRUE}, rating : Ratings, status : {"published", "hidden"}]
               PROVE  /\ v.exists /\ v # Rated!NoReview
                      /\ v.rating \in Ratings /\ v.status \in {"published", "hidden"}
    OBVIOUS
  <2>1. v.exists \in {TRUE} /\ v.rating \in Ratings /\ v.status \in {"published", "hidden"}
    OBVIOUS
  <2>2. v.exists = TRUE
    BY <2>1
  <2> QED
    BY <1>2, <2>1, <2>2
<1>4. ASSUME NEW n \in Ratings, NEW s \in {"published", "hidden"}
      PROVE  [exists |-> TRUE, rating |-> n, status |-> s]
               \in [exists : {TRUE}, rating : Ratings, status : {"published", "hidden"}]
  OBVIOUS
<1>5. \A v \in Rated!Review : v.exists <=> v # Rated!NoReview
  BY <1>1, <1>2, <1>3
<1>6. \A v \in Rated!Review \ {Rated!NoReview} :
        v.rating \in Ratings /\ v.status \in {"published", "hidden"}
  BY <1>1, <1>3
<1>7. \A n \in Ratings, s \in {"published", "hidden"} :
        [exists |-> TRUE, rating |-> n, status |-> s] \in Rated!Review \ {Rated!NoReview}
  BY <1>3, <1>4 DEF Rated!Review
<1>8. \A v \in [exists : {TRUE}, rating : Ratings, status : {"published", "hidden"}] :
        v \in Rated!Review \ {Rated!NoReview}
  BY <1>3 DEF Rated!Review
<1> QED
  BY <1>5, <1>6, <1>7, <1>8

\* The average rating of a provider fits its column, whatever the reviews are.
LEMMA AggregateFact ==
  ASSUME Rated!ReviewsAssumption, NEW rows \in [Bookings -> Rated!Review]
  PROVE  Rated!Aggregate(rows) \in Rated!Rating
<1> DEFINE given == [b \in Bookings |-> rows[b].rating]
           counted == Rated!Counted(rows)
           c == Cardinality(counted)
           t == SumFunctionOnSet(given, counted)
<1>1. counted \in SUBSET Bookings /\ IsFiniteSet(Bookings)
  BY RatedSums DEF Rated!Counted, Rated!ReviewsAssumption
<1>2. IsFiniteSet(counted) /\ c \in Nat /\ Cardinality(Bookings) \in Nat /\ c <= Cardinality(Bookings)
  BY <1>1, FS_Subset, FS_CardinalityType
<1>3. \A b \in counted : given[b] \in 0..5
  <2> SUFFICES ASSUME NEW b \in counted PROVE given[b] \in 0..5
    OBVIOUS
  <2>1. b \in Bookings /\ rows[b] \in Rated!Review /\ rows[b].exists
    BY <1>1 DEF Rated!Counted
  <2>2. rows[b].rating \in Ratings
    BY <2>1, ReviewFields
  <2>3. given[b] = rows[b].rating
    BY <2>1
  <2>4. Ratings \subseteq 1..5
    BY DEF Rated!ReviewsAssumption
  <2> HIDE DEF given, counted
  <2>5. given[b] \in 1..5
    BY <2>2, <2>3, <2>4
  <2> QED
    BY <2>5
<1>4. t \in Nat /\ t <= 5 * c
  <2> HIDE DEF given, counted
  <2> QED
    BY <1>2, <1>3, SumIsBounded
<1>5. Rated!Aggregate(rows)
        = IF c = 0 THEN Rated!NoRating
          ELSE [avgRating |-> (200 * t + c) \div (2 * c), reviewCount |-> c]
  BY RatedSums DEF Rated!Aggregate
<1> HIDE DEF c, t
<1>6. c # 0 => (200 * t + c) \div (2 * c) \in 0..500
  BY <1>2, <1>4, MeanFact
<1>7. c \in 0..Cardinality(Bookings) /\ 0 \in 0..Cardinality(Bookings) /\ 0 \in 0..500
  BY <1>2
<1>8. Rated!Rating = [avgRating : 0..500, reviewCount : 0..Cardinality(Bookings)]
  BY RatedSums DEF Rated!Rating
<1> QED
  BY <1>5, <1>6, <1>7, <1>8 DEF Rated!NoRating

\* What a transaction rests on: a review that is changed exists, a rating is given
\* unless the review is moderated, and what was written is a review.
Founded(t) ==
  /\ t.kind # "create" => reviews[t.booking] \in Rated!Review \ {Rated!NoReview}
  /\ t.kind # "moderate" => t.asked.rating \in Ratings
  /\ Head(t.plan) # "write" => t.row \in Rated!Review \ {Rated!NoReview}

\* The inductive invariant.
RatedInv ==
  /\ Rated!TypeOK
  /\ LocksInOrder
  /\ \A r \in Requests : tx[r] # Rated!Idle => Founded(tx[r])

\* What is left of a transaction are statements.
LEMMA StatementsFact ==
  /\ <<"write", "aggregate", "provider", "commit">> \in Seq(Rated!Statements)
  /\ <<"write", "commit">> \in Seq(Rated!Statements)
  /\ <<"aggregate", "provider", "commit">> \in Seq(Rated!Statements)
  /\ <<"provider", "commit">> \in Seq(Rated!Statements)
  /\ <<"commit">> \in Seq(Rated!Statements)
BY DEF Rated!Statements

\* A step of one transaction that changes no table.
LEMMA OneRating ==
  ASSUME RatedInv, NEW r \in Requests, NEW t,
         t = Rated!Idle \/ (InOrder(t) /\ Rated!Begun(t) /\ Founded(t)),
         \A s \in Requests \ {r} :
           t # Rated!Idle /\ tx[s] # Rated!Idle => t.locks \cap tx[s].locks = {},
         tx' = [tx EXCEPT ![r] = t], UNCHANGED <<reviews, editable, rating>>
  PROVE  RatedInv'
<1>1. LocksInOrder'
  BY OneTransaction DEF RatedInv
<1>2. DOMAIN tx = Requests /\ \A q \in Requests : tx'[q] = IF q = r THEN t ELSE tx[q]
  BY DEF RatedInv, LocksInOrder
<1>3. \A q \in Requests : tx'[q] # Rated!Idle =>
        IF q = r THEN InOrder(t) /\ Rated!Begun(t) /\ Founded(t)
        ELSE Rated!Begun(tx[q]) /\ Founded(tx[q])
  BY <1>2 DEF RatedInv, Rated!TypeOK
<1>4. \A q \in Requests : tx'[q] = Rated!Idle \/ Rated!Begun(tx'[q])
  BY <1>2, <1>3
<1>5. \A q \in Requests : tx'[q] # Rated!Idle => Founded(tx[q])'
  <2> SUFFICES ASSUME NEW q \in Requests, tx'[q] # Rated!Idle PROVE Founded(tx[q])'
    OBVIOUS
  <2>1. Founded(tx'[q])
    BY <1>2, <1>3
  <2> QED
    BY <2>1 DEF Founded
<1>6. \A p, q \in Requests :
        p # q /\ tx'[p] # Rated!Idle /\ tx'[q] # Rated!Idle => tx'[p].locks \cap tx'[q].locks = {}
  <2>1. \A p, q \in Requests :
          p # q /\ tx[p] # Rated!Idle /\ tx[q] # Rated!Idle => tx[p].locks \cap tx[q].locks = {}
    BY DEF RatedInv, Rated!TypeOK
  <2> QED
    BY <1>2, <2>1
<1>7. /\ reviews' \in [Bookings -> Rated!Review]
      /\ editable' \subseteq {b \in Bookings : reviews'[b].exists}
      /\ rating' \in Rated!Rating
  BY DEF RatedInv, Rated!TypeOK
<1>8. Rated!TypeOK'
  BY <1>4, <1>6, <1>7 DEF Rated!TypeOK, Rated!Begun
<1> QED
  BY <1>1, <1>5, <1>8 DEF RatedInv

\* A request begins: its statements are all to come.
LEMMA RatedBegins ==
  ASSUME RatedInv, Rated!ReviewsAssumption,
         NEW r \in Requests, NEW kind \in {"create", "update", "moderate"}, NEW b \in Bookings,
         NEW asked \in Rated!Asked, NEW recalculate \in BOOLEAN,
         Rated!Begin(r, kind, b, asked, recalculate),
         kind # "create" => reviews[b].exists,
         kind # "moderate" => asked.rating \in Ratings
  PROVE  RatedInv'
<1> DEFINE t == [kind |-> kind, booking |-> b, asked |-> asked,
                 plan |-> Rated!Plan(kind, recalculate), locks |-> {},
                 row |-> Rated!NoReview, rating |-> Rated!NoRating]
<1>1. /\ Rated!Plan(kind, recalculate) \in {Rated!Plan("create", TRUE), Rated!Plan("update", FALSE)}
      /\ Rated!Plan(kind, recalculate) \in Seq(Rated!Statements)
      /\ Head(Rated!Plan(kind, recalculate)) = "write"
  <2>1. Rated!Plan(kind, recalculate)
          \in {<<"write", "aggregate", "provider", "commit">>, <<"write", "commit">>}
    BY DEF Rated!Plan
  <2> QED
    BY <2>1, PlanFact, StatementsFact DEF Rated!Plan
<1>2. DOMAIN t = TransactionFields
  BY DEF TransactionFields
<1>3. InOrder(t)
  BY <1>1, <1>2 DEF InOrder
<1>4. Rated!NoReview \in Rated!Review /\ Rated!NoRating \in Rated!Rating
  <2>1. Cardinality(Bookings) \in Nat
    BY RatedSums, FS_CardinalityType DEF Rated!ReviewsAssumption
  <2>2. 0 \in 0..Rated!Cardinality(Bookings) /\ 0 \in 0..500
    BY <2>1, RatedSums
  <2> QED
    BY <2>2 DEF Rated!Review, Rated!NoRating, Rated!Rating
<1>5. Rated!Begun(t)
  BY <1>1, <1>4 DEF Rated!Begun
<1>6. reviews[b] \in Rated!Review
  BY DEF RatedInv, Rated!TypeOK
<1>7. kind # "create" => reviews[b] \in Rated!Review \ {Rated!NoReview}
  BY <1>6, ReviewFields
<1>8. Founded(t)
  BY <1>1, <1>7 DEF Founded
<1>9. tx' = [tx EXCEPT ![r] = t] /\ UNCHANGED <<reviews, editable, rating>>
  BY DEF Rated!Begin
<1>10. t.locks = {}
  OBVIOUS
<1> HIDE DEF t
<1> QED
  BY <1>3, <1>5, <1>8, <1>9, <1>10, OneRating

\* What the invariant says of one transaction.
LEMMA Underway ==
  ASSUME RatedInv, NEW r \in Requests, tx[r] # Rated!Idle
  PROVE  InOrder(tx[r]) /\ Rated!Begun(tx[r]) /\ Founded(tx[r])
BY DEF RatedInv, LocksInOrder, Rated!TypeOK

\* The review is written once nobody else has it locked.
LEMMA RatedWrites ==
  ASSUME RatedInv, NEW r \in Requests, Rated!WriteReview(r)
  PROVE  RatedInv'
<1> DEFINE written == Rated!NewRow(tx[r].kind, reviews[tx[r].booking], tx[r].asked)
           t == [tx[r] EXCEPT !.row = written,
                              !.locks = tx[r].locks \cup {tx[r].booking},
                              !.plan = Tail(tx[r].plan)]
<1>1. /\ InOrder(tx[r]) /\ Rated!Begun(tx[r]) /\ Founded(tx[r])
      /\ Head(tx[r].plan) = "write" /\ tx[r] # Rated!Idle
  BY Underway DEF Rated!WriteReview, Rated!At
<1>2. tx[r].plan \in {Rated!Plan("create", TRUE), Rated!Plan("update", FALSE)} /\ tx[r].locks = {}
  BY <1>1, PlanFact DEF InOrder
<1>3. written \in Rated!Review \ {Rated!NoReview}
  <2>1. tx[r].booking \in Bookings /\ tx[r].asked \in Rated!Asked
        /\ tx[r].kind \in {"create", "update", "moderate"}
    BY <1>1 DEF Rated!Begun
  <2>2. tx[r].asked.status \in {"published", "hidden"}
    BY <2>1 DEF Rated!Asked
  <2>3. CASE tx[r].kind = "create"
    <3>1. tx[r].asked.rating \in Ratings
      BY <1>1, <2>3 DEF Founded
    <3>2. written = [exists |-> TRUE, rating |-> tx[r].asked.rating, status |-> "published"]
      BY <2>3 DEF Rated!NewRow
    <3> HIDE DEF written
    <3> QED
      BY <3>1, <3>2, ReviewFields
  <2>4. ASSUME tx[r].kind # "create"
        PROVE  reviews[tx[r].booking] \in
                 [exists : {TRUE}, rating : Ratings, status : {"published", "hidden"}]
    BY <1>1, <2>4 DEF Founded, Rated!Review
  <2>5. CASE tx[r].kind = "update"
    <3>1. tx[r].asked.rating \in Ratings
      BY <1>1, <2>5 DEF Founded
    <3>2. written = [reviews[tx[r].booking] EXCEPT !.rating = tx[r].asked.rating]
      BY <2>5 DEF Rated!NewRow
    <3>3. written \in [exists : {TRUE}, rating : Ratings, status : {"published", "hidden"}]
      BY <2>4, <2>5, <3>1, <3>2
    <3> HIDE DEF written
    <3> QED
      BY <3>3, ReviewFields
  <2>6. CASE tx[r].kind = "moderate"
    <3>1. written = [reviews[tx[r].booking] EXCEPT !.status = tx[r].asked.status]
      BY <2>6 DEF Rated!NewRow
    <3>2. written \in [exists : {TRUE}, rating : Ratings, status : {"published", "hidden"}]
      BY <2>2, <2>4, <2>6, <3>1
    <3> HIDE DEF written
    <3> QED
      BY <3>2, ReviewFields
  <2> QED
    BY <2>1, <2>3, <2>5, <2>6
<1> HIDE DEF written
<1>4. /\ DOMAIN t = TransactionFields
      /\ t.kind = tx[r].kind /\ t.asked = tx[r].asked /\ t.rating = tx[r].rating
      /\ t.booking = tx[r].booking /\ t.row = written
      /\ t.locks = tx[r].locks \cup {tx[r].booking}
      /\ t.plan = Tail(tx[r].plan)
  BY <1>1 DEF InOrder, TransactionFields
<1>5. tx' = [tx EXCEPT ![r] = t] /\ UNCHANGED <<reviews, editable, rating>>
  BY DEF Rated!WriteReview, written
<1> HIDE DEF t
<1>6. t.plan \in {<<"aggregate", "provider", "commit">>, <<"commit">>}
  BY <1>2, <1>4, PlanFact DEF Rated!Plan
<1>7. InOrder(t)
  BY <1>1, <1>2, <1>4, <1>6 DEF InOrder
<1>8. Rated!Begun(t)
  <2>1. t.plan \in Seq(Rated!Statements)
    BY <1>6, StatementsFact
  <2> QED
    BY <1>1, <1>2, <1>3, <1>4, <2>1 DEF Rated!Begun
<1>9. Founded(t)
  BY <1>1, <1>3, <1>4 DEF Founded
<1>10. ASSUME NEW s \in Requests \ {r}, tx[s] # Rated!Idle
       PROVE  t.locks \cap tx[s].locks = {}
  BY <1>2, <1>4, <1>10 DEF Rated!WriteReview, Rated!MayWrite, Rated!Locked
<1> QED
  BY <1>5, <1>7, <1>8, <1>9, <1>10, OneRating

\* The rating is computed from what the transaction sees.
LEMMA RatedAggregates ==
  ASSUME RatedInv, Rated!ReviewsAssumption, NEW r \in Requests, Rated!AggregateReviews(r)
  PROVE  RatedInv'
<1> DEFINE computed == Rated!Aggregate(Rated!Visible(r))
           t == [tx[r] EXCEPT !.rating = computed, !.plan = Tail(tx[r].plan)]
<1>1. /\ InOrder(tx[r]) /\ Rated!Begun(tx[r]) /\ Founded(tx[r])
      /\ Head(tx[r].plan) = "aggregate" /\ tx[r] # Rated!Idle
  BY Underway DEF Rated!AggregateReviews, Rated!At
<1>2. /\ tx[r].plan = <<"aggregate", "provider", "commit">>
      /\ tx[r].locks = {tx[r].booking}
  BY <1>1, PlanFact DEF InOrder, Rated!Plan
<1>3. computed \in Rated!Rating
  <2>1. tx[r].row \in Rated!Review /\ reviews \in [Bookings -> Rated!Review]
    BY <1>1 DEF Rated!Begun, RatedInv, Rated!TypeOK
  <2>2. Rated!Visible(r) \in [Bookings -> Rated!Review]
    BY <2>1 DEF Rated!Visible
  <2> QED
    BY <2>2, AggregateFact
<1> HIDE DEF computed
<1>4. /\ DOMAIN t = TransactionFields
      /\ t.kind = tx[r].kind /\ t.asked = tx[r].asked /\ t.rating = computed
      /\ t.booking = tx[r].booking /\ t.row = tx[r].row
      /\ t.locks = tx[r].locks
      /\ t.plan = Tail(tx[r].plan)
  BY <1>1 DEF InOrder, TransactionFields
<1>5. tx' = [tx EXCEPT ![r] = t] /\ UNCHANGED <<reviews, editable, rating>>
  BY DEF Rated!AggregateReviews, computed
<1> HIDE DEF t
<1>6. t.plan = <<"provider", "commit">>
  BY <1>2, <1>4, PlanFact
<1>7. InOrder(t)
  BY <1>1, <1>2, <1>4, <1>6 DEF InOrder
<1>8. Rated!Begun(t)
  BY <1>1, <1>3, <1>4, <1>6, StatementsFact DEF Rated!Begun
<1>9. Founded(t)
  BY <1>1, <1>4 DEF Founded
<1>10. ASSUME NEW s \in Requests \ {r}, tx[s] # Rated!Idle
       PROVE  t.locks \cap tx[s].locks = {}
  BY <1>1, <1>4, <1>10 DEF RatedInv, Rated!TypeOK
<1> QED
  BY <1>5, <1>7, <1>8, <1>9, <1>10, OneRating

\* The provider is written once nobody else has it locked.
LEMMA RatedUpdatesProvider ==
  ASSUME RatedInv, NEW r \in Requests, Rated!UpdateProvider(r)
  PROVE  RatedInv'
<1> DEFINE t == [tx[r] EXCEPT !.locks = tx[r].locks \cup {ProviderRow},
                              !.plan = Tail(tx[r].plan)]
<1>1. /\ InOrder(tx[r]) /\ Rated!Begun(tx[r]) /\ Founded(tx[r])
      /\ Head(tx[r].plan) = "provider" /\ tx[r] # Rated!Idle
  BY Underway DEF Rated!UpdateProvider, Rated!At
<1>2. /\ tx[r].plan = <<"provider", "commit">>
      /\ tx[r].locks = {tx[r].booking}
  BY <1>1, PlanFact DEF InOrder, Rated!Plan
<1>4. /\ DOMAIN t = TransactionFields
      /\ t.kind = tx[r].kind /\ t.asked = tx[r].asked /\ t.rating = tx[r].rating
      /\ t.booking = tx[r].booking /\ t.row = tx[r].row
      /\ t.locks = tx[r].locks \cup {ProviderRow}
      /\ t.plan = Tail(tx[r].plan)
  BY <1>1 DEF InOrder, TransactionFields
<1>5. tx' = [tx EXCEPT ![r] = t] /\ UNCHANGED <<reviews, editable, rating>>
  BY DEF Rated!UpdateProvider
<1> HIDE DEF t
<1>6. t.plan = <<"commit">>
  BY <1>2, <1>4, PlanFact
<1>7. InOrder(t)
  BY <1>1, <1>2, <1>4, <1>6 DEF InOrder
<1>8. Rated!Begun(t)
  BY <1>1, <1>4, <1>6, StatementsFact DEF Rated!Begun
<1>9. Founded(t)
  BY <1>1, <1>4 DEF Founded
<1>10. ASSUME NEW s \in Requests \ {r}, tx[s] # Rated!Idle
       PROVE  t.locks \cap tx[s].locks = {}
  <2>1. tx[r].locks \cap tx[s].locks = {}
    BY <1>1, <1>10 DEF RatedInv, Rated!TypeOK
  <2>2. ProviderRow \notin tx[s].locks
    BY <1>10 DEF Rated!UpdateProvider, Rated!Locked
  <2> QED
    BY <1>4, <2>1, <2>2
<1> QED
  BY <1>5, <1>7, <1>8, <1>9, <1>10, OneRating

\* A transaction ends: its review takes effect, and its rating if it wrote it.
LEMMA RatedCommits ==
  ASSUME RatedInv, NEW r \in Requests, Rated!Commit(r)
  PROVE  RatedInv'
<1> DEFINE b == tx[r].booking
<1>1. /\ InOrder(tx[r]) /\ Rated!Begun(tx[r]) /\ Founded(tx[r])
      /\ Head(tx[r].plan) = "commit" /\ tx[r] # Rated!Idle
  BY Underway DEF Rated!Commit, Rated!At
<1>2. /\ b \in Bookings /\ tx[r].row \in Rated!Review \ {Rated!NoReview}
      /\ tx[r].rating \in Rated!Rating
  BY <1>1 DEF Rated!Begun, Founded
<1>3. /\ reviews' = [reviews EXCEPT ![b] = tx[r].row]
      /\ editable' \subseteq editable \cup {b}
      /\ rating' \in {rating, tx[r].rating}
      /\ tx' = [tx EXCEPT ![r] = Rated!Idle]
  BY DEF Rated!Commit
<1> HIDE DEF b
<1>4. /\ reviews \in [Bookings -> Rated!Review] /\ rating \in Rated!Rating
      /\ editable \subseteq {a \in Bookings : reviews[a].exists}
  BY DEF RatedInv, Rated!TypeOK
<1>5. LocksInOrder'
  BY <1>3, OneTransaction DEF RatedInv
<1>6. /\ reviews' \in [Bookings -> Rated!Review] /\ rating' \in Rated!Rating
      /\ \A a \in Bookings : reviews'[a] = IF a = b THEN tx[r].row ELSE reviews[a]
  BY <1>2, <1>3, <1>4
<1>7. editable' \subseteq {a \in Bookings : reviews'[a].exists}
  <2>1. tx[r].row.exists
    BY <1>2, ReviewFields
  <2> QED
    BY <1>2, <1>3, <1>4, <1>6, <2>1
<1>8. \A q \in Requests : tx'[q] = IF q = r THEN Rated!Idle ELSE tx[q]
  BY <1>3 DEF RatedInv, LocksInOrder
<1>9. \A q \in Requests : tx'[q] = Rated!Idle \/ Rated!Begun(tx'[q])
  BY <1>8 DEF RatedInv, Rated!TypeOK
<1>10. \A p, q \in Requests :
         p # q /\ tx'[p] # Rated!Idle /\ tx'[q] # Rated!Idle => tx'[p].locks \cap tx'[q].locks = {}
  BY <1>8 DEF RatedInv, Rated!TypeOK
<1>11. Rated!TypeOK'
  BY <1>6, <1>7, <1>9, <1>10 DEF Rated!TypeOK, Rated!Begun
<1>12. ASSUME NEW q \in Requests, tx'[q] # Rated!Idle PROVE Founded(tx[q])'
  <2>1. tx'[q] = tx[q] /\ tx[q] # Rated!Idle
    BY <1>8, <1>12
  <2>2. Founded(tx[q]) /\ tx[q].booking \in Bookings
    BY <2>1, Underway DEF Rated!Begun
  <2>3. reviews[tx[q].booking] # Rated!NoReview => reviews'[tx[q].booking] # Rated!NoReview
    BY <1>2, <1>6, <2>2
  <2>4. reviews'[tx[q].booking] \in Rated!Review
    BY <1>6, <2>2
  <2> QED
    BY <2>1, <2>2, <2>3, <2>4 DEF Founded
<1> QED
  BY <1>5, <1>11, <1>12 DEF RatedInv

\* The bookings, the reviews and the ratings keep to their columns, whatever
\* transactions overlap, fail or are rolled back; a rating is an average of 1 to 5,
\* the reviews that can be edited are there, and no row is written by two
\* transactions at a time.
THEOREM ReviewsTypeCorrect == Rated!ReviewsAssumption => (Rated!Spec => []Rated!TypeOK)
<1> SUFFICES ASSUME Rated!ReviewsAssumption
             PROVE  Rated!Spec => []Rated!TypeOK
  OBVIOUS
<1>1. Rated!Init => RatedInv
  <2> SUFFICES ASSUME Rated!Init PROVE RatedInv
    OBVIOUS
  <2>1. Rated!NoReview \in Rated!Review /\ Rated!NoRating \in Rated!Rating
    <3>1. Cardinality(Bookings) \in Nat
      BY RatedSums, FS_CardinalityType DEF Rated!ReviewsAssumption
    <3>2. 0 \in 0..Rated!Cardinality(Bookings) /\ 0 \in 0..500
      BY <3>1, RatedSums
    <3> QED
      BY <3>2 DEF Rated!Review, Rated!NoRating, Rated!Rating
  <2>2. LocksInOrder
    BY DEF Rated!Init, LocksInOrder
  <2>3. \A r \in Requests : tx[r] = Rated!Idle
    BY DEF Rated!Init
  <2>4. reviews \in [Bookings -> Rated!Review] /\ editable = {} /\ rating \in Rated!Rating
    BY <2>1 DEF Rated!Init
  <2>5. Rated!TypeOK
    BY <2>3, <2>4 DEF Rated!TypeOK
  <2> QED
    BY <2>2, <2>3, <2>5 DEF RatedInv
<1>2. RatedInv /\ [Rated!Next]_(Rated!vars) => RatedInv'
  <2> SUFFICES ASSUME RatedInv, [Rated!Next]_(Rated!vars) PROVE RatedInv'
    OBVIOUS
  <2>1. ASSUME NEW r \in Requests, Rated!Execute(r) PROVE RatedInv'
    BY <2>1, RatedWrites, RatedAggregates, RatedUpdatesProvider, RatedCommits DEF Rated!Execute
  <2>2. ASSUME NEW r \in Requests, Rated!Rollback(r) PROVE RatedInv'
    <3> DEFINE t == Rated!Idle
    <3>1. tx' = [tx EXCEPT ![r] = t] /\ UNCHANGED <<reviews, editable, rating>> /\ t = Rated!Idle
      BY <2>2 DEF Rated!Rollback
    <3> HIDE DEF t
    <3>2. t = Rated!Idle \/ (InOrder(t) /\ Rated!Begun(t) /\ Founded(t))
      BY <3>1
    <3>3. \A s \in Requests \ {r} :
            t # Rated!Idle /\ tx[s] # Rated!Idle => t.locks \cap tx[s].locks = {}
      BY <3>1
    <3> QED
      BY <3>1, <3>2, <3>3, OneRating
  <2>3. ASSUME NEW r \in Requests, NEW b \in Bookings, NEW n \in Ratings,
               Rated!CreateReview(r, b, n) \/ Rated!UpdateReview(r, b, n)
        PROVE  RatedInv'
    <3>1. Rated!Give(n) \in Rated!Asked /\ Rated!Give(n).rating = n
      BY DEF Rated!Give, Rated!Asked
    <3>2. CASE Rated!CreateReview(r, b, n)
      BY <3>1, <3>2, RatedBegins DEF Rated!CreateReview
    <3>3. CASE Rated!UpdateReview(r, b, n)
      <4>1. reviews[b].exists
        BY <3>3 DEF Rated!UpdateReview, RatedInv, Rated!TypeOK
      <4>2. Rated!Begin(r, "update", b, Rated!Give(n), n # reviews[b].rating)
        BY <3>3 DEF Rated!UpdateReview
      <4>3. (n # reviews[b].rating) \in BOOLEAN
        OBVIOUS
      <4> QED
        BY <3>1, <4>1, <4>2, <4>3, RatedBegins
    <3> QED
      BY <2>3, <3>2, <3>3
  <2>4. ASSUME NEW r \in Requests, NEW b \in Bookings, NEW status \in {"published", "hidden"},
               Rated!ModerateReview(r, b, status)
        PROVE  RatedInv'
    <3>1. [rating |-> 0, status |-> status] \in Rated!Asked
      BY DEF Rated!Asked
    <3>2. reviews[b].exists /\ Rated!Begin(r, "moderate", b, [rating |-> 0, status |-> status], TRUE)
      BY <2>4 DEF Rated!ModerateReview
    <3> QED
      BY <3>1, <3>2, RatedBegins
  <2>5. ASSUME NEW b \in Bookings, Rated!CloseWindow(b) PROVE RatedInv'
    <3>1. editable' \subseteq editable /\ UNCHANGED <<reviews, rating, tx>>
      BY <2>5 DEF Rated!CloseWindow
    <3>2. Rated!TypeOK' /\ LocksInOrder'
      BY <3>1 DEF RatedInv, Rated!TypeOK, Rated!Begun, LocksInOrder, InOrder
    <3> QED
      BY <3>1, <3>2 DEF RatedInv, Founded
  <2>6. CASE UNCHANGED Rated!vars
    <3>1. UNCHANGED <<reviews, editable, rating, tx>>
      BY <2>6 DEF Rated!vars
    <3>2. Rated!TypeOK' /\ LocksInOrder'
      BY <3>1 DEF RatedInv, Rated!TypeOK, Rated!Begun, LocksInOrder, InOrder
    <3> QED
      BY <3>1, <3>2 DEF RatedInv, Founded
  <2> QED
    BY <2>1, <2>2, <2>3, <2>4, <2>5, <2>6 DEF Rated!Next
<1>3. RatedInv => Rated!TypeOK
  BY DEF RatedInv
<1> QED
  BY <1>1, <1>2, <1>3, PTL DEF Rated!Spec

-----------------------------------------------------------------------------
(* Catalogue                                                               *)

(***************************************************************************)
(* Both instances of the catalogue, and any other: requests q that call    *)
(* the handlers h and read the keys k, while Redis may fail if o.          *)
(***************************************************************************)
Cached(q, h, k, o) == INSTANCE Catalogue WITH
  Requests <- q, Handlers <- h, Keys <- k, Outages <- o, call <- catalogueCall

\* The handlers whose table and patterns HandlerOf knows, and the two others.
HandlerNames ==
  {"CreateDestination", "UpdateDestination", "CreateProvider", "UpdateOwnProvider",
   "ModerateProvider", "OwnerServices", "AdminServices", "Business",
   "ReviewProvider", "SeedDemoData"}

\* The inductive invariant: each insertion of the demo services is a write to their table.
CachedInv(q, h, k, o) ==
  /\ Cached(q, h, k, o)!TypeOK
  /\ seeded <= version["service"]

\* What a request holds at each point.
LEMMA CachedCall ==
  ASSUME NEW q, NEW h, NEW k, NEW o, NEW c \in Cached(q, h, k, o)!Call
  PROVE  /\ c.pc \in {"idle", "fetching", "storing", "invalidating", "reviewing", "seeding"}
         /\ c.pc = "fetching" => c.key \in k
         /\ c.pc = "storing" =>
              c.key \in k /\ c.value \in [Cached(q, h, k, o)!Reads(c.key) -> 0..MaxWrites]
         /\ c.pc \in {"invalidating", "reviewing"} =>
              c.keys \in SUBSET k /\ c \in [pc : {"invalidating", "reviewing"}, keys : SUBSET k]
         /\ c.pc = "seeding" => c.empty \in SUBSET Cached(q, h, k, o)!Tables
<1>1. CASE c = Cached(q, h, k, o)!Idle
  BY <1>1 DEF Cached!Idle
<1>2. CASE c \in [pc : {"fetching"}, key : k]
  BY <1>2
<1>3. ASSUME NEW key \in k,
             c \in [pc : {"storing"}, key : {key}, value : [Cached(q, h, k, o)!Reads(key) -> 0..MaxWrites]]
      PROVE  /\ c.pc = "storing" /\ c.key = key
             /\ c.value \in [Cached(q, h, k, o)!Reads(key) -> 0..MaxWrites]
  BY <1>3
<1>4. CASE c \in [pc : {"invalidating", "reviewing"}, keys : SUBSET k]
  BY <1>4
<1>5. CASE c \in [pc : {"seeding"}, empty : SUBSET Cached(q, h, k, o)!Tables]
  BY <1>5
<1>6. \/ c = Cached(q, h, k, o)!Idle
      \/ c \in [pc : {"fetching"}, key : k]
      \/ \E key \in k :
           c \in [pc : {"storing"}, key : {key}, value : [Cached(q, h, k, o)!Reads(key) -> 0..MaxWrites]]
      \/ c \in [pc : {"invalidating", "reviewing"}, keys : SUBSET k]
      \/ c \in [pc : {"seeding"}, empty : SUBSET Cached(q, h, k, o)!Tables]
  BY DEF Cached!Call
<1>7. CASE \E key \in k :
             c \in [pc : {"storing"}, key : {key}, value : [Cached(q, h, k, o)!Reads(key) -> 0..MaxWrites]]
  <2>1. PICK key \in k :
               c \in [pc : {"storing"}, key : {key}, value : [Cached(q, h, k, o)!Reads(key) -> 0..MaxWrites]]
    BY <1>7
  <2>2. /\ c.pc = "storing" /\ c.key = key
        /\ c.value \in [Cached(q, h, k, o)!Reads(key) -> 0..MaxWrites]
    BY <1>3, <2>1
  <2> QED
    BY <2>2
<1> QED
  BY <1>1, <1>2, <1>4, <1>5, <1>6, <1>7

\* A step that changes what one request holds, and perhaps the cache, but no table.
LEMMA CachedGoes ==
  ASSUME NEW q, NEW h, NEW k, NEW o, CachedInv(q, h, k, o),
         NEW r \in q, NEW c \in Cached(q, h, k, o)!Call, Cached(q, h, k, o)!Goto(r, c),
         UNCHANGED <<version, redisUp, seeded>>,
         cached' = cached \/ \E key \in k :
           \E e \in Cached(q, h, k, o)!Entry(key) : cached' = [cached EXCEPT ![key] = e]
  PROVE  CachedInv(q, h, k, o)'
<1>1. catalogueCall' \in [q -> Cached(q, h, k, o)!Call]
  BY DEF CachedInv, Cached!TypeOK, Cached!Goto
<1>2. DOMAIN cached' = k /\ \A key \in k : cached'[key] \in Cached(q, h, k, o)!Entry(key)
  BY DEF CachedInv, Cached!TypeOK
<1>3. /\ version' \in [Cached(q, h, k, o)!Tables -> 0..MaxWrites]
      /\ redisUp' \in BOOLEAN /\ seeded' \in 0..MaxWrites
      /\ seeded' <= version'["service"]
  BY DEF CachedInv, Cached!TypeOK
<1> QED
  BY <1>1, <1>2, <1>3 DEF CachedInv, Cached!TypeOK

\* A step that writes to tables.
LEMMA CachedWrites ==
  ASSUME NEW q, NEW h, NEW k, NEW o, CachedInv(q, h, k, o), MaxWrites \in Nat,
         NEW r \in q, NEW c \in Cached(q, h, k, o)!Call, Cached(q, h, k, o)!Goto(r, c),
         UNCHANGED <<cached, redisUp>>,
         NEW written \in SUBSET Cached(q, h, k, o)!Tables,
         \A t \in written : version[t] < MaxWrites,
         version' = [t \in Cached(q, h, k, o)!Tables
             |-> IF t \in written THEN version[t] + 1 ELSE version[t]],
         seeded' = seeded \/ ("service" \in written /\ seeded' = seeded + 1)
  PROVE  CachedInv(q, h, k, o)'
<1>1. catalogueCall' \in [q -> Cached(q, h, k, o)!Call]
  BY DEF CachedInv, Cached!TypeOK, Cached!Goto
<1>2. /\ DOMAIN cached' = k /\ \A key \in k : cached'[key] \in Cached(q, h, k, o)!Entry(key)
      /\ redisUp' \in BOOLEAN
  BY DEF CachedInv, Cached!TypeOK
<1>3. /\ version \in [Cached(q, h, k, o)!Tables -> 0..MaxWrites]
      /\ seeded \in 0..MaxWrites /\ seeded <= version["service"]
  BY DEF CachedInv, Cached!TypeOK
<1>4. version' \in [Cached(q, h, k, o)!Tables -> 0..MaxWrites]
  <2>1. ASSUME NEW t \in Cached(q, h, k, o)!Tables
        PROVE  (IF t \in written THEN version[t] + 1 ELSE version[t]) \in 0..MaxWrites
    BY <1>3
  <2> QED
    BY <2>1
<1>5. seeded' \in 0..MaxWrites /\ seeded' <= version'["service"]
  <2>1. "service" \in Cached(q, h, k, o)!Tables
    BY DEF Cached!Tables
  <2>2. version["service"] \in 0..MaxWrites
        /\ version'["service"] = (IF "service" \in written
               THEN version["service"] + 1 ELSE version["service"])
    BY <2>1, <1>3
  <2>3. "service" \in written => version["service"] < MaxWrites
    OBVIOUS
  <2> QED
    BY <1>3, <2>2, <2>3
<1> QED
  BY <1>1, <1>2, <1>4, <1>5 DEF CachedInv, Cached!TypeOK

\* What a request may come to hold.
LEMMA CachedHolds ==
  ASSUME NEW q, NEW h, NEW k, NEW o
  PROVE  /\ Cached(q, h, k, o)!Idle \in Cached(q, h, k, o)!Call
         /\ \A key \in k : [pc |-> "fetching", key |-> key] \in Cached(q, h, k, o)!Call
         /\ \A key \in k : \A v \in [Cached(q, h, k, o)!Reads(key) -> 0..MaxWrites] :
              [pc |-> "storing", key |-> key, value |-> v] \in Cached(q, h, k, o)!Call
         /\ \A keys \in SUBSET k :
              /\ [pc |-> "invalidating", keys |-> keys] \in Cached(q, h, k, o)!Call
              /\ [pc |-> "reviewing", keys |-> keys] \in Cached(q, h, k, o)!Call
         /\ \A empty \in SUBSET Cached(q, h, k, o)!Tables :
              [pc |-> "seeding", empty |-> empty] \in Cached(q, h, k, o)!Call
         /\ \A c \in [pc : {"invalidating", "reviewing"}, keys : SUBSET k] :
              c \in Cached(q, h, k, o)!Call
BY DEF Cached!Call

\* A handler that writes, writes to one of the tables.
LEMMA CachedHandlers ==
  ASSUME NEW q, NEW h, NEW k, NEW o,
         NEW name \in HandlerNames \ {"ReviewProvider", "SeedDemoData"}
  PROVE  Cached(q, h, k, o)!HandlerOf(name).table \in Cached(q, h, k, o)!Tables
BY DEF HandlerNames, Cached!HandlerOf, Cached!Tables, Cached!CreateDestination,
       Cached!UpdateDestination, Cached!CreateProvider, Cached!UpdateOwnProvider,
       Cached!ModerateProvider, Cached!OwnerServices, Cached!AdminServices, Cached!Business

\* What one request does.
LEMMA CachedStart ==
  ASSUME NEW q, NEW h, NEW k, NEW o, CachedInv(q, h, k, o), MaxWrites \in Nat,
         h \subseteq HandlerNames, NEW r \in q, Cached(q, h, k, o)!Start(r)
  PROVE  CachedInv(q, h, k, o)'
<1>1. ASSUME NEW key \in k, Cached(q, h, k, o)!Miss(r, key)
      PROVE  CachedInv(q, h, k, o)'
  BY <1>1, CachedHolds, CachedGoes DEF Cached!Miss
<1>2. ASSUME NEW name \in h \ {"ReviewProvider", "SeedDemoData"},
             Cached(q, h, k, o)!Write(r, name)
      PROVE  CachedInv(q, h, k, o)'
  <2> DEFINE table == Cached(q, h, k, o)!HandlerOf(name).table
             keys == Cached(q, h, k, o)!MatchingAny(Cached(q, h, k, o)!HandlerOf(name).patterns)
             c == [pc |-> "invalidating", keys |-> keys]
             written == {table}
  <2>1. table \in Cached(q, h, k, o)!Tables
    BY CachedHandlers
  <2>2. keys \in SUBSET k
    BY DEF Cached!MatchingAny
  <2>3. /\ version[table] < MaxWrites /\ version' = [version EXCEPT ![table] = @ + 1]
        /\ Cached(q, h, k, o)!Goto(r, c) /\ UNCHANGED <<cached, redisUp, seeded>>
    BY <1>2 DEF Cached!Write, Cached!Written
  <2> HIDE DEF table, keys
  <2>4. c \in Cached(q, h, k, o)!Call
    BY <2>2, CachedHolds
  <2>5. version' = [t \in Cached(q, h, k, o)!Tables
            |-> IF t \in written THEN version[t] + 1 ELSE version[t]]
    BY <2>1, <2>3 DEF CachedInv, Cached!TypeOK
  <2>6. /\ written \in SUBSET Cached(q, h, k, o)!Tables
        /\ \A t \in written : version[t] < MaxWrites
    BY <2>1, <2>3
  <2> HIDE DEF c, written
  <2> QED
    BY <2>3, <2>4, <2>5, <2>6, CachedWrites
<1>3. ASSUME Cached(q, h, k, o)!ReviewProvider(r)
      PROVE  CachedInv(q, h, k, o)'
  <2> DEFINE keys == Cached(q, h, k, o)!MatchingAny({"providers:*"})
             c == [pc |-> "reviewing", keys |-> keys]
  <2>1. keys \in SUBSET k
    BY DEF Cached!MatchingAny
  <2>2. Cached(q, h, k, o)!Goto(r, c) /\ UNCHANGED <<version, cached, redisUp, seeded>>
    BY <1>3 DEF Cached!ReviewProvider
  <2> HIDE DEF keys
  <2>3. c \in Cached(q, h, k, o)!Call
    BY <2>1, CachedHolds
  <2> HIDE DEF c
  <2> QED
    BY <2>2, <2>3, CachedGoes
<1>4. ASSUME Cached(q, h, k, o)!SeedDemoData(r)
      PROVE  CachedInv(q, h, k, o)'
  <2> DEFINE empty == {t \in {"destination", "service"} : version[t] = 0}
             c == [pc |-> "seeding", empty |-> empty]
  <2>1. empty \in SUBSET Cached(q, h, k, o)!Tables
    BY DEF Cached!Tables
  <2>2. Cached(q, h, k, o)!Goto(r, c) /\ UNCHANGED <<version, cached, redisUp, seeded>>
    BY <1>4 DEF Cached!SeedDemoData
  <2> HIDE DEF empty
  <2>3. c \in Cached(q, h, k, o)!Call
    BY <2>1, CachedHolds
  <2> HIDE DEF c
  <2> QED
    BY <2>2, <2>3, CachedGoes
<1> QED
  BY <1>1, <1>2, <1>3, <1>4 DEF Cached!Start

\* And how it gets on.
LEMMA CachedFinish ==
  ASSUME NEW q, NEW h, NEW k, NEW o, CachedInv(q, h, k, o), MaxWrites \in Nat,
         NEW r \in q, Cached(q, h, k, o)!Finish(r)
  PROVE  CachedInv(q, h, k, o)'
<1> DEFINE held == catalogueCall[r]
<1>0. /\ held \in Cached(q, h, k, o)!Call
      /\ version \in [Cached(q, h, k, o)!Tables -> 0..MaxWrites]
  BY DEF CachedInv, Cached!TypeOK
<1>1. ASSUME Cached(q, h, k, o)!Fetch(r)
      PROVE  CachedInv(q, h, k, o)'
  <2> DEFINE key == held.key
             value == Cached(q, h, k, o)!View(key)
             c == [pc |-> "storing", key |-> key, value |-> value]
  <2>1. /\ held.pc = "fetching" /\ Cached(q, h, k, o)!Goto(r, c)
        /\ UNCHANGED <<version, cached, redisUp, seeded>>
    BY <1>1 DEF Cached!Fetch
  <2> HIDE DEF held
  <2>2. key \in k
    BY <1>0, <2>1, CachedCall
  <2>3. \A x : Cached(q, h, k, o)!Reads(x) \subseteq Cached(q, h, k, o)!Tables
    BY DEF Cached!Reads, Cached!Tables
  <2>4. value \in [Cached(q, h, k, o)!Reads(key) -> 0..MaxWrites]
    BY <1>0, <2>3 DEF Cached!View
  <2> HIDE DEF key, value
  <2>5. c \in Cached(q, h, k, o)!Call
    BY <2>2, <2>4, CachedHolds
  <2> HIDE DEF c
  <2> QED
    BY <2>1, <2>5, CachedGoes
<1>2. ASSUME Cached(q, h, k, o)!Store(r)
      PROVE  CachedInv(q, h, k, o)'
  <2> DEFINE key == held.key
             value == held.value
  <2>1. /\ held.pc = "storing" /\ Cached(q, h, k, o)!Goto(r, Cached(q, h, k, o)!Idle)
        /\ cached' = cached \/ cached' = [cached EXCEPT ![key] = value]
        /\ UNCHANGED <<version, redisUp, seeded>>
    BY <1>2 DEF Cached!Store
  <2> HIDE DEF held
  <2>2. key \in k /\ value \in [Cached(q, h, k, o)!Reads(key) -> 0..MaxWrites]
    BY <1>0, <2>1, CachedCall
  <2> HIDE DEF key, value
  <2>3. value \in Cached(q, h, k, o)!Entry(key)
    BY <2>2 DEF Cached!Entry
  <2>4. Cached(q, h, k, o)!Idle \in Cached(q, h, k, o)!Call
    BY CachedHolds
  <2>5. cached' = cached \/ \E x \in k :
          \E e \in Cached(q, h, k, o)!Entry(x) : cached' = [cached EXCEPT ![x] = e]
    BY <2>1, <2>2, <2>3
  <2> QED
    BY <2>1, <2>4, <2>5, CachedGoes
<1>3. ASSUME NEW key \in k, Cached(q, h, k, o)!Delete(r, key)
      PROVE  CachedInv(q, h, k, o)'
  <2> DEFINE c == [held EXCEPT !.keys = @ \ {key}]
  <2>1. /\ held.pc \in {"invalidating", "reviewing"} /\ Cached(q, h, k, o)!Goto(r, c)
        /\ cached' = [cached EXCEPT ![key] = Cached(q, h, k, o)!Uncached]
        /\ UNCHANGED <<version, redisUp, seeded>>
    BY <1>3 DEF Cached!Delete
  <2> HIDE DEF held
  <2>2. held \in [pc : {"invalidating", "reviewing"}, keys : SUBSET k]
    BY <1>0, <2>1, CachedCall
  <2>3. c \in [pc : {"invalidating", "reviewing"}, keys : SUBSET k]
    BY <2>2
  <2> HIDE DEF c
  <2>4. c \in Cached(q, h, k, o)!Call
    BY <2>3, CachedHolds
  <2>5. Cached(q, h, k, o)!Uncached \in Cached(q, h, k, o)!Entry(key)
    BY DEF Cached!Entry
  <2>6. cached' = cached \/ \E x \in k :
          \E e \in Cached(q, h, k, o)!Entry(x) : cached' = [cached EXCEPT ![x] = e]
    BY <2>1, <2>5
  <2> QED
    BY <2>1, <2>4, <2>6, CachedGoes
<1>4. ASSUME Cached(q, h, k, o)!GiveUp(r)
      PROVE  CachedInv(q, h, k, o)'
  <2> DEFINE c == [held EXCEPT !.keys = {}]
  <2>1. /\ held.pc \in {"invalidating", "reviewing"} /\ Cached(q, h, k, o)!Goto(r, c)
        /\ UNCHANGED <<version, cached, redisUp, seeded>>
    BY <1>4 DEF Cached!GiveUp
  <2> HIDE DEF held
  <2>2. held \in [pc : {"invalidating", "reviewing"}, keys : SUBSET k]
    BY <1>0, <2>1, CachedCall
  <2>3. c \in [pc : {"invalidating", "reviewing"}, keys : SUBSET k]
    BY <2>2
  <2> HIDE DEF c
  <2>4. c \in Cached(q, h, k, o)!Call
    BY <2>3, CachedHolds
  <2> QED
    BY <2>1, <2>4, CachedGoes
<1>5. ASSUME Cached(q, h, k, o)!Answer(r) \/ Cached(q, h, k, o)!RollbackReview(r)
      PROVE  CachedInv(q, h, k, o)'
  <2>1. /\ Cached(q, h, k, o)!Goto(r, Cached(q, h, k, o)!Idle)
        /\ UNCHANGED <<version, cached, redisUp, seeded>>
    BY <1>5 DEF Cached!Answer, Cached!RollbackReview
  <2>2. Cached(q, h, k, o)!Idle \in Cached(q, h, k, o)!Call
    BY CachedHolds
  <2> QED
    BY <2>1, <2>2, CachedGoes
<1>6. ASSUME Cached(q, h, k, o)!CommitReview(r)
      PROVE  CachedInv(q, h, k, o)'
  <2> DEFINE written == {"provider"}
  <2>1. /\ version["provider"] < MaxWrites /\ version' = [version EXCEPT !["provider"] = @ + 1]
        /\ Cached(q, h, k, o)!Goto(r, Cached(q, h, k, o)!Idle)
        /\ UNCHANGED <<cached, redisUp, seeded>>
    BY <1>6 DEF Cached!CommitReview, Cached!Written
  <2>2. "provider" \in Cached(q, h, k, o)!Tables
    BY DEF Cached!Tables
  <2>3. version' = [t \in Cached(q, h, k, o)!Tables
            |-> IF t \in written THEN version[t] + 1 ELSE version[t]]
    BY <1>0, <2>1, <2>2
  <2>4. /\ written \in SUBSET Cached(q, h, k, o)!Tables
        /\ \A t \in written : version[t] < MaxWrites
    BY <2>1, <2>2
  <2>5. Cached(q, h, k, o)!Idle \in Cached(q, h, k, o)!Call
    BY CachedHolds
  <2> HIDE DEF written
  <2> QED
    BY <2>1, <2>3, <2>4, <2>5, CachedWrites
<1>7. ASSUME Cached(q, h, k, o)!CommitSeed(r)
      PROVE  CachedInv(q, h, k, o)'
  <2> DEFINE written == held.empty \cup
               (IF "service" \in held.empty /\ version["provider"] = 0
                   THEN {"provider"} ELSE {})
  <2>1. /\ held.pc = "seeding" /\ \A t \in written : version[t] < MaxWrites
        /\ version' = [t \in Cached(q, h, k, o)!Tables
               |-> IF t \in written THEN version[t] + 1 ELSE version[t]]
        /\ seeded' = IF "service" \in held.empty THEN seeded + 1 ELSE seeded
        /\ Cached(q, h, k, o)!Goto(r, Cached(q, h, k, o)!Idle)
        /\ UNCHANGED <<cached, redisUp>>
    BY <1>7 DEF Cached!CommitSeed
  <2> HIDE DEF held
  <2>2. held.empty \in SUBSET Cached(q, h, k, o)!Tables
    BY <1>0, <2>1, CachedCall
  <2>3. "provider" \in Cached(q, h, k, o)!Tables
    BY DEF Cached!Tables
  <2>4. /\ written \in SUBSET Cached(q, h, k, o)!Tables
        /\ ("service" \in held.empty => "service" \in written)
    BY <2>2, <2>3
  <2>5. Cached(q, h, k, o)!Idle \in Cached(q, h, k, o)!Call
    BY CachedHolds
  <2>6. seeded' = seeded \/ ("service" \in written /\ seeded' = seeded + 1)
    BY <2>1, <2>4
  <2> HIDE DEF written
  <2> QED
    BY <2>1, <2>4, <2>5, <2>6, CachedWrites
<1> QED
  BY <1>1, <1>2, <1>3, <1>4, <1>5, <1>6, <1>7 DEF Cached!Finish

\* The invariant holds of every instance as it begins, ...
LEMMA CachedBegins ==
  ASSUME NEW q, NEW h, NEW k, NEW o, MaxWrites \in Nat \ {0}, Cached(q, h, k, o)!Init
  PROVE  CachedInv(q, h, k, o)
<1>1. version \in [Cached(q, h, k, o)!Tables -> 0..MaxWrites]
  <2>1. 0..1 \subseteq 0..MaxWrites
    OBVIOUS
  <2> QED
    BY <2>1 DEF Cached!Init
<1>2. DOMAIN cached = k /\ \A key \in k : cached[key] \in Cached(q, h, k, o)!Entry(key)
  BY DEF Cached!Init, Cached!Entry
<1>3. catalogueCall \in [q -> Cached(q, h, k, o)!Call]
  BY CachedHolds DEF Cached!Init
<1>4. redisUp \in BOOLEAN /\ seeded = 0 /\ seeded \in 0..MaxWrites
  BY DEF Cached!Init
<1>5. seeded <= version["service"]
  BY <1>1, <1>4 DEF Cached!Tables
<1> QED
  BY <1>1, <1>2, <1>3, <1>4, <1>5 DEF CachedInv, Cached!TypeOK

\* ... and every step keeps it: contents of tables and of the cache, and what requests
\* hold, stay in their ranges, for any requests, keys and handlers that HandlerOf knows,
\* and however Redis fails.
LEMMA CachedStep ==
  ASSUME NEW q, NEW h, NEW k, NEW o, CachedInv(q, h, k, o), MaxWrites \in Nat \ {0},
         h \subseteq HandlerNames, [Cached(q, h, k, o)!Next]_(Cached(q, h, k, o)!vars)
  PROVE  CachedInv(q, h, k, o)'
<1>1. ASSUME NEW r \in q, Cached(q, h, k, o)!Start(r) \/ Cached(q, h, k, o)!Finish(r)
      PROVE  CachedInv(q, h, k, o)'
  BY <1>1, CachedStart, CachedFinish
<1>2. ASSUME NEW key \in k, Cached(q, h, k, o)!Expire(key)
      PROVE  CachedInv(q, h, k, o)'
  <2>1. /\ cached' = [cached EXCEPT ![key] = Cached(q, h, k, o)!Uncached]
        /\ UNCHANGED <<version, redisUp, catalogueCall, seeded>>
    BY <1>2 DEF Cached!Expire
  <2>2. DOMAIN cached' = k /\ \A x \in k : cached'[x] \in Cached(q, h, k, o)!Entry(x)
    BY <2>1 DEF CachedInv, Cached!TypeOK, Cached!Entry
  <2> QED
    BY <2>1, <2>2 DEF CachedInv, Cached!TypeOK
<1>3. ASSUME Cached(q, h, k, o)!Outage
      PROVE  CachedInv(q, h, k, o)'
  <2>1. redisUp' \in BOOLEAN /\ UNCHANGED <<version, cached, catalogueCall, seeded>>
    BY <1>3 DEF Cached!Outage
  <2> QED
    BY <2>1 DEF CachedInv, Cached!TypeOK
<1>4. CASE UNCHANGED Cached(q, h, k, o)!vars
  BY <1>4 DEF CachedInv, Cached!TypeOK, Cached!vars
<1> QED
  BY <1>1, <1>2, <1>3, <1>4 DEF Cached!Next

\* Both instances are such instances.
LEMMA CatalogueAlike ==
  /\ Catalogue!Init => Cached(FewRequests, ProviderHandlers, PublicPages, TRUE)!Init
  /\ [Catalogue!Next]_(Catalogue!vars)
       => [Cached(FewRequests, ProviderHandlers, PublicPages, TRUE)!Next]_(
            Cached(FewRequests, ProviderHandlers, PublicPages, TRUE)!vars)
  /\ Cached(FewRequests, ProviderHandlers, PublicPages, TRUE)!TypeOK => Catalogue!TypeOK
<1>1. Catalogue!Init => Cached(FewRequests, ProviderHandlers, PublicPages, TRUE)!Init
  BY DEF
    Catalogue!Init, Cached!Init, Catalogue!Tables, Cached!Tables, Catalogue!Uncached,
    Cached!Uncached, Catalogue!Idle, Cached!Idle
<1>2. [Catalogue!Next]_(Catalogue!vars)
        => [Cached(FewRequests, ProviderHandlers, PublicPages, TRUE)!Next]_(
             Cached(FewRequests, ProviderHandlers, PublicPages, TRUE)!vars)
  BY DEF
    Catalogue!Next, Cached!Next, Catalogue!Start, Cached!Start, Catalogue!Finish,
    Cached!Finish, Catalogue!Miss, Cached!Miss, Catalogue!Fetch, Cached!Fetch,
    Catalogue!Store, Cached!Store, Catalogue!Delete, Cached!Delete, Catalogue!GiveUp,
    Cached!GiveUp, Catalogue!Answer, Cached!Answer, Catalogue!CommitReview,
    Cached!CommitReview, Catalogue!RollbackReview, Cached!RollbackReview,
    Catalogue!CommitSeed, Cached!CommitSeed, Catalogue!Write, Cached!Write,
    Catalogue!ReviewProvider, Cached!ReviewProvider, Catalogue!SeedDemoData,
    Cached!SeedDemoData, Catalogue!Expire, Cached!Expire, Catalogue!Outage, Cached!Outage,
    Catalogue!Goto, Cached!Goto, Catalogue!Idle, Cached!Idle, Catalogue!Uncached,
    Cached!Uncached, Catalogue!View, Cached!View, Catalogue!Reads, Cached!Reads,
    Catalogue!DestinationKeys, Cached!DestinationKeys, Catalogue!ProviderKeys,
    Cached!ProviderKeys, Catalogue!CatalogKeys, Cached!CatalogKeys, Catalogue!MatchingAny,
    Cached!MatchingAny, Catalogue!Matching, Cached!Matching, Catalogue!Written,
    Cached!Written, Catalogue!HandlerOf, Cached!HandlerOf, Catalogue!CreateDestination,
    Cached!CreateDestination, Catalogue!UpdateDestination, Cached!UpdateDestination,
    Catalogue!CreateProvider, Cached!CreateProvider, Catalogue!UpdateOwnProvider,
    Cached!UpdateOwnProvider, Catalogue!ModerateProvider, Cached!ModerateProvider,
    Catalogue!OwnerServices, Cached!OwnerServices, Catalogue!AdminServices,
    Cached!AdminServices, Catalogue!Business, Cached!Business, Catalogue!Tables,
    Cached!Tables, Catalogue!vars, Cached!vars
<1>3. Cached(FewRequests, ProviderHandlers, PublicPages, TRUE)!TypeOK => Catalogue!TypeOK
  BY DEF
    Catalogue!TypeOK, Cached!TypeOK, Catalogue!Tables, Cached!Tables, Catalogue!Entry,
    Cached!Entry, Catalogue!Uncached, Cached!Uncached, Catalogue!Reads, Cached!Reads,
    Catalogue!DestinationKeys, Cached!DestinationKeys, Catalogue!ProviderKeys,
    Cached!ProviderKeys, Catalogue!CatalogKeys, Cached!CatalogKeys, Catalogue!Call,
    Cached!Call, Catalogue!Idle, Cached!Idle
<1> QED
  BY <1>1, <1>2, <1>3, ZenonT(40)
\* The handlers and the keys of one request at a time, at every table.
EveryHandler ==
  ProviderHandlers \cup {"CreateDestination", "UpdateDestination", "AdminServices", "Business"}

EveryKey == {"destinations:list", "destinations:slug", "services:catalog", "providers:dashboard"}

LEMMA EveryTableAlike ==
  /\ EveryTable!Init => Cached(OneRequest, EveryHandler, EveryKey, FALSE)!Init
  /\ [EveryTable!Next]_(EveryTable!vars)
       => [Cached(OneRequest, EveryHandler, EveryKey, FALSE)!Next]_(
            Cached(OneRequest, EveryHandler, EveryKey, FALSE)!vars)
  /\ Cached(OneRequest, EveryHandler, EveryKey, FALSE)!TypeOK => EveryTable!TypeOK
<1>1. EveryTable!Init => Cached(OneRequest, EveryHandler, EveryKey, FALSE)!Init
  BY DEF EveryHandler, EveryKey,
    EveryTable!Init, Cached!Init, EveryTable!Tables, Cached!Tables, EveryTable!Uncached,
    Cached!Uncached, EveryTable!Idle, Cached!Idle
<1>2. [EveryTable!Next]_(EveryTable!vars)
        => [Cached(OneRequest, EveryHandler, EveryKey, FALSE)!Next]_(
             Cached(OneRequest, EveryHandler, EveryKey, FALSE)!vars)
  BY DEF EveryHandler, EveryKey,
    EveryTable!Next, Cached!Next, EveryTable!Start, Cached!Start, EveryTable!Finish,
    Cached!Finish, EveryTable!Miss, Cached!Miss, EveryTable!Fetch, Cached!Fetch,
    EveryTable!Store, Cached!Store, EveryTable!Delete, Cached!Delete, EveryTable!GiveUp,
    Cached!GiveUp, EveryTable!Answer, Cached!Answer, EveryTable!CommitReview,
    Cached!CommitReview, EveryTable!RollbackReview, Cached!RollbackReview,
    EveryTable!CommitSeed, Cached!CommitSeed, EveryTable!Write, Cached!Write,
    EveryTable!ReviewProvider, Cached!ReviewProvider, EveryTable!SeedDemoData,
    Cached!SeedDemoData, EveryTable!Expire, Cached!Expire, EveryTable!Outage, Cached!Outage,
    EveryTable!Goto, Cached!Goto, EveryTable!Idle, Cached!Idle, EveryTable!Uncached,
    Cached!Uncached, EveryTable!View, Cached!View, EveryTable!Reads, Cached!Reads,
    EveryTable!DestinationKeys, Cached!DestinationKeys, EveryTable!ProviderKeys,
    Cached!ProviderKeys, EveryTable!CatalogKeys, Cached!CatalogKeys, EveryTable!MatchingAny,
    Cached!MatchingAny, EveryTable!Matching, Cached!Matching, EveryTable!Written,
    Cached!Written, EveryTable!HandlerOf, Cached!HandlerOf, EveryTable!CreateDestination,
    Cached!CreateDestination, EveryTable!UpdateDestination, Cached!UpdateDestination,
    EveryTable!CreateProvider, Cached!CreateProvider, EveryTable!UpdateOwnProvider,
    Cached!UpdateOwnProvider, EveryTable!ModerateProvider, Cached!ModerateProvider,
    EveryTable!OwnerServices, Cached!OwnerServices, EveryTable!AdminServices,
    Cached!AdminServices, EveryTable!Business, Cached!Business, EveryTable!Tables,
    Cached!Tables, EveryTable!vars, Cached!vars
<1>3. Cached(OneRequest, EveryHandler, EveryKey, FALSE)!TypeOK => EveryTable!TypeOK
  BY DEF EveryHandler, EveryKey,
    EveryTable!TypeOK, Cached!TypeOK, EveryTable!Tables, Cached!Tables, EveryTable!Entry,
    Cached!Entry, EveryTable!Uncached, Cached!Uncached, EveryTable!Reads, Cached!Reads,
    EveryTable!DestinationKeys, Cached!DestinationKeys, EveryTable!ProviderKeys,
    Cached!ProviderKeys, EveryTable!CatalogKeys, Cached!CatalogKeys, EveryTable!Call,
    Cached!Call, EveryTable!Idle, Cached!Idle
<1> QED
  BY <1>1, <1>2, <1>3, ZenonT(40)

-----------------------------------------------------------------------------
(* Rate limiter                                                            *)

\* The component's sums are the library's.
LEMMA LimiterSums ==
  \A f, S : RateLimiter!SumFunctionOnSet(f, S) = SumFunctionOnSet(f, S)
BY DEF RateLimiter!SumFunctionOnSet, RateLimiter!FoldFunctionOnSet,
       RateLimiter!MapThenFoldSet, SumFunctionOnSet, FoldFunctionOnSet, MapThenFoldSet

\* Nothing is counted ahead of the clock, Redis keeps the key for as long as what it
\* counts can be in a window, and what is still in a window is still counted.
Counted ==
  /\ \A t \in RateLimiter!Instants : t[1] > clock[1] => entries[t] = 0 /\ served[t] = 0
  /\ \A t \in RateLimiter!Instants :
       entries[t] > 0 \/ served[t] > 0 => t[1] + WindowSec <= expires[1]
  /\ \A t \in RateLimiter!Instants : t[1] > clock[1] - WindowSec => served[t] <= entries[t]

\* What a client reads from the last answer.
Promised ==
  /\ headers.remaining > 0 =>
       SumFunctionOnSet(entries, RateLimiter!Instants) + headers.remaining <= MaxRequests
  /\ ~headers.allowed => headers.resetAt = expires[1]

\* The first half of WindowLimit, from which the other follows.
WholeWindows ==
  \A last \in RateLimiter!Seconds :
    SumFunctionOnSet(served, RateLimiter!InWindow(last)) <= MaxRequests

LimiterInv ==
  /\ RateLimiter!TypeOK
  /\ Counted
  /\ Promised
  /\ WholeWindows

\* The instants of an instance are finitely many, and begin with a second.
LEMMA InstantsFinite ==
  ASSUME RateLimiter!RateLimitAssumption
  PROVE  /\ \A t \in RateLimiter!Instants :
              t[1] \in 0..Horizon /\ t[2] \in RateLimiter!Moments
         /\ RateLimiter!Moments \subseteq Nat /\ 0 \in RateLimiter!Moments
         /\ \A S \in SUBSET RateLimiter!Instants : IsFiniteSet(S)
<1>1. IsFiniteSet(0..Horizon) /\ IsFiniteSet(RateLimiter!Moments)
  BY FS_Interval DEF RateLimiter!Moments, RateLimiter!RateLimitAssumption
<1>2. IsFiniteSet(RateLimiter!Instants)
  BY <1>1, FS_Product DEF RateLimiter!Instants, RateLimiter!Seconds
<1>3. \A S \in SUBSET RateLimiter!Instants : IsFiniteSet(S)
  BY <1>2, FS_Subset
<1>4. \A t \in RateLimiter!Instants : t[1] \in 0..Horizon /\ t[2] \in RateLimiter!Moments
  BY DEF RateLimiter!Instants, RateLimiter!Seconds
<1>5. RateLimiter!Moments \subseteq Nat /\ 0 \in RateLimiter!Moments
  BY DEF RateLimiter!Moments, RateLimiter!RateLimitAssumption
<1> QED
  BY <1>3, <1>4, <1>5

\* What is counted when a request comes in: itself, and what is left of the set.
LEMMA CountIs ==
  ASSUME RateLimiter!RateLimitAssumption, RateLimiter!TypeOK
  PROVE  /\ RateLimiter!Added \in [RateLimiter!Instants -> Nat]
         /\ \A t \in RateLimiter!Instants :
              RateLimiter!Added[t] = RateLimiter!Remaining[t] + (IF t = clock THEN 1 ELSE 0)
         /\ RateLimiter!Remaining \in [RateLimiter!Instants -> Nat]
         /\ \A t \in RateLimiter!Instants : RateLimiter!Remaining[t] <= entries[t]
         /\ RateLimiter!Count = SumFunctionOnSet(RateLimiter!Added, RateLimiter!Instants)
         /\ RateLimiter!Count \in Nat
         /\ RateLimiter!Count
              = SumFunctionOnSet(RateLimiter!Remaining, RateLimiter!Instants) + 1
         /\ SumFunctionOnSet(RateLimiter!Remaining, RateLimiter!Instants) \in Nat
<1> DEFINE instants == RateLimiter!Instants
           left == RateLimiter!Remaining
           added == RateLimiter!Added
<1>1. /\ clock \in instants
      /\ \A t \in instants : entries[t] \in Nat
      /\ IsFiniteSet(instants)
  BY InstantsFinite DEF RateLimiter!TypeOK, RateLimiter!RateLimitAssumption
<1>2. left \in [instants -> Nat] /\ \A t \in instants : left[t] <= entries[t]
  BY <1>1 DEF RateLimiter!Remaining
<1>3. \A t \in instants : added[t] = left[t] + (IF t = clock THEN 1 ELSE 0)
  BY <1>2 DEF RateLimiter!Added
<1>4. added \in [instants -> Nat]
  BY <1>1, <1>2 DEF RateLimiter!Added
<1>5. RateLimiter!Count = SumFunctionOnSet(added, instants)
  <2>1. DOMAIN added = instants
    BY <1>4
  <2> QED
    BY <2>1, LimiterSums DEF RateLimiter!Count, RateLimiter!SumFunction
<1> HIDE DEF instants, left, added
<1>6. /\ SumFunctionOnSet(added, instants) \in Nat
      /\ SumFunctionOnSet(left, instants) \in Nat
  BY <1>1, <1>2, <1>4, SumIsNatural
<1>7. SumFunctionOnSet(added, instants) = SumFunctionOnSet(left, instants) + 1
  <2> DEFINE rest == instants \ {clock}
  <2>1. IsFiniteSet(rest) /\ \A t \in rest : added[t] = left[t]
    BY <1>1, <1>2, <1>3, FS_Subset
  <2>2. SumFunctionOnSet(added, rest) = SumFunctionOnSet(left, rest)
    BY <2>1, SumOfEqual
  <2>3. SumFunctionOnSet(added, instants) = added[clock] + SumFunctionOnSet(added, rest)
    BY <1>1, <1>4, SumTakesOut
  <2>4. SumFunctionOnSet(left, instants) = left[clock] + SumFunctionOnSet(left, rest)
    BY <1>1, <1>2, SumTakesOut
  <2>5. SumFunctionOnSet(left, rest) \in Nat /\ left[clock] \in Nat
    BY <1>1, <1>2, <2>1, SumIsNatural
  <2>6. added[clock] = left[clock] + 1
    BY <1>1, <1>3
  <2> HIDE DEF rest
  <2> QED
    BY <2>2, <2>3, <2>4, <2>5, <2>6
<1> QED
  BY <1>2, <1>3, <1>4, <1>5, <1>6, <1>7 DEF instants, left, added

\* One request: it is let through only while all that was served in any window it
\* is in is among what is counted.
LEMMA LimitStep ==
  ASSUME RateLimiter!RateLimitAssumption, LimiterInv, RateLimiter!Limit
  PROVE  LimiterInv'
<1> DEFINE instants == RateLimiter!Instants
           left == RateLimiter!Remaining
           added == RateLimiter!Added
           count == RateLimiter!Count
<1>0. RateLimiter!TypeOK /\ Counted /\ Promised /\ WholeWindows
  BY DEF LimiterInv
<1>1. /\ MaxRequests \in Nat \ {0} /\ WindowSec \in Nat \ {0} /\ Horizon \in Nat
      /\ clock \in instants /\ \A t \in instants : t[1] \in Nat /\ t[1] <= Horizon
      /\ entries \in [instants -> 0..Burst] /\ served \in [instants -> 0..Burst]
      /\ Burst \in Nat /\ expires[1] \in Nat
  BY <1>0, InstantsFinite DEF RateLimiter!RateLimitAssumption, RateLimiter!TypeOK
<1>2. /\ entries[clock] < Burst
      /\ headers' = RateLimiter!Result(count)
      /\ entries' = added
      /\ expires' = <<clock[1] + WindowSec, clock[2]>>
      /\ served' = IF headers'.allowed THEN [served EXCEPT ![clock] = @ + 1] ELSE served
      /\ clock' = clock
  BY DEF RateLimiter!Limit, RateLimiter!now
<1>3. /\ headers' = [allowed |-> count <= MaxRequests,
                    remaining |-> IF count > MaxRequests THEN 0 ELSE MaxRequests - count,
                    resetAt |-> clock[1] + WindowSec]
      /\ headers'.allowed = (count <= MaxRequests)
      /\ headers'.remaining = IF count > MaxRequests THEN 0 ELSE MaxRequests - count
      /\ headers'.resetAt = clock[1] + WindowSec
  BY <1>2 DEF RateLimiter!Result, RateLimiter!now
<1>4. \A t \in instants : left[t] = IF t[1] <= clock[1] - WindowSec \/ RateLimiter!NotBefore(clock, expires) THEN 0 ELSE entries[t]
  BY DEF RateLimiter!Remaining, RateLimiter!Expired, RateLimiter!now
<1>5. /\ added \in [instants -> Nat]
      /\ \A t \in instants : added[t] = left[t] + (IF t = clock THEN 1 ELSE 0)
      /\ \A t \in instants : left[t] <= entries[t] /\ left[t] \in Nat
      /\ count = SumFunctionOnSet(added, instants)
      /\ count \in Nat /\ count >= 1
  BY <1>0, CountIs
<1>6. \A t \in instants : added[t] \in 0..Burst
  <2> HIDE DEF instants, left, added, count
  <2> SUFFICES ASSUME NEW t \in instants PROVE added[t] \in 0..Burst
    OBVIOUS
  <2>1. entries[t] \in 0..Burst /\ (t = clock => entries[t] + 1 <= Burst)
    BY <1>1, <1>2
  <2>2. left[t] \in Nat /\ left[t] <= entries[t]
    BY <1>5
  <2>3. CASE t = clock
    <3>1. added[t] = left[t] + 1
      BY <1>5, <2>3
    <3> QED
      BY <1>1, <2>1, <2>2, <2>3, <3>1
  <2>4. CASE t # clock
    <3>1. added[t] = left[t]
      BY <1>5, <2>2, <2>4
    <3> QED
      BY <1>1, <2>1, <2>2, <3>1
  <2> QED
    BY <2>3, <2>4
<1>7. \A t \in instants : /\ served'[t] \in Nat /\ served[t] \in Nat
                          /\ served'[t] <= served[t] + (IF t = clock THEN 1 ELSE 0)
                          /\ t # clock => served'[t] = served[t]
  BY <1>1, <1>2
<1> HIDE DEF instants, left, added, count
<1>8. served' \in [instants -> 0..Burst]
  <2>1. served[clock] <= entries[clock]
    BY <1>0, <1>1 DEF Counted, instants
  <2> QED
    BY <1>1, <1>2, <2>1
<1>9. RateLimiter!TypeOK'
  <2>1. headers' \in RateLimiter!RateLimitResult
    BY <1>1, <1>3, <1>5 DEF RateLimiter!RateLimitResult
  <2>2. entries' \in [instants -> 0..Burst]
    BY <1>2, <1>5, <1>6
  <2>3. expires' \in (0..(Horizon + WindowSec)) \X RateLimiter!Moments /\ clock' \in instants
    <3>1. clock[1] \in 0..Horizon /\ clock[2] \in RateLimiter!Moments
      BY <1>1, InstantsFinite DEF instants
    <3>2. clock[1] + WindowSec \in 0..(Horizon + WindowSec)
      BY <1>1, <3>1
    <3> QED
      BY <1>1, <1>2, <3>1, <3>2
  <2> QED
    BY <1>8, <2>1, <2>2, <2>3 DEF RateLimiter!TypeOK, instants
<1>10. \A t \in instants :
         /\ t[1] > clock[1] => entries[t] = 0 /\ served[t] = 0
         /\ entries[t] > 0 \/ served[t] > 0 => t[1] + WindowSec <= expires[1]
         /\ t[1] > clock[1] - WindowSec => served[t] <= entries[t]
  BY <1>0 DEF Counted, instants
<1>11. \A t \in instants : t[1] > clock[1] - WindowSec => served'[t] <= added[t]
  <2> SUFFICES ASSUME NEW t \in instants, t[1] > clock[1] - WindowSec
               PROVE  served'[t] <= added[t]
    OBVIOUS
  <2>1. /\ served[t] \in Nat /\ entries[t] \in Nat /\ left[t] \in Nat
        /\ t[1] \in Nat /\ clock[1] \in Nat
    BY <1>1, <1>5
  <2>2. served[t] <= left[t]
    <3>1. CASE RateLimiter!NotBefore(clock, expires)
      <4>1. expires[1] <= clock[1]
        BY <1>1, <2>1, <3>1 DEF RateLimiter!NotBefore
      <4>2. served[t] = 0
        BY <1>1, <1>10, <2>1, <4>1
      <4> QED
        BY <2>1, <4>2
    <3>2. CASE ~RateLimiter!NotBefore(clock, expires)
      <4>1. left[t] = entries[t]
        BY <1>1, <1>4, <2>1, <3>2
      <4> QED
        BY <1>10, <4>1
    <3> QED
      BY <3>1, <3>2
  <2>3. CASE t = clock
    <3>1. added[t] = left[t] + 1 /\ served'[t] <= served[t] + 1 /\ served'[t] \in Nat
      BY <1>5, <1>7, <2>3
    <3> QED
      BY <2>1, <2>2, <3>1
  <2>4. CASE t # clock
    <3>1. added[t] = left[t] + 0 /\ served'[t] = served[t]
      BY <1>5, <1>7, <2>4
    <3> QED
      BY <2>1, <2>2, <3>1
  <2> QED
    BY <2>3, <2>4
<1>12. Counted'
  <2>1. ASSUME NEW t \in instants
        PROVE  /\ t[1] > clock[1] => added[t] = 0 /\ served'[t] = 0
               /\ added[t] > 0 \/ served'[t] > 0 => t[1] + WindowSec <= clock[1] + WindowSec
    <3>1. ASSUME t[1] > clock[1]
          PROVE  added[t] = 0 /\ served'[t] = 0
      <4>1. entries[t] = 0 /\ served[t] = 0 /\ t # clock
        BY <1>1, <1>10, <3>1
      <4>2. left[t] \in Nat /\ left[t] <= 0
        BY <1>5, <4>1
      <4>3. added[t] = left[t] + 0 /\ served'[t] = served[t]
        BY <1>5, <1>7, <4>1
      <4> QED
        BY <4>1, <4>2, <4>3
    <3> QED
      BY <1>1, <3>1
  <2> QED
    BY <1>2, <1>11, <2>1 DEF Counted, instants
<1>13. Promised'
  <2>1. headers'.remaining > 0 => count + headers'.remaining <= MaxRequests
    BY <1>1, <1>3, <1>5
  <2> QED
    BY <1>2, <1>3, <1>5, <2>1 DEF Promised, instants
<1>14. WholeWindows'
  <2> SUFFICES ASSUME NEW last \in RateLimiter!Seconds
               PROVE  SumFunctionOnSet(served', RateLimiter!InWindow(last)) <= MaxRequests
    BY DEF WholeWindows, RateLimiter!InWindow
  <2>0. last \in Nat
    BY <1>1 DEF RateLimiter!Seconds
  <2> DEFINE window == RateLimiter!InWindow(last)
  <2>1. /\ window \in SUBSET instants /\ IsFiniteSet(window) /\ IsFiniteSet(instants)
        /\ \A t \in window : last - WindowSec < t[1] /\ t[1] <= last
    BY InstantsFinite DEF RateLimiter!InWindow, instants
  <2>2. SumFunctionOnSet(served, window) <= MaxRequests
    BY <1>0 DEF WholeWindows
  <2> HIDE DEF window
  <2>3. CASE ~headers'.allowed
    BY <1>2, <2>2, <2>3 DEF window
  <2>4. CASE last < clock[1]
    <3>1. \A t \in window : served'[t] = served[t]
      BY <1>1, <1>7, <2>0, <2>1, <2>4
    <3>2. SumFunctionOnSet(served', window) = SumFunctionOnSet(served, window)
      BY <2>1, <3>1, SumOfEqual
    <3> QED
      BY <2>2, <3>2 DEF window
  <2>5. CASE headers'.allowed /\ last >= clock[1]
    <3>1. \A t \in window : served'[t] \in Nat /\ added[t] \in Nat /\ served'[t] <= added[t]
      <4> SUFFICES ASSUME NEW t \in window
                   PROVE  served'[t] \in Nat /\ added[t] \in Nat /\ served'[t] <= added[t]
        OBVIOUS
      <4>1. t \in instants /\ t[1] > clock[1] - WindowSec
        BY <1>1, <2>0, <2>1, <2>5
      <4> QED
        BY <1>5, <1>7, <1>11, <4>1
    <3>2. SumFunctionOnSet(served', window) <= SumFunctionOnSet(added, window)
      BY <2>1, <3>1, SumIsMonotone
    <3>3. SumFunctionOnSet(added, window) <= SumFunctionOnSet(added, instants)
      BY <1>5, <2>1, SumOfPart
    <3>4. SumFunctionOnSet(added, window) \in Nat /\ SumFunctionOnSet(served', window) \in Nat
      BY <2>1, <3>1, SumIsNatural
    <3>5. count <= MaxRequests
      BY <1>3, <2>5
    <3> QED
      BY <1>1, <1>5, <3>2, <3>3, <3>4, <3>5 DEF window
  <2> QED
    BY <1>1, <2>0, <2>3, <2>4, <2>5
<1> QED
  BY <1>9, <1>12, <1>13, <1>14 DEF LimiterInv

\* Time passes.
LEMMA TickStep ==
  ASSUME RateLimiter!RateLimitAssumption, LimiterInv, RateLimiter!Tick
  PROVE  LimiterInv'
<1>1. /\ RateLimiter!TypeOK /\ Counted /\ Promised /\ WholeWindows
      /\ clock' \in RateLimiter!Instants /\ RateLimiter!NotBefore(clock', clock)
      /\ UNCHANGED <<entries, expires, served, headers>>
  BY DEF LimiterInv, RateLimiter!Tick
<1>2. /\ WindowSec \in Nat \ {0}
      /\ clock[1] \in Nat /\ clock'[1] \in Nat /\ clock[1] <= clock'[1]
      /\ \A t \in RateLimiter!Instants :
           t[1] \in Nat /\ entries[t] \in Nat /\ served[t] \in Nat
  BY <1>1, InstantsFinite
  DEF RateLimiter!RateLimitAssumption, RateLimiter!TypeOK, RateLimiter!NotBefore
<1>3. RateLimiter!TypeOK'
  BY <1>1, <1>2 DEF RateLimiter!TypeOK
<1>4. Counted'
  BY <1>1, <1>2 DEF Counted
<1>5. Promised' /\ WholeWindows'
  BY <1>1 DEF Promised, WholeWindows, RateLimiter!InWindow
<1> QED
  BY <1>3, <1>4, <1>5 DEF LimiterInv

\* A request after a promise of the last answer: X-RateLimit-Remaining was positive,
\* or as many seconds have passed as Retry-After said.
LEMMA PromisesKept ==
  ASSUME RateLimiter!RateLimitAssumption, LimiterInv, RateLimiter!Limit,
         \/ headers.remaining > 0
         \/ ~headers.allowed /\ clock[1] >= headers.resetAt
  PROVE  headers'.allowed
<1> DEFINE instants == RateLimiter!Instants
           left == RateLimiter!Remaining
           count == RateLimiter!Count
<1>0. RateLimiter!TypeOK /\ Counted /\ Promised
  BY DEF LimiterInv
<1>1. count <= MaxRequests => headers'.allowed
  BY DEF RateLimiter!Limit, RateLimiter!Result
<1>2. /\ MaxRequests \in Nat \ {0}
      /\ headers.remaining \in Nat
      /\ \A t \in instants : entries[t] \in Nat
      /\ IsFiniteSet(instants)
  BY <1>0, InstantsFinite
  DEF RateLimiter!RateLimitAssumption, RateLimiter!TypeOK, RateLimiter!RateLimitResult
<1>3. /\ count = SumFunctionOnSet(left, instants) + 1
      /\ SumFunctionOnSet(left, instants) \in Nat
      /\ \A t \in instants : left[t] \in Nat /\ left[t] <= entries[t]
  BY <1>0, CountIs
<1>4. CASE headers.remaining > 0
  <2> HIDE DEF left, count
  <2>1. SumFunctionOnSet(left, instants) <= SumFunctionOnSet(entries, instants)
    BY <1>2, <1>3, SumIsMonotone
  <2>2. SumFunctionOnSet(entries, instants) + headers.remaining <= MaxRequests
    BY <1>0, <1>4 DEF Promised
  <2>3. SumFunctionOnSet(entries, instants) \in Nat
    BY <1>2, SumIsNatural
  <2> HIDE DEF instants
  <2>4. count <= MaxRequests
    BY <1>2, <1>3, <1>4, <2>1, <2>2, <2>3
  <2> QED
    BY <1>1, <2>4
<1>5. CASE ~headers.allowed /\ clock[1] >= headers.resetAt
  <2>1. clock[1] >= expires[1]
    BY <1>0, <1>5 DEF Promised
  <2>2. ASSUME NEW t \in instants
        PROVE  left[t] = 0
    <3>1. /\ clock[1] \in Nat /\ t[1] \in Nat /\ expires[1] \in Nat
          /\ WindowSec \in Nat /\ entries[t] \in Nat
      BY <1>0, InstantsFinite DEF RateLimiter!TypeOK, RateLimiter!RateLimitAssumption
    <3>2. entries[t] > 0 => t[1] + WindowSec <= expires[1]
      BY <1>0 DEF Counted
    <3>3. entries[t] = 0 \/ RateLimiter!Expired(t)
      BY <2>1, <3>1, <3>2 DEF RateLimiter!Expired, RateLimiter!now
    <3> QED
      BY <3>3 DEF RateLimiter!Remaining
  <2> HIDE DEF left, count, instants
  <2>3. SumFunctionOnSet(left, instants) = 0
    BY <1>2, <2>2, SumOfZeros
  <2>4. count <= MaxRequests
    BY <1>2, <1>3, <2>3
  <2> QED
    BY <1>1, <2>4
<1> QED
  BY <1>4, <1>5

\* A window that slides lies in one of whole seconds, if it is a second shorter.
LEMMA SlidingLimit ==
  ASSUME RateLimiter!RateLimitAssumption, LimiterInv
  PROVE  RateLimiter!WindowLimit
<1>1. /\ WholeWindows /\ MaxRequests \in Nat /\ WindowSec \in Nat \ {0} /\ Horizon \in Nat
      /\ \A t \in RateLimiter!Instants : served[t] \in Nat
  BY DEF LimiterInv, RateLimiter!TypeOK, RateLimiter!RateLimitAssumption
<1>2. ASSUME NEW last \in RateLimiter!Instants
      PROVE  SumFunctionOnSet(served, RateLimiter!Sliding(last)) <= MaxRequests
  <2> DEFINE window == RateLimiter!InWindow(last[1])
             slid == RateLimiter!Sliding(last)
  <2>1. last[1] \in RateLimiter!Seconds /\ last[1] \in Nat
    BY <1>1, InstantsFinite DEF RateLimiter!Seconds
  <2>2. SumFunctionOnSet(served, window) <= MaxRequests
    BY <1>1, <2>1 DEF WholeWindows
  <2>3. slid \subseteq window
    <3> SUFFICES ASSUME NEW t \in slid PROVE t \in window
      OBVIOUS
    <3>1. t \in RateLimiter!Instants /\ t[1] \in Nat
      BY InstantsFinite DEF RateLimiter!Sliding
    <3>2. t[1] >= last[1] - WindowSec + 1 /\ t[1] <= last[1]
      BY <1>1, <2>1, <3>1 DEF RateLimiter!Sliding, RateLimiter!NotBefore
    <3> QED
      BY <1>1, <2>1, <3>1, <3>2 DEF RateLimiter!InWindow
  <2>4. window \subseteq RateLimiter!Instants /\ IsFiniteSet(window) /\ IsFiniteSet(slid)
    BY <2>3, InstantsFinite DEF RateLimiter!InWindow
  <2> HIDE DEF window, slid
  <2>5. \A t \in window : served[t] \in Nat
    BY <1>1, <2>4
  <2>6. SumFunctionOnSet(served, slid) <= SumFunctionOnSet(served, window)
    BY <2>3, <2>4, <2>5, SumOfPart
  <2>7. /\ SumFunctionOnSet(served, slid) \in Nat
        /\ SumFunctionOnSet(served, window) \in Nat
    BY <2>3, <2>4, <2>5, SumIsNatural
  <2> QED
    BY <1>1, <2>2, <2>6, <2>7 DEF slid
<1> QED
  BY <1>1, <1>2, LimiterSums DEF RateLimiter!WindowLimit, WholeWindows

\* No WindowSec seconds of the clock have more requests than the limit.
LEMMA LimiterInvariant ==
  RateLimiter!RateLimitAssumption => (RateLimiter!Spec => []LimiterInv)
<1> SUFFICES ASSUME RateLimiter!RateLimitAssumption
             PROVE  RateLimiter!Spec => []LimiterInv
  OBVIOUS
<1>1. RateLimiter!Init => LimiterInv
  <2> SUFFICES ASSUME RateLimiter!Init PROVE LimiterInv
    OBVIOUS
  <2>1. /\ MaxRequests \in Nat \ {0} /\ WindowSec \in Nat \ {0} /\ Horizon \in Nat /\ Burst \in Nat
        /\ Fractions \in Nat \ {0}
        /\ clock = <<0, 0>> /\ expires = <<0, 0>>
        /\ entries = [t \in RateLimiter!Instants |-> 0]
        /\ served = [t \in RateLimiter!Instants |-> 0]
        /\ headers = [allowed |-> TRUE, remaining |-> 0, resetAt |-> 0]
    BY DEF RateLimiter!Init, RateLimiter!RateLimitAssumption
  <2>2. RateLimiter!TypeOK
    BY <2>1 DEF RateLimiter!TypeOK, RateLimiter!Instants, RateLimiter!Seconds,
                RateLimiter!Moments, RateLimiter!RateLimitResult
  <2>3. Counted /\ Promised
    BY <2>1 DEF Counted, Promised
  <2>4. WholeWindows
    <3> SUFFICES ASSUME NEW last \in RateLimiter!Seconds
                 PROVE  SumFunctionOnSet(served, RateLimiter!InWindow(last)) <= MaxRequests
      BY DEF WholeWindows
    <3> DEFINE window == RateLimiter!InWindow(last)
    <3>1. IsFiniteSet(window) /\ \A t \in window : served[t] = 0
      BY <2>1, InstantsFinite DEF RateLimiter!InWindow
    <3> HIDE DEF window
    <3>2. SumFunctionOnSet(served, window) = 0
      BY <3>1, SumOfZeros
    <3> QED
      BY <2>1, <3>2 DEF window
  <2> QED
    BY <2>2, <2>3, <2>4 DEF LimiterInv
<1>2. LimiterInv /\ [RateLimiter!Next]_(RateLimiter!vars) => LimiterInv'
  <2>1. LimiterInv /\ UNCHANGED RateLimiter!vars => LimiterInv'
    BY DEF RateLimiter!vars, LimiterInv, RateLimiter!TypeOK, Counted, Promised,
           WholeWindows, RateLimiter!InWindow
  <2> QED
    BY <2>1, LimitStep, TickStep DEF RateLimiter!Next
<1> QED
  BY <1>1, <1>2, PTL DEF RateLimiter!Spec

-----------------------------------------------------------------------------
(* Lists                                                                   *)

\* What holds at 0 and is handed on from each number below n to the next holds at n.
LEMMA UpTo ==
  ASSUME NEW n \in Nat, NEW Z, 0 \in Z, \A i \in 0..(n - 1) : i \in Z => i + 1 \in Z
  PROVE  n \in Z
<1> SUFFICES ASSUME n \notin Z PROVE FALSE
  OBVIOUS
<1> DEFINE T == {0..i : i \in {k \in 0..n : k \notin Z}}
<1> DEFINE S == 0..n
<1>1. IsFiniteSet(S)
  BY FS_Interval
<1>2. T \in SUBSET (SUBSET S) /\ T # {}
  OBVIOUS
<1> HIDE DEF T, S
<1>3. PICK s \in T : \A t \in T : t \subseteq s => t = s
  BY <1>1, <1>2, MinimalSubset
<1> USE DEF T, S
<1>4. PICK i \in 0..n : i \notin Z /\ s = 0..i
  BY <1>3
<1>5. i # 0 /\ i - 1 \in 0..(n - 1)
  BY <1>4
<1>6. i - 1 \notin Z
  <2> SUFFICES ASSUME i - 1 \in Z PROVE FALSE
    OBVIOUS
  <2> QED
    BY <1>4, <1>5
<1>7. 0..(i - 1) \in T
  <2>1. i - 1 \in {k \in 0..n : k \notin Z}
    BY <1>5, <1>6
  <2> QED
    BY <2>1
<1>8. 0..(i - 1) = s
  <2>1. 0..(i - 1) \subseteq s
    BY <1>4, <1>5
  <2> HIDE DEF T
  <2> QED
    BY <1>3, <1>7, <2>1
<1>9. i \in s /\ i \notin 0..(i - 1)
  BY <1>4
<1> QED
  BY <1>8, <1>9

\* Steps from a start on, each from the result of the one before, have results.
LEMMA StepsExist ==
  ASSUME NEW T, NEW start \in T, NEW n \in Nat, NEW step \in [1..n -> [T -> T]]
  PROVE  \E g \in [0..n -> T] : g[0] = start /\ \A i \in 1..n : g[i] = step[i][g[i - 1]]
<1> DEFINE Z == {m \in 0..n : \E g \in [0..m -> T] :
                   g[0] = start /\ \A i \in 1..m : g[i] = step[i][g[i - 1]]}
<1>1. 0 \in Z
  <2> DEFINE g == [i \in 0..0 |-> start]
  <2>1. g \in [0..0 -> T] /\ g[0] = start /\ \A i \in 1..0 : g[i] = step[i][g[i - 1]]
    OBVIOUS
  <2> HIDE DEF g
  <2>2. \E f \in [0..0 -> T] : f[0] = start /\ \A i \in 1..0 : f[i] = step[i][f[i - 1]]
    BY <2>1
  <2> QED
    BY <2>2
<1>2. ASSUME NEW m \in 0..(n - 1), m \in Z PROVE m + 1 \in Z
  <2>1. PICK g \in [0..m -> T] : g[0] = start /\ \A i \in 1..m : g[i] = step[i][g[i - 1]]
    BY <1>2
  <2> DEFINE h == [j \in 0..(m + 1) |-> IF j = m + 1 THEN step[m + 1][g[m]] ELSE g[j]]
  <2>2. h \in [0..(m + 1) -> T]
    OBVIOUS
  <2>3. h[0] = start
    BY <2>1
  <2>4. ASSUME NEW i \in 1..(m + 1) PROVE h[i] = step[i][h[i - 1]]
    BY <2>1
  <2> HIDE DEF h
  <2>5. m + 1 \in 0..n
    OBVIOUS
  <2>6. \E f \in [0..(m + 1) -> T] :
          f[0] = start /\ \A i \in 1..(m + 1) : f[i] = step[i][f[i - 1]]
    BY <2>2, <2>3, <2>4
  <2> QED
    BY <2>5, <2>6
<1>3. n \in Z
  <2> HIDE DEF Z
  <2> QED
    BY <1>1, <1>2, UpTo
<1> QED
  BY <1>3

-----------------------------------------------------------------------------
(* Lists                                                                   *)

\* The function that the selection of rows is defined by.
IsTaken(g, rows, S) ==
  g = [i \in 0..Len(rows) |->
         IF i = 0 THEN <<>>
         ELSE IF rows[i] \in S THEN Append(g[i - 1], rows[i]) ELSE g[i - 1]]

\* The selection is the value of its function at the whole sequence.
LEMMA ThoseUnfolds ==
  ASSUME NEW rows, NEW S
  PROVE  Pagination!Those(rows, S) = (CHOOSE g : IsTaken(g, rows, S))[Len(rows)]
BY DEF Pagination!Those, IsTaken

\* The recursive function of the selection exists.
LEMMA TakenExists ==
  ASSUME NEW R, NEW rows \in Seq(R), NEW S
  PROVE  \E g : IsTaken(g, rows, S)
<1> DEFINE step == [i \in 1..Len(rows) |->
                      [s \in Seq(R) |-> IF rows[i] \in S THEN Append(s, rows[i]) ELSE s]]
<1>0. Len(rows) \in Nat
  OBVIOUS
<1>1. step \in [1..Len(rows) -> [Seq(R) -> Seq(R)]]
  OBVIOUS
<1>2. <<>> \in Seq(R)
  OBVIOUS
<1> DEFINE n == Len(rows)
           T == Seq(R)
           start == <<>>
<1> HIDE DEF step, n, T, start
<1>3. PICK g \in [0..n -> T] :
        g[0] = start /\ \A i \in 1..n : g[i] = step[i][g[i - 1]]
  <2>1. n \in Nat /\ step \in [1..n -> [T -> T]] /\ start \in T
    BY <1>0, <1>1, <1>2 DEF n, T, start
  <2> QED
    BY <2>1, StepsExist
<1> USE DEF n, T, start
<1>4. ASSUME NEW i \in 0..Len(rows)
      PROVE  g[i] = IF i = 0 THEN <<>>
                    ELSE IF rows[i] \in S THEN Append(g[i - 1], rows[i]) ELSE g[i - 1]
  <2>1. i # 0 => g[i] = step[i][g[i - 1]]
    BY <1>3
  <2>2. i # 0 => i \in 1..Len(rows) /\ g[i - 1] \in Seq(R)
    BY <1>3
  <2>3. CASE i = 0
    BY <1>3, <2>3
  <2>4. CASE i # 0
    <3>1. i \in 1..Len(rows) /\ g[i - 1] \in Seq(R)
      BY <2>2, <2>4
    <3>2. step[i] = [s \in Seq(R) |-> IF rows[i] \in S THEN Append(s, rows[i]) ELSE s]
      BY <3>1 DEF step
    <3>3. step[i][g[i - 1]] = IF rows[i] \in S THEN Append(g[i - 1], rows[i]) ELSE g[i - 1]
      BY <3>1, <3>2
    <3> QED
      BY <2>1, <2>4, <3>3
  <2> QED
    BY <2>3, <2>4
<1>5. g = [i \in 0..Len(rows) |->
            IF i = 0 THEN <<>>
            ELSE IF rows[i] \in S THEN Append(g[i - 1], rows[i]) ELSE g[i - 1]]
  <2>1. DOMAIN g = 0..Len(rows)
    BY <1>3
  <2>2. g = [i \in 0..Len(rows) |-> g[i]]
    BY <2>1, <1>3
  <2> QED
    BY <1>4, <2>2
<1> QED
  BY <1>5 DEF IsTaken

\* The positions, in order, at which a sequence has the rows of another.
Positions(at, t, rows, n, S) ==
  /\ at \in [1..Len(t) -> 1..n]
  /\ \A j \in 1..Len(t) : t[j] = rows[at[j]] /\ t[j] \in S
  /\ \A j, k \in 1..Len(t) : j < k => at[j] < at[k]
  /\ \A i \in 1..n : rows[i] \in S => \E j \in 1..Len(t) : at[j] = i

\* The rows of a set are taken out of a sequence all, once, and in its order.
LEMMA ThoseInOrder ==
  ASSUME NEW R, NEW rows \in Seq(R), NEW S
  PROVE  /\ Pagination!Those(rows, S) \in Seq(R)
         /\ \E at : Positions(at, Pagination!Those(rows, S), rows, Len(rows), S)
<1> DEFINE g == CHOOSE g : IsTaken(g, rows, S)
           Z == {m \in 0..Len(rows) :
                   g[m] \in Seq(R) /\ \E at : Positions(at, g[m], rows, m, S)}
<1>1. IsTaken(g, rows, S)
  BY TakenExists
<1> HIDE DEF g
<1>2. /\ g[0] = <<>>
      /\ \A i \in 1..Len(rows) :
           g[i] = IF rows[i] \in S THEN Append(g[i - 1], rows[i]) ELSE g[i - 1]
  <2>1. Len(rows) \in Nat
    OBVIOUS
  <2>2. \A i \in 0..Len(rows) :
          g[i] = IF i = 0 THEN <<>>
                 ELSE IF rows[i] \in S THEN Append(g[i - 1], rows[i]) ELSE g[i - 1]
    BY <1>1 DEF IsTaken
  <2> QED
    BY <2>1, <2>2
<1>3. 0 \in Z
  <2> DEFINE at == [j \in 1..0 |-> 0]
  <2>1. Positions(at, <<>>, rows, 0, S)
    BY DEF Positions
  <2>2. 0 \in 0..Len(rows) /\ <<>> \in Seq(R)
    OBVIOUS
  <2> HIDE DEF at
  <2> QED
    BY <1>2, <2>1, <2>2
<1>4. ASSUME NEW m \in 0..(Len(rows) - 1), m \in Z PROVE m + 1 \in Z
  <2>0. g[m] \in Seq(R) /\ m + 1 \in 1..Len(rows) /\ rows[m + 1] \in R
    BY <1>4
  <2>1. PICK at : Positions(at, g[m], rows, m, S)
    BY <1>4
  <2>2. g[m + 1] = IF rows[m + 1] \in S THEN Append(g[m], rows[m + 1]) ELSE g[m]
    BY <1>2, <2>0
  <2>3. CASE rows[m + 1] \notin S
    <3>1. Positions(at, g[m], rows, m + 1, S)
      BY <2>1, <2>3 DEF Positions
    <3> QED
      BY <2>0, <2>2, <2>3, <3>1
  <2>4. CASE rows[m + 1] \in S
    <3> DEFINE n == Len(g[m])
               t == Append(g[m], rows[m + 1])
               to == [j \in 1..(n + 1) |-> IF j = n + 1 THEN m + 1 ELSE at[j]]
    <3>1. /\ n \in Nat /\ t \in Seq(R) /\ Len(t) = n + 1
          /\ \A j \in 1..n : t[j] = g[m][j]
          /\ t[n + 1] = rows[m + 1]
      BY <2>0
    <3> HIDE DEF t, n
    <3>2. at \in [1..n -> 1..m]
      BY <2>1 DEF Positions, n
    <3>3. to \in [1..(n + 1) -> 1..(m + 1)]
      BY <3>1, <3>2
    <3>4. \A j \in 1..n : to[j] = at[j] /\ to[j] < m + 1
      BY <3>1, <3>2
    <3>5. to[n + 1] = m + 1
      BY <3>1
    <3> HIDE DEF to
    <3>6. \A j \in 1..Len(t) : t[j] = rows[to[j]] /\ t[j] \in S
      <4> SUFFICES ASSUME NEW j \in 1..(n + 1) PROVE t[j] = rows[to[j]] /\ t[j] \in S
        BY <3>1
      <4>1. CASE j = n + 1
        BY <4>1, <3>1, <3>5, <2>4
      <4>2. CASE j # n + 1
        <5>1. j \in 1..n
          BY <4>2, <3>1
        <5> QED
          BY <5>1, <3>1, <3>4, <2>1 DEF Positions, n
      <4> QED
        BY <4>1, <4>2
    <3>7. \A j, k \in 1..Len(t) : j < k => to[j] < to[k]
      <4> SUFFICES ASSUME NEW j \in 1..(n + 1), NEW k \in 1..(n + 1), j < k PROVE to[j] < to[k]
        BY <3>1
      <4>1. j \in 1..n
        BY <3>1
      <4>2. CASE k = n + 1
        BY <4>1, <4>2, <3>4, <3>5
      <4>3. CASE k # n + 1
        <5>1. k \in 1..n
          BY <4>3, <3>1
        <5> QED
          BY <4>1, <5>1, <3>4, <2>1 DEF Positions, n
      <4> QED
        BY <4>2, <4>3
    <3>8. \A i \in 1..(m + 1) : rows[i] \in S => \E j \in 1..Len(t) : to[j] = i
      <4> SUFFICES ASSUME NEW i \in 1..(m + 1), rows[i] \in S
                   PROVE  \E j \in 1..(n + 1) : to[j] = i
        BY <3>1
      <4>1. CASE i = m + 1
        BY <4>1, <3>1, <3>5
      <4>2. CASE i # m + 1
        <5>1. i \in 1..m
          BY <4>2
        <5>2. PICK j \in 1..n : at[j] = i
          BY <5>1, <2>1 DEF Positions, n
        <5> QED
          BY <5>2, <3>1, <3>4
      <4> QED
        BY <4>1, <4>2
    <3>9. Positions(to, t, rows, m + 1, S)
      BY <3>1, <3>3, <3>6, <3>7, <3>8 DEF Positions
    <3>10. m + 1 \in 0..Len(rows) /\ g[m + 1] = t
      BY <2>0, <2>2, <2>4 DEF t
    <3> QED
      BY <3>1, <3>9, <3>10
  <2> QED
    BY <2>3, <2>4
<1>5. Len(rows) \in Z
  <2>1. Len(rows) \in Nat
    OBVIOUS
  <2> HIDE DEF Z
  <2> QED
    BY <1>3, <1>4, <2>1, UpTo
<1> QED
  BY <1>5, ThoseUnfolds DEF g

\* The smaller of two numbers.
LEMMA MinOfTwo ==
  ASSUME NEW a \in Int, NEW b \in Int
  PROVE  Pagination!Min({a, b}) = IF a <= b THEN a ELSE b
<1>1. \E x \in {a, b} : \A y \in {a, b} : x <= y
  OBVIOUS
<1> QED
  BY <1>1 DEF Pagination!Min

\* The component counts as the library does.
LEMMA CountsAlike ==
  \A S : /\ Pagination!Cardinality(S) = Cardinality(S)
         /\ Pagination!IsFiniteSet(S) <=> IsFiniteSet(S)
BY DEF Pagination!Cardinality, Cardinality, Pagination!IsFiniteSet, IsFiniteSet

\* A part of a sequence, item by item.
LEMMA PartOf ==
  ASSUME NEW R, NEW s \in Seq(R), NEW m \in 1..(Len(s) + 1), NEW n \in (m - 1)..Len(s)
  PROVE  /\ SubSeq(s, m, n) \in Seq(R)
         /\ Len(SubSeq(s, m, n)) = n - m + 1
         /\ \A i \in 1..(n - m + 1) : SubSeq(s, m, n)[i] = s[m + i - 1]
OBVIOUS

\* Two sequences one after the other.
LEMMA JoinOf ==
  ASSUME NEW R, NEW a \in Seq(R), NEW b \in Seq(R)
  PROVE  /\ a \o b \in Seq(R)
         /\ Len(a \o b) = Len(a) + Len(b)
         /\ \A i \in 1..Len(a) : (a \o b)[i] = a[i]
         /\ \A i \in 1..Len(b) : (a \o b)[Len(a) + i] = b[i]
OBVIOUS

\* A sequence with one more item at a place.
LEMMA InsertedAt ==
  ASSUME NEW R, NEW s \in Seq(R), NEW e \in R, NEW p \in 1..(Len(s) + 1)
  PROVE  /\ Pagination!InsertAt(s, p, e) \in Seq(R)
         /\ Len(Pagination!InsertAt(s, p, e)) = Len(s) + 1
         /\ \A i \in 1..(Len(s) + 1) :
              Pagination!InsertAt(s, p, e)[i] = IF i < p THEN s[i] ELSE IF i = p THEN e ELSE s[i - 1]
<1> DEFINE a == SubSeq(s, 1, p - 1)
           b == SubSeq(s, p, Len(s))
<1>0. Len(s) \in Nat /\ p \in Int
  OBVIOUS
<1>1. a \in Seq(R) /\ Len(a) = p - 1 /\ \A i \in 1..(p - 1) : a[i] = s[i]
  BY PartOf
<1>2. /\ b \in Seq(R) /\ Len(b) = Len(s) - p + 1
      /\ \A i \in 1..(Len(s) - p + 1) : b[i] = s[p + i - 1]
  BY PartOf
<1>3. Pagination!InsertAt(s, p, e) = a \o <<e>> \o b
  BY DEF Pagination!InsertAt
<1> HIDE DEF a, b
<1>4. a \o <<e>> \in Seq(R) /\ Len(a \o <<e>>) = p
  BY <1>1
<1>5. \A i \in 1..p : (a \o <<e>>)[i] = IF i = p THEN e ELSE a[i]
  BY <1>1
<1> DEFINE c == a \o <<e>>
<1> HIDE DEF c
<1>6. c \in Seq(R) /\ Len(c) = p /\ \A i \in 1..p : c[i] = IF i = p THEN e ELSE a[i]
  BY <1>4, <1>5 DEF c
<1>7. Pagination!InsertAt(s, p, e) = c \o b
  BY <1>3 DEF c
<1>8. /\ c \o b \in Seq(R) /\ Len(c \o b) = Len(s) + 1
      /\ \A i \in 1..p : (c \o b)[i] = c[i]
      /\ \A i \in 1..(Len(s) - p + 1) : (c \o b)[p + i] = b[i]
  BY <1>0, <1>2, <1>6, JoinOf
<1>9. ASSUME NEW i \in 1..(Len(s) + 1)
      PROVE  (c \o b)[i] = IF i < p THEN s[i] ELSE IF i = p THEN e ELSE s[i - 1]
  <2>1. CASE i <= p
    <3>1. (c \o b)[i] = c[i]
      BY <1>8, <2>1
    <3> QED
      BY <3>1, <2>1, <1>1, <1>6
  <2>2. CASE i > p
    <3>1. i - p \in 1..(Len(s) - p + 1) /\ i = p + (i - p)
      BY <2>2
    <3>2. (c \o b)[i] = b[i - p]
      BY <1>8, <3>1
    <3>3. b[i - p] = s[p + (i - p) - 1]
      BY <1>2, <3>1
    <3>4. p + (i - p) - 1 = i - 1
      OBVIOUS
    <3> QED
      BY <3>2, <3>3, <3>4, <2>2
  <2>3. i <= p \/ i > p
    BY <1>0
  <2> QED
    BY <2>1, <2>2, <2>3
<1> QED
  BY <1>7, <1>8, <1>9

\* A sequence without the item of a place.
LEMMA RemovedAt ==
  ASSUME NEW R, NEW s \in Seq(R), NEW p \in 1..Len(s)
  PROVE  /\ Pagination!RemoveAt(s, p) \in Seq(R)
         /\ Len(Pagination!RemoveAt(s, p)) = Len(s) - 1
         /\ \A i \in 1..(Len(s) - 1) :
              Pagination!RemoveAt(s, p)[i] = IF i < p THEN s[i] ELSE s[i + 1]
<1> DEFINE a == SubSeq(s, 1, p - 1)
           b == SubSeq(s, p + 1, Len(s))
<1>0. Len(s) \in Nat /\ p \in Int
  OBVIOUS
<1>1. a \in Seq(R) /\ Len(a) = p - 1 /\ \A i \in 1..(p - 1) : a[i] = s[i]
  BY PartOf
<1>2. /\ b \in Seq(R) /\ Len(b) = Len(s) - p
      /\ \A i \in 1..(Len(s) - p) : b[i] = s[p + i]
  BY PartOf
<1>3. Pagination!RemoveAt(s, p) = a \o b
  BY DEF Pagination!RemoveAt
<1> HIDE DEF a, b
<1>4. /\ a \o b \in Seq(R) /\ Len(a \o b) = Len(s) - 1
      /\ \A i \in 1..(p - 1) : (a \o b)[i] = a[i]
      /\ \A i \in 1..(Len(s) - p) : (a \o b)[p - 1 + i] = b[i]
  <2>1. /\ a \o b \in Seq(R) /\ Len(a \o b) = Len(a) + Len(b)
        /\ \A i \in 1..Len(a) : (a \o b)[i] = a[i]
        /\ \A i \in 1..Len(b) : (a \o b)[Len(a) + i] = b[i]
    <3>1. a \in Seq(R) /\ b \in Seq(R)
      BY <1>1, <1>2
    <3> QED
      BY <3>1, JoinOf
  <2>2. Len(a) = p - 1 /\ Len(b) = Len(s) - p /\ p - 1 + (Len(s) - p) = Len(s) - 1
    BY <1>0, <1>1, <1>2
  <2> QED
    BY <2>1, <2>2
<1>5. ASSUME NEW i \in 1..(Len(s) - 1)
      PROVE  (a \o b)[i] = IF i < p THEN s[i] ELSE s[i + 1]
  <2>1. CASE i < p
    <3>1. (a \o b)[i] = a[i]
      BY <1>4, <2>1
    <3> QED
      BY <3>1, <2>1, <1>1
  <2>2. CASE i >= p
    <3>1. i - p + 1 \in 1..(Len(s) - p) /\ i = p - 1 + (i - p + 1)
      BY <2>2
    <3>2. (a \o b)[i] = b[i - p + 1]
      BY <1>4, <3>1
    <3>3. b[i - p + 1] = s[p + (i - p + 1)]
      BY <1>2, <3>1
    <3>4. p + (i - p + 1) = i + 1
      OBVIOUS
    <3> QED
      BY <3>2, <3>3, <3>4, <2>2
  <2>3. i < p \/ i >= p
    BY <1>0
  <2> QED
    BY <2>1, <2>2, <2>3
<1> QED
  BY <1>3, <1>4, <1>5

\* The rows by distance are a sequence of them.
LEMMA ByDistanceIsSequence ==
  ASSUME NEW R, NEW rows \in Seq(R)
  PROVE  Pagination!ByDistance(rows) \in Seq(R)
<1> DEFINE Put(s, entry) ==
             Pagination!InsertAt(s, Pagination!Cardinality(Pagination!NoFarther(s, entry)) + 1, entry)
           Sorts(g) == g = [i \in 0..Len(rows) |-> IF i = 0 THEN <<>> ELSE Put(g[i - 1], rows[i])]
           n == Len(rows)
           T == Seq(R)
           start == <<>>
           step == [i \in 1..n |-> [s \in T |-> Put(s, rows[i])]]
           h == CHOOSE g : Sorts(g)
<1>1. n \in Nat /\ start \in T
  OBVIOUS
<1>2. ASSUME NEW s \in T, NEW i \in 1..n PROVE Put(s, rows[i]) \in T
  <2>1. Pagination!NoFarther(s, rows[i]) \subseteq 1..Len(s)
    BY DEF Pagination!NoFarther
  <2>0. Len(s) \in Nat
    OBVIOUS
  <2>2. IsFiniteSet(1..Len(s)) /\ Cardinality(1..Len(s)) = Len(s)
    <3> DEFINE l == Len(s)
    <3>1. l \in Nat
      BY <2>0
    <3> HIDE DEF l
    <3>2. IsFiniteSet(1..l) /\ Cardinality(1..l) = l
      BY <3>1, FS_Interval
    <3> QED
      BY <3>2 DEF l
  <2>3. Cardinality(Pagination!NoFarther(s, rows[i])) \in 0..Len(s)
    BY <2>0, <2>1, <2>2, FS_Subset, FS_CardinalityType
  <2>4. rows[i] \in R /\ Cardinality(Pagination!NoFarther(s, rows[i])) + 1 \in 1..(Len(s) + 1)
    BY <2>3
  <2> QED
    BY <2>4, InsertedAt, CountsAlike
<1> HIDE DEF Put, n, T, start
<1>3. step \in [1..n -> [T -> T]]
  BY <1>2
<1>4. \A i \in 1..n, s \in T : step[i][s] = Put(s, rows[i])
  OBVIOUS
<1> HIDE DEF step
<1>5. PICK g \in [0..n -> T] : g[0] = start /\ \A i \in 1..n : g[i] = step[i][g[i - 1]]
  BY <1>1, <1>3, StepsExist
<1>6. Sorts(g)
  <2>1. ASSUME NEW i \in 0..n PROVE g[i] = IF i = 0 THEN start ELSE Put(g[i - 1], rows[i])
    <3>1. CASE i = 0
      BY <3>1, <1>5
    <3>2. CASE i # 0
      <4>1. i \in 1..n /\ g[i - 1] \in T
        BY <3>2, <1>1, <1>5
      <4> QED
        BY <4>1, <3>2, <1>4, <1>5
    <3> QED
      BY <3>1, <3>2
  <2>2. g = [i \in 0..n |-> g[i]]
    BY <1>5
  <2> QED
    BY <2>1, <2>2 DEF n, start
<1>7. Sorts(h)
  BY <1>6
<1> HIDE DEF h
<1>8. h[0] = start /\ \A i \in 1..n : h[i] = Put(h[i - 1], rows[i])
  <2>1. \A i \in 0..n : h[i] = IF i = 0 THEN start ELSE Put(h[i - 1], rows[i])
    BY <1>7 DEF n, start
  <2> QED
    BY <2>1, <1>1
<1> DEFINE Z == {i \in 0..n : h[i] \in T}
<1>9. 0 \in Z
  BY <1>8, <1>1
<1>10. ASSUME NEW i \in 0..(n - 1), i \in Z PROVE i + 1 \in Z
  <2>1. i + 1 \in 1..n /\ h[i] \in T
    BY <1>1, <1>10
  <2>2. h[i + 1] = Put(h[i], rows[i + 1])
    BY <2>1, <1>8
  <2>3. h[i + 1] \in T
    BY <2>1, <2>2, <1>2
  <2> QED
    BY <2>1, <2>3
<1>11. n \in Z
  <2> HIDE DEF Z
  <2> QED
    BY <1>1, <1>9, <1>10, UpTo
<1>12. Pagination!ByDistance(rows) = h[n]
  BY CountsAlike DEF Pagination!ByDistance, h, Put, n
<1> QED
  BY <1>11, <1>12 DEF T

\* A part that ends before it begins.
LEMMA EmptyPart ==
  ASSUME NEW R, NEW s \in Seq(R), NEW m \in Nat, NEW n \in Nat, n < m
  PROVE  SubSeq(s, m, n) = <<>>
OBVIOUS

\* What the table of a list is.
LEMMA OrderFact ==
  ASSUME Pagination!TypeOK
  PROVE  /\ order \in Seq(Rows) /\ Len(order) \in Nat /\ DOMAIN order = 1..Len(order)
         /\ \A i, j \in 1..Len(order) : order[i] = order[j] => i = j
         /\ Pagination!Range(order) = {order[i] : i \in 1..Len(order)}
         /\ matching \subseteq Pagination!Range(order)
         /\ Pagination!Range(order) \subseteq Rows
         /\ order \in Seq(Pagination!Range(order))
<1>1. order \in Seq(Rows) /\ Len(order) \in Nat /\ DOMAIN order = 1..Len(order)
  BY DEF Pagination!TypeOK
<1>2. Pagination!Range(order) = {order[i] : i \in 1..Len(order)}
  BY <1>1 DEF Pagination!Range
<1>3. Pagination!Range(order) \subseteq Rows
  BY <1>1, <1>2
<1>4. order \in Seq(Pagination!Range(order))
  BY <1>1, <1>2
<1>5. \A i, j \in 1..Len(order) : order[i] = order[j] => i = j
  BY <1>1 DEF Pagination!TypeOK, Pagination!IsInjective
<1> QED
  BY <1>1, <1>2, <1>3, <1>4, <1>5 DEF Pagination!TypeOK

\* The answer to a request, from the rows that were found.
LEMMA AnswerFact ==
  ASSUME Pagination!PaginationAssumption, NEW R, NEW rows \in Seq(R)
  PROVE  LET size == Len(Pagination!Data(rows))
         IN  /\ size = (IF Len(rows) <= PageSize THEN Len(rows) ELSE PageSize)
             /\ \A k \in 1..size : Pagination!Data(rows)[k] = rows[k]
             /\ Pagination!Range(Pagination!Data(rows)) = {rows[k] : k \in 1..size}
             /\ Pagination!Range(Pagination!Data(rows)) \subseteq R
             /\ Pagination!HasMore(rows) \in BOOLEAN
             /\ Pagination!HasMore(rows) <=> Len(rows) > PageSize
             /\ Pagination!HasMore(rows) =>
                  /\ Pagination!NextCursor(rows) = rows[PageSize]
                  /\ Pagination!NextCursor(rows) \in Pagination!Range(Pagination!Data(rows))
             /\ ~Pagination!HasMore(rows) => Pagination!NextCursor(rows) = None
<1> DEFINE data == Pagination!Data(rows)
           size == IF Len(rows) <= PageSize THEN Len(rows) ELSE PageSize
<1>0. PageSize \in Nat \ {0} /\ Len(rows) \in Nat
  BY DEF Pagination!PaginationAssumption
<1>1. Pagination!Min({PageSize, Len(rows)}) = size
  BY <1>0, MinOfTwo
<1>2. size \in 0..Len(rows) /\ size <= PageSize
  BY <1>0
<1>3. data = SubSeq(rows, 1, size)
  BY <1>1 DEF Pagination!Data
<1> HIDE DEF size
<1>4. /\ data \in Seq(R) /\ Len(data) = size
      /\ \A k \in 1..size : data[k] = rows[k]
  BY <1>0, <1>2, <1>3, PartOf
<1>5. Pagination!Range(data) = {rows[k] : k \in 1..size}
  BY <1>4 DEF Pagination!Range
<1>6. {rows[k] : k \in 1..size} \subseteq R
  BY <1>2, <1>0
<1>7. Pagination!HasMore(rows) <=> Len(rows) > PageSize
  BY DEF Pagination!HasMore
<1>8. ASSUME Pagination!HasMore(rows)
      PROVE  /\ Pagination!NextCursor(rows) = rows[PageSize]
             /\ Pagination!NextCursor(rows) \in Pagination!Range(data)
  <2>1. size = PageSize
    BY <1>0, <1>7, <1>8 DEF size
  <2>2. PageSize \in 1..size
    BY <1>0, <2>1
  <2>3. Pagination!NextCursor(rows) = data[size]
    BY <1>4, <1>8 DEF Pagination!NextCursor, Pagination!Last
  <2> QED
    BY <1>4, <1>5, <2>1, <2>2, <2>3
<1>9. ~Pagination!HasMore(rows) => Pagination!NextCursor(rows) = None
  BY DEF Pagination!NextCursor
<1>10. Pagination!HasMore(rows) \in BOOLEAN
  BY DEF Pagination!HasMore
<1> HIDE DEF data
<1>11. size = (IF Len(rows) <= PageSize THEN Len(rows) ELSE PageSize)
  BY DEF size
<1> QED
  BY <1>4, <1>5, <1>6, <1>7, <1>8, <1>9, <1>10, <1>11 DEF data

\* The rows m match from the cursor row on, which is the first-th; m[j] is the at[j]-th.
MatchingAt(m, first, at) ==
  /\ m \in Seq(Pagination!Range(order)) /\ first \in 1..(Len(order) + 1)
  /\ Pagination!MatchingFromCursor = m
  /\ cursor = None => first = 1
  /\ cursor # None => first \in 1..Len(order) /\ order[first] = cursor
  /\ at \in [1..Len(m) -> 1..Len(order)]
  /\ \A j \in 1..Len(m) : m[j] = order[at[j]] /\ m[j] \in matching /\ first <= at[j]
  /\ \A j, k \in 1..Len(m) : j < k => at[j] < at[k]
  /\ \A i \in 1..Len(order) :
       first <= i /\ order[i] \in matching => \E j \in 1..Len(m) : at[j] = i

\* The rows that match from the cursor row on, and where they are in the order.
LEMMA MatchingFact ==
  ASSUME Pagination!TypeOK, cursor # None => cursor \in Pagination!Range(order)
  PROVE  \E m, first, at : MatchingAt(m, first, at)
<1> DEFINE R == Pagination!Range(order)
           m == Pagination!MatchingFromCursor
           place == CHOOSE i \in DOMAIN order : order[i] = cursor
           first == IF cursor = None THEN 1 ELSE place
           from == IF cursor = None THEN order ELSE SubSeq(order, place, Len(order))
<1>1. /\ order \in Seq(R) /\ Len(order) \in Nat /\ DOMAIN order = 1..Len(order)
      /\ R = {order[i] : i \in 1..Len(order)}
  BY OrderFact
<1>2. cursor # None => place \in 1..Len(order) /\ order[place] = cursor
  BY <1>1
<1>3. m = Pagination!Those(from, matching)
  BY DEF Pagination!MatchingFromCursor
<1> HIDE DEF m, place, R
<1>4. first \in 1..(Len(order) + 1)
  BY <1>1, <1>2
<1>5. /\ from \in Seq(R) /\ Len(from) = Len(order) - first + 1
      /\ \A i \in 1..Len(from) : from[i] = order[first + i - 1]
  <2>1. CASE cursor = None
    BY <2>1, <1>1
  <2>2. CASE cursor # None
    <3>1. place \in 1..(Len(order) + 1) /\ Len(order) \in (place - 1)..Len(order)
      BY <1>1, <1>2, <2>2
    <3> QED
      BY <2>2, <3>1, <1>1, PartOf
  <2> QED
    BY <2>1, <2>2
<1>6. (cursor = None => first = 1) /\ (cursor # None => first = place)
  OBVIOUS
<1> HIDE DEF from, first
<1>7. m \in Seq(R)
  BY <1>3, <1>5, ThoseInOrder
<1>8. PICK within : Positions(within, m, from, Len(from), matching)
  BY <1>3, <1>5, ThoseInOrder
<1> DEFINE n == Len(m)
           at == [j \in 1..n |-> first + within[j] - 1]
<1>9. n \in Nat /\ within \in [1..n -> 1..Len(from)]
  BY <1>7, <1>8 DEF Positions
<1> HIDE DEF n
<1>10. \A j \in 1..n :
         within[j] \in 1..Len(from) /\ at[j] = first + within[j] - 1 /\ at[j] \in 1..Len(order)
  BY <1>1, <1>4, <1>5, <1>9
<1>11. at \in [1..n -> 1..Len(order)]
  BY <1>10
<1> HIDE DEF at
<1>12. ASSUME NEW j \in 1..n PROVE m[j] = order[at[j]] /\ m[j] \in matching /\ first <= at[j]
  <2>1. m[j] = from[within[j]] /\ m[j] \in matching
    BY <1>8 DEF Positions, n
  <2>2. from[within[j]] = order[at[j]]
    BY <1>5, <1>10
  <2>3. first <= at[j]
    BY <1>4, <1>10
  <2> QED
    BY <2>1, <2>2, <2>3
<1>13. ASSUME NEW j \in 1..n, NEW k \in 1..n, j < k PROVE at[j] < at[k]
  <2>1. within[j] < within[k]
    BY <1>8, <1>13 DEF Positions, n
  <2> QED
    BY <2>1, <1>4, <1>10
<1>14. ASSUME NEW i \in 1..Len(order), first <= i, order[i] \in matching
       PROVE  \E j \in 1..n : at[j] = i
  <2>1. i - first + 1 \in 1..Len(from)
    BY <1>1, <1>4, <1>5, <1>14
  <2>2. from[i - first + 1] = order[i]
    BY <2>1, <1>4, <1>5
  <2>3. PICK j \in 1..n : within[j] = i - first + 1
    BY <2>1, <2>2, <1>8, <1>14 DEF Positions, n
  <2> QED
    BY <2>3, <1>4, <1>10
<1>15. /\ m \in Seq(R) /\ first \in 1..(Len(order) + 1)
       /\ cursor = None => first = 1
       /\ cursor # None => first \in 1..Len(order) /\ order[first] = cursor
  BY <1>2, <1>4, <1>6, <1>7
<1>16. /\ at \in [1..Len(m) -> 1..Len(order)]
       /\ \A j \in 1..Len(m) : m[j] = order[at[j]] /\ m[j] \in matching /\ first <= at[j]
       /\ \A j, k \in 1..Len(m) : j < k => at[j] < at[k]
       /\ \A i \in 1..Len(order) :
            first <= i /\ order[i] \in matching => \E j \in 1..Len(m) : at[j] = i
  BY <1>11, <1>12, <1>13, <1>14 DEF n
<1>17. Pagination!MatchingFromCursor = m
  BY DEF m
<1>18. MatchingAt(m, first, at)
  BY <1>15, <1>16, <1>17 DEF R, MatchingAt
<1> QED
  BY <1>18

\* A row is not behind another in a list.
AtOrBefore(s, a, b) == \E i, j \in 1..Len(s) : i <= j /\ s[i] = a /\ s[j] = b

\* What a page has of a list that is shown in its order: rows behind the cursor only, up
\* to the next cursor all that match but for one, and that one is the cursor if it matches.
LEMMA PageFact ==
  ASSUME Pagination!PaginationAssumption, Pagination!TypeOK, ~list.near,
         cursor # None => cursor \in Pagination!Range(order)
  PROVE  LET rows == Pagination!Processed(Pagination!Found)
             page == Pagination!Range(Pagination!Data(rows))
             next == Pagination!NextCursor(rows)
         IN  /\ Pagination!HasMore(rows) =>
                  next \in page /\ \A r \in page : AtOrBefore(order, r, next)
             /\ cursor # None => \A r \in page : ~AtOrBefore(order, r, cursor)
             /\ cursor # None /\ Pagination!HasMore(rows) => AtOrBefore(order, cursor, next)
             /\ \E skipped :
                  /\ cursor \in matching => skipped = cursor
                  /\ \A r \in matching \ page :
                       (Pagination!HasMore(rows) => AtOrBefore(order, r, next)) =>
                         cursor # None /\ (AtOrBefore(order, r, cursor) \/ r = skipped)
<1> DEFINE R == Pagination!Range(order)
<1>0. PICK m, first, at : MatchingAt(m, first, at)
  BY MatchingFact
<1>1. /\ m \in Seq(R) /\ first \in 1..(Len(order) + 1)
      /\ Pagination!MatchingFromCursor = m
      /\ cursor = None => first = 1
      /\ cursor # None => first \in 1..Len(order) /\ order[first] = cursor
      /\ at \in [1..Len(m) -> 1..Len(order)]
      /\ \A j \in 1..Len(m) : m[j] = order[at[j]] /\ m[j] \in matching /\ first <= at[j]
      /\ \A j, k \in 1..Len(m) : j < k => at[j] < at[k]
      /\ \A i \in 1..Len(order) :
           first <= i /\ order[i] \in matching => \E j \in 1..Len(m) : at[j] = i
  BY <1>0 DEF MatchingAt
<1>2. /\ Len(order) \in Nat /\ PageSize \in Nat \ {0}
      /\ \A i, j \in 1..Len(order) : order[i] = order[j] => i = j
      /\ R = {order[i] : i \in 1..Len(order)} /\ matching \subseteq R
  BY OrderFact DEF Pagination!PaginationAssumption
<1> DEFINE n == Len(m)
           f == Pagination!FirstTaken
           top == IF f + PageSize <= n THEN f + PageSize ELSE n
           rows == Pagination!Processed(Pagination!Found)
           last == IF f + PageSize <= n THEN f + PageSize - 1 ELSE n
           page == Pagination!Range(Pagination!Data(rows))
           next == Pagination!NextCursor(rows)
           hasMore == Pagination!HasMore(rows)
<1>3. n \in Nat /\ f \in {1, 2} /\ (f = 1 <=> cursor = None)
  BY DEF Pagination!FirstTaken
<1>4. rows = SubSeq(m, f, top)
  <2>1. Pagination!Min({f + PageSize, n}) = top
    <3>1. f + PageSize \in Int /\ n \in Int
      BY <1>2, <1>3
    <3> HIDE DEF n, f
    <3> QED
      BY <3>1, MinOfTwo
  <2> QED
    BY <1>1, <2>1 DEF Pagination!Processed, Pagination!Found
<1> HIDE DEF R
<1>5. /\ rows \in Seq(R)
      /\ Len(rows) = (IF f <= top THEN top - f + 1 ELSE 0)
      /\ \A k \in 1..Len(rows) : rows[k] = m[f + k - 1]
  <2> HIDE DEF rows, f, n
  <2>1. top \in 0..n
    BY <1>2, <1>3
  <2> HIDE DEF top
  <2>2. CASE f <= top
    <3>1. f \in 1..(n + 1) /\ top \in (f - 1)..n
      BY <1>3, <2>1, <2>2
    <3> QED
      BY <1>1, <1>4, <2>2, <3>1, PartOf DEF n
  <2>3. CASE top < f
    <3>1. rows = <<>>
      BY <1>3, <1>4, <2>1, <2>3, EmptyPart
    <3> QED
      BY <3>1, <2>1, <2>3, <1>3
  <2> QED
    BY <1>3, <2>1, <2>2, <2>3
<1> HIDE DEF rows
<1>6. /\ hasMore <=> Len(rows) > PageSize
      /\ page = {rows[k] : k \in 1..(IF Len(rows) <= PageSize THEN Len(rows) ELSE PageSize)}
      /\ hasMore => next = rows[PageSize] /\ next \in page
  BY <1>5, AnswerFact
<1> HIDE DEF n, f, page, next, hasMore
<1>7. hasMore <=> f + PageSize <= n
  BY <1>2, <1>3, <1>5, <1>6
<1>8. page = {m[j] : j \in f..last}
  <2> DEFINE size == IF Len(rows) <= PageSize THEN Len(rows) ELSE PageSize
  <2>0. Len(rows) \in Nat /\ last \in Nat
    BY <1>2, <1>3, <1>5
  <2>1. size \in Nat /\ (size # 0 => last = f + size - 1) /\ (f <= last => last = f + size - 1)
    <3>1. CASE f + PageSize <= n
      BY <3>1, <1>2, <1>3, <1>5
    <3>2. CASE n < f + PageSize /\ f <= n
      BY <3>2, <1>2, <1>3, <1>5
    <3>3. CASE n < f
      BY <3>3, <1>2, <1>3, <1>5
    <3> QED
      BY <3>1, <3>2, <3>3, <1>2, <1>3
  <2>2. size <= Len(rows)
    BY <2>0, <1>2
  <2> HIDE DEF size, last
  <2>3. page = {rows[k] : k \in 1..size}
    BY <1>6 DEF size
  <2>4. ASSUME NEW k \in 1..size PROVE f + k - 1 \in f..last /\ rows[k] = m[f + k - 1]
    <3>1. k \in Nat /\ 1 <= k /\ k <= size /\ last = f + size - 1
      BY <2>1
    <3>2. f + k - 1 \in f..last
      BY <3>1, <2>0, <2>1, <1>3
    <3>3. k \in 1..Len(rows)
      BY <3>1, <2>0, <2>1, <2>2
    <3> QED
      BY <3>2, <3>3, <1>5
  <2>5. ASSUME NEW j \in f..last PROVE j - f + 1 \in 1..size /\ rows[j - f + 1] = m[j]
    <3>1. j \in Nat /\ f <= j /\ j <= last /\ last = f + size - 1
      BY <2>0, <2>1, <1>3
    <3>2. j - f + 1 \in 1..size
      BY <3>1, <2>0, <2>1, <1>3
    <3>3. j - f + 1 \in 1..Len(rows) /\ f + (j - f + 1) - 1 = j
      BY <3>1, <3>2, <2>0, <2>1, <2>2, <1>3
    <3> QED
      BY <3>2, <3>3, <1>5
  <2> QED
    BY <2>3, <2>4, <2>5
<1>9. last <= n /\ last \in Nat
  BY <1>2, <1>3
<1>10. hasMore => last \in f..n /\ next = m[last]
  <2> SUFFICES ASSUME hasMore PROVE last \in f..n /\ next = m[last]
    OBVIOUS
  <2>1. last = f + PageSize - 1 /\ last \in f..n
    BY <1>2, <1>3, <1>7
  <2>2. PageSize \in 1..Len(rows)
    BY <1>2, <1>3, <1>5, <1>6
  <2> QED
    BY <2>1, <2>2, <1>5, <1>6
<1> HIDE DEF last, top
<1>11. ASSUME hasMore PROVE next \in page /\ \A r \in page : AtOrBefore(order, r, next)
  <2> SUFFICES ASSUME NEW r \in page PROVE AtOrBefore(order, r, next)
    BY <1>6, <1>11
  <2>1. PICK j \in f..last : r = m[j]
    BY <1>8
  <2>2. j \in 1..n /\ last \in 1..n /\ j <= last
    BY <1>3, <1>9, <1>10, <1>11, <2>1
  <2>3. at[j] \in 1..Len(order) /\ at[last] \in 1..Len(order) /\ at[j] <= at[last]
    <3>1. at[j] \in 1..Len(order) /\ at[last] \in 1..Len(order)
      BY <1>1, <2>2 DEF n
    <3>2. j < last => at[j] < at[last]
      BY <1>1, <2>2 DEF n
    <3> QED
      BY <3>1, <3>2, <2>2, <1>2
  <2>4. r = order[at[j]] /\ next = order[at[last]]
    BY <1>1, <1>10, <1>11, <2>1, <2>2 DEF n
  <2> QED
    BY <2>3, <2>4 DEF AtOrBefore
<1>12. ASSUME cursor # None, NEW r \in page PROVE ~AtOrBefore(order, r, cursor)
  <2>1. PICK j \in f..last : r = m[j]
    BY <1>8
  <2>2. f = 2 /\ j \in 2..n /\ 1 \in 1..n /\ j \in 1..n
    BY <1>3, <1>9, <1>12, <2>1
  <2>3. at[1] < at[j] /\ first <= at[1]
    BY <1>1, <2>2 DEF n
  <2>4. r = order[at[j]] /\ at[j] \in 1..Len(order) /\ at[1] \in 1..Len(order)
    BY <1>1, <2>1, <2>2 DEF n
  <2>5. first \in 1..Len(order) /\ order[first] = cursor
    BY <1>1, <1>12
  <2> SUFFICES ASSUME NEW i \in 1..Len(order), NEW k \in 1..Len(order), i <= k,
                      order[i] = r, order[k] = cursor
               PROVE  FALSE
    BY DEF AtOrBefore
  <2>6. i = at[j] /\ k = first
    BY <1>2, <2>4, <2>5
  <2> QED
    BY <2>3, <2>4, <2>5, <2>6, <1>2
<1>13. ASSUME cursor # None, hasMore PROVE AtOrBefore(order, cursor, next)
  <2>1. last \in 1..n
    BY <1>3, <1>10, <1>13
  <2>2. first <= at[last] /\ at[last] \in 1..Len(order) /\ next = order[at[last]]
    BY <1>1, <1>10, <1>13, <2>1 DEF n
  <2> QED
    BY <1>1, <1>13, <2>2 DEF AtOrBefore
<1> DEFINE skipped == m[1]
<1>14. ASSUME NEW r \in matching \ page, hasMore => AtOrBefore(order, r, next)
       PROVE  cursor # None /\ (AtOrBefore(order, r, cursor) \/ (r = skipped /\ n # 0))
  <2>1. PICK i \in 1..Len(order) : order[i] = r
    BY <1>2
  <2>2. CASE i < first
    <3>1. cursor # None
      BY <1>1, <1>2, <2>2
    <3>2. first \in 1..Len(order) /\ order[first] = cursor /\ i <= first
      BY <1>1, <3>1, <2>2, <1>2
    <3> QED
      BY <3>1, <3>2, <2>1 DEF AtOrBefore
  <2>3. CASE first <= i
    <3>1. PICK j \in 1..n : at[j] = i
      BY <1>1, <1>14, <2>1, <2>3 DEF n
    <3>2. m[j] = r
      BY <1>1, <2>1, <3>1 DEF n
    <3>3. j <= last
      <4>1. CASE ~hasMore
        BY <4>1, <1>2, <1>3, <1>7, <3>1 DEF last
      <4>2. CASE hasMore
        <5>1. last \in 1..n /\ next = order[at[last]] /\ at[last] \in 1..Len(order)
          BY <1>1, <1>3, <1>10, <4>2 DEF n
        <5>2. PICK a \in 1..Len(order), b \in 1..Len(order) :
                 a <= b /\ order[a] = r /\ order[b] = next
          BY <1>14, <4>2 DEF AtOrBefore
        <5>3. a = at[j] /\ b = at[last]
          BY <1>2, <5>1, <5>2, <2>1, <3>1
        <5>4. ~(last < j)
          BY <1>1, <1>2, <5>1, <5>2, <5>3, <3>1 DEF n
        <5> QED
          BY <5>1, <5>4, <3>1
      <4> QED
        BY <4>1, <4>2
    <3>4. ~(f <= j)
      BY <1>3, <1>8, <1>9, <1>14, <3>1, <3>2, <3>3
    <3>5. j = 1 /\ f = 2
      BY <1>3, <3>1, <3>4
    <3> QED
      BY <1>3, <3>1, <3>2, <3>5
  <2> QED
    BY <2>2, <2>3, <1>1, <1>2
<1>15. ASSUME cursor \in matching, cursor # None PROVE n # 0 /\ skipped = cursor
  <2>1. first \in 1..Len(order) /\ order[first] = cursor
    BY <1>1, <1>15
  <2>2. PICK j \in 1..n : at[j] = first
    BY <1>1, <1>2, <1>15, <2>1 DEF n
  <2>3. j = 1
    <3> SUFFICES ASSUME 1 < j PROVE FALSE
      BY <2>2, <1>3
    <3>1. 1 \in 1..n /\ at[1] < at[j] /\ first <= at[1] /\ at[1] \in 1..Len(order)
      BY <1>1, <2>2, <1>3 DEF n
    <3> QED
      BY <3>1, <2>1, <2>2, <1>2
  <2> QED
    BY <1>1, <2>1, <2>2, <2>3 DEF n
<1>16. cursor \in matching => cursor # None
  BY <1>2, OrderFact DEF Pagination!PaginationAssumption
<1>17. \E s : /\ cursor \in matching => s = cursor
              /\ \A r \in matching \ page :
                   (hasMore => AtOrBefore(order, r, next)) =>
                     cursor # None /\ (AtOrBefore(order, r, cursor) \/ r = s)
  <2> HIDE DEF skipped
  <2> QED
    BY <1>14, <1>15, <1>16
<1>18. /\ hasMore => next \in page /\ \A r \in page : AtOrBefore(order, r, next)
       /\ cursor # None => \A r \in page : ~AtOrBefore(order, r, cursor)
       /\ cursor # None /\ hasMore => AtOrBefore(order, cursor, next)
       /\ \E s : /\ cursor \in matching => s = cursor
                 /\ \A r \in matching \ page :
                      (hasMore => AtOrBefore(order, r, next)) =>
                        cursor # None /\ (AtOrBefore(order, r, cursor) \/ r = s)
  BY <1>11, <1>12, <1>13, <1>17
<1> QED
  BY <1>18 DEF page, next, hasMore, rows

\* A row that is put into a list comes among the others, which stay in their order.
LEMMA InsertKeepsOrder ==
  ASSUME NEW R, NEW s \in Seq(R), NEW e \in R, NEW p \in 1..(Len(s) + 1),
         \A i, j \in 1..Len(s) : s[i] = s[j] => i = j,
         \A i \in 1..Len(s) : s[i] # e
  PROVE  LET t == Pagination!InsertAt(s, p, e)
         IN  /\ t \in Seq(R)
             /\ \A i, j \in 1..Len(t) : t[i] = t[j] => i = j
             /\ {t[i] : i \in 1..Len(t)} = {s[i] : i \in 1..Len(s)} \cup {e}
             /\ \A a, b : a # e /\ b # e => (AtOrBefore(t, a, b) <=> AtOrBefore(s, a, b))
<1> DEFINE t == Pagination!InsertAt(s, p, e)
           n == Len(s)
           To(i) == IF i < p THEN i ELSE i + 1
<1>0. n \in Nat /\ p \in Nat /\ 1 <= p /\ p <= n + 1
  OBVIOUS
<1>1. /\ t \in Seq(R) /\ Len(t) = n + 1
      /\ \A i \in 1..(n + 1) : t[i] = IF i < p THEN s[i] ELSE IF i = p THEN e ELSE s[i - 1]
  BY InsertedAt, SMTT(30)
<1> HIDE DEF t, n
<1>2. ASSUME NEW i \in 1..n PROVE To(i) \in 1..(n + 1) /\ t[To(i)] = s[i] /\ To(i) # p
  BY <1>0, <1>1
<1>3. t[p] = e /\ p \in 1..(n + 1)
  BY <1>0, <1>1
<1>4. ASSUME NEW j \in 1..(n + 1), j # p PROVE \E i \in 1..n : j = To(i)
  <2>1. CASE j < p
    <3>1. j \in 1..n /\ j = To(j)
      BY <1>0, <2>1
    <3> QED
      BY <3>1
  <2>2. CASE j > p
    <3>1. j - 1 \in 1..n /\ j = To(j - 1)
      BY <1>0, <2>2
    <3> QED
      BY <3>1
  <2> QED
    BY <2>1, <2>2, <1>0, <1>4
<1>5. \A i, j \in 1..n : i <= j <=> To(i) <= To(j)
  BY <1>0
<1>6. \A i \in 1..n : s[i] # e
  BY DEF n
<1>7. \A i, j \in 1..n : s[i] = s[j] => i = j
  BY DEF n
<1> HIDE DEF To
<1>8. ASSUME NEW i \in 1..(n + 1), NEW j \in 1..(n + 1), t[i] = t[j] PROVE i = j
  BY <1>2, <1>3, <1>4, <1>6, <1>7, <1>8
<1>9. {t[i] : i \in 1..(n + 1)} = {s[i] : i \in 1..n} \cup {e}
  BY <1>2, <1>3, <1>4
<1>10. ASSUME NEW a, NEW b, a # e, b # e
       PROVE  AtOrBefore(t, a, b) <=> AtOrBefore(s, a, b)
  <2>1. ASSUME AtOrBefore(t, a, b) PROVE AtOrBefore(s, a, b)
    <3>1. PICK i \in 1..(n + 1), j \in 1..(n + 1) : i <= j /\ t[i] = a /\ t[j] = b
      BY <2>1, <1>1 DEF AtOrBefore
    <3>2. PICK k \in 1..n : i = To(k)
      BY <3>1, <1>3, <1>4, <1>10
    <3>3. PICK l \in 1..n : j = To(l)
      BY <3>1, <1>3, <1>4, <1>10
    <3>4. k <= l /\ s[k] = a /\ s[l] = b
      BY <3>1, <3>2, <3>3, <1>2, <1>5
    <3> QED
      BY <3>4 DEF AtOrBefore, n
  <2>2. ASSUME AtOrBefore(s, a, b) PROVE AtOrBefore(t, a, b)
    <3>1. PICK k \in 1..n, l \in 1..n : k <= l /\ s[k] = a /\ s[l] = b
      BY <2>2 DEF AtOrBefore, n
    <3>2. To(k) \in 1..(n + 1) /\ To(l) \in 1..(n + 1) /\ To(k) <= To(l) /\ t[To(k)] = a /\ t[To(l)] = b
      BY <3>1, <1>2, <1>5
    <3> QED
      BY <3>2, <1>1 DEF AtOrBefore
  <2> QED
    BY <2>1, <2>2
<1> QED
  BY <1>1, <1>8, <1>9, <1>10 DEF t, n

\* A row that is taken out of a list leaves the others in their order.
LEMMA RemoveKeepsOrder ==
  ASSUME NEW R, NEW s \in Seq(R), NEW p \in 1..Len(s),
         \A i, j \in 1..Len(s) : s[i] = s[j] => i = j
  PROVE  LET t == Pagination!RemoveAt(s, p)
         IN  /\ t \in Seq(R)
             /\ \A i, j \in 1..Len(t) : t[i] = t[j] => i = j
             /\ \A i \in 1..Len(t) : t[i] # s[p]
             /\ {t[i] : i \in 1..Len(t)} = {s[i] : i \in 1..Len(s)} \ {s[p]}
             /\ \A a, b : a # s[p] /\ b # s[p] => (AtOrBefore(t, a, b) <=> AtOrBefore(s, a, b))
<1> DEFINE t == Pagination!RemoveAt(s, p)
           n == Len(s)
           From(i) == IF i < p THEN i ELSE i + 1
<1>0. n \in Nat /\ p \in Nat /\ 1 <= p /\ p <= n
  OBVIOUS
<1>1. /\ t \in Seq(R) /\ Len(t) = n - 1
      /\ \A i \in 1..(n - 1) : t[i] = IF i < p THEN s[i] ELSE s[i + 1]
  BY RemovedAt
<1> HIDE DEF t, n
<1>2. ASSUME NEW i \in 1..(n - 1) PROVE From(i) \in 1..n /\ t[i] = s[From(i)] /\ From(i) # p
  BY <1>0, <1>1
<1>4. ASSUME NEW j \in 1..n, j # p PROVE \E i \in 1..(n - 1) : j = From(i)
  <2>1. CASE j < p
    <3>1. j \in 1..(n - 1) /\ j = From(j)
      BY <1>0, <2>1
    <3> QED
      BY <3>1
  <2>2. CASE j > p
    <3>1. j - 1 \in 1..(n - 1) /\ j = From(j - 1)
      BY <1>0, <2>2
    <3> QED
      BY <3>1
  <2> QED
    BY <2>1, <2>2, <1>0, <1>4
<1>5. \A i, j \in 1..(n - 1) : (i <= j <=> From(i) <= From(j)) /\ (From(i) = From(j) => i = j)
  BY <1>0
<1>7. \A i, j \in 1..n : s[i] = s[j] => i = j
  BY DEF n
<1>3. p \in 1..n
  BY DEF n
<1> HIDE DEF From
<1>6. \A i \in 1..(n - 1) : t[i] # s[p]
  BY <1>2, <1>3, <1>7
<1>8. ASSUME NEW i \in 1..(n - 1), NEW j \in 1..(n - 1), t[i] = t[j] PROVE i = j
  BY <1>2, <1>5, <1>7, <1>8
<1>9. {t[i] : i \in 1..(n - 1)} = {s[i] : i \in 1..n} \ {s[p]}
  <2>1. ASSUME NEW i \in 1..(n - 1) PROVE t[i] \in {s[j] : j \in 1..n} \ {s[p]}
    BY <1>2, <1>6
  <2>2. ASSUME NEW j \in 1..n, s[j] # s[p] PROVE s[j] \in {t[i] : i \in 1..(n - 1)}
    BY <1>2, <1>4, <2>2
  <2> QED
    BY <2>1, <2>2
<1>10. ASSUME NEW a, NEW b, a # s[p], b # s[p]
       PROVE  AtOrBefore(t, a, b) <=> AtOrBefore(s, a, b)
  <2>1. ASSUME AtOrBefore(t, a, b) PROVE AtOrBefore(s, a, b)
    <3>1. PICK i \in 1..(n - 1), j \in 1..(n - 1) : i <= j /\ t[i] = a /\ t[j] = b
      BY <2>1, <1>1 DEF AtOrBefore
    <3>2. /\ From(i) \in 1..n /\ From(j) \in 1..n /\ From(i) <= From(j)
          /\ s[From(i)] = a /\ s[From(j)] = b
      BY <3>1, <1>2, <1>5
    <3> QED
      BY <3>2 DEF AtOrBefore, n
  <2>2. ASSUME AtOrBefore(s, a, b) PROVE AtOrBefore(t, a, b)
    <3>1. PICK k \in 1..n, l \in 1..n : k <= l /\ s[k] = a /\ s[l] = b
      BY <2>2 DEF AtOrBefore, n
    <3>2. PICK i \in 1..(n - 1) : k = From(i)
      BY <3>1, <1>4, <1>10
    <3>3. PICK j \in 1..(n - 1) : l = From(j)
      BY <3>1, <1>4, <1>10
    <3>4. i <= j /\ t[i] = a /\ t[j] = b
      BY <3>1, <3>2, <3>3, <1>2, <1>5
    <3> QED
      BY <3>4, <1>1 DEF AtOrBefore
  <2> QED
    BY <2>1, <2>2
<1> QED
  BY <1>1, <1>6, <1>8, <1>9, <1>10 DEF t, n

\* The walk is past a row when it is not behind the cursor; at the end, past all.
Passed(r) == IF cursor = None THEN ~more ELSE AtOrBefore(order, r, cursor)

LeftOut == {r \in steady \ shown : Passed(r)}

\* What the client was shown lies not behind its cursor, but for rows that moved, and
\* what it was not shown there is as much as the pages that slipped.
WalkInv ==
  /\ Pagination!TypeOK
  /\ cursor # None => more /\ cursor \in shown /\ cursor \in Pagination!Range(order)
  /\ cursor = None /\ more => shown = {}
  /\ ~list.near /\ ~jumped =>
       /\ \A r \in shown \ moved : Passed(r)
       /\ twice \subseteq moved
       /\ Cardinality(LeftOut) <= slips

\* The rows of a list are finitely many.
LEMMA RowsFinite ==
  ASSUME Pagination!PaginationAssumption
  PROVE  \A S : S \subseteq Rows => IsFiniteSet(S) /\ Cardinality(S) \in Nat
<1>1. IsFiniteSet(Rows)
  BY CountsAlike DEF Pagination!PaginationAssumption
<1> QED
  BY <1>1, FS_Subset, FS_CardinalityType

\* The invariant holds of every list as the client opens it.
LEMMA WalkBegins == ASSUME Pagination!PaginationAssumption, Pagination!Init PROVE WalkInv
<1>0. /\ cursor = None /\ more = TRUE /\ shown = {} /\ twice = {} /\ steady = matching
      /\ moved = {} /\ slips = 0 /\ jumped = FALSE /\ moves = 0 /\ list \in Pagination!Lists
      /\ matching \in SUBSET Pagination!Range(order)
  BY DEF Pagination!Init
<1>1. order \in Seq(Rows) /\ Pagination!IsInjective(order)
  <2>1. PICK S \in SUBSET Rows : order \in Pagination!SetToSeqs(S)
    BY DEF Pagination!Init
  <2>2. Pagination!Cardinality(S) \in Nat
    BY RowsFinite, CountsAlike
  <2>3. /\ order \in [1..Pagination!Cardinality(S) -> S]
        /\ \A i, j \in 1..Pagination!Cardinality(S) : i # j => order[i] # order[j]
    BY <2>1 DEF Pagination!SetToSeqs
  <2>4. order \in Seq(S)
    BY <2>2, <2>3
  <2> QED
    BY <2>3, <2>4 DEF Pagination!IsInjective
<1>2. LeftOut = {}
  BY <1>0 DEF LeftOut, Passed
<1>3. Cardinality(LeftOut) = 0
  BY <1>2, FS_EmptySet
<1>4. MaxMoves \in Nat
  BY DEF Pagination!PaginationAssumption
<1>5. Pagination!TypeOK
  <2>1. moved \subseteq Pagination!Range(order) /\ twice \subseteq shown /\ shown \subseteq Rows
    BY <1>0
  <2>2. moves \in 0..MaxMoves /\ slips \in Nat
    BY <1>0, <1>4
  <2>3. matching \subseteq Pagination!Range(order) /\ steady \subseteq matching
    BY <1>0
  <2>4. cursor \in Rows \cup {None} /\ more \in BOOLEAN /\ jumped \in BOOLEAN
    BY <1>0
  <2>5. list \in Pagination!Lists
    BY <1>0
  <2> QED
    BY <1>1, <2>1, <2>2, <2>3, <2>4, <2>5 DEF Pagination!TypeOK
<1> QED
  BY <1>0, <1>3, <1>5 DEF WalkInv

\* The rows that are answered with are rows of the list.
LEMMA RowsOfAnswer ==
  ASSUME Pagination!PaginationAssumption, Pagination!TypeOK,
         cursor # None => cursor \in Pagination!Range(order)
  PROVE  Pagination!Processed(Pagination!Found) \in Seq(Pagination!Range(order))
<1> DEFINE R == Pagination!Range(order)
           m == Pagination!MatchingFromCursor
           f == Pagination!FirstTaken
           top == IF f + PageSize <= Len(m) THEN f + PageSize ELSE Len(m)
<1>1. m \in Seq(R) /\ Len(m) \in Nat
  BY MatchingFact DEF MatchingAt
<1>2. f \in {1, 2} /\ PageSize \in Nat \ {0}
  BY DEF Pagination!FirstTaken, Pagination!PaginationAssumption
<1> HIDE DEF m, f, R
<1>3. Pagination!Min({f + PageSize, Len(m)}) = top
  <2>1. f + PageSize \in Int /\ Len(m) \in Int
    BY <1>1, <1>2
  <2> QED
    BY <2>1, MinOfTwo
<1>4. top \in 0..Len(m)
  BY <1>1, <1>2
<1> HIDE DEF top
<1>5. Pagination!Found = SubSeq(m, f, top)
  BY <1>3 DEF Pagination!Found, m, f
<1>6. Pagination!Found \in Seq(R)
  <2>1. CASE f <= top
    <3>1. f \in 1..(Len(m) + 1) /\ top \in (f - 1)..Len(m)
      BY <1>1, <1>2, <1>4, <2>1
    <3> QED
      BY <1>1, <1>5, <3>1, PartOf
  <2>2. CASE top < f
    <3>1. Pagination!Found = <<>>
      BY <1>1, <1>2, <1>4, <1>5, <2>2, EmptyPart
    <3> QED
      BY <3>1
  <2> QED
    BY <2>1, <2>2, <1>2, <1>4
<1>7. Pagination!ByDistance(Pagination!Those(Pagination!Found, Pagination!WithinRadius)) \in Seq(R)
  BY <1>6, ThoseInOrder, ByDistanceIsSequence
<1> QED
  BY <1>6, <1>7 DEF Pagination!Processed, R

\* A page is asked for.
LEMMA WalkNextPage ==
  ASSUME Pagination!PaginationAssumption, WalkInv, Pagination!NextPage PROVE WalkInv'
<1> DEFINE rows == Pagination!Processed(Pagination!Found)
           page == Pagination!Range(Pagination!Data(rows))
           next == Pagination!NextCursor(rows)
           hasMore == Pagination!HasMore(rows)
           R == Pagination!Range(order)
<1>1. /\ Pagination!TypeOK
      /\ cursor # None => more /\ cursor \in shown /\ cursor \in R
      /\ cursor = None /\ more => shown = {}
      /\ ~list.near /\ ~jumped =>
           /\ \A r \in shown \ moved : Passed(r)
           /\ twice \subseteq moved
           /\ Cardinality(LeftOut) <= slips
  BY DEF WalkInv
<1>2. rows \in Seq(R)
  BY <1>1, RowsOfAnswer
<1> HIDE DEF rows
<1>3. /\ page \subseteq R /\ hasMore \in BOOLEAN
      /\ hasMore => next \in page
      /\ ~hasMore => next = None
  BY <1>2, AnswerFact
<1>4. /\ more = TRUE
      /\ twice' = twice \cup (shown \cap page)
      /\ shown' = shown \cup page
      /\ more' = hasMore
      /\ cursor' = next
      /\ slips' = (IF cursor # None /\ cursor \notin matching THEN slips + 1 ELSE slips)
      /\ list' = list /\ order' = order /\ matching' = matching /\ steady' = steady
      /\ moved' = moved /\ jumped' = jumped /\ moves' = moves
  BY <1>1 DEF Pagination!NextPage, Pagination!table, rows, Pagination!TypeOK
<1>5. R \subseteq Rows /\ None \notin Rows
  BY <1>1, OrderFact DEF Pagination!PaginationAssumption
<1>6. ~list.near =>
        /\ hasMore => \A r \in page : AtOrBefore(order, r, next)
        /\ cursor # None => \A r \in page : ~AtOrBefore(order, r, cursor)
        /\ cursor # None /\ hasMore => AtOrBefore(order, cursor, next)
        /\ \E skipped :
             /\ cursor \in matching => skipped = cursor
             /\ \A r \in matching \ page :
                  (hasMore => AtOrBefore(order, r, next)) =>
                    cursor # None /\ (AtOrBefore(order, r, cursor) \/ r = skipped)
  BY <1>1, PageFact DEF rows
<1> HIDE DEF page, next, hasMore, R
<1>7. Pagination!TypeOK'
  <2>1. /\ list \in Pagination!Lists /\ order \in Seq(Rows) /\ Pagination!IsInjective(order)
        /\ matching \subseteq R
        /\ twice \subseteq shown /\ shown \subseteq Rows /\ steady \subseteq matching
        /\ moved \subseteq R
        /\ slips \in Nat /\ jumped \in BOOLEAN /\ moves \in 0..MaxMoves
    BY <1>1 DEF Pagination!TypeOK, R
  <2>2. cursor' \in Rows \cup {None} /\ more' \in BOOLEAN
    BY <1>3, <1>4, <1>5
  <2>3. twice' \subseteq shown' /\ shown' \subseteq Rows
    BY <1>3, <1>4, <1>5, <2>1
  <2>4. slips' \in Nat
    BY <1>4, <2>1
  <2>5. /\ list' \in Pagination!Lists /\ order' \in Seq(Rows) /\ Pagination!IsInjective(order')
        /\ matching' \subseteq Pagination!Range(order')
        /\ steady' \subseteq matching'
        /\ moved' \subseteq Pagination!Range(order')
        /\ jumped' \in BOOLEAN /\ moves' \in 0..MaxMoves
    BY <1>4, <2>1 DEF R
  <2> QED
    BY <2>2, <2>3, <2>4, <2>5 DEF Pagination!TypeOK
<1>8. cursor' # None => more' /\ cursor' \in shown' /\ cursor' \in Pagination!Range(order')
  BY <1>3, <1>4 DEF R
<1>9. ~(cursor' = None /\ more')
  BY <1>3, <1>4, <1>5
<1>10. ASSUME ~list.near, ~jumped
       PROVE  /\ \A r \in shown' \ moved' : Passed(r)'
              /\ twice' \subseteq moved'
              /\ Cardinality(LeftOut') <= slips'
  <2>1. ASSUME NEW r PROVE Passed(r)' <=> (hasMore => AtOrBefore(order, r, next))
    <3>1. CASE hasMore
      BY <3>1, <1>3, <1>4, <1>5 DEF Passed
    <3>2. CASE ~hasMore
      BY <3>2, <1>3, <1>4 DEF Passed
    <3> QED
      BY <3>1, <3>2
  <2>2. \A r \in shown \ moved : cursor # None /\ AtOrBefore(order, r, cursor)
    BY <1>1, <1>4, <1>10 DEF Passed
  <2>3. ASSUME NEW r \in shown' \ moved' PROVE Passed(r)'
    <3> SUFFICES ASSUME hasMore PROVE AtOrBefore(order, r, next)
      BY <2>1
    <3>1. CASE r \in page
      BY <3>1, <1>6, <1>10
    <3>2. CASE r \notin page
      <4>1. AtOrBefore(order, r, cursor) /\ AtOrBefore(order, cursor, next)
        BY <2>2, <2>3, <3>2, <1>4, <1>6, <1>10
      <4>2. \A i, j \in 1..Len(order) : order[i] = order[j] => i = j
        BY <1>1, OrderFact
      <4> QED
        BY <4>1, <4>2 DEF AtOrBefore
    <3> QED
      BY <3>1, <3>2
  <2>4. twice' \subseteq moved'
    BY <2>2, <1>1, <1>4, <1>6, <1>10
  <2>5. PICK skipped :
          /\ cursor \in matching => skipped = cursor
          /\ \A r \in matching \ page :
               (hasMore => AtOrBefore(order, r, next)) =>
                 cursor # None /\ (AtOrBefore(order, r, cursor) \/ r = skipped)
    BY <1>6, <1>10
  <2>6. LeftOut' \subseteq LeftOut \cup {skipped}
    <3> SUFFICES ASSUME NEW r \in LeftOut', r # skipped PROVE r \in LeftOut
      OBVIOUS
    <3>1. r \in steady /\ r \notin shown /\ r \notin page /\ Passed(r)'
      BY <1>4 DEF LeftOut
    <3>2. r \in matching
      BY <3>1, <1>1 DEF Pagination!TypeOK
    <3>3. cursor # None /\ AtOrBefore(order, r, cursor)
      BY <3>1, <3>2, <2>1, <2>5
    <3> QED
      BY <3>1, <3>3 DEF LeftOut, Passed
  <2>7. CASE cursor \in matching \/ cursor = None
    <3>1. LeftOut' \subseteq LeftOut
      <4> SUFFICES ASSUME NEW r \in LeftOut' PROVE r \in LeftOut
        OBVIOUS
      <4>1. r \in steady /\ r \notin shown /\ r \notin page /\ Passed(r)'
        BY <1>4 DEF LeftOut
      <4>2. r \in matching
        BY <4>1, <1>1 DEF Pagination!TypeOK
      <4>3. cursor # None
        BY <4>1, <4>2, <2>1, <2>5
      <4>4. r # skipped
        BY <4>1, <4>3, <2>5, <2>7, <1>1
      <4> QED
        BY <4>4, <2>6
    <3>2. LeftOut \subseteq Rows
      BY <1>1, OrderFact DEF LeftOut, Pagination!TypeOK
    <3>3. Cardinality(LeftOut') <= Cardinality(LeftOut)
      BY <3>1, <3>2, RowsFinite, FS_Subset
    <3>4. Cardinality(LeftOut') \in Nat /\ Cardinality(LeftOut) \in Nat
      <4>1. LeftOut' \subseteq Rows
        BY <3>1, <3>2
      <4> QED
        BY <3>2, <4>1, RowsFinite
    <3>5. slips' = slips /\ slips \in Nat
      BY <1>1, <1>4, <2>7 DEF Pagination!TypeOK
    <3> QED
      BY <3>3, <3>4, <3>5, <1>1, <1>10, <2>3, <2>4
  <2>8. CASE cursor \notin matching /\ cursor # None
    <3>1. LeftOut \subseteq Rows
      BY <1>1, OrderFact DEF LeftOut, Pagination!TypeOK
    <3>2. /\ IsFiniteSet(LeftOut) /\ Cardinality(LeftOut) \in Nat
          /\ IsFiniteSet(LeftOut \cup {skipped})
          /\ Cardinality(LeftOut \cup {skipped}) <= Cardinality(LeftOut) + 1
      <4>1. IsFiniteSet(LeftOut) /\ Cardinality(LeftOut) \in Nat
        BY <3>1, RowsFinite
      <4>2. /\ IsFiniteSet(LeftOut \cup {skipped})
            /\ Cardinality(LeftOut \cup {skipped}) =
                 IF skipped \in LeftOut THEN Cardinality(LeftOut) ELSE Cardinality(LeftOut) + 1
        BY <4>1, FS_AddElement
      <4> QED
        BY <4>1, <4>2
    <3>3. /\ Cardinality(LeftOut') <= Cardinality(LeftOut \cup {skipped})
          /\ Cardinality(LeftOut') \in Nat /\ Cardinality(LeftOut \cup {skipped}) \in Nat
      BY <3>2, <2>6, FS_Subset, FS_CardinalityType
    <3>4. slips' = slips + 1 /\ slips \in Nat
      BY <1>1, <1>4, <2>8 DEF Pagination!TypeOK
    <3> QED
      BY <3>2, <3>3, <3>4, <1>1, <1>10, <2>3, <2>4
  <2> QED
    BY <2>7, <2>8
<1> QED
  BY <1>4, <1>7, <1>8, <1>9, <1>10 DEF WalkInv

\* The list is opened anew.
LEMMA WalkReopen ==
  ASSUME Pagination!PaginationAssumption, WalkInv, Pagination!Reopen PROVE WalkInv'
<1>1. /\ cursor' = None /\ more' = TRUE /\ shown' = {} /\ twice' = {} /\ steady' = matching'
      /\ moved' = {} /\ slips' = 0 /\ jumped' = FALSE
      /\ list' = list /\ order' = order /\ matching' = matching /\ moves' = moves
  BY DEF Pagination!Reopen, Pagination!table
<1>2. LeftOut' = {}
  BY <1>1 DEF LeftOut, Passed
<1>3. Cardinality(LeftOut') = 0
  BY <1>2, FS_EmptySet
<1>4. Pagination!TypeOK'
  <2>1. /\ list' \in Pagination!Lists /\ order' \in Seq(Rows) /\ Pagination!IsInjective(order')
        /\ matching' \subseteq Pagination!Range(order') /\ moves' \in 0..MaxMoves
    BY <1>1 DEF WalkInv, Pagination!TypeOK
  <2>2. moved' \subseteq Pagination!Range(order') /\ twice' \subseteq shown' /\ shown' \subseteq Rows
    BY <1>1
  <2> QED
    BY <1>1, <2>1, <2>2 DEF Pagination!TypeOK
<1> QED
  BY <1>1, <1>3, <1>4 DEF WalkInv

\* A place in a list is between, before or after its rows.
LEMMA PlacesFact ==
  ASSUME NEW kind \in {"first", "last", "anywhere", "never"}, NEW n \in Nat
  PROVE  Pagination!Places(kind, n) \subseteq 1..(n + 1)
BY DEF Pagination!Places

\* Rows enter and move in a list at one of four kinds of places.
LEMMA ListsFact ==
  ASSUME NEW l \in Pagination!Lists
  PROVE  /\ l.enters \in {"first", "last", "anywhere", "never"}
         /\ l.moves \in {"first", "last", "anywhere", "never"}
BY DEF Pagination!Lists, Pagination!PlainLists, Pagination!NearLists, Pagination!List,
  Pagination!BookingsOfTraveler, Pagination!BookingsOfProvider, Pagination!AllBookings,
  Pagination!AllPayments, Pagination!AllRefunds, Pagination!OwnConversations,
  Pagination!Inbox, Pagination!Messages, Pagination!ReviewsOfProvider,
  Pagination!AllReviews, Pagination!ServicesOfProvider, Pagination!AllServices,
  Pagination!AllUsers, Pagination!UsersByAdmin, Pagination!ProvidersByRating,
  Pagination!ProvidersOldest, Pagination!DestinationsByName, Pagination!ProvidersNear,
  Pagination!DestinationsNear

\* While the client does nothing, what lies before its cursor stays there, but for rows
\* that move: less of it can be left out, and the rest of the invariant stays.
LEMMA WalkStands ==
  ASSUME Pagination!PaginationAssumption, WalkInv, Pagination!TypeOK',
         list' = list, cursor' = cursor, more' = more, shown' = shown, twice' = twice,
         slips' = slips, steady' \subseteq steady, moved \subseteq moved',
         ~jumped' => ~jumped,
         Pagination!Range(order) \subseteq Pagination!Range(order'),
         cursor # None /\ ~jumped' =>
           \A r \in Pagination!Range(order) :
             r \notin moved' \/ r \in steady' =>
               (AtOrBefore(order', r, cursor) <=> AtOrBefore(order, r, cursor))
  PROVE  WalkInv'
<1>1. /\ Pagination!TypeOK
      /\ cursor # None => more /\ cursor \in shown /\ cursor \in Pagination!Range(order)
      /\ cursor = None /\ more => shown = {}
  BY DEF WalkInv
<1>2. cursor' # None => more' /\ cursor' \in shown' /\ cursor' \in Pagination!Range(order')
  BY <1>1
<1>3. ASSUME ~list.near, ~jumped'
      PROVE  /\ \A r \in shown' \ moved' : Passed(r)'
             /\ twice' \subseteq moved'
             /\ Cardinality(LeftOut') <= slips'
  <2>1. /\ \A r \in shown \ moved : Passed(r)
        /\ twice \subseteq moved
        /\ Cardinality(LeftOut) <= slips
    BY <1>3 DEF WalkInv
  <2>2. ASSUME NEW r \in shown' \ moved' PROVE Passed(r)'
    <3>1. r \in shown \ moved /\ Passed(r)
      BY <2>1, <2>2
    <3>2. CASE cursor = None
      BY <3>1, <3>2 DEF Passed
    <3>3. CASE cursor # None
      <4>1. AtOrBefore(order, r, cursor)
        BY <3>1, <3>3 DEF Passed
      <4>2. r \in Pagination!Range(order)
        BY <4>1, <1>1, OrderFact DEF AtOrBefore
      <4>3. AtOrBefore(order', r, cursor)
        BY <4>1, <4>2, <2>2, <1>3, <3>3
      <4> QED
        BY <4>3, <3>3 DEF Passed
    <3> QED
      BY <3>2, <3>3
  <2>3. LeftOut' \subseteq LeftOut
    <3> SUFFICES ASSUME NEW r \in LeftOut' PROVE r \in LeftOut
      OBVIOUS
    <3>1. r \in steady' /\ r \in steady /\ r \notin shown /\ Passed(r)'
      BY DEF LeftOut
    <3>2. r \in Pagination!Range(order)
      BY <3>1, <1>1 DEF Pagination!TypeOK
    <3>3. Passed(r)
      <4>1. CASE cursor = None
        BY <3>1, <4>1 DEF Passed
      <4>2. CASE cursor # None
        BY <3>1, <3>2, <4>2, <1>3 DEF Passed
      <4> QED
        BY <4>1, <4>2
    <3> QED
      BY <3>1, <3>3 DEF LeftOut
  <2>4. LeftOut \subseteq Rows
    BY <1>1, OrderFact DEF LeftOut, Pagination!TypeOK
  <2>5. /\ Cardinality(LeftOut') <= Cardinality(LeftOut)
        /\ Cardinality(LeftOut') \in Nat /\ Cardinality(LeftOut) \in Nat
    BY <2>3, <2>4, RowsFinite, FS_Subset, FS_CardinalityType
  <2>6. slips \in Nat
    BY <1>1 DEF Pagination!TypeOK
  <2>7. Cardinality(LeftOut') <= slips'
    BY <2>1, <2>5, <2>6
  <2>8. twice' \subseteq moved'
    BY <2>1
  <2> QED
    BY <2>2, <2>7, <2>8
<1>4. cursor' = None /\ more' => shown' = {}
  BY <1>1
<1> QED
  BY <1>2, <1>3, <1>4 DEF WalkInv

\* A row is created.
LEMMA WalkCreate ==
  ASSUME Pagination!PaginationAssumption, WalkInv, Pagination!Create PROVE WalkInv'
<1>1. PICK entry \in Rows \ Pagination!Range(order),
           place \in Pagination!Places(list.enters, Len(order)), matches \in BOOLEAN :
        /\ order' = Pagination!InsertAt(order, place, entry)
        /\ matching' = IF matches THEN matching \cup {entry} ELSE matching
  BY DEF Pagination!Create
<1>2. UNCHANGED <<list, cursor, more, shown, twice, steady, moved, slips, jumped, moves>>
  BY DEF Pagination!Create, Pagination!answer, Pagination!ghosts
<1>3. /\ Pagination!TypeOK /\ list \in Pagination!Lists
      /\ order \in Seq(Rows) /\ Len(order) \in Nat
      /\ \A i, j \in 1..Len(order) : order[i] = order[j] => i = j
      /\ Pagination!Range(order) = {order[i] : i \in 1..Len(order)}
      /\ cursor # None => cursor \in Pagination!Range(order)
  BY OrderFact DEF WalkInv, Pagination!TypeOK
<1>4. place \in 1..(Len(order) + 1)
  BY <1>3, ListsFact, PlacesFact
<1>5. \A i \in 1..Len(order) : order[i] # entry
  BY <1>3
<1>6. /\ order' \in Seq(Rows)
      /\ \A i, j \in 1..Len(order') : order'[i] = order'[j] => i = j
      /\ {order'[i] : i \in 1..Len(order')} = {order[i] : i \in 1..Len(order)} \cup {entry}
      /\ \A a, b : a # entry /\ b # entry => (AtOrBefore(order', a, b) <=> AtOrBefore(order, a, b))
  <2> DEFINE t == Pagination!InsertAt(order, place, entry)
  <2>1. /\ t \in Seq(Rows)
        /\ \A i, j \in 1..Len(t) : t[i] = t[j] => i = j
        /\ {t[i] : i \in 1..Len(t)} = {order[i] : i \in 1..Len(order)} \cup {entry}
        /\ \A a, b : a # entry /\ b # entry => (AtOrBefore(t, a, b) <=> AtOrBefore(order, a, b))
    BY <1>3, <1>4, <1>5, InsertKeepsOrder
  <2>2. order' = t
    BY <1>1
  <2> HIDE DEF t
  <2> QED
    BY <2>1, <2>2
<1>7. Pagination!Range(order') = Pagination!Range(order) \cup {entry}
  <2>1. Pagination!Range(order') = {order'[i] : i \in 1..Len(order')}
    BY <1>6 DEF Pagination!Range
  <2> QED
    BY <2>1, <1>3, <1>6
<1>8. Pagination!TypeOK'
  <2>1. Pagination!IsInjective(order')
    BY <1>6 DEF Pagination!IsInjective
  <2>2. matching' \subseteq Pagination!Range(order') /\ steady' \subseteq matching'
    BY <1>1, <1>2, <1>3, <1>7 DEF Pagination!TypeOK
  <2>3. moved' \subseteq Pagination!Range(order')
    BY <1>2, <1>3, <1>7 DEF Pagination!TypeOK
  <2>4. /\ list' \in Pagination!Lists /\ cursor' \in Rows \cup {None} /\ more' \in BOOLEAN
        /\ twice' \subseteq shown' /\ shown' \subseteq Rows
        /\ slips' \in Nat /\ jumped' \in BOOLEAN /\ moves' \in 0..MaxMoves
    BY <1>2, <1>3 DEF Pagination!TypeOK
  <2> QED
    BY <1>6, <2>1, <2>2, <2>3, <2>4 DEF Pagination!TypeOK
<1>9. cursor # None => \A r \in Pagination!Range(order) :
        AtOrBefore(order', r, cursor) <=> AtOrBefore(order, r, cursor)
  BY <1>3, <1>6
<1> QED
  BY <1>2, <1>7, <1>8, <1>9, WalkStands

\* A row moves in the order of a list.
LEMMA WalkMove ==
  ASSUME Pagination!PaginationAssumption, WalkInv, Pagination!Move PROVE WalkInv'
<1>3. /\ Pagination!TypeOK /\ list \in Pagination!Lists
      /\ order \in Seq(Rows) /\ Len(order) \in Nat /\ DOMAIN order = 1..Len(order)
      /\ \A i, j \in 1..Len(order) : order[i] = order[j] => i = j
      /\ Pagination!Range(order) = {order[i] : i \in 1..Len(order)}
      /\ cursor # None => cursor \in Pagination!Range(order)
  BY OrderFact DEF WalkInv, Pagination!TypeOK
<1>1. PICK from \in 1..Len(order) :
        \E place \in Pagination!Places(list.moves, Len(Pagination!RemoveAt(order, from))) :
          /\ order' = Pagination!InsertAt(Pagination!RemoveAt(order, from), place, order[from])
          /\ steady' = steady \ {order[from]}
          /\ moved' = moved \cup {order[from]}
          /\ jumped' = (jumped \/ order[from] = cursor)
  BY <1>3 DEF Pagination!Move
<1> DEFINE entry == order[from]
           rest == Pagination!RemoveAt(order, from)
<1>2. /\ UNCHANGED <<list, matching, cursor, more, shown, twice, slips>>
      /\ moves < MaxMoves /\ moves' = moves + 1
  BY DEF Pagination!Move, Pagination!answer
<1>4. /\ rest \in Seq(Rows)
      /\ \A i, j \in 1..Len(rest) : rest[i] = rest[j] => i = j
      /\ \A i \in 1..Len(rest) : rest[i] # entry
      /\ {rest[i] : i \in 1..Len(rest)} = {order[i] : i \in 1..Len(order)} \ {entry}
      /\ \A a, b : a # entry /\ b # entry => (AtOrBefore(rest, a, b) <=> AtOrBefore(order, a, b))
  BY <1>3, RemoveKeepsOrder
<1>5. entry \in Rows /\ entry \in Pagination!Range(order)
  BY <1>3
<1> HIDE DEF rest, entry
<1>6. PICK place \in Pagination!Places(list.moves, Len(rest)) :
        order' = Pagination!InsertAt(rest, place, entry)
  BY <1>1 DEF rest, entry
<1>7. place \in 1..(Len(rest) + 1) /\ Len(rest) \in Nat
  BY <1>3, <1>4, ListsFact, PlacesFact
<1>8. /\ order' \in Seq(Rows)
      /\ \A i, j \in 1..Len(order') : order'[i] = order'[j] => i = j
      /\ {order'[i] : i \in 1..Len(order')} = {rest[i] : i \in 1..Len(rest)} \cup {entry}
      /\ \A a, b : a # entry /\ b # entry => (AtOrBefore(order', a, b) <=> AtOrBefore(rest, a, b))
  <2> DEFINE t == Pagination!InsertAt(rest, place, entry)
  <2>1. /\ t \in Seq(Rows)
        /\ \A i, j \in 1..Len(t) : t[i] = t[j] => i = j
        /\ {t[i] : i \in 1..Len(t)} = {rest[i] : i \in 1..Len(rest)} \cup {entry}
        /\ \A a, b : a # entry /\ b # entry => (AtOrBefore(t, a, b) <=> AtOrBefore(rest, a, b))
    BY <1>4, <1>5, <1>7, InsertKeepsOrder
  <2>2. order' = t
    BY <1>6
  <2> HIDE DEF t
  <2> QED
    BY <2>1, <2>2
<1>9. Pagination!Range(order') = Pagination!Range(order)
  <2>1. Pagination!Range(order') = {order'[i] : i \in 1..Len(order')}
    BY <1>8 DEF Pagination!Range
  <2> DEFINE before == {order[i] : i \in 1..Len(order)}
             between == {rest[i] : i \in 1..Len(rest)}
             after == {order'[i] : i \in 1..Len(order')}
  <2>2. between = before \ {entry} /\ after = between \cup {entry} /\ entry \in before
    BY <1>3, <1>4, <1>5, <1>8
  <2>3. Pagination!Range(order') = after /\ Pagination!Range(order) = before
    BY <2>1, <1>3
  <2> HIDE DEF before, between, after
  <2> QED
    BY <2>2, <2>3
<1>10. /\ steady' = steady \ {entry} /\ moved' = moved \cup {entry}
       /\ jumped' = (jumped \/ entry = cursor)
  BY <1>1 DEF entry
<1>11. Pagination!TypeOK'
  <2>1. Pagination!IsInjective(order')
    BY <1>8 DEF Pagination!IsInjective
  <2>2. matching' \subseteq Pagination!Range(order') /\ steady' \subseteq matching'
    BY <1>2, <1>3, <1>9, <1>10 DEF Pagination!TypeOK
  <2>3. moved' \subseteq Pagination!Range(order')
    BY <1>3, <1>5, <1>9, <1>10 DEF Pagination!TypeOK
  <2>4. /\ list' \in Pagination!Lists /\ cursor' \in Rows \cup {None} /\ more' \in BOOLEAN
        /\ twice' \subseteq shown' /\ shown' \subseteq Rows
        /\ slips' \in Nat
    BY <1>2, <1>3 DEF Pagination!TypeOK
  <2>5. moves' \in 0..MaxMoves
    BY <1>2, <1>3 DEF Pagination!TypeOK, Pagination!PaginationAssumption
  <2>6. jumped' \in BOOLEAN
    BY <1>10
  <2> QED
    BY <1>8, <2>1, <2>2, <2>3, <2>4, <2>5, <2>6 DEF Pagination!TypeOK
<1>12. ASSUME cursor # None, ~jumped', NEW r \in Pagination!Range(order),
              r \notin moved' \/ r \in steady'
       PROVE  AtOrBefore(order', r, cursor) <=> AtOrBefore(order, r, cursor)
  <2>1. entry # cursor /\ r # entry
    BY <1>10, <1>12
  <2> QED
    BY <2>1, <1>4, <1>8
<1>13. (~jumped' => ~jumped) /\ steady' \subseteq steady /\ moved \subseteq moved'
  BY <1>10
<1> QED
  BY <1>2, <1>9, <1>11, <1>12, <1>13, WalkStands

\* A row leaves the filter of a list, or enters it.
LEMMA WalkFilter ==
  ASSUME Pagination!PaginationAssumption, WalkInv, Pagination!Leave \/ Pagination!Enter
  PROVE  WalkInv'
<1>1. /\ UNCHANGED <<list, order, cursor, more, shown, twice, moved, slips, jumped, moves>>
      /\ steady' \subseteq steady /\ steady' \subseteq matching'
      /\ matching' \subseteq Pagination!Range(order)
  <2>1. CASE Pagination!Leave
    BY <2>1 DEF Pagination!Leave, Pagination!answer, WalkInv, Pagination!TypeOK
  <2>2. CASE Pagination!Enter
    BY <2>2 DEF Pagination!Enter, Pagination!answer, Pagination!ghosts, WalkInv, Pagination!TypeOK
  <2> QED
    BY <2>1, <2>2
<1>2. Pagination!TypeOK'
  <2>1. Pagination!TypeOK
    BY DEF WalkInv
  <2>2. /\ list' \in Pagination!Lists /\ order' \in Seq(Rows) /\ Pagination!IsInjective(order')
        /\ cursor' \in Rows \cup {None} /\ more' \in BOOLEAN
        /\ twice' \subseteq shown' /\ shown' \subseteq Rows
        /\ moved' \subseteq Pagination!Range(order')
        /\ slips' \in Nat /\ jumped' \in BOOLEAN /\ moves' \in 0..MaxMoves
    BY <1>1, <2>1 DEF Pagination!TypeOK
  <2> QED
    BY <1>1, <2>2 DEF Pagination!TypeOK
<1> QED
  BY <1>1, <1>2, WalkStands

\* Every walk keeps the invariant.
LEMMA WalkInvariant ==
  Pagination!PaginationAssumption => (Pagination!Spec => []WalkInv)
<1> SUFFICES ASSUME Pagination!PaginationAssumption PROVE Pagination!Spec => []WalkInv
  OBVIOUS
<1>1. Pagination!Init => WalkInv
  BY WalkBegins
<1>2. WalkInv /\ [Pagination!Next]_(Pagination!vars) => WalkInv'
  <2> SUFFICES ASSUME WalkInv, [Pagination!Next]_(Pagination!vars) PROVE WalkInv'
    OBVIOUS
  <2>1. CASE Pagination!NextPage
    BY <2>1, WalkNextPage
  <2>2. CASE Pagination!Reopen
    BY <2>2, WalkReopen
  <2>3. CASE Pagination!Create
    BY <2>3, WalkCreate
  <2>4. CASE Pagination!Move
    BY <2>4, WalkMove
  <2>5. CASE Pagination!Leave \/ Pagination!Enter
    BY <2>5, WalkFilter
  <2>6. CASE UNCHANGED Pagination!vars
    <3>1. UNCHANGED <<list, order, matching, cursor, more, shown, twice, steady, moved,
                      slips, jumped, moves>>
      BY <2>6 DEF Pagination!vars, Pagination!table, Pagination!answer, Pagination!ghosts
    <3>2. Pagination!TypeOK'
      BY <3>1 DEF WalkInv, Pagination!TypeOK
    <3> QED
      BY <3>1, <3>2, WalkStands
  <2> QED
    BY <2>1, <2>2, <2>3, <2>4, <2>5, <2>6 DEF Pagination!Next
<1> QED
  BY <1>1, <1>2, PTL DEF Pagination!Spec

\* The invariant says what a walk misses and repeats.
LEMMA WalkMissesAndRepeats == ASSUME WalkInv PROVE RowsOnceButForMoves
<1>1. Pagination!RepeatedOnlyAfterMove
  BY DEF WalkInv, Pagination!RepeatedOnlyAfterMove
<1>2. ASSUME ~list.near, ~more, ~jumped PROVE Cardinality(Pagination!Missed) <= slips
  <2>1. cursor = None
    BY <1>2 DEF WalkInv
  <2>2. Pagination!Missed = LeftOut
    BY <2>1, <1>2 DEF Pagination!Missed, LeftOut, Passed
  <2> QED
    BY <2>2, <1>2 DEF WalkInv
<1> QED
  BY <1>1, <1>2, CountsAlike DEF RowsOnceButForMoves, Pagination!MissedOnlyByDepartures

-----------------------------------------------------------------------------
(* Backend                                                                 *)

\* A component takes its own steps only, and only when it is the one that runs; the
\* instance that stands in for it otherwise takes none.
LEMMA OwnSteps ==
  ASSUME [Next]_vars
  PROVE  /\ part' = part
         /\ part # "codes" => [Auth!Next]_(Auth!vars)
         /\ part = "codes" => [OneTimeCodes!Next]_(OneTimeCodes!vars)
         /\ part # "one by one" => [Providers!Next]_(Providers!vars)
         /\ part = "one by one" => [OneByOne!Next]_(OneByOne!vars)
         /\ part # "every table" => [Catalogue!Next]_(Catalogue!vars)
         /\ part = "every table" => [EveryTable!Next]_(EveryTable!vars)
         /\ part \notin {"emergency", "messages"} => [Staff!Next]_(Staff!vars)
         /\ part = "emergency" => [Emergency!Next]_(Emergency!vars)
         /\ part = "messages" => [Messages!Next]_(Messages!vars)
         /\ [Rated!Next]_(Rated!vars)
         /\ [Pagination!Next]_(Pagination!vars)
         /\ [Idem!Next]_(Idem!vars)
         /\ [Queue!Next]_(Queue!vars)
         /\ [Cents!Next]_(Cents!vars)
         /\ [RateLimiter!Next]_(RateLimiter!vars)
BY DEF Next, Settled, vars, authVars, providerVars, catalogueVars, threadVars, reviewVars,
       listVars, idempotencyVars, limiterVars, notificationVars, moneyVars,
       Auth!vars, OneTimeCodes!vars, Providers!vars, OneByOne!vars, Catalogue!vars,
       EveryTable!vars, Staff!vars, Emergency!vars, Messages!vars, Rated!vars,
       Pagination!vars, Pagination!table, Pagination!answer, Pagination!ghosts,
       Idem!vars, Queue!vars, Cents!vars, RateLimiter!vars

(***************************************************************************)
(* What the modules of proofs say of the instances.  The instances of a    *)
(* component and of the proofs about it have the same values, so that      *)
(* their definitions, expanded, are the same.                              *)
(***************************************************************************)
AuthFacts == INSTANCE AuthSessionsProofs WITH
  Users <- Accounts, Requests <- FewRequests, DirectSuspension <- TRUE, call <- authCall

CodesFacts == INSTANCE AuthSessionsProofs WITH
  Users <- Accounts, Requests <- OneRequest, Sessions <- ResetSessions, Codes <- ResetCodes,
  DirectSuspension <- FALSE, call <- authCall

ProvidersFacts == INSTANCE ProvidersProofs WITH
  Admins <- ProviderAdmins, Seeded <- {}, call <- providerCall

OneByOneFacts == INSTANCE ProvidersProofs WITH
  Owners <- OwnersInTurn, Admins <- AdminsInTurn, Requests <- OneRequest,
  OtherTypes <- OtherTypesInTurn, DemoUser <- DemoUserInTurn, Seeded <- SeededInTurn,
  call <- providerCall

StaffFacts == INSTANCE ConversationsProofs WITH
  NoOne <- None, Requests <- FewRequests, Handlers <- {"create", "claim", "release", "reassign"},
  MaxMessages <- FewMessages, QueueFails <- FALSE, Crashes <- FALSE, call <- threadCall

EmergencyFacts == INSTANCE ConversationsProofs WITH
  Admins <- EmergencyAdmins, NoOne <- None, Requests <- FewRequests,
  Handlers <- {"create", "claim", "release", "reassign", "flag", "resolve"},
  MaxMessages <- FewMessages, QueueFails <- TRUE, Crashes <- FALSE, call <- threadCall

MessagesFacts == INSTANCE ConversationsProofs WITH
  Concierges <- ChatConcierges, Admins <- ChatAdmins, NoOne <- None, Requests <- FewRequests,
  Handlers <- {"create", "claim", "join", "send", "read"},
  QueueFails <- FALSE, Crashes <- TRUE, call <- threadCall

LEMMA AuthAlike == Auth!Spec => AuthFacts!Spec
<1>1. Auth!Init => AuthFacts!Init
  BY ZenonT(40) DEF
    Auth!Init, AuthFacts!Init, Auth!NoRow, AuthFacts!NoRow, Auth!Idle, AuthFacts!Idle
<1>2. [Auth!Next]_(Auth!vars) => [AuthFacts!Next]_(AuthFacts!vars)
  BY ZenonT(40) DEF
    Auth!Next, AuthFacts!Next, Auth!Start, AuthFacts!Start, Auth!Register,
    AuthFacts!Register, Auth!Enter, AuthFacts!Enter, Auth!Idle, AuthFacts!Idle, Auth!Login,
    AuthFacts!Login, Auth!Logout, AuthFacts!Logout, Auth!Authenticated,
    AuthFacts!Authenticated, Auth!SessionRows, AuthFacts!SessionRows, Auth!NoRow,
    AuthFacts!NoRow, Auth!ForgotPassword, AuthFacts!ForgotPassword, Auth!Invalidate,
    AuthFacts!Invalidate, Auth!Unconsumed, AuthFacts!Unconsumed, Auth!CodeRows,
    AuthFacts!CodeRows, Auth!SendEmailVerification, AuthFacts!SendEmailVerification,
    Auth!ResetPassword, AuthFacts!ResetPassword, Auth!Redeem, AuthFacts!Redeem,
    Auth!FindValidVerificationCode, AuthFacts!FindValidVerificationCode,
    Auth!ConfirmEmailVerification, AuthFacts!ConfirmEmailVerification, Auth!Refresh,
    AuthFacts!Refresh, Auth!Live, AuthFacts!Live, Auth!Finish, AuthFacts!Finish,
    Auth!CommitRegister, AuthFacts!CommitRegister, Auth!NewSession, AuthFacts!NewSession,
    Auth!NewCode, AuthFacts!NewCode, Auth!Leave, AuthFacts!Leave, Auth!CommitLogin,
    AuthFacts!CommitLogin, Auth!Grant, AuthFacts!Grant, Auth!CommitRefresh,
    AuthFacts!CommitRefresh, Auth!Revoke, AuthFacts!Revoke, Auth!RevokeAllUserSessions,
    AuthFacts!RevokeAllUserSessions, Auth!SessionsOf, AuthFacts!SessionsOf,
    Auth!CommitLogout, AuthFacts!CommitLogout, Auth!CommitCode, AuthFacts!CommitCode,
    Auth!CommitReset, AuthFacts!CommitReset, Auth!Consume, AuthFacts!Consume,
    Auth!CommitVerification, AuthFacts!CommitVerification, Auth!Fail, AuthFacts!Fail,
    Auth!Administration, AuthFacts!Administration, Auth!AdminCreateUser,
    AuthFacts!AdminCreateUser, Auth!AdminSuspendUser, AuthFacts!AdminSuspendUser,
    Auth!SuspendUser, AuthFacts!SuspendUser, Auth!ReactivateUser, AuthFacts!ReactivateUser,
    Auth!Time, AuthFacts!Time, Auth!SessionExpires, AuthFacts!SessionExpires,
    Auth!AccessExpires, AuthFacts!AccessExpires, Auth!CodeExpires, AuthFacts!CodeExpires,
    Auth!Maintenance, AuthFacts!Maintenance, Auth!DeleteExpiredSessions,
    AuthFacts!DeleteExpiredSessions, Auth!DeleteExpiredVerifications,
    AuthFacts!DeleteExpiredVerifications, Auth!vars, AuthFacts!vars
<1> QED
  BY <1>1, <1>2, PTL DEF Auth!Spec, AuthFacts!Spec

LEMMA CodesAlike == OneTimeCodes!Spec => CodesFacts!Spec
<1>1. OneTimeCodes!Init => CodesFacts!Init
  BY DEF
    OneTimeCodes!Init, CodesFacts!Init, OneTimeCodes!NoRow, CodesFacts!NoRow,
    OneTimeCodes!Idle, CodesFacts!Idle
<1>2. [OneTimeCodes!Next]_(OneTimeCodes!vars) => [CodesFacts!Next]_(CodesFacts!vars)
  BY DEF
    OneTimeCodes!Next, CodesFacts!Next, OneTimeCodes!Start, CodesFacts!Start,
    OneTimeCodes!Register, CodesFacts!Register, OneTimeCodes!Enter, CodesFacts!Enter,
    OneTimeCodes!Idle, CodesFacts!Idle, OneTimeCodes!Login, CodesFacts!Login,
    OneTimeCodes!Logout, CodesFacts!Logout, OneTimeCodes!Authenticated,
    CodesFacts!Authenticated, OneTimeCodes!SessionRows, CodesFacts!SessionRows,
    OneTimeCodes!NoRow, CodesFacts!NoRow, OneTimeCodes!ForgotPassword,
    CodesFacts!ForgotPassword, OneTimeCodes!Invalidate, CodesFacts!Invalidate,
    OneTimeCodes!Unconsumed, CodesFacts!Unconsumed, OneTimeCodes!CodeRows,
    CodesFacts!CodeRows, OneTimeCodes!SendEmailVerification,
    CodesFacts!SendEmailVerification, OneTimeCodes!ResetPassword, CodesFacts!ResetPassword,
    OneTimeCodes!Redeem, CodesFacts!Redeem, OneTimeCodes!FindValidVerificationCode,
    CodesFacts!FindValidVerificationCode, OneTimeCodes!ConfirmEmailVerification,
    CodesFacts!ConfirmEmailVerification, OneTimeCodes!Refresh, CodesFacts!Refresh,
    OneTimeCodes!Live, CodesFacts!Live, OneTimeCodes!Finish, CodesFacts!Finish,
    OneTimeCodes!CommitRegister, CodesFacts!CommitRegister, OneTimeCodes!NewSession,
    CodesFacts!NewSession, OneTimeCodes!NewCode, CodesFacts!NewCode, OneTimeCodes!Leave,
    CodesFacts!Leave, OneTimeCodes!CommitLogin, CodesFacts!CommitLogin, OneTimeCodes!Grant,
    CodesFacts!Grant, OneTimeCodes!CommitRefresh, CodesFacts!CommitRefresh,
    OneTimeCodes!Revoke, CodesFacts!Revoke, OneTimeCodes!RevokeAllUserSessions,
    CodesFacts!RevokeAllUserSessions, OneTimeCodes!SessionsOf, CodesFacts!SessionsOf,
    OneTimeCodes!CommitLogout, CodesFacts!CommitLogout, OneTimeCodes!CommitCode,
    CodesFacts!CommitCode, OneTimeCodes!CommitReset, CodesFacts!CommitReset,
    OneTimeCodes!Consume, CodesFacts!Consume, OneTimeCodes!CommitVerification,
    CodesFacts!CommitVerification, OneTimeCodes!Fail, CodesFacts!Fail,
    OneTimeCodes!Administration, CodesFacts!Administration, OneTimeCodes!AdminCreateUser,
    CodesFacts!AdminCreateUser, OneTimeCodes!AdminSuspendUser, CodesFacts!AdminSuspendUser,
    OneTimeCodes!SuspendUser, CodesFacts!SuspendUser, OneTimeCodes!ReactivateUser,
    CodesFacts!ReactivateUser, OneTimeCodes!Time, CodesFacts!Time,
    OneTimeCodes!SessionExpires, CodesFacts!SessionExpires, OneTimeCodes!AccessExpires,
    CodesFacts!AccessExpires, OneTimeCodes!CodeExpires, CodesFacts!CodeExpires,
    OneTimeCodes!Maintenance, CodesFacts!Maintenance, OneTimeCodes!DeleteExpiredSessions,
    CodesFacts!DeleteExpiredSessions, OneTimeCodes!DeleteExpiredVerifications,
    CodesFacts!DeleteExpiredVerifications, OneTimeCodes!vars, CodesFacts!vars
<1> QED
  BY <1>1, <1>2, PTL DEF OneTimeCodes!Spec, CodesFacts!Spec

LEMMA ProvidersAlike == Providers!Spec => ProvidersFacts!Spec
<1>1. Providers!Init => ProvidersFacts!Init
  BY SMTT(30) DEF
    Providers!Init, ProvidersFacts!Init, Providers!SeededProvider,
    ProvidersFacts!SeededProvider, Providers!NoProvider, ProvidersFacts!NoProvider,
    Providers!Idle, ProvidersFacts!Idle
<1>2. [Providers!Next]_(Providers!vars) => [ProvidersFacts!Next]_(ProvidersFacts!vars)
  BY ZenonT(40) DEF
    Providers!Next, ProvidersFacts!Next, Providers!CreateProvider,
    ProvidersFacts!CreateProvider, Providers!Enter, ProvidersFacts!Enter, Providers!Idle,
    ProvidersFacts!Idle, Providers!Submit, ProvidersFacts!Submit,
    Providers!MeetsPreconditions, ProvidersFacts!MeetsPreconditions, Providers!Load,
    ProvidersFacts!Load, Providers!AdminHandler, ProvidersFacts!AdminHandler,
    Providers!ReviewProvider, ProvidersFacts!ReviewProvider, Providers!Moderate,
    ProvidersFacts!Moderate, Providers!Stays, ProvidersFacts!Stays,
    Providers!ApproveProvider, ProvidersFacts!ApproveProvider, Providers!RequestChanges,
    ProvidersFacts!RequestChanges, Providers!RejectProvider, ProvidersFacts!RejectProvider,
    Providers!SuspendProvider, ProvidersFacts!SuspendProvider, Providers!ReinstateProvider,
    ProvidersFacts!ReinstateProvider, Providers!SeedDemoData, ProvidersFacts!SeedDemoData,
    Providers!Finish, ProvidersFacts!Finish, Providers!CommitCreate,
    ProvidersFacts!CommitCreate, Providers!Leave, ProvidersFacts!Leave,
    Providers!CommitSubmit, ProvidersFacts!CommitSubmit, Providers!Moving,
    ProvidersFacts!Moving, Providers!Update, ProvidersFacts!Update, Providers!Row,
    ProvidersFacts!Row, Providers!CommitReview, ProvidersFacts!CommitReview,
    Providers!UpdateStatus, ProvidersFacts!UpdateStatus, Providers!CommitSuspend,
    ProvidersFacts!CommitSuspend, Providers!CommitReinstate, ProvidersFacts!CommitReinstate,
    Providers!CommitApprove, ProvidersFacts!CommitApprove, Providers!CommitChanges,
    ProvidersFacts!CommitChanges, Providers!CommitReject, ProvidersFacts!CommitReject,
    Providers!Seed, ProvidersFacts!Seed, Providers!FindPublic, ProvidersFacts!FindPublic,
    Providers!Public, ProvidersFacts!Public, Providers!Goto, ProvidersFacts!Goto,
    Providers!DemoUserFound, ProvidersFacts!DemoUserFound, Providers!DemoProviderFound,
    ProvidersFacts!DemoProviderFound, Providers!CreateDemoProvider,
    ProvidersFacts!CreateDemoProvider, Providers!NoProvider, ProvidersFacts!NoProvider,
    Providers!CreateDemoServices, ProvidersFacts!CreateDemoServices, Providers!Fail,
    ProvidersFacts!Fail, Providers!Owner, ProvidersFacts!Owner, Providers!Register,
    ProvidersFacts!Register, Providers!UpdateOwnProvider, ProvidersFacts!UpdateOwnProvider,
    Providers!ChangeServices, ProvidersFacts!ChangeServices, Providers!UploadDocument,
    ProvidersFacts!UploadDocument, Providers!DeleteDocument, ProvidersFacts!DeleteDocument,
    Providers!Machine!CanTransition, ProvidersFacts!Machine!CanTransition,
    Providers!Machine!AllowedTransitions, ProvidersFacts!Machine!AllowedTransitions,
    Providers!vars, ProvidersFacts!vars
<1> QED
  BY <1>1, <1>2, PTL DEF Providers!Spec, ProvidersFacts!Spec

LEMMA OneByOneAlike == OneByOne!Spec => OneByOneFacts!Spec
<1>1. OneByOne!Init => OneByOneFacts!Init
  BY DEF
    OneByOne!Init, OneByOneFacts!Init, OneByOne!SeededProvider,
    OneByOneFacts!SeededProvider, OneByOne!NoProvider, OneByOneFacts!NoProvider,
    OneByOne!Idle, OneByOneFacts!Idle
<1>2. [OneByOne!Next]_(OneByOne!vars) => [OneByOneFacts!Next]_(OneByOneFacts!vars)
  BY ZenonT(40) DEF
    OneByOne!Next, OneByOneFacts!Next, OneByOne!CreateProvider,
    OneByOneFacts!CreateProvider, OneByOne!Enter, OneByOneFacts!Enter, OneByOne!Idle,
    OneByOneFacts!Idle, OneByOne!Submit, OneByOneFacts!Submit, OneByOne!MeetsPreconditions,
    OneByOneFacts!MeetsPreconditions, OneByOne!Load, OneByOneFacts!Load,
    OneByOne!AdminHandler, OneByOneFacts!AdminHandler, OneByOne!ReviewProvider,
    OneByOneFacts!ReviewProvider, OneByOne!Moderate, OneByOneFacts!Moderate, OneByOne!Stays,
    OneByOneFacts!Stays, OneByOne!ApproveProvider, OneByOneFacts!ApproveProvider,
    OneByOne!RequestChanges, OneByOneFacts!RequestChanges, OneByOne!RejectProvider,
    OneByOneFacts!RejectProvider, OneByOne!SuspendProvider, OneByOneFacts!SuspendProvider,
    OneByOne!ReinstateProvider, OneByOneFacts!ReinstateProvider, OneByOne!SeedDemoData,
    OneByOneFacts!SeedDemoData, OneByOne!Finish, OneByOneFacts!Finish,
    OneByOne!CommitCreate, OneByOneFacts!CommitCreate, OneByOne!Leave, OneByOneFacts!Leave,
    OneByOne!CommitSubmit, OneByOneFacts!CommitSubmit, OneByOne!Moving,
    OneByOneFacts!Moving, OneByOne!Update, OneByOneFacts!Update, OneByOne!Row,
    OneByOneFacts!Row, OneByOne!CommitReview, OneByOneFacts!CommitReview,
    OneByOne!UpdateStatus, OneByOneFacts!UpdateStatus, OneByOne!CommitSuspend,
    OneByOneFacts!CommitSuspend, OneByOne!CommitReinstate, OneByOneFacts!CommitReinstate,
    OneByOne!CommitApprove, OneByOneFacts!CommitApprove, OneByOne!CommitChanges,
    OneByOneFacts!CommitChanges, OneByOne!CommitReject, OneByOneFacts!CommitReject,
    OneByOne!Seed, OneByOneFacts!Seed, OneByOne!FindPublic, OneByOneFacts!FindPublic,
    OneByOne!Public, OneByOneFacts!Public, OneByOne!Goto, OneByOneFacts!Goto,
    OneByOne!DemoUserFound, OneByOneFacts!DemoUserFound, OneByOne!DemoProviderFound,
    OneByOneFacts!DemoProviderFound, OneByOne!CreateDemoProvider,
    OneByOneFacts!CreateDemoProvider, OneByOne!NoProvider, OneByOneFacts!NoProvider,
    OneByOne!CreateDemoServices, OneByOneFacts!CreateDemoServices, OneByOne!Fail,
    OneByOneFacts!Fail, OneByOne!Owner, OneByOneFacts!Owner, OneByOne!Register,
    OneByOneFacts!Register, OneByOne!UpdateOwnProvider, OneByOneFacts!UpdateOwnProvider,
    OneByOne!ChangeServices, OneByOneFacts!ChangeServices, OneByOne!UploadDocument,
    OneByOneFacts!UploadDocument, OneByOne!DeleteDocument, OneByOneFacts!DeleteDocument,
    OneByOne!Machine!CanTransition, OneByOneFacts!Machine!CanTransition,
    OneByOne!Machine!AllowedTransitions, OneByOneFacts!Machine!AllowedTransitions,
    OneByOne!vars, OneByOneFacts!vars
<1> QED
  BY <1>1, <1>2, PTL DEF OneByOne!Spec, OneByOneFacts!Spec

LEMMA StaffAlike == Staff!Spec => StaffFacts!Spec
<1>1. Staff!Init => StaffFacts!Init
  BY SMTT(30) DEF
    Staff!Init, StaffFacts!Init, Staff!Absent, StaffFacts!Absent, Staff!Users,
    StaffFacts!Users, Staff!Staff, StaffFacts!Staff, Staff!Idle, StaffFacts!Idle
<1>2. [Staff!Next]_(Staff!vars) => [StaffFacts!Next]_(StaffFacts!vars)
  BY ZenonT(40) DEF
    Staff!Next, StaffFacts!Next, Staff!Serve, StaffFacts!Serve, Staff!EnterRoom,
    StaffFacts!EnterRoom, Staff!Goto, StaffFacts!Goto, Staff!Idle, StaffFacts!Idle,
    Staff!FindNone, StaffFacts!FindNone, Staff!Ready, StaffFacts!Ready, Staff!Active,
    StaffFacts!Active, Staff!AppendToExisting, StaffFacts!AppendToExisting, Staff!Appended,
    StaffFacts!Appended, Staff!CreateConversation, StaffFacts!CreateConversation,
    Staff!Staff, StaffFacts!Staff, Staff!After, StaffFacts!After, Staff!Users,
    StaffFacts!Users, Staff!AuthorizeJoin, StaffFacts!AuthorizeJoin, Staff!MayJoin,
    StaffFacts!MayJoin, Staff!SendMessage, StaffFacts!SendMessage, Staff!MayPost,
    StaffFacts!MayPost, Staff!Claim, StaffFacts!Claim, Staff!ClaimRow, StaffFacts!ClaimRow,
    Staff!Assign, StaffFacts!Assign, Staff!Release, StaffFacts!Release, Staff!ReleaseRow,
    StaffFacts!ReleaseRow, Staff!FlagEmergency, StaffFacts!FlagEmergency,
    Staff!ResolveEmergency, StaffFacts!ResolveEmergency, Staff!AdminReassign,
    StaffFacts!AdminReassign, Staff!FollowUp, StaffFacts!FollowUp, Staff!QueuePage,
    StaffFacts!QueuePage, Staff!Doing, StaffFacts!Doing, Staff!Done, StaffFacts!Done,
    Staff!PageRefused, StaffFacts!PageRefused, Staff!TellRoom, StaffFacts!TellRoom,
    Staff!TellUpdate, StaffFacts!TellUpdate, Staff!TellQueue, StaffFacts!TellQueue,
    Staff!TellEmergency, StaffFacts!TellEmergency, Staff!FanOut, StaffFacts!FanOut,
    Staff!Acknowledge, StaffFacts!Acknowledge, Staff!Connect, StaffFacts!Connect,
    Staff!Disconnect, StaffFacts!Disconnect, Staff!Forgotten, StaffFacts!Forgotten,
    Staff!MarkRead, StaffFacts!MarkRead, Staff!ReadBy, StaffFacts!ReadBy, Staff!Restart,
    StaffFacts!Restart, Staff!vars, StaffFacts!vars
<1> QED
  BY <1>1, <1>2, PTL DEF Staff!Spec, StaffFacts!Spec

LEMMA EmergencyAlike == Emergency!Spec => EmergencyFacts!Spec
<1>1. Emergency!Init => EmergencyFacts!Init
  BY DEF
    Emergency!Init, EmergencyFacts!Init, Emergency!Absent, EmergencyFacts!Absent,
    Emergency!Users, EmergencyFacts!Users, Emergency!Staff, EmergencyFacts!Staff,
    Emergency!Idle, EmergencyFacts!Idle
<1>2. [Emergency!Next]_(Emergency!vars) => [EmergencyFacts!Next]_(EmergencyFacts!vars)
  BY ZenonT(40) DEF
    Emergency!Next, EmergencyFacts!Next, Emergency!Serve, EmergencyFacts!Serve,
    Emergency!EnterRoom, EmergencyFacts!EnterRoom, Emergency!Goto, EmergencyFacts!Goto,
    Emergency!Idle, EmergencyFacts!Idle, Emergency!FindNone, EmergencyFacts!FindNone,
    Emergency!Ready, EmergencyFacts!Ready, Emergency!Active, EmergencyFacts!Active,
    Emergency!AppendToExisting, EmergencyFacts!AppendToExisting, Emergency!Appended,
    EmergencyFacts!Appended, Emergency!CreateConversation,
    EmergencyFacts!CreateConversation, Emergency!Staff, EmergencyFacts!Staff,
    Emergency!After, EmergencyFacts!After, Emergency!Users, EmergencyFacts!Users,
    Emergency!AuthorizeJoin, EmergencyFacts!AuthorizeJoin, Emergency!MayJoin,
    EmergencyFacts!MayJoin, Emergency!SendMessage, EmergencyFacts!SendMessage,
    Emergency!MayPost, EmergencyFacts!MayPost, Emergency!Claim, EmergencyFacts!Claim,
    Emergency!ClaimRow, EmergencyFacts!ClaimRow, Emergency!Assign, EmergencyFacts!Assign,
    Emergency!Release, EmergencyFacts!Release, Emergency!ReleaseRow,
    EmergencyFacts!ReleaseRow, Emergency!FlagEmergency, EmergencyFacts!FlagEmergency,
    Emergency!ResolveEmergency, EmergencyFacts!ResolveEmergency, Emergency!AdminReassign,
    EmergencyFacts!AdminReassign, Emergency!FollowUp, EmergencyFacts!FollowUp,
    Emergency!QueuePage, EmergencyFacts!QueuePage, Emergency!Doing, EmergencyFacts!Doing,
    Emergency!Done, EmergencyFacts!Done, Emergency!PageRefused, EmergencyFacts!PageRefused,
    Emergency!TellRoom, EmergencyFacts!TellRoom, Emergency!TellUpdate,
    EmergencyFacts!TellUpdate, Emergency!TellQueue, EmergencyFacts!TellQueue,
    Emergency!TellEmergency, EmergencyFacts!TellEmergency, Emergency!FanOut,
    EmergencyFacts!FanOut, Emergency!Acknowledge, EmergencyFacts!Acknowledge,
    Emergency!Connect, EmergencyFacts!Connect, Emergency!Disconnect,
    EmergencyFacts!Disconnect, Emergency!Forgotten, EmergencyFacts!Forgotten,
    Emergency!MarkRead, EmergencyFacts!MarkRead, Emergency!ReadBy, EmergencyFacts!ReadBy,
    Emergency!Restart, EmergencyFacts!Restart, Emergency!vars, EmergencyFacts!vars
<1> QED
  BY <1>1, <1>2, PTL DEF Emergency!Spec, EmergencyFacts!Spec

LEMMA MessagesAlike == Messages!Spec => MessagesFacts!Spec
<1>1. Messages!Init => MessagesFacts!Init
  BY DEF
    Messages!Init, MessagesFacts!Init, Messages!Absent, MessagesFacts!Absent,
    Messages!Users, MessagesFacts!Users, Messages!Staff, MessagesFacts!Staff, Messages!Idle,
    MessagesFacts!Idle
<1>2. [Messages!Next]_(Messages!vars) => [MessagesFacts!Next]_(MessagesFacts!vars)
  BY DEF
    Messages!Next, MessagesFacts!Next, Messages!Serve, MessagesFacts!Serve,
    Messages!EnterRoom, MessagesFacts!EnterRoom, Messages!Goto, MessagesFacts!Goto,
    Messages!Idle, MessagesFacts!Idle, Messages!FindNone, MessagesFacts!FindNone,
    Messages!Ready, MessagesFacts!Ready, Messages!Active, MessagesFacts!Active,
    Messages!AppendToExisting, MessagesFacts!AppendToExisting, Messages!Appended,
    MessagesFacts!Appended, Messages!CreateConversation, MessagesFacts!CreateConversation,
    Messages!Staff, MessagesFacts!Staff, Messages!After, MessagesFacts!After,
    Messages!Users, MessagesFacts!Users, Messages!AuthorizeJoin,
    MessagesFacts!AuthorizeJoin, Messages!MayJoin, MessagesFacts!MayJoin,
    Messages!SendMessage, MessagesFacts!SendMessage, Messages!MayPost,
    MessagesFacts!MayPost, Messages!Claim, MessagesFacts!Claim, Messages!ClaimRow,
    MessagesFacts!ClaimRow, Messages!Assign, MessagesFacts!Assign, Messages!Release,
    MessagesFacts!Release, Messages!ReleaseRow, MessagesFacts!ReleaseRow,
    Messages!FlagEmergency, MessagesFacts!FlagEmergency, Messages!ResolveEmergency,
    MessagesFacts!ResolveEmergency, Messages!AdminReassign, MessagesFacts!AdminReassign,
    Messages!FollowUp, MessagesFacts!FollowUp, Messages!QueuePage, MessagesFacts!QueuePage,
    Messages!Doing, MessagesFacts!Doing, Messages!Done, MessagesFacts!Done,
    Messages!PageRefused, MessagesFacts!PageRefused, Messages!TellRoom,
    MessagesFacts!TellRoom, Messages!TellUpdate, MessagesFacts!TellUpdate,
    Messages!TellQueue, MessagesFacts!TellQueue, Messages!TellEmergency,
    MessagesFacts!TellEmergency, Messages!FanOut, MessagesFacts!FanOut,
    Messages!Acknowledge, MessagesFacts!Acknowledge, Messages!Connect,
    MessagesFacts!Connect, Messages!Disconnect, MessagesFacts!Disconnect,
    Messages!Forgotten, MessagesFacts!Forgotten, Messages!MarkRead, MessagesFacts!MarkRead,
    Messages!ReadBy, MessagesFacts!ReadBy, Messages!Restart, MessagesFacts!Restart,
    Messages!vars, MessagesFacts!vars
<1> QED
  BY <1>1, <1>2, PTL DEF Messages!Spec, MessagesFacts!Spec

\* A refresh token that was exchanged opens no session again, for any number of
\* requests, sessions and users, also while accounts are suspended (CommitRefresh).
THEOREM ExchangedTokensStayDead == Spec => []ExchangedTokenIsDead
<1> DEFINE runs == part = "accounts"
<1>1. runs /\ Init => Auth!Init
  BY DEF Init
<1>2. /\ runs /\ [Next]_vars => runs' /\ [Auth!Next]_(Auth!vars)
      /\ ~runs /\ [Next]_vars => ~runs'
  BY OwnSteps
<1>3. ~runs => ExchangedTokenIsDead
  BY DEF ExchangedTokenIsDead
<1>4. Auth!Spec => []AuthFacts!ExchangedTokenIsDead
  BY AuthAlike, AuthFacts!ExchangedIsDead
<1>5. AuthFacts!ExchangedTokenIsDead => ExchangedTokenIsDead
  BY DEF ExchangedTokenIsDead, Auth!ExchangedTokenIsDead, AuthFacts!ExchangedTokenIsDead,
         Auth!SessionRows, AuthFacts!SessionRows, Auth!NoRow, AuthFacts!NoRow
<1> HIDE DEF runs
<1> QED
  BY <1>1, <1>2, <1>3, <1>4, <1>5, PTL DEF Spec, Auth!Spec

\* When nothing overlaps a reset is final: of the codes sent only the last is live, it
\* changes the password once, and no session outlives the password it was opened with
\* (resetPassword: "Revoke all active sessions for security").
THEOREM ResetsStayFinal == Spec => []ResetIsFinal
<1> DEFINE runs == part = "codes"
<1>1. runs /\ Init => OneTimeCodes!Init
  BY DEF Init
<1>2. /\ runs /\ [Next]_vars => runs' /\ [OneTimeCodes!Next]_(OneTimeCodes!vars)
      /\ ~runs /\ [Next]_vars => ~runs'
  BY OwnSteps
<1>3. ~runs => ResetIsFinal
  BY DEF ResetIsFinal
<1>4. OneTimeCodes!Spec =>
        [](CodesFacts!OneLiveCode /\ CodesFacts!CodeUsedOnce /\ CodesFacts!ResetEndsSessions)
  BY CodesAlike, CodesFacts!ResetsAreFinal, InstancesAssumption DEF CodesFacts!OneAtATime
<1>5. CodesFacts!OneLiveCode /\ CodesFacts!CodeUsedOnce /\ CodesFacts!ResetEndsSessions
        => ResetIsFinal
  BY DEF ResetIsFinal, OneTimeCodes!OneLiveCode, CodesFacts!OneLiveCode,
         OneTimeCodes!CodeUsedOnce, CodesFacts!CodeUsedOnce,
         OneTimeCodes!ResetEndsSessions, CodesFacts!ResetEndsSessions,
         OneTimeCodes!Unconsumed, CodesFacts!Unconsumed, OneTimeCodes!Purpose,
         CodesFacts!Purpose, OneTimeCodes!CodeRows, CodesFacts!CodeRows,
         OneTimeCodes!Live, CodesFacts!Live, OneTimeCodes!SessionRows,
         CodesFacts!SessionRows, OneTimeCodes!NoRow, CodesFacts!NoRow
<1> HIDE DEF runs
<1> QED
  BY <1>1, <1>2, <1>3, <1>4, <1>5, PTL DEF Spec, OneTimeCodes!Spec

\* Of concurrent claims at most one succeeds, and whoever was told that a thread is
\* theirs is its concierge, for any number of threads, concierges and requests.
THEOREM HoldersStayAssigned == Spec => []HoldersAreAssigned
<1> DEFINE runs == part = "staff"
<1>1. runs /\ Init => Staff!Init
  BY DEF Init
<1>2. /\ runs /\ [Next]_vars => runs' /\ [Staff!Next]_(Staff!vars)
      /\ ~runs /\ [Next]_vars => ~runs'
  BY OwnSteps
<1>3. ~runs => HoldersAreAssigned
  BY DEF HoldersAreAssigned
<1>4. Staff!Spec => []StaffFacts!HoldersAreAssigned
  BY StaffAlike, StaffFacts!HolderIsAssigned, InstancesAssumption
  DEF Staff!ConversationsAssumption, StaffFacts!ConversationsAssumption,
      Staff!Staff, StaffFacts!Staff
<1>5. StaffFacts!HoldersAreAssigned => HoldersAreAssigned
  BY DEF HoldersAreAssigned, Staff!HoldersAreAssigned, StaffFacts!HoldersAreAssigned
<1> HIDE DEF runs
<1> QED
  BY <1>1, <1>2, <1>3, <1>4, <1>5, PTL DEF Spec, Staff!Spec

\* When the requests about a thread are done, every member of staff connected without
\* a break since it was opened or flagged has been told of it, also when Redis refused
\* to queue the page and whatever is claimed, released, reassigned or resolved meanwhile.
THEOREM StaffStaysTold == Spec => []StaffIsTold
<1> DEFINE runs == part = "emergency"
<1>1. runs /\ Init => Emergency!Init
  BY DEF Init
<1>2. /\ runs /\ [Next]_vars => runs' /\ [Emergency!Next]_(Emergency!vars)
      /\ ~runs /\ [Next]_vars => ~runs'
  BY OwnSteps
<1>3. ~runs => StaffIsTold
  BY DEF StaffIsTold
<1>4. Emergency!Spec => []EmergencyFacts!StaffIsTold
  BY EmergencyAlike, EmergencyFacts!StaffGetsToKnow, InstancesAssumption
  DEF Emergency!ConversationsAssumption, EmergencyFacts!ConversationsAssumption,
      Emergency!Staff, EmergencyFacts!Staff
<1>5. EmergencyFacts!StaffIsTold => StaffIsTold
  BY DEF StaffIsTold, Emergency!StaffIsTold, EmergencyFacts!StaffIsTold, Emergency!OpeningAnnounced,
         EmergencyFacts!OpeningAnnounced, Emergency!Quiet, EmergencyFacts!Quiet,
         Emergency!EmergencyAnnounced,
         EmergencyFacts!EmergencyAnnounced
<1> HIDE DEF runs
<1> QED
  BY <1>1, <1>2, <1>3, <1>4, <1>5, PTL DEF Spec, Emergency!Spec

\* What a client was shown or had acknowledged is in the database, whenever the
\* server crashes and however requests about the thread overlap.
THEOREM ShownMessagesStayStored == Spec => []ShownIsStored
<1> DEFINE runs == part = "messages"
<1>1. runs /\ Init => Messages!Init
  BY DEF Init
<1>2. /\ runs /\ [Next]_vars => runs' /\ [Messages!Next]_(Messages!vars)
      /\ ~runs /\ [Next]_vars => ~runs'
  BY OwnSteps
<1>3. ~runs => ShownIsStored
  BY DEF ShownIsStored
<1>4. Messages!Spec => []MessagesFacts!ShownIsStored
  BY MessagesAlike, MessagesFacts!ShownStaysStored, InstancesAssumption
  DEF Messages!ConversationsAssumption, MessagesFacts!ConversationsAssumption,
      Messages!Staff, MessagesFacts!Staff
<1>5. MessagesFacts!ShownIsStored => ShownIsStored
  BY DEF ShownIsStored, Messages!ShownIsStored, MessagesFacts!ShownIsStored, Messages!Users,
         MessagesFacts!Users, Messages!Staff, MessagesFacts!Staff
<1> HIDE DEF runs
<1> QED
  BY <1>1, <1>2, <1>3, <1>4, <1>5, PTL DEF Spec, Messages!Spec

\* Whatever stale transitions are committed in which order, what the public sees
\* was approved, and complete, once; one request at a time it is also verified.  Only
\* providers that a seed has inserted are excepted.
THEOREM PublicStaysApproved == Spec => []PublicWasApproved
<1> DEFINE together == part = "providers"
           inTurn == part = "one by one"
<1>1. /\ together /\ Init => Providers!Init
      /\ inTurn /\ Init => OneByOne!Init
  BY DEF Init
<1>2. /\ together /\ [Next]_vars => together' /\ [Providers!Next]_(Providers!vars)
      /\ inTurn /\ [Next]_vars => inTurn' /\ [OneByOne!Next]_(OneByOne!vars)
      /\ ~together /\ ~inTurn /\ [Next]_vars => ~together' /\ ~inTurn'
  BY OwnSteps
<1>3. Providers!Spec => []ProvidersFacts!PublicWasApproved
  BY ProvidersAlike, ProvidersFacts!PublicIsApproved, InstancesAssumption
  DEF Providers!ProvidersAssumption, ProvidersFacts!ProvidersAssumption
<1>4. OneByOne!Spec => []OneByOneFacts!ListedIsVerified
  BY OneByOneAlike, OneByOneFacts!ListedVerified, InstancesAssumption
  DEF OneByOneFacts!OneAtATime, OneByOne!ProvidersAssumption,
      OneByOneFacts!ProvidersAssumption
<1>5. /\ together /\ ProvidersFacts!PublicWasApproved => PublicWasApproved
      /\ inTurn /\ OneByOneFacts!ListedIsVerified => PublicWasApproved
      /\ ~together /\ ~inTurn => PublicWasApproved
  BY DEF PublicWasApproved, Providers!PublicWasApproved, ProvidersFacts!PublicWasApproved,
         OneByOne!ListedIsVerified, OneByOneFacts!ListedIsVerified
<1> HIDE DEF together, inTurn
<1> QED
  BY <1>1, <1>2, <1>3, <1>4, <1>5, PTL DEF Spec, Providers!Spec, OneByOne!Spec

\* When no requests overlap, the handlers implement ProviderLifecycle: every change of
\* a provider that no seed has inserted is a transition of it, and its verification
\* follows its status.
THEOREM LifecycleIsFollowed == Spec => ImplementsLifecycle
<1> DEFINE runs == part = "one by one"
           begins == runs => OneByOne!LifecycleBegins
           step == runs => OneByOne!LifecycleStep
<1>1. runs /\ Init => OneByOne!Init
  BY DEF Init
<1>2. /\ runs /\ [Next]_vars => runs' /\ [OneByOne!Next]_(OneByOne!vars)
      /\ ~runs /\ [Next]_vars => ~runs'
  BY OwnSteps
<1>3. OneByOne!Spec => OneByOneFacts!ImplementsLifecycle
  BY OneByOneAlike, OneByOneFacts!FollowsLifecycle, InstancesAssumption
  DEF OneByOneFacts!OneAtATime, OneByOne!ProvidersAssumption,
      OneByOneFacts!ProvidersAssumption
<1>4. /\ OneByOneFacts!LifecycleBegins => OneByOne!LifecycleBegins
      /\ OneByOneFacts!LifecycleStep => OneByOne!LifecycleStep
  BY DEF OneByOne!LifecycleBegins, OneByOneFacts!LifecycleBegins,
    OneByOne!LifecycleStep, OneByOneFacts!LifecycleStep,
    OneByOne!Lifecycle!LifecycleInit, OneByOneFacts!Lifecycle!LifecycleInit,
    OneByOne!Lifecycle!LifecycleNext, OneByOneFacts!Lifecycle!LifecycleNext,
    OneByOne!Lifecycle!lifecycleVars, OneByOneFacts!Lifecycle!lifecycleVars,
    OneByOne!Lifecycle!ProviderStatus, OneByOneFacts!Lifecycle!ProviderStatus,
    OneByOne!Lifecycle!CanTransition, OneByOneFacts!Lifecycle!CanTransition,
    OneByOne!Lifecycle!AllowedTransitions, OneByOneFacts!Lifecycle!AllowedTransitions,
    OneByOne!Lifecycle!VerificationOf, OneByOneFacts!Lifecycle!VerificationOf,
    OneByOne!Lifecycle!Move, OneByOneFacts!Lifecycle!Move,
    OneByOne!Lifecycle!ApproveAndList, OneByOneFacts!Lifecycle!ApproveAndList
<1>5. OneByOneFacts!LifecycleBegins \/ ~runs => begins
  BY <1>4
<1>6. /\ [OneByOneFacts!LifecycleStep]_(OneByOneFacts!vars) => [step]_providerVars
      /\ ~runs => step
  BY <1>4 DEF OneByOneFacts!vars, providerVars
<1> HIDE DEF runs, begins, step
<1>7. Spec => begins /\ [][step]_providerVars
  BY <1>1, <1>2, <1>3, <1>5, <1>6, PTL
  DEF Spec, OneByOne!Spec, OneByOneFacts!ImplementsLifecycle
<1> QED
  BY <1>7 DEF ImplementsLifecycle, begins, step, runs

\* Transactions that rate, edit and moderate never wait for each other's rows.
THEOREM WritersNeverDeadlock == Spec => []NoDeadlock
<1>1. Init => Rated!Init
  BY DEF Init
<1>2. [Next]_vars => [Rated!Next]_(Rated!vars)
  BY OwnSteps
<1>3. Rated!Spec => []Rated!NoDeadlock
  BY WritersDoNotDeadlock, InstancesAssumption DEF Rated!ReviewsAssumption
<1> QED
  BY <1>1, <1>2, <1>3, PTL DEF Spec, Rated!Spec, NoDeadlock

\* A walk by cursor misses at most one row for each page asked for with a cursor row
\* that has left the filter, and otherwise nothing that was there all the time; it
\* repeats only rows that have moved (paginate), for lists and pages of any length.
THEOREM WalksShowRowsOnce == Spec => []RowsOnceButForMoves
<1>1. Init => Pagination!Init
  BY DEF Init
<1>2. [Next]_vars => [Pagination!Next]_(Pagination!vars)
  BY OwnSteps
<1>3. Pagination!Spec => []WalkInv
  BY WalkInvariant, InstancesAssumption
<1>4. WalkInv => RowsOnceButForMoves
  BY WalkMissesAndRepeats
<1> QED
  BY <1>1, <1>2, <1>3, <1>4, PTL DEF Spec, Pagination!Spec

\* Every answer, fresh or repeated from the cache, is of the key and body of the
\* request that gets it, whatever the connection to Redis does.
THEOREM AnswersStayOfTheRequest == Spec => []AnswersBelong
<1>1. Init => Idem!Init
  BY DEF Init
<1>2. [Next]_vars => [Idem!Next]_(Idem!vars)
  BY OwnSteps
<1>3. Idem!Init /\ [][Idem!Next]_(Idem!vars) => []Idem!AnswersBelong
  BY AnswersAreOfTheRequest
<1> QED
  BY <1>1, <1>2, <1>3, PTL DEF Spec, AnswersBelong

\* A job that is completed has reached its addressee, whatever attempts failed and
\* whenever the worker stopped, and each attempt sends at most once.
THEOREM JobsDeliverOnce == Spec => []DeliveredOncePerAttempt
<1>1. Init => Queue!Init
  BY DEF Init
<1>2. [Next]_vars => [Queue!Next]_(Queue!vars)
  BY OwnSteps
<1>3. Queue!Spec => []Queue!DeliveredOncePerAttempt
  BY DeliveredOnce, InstancesAssumption
<1> QED
  BY <1>1, <1>2, <1>3, PTL DEF Spec, Queue!Spec, DeliveredOncePerAttempt

\* Commission and earnings add up to the price, and a cancellation refunds all of it
\* or nothing, on the right side of 24 hours.
THEOREM MoneyStaysKept == Spec => []MoneyAddsUp
<1>1. Init => Cents!Init
  BY DEF Init
<1>2. [Next]_vars => [Cents!Next]_(Cents!vars)
  BY OwnSteps
<1>3. Cents!Spec => [](Cents!MoneyAddsUp /\ Cents!RefundIsAllOrNothing)
  BY MoneyIsKept, InstancesAssumption
<1> QED
  BY <1>1, <1>2, <1>3, PTL DEF Spec, Cents!Spec, MoneyAddsUp

\* While Redis answers, no WindowSec whole seconds of the clock, and so no WindowSec - 1
\* seconds wherever they start, have more requests than the limit, and what the
\* headers of an answer promise is kept: a request that
\* X-RateLimit-Remaining announces is let through, and so is one that waits as
\* long as Retry-After says.
THEOREM LimiterKeepsItsPromises == Spec => LimiterKeepsItsWord
<1>0. RateLimiter!RateLimitAssumption
  BY InstancesAssumption
<1>1. Init => RateLimiter!Init
  BY DEF Init
<1>2. [Next]_vars => [RateLimiter!Next]_(RateLimiter!vars)
  BY OwnSteps
<1>3. RateLimiter!Spec => []LimiterInv
  BY <1>0, LimiterInvariant
<1>4. LimiterInv => RateLimiter!WindowLimit
  BY <1>0, SlidingLimit
<1> DEFINE Remaining == headers.remaining > 0 /\ RateLimiter!Limit => headers'.allowed
           RetryAfter == ~headers.allowed /\ clock[1] >= headers.resetAt /\ RateLimiter!Limit
                           => headers'.allowed
<1>5. LimiterInv => [Remaining]_(RateLimiter!vars) /\ [RetryAfter]_(RateLimiter!vars)
  <2> SUFFICES ASSUME LimiterInv PROVE Remaining /\ RetryAfter
    OBVIOUS
  <2>1. ASSUME RateLimiter!Limit, headers.remaining > 0
        PROVE  headers'.allowed
    BY <1>0, <2>1, PromisesKept
  <2>2. ASSUME RateLimiter!Limit, ~headers.allowed, clock[1] >= headers.resetAt
        PROVE  headers'.allowed
    BY <1>0, <2>2, PromisesKept
  <2> QED
    BY <2>1, <2>2
<1>6. /\ RateLimiter!RemainingHonored <=> [][Remaining]_(RateLimiter!vars)
      /\ RateLimiter!RetryAfterSuffices <=> [][RetryAfter]_(RateLimiter!vars)
  BY DEF RateLimiter!RemainingHonored, RateLimiter!RetryAfterSuffices, RateLimiter!now
<1> HIDE DEF Remaining, RetryAfter
<1> QED
  BY <1>1, <1>2, <1>3, <1>4, <1>5, <1>6, PTL DEF Spec, RateLimiter!Spec, LimiterKeepsItsWord

\* The tables of accounts keep to their columns, whichever instance runs.
LEMMA AccountTablesHold == Spec => []AccountTables
<1> DEFINE inTurn == part = "codes"
<1>1. /\ inTurn /\ Init => OneTimeCodes!Init
      /\ ~inTurn /\ Init => Auth!Init
  BY DEF Init
<1>2. /\ inTurn /\ [Next]_vars => inTurn' /\ [OneTimeCodes!Next]_(OneTimeCodes!vars)
      /\ ~inTurn /\ [Next]_vars => ~inTurn' /\ [Auth!Next]_(Auth!vars)
  BY OwnSteps
<1>3. Auth!Spec => []AuthFacts!TypeOK
  BY AuthAlike, AuthFacts!AuthTypeCorrect
<1>4. OneTimeCodes!Spec => []CodesFacts!TypeOK
  BY CodesAlike, CodesFacts!AuthTypeCorrect
<1>5. AuthFacts!TypeOK => Auth!TypeOK
  BY ZenonT(40) DEF
         Auth!TypeOK, AuthFacts!TypeOK, Auth!Account, AuthFacts!Account, Auth!NoRow,
         AuthFacts!NoRow, Auth!SessionRow, AuthFacts!SessionRow, Auth!Purpose,
         AuthFacts!Purpose, Auth!CodeRow, AuthFacts!CodeRow, Auth!Idle, AuthFacts!Idle,
         Auth!Call, AuthFacts!Call
<1>6. CodesFacts!TypeOK => OneTimeCodes!TypeOK
  BY DEF
         OneTimeCodes!TypeOK, CodesFacts!TypeOK, OneTimeCodes!Account, CodesFacts!Account,
         OneTimeCodes!NoRow, CodesFacts!NoRow, OneTimeCodes!SessionRow,
         CodesFacts!SessionRow, OneTimeCodes!Purpose, CodesFacts!Purpose,
         OneTimeCodes!CodeRow, CodesFacts!CodeRow, OneTimeCodes!Idle, CodesFacts!Idle,
         OneTimeCodes!Call, CodesFacts!Call
<1>7. /\ inTurn /\ OneTimeCodes!TypeOK => AccountTables
      /\ ~inTurn /\ Auth!TypeOK => AccountTables
  BY DEF AccountTables
<1> HIDE DEF inTurn
<1> QED
  BY <1>1, <1>2, <1>3, <1>4, <1>5, <1>6, <1>7, PTL DEF Spec, Auth!Spec, OneTimeCodes!Spec

\* So do those of the providers.
LEMMA ProviderTablesHold == Spec => []ProviderTables
<1> DEFINE inTurn == part = "one by one"
<1>1. /\ inTurn /\ Init => OneByOne!Init
      /\ ~inTurn /\ Init => Providers!Init
  BY DEF Init
<1>2. /\ inTurn /\ [Next]_vars => inTurn' /\ [OneByOne!Next]_(OneByOne!vars)
      /\ ~inTurn /\ [Next]_vars => ~inTurn' /\ [Providers!Next]_(Providers!vars)
  BY OwnSteps
<1>3. Providers!Spec => []ProvidersFacts!TypeOK
  BY ProvidersAlike, ProvidersFacts!ProvidersTypeCorrect, InstancesAssumption
  DEF Providers!ProvidersAssumption, ProvidersFacts!ProvidersAssumption
<1>4. OneByOne!Spec => []OneByOneFacts!TypeOK
  BY OneByOneAlike, OneByOneFacts!ProvidersTypeCorrect, InstancesAssumption
  DEF OneByOne!ProvidersAssumption, OneByOneFacts!ProvidersAssumption
<1>5. ProvidersFacts!TypeOK => Providers!TypeOK
  BY DEF
         Providers!TypeOK, ProvidersFacts!TypeOK, Providers!ProviderStatus,
         ProvidersFacts!ProviderStatus, Providers!Machine!ProviderStatus,
         ProvidersFacts!Machine!ProviderStatus, Providers!Machine!VerificationStatus,
         ProvidersFacts!Machine!VerificationStatus, Providers!Provider,
         ProvidersFacts!Provider, Providers!Idle, ProvidersFacts!Idle, Providers!Call,
         ProvidersFacts!Call
<1>6. OneByOneFacts!TypeOK => OneByOne!TypeOK
  BY DEF
         OneByOne!TypeOK, OneByOneFacts!TypeOK, OneByOne!ProviderStatus,
         OneByOneFacts!ProviderStatus, OneByOne!Machine!ProviderStatus,
         OneByOneFacts!Machine!ProviderStatus, OneByOne!Machine!VerificationStatus,
         OneByOneFacts!Machine!VerificationStatus, OneByOne!Provider,
         OneByOneFacts!Provider, OneByOne!Idle, OneByOneFacts!Idle, OneByOne!Call,
         OneByOneFacts!Call
<1>7. /\ inTurn /\ OneByOne!TypeOK => ProviderTables
      /\ ~inTurn /\ Providers!TypeOK => ProviderTables
  BY DEF ProviderTables
<1> HIDE DEF inTurn
<1> QED
  BY <1>1, <1>2, <1>3, <1>4, <1>5, <1>6, <1>7, PTL DEF Spec, Providers!Spec, OneByOne!Spec

\* And those of the catalogue and its cache.
LEMMA CatalogueTablesHold == Spec => []CatalogueTables
<1> DEFINE inTurn == part = "every table"
<1>0. MaxWrites \in Nat \ {0}
  BY InstancesAssumption DEF Catalogue!CatalogueAssumption
<1>1. /\ inTurn /\ Init => EveryTable!Init
      /\ ~inTurn /\ Init => Catalogue!Init
  BY DEF Init
<1>2. /\ inTurn /\ [Next]_vars => inTurn' /\ [EveryTable!Next]_(EveryTable!vars)
      /\ ~inTurn /\ [Next]_vars => ~inTurn' /\ [Catalogue!Next]_(Catalogue!vars)
  BY OwnSteps
<1>3. Catalogue!Spec => []CachedInv(FewRequests, ProviderHandlers, PublicPages, TRUE)
  <2>1. ProviderHandlers \subseteq HandlerNames
    BY DEF ProviderHandlers, HandlerNames
  <2>2. Cached(FewRequests, ProviderHandlers, PublicPages, TRUE)!Init => CachedInv(FewRequests, ProviderHandlers, PublicPages, TRUE)
    BY <1>0, CachedBegins
  <2>3. CachedInv(FewRequests, ProviderHandlers, PublicPages, TRUE) /\ [Cached(FewRequests, ProviderHandlers, PublicPages, TRUE)!Next]_(Cached(FewRequests, ProviderHandlers, PublicPages, TRUE)!vars)
          => CachedInv(FewRequests, ProviderHandlers, PublicPages, TRUE)'
    BY <1>0, <2>1, CachedStep
  <2> QED
    BY <2>2, <2>3, CatalogueAlike, PTL DEF Catalogue!Spec
<1>4. EveryTable!Spec => []CachedInv(OneRequest, EveryHandler, EveryKey, FALSE)
  <2>1. EveryHandler \subseteq HandlerNames
    BY DEF EveryHandler, ProviderHandlers, HandlerNames
  <2>2. Cached(OneRequest, EveryHandler, EveryKey, FALSE)!Init => CachedInv(OneRequest, EveryHandler, EveryKey, FALSE)
    BY <1>0, CachedBegins
  <2>3. CachedInv(OneRequest, EveryHandler, EveryKey, FALSE) /\ [Cached(OneRequest, EveryHandler, EveryKey, FALSE)!Next]_(Cached(OneRequest, EveryHandler, EveryKey, FALSE)!vars)
          => CachedInv(OneRequest, EveryHandler, EveryKey, FALSE)'
    BY <1>0, <2>1, CachedStep
  <2> QED
    BY <2>2, <2>3, EveryTableAlike, PTL DEF EveryTable!Spec
<1>5. /\ CachedInv(FewRequests, ProviderHandlers, PublicPages, TRUE) => Catalogue!TypeOK
      /\ CachedInv(OneRequest, EveryHandler, EveryKey, FALSE) => EveryTable!TypeOK
  BY CatalogueAlike, EveryTableAlike DEF CachedInv
<1>6. /\ inTurn /\ EveryTable!TypeOK => CatalogueTables
      /\ ~inTurn /\ Catalogue!TypeOK => CatalogueTables
  BY DEF CatalogueTables
<1> HIDE DEF inTurn
<1> QED
  BY <1>1, <1>2, <1>3, <1>4, <1>5, <1>6, PTL DEF Spec, Catalogue!Spec, EveryTable!Spec

\* And those of the conversations, with the rooms and frames of the gateway.
LEMMA ThreadTablesHold == Spec => []ThreadTables
<1> DEFINE said == part = "messages"
           flagged == part = "emergency"
<1>1. /\ said /\ Init => Messages!Init
      /\ ~said /\ flagged /\ Init => Emergency!Init
      /\ ~said /\ ~flagged /\ Init => Staff!Init
  BY DEF Init
<1>2. /\ said /\ [Next]_vars => said' /\ [Messages!Next]_(Messages!vars)
      /\ ~said /\ flagged /\ [Next]_vars => ~said' /\ flagged' /\ [Emergency!Next]_(Emergency!vars)
      /\ ~said /\ ~flagged /\ [Next]_vars => ~said' /\ ~flagged' /\ [Staff!Next]_(Staff!vars)
  BY OwnSteps
<1>3. Messages!Spec => []MessagesFacts!TypeOK
  BY MessagesAlike, MessagesFacts!ConversationsTypeCorrect, InstancesAssumption
  DEF Messages!ConversationsAssumption, MessagesFacts!ConversationsAssumption,
      Messages!Staff, MessagesFacts!Staff
<1>4. Emergency!Spec => []EmergencyFacts!TypeOK
  BY EmergencyAlike, EmergencyFacts!ConversationsTypeCorrect, InstancesAssumption
  DEF Emergency!ConversationsAssumption, EmergencyFacts!ConversationsAssumption,
      Emergency!Staff, EmergencyFacts!Staff
<1>5. Staff!Spec => []StaffFacts!TypeOK
  BY StaffAlike, StaffFacts!ConversationsTypeCorrect, InstancesAssumption
  DEF Staff!ConversationsAssumption, StaffFacts!ConversationsAssumption,
      Staff!Staff, StaffFacts!Staff
<1>6. MessagesFacts!TypeOK => Messages!TypeOK
  BY DEF
         Messages!TypeOK, MessagesFacts!TypeOK, Messages!Staff, MessagesFacts!Staff,
         Messages!Users, MessagesFacts!Users, Messages!Conversation,
         MessagesFacts!Conversation, Messages!Message, MessagesFacts!Message,
         Messages!Idle, MessagesFacts!Idle, Messages!Steps, MessagesFacts!Steps,
         Messages!Todos, MessagesFacts!Todos, Messages!Call, MessagesFacts!Call,
         Messages!Numbers, MessagesFacts!Numbers
<1>7. EmergencyFacts!TypeOK => Emergency!TypeOK
  BY DEF
         Emergency!TypeOK, EmergencyFacts!TypeOK, Emergency!Staff, EmergencyFacts!Staff,
         Emergency!Users, EmergencyFacts!Users, Emergency!Conversation,
         EmergencyFacts!Conversation, Emergency!Message, EmergencyFacts!Message,
         Emergency!Idle, EmergencyFacts!Idle, Emergency!Steps, EmergencyFacts!Steps,
         Emergency!Todos, EmergencyFacts!Todos, Emergency!Call, EmergencyFacts!Call,
         Emergency!Numbers, EmergencyFacts!Numbers
<1>8. StaffFacts!TypeOK => Staff!TypeOK
  BY DEF
         Staff!TypeOK, StaffFacts!TypeOK, Staff!Staff, StaffFacts!Staff, Staff!Users,
         StaffFacts!Users, Staff!Conversation, StaffFacts!Conversation, Staff!Message,
         StaffFacts!Message, Staff!Idle, StaffFacts!Idle, Staff!Steps, StaffFacts!Steps,
         Staff!Todos, StaffFacts!Todos, Staff!Call, StaffFacts!Call, Staff!Numbers,
         StaffFacts!Numbers
<1>9. /\ said /\ Messages!TypeOK => ThreadTables
      /\ ~said /\ flagged /\ Emergency!TypeOK => ThreadTables
      /\ ~said /\ ~flagged /\ Staff!TypeOK => ThreadTables
  BY DEF ThreadTables
<1> HIDE DEF said, flagged
<1> QED
  BY <1>1, <1>2, <1>3, <1>4, <1>5, <1>6, <1>7, <1>8, <1>9, PTL
  DEF Spec, Messages!Spec, Emergency!Spec, Staff!Spec

\* The tables, caches, queues and local variables of every component hold what their
\* schemas and types allow, for any number of rows, requests, workers and keys.
THEOREM TypesStayCorrect == Spec => []TypeOK
<1>1. Init => /\ Rated!Init /\ Pagination!Init /\ Idem!Init /\ RateLimiter!Init
              /\ Queue!Init /\ Cents!Init /\ part \in Parts
  BY DEF Init
<1>2. [Next]_vars => /\ [Rated!Next]_(Rated!vars) /\ [Pagination!Next]_(Pagination!vars)
                     /\ [Idem!Next]_(Idem!vars) /\ [RateLimiter!Next]_(RateLimiter!vars)
                     /\ [Queue!Next]_(Queue!vars) /\ [Cents!Next]_(Cents!vars)
  BY OwnSteps
<1>3. part \in Parts /\ [Next]_vars => (part \in Parts)'
  BY OwnSteps
<1>4. Rated!Spec => []Rated!TypeOK
  BY ReviewsTypeCorrect, InstancesAssumption
<1>5. Pagination!Spec => []WalkInv
  BY WalkInvariant, InstancesAssumption
<1>6. Idem!Init /\ [][Idem!Next]_(Idem!vars) => []Idem!TypeOK
  BY IdempotencyTypeCorrect
<1>7. RateLimiter!Spec => []LimiterInv
  BY LimiterInvariant, InstancesAssumption
<1>8. Queue!Spec => []Queue!TypeOK
  BY NotificationsTypeCorrect, InstancesAssumption
<1>9. Cents!Spec => []Cents!TypeOK
  BY MoneyTypeCorrect, InstancesAssumption
<1>10. WalkInv => Pagination!TypeOK
  BY DEF WalkInv
<1>11. LimiterInv => RateLimiter!TypeOK
  BY DEF LimiterInv
<1>12. /\ part \in Parts /\ AccountTables /\ ProviderTables /\ CatalogueTables /\ ThreadTables
       /\ Rated!TypeOK /\ Pagination!TypeOK /\ Idem!TypeOK /\ RateLimiter!TypeOK
       /\ Queue!TypeOK /\ Cents!TypeOK
      => TypeOK
  BY DEF TypeOK
<1> QED
  BY <1>1, <1>2, <1>3, <1>4, <1>5, <1>6, <1>7, <1>8, <1>9, <1>10, <1>11, <1>12,
     AccountTablesHold, ProviderTablesHold, CatalogueTablesHold, ThreadTablesHold, PTL
  DEF Spec, Rated!Spec, Pagination!Spec, RateLimiter!Spec, Queue!Spec, Cents!Spec
=============================================================================
