--------------------------- MODULE Notifications ---------------------------
(***************************************************************************)
(* The notifications queue and the process that works it off.  An attempt  *)
(* of a job calls the providers of its channels one after the other; an    *)
(* error ends the attempt, and the job is retried from the beginning.  The *)
(* states of a job, the backoff and the recovery of stalled jobs are       *)
(* BullMQ's.                                                               *)
(***************************************************************************)
EXTENDS Integers, Sequences, FiniteSets

CONSTANTS
  Emails,      \* jobs of one e-mail, named by a jobId
  Pages,       \* jobs emergency.page_oncall
  Attempts,    \* attempts of a job
  Concurrency, \* jobs the worker has in hand at once
  Restarts     \* bound: stops and crashes of the worker

\* What an instance must satisfy.
NotificationsAssumption ==
  /\ Emails \cap Pages = {}
  /\ Attempts \in Nat \ {0} /\ Concurrency \in Nat \ {0} /\ Restarts \in Nat

VARIABLES
  job,       \* the jobs of the queue
  worker,    \* the worker process
  delivered, \* how often each job reached each channel
  restarts   \* stops and crashes so far

vars == <<job, worker, delivered, restarts>>

Jobs == Emails \cup Pages

Channels == {"email", "sms", "whatsapp"}

-----------------------------------------------------------------------------
(* Types                                                                   *)

Absent == [state |-> "absent", attemptsMade |-> 0, stalled |-> 0, step |-> 1]

\* orphaned: the worker that had it in hand is gone, and its lock runs out.
\* step: the call that is next.
Job ==
  [state : {"absent", "waiting", "active", "orphaned", "delayed", "completed", "failed"},
   attemptsMade : 0..Attempts, stalled : 0..2, step : 1..3]

TypeOK ==
  /\ job \in [Jobs -> Job]
  /\ worker \in {"running", "closing", "down"}
  /\ delivered \in [Jobs -> [Channels -> 0..(Attempts + 1)]]
  /\ restarts \in 0..Restarts

Init ==
  /\ job = [j \in Jobs |-> Absent]
  /\ worker = "running"
  /\ delivered = [j \in Jobs |-> [c \in Channels |-> 0]]
  /\ restarts = 0

-----------------------------------------------------------------------------
(* The queue                                                               *)

\* A second add under the same jobId changes nothing.
Add(j) ==
  /\ job[j] = Absent
  /\ job' = [job EXCEPT ![j].state = "waiting"]
  /\ UNCHANGED <<worker, delivered, restarts>>

Backoff(j) ==
  /\ job[j].state = "delayed"
  /\ job' = [job EXCEPT ![j].state = "waiting"]
  /\ UNCHANGED <<worker, delivered, restarts>>

\* A running worker finds the lock run out; it does so once per job.
Stall(j) ==
  /\ worker = "running"
  /\ job[j].state = "orphaned"
  /\ job' = [job EXCEPT ![j] =
       [job[j] EXCEPT !.stalled = @ + 1,
                      !.step = 1,
                      !.state = IF job[j].stalled = 0 THEN "waiting" ELSE "failed"]]
  /\ UNCHANGED <<worker, delivered, restarts>>

InHand == {j \in Jobs : job[j].state = "active"}

Take(j) ==
  /\ worker = "running"
  /\ job[j].state = "waiting"
  /\ Cardinality(InHand) < Concurrency
  /\ job' = [job EXCEPT ![j].state = "active"]
  /\ UNCHANGED <<worker, delivered, restarts>>

-----------------------------------------------------------------------------
(* NotificationProcessor.process                                           *)

\* The calls of one attempt.
Calls(j) == IF j \in Pages THEN <<"sms", "whatsapp">> ELSE <<"email">>

Channel(j) == Calls(j)[job[j].step]

\* Mutant: the error is logged and not thrown again.
AfterErrorSwallowed(j) == [job[j] EXCEPT !.state = "completed"]

\* The error is thrown: the attempt is over.
AfterError(j) ==
  [job[j] EXCEPT !.attemptsMade = @ + 1,
                 !.step = 1,
                 !.state = IF job[j].attemptsMade + 1 < Attempts THEN "delayed" ELSE "failed"]

\* One call to a provider.  A call that fails may have delivered the message.
Send(j, ok, reached) ==
  /\ worker # "down"
  /\ job[j].state = "active"
  /\ job[j].step <= Len(Calls(j))
  /\ ok => reached
  /\ delivered' = [delivered EXCEPT ![j][Channel(j)] = IF reached THEN @ + 1 ELSE @]
  /\ job' = [job EXCEPT ![j] = IF ok THEN [job[j] EXCEPT !.step = @ + 1] ELSE AfterError(j)]
  /\ UNCHANGED <<worker, restarts>>

Complete(j) ==
  /\ worker # "down"
  /\ job[j].state = "active"
  /\ job[j].step > Len(Calls(j))
  /\ job' = [job EXCEPT ![j].state = "completed"]
  /\ UNCHANGED <<worker, delivered, restarts>>

-----------------------------------------------------------------------------
(* The worker process                                                      *)

Start ==
  /\ worker = "down"
  /\ worker' = "running"
  /\ UNCHANGED <<job, delivered, restarts>>

\* SIGTERM: no job is taken any more.
Shutdown ==
  /\ worker = "running"
  /\ restarts < Restarts
  /\ worker' = "closing"
  /\ restarts' = restarts + 1
  /\ UNCHANGED <<job, delivered>>

\* worker.close() waits for the jobs in hand.
Close ==
  /\ worker = "closing"
  /\ InHand = {}
  /\ worker' = "down"
  /\ UNCHANGED <<job, delivered, restarts>>

Crash ==
  /\ worker # "down"
  /\ restarts < Restarts
  /\ worker' = "down"
  /\ job' = [j \in Jobs |-> IF j \in InHand THEN [job[j] EXCEPT !.state = "orphaned"] ELSE job[j]]
  /\ restarts' = restarts + 1
  /\ UNCHANGED delivered

-----------------------------------------------------------------------------
Attempt(j) == (\E ok, reached \in BOOLEAN : Send(j, ok, reached)) \/ Complete(j)

Next ==
  \/ \E j \in Jobs : Add(j) \/ Backoff(j) \/ Stall(j) \/ Take(j) \/ Attempt(j)
  \/ Start
  \/ Shutdown
  \/ Close
  \/ Crash

Spec == Init /\ [][Next]_vars

-----------------------------------------------------------------------------
(* Properties                                                              *)

\* Attempts that were begun.
Begun(j) ==
  job[j].attemptsMade + job[j].stalled
    + (IF job[j].state \in {"active", "orphaned", "completed"} THEN 1 ELSE 0)

\* A message goes out again only in another attempt, after an error or a crash:
\* a queue that runs undisturbed sends everything once (process).
OncePerAttempt ==
  \A j \in Jobs, c \in Channels : delivered[j][c] <= Begun(j)

\* A job that is completed has reached every channel it is for: the on-call
\* phone by SMS and by WhatsApp (process).
CompletedDelivered ==
  \A j \in Jobs : job[j].state = "completed" =>
    \A i \in DOMAIN Calls(j) : delivered[j][Calls(j)[i]] > 0

\* Both: what a queue may be taken to promise.
DeliveredOncePerAttempt == OncePerAttempt /\ CompletedDelivered
=============================================================================
