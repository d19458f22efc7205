----------------------------- MODULE Bookings -----------------------------
(***************************************************************************)
(* The bookings component: the HTTP handlers of BookingService, the        *)
(* optimistic lock of BookingRepository, and the expiry job of             *)
(* BookingProcessor, all running concurrently.                             *)
(*                                                                         *)
(* A handler is two steps.  It first loads the row and validates the       *)
(* transition OUTSIDE any transaction, and remembers the status and the    *)
(* version it saw; the transaction that follows updates the row only       *)
(* where that version is still current and appends to the event log.       *)
(* Whatever happens in between is the hazard this module is about.  A      *)
(* third step hands a job to a queue after the commit; it may be lost.     *)
(*                                                                         *)
(* The payments component writes bookings too, through the same            *)
(* repository.  Its two writes appear here as CreatePaymentIntent, which   *)
(* follows the handlers' pattern, and ReconcilePayment, which does not.    *)
(***************************************************************************)
EXTENDS Integers, Sequences, FiniteSets, BookingStateMachine

CONSTANTS
  Bookings,     \* booking rows
  Handlers,     \* concurrent HTTP requests
  Workers,      \* concurrent check_expired_bookings jobs
  Reconciling,  \* TRUE iff somebody calls reconcilePayments (nobody does yet)
  MaxVersion    \* bound: reconciliation leaves bookings at this version alone

ASSUME ConstantsAssumption ==
  /\ Reconciling \in BOOLEAN
  /\ MaxVersion \in Nat

VARIABLES
  booking,  \* table bookings: status and version of each row
  events,   \* table booking_events: the rows of each booking, oldest first
  overdue,  \* bookings whose expiresAt has passed
  req,      \* what each HTTP handler holds in its local variables
  expiry,   \* rows that each expiry job has loaded and not yet handled
  queue     \* jobs handed to BullMQ, by jobId (a second add is a no-op)

vars == <<booking, events, overdue, req, expiry, queue>>

-----------------------------------------------------------------------------
(* Types                                                                   *)

Booking == [status : Status \cup {NoStatus}, version : Nat]

Event == [from : Status \cup {NoStatus}, to : Status, role : Role]

\* The job a handler enqueues after it has moved a booking to this status.
\* The other statuses enqueue nothing.
JobName ==
  [pending               |-> "notify_provider",
   accepted              |-> "notify_traveler_accepted",
   declined              |-> "notify_traveler_declined",
   completed             |-> "prompt_review",
   cancelled_by_traveler |-> "auto_refund",
   cancelled_by_provider |-> "auto_refund"]

Announced == DOMAIN JobName

Job == [name : {JobName[s] : s \in Announced}, booking : Bookings]

\* "answered": the handler has thrown or returned without touching the row.
\* "validated": between the read and the transaction.
\* "committed": between the transaction and the enqueue.
Writing(pcs, targets) ==
  [pc : pcs, booking : Bookings, version : Nat,
   from : Status \cup {NoStatus}, to : targets, role : Role, enqueue : BOOLEAN]

Request ==
  [pc : {"idle", "answered"}]
    \cup Writing({"validated"}, Status)
    \cup Writing({"committed"}, Announced)

Idle == [pc |-> "idle"]
Answered == [pc |-> "answered"]

Loaded == [booking : Bookings, version : Nat]

TypeOK ==
  /\ booking \in [Bookings -> Booking]
  /\ events \in [Bookings -> Seq(Event)]
  /\ overdue \in SUBSET Bookings
  /\ req \in [Handlers -> Request]
  /\ expiry \in [Workers -> SUBSET Loaded]
  /\ queue \in SUBSET Job

Init ==
  /\ booking = [b \in Bookings |-> [status |-> NoStatus, version |-> 0]]
  /\ events = [b \in Bookings |-> <<>>]
  /\ overdue = {}
  /\ req = [h \in Handlers |-> Idle]
  /\ expiry = [w \in Workers |-> {}]
  /\ queue = {}

-----------------------------------------------------------------------------
(* BookingRepository                                                       *)

\* updateMany({ where: { id, version } }): it matches the row only while the
\* version is the one the caller read.
VersionMatches(b, version) == booking[b].version = version

\* Mutant: the increment of the version is forgotten.
UpdateStatusKeepingVersion(b, to) ==
  booking' = [booking EXCEPT ![b].status = to, ![b].version = IF @ = 0 THEN 1 ELSE @]

\* ... and its effect where it matches.
UpdateStatus(b, to) ==
  booking' = [booking EXCEPT ![b] = [status |-> to, version |-> @.version + 1]]

CreateEvent(b, from, to, role) ==
  events' = [events EXCEPT ![b] =
               Append(@, [from |-> from, to |-> to, role |-> role])]

-----------------------------------------------------------------------------
(* BookingService: the part of a handler before its transaction            *)

\* findById(Lite), then the checks of the handler: it goes on iff ok.
Load(h, b, ok, to, role, enqueue) ==
  /\ req[h] = Idle
  /\ booking[b].status # NoStatus
  /\ req' = [req EXCEPT ![h] =
       IF ok
         THEN [pc |-> "validated", booking |-> b,
               version |-> booking[b].version, from |-> booking[b].status,
               to |-> to, role |-> role, enqueue |-> enqueue]
         ELSE Answered]
  /\ UNCHANGED <<booking, events, overdue, expiry, queue>>

\* The usual check, made with the status just loaded.
Valid(b, to, role, hasReason) ==
  ValidateTransition(booking[b].status, to, role, hasReason)

AcceptBooking(h, b) ==
  \E role \in {"provider", "admin"} :
    Load(h, b, Valid(b, "accepted", role, FALSE), "accepted", role, TRUE)

DeclineBooking(h, b) ==
  \E role \in {"provider", "admin"}, hasReason \in BOOLEAN :
    Load(h, b, Valid(b, "declined", role, hasReason), "declined", role, TRUE)

\* evaluateCancellationRules: refundAmountCents > 0.  As the handler calls it,
\* an admin or a concierge is evaluated as a traveler.  free: the total is 0.
RefundDue(role, late, free) == ~free /\ (role = "provider" \/ ~late)

\* The traveler, an admin and a concierge cancel as the traveler, whoever owns the
\* provider as the provider.  The log keeps the role of the token, which may be older
\* than the profile that made its owner a provider (and is then a traveler's here).
CancelBooking(h, b) ==
  \E late, free, hasReason \in BOOLEAN :
    \/ \E role \in {"traveler", "admin", "concierge"} :
         Load(h, b, Valid(b, "cancelled_by_traveler", "traveler", hasReason),
              "cancelled_by_traveler", role, RefundDue("traveler", late, free))
    \/ \E role \in {"provider", "traveler"} :
         Load(h, b, Valid(b, "cancelled_by_provider", "provider", hasReason),
              "cancelled_by_provider", role, RefundDue("provider", late, free))

\* Logged as the provider's doing even when an admin calls it.
CompleteBooking(h, b) ==
  \E role \in {"provider", "admin"} :
    Load(h, b, Valid(b, "completed", role, FALSE), "completed", "provider", TRUE)

\* Needs in_progress, which no code ever sets: today it always answers 409.
NoShowBooking(h, b) ==
  \E hasReason \in BOOLEAN :
    Load(h, b, Valid(b, "no_show", "provider", hasReason),
         "no_show", "provider", FALSE)

\* Mutant: the eligibility test is dropped.
CreatePaymentIntentUnchecked(h, b) ==
  Load(h, b, TRUE, "awaiting_payment", "traveler", FALSE)

\* PaymentService.createPaymentIntent.  It tests the status itself instead of
\* asking validateTransition.  From awaiting_payment it leaves the row alone.
CreatePaymentIntent(h, b) ==
  Load(h, b, booking[b].status = "accepted",
       "awaiting_payment", "traveler", FALSE)

-----------------------------------------------------------------------------
(* BookingService: the transaction and what follows it                     *)

\* After its transaction a handler enqueues a job, or is done.
AfterCommit(r) ==
  IF r.enqueue /\ r.to \in Announced THEN [r EXCEPT !.pc = "committed"] ELSE Idle

\* createBooking inserts the row with its first event; there is no earlier
\* read of it to go stale.
CreateBooking(h, b) ==
  LET r == [pc |-> "validated", booking |-> b, version |-> 0, from |-> NoStatus,
            to |-> "pending", role |-> "traveler", enqueue |-> TRUE]
  IN  /\ req[h] = Idle
      /\ booking[b].status = NoStatus
      /\ UpdateStatus(b, "pending")
      /\ CreateEvent(b, NoStatus, "pending", "traveler")
      /\ req' = [req EXCEPT ![h] = AfterCommit(r)]
      /\ UNCHANGED <<overdue, expiry, queue>>

\* The transaction of every other handler: the guarded update and the event,
\* whose from is the status loaded before the transaction.
Commit(h) ==
  LET r == req[h]
  IN  /\ r.pc = "validated"
      /\ VersionMatches(r.booking, r.version)
      /\ UpdateStatus(r.booking, r.to)
      /\ CreateEvent(r.booking, r.from, r.to, r.role)
      /\ req' = [req EXCEPT ![h] = AfterCommit(r)]
      /\ UNCHANGED <<overdue, expiry, queue>>

\* Mutant: the conflict is caught, and the notification still goes out.
ConflictThenNotify(h) ==
  /\ req[h].pc = "validated"
  /\ ~VersionMatches(req[h].booking, req[h].version)
  /\ req' = [req EXCEPT ![h] = AfterCommit(req[h])]
  /\ UNCHANGED <<booking, events, overdue, expiry, queue>>

\* VERSION_MISMATCH: the transaction rolls back and the caller gets a 409.
Conflict(h) ==
  /\ req[h].pc = "validated"
  /\ ~VersionMatches(req[h].booking, req[h].version)
  /\ req' = [req EXCEPT ![h] = Answered]
  /\ UNCHANGED <<booking, events, overdue, expiry, queue>>

Enqueue(h) ==
  /\ req[h].pc = "committed"
  /\ queue' = queue \cup {[name |-> JobName[req[h].to],
                           booking |-> req[h].booking]}
  /\ req' = [req EXCEPT ![h] = Idle]
  /\ UNCHANGED <<booking, events, overdue, expiry>>

Respond(h) ==
  /\ req[h] = Answered
  /\ req' = [req EXCEPT ![h] = Idle]
  /\ UNCHANGED <<booking, events, overdue, expiry, queue>>

\* The process dies between two steps of the handler, or, after the commit,
\* Redis refuses the job and the handler swallows the error.
Lost(h) ==
  /\ req[h].pc \in {"validated", "committed"}
  /\ req' = [req EXCEPT ![h] = Idle]
  /\ UNCHANGED <<booking, events, overdue, expiry, queue>>

-----------------------------------------------------------------------------
(* BookingProcessor: check_expired_bookings                                *)

\* 24 hours pass.  Only the expiry job reads expiresAt, and only of pending
\* bookings.
TimePasses(b) ==
  /\ booking[b].status = "pending"
  /\ b \notin overdue
  /\ overdue' = overdue \cup {b}
  /\ UNCHANGED <<booking, events, req, expiry, queue>>

Expired == {b \in overdue : booking[b].status = "pending"}

\* A run of the job (its cron tick or a retry) loads every expired row.
ScanExpired(w) ==
  /\ expiry[w] = {}
  /\ Expired # {}
  /\ expiry' = [expiry EXCEPT ![w] =
       {[booking |-> b, version |-> booking[b].version] : b \in Expired}]
  /\ UNCHANGED <<booking, events, overdue, req, queue>>

\* Mutant: the job updates by id, without the lock.
ExpireNextUnlocked(w) ==
  \E l \in expiry[w] :
    /\ UpdateStatus(l.booking, "expired")
    /\ CreateEvent(l.booking, "pending", "expired", "system")
    /\ expiry' = [expiry EXCEPT ![w] = @ \ {l}]
    /\ UNCHANGED <<overdue, req, queue>>

\* One turn of the loop: its own transaction, with a fixed from status.
ExpireNext(w) ==
  \E l \in expiry[w] :
    /\ VersionMatches(l.booking, l.version)
    /\ UpdateStatus(l.booking, "expired")
    /\ CreateEvent(l.booking, "pending", "expired", "system")
    /\ expiry' = [expiry EXCEPT ![w] = @ \ {l}]
    /\ UNCHANGED <<overdue, req, queue>>

\* Mutant: the error is retried with the same list instead of a new scan.
ExpiryConflictSameList(w) ==
  /\ \E l \in expiry[w] : ~VersionMatches(l.booking, l.version)
  /\ UNCHANGED vars

\* One row has changed since the scan: VERSION_MISMATCH leaves the loop, and
\* the rows after it are not handled in this run.
ExpiryConflict(w) ==
  /\ \E l \in expiry[w] : ~VersionMatches(l.booking, l.version)
  /\ expiry' = [expiry EXCEPT ![w] = {}]
  /\ UNCHANGED <<booking, events, overdue, req, queue>>

\* The worker process dies in the middle of the loop.
WorkerCrash(w) ==
  /\ expiry[w] # {}
  /\ expiry' = [expiry EXCEPT ![w] = {}]
  /\ UNCHANGED <<booking, events, overdue, req, queue>>

-----------------------------------------------------------------------------
(* PaymentService.reconcilePayments, as far as bookings can tell           *)

\* The payment row is inserted with the transition to awaiting_payment.
HasPayment(b) ==
  \E i \in DOMAIN events[b] : events[b][i].to = "awaiting_payment"

\* Reads the row inside its transaction, so nothing goes stale; but it asks
\* no validateTransition and appends no event.
ReconcilePayment(b) ==
  /\ Reconciling
  /\ HasPayment(b)
  /\ booking[b].status # "confirmed"
  /\ booking[b].version < MaxVersion
  /\ UpdateStatus(b, "confirmed")
  /\ UNCHANGED <<events, overdue, req, expiry, queue>>

-----------------------------------------------------------------------------
Handler(h) ==
  \/ \E b \in Bookings :
       \/ CreateBooking(h, b)
       \/ AcceptBooking(h, b)
       \/ DeclineBooking(h, b)
       \/ CancelBooking(h, b)
       \/ CompleteBooking(h, b)
       \/ NoShowBooking(h, b)
       \/ CreatePaymentIntent(h, b)
  \/ Commit(h)
  \/ Conflict(h)
  \/ Enqueue(h)
  \/ Respond(h)
  \/ Lost(h)

ExpiryJob(w) ==
  \/ ScanExpired(w)
  \/ ExpireNext(w)
  \/ ExpiryConflict(w)
  \/ WorkerCrash(w)

Next ==
  \/ \E h \in Handlers : Handler(h)
  \/ \E w \in Workers : ExpiryJob(w)
  \/ \E b \in Bookings : TimePasses(b) \/ ReconcilePayment(b)

Spec == Init /\ [][Next]_vars

\* The scheduler keeps starting the job and the worker keeps running it.
\* Strong fairness of a turn: a run is not killed before its first turn
\* every single time.  Users owe nothing.
Fairness ==
  \A w \in Workers :
    /\ WF_vars(ScanExpired(w))
    /\ SF_vars(ExpireNext(w) \/ ExpiryConflict(w))

FairSpec == Spec /\ Fairness

-----------------------------------------------------------------------------
(* Properties                                                              *)

\* Whatever a handler or an expiry job remembers of a row is either still so or
\* betrayed by the version: the row's version has not moved backwards, and if
\* it has not moved then neither has the status.  And no handler is about to
\* make a transition that was not allowed when it looked.
StaleReadsAreDetectable ==
  /\ \A h \in Handlers : req[h].pc = "validated" =>
       LET b == req[h].booking
       IN  /\ req[h].version <= booking[b].version
           /\ req[h].version = booking[b].version
                => req[h].from = booking[b].status
           /\ CanTransition(req[h].from, req[h].to)
  /\ \A w \in Workers : \A l \in expiry[w] :
       /\ l.version <= booking[l.booking].version
       /\ l.version = booking[l.booking].version
            => booking[l.booking].status = "pending"

\* A handler acts on what it read before its transaction, yet every event it
\* writes starts from the status the row has when the transaction commits and
\* ends in the status it gets: the version check turns every stale read into
\* a conflict (Commit, ExpireNext).
LoggedFromIsActual ==
  [][\A b \in Bookings : events'[b] # events[b] =>
       LET e == events'[b][Len(events'[b])]
       IN  /\ e.from = booking[b].status
           /\ e.to = booking'[b].status]_vars

\* As long as nobody reconciles, the event log alone tells the whole story of
\* a booking: it starts at creation, each event continues where the previous
\* one ended, the last one ended in the current status, and there is one event
\* for each increment of the version.
LogIsChain(b) ==
  /\ Len(events[b]) = booking[b].version
  /\ \A i \in 1..Len(events[b]) :
       events[b][i].from = IF i = 1 THEN NoStatus ELSE events[b][i - 1].to
  /\ booking[b].status =
       IF events[b] = <<>> THEN NoStatus ELSE events[b][Len(events[b])].to

EventLogIsComplete == \A b \in Bookings : LogIsChain(b)

\* Two racing requests never both succeed in the same thing: no booking is
\* accepted, cancelled, expired or declined twice (nor its traveler notified,
\* nor its refund promised twice).
StatusEnteredOnce ==
  \A b \in Bookings : \A i, j \in DOMAIN events[b] :
    events[b][i].to = events[b][j].to => i = j

\* A job tells the world only what has happened: it is enqueued after the
\* commit, so a request that lost its race announces and refunds nothing.
JobsMatchLog ==
  \A j \in queue : \E i \in DOMAIN events[j.booking] :
    LET to == events[j.booking][i].to
    IN  to \in Announced /\ JobName[to] = j.name

\* As long as nobody reconciles, the component keeps the promise of
\* BookingLifecycle: allowed transitions only, from a terminal status none,
\* and a history that only grows.
Lifecycle ==
  INSTANCE BookingLifecycle WITH
    status <- [b \in Bookings |-> booking[b].status],
    history <- [b \in Bookings |-> [i \in DOMAIN events[b] |-> events[b][i].to]]

LifecycleSpec == Lifecycle!Spec

\* The expiry job makes progress in spite of conflicts that abort its runs:
\* a pending booking whose time is over does not stay pending.
OverdueLeavesPending ==
  \A b \in Bookings :
    (b \in overdue /\ booking[b].status = "pending")
      ~> booking[b].status # "pending"

-----------------------------------------------------------------------------
(* What comments, pages and tests say and the code does not keep: TLC      *)
(* refutes each on a small instance.                                       *)

\* The table of permissions is about every transition: each logged role is
\* one that ACTOR_PERMISSIONS lists for the status entered.
LoggedActorIsPermitted ==
  \A b \in Bookings : \A i \in DOMAIN events[b] :
    <<events[b][i].to, events[b][i].role>> \in ActorPermissions
=============================================================================
