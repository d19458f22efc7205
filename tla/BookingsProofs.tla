-------------------------- MODULE BookingsProofs --------------------------
(***************************************************************************)
(* Proofs about Bookings, for any sets of bookings, handlers and workers.  *)
(***************************************************************************)
EXTENDS Bookings, SequenceTheorems, TLAPS

-----------------------------------------------------------------------------
(* Type correctness                                                        *)

\* The statuses that are announced are statuses.
LEMMA AnnouncedStatuses == Announced \subseteq Status
BY DEF Announced, JobName, Status, Terminal

\* The fields of a request that is past its read.
LEMMA RequestFields ==
  ASSUME NEW r \in Request, r.pc \in {"validated", "committed"}
  PROVE  /\ r.booking \in Bookings
         /\ r.version \in Nat
         /\ r.from \in Status \cup {NoStatus}
         /\ r.to \in Status
         /\ r.role \in Role
         /\ r.enqueue \in BOOLEAN
         /\ r.pc = "committed" => r.to \in Announced
         /\ r = [pc |-> r.pc, booking |-> r.booking, version |-> r.version,
                 from |-> r.from, to |-> r.to, role |-> r.role,
                 enqueue |-> r.enqueue]
<1>1. Announced \subseteq Status
  BY AnnouncedStatuses
<1>2. CASE r \in Writing({"validated"}, Status)
  BY <1>2 DEF Writing
<1>3. CASE r \in Writing({"committed"}, Announced)
  BY <1>1, <1>3 DEF Writing
<1> QED
  BY <1>2, <1>3 DEF Request

\* What a handler holds after its commit is a request again, and no longer
\* one that is about to write.
LEMMA AfterCommitType ==
  ASSUME NEW r \in Request, r.pc = "validated"
  PROVE  /\ AfterCommit(r) \in Request
         /\ AfterCommit(r).pc # "validated"
<1>1. Idle \in Request /\ Idle.pc # "validated"
  BY DEF Idle, Request
<1>2. ASSUME r.to \in Announced
      PROVE  /\ [r EXCEPT !.pc = "committed"] \in Request
             /\ [r EXCEPT !.pc = "committed"].pc # "validated"
  <2>1. [r EXCEPT !.pc = "committed"]
          = [pc |-> "committed", booking |-> r.booking, version |-> r.version,
             from |-> r.from, to |-> r.to, role |-> r.role,
             enqueue |-> r.enqueue]
    BY RequestFields
  <2> QED
    BY <1>2, <2>1, RequestFields DEF Request, Writing
<1> QED
  BY <1>1, <1>2 DEF AfterCommit

\* Every constant status the code writes is a status.
LEMMA StatusFacts ==
  /\ {"pending", "accepted", "awaiting_payment", "confirmed", "completed",
      "declined", "expired", "no_show", "cancelled_by_traveler",
      "cancelled_by_provider"} \subseteq Status
  /\ NoStatus \notin Status
  /\ "system" \in Role
  /\ {"traveler", "provider", "admin", "concierge"} \subseteq Role
BY DEF Status, Terminal, NoStatus, Role

\* The guarded update keeps the table well typed.
LEMMA UpdateStatusType ==
  ASSUME TypeOK, NEW b \in Bookings, NEW to \in Status, UpdateStatus(b, to)
  PROVE  booking' \in [Bookings -> Booking]
BY DEF TypeOK, UpdateStatus, Booking

\* Appending an event keeps the log well typed.
LEMMA CreateEventType ==
  ASSUME TypeOK, NEW b \in Bookings, NEW from \in Status \cup {NoStatus},
         NEW to \in Status, NEW role \in Role, CreateEvent(b, from, to, role)
  PROVE  events' \in [Bookings -> Seq(Event)]
<1>1. [from |-> from, to |-> to, role |-> role] \in Event
  BY DEF Event
<1> QED
  BY <1>1 DEF TypeOK, CreateEvent

\* A read step leaves a well-typed request.
LEMMA LoadType ==
  ASSUME TypeOK, NEW h \in Handlers, NEW b \in Bookings, NEW ok \in BOOLEAN,
         NEW to \in Status, NEW role \in Role, NEW enqueue \in BOOLEAN,
         Load(h, b, ok, to, role, enqueue)
  PROVE  TypeOK'
<1> DEFINE r == [pc |-> "validated", booking |-> b,
                 version |-> booking[b].version, from |-> booking[b].status,
                 to |-> to, role |-> role, enqueue |-> enqueue]
<1>1. booking[b].version \in Nat /\ booking[b].status \in Status \cup {NoStatus}
  BY DEF TypeOK, Booking
<1>2. r \in Request /\ Answered \in Request
  BY <1>1 DEF Request, Writing, Answered
<1>3. req' \in [Handlers -> Request]
  BY <1>2 DEF TypeOK, Load
<1> QED
  BY <1>3 DEF TypeOK, Load

\* Every handler that begins with a read begins with Load, and none asks
\* for paid.
LEMMA ReadStep ==
  ASSUME NEW h \in Handlers, NEW b \in Bookings,
         \/ AcceptBooking(h, b) \/ DeclineBooking(h, b) \/ CancelBooking(h, b)
         \/ CompleteBooking(h, b) \/ NoShowBooking(h, b)
         \/ CreatePaymentIntent(h, b)
  PROVE  \E ok \in BOOLEAN, to \in Status \ {"paid"}, role \in Role,
            enqueue \in BOOLEAN :
           /\ Load(h, b, ok, to, role, enqueue)
           /\ ok => CanTransition(booking[b].status, to)
<1> USE StatusFacts
<1> DEFINE Goal == \E ok \in BOOLEAN, to \in Status \ {"paid"},
                      role \in Role, enqueue \in BOOLEAN :
                     /\ Load(h, b, ok, to, role, enqueue)
                     /\ ok => CanTransition(booking[b].status, to)
<1>1. ASSUME NEW to \in Status \ {"paid"}, NEW by \in Role, NEW role \in Role,
             NEW hasReason \in BOOLEAN, NEW enqueue \in BOOLEAN,
             Load(h, b, Valid(b, to, by, hasReason), to, role, enqueue)
      PROVE  Goal
  <2>1. Valid(b, to, by, hasReason) \in BOOLEAN
    BY DEF Valid, ValidateTransition, CanTransition
  <2>2. Valid(b, to, by, hasReason) => CanTransition(booking[b].status, to)
    BY DEF Valid, ValidateTransition
  <2> QED
    BY <1>1, <2>1, <2>2
<1>2. CASE AcceptBooking(h, b)
  BY <1>1, <1>2 DEF AcceptBooking
<1>3. CASE DeclineBooking(h, b)
  BY <1>1, <1>3 DEF DeclineBooking
<1>4. CASE CancelBooking(h, b)
  <2>1. \A late, free \in BOOLEAN : \A role : RefundDue(role, late, free) \in BOOLEAN
    BY DEF RefundDue
  <2> QED
    BY <1>1, <1>4, <2>1 DEF CancelBooking
<1>5. CASE CompleteBooking(h, b)
  BY <1>1, <1>5 DEF CompleteBooking
<1>6. CASE NoShowBooking(h, b)
  BY <1>1, <1>6 DEF NoShowBooking
<1>7. CASE CreatePaymentIntent(h, b)
  <2>1. booking[b].status = "accepted"
          => CanTransition(booking[b].status, "awaiting_payment")
    BY DEF CanTransition, AllowedTransitions
  <2> QED
    BY <1>7, <2>1 DEF CreatePaymentIntent
<1> QED
  BY <1>2, <1>3, <1>4, <1>5, <1>6, <1>7

\* TypeOK is inductive by itself: it holds at the start ...
LEMMA TypeInit == Init => TypeOK
<1> SUFFICES ASSUME Init PROVE TypeOK
  OBVIOUS
<1>1. [status |-> NoStatus, version |-> 0] \in Booking
  BY DEF Booking
<1>2. Idle \in Request
  BY DEF Idle, Request
<1> QED
  BY <1>1, <1>2 DEF Init, TypeOK

\* ... and every step preserves it.
LEMMA TypeStep == TypeOK /\ [Next]_vars => TypeOK'
<1> SUFFICES ASSUME TypeOK, [Next]_vars PROVE TypeOK'
  OBVIOUS
<1> USE StatusFacts
<1>1. ASSUME NEW h \in Handlers, NEW b \in Bookings, CreateBooking(h, b)
      PROVE  TypeOK'
  <2> DEFINE r == [pc |-> "validated", booking |-> b, version |-> 0,
                   from |-> NoStatus, to |-> "pending", role |-> "traveler",
                   enqueue |-> TRUE]
  <2>1. r \in Request
    BY DEF Request, Writing
  <2>2. AfterCommit(r) \in Request
    BY <2>1, AfterCommitType
  <2>3. booking' \in [Bookings -> Booking]
    BY <1>1, UpdateStatusType DEF CreateBooking
  <2>4. events' \in [Bookings -> Seq(Event)]
    BY <1>1, CreateEventType DEF CreateBooking
  <2>5. req' \in [Handlers -> Request]
    BY <1>1, <2>2 DEF CreateBooking, TypeOK
  <2> QED
    BY <1>1, <2>3, <2>4, <2>5 DEF CreateBooking, TypeOK
<1>2. ASSUME NEW h \in Handlers, NEW b \in Bookings,
             \/ AcceptBooking(h, b) \/ DeclineBooking(h, b)
             \/ CancelBooking(h, b) \/ CompleteBooking(h, b)
             \/ NoShowBooking(h, b) \/ CreatePaymentIntent(h, b)
      PROVE  TypeOK'
  BY <1>2, ReadStep, LoadType
<1>3. ASSUME NEW h \in Handlers, Commit(h)
      PROVE  TypeOK'
  <2>1. req[h] \in Request /\ req[h].pc = "validated"
    BY <1>3 DEF Commit, TypeOK
  <2>2. AfterCommit(req[h]) \in Request
    BY <2>1, AfterCommitType
  <2>3. booking' \in [Bookings -> Booking]
    BY <1>3, <2>1, RequestFields, UpdateStatusType DEF Commit
  <2>4. events' \in [Bookings -> Seq(Event)]
    BY <1>3, <2>1, RequestFields, CreateEventType DEF Commit
  <2>5. req' \in [Handlers -> Request]
    BY <1>3, <2>2 DEF Commit, TypeOK
  <2> QED
    BY <1>3, <2>3, <2>4, <2>5 DEF Commit, TypeOK
<1>4. ASSUME NEW h \in Handlers, Conflict(h) \/ Respond(h) \/ Lost(h)
      PROVE  TypeOK'
  <2>1. Idle \in Request /\ Answered \in Request
    BY DEF Idle, Answered, Request
  <2> QED
    BY <1>4, <2>1 DEF Conflict, Respond, Lost, TypeOK
<1>5. ASSUME NEW h \in Handlers, Enqueue(h)
      PROVE  TypeOK'
  <2>1. Idle \in Request
    BY DEF Idle, Request
  <2>2. req[h] \in Request /\ req[h].pc = "committed"
    BY <1>5 DEF Enqueue, TypeOK
  <2>3. req[h].booking \in Bookings
    BY <2>2, RequestFields
  <2>4. req[h].to \in Announced
    BY <2>2, RequestFields
  <2>5. [name |-> JobName[req[h].to], booking |-> req[h].booking] \in Job
    BY <2>3, <2>4 DEF Job
  <2> QED
    BY <1>5, <2>1, <2>5 DEF Enqueue, TypeOK
<1>6. ASSUME NEW w \in Workers, ScanExpired(w)
      PROVE  TypeOK'
  <2>1. {[booking |-> b, version |-> booking[b].version] : b \in Expired}
          \in SUBSET Loaded
    BY DEF Expired, TypeOK, Booking, Loaded
  <2> QED
    BY <1>6, <2>1 DEF ScanExpired, TypeOK
<1>7. ASSUME NEW w \in Workers, ExpireNext(w)
      PROVE  TypeOK'
  <2>1. PICK l \in expiry[w] :
          /\ UpdateStatus(l.booking, "expired")
          /\ CreateEvent(l.booking, "pending", "expired", "system")
          /\ expiry' = [expiry EXCEPT ![w] = @ \ {l}]
          /\ UNCHANGED <<overdue, req, queue>>
    BY <1>7 DEF ExpireNext
  <2>2. l.booking \in Bookings
    BY DEF TypeOK, Loaded
  <2>3. booking' \in [Bookings -> Booking]
    BY <2>1, <2>2, UpdateStatusType
  <2>4. events' \in [Bookings -> Seq(Event)]
    BY <2>1, <2>2, CreateEventType
  <2>5. expiry' \in [Workers -> SUBSET Loaded]
    BY <2>1 DEF TypeOK
  <2> QED
    BY <2>1, <2>3, <2>4, <2>5 DEF TypeOK
<1>8. ASSUME NEW w \in Workers, ExpiryConflict(w) \/ WorkerCrash(w)
      PROVE  TypeOK'
  BY <1>8 DEF ExpiryConflict, WorkerCrash, TypeOK
<1>9. ASSUME NEW b \in Bookings, TimePasses(b)
      PROVE  TypeOK'
  BY <1>9 DEF TimePasses, TypeOK
<1>10. ASSUME NEW b \in Bookings, ReconcilePayment(b)
       PROVE  TypeOK'
  BY <1>10, UpdateStatusType DEF ReconcilePayment, TypeOK
<1>11. CASE UNCHANGED vars
  BY <1>11 DEF vars, TypeOK
<1> QED
  BY <1>1, <1>2, <1>3, <1>4, <1>5, <1>6, <1>7, <1>8, <1>9, <1>10, <1>11
  DEF Next, Handler, ExpiryJob

\* Every reachable state is well typed.
THEOREM TypeCorrect == Spec => []TypeOK
BY TypeInit, TypeStep, PTL DEF Spec

-----------------------------------------------------------------------------
(* The optimistic lock                                                     *)

\* What UpdateStatus does to a row, in a form that needs no EXCEPT.
LEMMA UpdateStatusEffect ==
  ASSUME TypeOK, NEW b \in Bookings, NEW to, UpdateStatus(b, to)
  PROVE  /\ booking'[b].status = to
         /\ booking'[b].version = booking[b].version + 1
         /\ booking[b].version \in Nat
         /\ \A c \in Bookings : c # b => booking'[c] = booking[c]
BY DEF TypeOK, UpdateStatus, Booking

\* Every row but one stays, and that one gets a version nobody has read: what
\* others remember of it is betrayed.
LEMMA WriteKeepsReadsDetectable ==
  ASSUME TypeOK, StaleReadsAreDetectable, NEW b \in Bookings, NEW to,
         UpdateStatus(b, to),
         \A h \in Handlers : req'[h].pc = "validated" => req'[h] = req[h],
         \A w \in Workers : expiry'[w] \subseteq expiry[w]
  PROVE  StaleReadsAreDetectable'
<1>1. \A c \in Bookings :
        /\ booking[c].version \in Nat
        /\ booking'[c].version \in Nat
        /\ booking[c].version <= booking'[c].version
        /\ booking[c].version = booking'[c].version => booking'[c] = booking[c]
  BY UpdateStatusEffect DEF TypeOK, Booking
<1>2. ASSUME NEW h \in Handlers, req'[h].pc = "validated"
      PROVE  /\ req'[h].version <= booking'[req'[h].booking].version
             /\ req'[h].version = booking'[req'[h].booking].version
                  => req'[h].from = booking'[req'[h].booking].status
             /\ CanTransition(req'[h].from, req'[h].to)
  <2>1. req'[h] = req[h]
    BY <1>2
  <2>2. req[h].booking \in Bookings /\ req[h].version \in Nat
    BY <1>2, <2>1, RequestFields DEF TypeOK
  <2>3. /\ req[h].version <= booking[req[h].booking].version
        /\ req[h].version = booking[req[h].booking].version
             => req[h].from = booking[req[h].booking].status
        /\ CanTransition(req[h].from, req[h].to)
    BY <1>2, <2>1 DEF StaleReadsAreDetectable
  <2> QED
    BY <1>1, <2>1, <2>2, <2>3
<1>3. ASSUME NEW w \in Workers, NEW l \in expiry'[w]
      PROVE  /\ l.version <= booking'[l.booking].version
             /\ l.version = booking'[l.booking].version
                  => booking'[l.booking].status = "pending"
  <2>1. l \in expiry[w]
    BY <1>3
  <2>2. l.booking \in Bookings /\ l.version \in Nat
    BY <2>1 DEF TypeOK, Loaded
  <2>3. /\ l.version <= booking[l.booking].version
        /\ l.version = booking[l.booking].version
             => booking[l.booking].status = "pending"
    BY <2>1 DEF StaleReadsAreDetectable
  <2> QED
    BY <1>1, <2>2, <2>3
<1> QED
  BY <1>2, <1>3 DEF StaleReadsAreDetectable

\* A step that neither writes a row nor reads one leaves the invariant alone.
LEMMA NoReadKeepsReadsDetectable ==
  ASSUME StaleReadsAreDetectable, UNCHANGED booking,
         \A h \in Handlers : req'[h].pc = "validated" => req'[h] = req[h],
         \A w \in Workers : expiry'[w] \subseteq expiry[w]
  PROVE  StaleReadsAreDetectable'
BY DEF StaleReadsAreDetectable

\* For a handler that moves on from h, the others keep what they hold.
LEMMA OnlyHandler ==
  ASSUME TypeOK, NEW h \in Handlers, NEW r, r.pc # "validated",
         req' = [req EXCEPT ![h] = r]
  PROVE  \A g \in Handlers : req'[g].pc = "validated" => req'[g] = req[g]
BY DEF TypeOK

\* Nothing has been read at the start ...
LEMMA LockInit == Init => StaleReadsAreDetectable
BY DEF Init, StaleReadsAreDetectable, Idle

\* ... and every step of a well-typed state keeps stale reads detectable.
LEMMA LockStep ==
  TypeOK /\ StaleReadsAreDetectable /\ [Next]_vars => StaleReadsAreDetectable'
<1> SUFFICES ASSUME TypeOK, StaleReadsAreDetectable, [Next]_vars
             PROVE  StaleReadsAreDetectable'
  OBVIOUS
<1>1. ASSUME NEW h \in Handlers, NEW b \in Bookings, CreateBooking(h, b)
      PROVE  StaleReadsAreDetectable'
  <2> DEFINE r == [pc |-> "validated", booking |-> b, version |-> 0,
                   from |-> NoStatus, to |-> "pending", role |-> "traveler",
                   enqueue |-> TRUE]
  <2>1. r \in Request /\ r.pc = "validated"
    BY StatusFacts DEF Request, Writing
  <2>2. AfterCommit(r).pc # "validated"
    BY <2>1, AfterCommitType
  <2>3. req' = [req EXCEPT ![h] = AfterCommit(r)] /\ UNCHANGED expiry
    BY <1>1 DEF CreateBooking
  <2>4. \A g \in Handlers : req'[g].pc = "validated" => req'[g] = req[g]
    BY <2>2, <2>3, OnlyHandler
  <2>5. UpdateStatus(b, "pending")
    BY <1>1 DEF CreateBooking
  <2> QED
    BY <2>3, <2>4, <2>5, WriteKeepsReadsDetectable
<1>2. ASSUME NEW h \in Handlers, NEW b \in Bookings,
             \/ AcceptBooking(h, b) \/ DeclineBooking(h, b)
             \/ CancelBooking(h, b) \/ CompleteBooking(h, b)
             \/ NoShowBooking(h, b) \/ CreatePaymentIntent(h, b)
      PROVE  StaleReadsAreDetectable'
  <2>1. PICK ok \in BOOLEAN, to \in Status, role \in Role,
             enqueue \in BOOLEAN :
          /\ Load(h, b, ok, to, role, enqueue)
          /\ ok => CanTransition(booking[b].status, to)
    BY <1>2, ReadStep
  <2>2. UNCHANGED <<booking, expiry>>
    BY <2>1 DEF Load
  <2>3. booking[b].version \in Nat
    BY DEF TypeOK, Booking
  <2>4. ASSUME NEW g \in Handlers, req'[g].pc = "validated"
        PROVE  /\ req'[g].version <= booking'[req'[g].booking].version
               /\ req'[g].version = booking'[req'[g].booking].version
                    => req'[g].from = booking'[req'[g].booking].status
               /\ CanTransition(req'[g].from, req'[g].to)
    <3>1. CASE g = h
      <4>1. req'[h] = IF ok
               THEN [pc |-> "validated", booking |-> b,
                     version |-> booking[b].version,
                     from |-> booking[b].status, to |-> to, role |-> role,
                     enqueue |-> enqueue]
               ELSE Answered
        BY <2>1 DEF Load, TypeOK
      <4>2. ok
        BY <2>4, <3>1, <4>1 DEF Answered
      <4> QED
        BY <2>1, <2>2, <2>3, <3>1, <4>1, <4>2
    <3>2. CASE g # h
      <4>1. req'[g] = req[g]
        BY <2>1, <3>2 DEF Load, TypeOK
      <4> QED
        BY <2>2, <2>4, <4>1 DEF StaleReadsAreDetectable
    <3> QED
      BY <3>1, <3>2
  <2> QED
    BY <2>2, <2>4 DEF StaleReadsAreDetectable
<1>3. ASSUME NEW h \in Handlers, Commit(h)
      PROVE  StaleReadsAreDetectable'
  <2>1. req[h] \in Request /\ req[h].pc = "validated"
    BY <1>3 DEF Commit, TypeOK
  <2>2. AfterCommit(req[h]).pc # "validated"
    BY <2>1, AfterCommitType
  <2>3. /\ req' = [req EXCEPT ![h] = AfterCommit(req[h])]
        /\ UNCHANGED expiry
        /\ UpdateStatus(req[h].booking, req[h].to)
    BY <1>3 DEF Commit
  <2>4. \A g \in Handlers : req'[g].pc = "validated" => req'[g] = req[g]
    BY <2>2, <2>3, OnlyHandler
  <2> QED
    BY <2>1, <2>3, <2>4, RequestFields, WriteKeepsReadsDetectable
<1>4. ASSUME NEW h \in Handlers,
             Conflict(h) \/ Respond(h) \/ Lost(h) \/ Enqueue(h)
      PROVE  StaleReadsAreDetectable'
  <2>1. Idle.pc # "validated" /\ Answered.pc # "validated"
    BY DEF Idle, Answered
  <2>2. \A g \in Handlers : req'[g].pc = "validated" => req'[g] = req[g]
    BY <1>4, <2>1, OnlyHandler DEF Conflict, Respond, Lost, Enqueue
  <2> QED
    BY <1>4, <2>2, NoReadKeepsReadsDetectable
    DEF Conflict, Respond, Lost, Enqueue
<1>5. ASSUME NEW w \in Workers, ScanExpired(w)
      PROVE  StaleReadsAreDetectable'
  <2>1. UNCHANGED <<booking, req>>
    BY <1>5 DEF ScanExpired
  <2>2. ASSUME NEW v \in Workers, NEW l \in expiry'[v]
        PROVE  /\ l.version <= booking[l.booking].version
               /\ l.version = booking[l.booking].version
                    => booking[l.booking].status = "pending"
    <3>1. CASE v = w
      <4>1. PICK b \in Expired :
              l = [booking |-> b, version |-> booking[b].version]
        BY <1>5, <3>1 DEF ScanExpired, TypeOK
      <4> QED
        BY <4>1 DEF Expired, TypeOK, Booking
    <3>2. CASE v # w
      <4>1. expiry'[v] = expiry[v]
        BY <1>5, <3>2 DEF ScanExpired, TypeOK
      <4> QED
        BY <4>1 DEF StaleReadsAreDetectable
    <3> QED
      BY <3>1, <3>2
  <2> QED
    BY <2>1, <2>2 DEF StaleReadsAreDetectable
<1>6. ASSUME NEW w \in Workers, ExpireNext(w)
      PROVE  StaleReadsAreDetectable'
  <2>1. PICK l \in expiry[w] :
          /\ UpdateStatus(l.booking, "expired")
          /\ expiry' = [expiry EXCEPT ![w] = @ \ {l}]
          /\ UNCHANGED req
    BY <1>6 DEF ExpireNext
  <2>2. l.booking \in Bookings
    BY DEF TypeOK, Loaded
  <2>3. \A v \in Workers : expiry'[v] \subseteq expiry[v]
    BY <2>1 DEF TypeOK
  <2> QED
    BY <2>1, <2>2, <2>3, WriteKeepsReadsDetectable
<1>7. ASSUME NEW w \in Workers, ExpiryConflict(w) \/ WorkerCrash(w)
      PROVE  StaleReadsAreDetectable'
  <2>1. \A v \in Workers : expiry'[v] \subseteq expiry[v]
    BY <1>7 DEF ExpiryConflict, WorkerCrash, TypeOK
  <2> QED
    BY <1>7, <2>1, NoReadKeepsReadsDetectable DEF ExpiryConflict, WorkerCrash
<1>8. ASSUME NEW b \in Bookings, TimePasses(b)
      PROVE  StaleReadsAreDetectable'
  BY <1>8, NoReadKeepsReadsDetectable DEF TimePasses
<1>9. ASSUME NEW b \in Bookings, ReconcilePayment(b)
      PROVE  StaleReadsAreDetectable'
  BY <1>9, WriteKeepsReadsDetectable DEF ReconcilePayment
<1>10. CASE UNCHANGED vars
  BY <1>10, NoReadKeepsReadsDetectable DEF vars
<1> QED
  BY <1>1, <1>2, <1>3, <1>4, <1>5, <1>6, <1>7, <1>8, <1>9, <1>10
  DEF Next, Handler, ExpiryJob

\* The version check makes every stale read detectable (StaleReadsAreDetectable
\* is inductive relative to TypeOK).
THEOREM LockIsSound == Spec => []StaleReadsAreDetectable
BY LockInit, LockStep, TypeCorrect, PTL DEF Spec

-----------------------------------------------------------------------------
(* What a step can do to the tables                                        *)

\* A write that logs where it starts from and where it ends.
LoggedMove(b, to, role) ==
  /\ \/ booking[b].status = NoStatus /\ to = "pending"
     \/ CanTransition(booking[b].status, to)
  /\ UpdateStatus(b, to)
  /\ CreateEvent(b, booking[b].status, to, role)

\* Every step of a handler or of the expiry job that touches a booking is a
\* logged move from its current status; the others leave both tables alone.
LEMMA LoggedStep ==
  ASSUME TypeOK, StaleReadsAreDetectable,
         \/ \E h \in Handlers : Handler(h)
         \/ \E w \in Workers : ExpiryJob(w)
         \/ \E b \in Bookings : TimePasses(b)
  PROVE  \/ \E b \in Bookings, to \in Status, role \in Role :
              LoggedMove(b, to, role)
         \/ UNCHANGED <<booking, events>>
<1> USE StatusFacts
<1>1. ASSUME NEW h \in Handlers, NEW b \in Bookings, CreateBooking(h, b)
      PROVE  LoggedMove(b, "pending", "traveler")
  BY <1>1 DEF CreateBooking, LoggedMove
<1>2. ASSUME NEW h \in Handlers, Commit(h)
      PROVE  \E b \in Bookings, to \in Status, role \in Role :
               LoggedMove(b, to, role)
  <2>1. req[h] \in Request /\ req[h].pc = "validated"
    BY <1>2 DEF Commit, TypeOK
  <2>2. /\ req[h].booking \in Bookings
        /\ req[h].to \in Status
        /\ req[h].role \in Role
    BY <2>1, RequestFields
  <2>3. /\ req[h].from = booking[req[h].booking].status
        /\ CanTransition(req[h].from, req[h].to)
    BY <1>2, <2>1 DEF Commit, VersionMatches, StaleReadsAreDetectable
  <2>4. LoggedMove(req[h].booking, req[h].to, req[h].role)
    BY <1>2, <2>3 DEF Commit, LoggedMove
  <2> QED
    BY <2>2, <2>4
<1>3. ASSUME NEW w \in Workers, ExpireNext(w)
      PROVE  \E b \in Bookings : LoggedMove(b, "expired", "system")
  <2>1. PICK l \in expiry[w] :
          /\ VersionMatches(l.booking, l.version)
          /\ UpdateStatus(l.booking, "expired")
          /\ CreateEvent(l.booking, "pending", "expired", "system")
    BY <1>3 DEF ExpireNext
  <2>2. l.booking \in Bookings
    BY DEF TypeOK, Loaded
  <2>3. booking[l.booking].status = "pending"
    BY <2>1 DEF VersionMatches, StaleReadsAreDetectable
  <2>4. CanTransition("pending", "expired")
    BY DEF CanTransition, AllowedTransitions
  <2> QED
    BY <2>1, <2>2, <2>3, <2>4 DEF LoggedMove
<1>4. ASSUME NEW h \in Handlers, NEW b \in Bookings,
             \/ AcceptBooking(h, b) \/ DeclineBooking(h, b)
             \/ CancelBooking(h, b) \/ CompleteBooking(h, b)
             \/ NoShowBooking(h, b) \/ CreatePaymentIntent(h, b)
      PROVE  UNCHANGED <<booking, events>>
  BY <1>4, ReadStep DEF Load
<1>5. ASSUME NEW h \in Handlers,
             Conflict(h) \/ Enqueue(h) \/ Respond(h) \/ Lost(h)
      PROVE  UNCHANGED <<booking, events>>
  BY <1>5 DEF Conflict, Enqueue, Respond, Lost
<1>6. ASSUME NEW w \in Workers,
             ScanExpired(w) \/ ExpiryConflict(w) \/ WorkerCrash(w)
      PROVE  UNCHANGED <<booking, events>>
  BY <1>6 DEF ScanExpired, ExpiryConflict, WorkerCrash
<1>7. ASSUME NEW b \in Bookings, TimePasses(b)
      PROVE  UNCHANGED <<booking, events>>
  BY <1>7 DEF TimePasses
<1> QED
  BY <1>1, <1>2, <1>3, <1>4, <1>5, <1>6, <1>7 DEF Handler, ExpiryJob

\* The only step that is neither is a reconciliation.
LEMMA StepShape ==
  ASSUME TypeOK, StaleReadsAreDetectable, [Next]_vars
  PROVE  \/ \E b \in Bookings, to \in Status, role \in Role :
              LoggedMove(b, to, role)
         \/ /\ Reconciling
            /\ \E b \in Bookings : UpdateStatus(b, "confirmed")
            /\ UNCHANGED events
         \/ UNCHANGED <<booking, events>>
<1>1. ASSUME NEW b \in Bookings, ReconcilePayment(b)
      PROVE  /\ Reconciling
             /\ UpdateStatus(b, "confirmed")
             /\ UNCHANGED events
  BY <1>1 DEF ReconcilePayment
<1>2. CASE UNCHANGED vars
  BY <1>2 DEF vars
<1> QED
  BY <1>1, <1>2, LoggedStep DEF Next

\* What CreateEvent does to the log of a booking, in a form that needs no
\* EXCEPT.
LEMMA CreateEventEffect ==
  ASSUME TypeOK, NEW b \in Bookings, NEW from, NEW to, NEW role,
         CreateEvent(b, from, to, role)
  PROVE  LET e == [from |-> from, to |-> to, role |-> role]
         IN  /\ events[b] \in Seq(Event)
             /\ events'[b] = Append(events[b], e)
             /\ Len(events'[b]) = Len(events[b]) + 1
             /\ events'[b][Len(events'[b])] = e
             /\ \A i \in 1..Len(events[b]) : events'[b][i] = events[b][i]
             /\ \A c \in Bookings : c # b => events'[c] = events[c]
<1> DEFINE e == [from |-> from, to |-> to, role |-> role]
<1>1. events[b] \in Seq(Event)
  BY DEF TypeOK
<1>2. events'[b] = Append(events[b], e)
  BY DEF TypeOK, CreateEvent
<1>3. \A c \in Bookings : c # b => events'[c] = events[c]
  BY DEF TypeOK, CreateEvent
<1>4. /\ Len(events'[b]) = Len(events[b]) + 1
      /\ events'[b][Len(events'[b])] = e
      /\ \A i \in 1..Len(events[b]) : events'[b][i] = events[b][i]
  BY <1>1, <1>2
<1> QED
  BY <1>1, <1>2, <1>3, <1>4

-----------------------------------------------------------------------------
(* The event log                                                           *)

\* Every event starts from the status the row had and ends in the one it gets,
\* although its writer had read the row earlier (LoggedFromIsActual).
THEOREM LogIsFaithful == Spec => LoggedFromIsActual
<1> DEFINE A == \A b \in Bookings : events'[b] # events[b] =>
                  LET e == events'[b][Len(events'[b])]
                  IN  /\ e.from = booking[b].status
                      /\ e.to = booking'[b].status
<1>1. TypeOK /\ StaleReadsAreDetectable /\ [Next]_vars => A
  <2> SUFFICES ASSUME TypeOK, StaleReadsAreDetectable, [Next]_vars
               PROVE  A
    OBVIOUS
  <2>1. ASSUME NEW b \in Bookings, NEW to \in Status, NEW role \in Role,
               LoggedMove(b, to, role)
        PROVE  A
    <3>1. /\ booking'[b].status = to
          /\ events'[b][Len(events'[b])]
               = [from |-> booking[b].status, to |-> to, role |-> role]
          /\ \A c \in Bookings : c # b => events'[c] = events[c]
      BY <2>1, UpdateStatusEffect, CreateEventEffect DEF LoggedMove
    <3> QED
      BY <3>1
  <2>2. CASE UNCHANGED events
    BY <2>2
  <2> QED
    BY <2>1, <2>2, StepShape
<1> QED
  BY <1>1, TypeCorrect, LockIsSound, PTL DEF Spec, LoggedFromIsActual

\* While nobody reconciles, the event log of every booking is complete: one
\* event per version, chained, ending in the current status.
THEOREM LogIsComplete == ~Reconciling => (Spec => []EventLogIsComplete)
<1> SUFFICES ASSUME ~Reconciling PROVE Spec => []EventLogIsComplete
  OBVIOUS
<1>1. Init => EventLogIsComplete
  BY DEF Init, EventLogIsComplete, LogIsChain
<1>2. /\ TypeOK /\ StaleReadsAreDetectable
      /\ EventLogIsComplete /\ [Next]_vars
      => EventLogIsComplete'
  <2> SUFFICES ASSUME TypeOK, StaleReadsAreDetectable, EventLogIsComplete,
                      [Next]_vars
               PROVE  EventLogIsComplete'
    OBVIOUS
  <2>1. ASSUME NEW b \in Bookings, NEW to \in Status, NEW role \in Role,
               LoggedMove(b, to, role)
        PROVE  EventLogIsComplete'
    <3> DEFINE e == [from |-> booking[b].status, to |-> to, role |-> role]
    <3>1. /\ booking'[b].status = to
          /\ booking'[b].version = booking[b].version + 1
          /\ \A c \in Bookings : c # b => booking'[c] = booking[c]
      BY <2>1, UpdateStatusEffect DEF LoggedMove
    <3>2. /\ events[b] \in Seq(Event)
          /\ Len(events'[b]) = Len(events[b]) + 1
          /\ events'[b][Len(events'[b])] = e
          /\ \A i \in 1..Len(events[b]) : events'[b][i] = events[b][i]
          /\ \A c \in Bookings : c # b => events'[c] = events[c]
      BY <2>1, CreateEventEffect DEF LoggedMove
    <3>3. LogIsChain(b)
      BY DEF EventLogIsComplete
    <3>4. LogIsChain(b)'
      <4>1. Len(events'[b]) = booking'[b].version
        BY <3>1, <3>2, <3>3 DEF LogIsChain
      <4>2. ASSUME NEW i \in 1..Len(events'[b])
            PROVE  events'[b][i].from
                     = IF i = 1 THEN NoStatus ELSE events'[b][i - 1].to
        <5>1. Len(events[b]) \in Nat
          BY <3>2
        <5>2. CASE i = Len(events'[b])
          <6>1. events'[b][i].from = booking[b].status
            BY <3>2, <5>2
          <6>2. i # 1 => events[b] # <<>> /\ i - 1 = Len(events[b])
                          /\ i - 1 \in 1..Len(events[b])
            BY <3>2, <5>1, <5>2
          <6>3. i = 1 => events[b] = <<>>
            BY <3>2, <5>1, <5>2
          <6> QED
            BY <3>2, <3>3, <6>1, <6>2, <6>3 DEF LogIsChain
        <5>3. CASE i # Len(events'[b])
          <6>1. i \in 1..Len(events[b])
                  /\ (i # 1 => i - 1 \in 1..Len(events[b]))
            BY <3>2, <5>1, <5>3
          <6> QED
            BY <3>2, <3>3, <6>1 DEF LogIsChain
        <5> QED
          BY <5>2, <5>3
      <4>3. events'[b] # <<>>
        BY <3>2
      <4>4. booking'[b].status = events'[b][Len(events'[b])].to
        BY <3>1, <3>2
      <4> QED
        BY <4>1, <4>2, <4>3, <4>4 DEF LogIsChain
    <3>5. ASSUME NEW c \in Bookings, c # b
          PROVE  LogIsChain(c)'
      BY <3>1, <3>2, <3>5 DEF EventLogIsComplete, LogIsChain
    <3> QED
      BY <3>4, <3>5 DEF EventLogIsComplete
  <2>2. CASE UNCHANGED <<booking, events>>
    BY <2>2 DEF EventLogIsComplete, LogIsChain
  <2> QED
    BY <2>1, <2>2, StepShape
<1> QED
  BY <1>1, <1>2, TypeCorrect, LockIsSound, PTL DEF Spec

-----------------------------------------------------------------------------
(* What the log rules out                                                  *)

\* How far into its life a status is.  Every transition leads further.
Stage(s) ==
  CASE s = NoStatus           -> 0
    [] s = "pending"          -> 1
    [] s = "accepted"         -> 2
    [] s = "awaiting_payment" -> 3
    [] s = "paid"             -> 4
    [] s = "confirmed"        -> 5
    [] s = "in_progress"      -> 6
    [] OTHER                  -> 7

\* The state machine has no cycle.
LEMMA TransitionsClimb ==
  /\ \A s : Stage(s) \in Nat
  /\ \A from, to : CanTransition(from, to) => Stage(from) < Stage(to)
  /\ Stage(NoStatus) < Stage("pending")
<1>1. \A s : Stage(s) \in 0..7
  BY DEF Stage
<1>2. ASSUME NEW from, NEW to, CanTransition(from, to)
      PROVE  Stage(from) < Stage(to)
  BY <1>2, SMTT(60) DEF CanTransition, AllowedTransitions, Stage, NoStatus
<1>3. Stage(NoStatus) < Stage("pending")
  BY DEF Stage, NoStatus
<1> QED
  BY <1>1, <1>2, <1>3

\* The strengthening of StatusEnteredOnce: a log climbs, and has come no
\* further than its booking.
LogsClimb ==
  \A b \in Bookings :
    /\ \A i \in 1..Len(events[b]) :
         Stage(events[b][i].to) <= Stage(booking[b].status)
    /\ \A i, j \in 1..Len(events[b]) :
         i < j => Stage(events[b][i].to) < Stage(events[b][j].to)

\* While nobody reconciles, no log enters a status twice: of two requests that
\* race for the same change of a booking at most one succeeds, and none is
\* ever repeated later (StatusEnteredOnce).
THEOREM EnteredOnce == ~Reconciling => (Spec => []StatusEnteredOnce)
<1> SUFFICES ASSUME ~Reconciling PROVE Spec => []StatusEnteredOnce
  OBVIOUS
<1>1. Init => LogsClimb
  BY DEF Init, LogsClimb
<1>2. /\ TypeOK /\ StaleReadsAreDetectable
      /\ LogsClimb /\ [Next]_vars
      => LogsClimb'
  <2> SUFFICES ASSUME TypeOK, StaleReadsAreDetectable, LogsClimb, [Next]_vars
               PROVE  LogsClimb'
    OBVIOUS
  <2>1. ASSUME NEW b \in Bookings, NEW to \in Status, NEW role \in Role,
               LoggedMove(b, to, role)
        PROVE  LogsClimb'
    <3> DEFINE e == [from |-> booking[b].status, to |-> to, role |-> role]
               n == Len(events[b])
    <3>1. /\ booking'[b].status = to
          /\ \A c \in Bookings : c # b => booking'[c] = booking[c]
      BY <2>1, UpdateStatusEffect DEF LoggedMove
    <3>2. /\ events[b] \in Seq(Event)
          /\ Len(events'[b]) = Len(events[b]) + 1
          /\ events'[b][Len(events'[b])] = e
          /\ \A i \in 1..Len(events[b]) : events'[b][i] = events[b][i]
          /\ \A c \in Bookings : c # b => events'[c] = events[c]
      BY <2>1, CreateEventEffect DEF LoggedMove
    <3>3. Stage(booking[b].status) < Stage(to)
      BY <2>1, TransitionsClimb DEF LoggedMove
    <3>4. n \in Nat
      BY <3>2
    <3>5. ASSUME NEW i \in 1..n
          PROVE  Stage(events'[b][i].to) < Stage(to)
      <4>1. Stage(events[b][i].to) <= Stage(booking[b].status)
        BY DEF LogsClimb
      <4> QED
        BY <3>2, <3>3, <4>1, TransitionsClimb
    <3>6. ASSUME NEW i \in 1..Len(events'[b])
          PROVE  Stage(events'[b][i].to) <= Stage(booking'[b].status)
      <4>1. i \in 1..n \/ i = n + 1
        BY <3>2, <3>4
      <4> QED
        BY <3>1, <3>2, <3>5, <4>1, TransitionsClimb
    <3>7. ASSUME NEW i \in 1..Len(events'[b]), NEW j \in 1..Len(events'[b]), i < j
          PROVE  Stage(events'[b][i].to) < Stage(events'[b][j].to)
      <4>1. i \in 1..n /\ (j \in 1..n \/ j = n + 1)
        BY <3>2, <3>4, <3>7
      <4>2. CASE j \in 1..n
        BY <3>2, <3>7, <4>1, <4>2 DEF LogsClimb
      <4>3. CASE j = n + 1
        BY <3>2, <3>5, <4>1, <4>3
      <4> QED
        BY <4>1, <4>2, <4>3
    <3>8. ASSUME NEW c \in Bookings, c # b
          PROVE  events'[c] = events[c] /\ booking'[c] = booking[c]
      BY <3>1, <3>2, <3>8
    <3> QED
      BY <3>6, <3>7, <3>8 DEF LogsClimb
  <2>2. CASE UNCHANGED <<booking, events>>
    BY <2>2 DEF LogsClimb
  <2> QED
    BY <2>1, <2>2, StepShape
<1>3. TypeOK /\ LogsClimb => StatusEnteredOnce
  <2> SUFFICES ASSUME TypeOK, LogsClimb,
                      NEW b \in Bookings,
                      NEW i \in DOMAIN events[b], NEW j \in DOMAIN events[b],
                      events[b][i].to = events[b][j].to, i # j
               PROVE  FALSE
    BY DEF StatusEnteredOnce
  <2>1. /\ events[b] \in Seq(Event)
        /\ i \in 1..Len(events[b]) /\ j \in 1..Len(events[b])
    BY DEF TypeOK
  <2>2. i < j \/ j < i
    BY <2>1
  <2>3. Stage(events[b][i].to) < Stage(events[b][j].to)
          \/ Stage(events[b][j].to) < Stage(events[b][i].to)
    BY <2>1, <2>2 DEF LogsClimb
  <2>4. Stage(events[b][i].to) = Stage(events[b][j].to)
    OBVIOUS
  <2> QED
    BY <2>3, <2>4, TransitionsClimb
<1> QED
  BY <1>1, <1>2, <1>3, TypeCorrect, LockIsSound, PTL DEF Spec

-----------------------------------------------------------------------------
(* Jobs                                                                    *)

\* A log says that its booking has been in a status.
HasEntered(log, to) == \E i \in DOMAIN log : log[i].to = to

\* Logging a move is remembering where it went ...
LEMMA MoveIsEntered ==
  ASSUME TypeOK, NEW b \in Bookings, NEW from, NEW to, NEW role,
         CreateEvent(b, from, to, role)
  PROVE  HasEntered(events'[b], to)
<1> DEFINE e == [from |-> from, to |-> to, role |-> role]
<1>1. /\ events[b] \in Seq(Event)
      /\ events'[b] = Append(events[b], e)
      /\ events'[b][Len(events'[b])] = e
      /\ Len(events'[b]) = Len(events[b]) + 1
  BY CreateEventEffect
<1>2. Len(events'[b]) \in DOMAIN events'[b]
  BY <1>1
<1> QED
  BY <1>1, <1>2 DEF HasEntered

\* ... and nothing is ever forgotten.
LEMMA EnteredStaysEntered ==
  ASSUME TypeOK, StaleReadsAreDetectable, [Next]_vars,
         NEW b \in Bookings, NEW to, HasEntered(events[b], to)
  PROVE  HasEntered(events'[b], to)
<1>1. ASSUME NEW c \in Bookings, NEW s \in Status, NEW role \in Role,
             LoggedMove(c, s, role)
      PROVE  HasEntered(events'[b], to)
  <2>1. /\ events[c] \in Seq(Event)
        /\ Len(events'[c]) = Len(events[c]) + 1
        /\ events'[c] = Append(events[c], [from |-> booking[c].status,
                                           to |-> s, role |-> role])
        /\ \A i \in 1..Len(events[c]) : events'[c][i] = events[c][i]
        /\ \A d \in Bookings : d # c => events'[d] = events[d]
    BY <1>1, CreateEventEffect DEF LoggedMove
  <2>2. DOMAIN events[c] \subseteq DOMAIN events'[c]
    BY <2>1
  <2> QED
    BY <2>1, <2>2 DEF HasEntered
<1>2. CASE UNCHANGED events
  BY <1>2 DEF HasEntered
<1> QED
  BY <1>1, <1>2, StepShape

\* A request that comes to hold a job has just logged what the job announces.
LEMMA CommittedHasLogged ==
  ASSUME TypeOK, [Next]_vars,
         NEW h \in Handlers, req'[h].pc = "committed", req'[h] # req[h]
  PROVE  HasEntered(events'[req'[h].booking], req'[h].to)
<1> USE StatusFacts
<1>1. ASSUME NEW r \in Request, r.pc = "validated",
             AfterCommit(r).pc = "committed"
      PROVE  AfterCommit(r).booking = r.booking /\ AfterCommit(r).to = r.to
  BY <1>1, RequestFields DEF AfterCommit, Idle
<1>2. ASSUME NEW b \in Bookings, CreateBooking(h, b)
      PROVE  HasEntered(events'[req'[h].booking], req'[h].to)
  <2> DEFINE r == [pc |-> "validated", booking |-> b, version |-> 0,
                   from |-> NoStatus, to |-> "pending", role |-> "traveler",
                   enqueue |-> TRUE]
  <2>1. r \in Request /\ r.pc = "validated"
    BY DEF Request, Writing
  <2>2. req'[h] = AfterCommit(r)
    BY <1>2 DEF CreateBooking, TypeOK
  <2>3. req'[h].booking = b /\ req'[h].to = "pending"
    BY <1>1, <2>1, <2>2
  <2> QED
    BY <1>2, <2>3, MoveIsEntered DEF CreateBooking
<1>3. CASE Commit(h)
  <2>1. req[h] \in Request /\ req[h].pc = "validated"
    BY <1>3 DEF Commit, TypeOK
  <2>2. req'[h] = AfterCommit(req[h])
    BY <1>3 DEF Commit, TypeOK
  <2>3. req'[h].booking = req[h].booking /\ req'[h].to = req[h].to
    BY <1>1, <2>1, <2>2
  <2>4. req[h].booking \in Bookings
    BY <2>1, RequestFields
  <2> QED
    BY <1>3, <2>3, <2>4, MoveIsEntered DEF Commit
<1>4. ASSUME NEW b \in Bookings,
             \/ AcceptBooking(h, b) \/ DeclineBooking(h, b)
             \/ CancelBooking(h, b) \/ CompleteBooking(h, b)
             \/ NoShowBooking(h, b) \/ CreatePaymentIntent(h, b)
      PROVE  FALSE
  BY <1>4, ReadStep DEF Load, TypeOK, Answered
<1>5. CASE Conflict(h) \/ Enqueue(h) \/ Respond(h) \/ Lost(h)
  BY <1>5 DEF Conflict, Enqueue, Respond, Lost, TypeOK, Idle, Answered
<1>6. ASSUME NEW g \in Handlers, g # h, Handler(g)
      PROVE  FALSE
  <2>1. ASSUME NEW b \in Bookings,
               \/ AcceptBooking(g, b) \/ DeclineBooking(g, b)
               \/ CancelBooking(g, b) \/ CompleteBooking(g, b)
               \/ NoShowBooking(g, b) \/ CreatePaymentIntent(g, b)
        PROVE  FALSE
    BY <1>6, <2>1, ReadStep DEF Load, TypeOK
  <2> QED
    BY <1>6, <2>1
    DEF Handler, CreateBooking, Commit, Conflict, Enqueue, Respond, Lost, TypeOK
<1>7. ASSUME \/ \E w \in Workers : ExpiryJob(w)
             \/ \E b \in Bookings : TimePasses(b) \/ ReconcilePayment(b)
             \/ UNCHANGED vars
      PROVE  FALSE
  BY <1>7 DEF ExpiryJob, ScanExpired, ExpireNext, ExpiryConflict, WorkerCrash,
              TimePasses, ReconcilePayment, vars
<1> QED
  BY <1>2, <1>3, <1>4, <1>5, <1>6, <1>7 DEF Next, Handler

\* The queue grows only by the job of a request that has committed.
LEMMA QueueStep ==
  ASSUME [Next]_vars
  PROVE  \/ UNCHANGED queue
         \/ \E h \in Handlers :
              /\ req[h].pc = "committed"
              /\ queue' = queue \cup {[name |-> JobName[req[h].to],
                                       booking |-> req[h].booking]}
<1>1. ASSUME NEW h \in Handlers, NEW b \in Bookings,
             \/ AcceptBooking(h, b) \/ DeclineBooking(h, b)
             \/ CancelBooking(h, b) \/ CompleteBooking(h, b)
             \/ NoShowBooking(h, b) \/ CreatePaymentIntent(h, b)
      PROVE  UNCHANGED queue
  BY <1>1, ReadStep DEF Load
<1>2. ASSUME NEW h \in Handlers, NEW b \in Bookings, CreateBooking(h, b)
      PROVE  UNCHANGED queue
  BY <1>2 DEF CreateBooking
<1>3. ASSUME NEW h \in Handlers, Enqueue(h)
      PROVE  /\ req[h].pc = "committed"
             /\ queue' = queue \cup {[name |-> JobName[req[h].to],
                                      booking |-> req[h].booking]}
  BY <1>3 DEF Enqueue
<1>4. ASSUME NEW h \in Handlers,
             Commit(h) \/ Conflict(h) \/ Respond(h) \/ Lost(h)
      PROVE  UNCHANGED queue
  BY <1>4 DEF Commit, Conflict, Respond, Lost
<1>5. ASSUME NEW w \in Workers, ExpiryJob(w)
      PROVE  UNCHANGED queue
  BY <1>5 DEF ExpiryJob, ScanExpired, ExpireNext, ExpiryConflict, WorkerCrash
<1>6. ASSUME NEW b \in Bookings, TimePasses(b) \/ ReconcilePayment(b)
      PROVE  UNCHANGED queue
  BY <1>6 DEF TimePasses, ReconcilePayment
<1>7. CASE UNCHANGED vars
  BY <1>7 DEF vars
<1> QED
  BY <1>1, <1>2, <1>3, <1>4, <1>5, <1>6, <1>7 DEF Next, Handler

\* The strengthening of JobsMatchLog: a request that still has to enqueue its
\* job has logged what the job will say.
JobsAreLogged ==
  /\ \A h \in Handlers : req[h].pc = "committed"
       => HasEntered(events[req[h].booking], req[h].to)
  /\ \A j \in queue : \E to \in Announced :
       JobName[to] = j.name /\ HasEntered(events[j.booking], to)

\* Nobody is told, or refunded, what has not been committed to the log; not
\* even when reconciliation writes behind the log's back (JobsMatchLog).
THEOREM JobsAreTrue == Spec => []JobsMatchLog
<1>1. Init => JobsAreLogged
  BY DEF Init, JobsAreLogged, Idle
<1>2. /\ TypeOK /\ StaleReadsAreDetectable
      /\ JobsAreLogged /\ [Next]_vars
      => JobsAreLogged'
  <2> SUFFICES ASSUME TypeOK, StaleReadsAreDetectable, JobsAreLogged, [Next]_vars
               PROVE  JobsAreLogged'
    OBVIOUS
  <2>1. ASSUME NEW h \in Handlers, req'[h].pc = "committed"
        PROVE  HasEntered(events'[req'[h].booking], req'[h].to)
    <3>1. CASE req'[h] = req[h]
      <4>1. HasEntered(events[req[h].booking], req[h].to) /\ req[h].booking \in Bookings
        BY <2>1, <3>1, RequestFields DEF JobsAreLogged, TypeOK
      <4> QED
        BY <3>1, <4>1, EnteredStaysEntered
    <3>2. CASE req'[h] # req[h]
      BY <2>1, <3>2, CommittedHasLogged
    <3> QED
      BY <3>1, <3>2
  <2>2. ASSUME NEW j \in queue'
        PROVE  \E to \in Announced : JobName[to] = j.name /\ HasEntered(events'[j.booking], to)
    <3>1. ASSUME NEW h \in Handlers, req[h].pc = "committed",
                 j = [name |-> JobName[req[h].to], booking |-> req[h].booking]
          PROVE  \E to \in Announced :
                   JobName[to] = j.name /\ HasEntered(events[j.booking], to)
      BY <3>1, RequestFields DEF JobsAreLogged, TypeOK
    <3>2. \E to \in Announced :
            JobName[to] = j.name /\ HasEntered(events[j.booking], to)
      BY <2>2, <3>1, QueueStep DEF JobsAreLogged
    <3>3. j.booking \in Bookings
      <4>1. CASE j \in queue
        BY <4>1 DEF TypeOK, Job
      <4>2. CASE j \notin queue
        BY <2>2, <4>2, QueueStep, RequestFields DEF TypeOK
      <4> QED
        BY <4>1, <4>2
    <3> QED
      BY <3>2, <3>3, EnteredStaysEntered
  <2> QED
    BY <2>1, <2>2 DEF JobsAreLogged
<1>3. JobsAreLogged => JobsMatchLog
  BY DEF JobsAreLogged, JobsMatchLog, HasEntered
<1> QED
  BY <1>1, <1>2, <1>3, TypeCorrect, LockIsSound, PTL DEF Spec

-----------------------------------------------------------------------------
(* Refinement                                                              *)

\* The state machine of BookingLifecycle is the one the handlers consult.
LEMMA SameStateMachine ==
  /\ Lifecycle!NoStatus = NoStatus
  /\ Lifecycle!Status = Status
  /\ \A from, to : Lifecycle!CanTransition(from, to) <=> CanTransition(from, to)
<1>1. Lifecycle!AllowedTransitions = AllowedTransitions
  BY DEF Lifecycle!AllowedTransitions, AllowedTransitions
<1>2. Lifecycle!Terminal = Terminal
  BY DEF Lifecycle!Terminal, Terminal
<1> QED
  BY <1>1, <1>2 DEF Lifecycle!NoStatus, NoStatus, Lifecycle!Status, Status,
                    Lifecycle!CanTransition, CanTransition

\* The statuses entered, read off a log: a sequence, which grows with the log.
LEMMA EnteredProperties ==
  ASSUME NEW s \in Seq(Event), NEW e \in Event
  PROVE  /\ [i \in DOMAIN s |-> s[i].to] \in Seq(Status)
         /\ [i \in DOMAIN Append(s, e) |-> Append(s, e)[i].to]
              = Append([i \in DOMAIN s |-> s[i].to], e.to)
<1> DEFINE t == [i \in DOMAIN s |-> s[i].to]
           u == [i \in DOMAIN Append(s, e) |-> Append(s, e)[i].to]
<1>1. DOMAIN s = 1..Len(s) /\ Len(s) \in Nat
  OBVIOUS
<1>2. t \in [1..Len(s) -> Status]
  <2>1. ASSUME NEW i \in 1..Len(s)
        PROVE  s[i].to \in Status
    <3>1. s[i] \in Event
      BY <1>1, <2>1
    <3> QED
      BY <3>1 DEF Event
  <2>2. t = [i \in 1..Len(s) |-> s[i].to]
    BY <1>1
  <2> QED
    BY <2>1, <2>2
<1>3. t \in Seq(Status) /\ Len(t) = Len(s)
  BY <1>1, <1>2, SeqDef
<1>4. DOMAIN u = 1..Len(s) + 1
  BY <1>1
<1>5. /\ Append(t, e.to) \in Seq(Status)
      /\ DOMAIN Append(t, e.to) = 1..Len(s) + 1
  BY <1>3 DEF Event
<1>6. ASSUME NEW i \in 1..Len(s) + 1
      PROVE  u[i] = Append(t, e.to)[i]
  BY <1>1, <1>3, <1>4
<1> HIDE DEF t, u
<1>7. u = Append(t, e.to)
  <2>1. u = [i \in DOMAIN u |-> u[i]]
    BY DEF u
  <2>2. Append(t, e.to) = [i \in 1..Len(s) + 1 |-> Append(t, e.to)[i]]
    BY <1>5
  <2> QED
    BY <1>4, <1>6, <2>1, <2>2
<1> QED
  BY <1>3, <1>7 DEF t, u

\* While nobody reconciles, the handlers and the expiry job, with all their
\* interleavings, implement BookingLifecycle.
THEOREM ImplementsLifecycle == ~Reconciling => (Spec => LifecycleSpec)
<1> SUFFICES ASSUME ~Reconciling PROVE Spec => LifecycleSpec
  OBVIOUS
<1> DEFINE status == [b \in Bookings |-> booking[b].status]
           history == [b \in Bookings |->
                         [i \in DOMAIN events[b] |-> events[b][i].to]]
<1>1. Init => Lifecycle!Init
  <2> SUFFICES ASSUME Init PROVE Lifecycle!Init
    OBVIOUS
  <2>1. status = [b \in Bookings |-> NoStatus]
    BY DEF Init
  <2>2. history = [b \in Bookings |-> <<>>]
    <3>1. \A b \in Bookings : events[b] = <<>>
      BY DEF Init
    <3>2. [i \in DOMAIN <<>> |-> <<>>[i].to] = <<>>
      OBVIOUS
    <3> QED
      BY <3>1, <3>2
  <2> QED
    BY <2>1, <2>2, SameStateMachine DEF Lifecycle!Init
<1>2. TypeOK /\ StaleReadsAreDetectable /\ [Next]_vars
        => [Lifecycle!Next]_<<status, history>>
  <2> SUFFICES ASSUME TypeOK, StaleReadsAreDetectable, [Next]_vars
               PROVE  [Lifecycle!Next]_<<status, history>>
    OBVIOUS
  <2>1. ASSUME NEW b \in Bookings, NEW to \in Status, NEW role \in Role,
               LoggedMove(b, to, role)
        PROVE  Lifecycle!Next
    <3>1. status' = [status EXCEPT ![b] = to]
      BY <2>1, UpdateStatusEffect DEF LoggedMove
    <3>2. history' = [history EXCEPT ![b] = Append(@, to)]
      <4> DEFINE e == [from |-> booking[b].status, to |-> to, role |-> role]
      <4>1. /\ events[b] \in Seq(Event)
            /\ events'[b] = Append(events[b], e)
            /\ \A c \in Bookings : c # b => events'[c] = events[c]
        BY <2>1, CreateEventEffect DEF LoggedMove
      <4>2. history'[b] = Append(history[b], to)
        <5>1. e \in Event
          BY DEF Event, TypeOK, Booking
        <5>2. history'[b] = [i \in DOMAIN Append(events[b], e) |->
                               Append(events[b], e)[i].to]
          BY <4>1
        <5> QED
          BY <4>1, <5>1, <5>2, EnteredProperties
      <4> QED
        BY <4>1, <4>2
    <3>3. Lifecycle!Enter(b, to)
      BY <3>1, <3>2 DEF Lifecycle!Enter
    <3>4. status[b] = booking[b].status
      OBVIOUS
    <3>5. CASE booking[b].status = NoStatus /\ to = "pending"
      BY <3>3, <3>4, <3>5, SameStateMachine
      DEF Lifecycle!Next, Lifecycle!Create
    <3>6. CASE CanTransition(booking[b].status, to)
      BY <3>3, <3>4, <3>6, SameStateMachine
      DEF Lifecycle!Next, Lifecycle!Move
    <3> QED
      BY <2>1, <3>5, <3>6 DEF LoggedMove
  <2>2. CASE UNCHANGED <<booking, events>>
    BY <2>2
  <2> QED
    BY <2>1, <2>2, StepShape
<1> QED
  BY <1>1, <1>2, TypeCorrect, LockIsSound, PTL
  DEF Spec, LifecycleSpec, Lifecycle!Spec
=============================================================================
