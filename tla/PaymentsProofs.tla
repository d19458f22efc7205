-------------------------- MODULE PaymentsProofs --------------------------
(***************************************************************************)
(* Proofs about Payments, for any sets of bookings, handlers, workers,     *)
(* intents and deliveries, with reconciliation or without; and about       *)
(* Refunds, for any sets of refunds and requests on top of those.          *)
(***************************************************************************)
EXTENDS Refunds, BookingsProofs, SumsProofs

-----------------------------------------------------------------------------
(* Payments implement what bookings expect of them                         *)

\* No booking is ever in paid, nor is any handler about to put one there.
NeverPaid ==
  /\ \A b \in Bookings : booking[b].status # "paid"
  /\ \A h \in Handlers : req[h].pc = "validated" => req[h].to # "paid"

\* The steps that the payments component shares with the bookings component
\* are steps of the latter ...
LEMMA SharedStep ==
  ASSUME NEW h \in Handlers,
         \/ Commit(h) \/ Conflict(h) \/ Respond(h) \/ Lost(h)
         \/ \E b \in Bookings : CreatePaymentIntent(h, b)
  PROVE  Handler(h)
BY DEF Handler

\* ... simulatePayment only ever refuses ...
LEMMA SimulateStep ==
  ASSUME NEW h \in Handlers, NEW b \in Bookings, SimulatePayment(h, b)
  PROVE  Handler(h)
<1>1. ~(/\ booking[b].status \in {"accepted", "awaiting_payment"}
        /\ Valid(b, "confirmed", "system", FALSE))
  BY DEF Valid, ValidateTransition, CanTransition, AllowedTransitions, Terminal
<1>2. CASE booking[b].status # "accepted"
  <2>1. CreatePaymentIntent(h, b)
    BY <1>1, <1>2 DEF SimulatePayment, CreatePaymentIntent, Load
  <2> QED
    BY <2>1 DEF Handler
<1>3. CASE booking[b].status = "accepted"
  <2>1. ~Valid(b, "no_show", "provider", FALSE)
    BY <1>3 DEF Valid, ValidateTransition, CanTransition, AllowedTransitions
  <2>2. NoShowBooking(h, b)
    BY <1>1, <2>1 DEF SimulatePayment, NoShowBooking, Load
  <2> QED
    BY <2>2 DEF Handler
<1> QED
  BY <1>2, <1>3

\* ... and the webhook leaves bookings alone, for want of a booking in paid.
LEMMA ConfirmStep ==
  ASSUME NeverPaid, NEW b \in Bookings, ConfirmBooking(b)
  PROVE  UNCHANGED <<booking, events>>
<1>1. ~Valid(b, "confirmed", "system", FALSE)
  BY DEF NeverPaid, Valid, ValidateTransition, CanTransition,
         AllowedTransitions, Terminal
<1> QED
  BY <1>1 DEF ConfirmBooking

-----------------------------------------------------------------------------
(* Type correctness                                                        *)

\* The ids of existing rows are row ids.
LEMMA RowsType ==
  ASSUME PayTypeOK
  PROVE  /\ Rows \subseteq RowId
         /\ \A r \in Rows : Row(r) \in Payment
<1>1. ASSUME NEW b \in Bookings, NEW k \in DOMAIN payments[b]
      PROVE  k \in Nat \ {0} /\ payments[b][k] \in Payment
  <2>1. payments[b] \in Seq(Payment)
    BY DEF PayTypeOK
  <2> QED
    BY <2>1
<1> QED
  BY <1>1 DEF Rows, RowId, Row

\* Looking a row up by its intent finds rows.
LEMMA FindType ==
  ASSUME PayTypeOK, NEW i
  PROVE  FindByStripeIntentId(i) \in SUBSET RowId
BY RowsType DEF FindByStripeIntentId

\* updateStatus changes neither the number of rows nor their intents.
LEMMA UpdatePaymentStatusEffect ==
  ASSUME PayTypeOK, NEW rows, NEW status \in PaymentStatus,
         UpdatePaymentStatus(rows, status)
  PROVE  /\ payments' \in [Bookings -> Seq(Payment)]
         /\ \A b \in Bookings : Len(payments'[b]) = Len(payments[b])
<1>1. ASSUME NEW b \in Bookings
      PROVE  /\ payments'[b] \in Seq(Payment)
             /\ Len(payments'[b]) = Len(payments[b])
  <2> DEFINE n == Len(payments[b])
  <2>1. /\ payments[b] \in Seq(Payment)
        /\ n \in Nat
        /\ DOMAIN payments[b] = 1..n
    BY DEF PayTypeOK
  <2>2. payments'[b] =
          [k \in DOMAIN payments[b] |->
            IF <<b, k>> \in rows
              THEN [intent |-> payments[b][k].intent, status |-> status]
              ELSE payments[b][k]]
    BY DEF UpdatePaymentStatus
  <2>3. \A k \in 1..n : payments[b][k] \in Payment
    BY <2>1
  <2>4. payments'[b] \in [1..n -> Payment]
    BY <2>1, <2>2, <2>3 DEF Payment
  <2> QED
    BY <2>1, <2>4, SeqDef, LenProperties
<1>2. DOMAIN payments' = Bookings
  BY DEF UpdatePaymentStatus
<1>3. payments' = [b \in Bookings |-> payments'[b]]
  BY DEF UpdatePaymentStatus
<1> QED
  BY <1>1, <1>3

\* Saving a payment appends a first row or overwrites one that is there.
LEMMA SavePaymentEffect ==
  ASSUME PayTypeOK, NEW p \in PayRequest, p.pc = "loaded", SavePayment(p)
  PROVE  /\ payments' \in [Bookings -> Seq(Payment)]
         /\ Len(payments'[p.booking]) = IF p.existing = 0
                                          THEN Len(payments[p.booking]) + 1
                                          ELSE Len(payments[p.booking])
         /\ \A c \in Bookings : c # p.booking => payments'[c] = payments[c]
<1> DEFINE b == p.booking
           row == [intent |-> p.intent, status |-> "requires_payment_method"]
<1>1. b \in Bookings /\ p.existing \in Nat /\ p.intent \in Intents
  BY DEF PayRequest, NotPaying
<1>2. row \in Payment
  BY <1>1 DEF Payment, PaymentStatus
<1>3. payments[b] \in Seq(Payment) /\ payments \in [Bookings -> Seq(Payment)]
  BY <1>1 DEF PayTypeOK
<1>4. /\ Append(payments[b], row) \in Seq(Payment)
      /\ Len(Append(payments[b], row)) = Len(payments[b]) + 1
  BY <1>2, <1>3
<1>5. /\ [payments[b] EXCEPT ![p.existing] = row] \in Seq(Payment)
      /\ Len([payments[b] EXCEPT ![p.existing] = row]) = Len(payments[b])
  <2> DEFINE s == payments[b]
             n == Len(s)
             t == [s EXCEPT ![p.existing] = row]
  <2>1. s \in [1..n -> Payment] /\ n \in Nat
    BY <1>3, LenProperties
  <2>2. t \in [1..n -> Payment]
    BY <1>2, <2>1
  <2> QED
    BY <2>1, <2>2, SeqDef, LenProperties
<1> QED
  BY <1>1, <1>3, <1>4, <1>5 DEF SavePayment

\* The steps of createPaymentIntent.
LEMMA PaymentStepType ==
  ASSUME PayTypeOK, NEW h \in Handlers, PaymentStep(h)
  PROVE  PayTypeOK'
<1>0. NotPaying \in PayRequest
  BY DEF PayRequest
<1>1. ASSUME NEW b \in Bookings, StartPayment(h, b)
      PROVE  PayTypeOK'
  <2>1. [pc |-> "started", booking |-> b] \in PayRequest
    BY DEF PayRequest
  <2>2. pay' \in [Handlers -> PayRequest]
    BY <1>0, <1>1, <2>1 DEF StartPayment, PayTypeOK
  <2> QED
    BY <1>1, <2>2 DEF StartPayment, PayTypeOK, stripe
<1>2. ASSUME NEW b \in Bookings, SimulatePayment(h, b)
      PROVE  PayTypeOK'
  BY <1>2 DEF SimulatePayment, PayTypeOK, backend, stripe
<1>3. CASE LoadPayment(h)
  <2> DEFINE b == pay[h].booking
             existing == Len(payments[b])
  <2>1. pay[h] \in PayRequest /\ pay[h].pc = "started"
    BY <1>3 DEF LoadPayment, PayTypeOK
  <2>2. b \in Bookings
    BY <2>1 DEF PayRequest, NotPaying
  <2>3. existing \in Nat
    BY <2>2 DEF PayTypeOK
  <2>4. PICK i \in Intents :
          /\ intent' = IF i \in Unused
                         THEN [intent EXCEPT ![i] = [status |-> "open", booking |-> b]]
                         ELSE intent
          /\ pay' = [pay EXCEPT ![h] = [pc |-> "loaded", booking |-> b,
                                        intent |-> i, existing |-> existing]]
    BY <1>3 DEF LoadPayment, Unused, IntentsOf
  <2>5. [pc |-> "loaded", booking |-> b, intent |-> i, existing |-> existing]
          \in PayRequest
    BY <2>2, <2>3 DEF PayRequest
  <2>6. pay' \in [Handlers -> PayRequest]
    BY <2>4, <2>5 DEF PayTypeOK
  <2>7. [status |-> "open", booking |-> b] \in Intent
    BY <2>2 DEF Intent
  <2>8. intent' \in [Intents -> Intent]
    BY <2>4, <2>7 DEF PayTypeOK
  <2> QED
    BY <1>3, <2>6, <2>8 DEF LoadPayment, PayTypeOK
<1>4. CASE CommitPayment(h)
  <2>1. pay[h] \in PayRequest /\ pay[h].pc = "loaded"
    BY <1>4 DEF CommitPayment, PayTypeOK
  <2>2. payments' \in [Bookings -> Seq(Payment)]
    BY <1>4, <2>1, SavePaymentEffect DEF CommitPayment
  <2>3. pay[h].intent \in Intents
    BY <2>1 DEF PayRequest, NotPaying
  <2> QED
    BY <1>0, <1>4, <2>2, <2>3 DEF CommitPayment, PayTypeOK
<1>5. CASE AbandonPayment(h)
  BY <1>0, <1>5 DEF AbandonPayment, PayTypeOK, stripe
<1> QED
  BY <1>1, <1>2, <1>3, <1>4, <1>5 DEF PaymentStep

\* The steps of a webhook request.
LEMMA WebhookType ==
  ASSUME PayTypeOK, NEW d \in Deliveries, Webhook(d)
  PROVE  PayTypeOK'
<1>0. NoDelivery \in Delivery
  BY DEF Delivery
<1>1. ASSUME NEW e \in sent, Receive(d, e)
      PROVE  PayTypeOK'
  <2>1. [pc |-> "checked", event |-> e] \in Delivery
    BY DEF PayTypeOK, Delivery
  <2> QED
    BY <1>1, <2>1 DEF Receive, PayTypeOK, stripe
<1>2. ASSUME NEW e \in sent, FindPayment(d, e)
      PROVE  PayTypeOK'
  <2>1. FindByStripeIntentId(e[1]) \in SUBSET RowId
    BY FindType
  <2>2. [pc |-> "found", event |-> e, rows |-> FindByStripeIntentId(e[1])]
          \in Delivery
    BY <2>1 DEF PayTypeOK, Delivery
  <2> QED
    BY <1>2, <2>2 DEF FindPayment, PayTypeOK, stripe
<1>3. ASSUME NEW e \in sent, Duplicate(d, e)
      PROVE  PayTypeOK'
  BY <1>0, <1>3 DEF Duplicate, PayTypeOK, stripe
<1>4. ASSUME NEW e \in sent, NEW status \in PaymentStatus, Settle(d, e, status)
      PROVE  PayTypeOK'
  <2>1. payments' \in [Bookings -> Seq(Payment)]
    BY <1>4, UpdatePaymentStatusEffect DEF Settle
  <2>2. [pc |-> "committed", event |-> e] \in Delivery
    BY DEF PayTypeOK, Delivery
  <2>3. delivery' \in [Deliveries -> Delivery]
    BY <1>0, <1>4, <2>2 DEF Settle, PayTypeOK
  <2>4. processed' \in SUBSET StripeEvent
    BY <1>4 DEF Settle, PayTypeOK
  <2> QED
    BY <1>4, <2>1, <2>3, <2>4 DEF Settle, PayTypeOK, stripe
<1>5. ASSUME NEW e \in sent,
             SettleFailed(d, e) \/ SettleCanceled(d, e) \/ SettleSucceeded(d, e)
      PROVE  PayTypeOK'
  BY <1>4, <1>5 DEF SettleFailed, SettleCanceled, SettleSucceeded, PaymentStatus
<1>6. CASE SendReceipt(d)
  <2>1. FindByStripeIntentId(delivery[d].event[1]) \in SUBSET RowId
    BY FindType
  <2>2. receipts' \in SUBSET Bookings
    BY <1>6, <2>1 DEF SendReceipt, PayTypeOK, RowId
  <2> QED
    BY <1>0, <1>6, <2>2 DEF SendReceipt, PayTypeOK, stripe
<1>7. CASE DeliveryFails(d)
  BY <1>0, <1>7 DEF DeliveryFails, PayTypeOK, stripe
<1> QED
  BY <1>1, <1>2, <1>3, <1>5, <1>6, <1>7 DEF Webhook

\* Reconciliation.
LEMMA ReconcileType ==
  ASSUME PayTypeOK, Reconcile
  PROVE  PayTypeOK'
<1>1. CASE LoadUnresolved
  <2>1. Unresolved \subseteq RowId /\ \A r \in Unresolved : Row(r).intent \in Intents
    BY RowsType DEF Unresolved, Payment
  <2>2. unresolved' \in SUBSET (RowId \X Intents)
    BY <1>1, <2>1 DEF LoadUnresolved
  <2> QED
    BY <1>1, <2>2 DEF LoadUnresolved, PayTypeOK, stripe
<1>2. CASE ReconcileNext
  <2>1. PICK u \in unresolved :
          /\ UpdatePaymentStatus({u[1]}, "succeeded")
          /\ unresolved' = unresolved \ {u}
          /\ UNCHANGED <<processed, receipts, pay, delivery, stripe>>
    BY <1>2 DEF ReconcileNext
  <2>2. payments' \in [Bookings -> Seq(Payment)]
    BY <2>1, UpdatePaymentStatusEffect DEF PaymentStatus
  <2> QED
    BY <2>1, <2>2 DEF PayTypeOK, stripe
<1>3. CASE ReconcileSkip
  BY <1>3 DEF ReconcileSkip, PayTypeOK, stripe
<1> QED
  BY <1>1, <1>2, <1>3 DEF Reconcile

\* Stripe.
LEMMA StripeType ==
  ASSUME PayTypeOK, NEW i \in Intents, Pay(i) \/ PayFails(i) \/ CancelIntent(i)
  PROVE  PayTypeOK'
<1>1. \A type \in EventType : <<i, type>> \in StripeEvent
  BY DEF StripeEvent
<1>2. ASSUME intent[i].status = "open", NEW status \in {"succeeded", "canceled"}
      PROVE  [intent EXCEPT ![i].status = status] \in [Intents -> Intent]
  <2>1. intent[i] \in Intent
    BY DEF PayTypeOK
  <2>2. intent[i].booking \in Bookings
        /\ intent[i] = [status |-> "open", booking |-> intent[i].booking]
    BY <1>2, <2>1 DEF Intent
  <2>3. [intent[i] EXCEPT !.status = status]
          = [status |-> status, booking |-> intent[i].booking]
    BY <2>2
  <2>4. [intent[i] EXCEPT !.status = status] \in Intent
    BY <2>2, <2>3 DEF Intent
  <2> QED
    BY <2>4 DEF PayTypeOK
<1>3. CASE Pay(i)
  BY <1>1, <1>2, <1>3 DEF Pay, Raise, EventType, PayTypeOK, backend
<1>4. CASE PayFails(i)
  BY <1>1, <1>4 DEF PayFails, Raise, EventType, PayTypeOK, backend
<1>5. CASE CancelIntent(i)
  BY <1>1, <1>2, <1>5 DEF CancelIntent, Raise, EventType, PayTypeOK, backend
<1> QED
  BY <1>3, <1>4, <1>5

\* PayTypeOK is inductive by itself.
LEMMA PayTypeStep == PayTypeOK /\ [PayNext]_payVars => PayTypeOK'
<1> SUFFICES ASSUME PayTypeOK, [PayNext]_payVars PROVE PayTypeOK'
  OBVIOUS
<1>1. CASE BookingStep
  BY <1>1 DEF BookingStep, PayTypeOK, backend, stripe
<1>2. CASE UNCHANGED payVars
  BY <1>2 DEF payVars, PayTypeOK, backend, stripe
<1> QED
  BY <1>1, <1>2, PaymentStepType, WebhookType, ReconcileType, StripeType
  DEF PayNext

\* Every reachable state is well typed.
THEOREM PayTypeCorrect == PaySpec => []PayTypeOK
<1>1. PayInit => PayTypeOK
  BY DEF PayInit, PayTypeOK, PayRequest, NotPaying, Delivery, NoDelivery, Intent
<1> QED
  BY <1>1, PayTypeStep, PTL DEF PaySpec

-----------------------------------------------------------------------------
(* Composition                                                             *)

\* ... which makes a webhook request nothing to the bookings component.
LEMMA WebhookStep ==
  ASSUME NeverPaid, PayTypeOK, NEW d \in Deliveries, Webhook(d)
  PROVE  UNCHANGED vars
<1>1. ASSUME NEW e \in sent, Receive(d, e) \/ FindPayment(d, e) \/ Duplicate(d, e)
      PROVE  UNCHANGED vars
  BY <1>1 DEF Receive, FindPayment, Duplicate
<1>2. ASSUME NEW e \in sent, SettleFailed(d, e) \/ SettleCanceled(d, e)
      PROVE  UNCHANGED vars
  BY <1>2 DEF SettleFailed, SettleCanceled, Settle, vars
<1>3. ASSUME NEW e \in sent, SettleSucceeded(d, e)
      PROVE  UNCHANGED vars
  <2>1. delivery[d] \in Delivery /\ delivery[d].pc = "found"
    BY <1>3 DEF SettleSucceeded, Settle, PayTypeOK
  <2>2. \A r \in delivery[d].rows : r[1] \in Bookings
    BY <2>1 DEF Delivery, NoDelivery, RowId
  <2>3. UNCHANGED <<booking, events>>
    BY <1>3, <2>2, ConfirmStep DEF SettleSucceeded
  <2> QED
    BY <1>3, <2>3 DEF SettleSucceeded, Settle, vars
<1>4. CASE SendReceipt(d) \/ DeliveryFails(d)
  BY <1>4 DEF SendReceipt, DeliveryFails
<1> QED
  BY <1>1, <1>2, <1>3, <1>4 DEF Webhook

\* Whatever happens here is to the bookings component one of its own steps, or
\* nothing at all.
LEMMA RefinementStep ==
  ASSUME NeverPaid, PayTypeOK, [PayNext]_payVars
  PROVE  [Next]_vars
<1>1. CASE BookingStep
  BY <1>1 DEF BookingStep, Next, Handler
<1>2. ASSUME NEW h \in Handlers, PaymentStep(h)
      PROVE  [Next]_vars
  <2>1. ASSUME NEW b \in Bookings, StartPayment(h, b)
        PROVE  Handler(h)
    BY <2>1, SharedStep DEF StartPayment
  <2>2. CASE LoadPayment(h)
    BY <2>2 DEF LoadPayment
  <2>3. CASE CommitPayment(h)
    BY <2>3, SharedStep DEF CommitPayment, Next
  <2>4. CASE AbandonPayment(h)
    BY <2>4, SharedStep DEF AbandonPayment, Next
  <2> QED
    BY <1>2, <2>1, <2>2, <2>3, <2>4, SimulateStep DEF PaymentStep, Next
<1>3. CASE Reconcile
  <2>1. CASE ReconcileNext
    <3>1. PICK u \in unresolved :
            \/ ReconcilePayment(u[1][1])
            \/ UNCHANGED vars
      BY <2>1 DEF ReconcileNext
    <3>2. u[1][1] \in Bookings
      BY DEF PayTypeOK, RowId
    <3> QED
      BY <3>1, <3>2 DEF Next
  <2> QED
    BY <1>3, <2>1 DEF Reconcile, LoadUnresolved, ReconcileSkip
<1>4. ASSUME NEW i \in Intents, Pay(i) \/ PayFails(i) \/ CancelIntent(i)
      PROVE  UNCHANGED vars
  BY <1>4 DEF Pay, PayFails, CancelIntent
<1>5. CASE UNCHANGED payVars
  BY <1>5 DEF payVars
<1> QED
  BY <1>1, <1>2, <1>3, <1>4, <1>5, WebhookStep DEF PayNext

\* No step of the bookings component is towards paid.
LEMMA NeverPaidStep ==
  ASSUME TypeOK, StaleReadsAreDetectable, NeverPaid, [Next]_vars
  PROVE  NeverPaid'
<1> DEFINE Safe(r) == r.pc = "validated" => r.to # "paid"
<1>1. ASSUME NEW h \in Handlers, NEW r, Safe(r), req' = [req EXCEPT ![h] = r],
             NEW b \in Bookings, NEW to, to # "paid", UpdateStatus(b, to)
      PROVE  NeverPaid'
  BY <1>1, UpdateStatusEffect DEF NeverPaid, TypeOK
<1>2. ASSUME NEW h \in Handlers, NEW r, Safe(r), req' = [req EXCEPT ![h] = r],
             UNCHANGED booking
      PROVE  NeverPaid'
  BY <1>2 DEF NeverPaid, TypeOK
<1>3. ASSUME NEW b \in Bookings, NEW to, to # "paid", UpdateStatus(b, to),
             UNCHANGED req
      PROVE  NeverPaid'
  BY <1>3, UpdateStatusEffect DEF NeverPaid
<1>4. ASSUME UNCHANGED <<booking, req>>
      PROVE  NeverPaid'
  BY <1>4 DEF NeverPaid
<1>5. Safe(Idle) /\ Safe(Answered)
  BY DEF Idle, Answered
<1>6. ASSUME NEW h \in Handlers, NEW b \in Bookings, CreateBooking(h, b)
      PROVE  NeverPaid'
  <2> DEFINE r == [pc |-> "validated", booking |-> b, version |-> 0,
                   from |-> NoStatus, to |-> "pending", role |-> "traveler",
                   enqueue |-> TRUE]
  <2>1. r \in Request /\ r.pc = "validated"
    BY StatusFacts DEF Request, Writing
  <2>2. Safe(AfterCommit(r))
    BY <2>1, AfterCommitType
  <2> QED
    BY <1>1, <1>6, <2>2 DEF CreateBooking
<1>7. ASSUME NEW h \in Handlers, NEW b \in Bookings,
             \/ AcceptBooking(h, b) \/ DeclineBooking(h, b)
             \/ CancelBooking(h, b) \/ CompleteBooking(h, b)
             \/ NoShowBooking(h, b) \/ CreatePaymentIntent(h, b)
      PROVE  NeverPaid'
  <2>1. PICK ok \in BOOLEAN, to \in Status \ {"paid"}, role \in Role,
             enqueue \in BOOLEAN :
          Load(h, b, ok, to, role, enqueue)
    BY <1>7, ReadStep
  <2> QED
    BY <1>2, <1>5, <2>1 DEF Load
<1>8. ASSUME NEW h \in Handlers, Commit(h)
      PROVE  NeverPaid'
  <2>1. req[h] \in Request /\ req[h].pc = "validated"
    BY <1>8 DEF Commit, TypeOK
  <2>2. req[h].booking \in Bookings /\ req[h].to # "paid"
    BY <2>1, RequestFields DEF NeverPaid
  <2>3. Safe(AfterCommit(req[h]))
    BY <2>1, AfterCommitType
  <2> QED
    BY <1>1, <1>8, <2>2, <2>3 DEF Commit
<1>9. ASSUME NEW h \in Handlers, Conflict(h) \/ Enqueue(h) \/ Respond(h) \/ Lost(h)
      PROVE  NeverPaid'
  BY <1>2, <1>5, <1>9 DEF Conflict, Enqueue, Respond, Lost
<1>10. ASSUME NEW w \in Workers, ExpireNext(w)
       PROVE  NeverPaid'
  <2>1. PICK l \in expiry[w] : UpdateStatus(l.booking, "expired") /\ UNCHANGED req
    BY <1>10 DEF ExpireNext
  <2>2. l.booking \in Bookings
    BY DEF TypeOK, Loaded
  <2> QED
    BY <1>3, <2>1, <2>2
<1>11. ASSUME NEW w \in Workers,
              ScanExpired(w) \/ ExpiryConflict(w) \/ WorkerCrash(w)
       PROVE  NeverPaid'
  BY <1>4, <1>11 DEF ScanExpired, ExpiryConflict, WorkerCrash
<1>12. ASSUME NEW b \in Bookings, TimePasses(b) \/ ReconcilePayment(b)
       PROVE  NeverPaid'
  BY <1>3, <1>4, <1>12 DEF TimePasses, ReconcilePayment
<1>13. CASE UNCHANGED vars
  BY <1>4, <1>13 DEF vars
<1> QED
  BY <1>6, <1>7, <1>8, <1>9, <1>10, <1>11, <1>12, <1>13
  DEF Next, Handler, ExpiryJob

\* The invariant behind the composition.
CompositionInv == TypeOK /\ StaleReadsAreDetectable /\ NeverPaid

LEMMA CompositionInvariant == PaySpec => [](CompositionInv /\ PayTypeOK)
<1>1. PayInit => CompositionInv
  <2>1. Init => NeverPaid
    BY DEF Init, NeverPaid, NoStatus, Idle
  <2> QED
    BY <2>1, TypeInit, LockInit DEF PayInit, CompositionInv
<1>2. CompositionInv /\ PayTypeOK /\ [PayNext]_payVars => CompositionInv'
  BY RefinementStep, TypeStep, LockStep, NeverPaidStep DEF CompositionInv
<1> QED
  BY <1>1, <1>2, PayTypeCorrect, PTL DEF PaySpec

\* The composition implements the bookings component (BookingsSpec), so that
\* every theorem about it is one about the composition too.
THEOREM ImplementsBookings == PaySpec => BookingsSpec
<1>1. CompositionInv /\ PayTypeOK /\ [PayNext]_payVars => [Next]_vars
  BY RefinementStep DEF CompositionInv
<1>2. PayInit => Init
  BY DEF PayInit
<1> QED
  BY <1>1, <1>2, CompositionInvariant, PTL DEF PaySpec, Spec, BookingsSpec

\* For one: the lock of bookings is sound in the presence of webhooks and of
\* reconciliation.
THEOREM LockIsSoundWithPayments == PaySpec => []StaleReadsAreDetectable
BY ImplementsBookings, LockIsSound, PTL DEF BookingsSpec

-----------------------------------------------------------------------------
(* One payment per booking                                                 *)

\* A booking has at most one payment row, none before it leaves accepted, and
\* one while it awaits payment.
OneRow ==
  \A b \in Bookings :
    /\ Len(payments[b]) <= 1
    /\ Len(payments[b]) > 0 => booking[b].status \notin {NoStatus, "pending", "accepted"}
    /\ booking[b].status = "awaiting_payment" => Len(payments[b]) > 0

\* What a handler in createPaymentIntent knows: it is about to move a booking
\* out of accepted, or the booking had a row before it looked for one.  No
\* other handler is about to move a booking to awaiting_payment.
PayingHandler(h) ==
  LET b == pay[h].booking
  IN  /\ \/ /\ req[h].pc = "validated"
            /\ req[h].booking = b
            /\ req[h].from = "accepted"
            /\ req[h].to = "awaiting_payment"
         \/ /\ req[h] = Answered
            /\ Len(payments[b]) > 0
            /\ pay[h].pc = "loaded" => pay[h].existing > 0
      /\ pay[h].pc = "loaded" => pay[h].existing <= Len(payments[b])

PayingHandlers ==
  \A h \in Handlers :
    IF pay[h] = NotPaying
      THEN req[h].pc = "validated" => req[h].to # "awaiting_payment"
      ELSE PayingHandler(h)

\* What a step of the bookings component's own requests and job leaves alone.
LEMMA BookingStepEffect ==
  ASSUME TypeOK, StaleReadsAreDetectable, PayingHandlers, BookingStep
  PROVE  /\ \/ \E b \in Bookings, to \in Status \ {"awaiting_payment"}, role \in Role :
                LoggedMove(b, to, role)
            \/ UNCHANGED <<booking, events>>
         /\ \A h \in Handlers :
              IF pay[h] = NotPaying
                THEN req'[h].pc = "validated" => req'[h].to # "awaiting_payment"
                ELSE req'[h] = req[h]
<1> DEFINE Moves == \/ \E b \in Bookings, to \in Status \ {"awaiting_payment"}, role \in Role :
                         LoggedMove(b, to, role)
                    \/ UNCHANGED <<booking, events>>
           Keeps == \A h \in Handlers :
                      IF pay[h] = NotPaying
                        THEN req'[h].pc = "validated" => req'[h].to # "awaiting_payment"
                        ELSE req'[h] = req[h]
           Safe(r) == r.pc = "validated" => r.to # "awaiting_payment"
<1> USE StatusFacts
<1>1. ASSUME NEW h \in Handlers, pay[h] = NotPaying, NEW r, Safe(r),
             req' = [req EXCEPT ![h] = r]
      PROVE  Keeps
  BY <1>1 DEF PayingHandlers, TypeOK
<1>2. ASSUME UNCHANGED req
      PROVE  Keeps
  BY <1>2 DEF PayingHandlers
<1>3. Safe(Idle) /\ Safe(Answered)
  BY DEF Idle, Answered
<1>4. ASSUME NEW h \in Handlers, pay[h] = NotPaying,
             NEW b \in Bookings, CreateBooking(h, b)
      PROVE  Moves /\ Keeps
  <2> DEFINE r == [pc |-> "validated", booking |-> b, version |-> 0,
                   from |-> NoStatus, to |-> "pending", role |-> "traveler",
                   enqueue |-> TRUE]
  <2>1. r \in Request /\ r.pc = "validated"
    BY DEF Request, Writing
  <2>2. Safe(AfterCommit(r))
    BY <2>1, AfterCommitType
  <2>3. LoggedMove(b, "pending", "traveler")
    BY <1>4 DEF CreateBooking, LoggedMove
  <2> QED
    BY <1>1, <1>4, <2>2, <2>3 DEF CreateBooking
<1>5. ASSUME NEW h \in Handlers, pay[h] = NotPaying, NEW b \in Bookings,
             NEW ok, NEW to, to # "awaiting_payment", NEW role, NEW enqueue,
             Load(h, b, ok, to, role, enqueue)
      PROVE  Moves /\ Keeps
  BY <1>1, <1>3, <1>5 DEF Load
<1>6. ASSUME NEW h \in Handlers, pay[h] = NotPaying, NEW b \in Bookings,
             \/ AcceptBooking(h, b) \/ DeclineBooking(h, b)
             \/ CancelBooking(h, b) \/ CompleteBooking(h, b)
             \/ NoShowBooking(h, b)
      PROVE  Moves /\ Keeps
  BY <1>5, <1>6 DEF AcceptBooking, DeclineBooking, CancelBooking,
                    CompleteBooking, NoShowBooking
<1>7. ASSUME NEW h \in Handlers, pay[h] = NotPaying, Commit(h)
      PROVE  Moves /\ Keeps
  <2>1. req[h] \in Request /\ req[h].pc = "validated"
    BY <1>7 DEF Commit, TypeOK
  <2>2. /\ req[h].booking \in Bookings
        /\ req[h].to \in Status \ {"awaiting_payment"}
        /\ req[h].role \in Role
    BY <1>7, <2>1, RequestFields DEF PayingHandlers
  <2>3. /\ req[h].from = booking[req[h].booking].status
        /\ CanTransition(req[h].from, req[h].to)
    BY <1>7, <2>1 DEF Commit, VersionMatches, StaleReadsAreDetectable
  <2>4. LoggedMove(req[h].booking, req[h].to, req[h].role)
    BY <1>7, <2>3 DEF Commit, LoggedMove
  <2>5. Safe(AfterCommit(req[h]))
    BY <2>1, AfterCommitType
  <2> QED
    BY <1>1, <1>7, <2>2, <2>4, <2>5 DEF Commit
<1>8. ASSUME NEW h \in Handlers, pay[h] = NotPaying,
             Conflict(h) \/ Enqueue(h) \/ Respond(h) \/ Lost(h)
      PROVE  Moves /\ Keeps
  BY <1>1, <1>3, <1>8 DEF Conflict, Enqueue, Respond, Lost
<1>9. ASSUME NEW w \in Workers, ExpireNext(w)
      PROVE  Moves /\ Keeps
  <2>1. PICK l \in expiry[w] :
          /\ VersionMatches(l.booking, l.version)
          /\ UpdateStatus(l.booking, "expired")
          /\ CreateEvent(l.booking, "pending", "expired", "system")
          /\ UNCHANGED req
    BY <1>9 DEF ExpireNext
  <2>2. l.booking \in Bookings
    BY DEF TypeOK, Loaded
  <2>3. booking[l.booking].status = "pending"
    BY <2>1 DEF VersionMatches, StaleReadsAreDetectable
  <2>4. LoggedMove(l.booking, "expired", "system")
    BY <2>1, <2>3 DEF LoggedMove, CanTransition, AllowedTransitions
  <2> QED
    BY <1>2, <2>1, <2>2, <2>4
<1>10. ASSUME NEW w \in Workers,
              ScanExpired(w) \/ ExpiryConflict(w) \/ WorkerCrash(w)
       PROVE  Moves /\ Keeps
  BY <1>2, <1>10 DEF ScanExpired, ExpiryConflict, WorkerCrash
<1>11. ASSUME NEW b \in Bookings, TimePasses(b)
       PROVE  Moves /\ Keeps
  BY <1>2, <1>11 DEF TimePasses
<1> QED
  BY <1>4, <1>6, <1>7, <1>8, <1>9, <1>10, <1>11 DEF BookingStep, ExpiryJob

LEMMA OneRowStep ==
  ASSUME TypeOK, StaleReadsAreDetectable, NeverPaid, PayTypeOK,
         OneRow, PayingHandlers, [PayNext]_payVars
  PROVE  OneRow' /\ PayingHandlers'
<1> USE StatusFacts
<1>0. ASSUME NEW b \in Bookings
      PROVE  Len(payments[b]) \in Nat
  BY DEF PayTypeOK
<1>1. CASE BookingStep
  <2>1. UNCHANGED <<payments, pay>>
    BY <1>1 DEF BookingStep, backend
  <2>2. ASSUME NEW b \in Bookings, NEW to \in Status \ {"awaiting_payment"},
               NEW role \in Role, LoggedMove(b, to, role)
        PROVE  OneRow'
    <3>1. /\ booking'[b].status = to
          /\ \A c \in Bookings : c # b => booking'[c] = booking[c]
      BY <2>2, UpdateStatusEffect DEF LoggedMove
    <3>2. to \in {"pending", "accepted"}
            => booking[b].status \in {NoStatus, "pending"}
      BY <2>2 DEF LoggedMove, CanTransition, AllowedTransitions
    <3>3. Len(payments[b]) > 0 => to \notin {NoStatus, "pending", "accepted"}
      BY <3>2 DEF OneRow
    <3> QED
      BY <2>1, <3>1, <3>3 DEF OneRow
  <2>3. ASSUME UNCHANGED <<booking, events>>
        PROVE  OneRow'
    BY <2>1, <2>3 DEF OneRow
  <2>4. PayingHandlers'
    <3>1. \A h \in Handlers :
            IF pay[h] = NotPaying
              THEN req'[h].pc = "validated" => req'[h].to # "awaiting_payment"
              ELSE req'[h] = req[h]
      BY <1>1, BookingStepEffect
    <3>2. ASSUME NEW h \in Handlers, pay[h] # NotPaying
          PROVE  PayingHandler(h)'
      <4>1. PayingHandler(h)
        BY <3>2 DEF PayingHandlers
      <4>2. req'[h] = req[h] /\ pay'[h] = pay[h] /\ payments' = payments
        BY <2>1, <3>1, <3>2
      <4> QED
        BY <4>1, <4>2 DEF PayingHandler
    <3> QED
      BY <2>1, <3>1, <3>2 DEF PayingHandlers
  <2> QED
    BY <1>1, <2>2, <2>3, <2>4, BookingStepEffect
<1>2. ASSUME UNCHANGED <<booking, req, pay>>,
             \A b \in Bookings : Len(payments'[b]) = Len(payments[b])
      PROVE  OneRow' /\ PayingHandlers'
  <2>1. \A h \in Handlers : pay[h] # NotPaying => pay[h].booking \in Bookings
    BY DEF PayTypeOK, PayRequest
  <2> QED
    BY <1>2, <2>1 DEF OneRow, PayingHandlers, PayingHandler
<1>3. ASSUME NEW h \in Handlers, NEW r, NEW p,
             req' = [req EXCEPT ![h] = r],
             pay' = [pay EXCEPT ![h] = p],
             UNCHANGED <<booking, payments>>,
             IF p = NotPaying THEN r.pc # "validated" ELSE PayingHandler(h)'
      PROVE  OneRow' /\ PayingHandlers'
  <2>1. OneRow'
    BY <1>3 DEF OneRow
  <2>2. ASSUME NEW g \in Handlers, g # h
        PROVE  req'[g] = req[g] /\ pay'[g] = pay[g]
    BY <1>3, <2>2 DEF TypeOK, PayTypeOK
  <2>3. req'[h] = r /\ pay'[h] = p
    BY <1>3 DEF TypeOK, PayTypeOK
  <2> QED
    BY <1>3, <2>1, <2>2, <2>3 DEF PayingHandlers, PayingHandler
<1>4. ASSUME NEW h \in Handlers, NEW r, r.pc # "validated",
              req' = [req EXCEPT ![h] = r],
              pay' = [pay EXCEPT ![h] = NotPaying],
              UNCHANGED <<booking, payments>>
       PROVE  OneRow' /\ PayingHandlers'
  BY <1>3, <1>4
<1>5. ASSUME NEW h \in Handlers, NEW b \in Bookings, StartPayment(h, b)
      PROVE  OneRow' /\ PayingHandlers'
  <2> DEFINE r == [pc |-> "validated", booking |-> b,
                   version |-> booking[b].version, from |-> booking[b].status,
                   to |-> "awaiting_payment", role |-> "traveler",
                   enqueue |-> FALSE]
             p == [pc |-> "started", booking |-> b]
  <2>1. pay[h] = NotPaying
    BY <1>5 DEF StartPayment, CreatePaymentIntent, Load, PayingHandlers,
                PayingHandler, Idle, Answered
  <2>2. p # NotPaying /\ Answered.pc # "validated"
    BY DEF NotPaying, Answered
  <2>3. UNCHANGED <<booking, payments>>
    BY <1>5 DEF StartPayment, CreatePaymentIntent, Load
  <2>4. CASE booking[b].status = "accepted"
    <3>1. req' = [req EXCEPT ![h] = r] /\ pay' = [pay EXCEPT ![h] = p]
      BY <1>5, <2>4 DEF StartPayment, CreatePaymentIntent, Load
    <3>2. PayingHandler(h)'
      BY <2>4, <3>1 DEF PayingHandler, TypeOK, PayTypeOK
    <3> QED
      BY <1>3, <2>2, <2>3, <3>1, <3>2
  <2>5. CASE booking[b].status = "awaiting_payment"
    <3>1. req' = [req EXCEPT ![h] = Answered] /\ pay' = [pay EXCEPT ![h] = p]
      BY <1>5, <2>5 DEF StartPayment, CreatePaymentIntent, Load
    <3>2. PayingHandler(h)'
      BY <2>3, <2>5, <3>1 DEF PayingHandler, TypeOK, PayTypeOK, OneRow
    <3> QED
      BY <1>3, <2>2, <2>3, <3>1, <3>2
  <2>6. CASE booking[b].status \notin {"accepted", "awaiting_payment"}
    <3>1. req' = [req EXCEPT ![h] = Answered] /\ UNCHANGED pay
      BY <1>5, <2>6 DEF StartPayment, CreatePaymentIntent, Load
    <3>2. pay' = [pay EXCEPT ![h] = NotPaying]
      BY <2>1, <3>1 DEF PayTypeOK
    <3> QED
      BY <1>4, <2>2, <2>3, <3>1, <3>2
  <2> QED
    BY <2>4, <2>5, <2>6
<1>6. ASSUME NEW h \in Handlers, NEW b \in Bookings, SimulatePayment(h, b)
      PROVE  OneRow' /\ PayingHandlers'
  <2>1. ~(/\ booking[b].status \in {"accepted", "awaiting_payment"}
          /\ Valid(b, "confirmed", "system", FALSE))
    BY DEF Valid, ValidateTransition, CanTransition, AllowedTransitions, Terminal
  <2>2. pay[h] = NotPaying
    BY <1>6 DEF SimulatePayment, Load, PayingHandlers, PayingHandler, Idle, Answered
  <2>3. req' = [req EXCEPT ![h] = Answered] /\ UNCHANGED <<booking, payments, pay>>
    BY <1>6, <2>1 DEF SimulatePayment, Load, backend
  <2>4. pay' = [pay EXCEPT ![h] = NotPaying]
    BY <2>2, <2>3 DEF PayTypeOK
  <2>5. Answered.pc # "validated"
    BY DEF Answered
  <2> QED
    BY <1>4, <2>3, <2>4, <2>5
<1>7. ASSUME NEW h \in Handlers, LoadPayment(h)
      PROVE  OneRow' /\ PayingHandlers'
  <2> DEFINE b == pay[h].booking
  <2>1. b \in Bookings /\ pay[h] # NotPaying
    BY <1>7 DEF LoadPayment, PayTypeOK, PayRequest, NotPaying
  <2>2. PICK i \in Intents :
          pay' = [pay EXCEPT ![h] = [pc |-> "loaded", booking |-> b,
                                     intent |-> i, existing |-> Len(payments[b])]]
    BY <1>7 DEF LoadPayment, Unused, IntentsOf
  <2>3. UNCHANGED <<booking, payments, req>>
    BY <1>7 DEF LoadPayment, vars
  <2>4. pay'[h] = [pc |-> "loaded", booking |-> b,
                   intent |-> i, existing |-> Len(payments[b])]
    BY <2>2 DEF PayTypeOK
  <2>5. PayingHandler(h)
    BY <2>1 DEF PayingHandlers
  <2>6. PayingHandler(h)'
    BY <1>0, <2>1, <2>3, <2>4, <2>5 DEF PayingHandler
  <2>7. req' = [req EXCEPT ![h] = req[h]]
    BY <2>3 DEF TypeOK
  <2> QED
    BY <1>3, <2>2, <2>3, <2>6, <2>7 DEF NotPaying
<1>8. ASSUME NEW h \in Handlers, CommitPayment(h)
      PROVE  OneRow' /\ PayingHandlers'
  <2> DEFINE b == pay[h].booking
             p == pay[h]
  <2>1. p \in PayRequest /\ p.pc = "loaded" /\ p # NotPaying
    BY <1>8 DEF CommitPayment, PayTypeOK, NotPaying
  <2>2. b \in Bookings /\ p.existing \in Nat
    BY <2>1 DEF PayRequest
  <2>3. PayingHandler(h)
    BY <2>1 DEF PayingHandlers
  <2>4. /\ Len(payments'[b]) = IF p.existing = 0
                                THEN Len(payments[b]) + 1 ELSE Len(payments[b])
        /\ \A c \in Bookings : c # b => payments'[c] = payments[c]
    BY <1>8, <2>1, SavePaymentEffect DEF CommitPayment
  <2>5. /\ OneRow'
        /\ req'[h].pc # "validated"
        /\ \A g \in Handlers : g # h => req'[g] = req[g]
    <3>1. CASE Commit(h)
      <4>1. req[h] \in Request /\ req[h].pc = "validated"
        BY <3>1 DEF Commit, TypeOK
      <4>2. /\ req[h].booking = b
            /\ req[h].from = "accepted"
            /\ req[h].to = "awaiting_payment"
        BY <2>3, <4>1 DEF PayingHandler, Answered
      <4>3. booking[b].status = "accepted"
        BY <3>1, <4>1, <4>2 DEF Commit, VersionMatches, StaleReadsAreDetectable
      <4>4. Len(payments[b]) = 0 /\ p.existing = 0
        BY <1>0, <2>1, <2>2, <2>3, <4>3 DEF OneRow, PayingHandler
      <4>5. /\ booking'[b].status = "awaiting_payment"
            /\ \A c \in Bookings : c # b => booking'[c] = booking[c]
        BY <2>2, <3>1, <4>2, UpdateStatusEffect DEF Commit
      <4>6. OneRow'
        <5>1. ASSUME NEW c \in Bookings, c # b
              PROVE  booking'[c] = booking[c] /\ payments'[c] = payments[c]
          BY <2>4, <4>5, <5>1
        <5>2. Len(payments'[b]) = 1
          BY <2>4, <4>4
        <5> DEFINE Fine(len, status) ==
              /\ len <= 1
              /\ len > 0 => status \notin {NoStatus, "pending", "accepted"}
              /\ status = "awaiting_payment" => len > 0
        <5>3. Fine(1, "awaiting_payment")
          BY DEF NoStatus
        <5>4. Fine(Len(payments'[b]), booking'[b].status)
          BY <4>5, <5>2, <5>3
        <5>5. ASSUME NEW c \in Bookings, c # b
              PROVE  Fine(Len(payments'[c]), booking'[c].status)
          BY <5>1, <5>5 DEF OneRow
        <5>6. \A c \in Bookings : Fine(Len(payments'[c]), booking'[c].status)
          <6> HIDE DEF Fine
          <6> QED
            BY <5>4, <5>5
        <5> QED
          BY <5>6 DEF OneRow
      <4>7. AfterCommit(req[h]).pc # "validated"
        BY <4>1, AfterCommitType
      <4> QED
        BY <3>1, <4>6, <4>7 DEF Commit, TypeOK
    <3>2. CASE Respond(h)
      <4>1. req[h] = Answered
        BY <3>2 DEF Respond
      <4>2. p.existing > 0 /\ Len(payments[b]) > 0
        BY <2>1, <2>3, <4>1 DEF PayingHandler, Answered
      <4>3. UNCHANGED booking
        BY <3>2 DEF Respond
      <4>4. \A c \in Bookings : Len(payments'[c]) = Len(payments[c])
        BY <2>2, <2>4, <4>2
      <4> QED
        BY <3>2, <4>3, <4>4 DEF OneRow, Respond, TypeOK, Idle
    <3> QED
      BY <1>8, <3>1, <3>2 DEF CommitPayment
  <2>6. /\ pay'[h] = NotPaying
        /\ \A g \in Handlers : g # h => pay'[g] = pay[g]
    BY <1>8 DEF CommitPayment, PayTypeOK
  <2>7. \A c \in Bookings : Len(payments[c]) <= Len(payments'[c])
    BY <1>0, <2>2, <2>4
  <2>8. ASSUME NEW g \in Handlers, g # h, pay[g] # NotPaying
        PROVE  PayingHandler(g)'
    <3>1. PayingHandler(g)
      BY <2>8 DEF PayingHandlers
    <3>2. /\ pay[g].booking \in Bookings
          /\ pay[g].pc = "loaded" => pay[g].existing \in Nat
      BY <2>8 DEF PayTypeOK, PayRequest
    <3>3. /\ Len(payments[pay[g].booking]) <= Len(payments'[pay[g].booking])
          /\ Len(payments[pay[g].booking]) \in Nat
          /\ Len(payments'[pay[g].booking]) \in Nat
      BY <1>0, <2>2, <2>4, <2>7, <3>2
    <3> QED
      BY <2>5, <2>6, <2>8, <3>1, <3>2, <3>3 DEF PayingHandler
  <2> QED
    BY <2>5, <2>6, <2>8 DEF PayingHandlers
<1>9. ASSUME NEW h \in Handlers, AbandonPayment(h)
      PROVE  OneRow' /\ PayingHandlers'
  <2>1. Idle.pc # "validated" /\ Answered.pc # "validated"
    BY DEF Idle, Answered
  <2>2. PICK r \in {Idle, Answered} : req' = [req EXCEPT ![h] = r]
    BY <1>9 DEF AbandonPayment, Conflict, Lost, Respond
  <2>3. UNCHANGED <<booking, payments>> /\ pay' = [pay EXCEPT ![h] = NotPaying]
    BY <1>9 DEF AbandonPayment, Conflict, Lost, Respond
  <2> QED
    BY <1>4, <2>1, <2>2, <2>3
<1>10. ASSUME NEW d \in Deliveries, Webhook(d)
      PROVE  OneRow' /\ PayingHandlers'
  <2>1. UNCHANGED <<booking, req>>
    BY <1>10, WebhookStep DEF vars
  <2>2. UNCHANGED pay
    BY <1>10 DEF Webhook, Receive, FindPayment, Duplicate, SettleFailed,
                SettleCanceled, SettleSucceeded, Settle, SendReceipt, DeliveryFails
  <2>3. ASSUME NEW e, NEW status \in PaymentStatus, Settle(d, e, status)
        PROVE  \A b \in Bookings : Len(payments'[b]) = Len(payments[b])
    BY <2>3, UpdatePaymentStatusEffect DEF Settle
  <2>4. \A b \in Bookings : Len(payments'[b]) = Len(payments[b])
    BY <1>10, <2>3 DEF Webhook, Receive, FindPayment, Duplicate, SettleFailed,
                SettleCanceled, SettleSucceeded, SendReceipt, DeliveryFails,
                PaymentStatus
  <2> QED
    BY <1>2, <2>1, <2>2, <2>4
<1>11. CASE Reconcile
  <2>1. CASE LoadUnresolved \/ ReconcileSkip
    BY <1>2, <2>1 DEF LoadUnresolved, ReconcileSkip, vars
  <2>2. CASE ReconcileNext
    <3>1. PICK u \in unresolved :
            /\ UpdatePaymentStatus({u[1]}, "succeeded")
            /\ ReconcilePayment(u[1][1]) \/ UNCHANGED vars
            /\ UNCHANGED pay
      BY <2>2 DEF ReconcileNext
    <3>2. \A c \in Bookings : Len(payments'[c]) = Len(payments[c])
      BY <3>1, UpdatePaymentStatusEffect DEF PaymentStatus
    <3>3. CASE ReconcilePayment(u[1][1])
      <4> DEFINE b == u[1][1]
      <4>1. b \in Bookings
        BY DEF PayTypeOK, RowId
      <4>2. /\ booking'[b].status = "confirmed"
            /\ \A c \in Bookings : c # b => booking'[c] = booking[c]
        BY <3>3, <4>1, UpdateStatusEffect DEF ReconcilePayment
      <4>3. OneRow'
        BY <3>2, <4>2 DEF OneRow, NoStatus
      <4>4. UNCHANGED req
        BY <3>3 DEF ReconcilePayment
      <4>5. \A h \in Handlers : pay[h] # NotPaying => pay[h].booking \in Bookings
        BY DEF PayTypeOK, PayRequest
      <4>6. PayingHandlers'
        BY <3>1, <3>2, <4>4, <4>5 DEF PayingHandlers, PayingHandler
      <4> QED
        BY <4>3, <4>6
    <3> QED
      BY <1>2, <3>1, <3>2, <3>3 DEF vars
  <2> QED
    BY <1>11, <2>1, <2>2 DEF Reconcile
<1>12. ASSUME NEW i \in Intents, Pay(i) \/ PayFails(i) \/ CancelIntent(i)
       PROVE  OneRow' /\ PayingHandlers'
  BY <1>2, <1>12 DEF Pay, PayFails, CancelIntent, vars, backend
<1>13. CASE UNCHANGED payVars
  BY <1>2, <1>13 DEF payVars, vars, backend
<1> QED
  BY <1>1, <1>5, <1>6, <1>7, <1>8, <1>9, <1>10, <1>11, <1>12, <1>13
  DEF PayNext, PaymentStep

\* A booking never gets a second payment row, with no unique key to prevent it
\* (OnePaymentPerBooking).
THEOREM OnePayment == PaySpec => []OnePaymentPerBooking
<1>1. PayInit => OneRow /\ PayingHandlers
  BY DEF PayInit, Init, OneRow, PayingHandlers, Idle, NoStatus
<1>2. CompositionInv /\ PayTypeOK /\ OneRow /\ PayingHandlers /\ [PayNext]_payVars
        => (OneRow /\ PayingHandlers)'
  BY OneRowStep DEF CompositionInv
<1>3. OneRow => OnePaymentPerBooking
  BY DEF OneRow, OnePaymentPerBooking
<1> QED
  BY <1>1, <1>2, <1>3, CompositionInvariant, PTL DEF PaySpec

-----------------------------------------------------------------------------
(* Duplicate deliveries                                                    *)

\* The unique column makes the transactions of one event take turns.
LEMMA AppliedOnceStep ==
  ASSUME PayTypeOK, EventAppliedOnce, [PayNext]_payVars
  PROVE  EventAppliedOnce'
<1>1. ASSUME UNCHANGED <<processed, delivery>>
      PROVE  EventAppliedOnce'
  BY <1>1 DEF EventAppliedOnce
<1>2. ASSUME NEW d \in Deliveries, NEW r, r.pc # "found",
             delivery' = [delivery EXCEPT ![d] = r], UNCHANGED processed
      PROVE  EventAppliedOnce'
  BY <1>2 DEF EventAppliedOnce, PayTypeOK
<1>3. ASSUME NEW d \in Deliveries, Webhook(d)
      PROVE  EventAppliedOnce'
  <2>1. NoDelivery.pc # "found"
    BY DEF NoDelivery
  <2>2. ASSUME NEW e \in sent, Receive(d, e) \/ Duplicate(d, e)
        PROVE  EventAppliedOnce'
    BY <1>2, <2>1, <2>2 DEF Receive, Duplicate
  <2>3. ASSUME NEW e \in sent, FindPayment(d, e)
        PROVE  EventAppliedOnce'
    BY <2>3 DEF FindPayment, EventAppliedOnce, PayTypeOK
  <2>4. ASSUME NEW e \in sent, NEW status, Settle(d, e, status)
        PROVE  EventAppliedOnce'
    <3>1. /\ delivery'[d].pc # "found"
          /\ \A o \in Deliveries : o # d => delivery'[o] = delivery[o]
      BY <2>1, <2>4 DEF Settle, PayTypeOK
    <3>2. \A o \in Deliveries : o # d /\ delivery[o].pc = "found"
                                  => delivery[o].event \notin processed'
      BY <2>4 DEF Settle, EventAppliedOnce
    <3> QED
      BY <3>1, <3>2 DEF EventAppliedOnce
  <2>5. CASE SendReceipt(d) \/ DeliveryFails(d)
    BY <1>2, <2>1, <2>5 DEF SendReceipt, DeliveryFails
  <2> QED
    BY <1>3, <2>2, <2>3, <2>4, <2>5
    DEF Webhook, SettleFailed, SettleCanceled, SettleSucceeded
<1>4. CASE BookingStep
  BY <1>1, <1>4 DEF BookingStep, backend
<1>5. ASSUME NEW h \in Handlers, PaymentStep(h)
      PROVE  EventAppliedOnce'
  BY <1>1, <1>5 DEF PaymentStep, StartPayment, SimulatePayment, LoadPayment,
                    CommitPayment, AbandonPayment, backend
<1>6. CASE Reconcile
  BY <1>1, <1>6 DEF Reconcile, LoadUnresolved, ReconcileNext, ReconcileSkip
<1>7. ASSUME NEW i \in Intents, Pay(i) \/ PayFails(i) \/ CancelIntent(i)
      PROVE  EventAppliedOnce'
  BY <1>1, <1>7 DEF Pay, PayFails, CancelIntent, backend
<1>8. CASE UNCHANGED payVars
  BY <1>1, <1>8 DEF payVars, backend
<1> QED
  BY <1>3, <1>4, <1>5, <1>6, <1>7, <1>8 DEF PayNext

\* An event is acted upon by one request at a time, and by none once it is
\* processed (EventAppliedOnce).
THEOREM AppliedOnce == PaySpec => []EventAppliedOnce
<1>1. PayInit => EventAppliedOnce
  BY DEF PayInit, EventAppliedOnce, NoDelivery
<1> QED
  BY <1>1, AppliedOnceStep, PayTypeCorrect, PTL DEF PaySpec

-----------------------------------------------------------------------------
(* Money first                                                             *)

\* An intent belongs to the booking whose payment row has it, ...
RowsMatch ==
  \A b \in Bookings : \A k \in DOMAIN payments[b] :
    payments[b][k].intent \in IntentsOf(b)

\* ... to the booking of the request that is about to save it, ...
PayMatch ==
  \A h \in Handlers :
    pay[h].pc = "loaded" => pay[h].intent \in IntentsOf(pay[h].booking)

\* ... to the bookings of the rows a webhook request has found for it, ...
DeliveryMatch ==
  \A d \in Deliveries :
    /\ delivery[d].pc = "found" =>
         \A r \in delivery[d].rows : delivery[d].event[1] \in IntentsOf(r[1])
    /\ delivery[d].pc = "committed" => delivery[d].event[2] = "succeeded"
    /\ delivery[d] # NoDelivery => delivery[d].event \in sent

\* ... and to the booking of the row that reconcilePayments remembers with it.
UnresolvedMatch ==
  \A u \in unresolved : u[2] \in IntentsOf(u[1][1])

\* Stripe does not lie.
EventsTrue ==
  \A i \in Intents :
    <<i, "succeeded">> \in sent => intent[i].status = "succeeded"

\* What Stripe knows of an intent it does not forget.
LEMMA StripeRemembers ==
  ASSUME PayTypeOK, [PayNext]_payVars
  PROVE  /\ sent \subseteq sent'
         /\ \A i \in Intents :
              /\ intent[i].status # "unused" =>
                   /\ intent'[i].status # "unused"
                   /\ intent'[i].booking = intent[i].booking
              /\ intent[i].status = "succeeded" => intent'[i].status = "succeeded"
<1> DEFINE Remembers ==
             /\ sent \subseteq sent'
             /\ \A i \in Intents :
                  /\ intent[i].status # "unused" =>
                       /\ intent'[i].status # "unused"
                       /\ intent'[i].booking = intent[i].booking
                  /\ intent[i].status = "succeeded" => intent'[i].status = "succeeded"
<1>1. ASSUME UNCHANGED <<intent, sent>>
      PROVE  Remembers
  BY <1>1
<1>2. ASSUME NEW h \in Handlers, PaymentStep(h)
      PROVE  Remembers
  <2>1. CASE LoadPayment(h)
    <3>1. PICK i \in Intents, b \in Bookings :
            intent' = IF i \in Unused
                        THEN [intent EXCEPT ![i] = [status |-> "open", booking |-> b]]
                        ELSE intent
      <4>1. pay[h].booking \in Bookings
        BY <2>1 DEF LoadPayment, PayTypeOK, PayRequest, NotPaying
      <4> QED
        BY <2>1, <4>1 DEF LoadPayment, Unused, IntentsOf
    <3> QED
      BY <2>1, <3>1 DEF LoadPayment, Unused, PayTypeOK
  <2> QED
    BY <1>1, <1>2, <2>1 DEF PaymentStep, StartPayment, SimulatePayment,
                            CommitPayment, AbandonPayment, stripe
<1>3. ASSUME NEW d \in Deliveries, Webhook(d)
      PROVE  Remembers
  BY <1>1, <1>3 DEF Webhook, Receive, FindPayment, Duplicate, SettleFailed,
                    SettleCanceled, SettleSucceeded, Settle, SendReceipt,
                    DeliveryFails, stripe
<1>4. CASE Reconcile
  BY <1>1, <1>4 DEF Reconcile, LoadUnresolved, ReconcileNext, ReconcileSkip, stripe
<1>5. ASSUME NEW i \in Intents, Pay(i) \/ PayFails(i) \/ CancelIntent(i)
      PROVE  Remembers
  <2>1. PICK status \in {"succeeded", "canceled"} :
          \/ UNCHANGED intent
          \/ /\ intent[i].status = "open"
             /\ intent' = [intent EXCEPT ![i].status = status]
    BY <1>5 DEF Pay, PayFails, CancelIntent
  <2>2. intent[i] \in Intent
    BY DEF PayTypeOK
  <2>3. sent \subseteq sent'
    BY <1>5 DEF Pay, PayFails, CancelIntent, Raise
  <2>4. ASSUME intent[i].status = "open",
               intent' = [intent EXCEPT ![i].status = status]
        PROVE  Remembers
    <3>1. intent[i] = [status |-> "open", booking |-> intent[i].booking]
      BY <2>2, <2>4 DEF Intent
    <3>2. intent'[i].status = status /\ intent'[i].booking = intent[i].booking
      BY <2>4, <3>1 DEF PayTypeOK
    <3>3. \A j \in Intents : j # i => intent'[j] = intent[j]
      BY <2>4 DEF PayTypeOK
    <3> QED
      BY <2>3, <2>4, <3>2, <3>3
  <2> QED
    BY <2>1, <2>3, <2>4
<1>6. CASE BookingStep \/ UNCHANGED payVars
  BY <1>1, <1>6 DEF BookingStep, payVars, stripe
<1> QED
  BY <1>2, <1>3, <1>4, <1>5, <1>6 DEF PayNext

\* So a booking keeps its intents, and once paid for stays paid for.
LEMMA MoneyStays ==
  ASSUME PayTypeOK, [PayNext]_payVars
  PROVE  /\ sent \subseteq sent'
         /\ \A b \in Bookings :
              /\ IntentsOf(b) \subseteq IntentsOf(b)'
              /\ PaidFor(b) => PaidFor(b)'
BY StripeRemembers DEF IntentsOf, Unused, PaidFor

\* The rows a webhook request or reconcilePayments may write keep their
\* intents, and only they change their status.
LEMMA UpdatePaymentStatusRows ==
  ASSUME NEW rows, NEW status, UpdatePaymentStatus(rows, status)
  PROVE  \A b \in Bookings :
           /\ DOMAIN payments'[b] = DOMAIN payments[b]
           /\ \A k \in DOMAIN payments[b] :
                /\ payments'[b][k].intent = payments[b][k].intent
                /\ payments'[b][k].status =
                     IF <<b, k>> \in rows THEN status ELSE payments[b][k].status
BY DEF UpdatePaymentStatus

\* The row that createPaymentIntent saves is the only one that changes.
LEMMA SavePaymentRows ==
  ASSUME PayTypeOK, NEW p \in PayRequest, p.pc = "loaded", SavePayment(p)
  PROVE  \A b \in Bookings : \A k \in DOMAIN payments'[b] :
           \/ k \in DOMAIN payments[b] /\ payments'[b][k] = payments[b][k]
           \/ /\ b = p.booking
              /\ payments'[b][k].intent = p.intent
              /\ payments'[b][k].status = "requires_payment_method"
<1> DEFINE row == [intent |-> p.intent, status |-> "requires_payment_method"]
<1> SUFFICES ASSUME NEW b \in Bookings, NEW k \in DOMAIN payments'[b]
             PROVE  \/ k \in DOMAIN payments[b] /\ payments'[b][k] = payments[b][k]
                    \/ b = p.booking /\ payments'[b][k] = row
  OBVIOUS
<1>1. payments[b] \in Seq(Payment) /\ payments \in [Bookings -> Seq(Payment)]
  BY DEF PayTypeOK
<1>2. CASE b # p.booking
  BY <1>1, <1>2 DEF SavePayment
<1>3. CASE b = p.booking /\ p.existing = 0
  <2>1. payments'[b] = Append(payments[b], row)
    BY <1>1, <1>3 DEF SavePayment
  <2> QED
    BY <1>1, <1>3, <2>1
<1>4. CASE b = p.booking /\ p.existing # 0
  <2>1. payments'[b] = [payments[b] EXCEPT ![p.existing] = row]
    BY <1>1, <1>4 DEF SavePayment
  <2> QED
    BY <1>1, <1>4, <2>1
<1> QED
  BY <1>2, <1>3, <1>4

\* A row found by its intent belongs to a booking of that intent.
LEMMA FoundRowsMatch ==
  ASSUME PayTypeOK, RowsMatch, NEW i, NEW r \in FindByStripeIntentId(i)
  PROVE  r[1] \in Bookings /\ i \in IntentsOf(r[1])
BY DEF FindByStripeIntentId, Rows, Row, RowsMatch

\* Who knows which booking an intent belongs to.
Provenance ==
  RowsMatch /\ PayMatch /\ DeliveryMatch /\ UnresolvedMatch /\ EventsTrue

LEMMA RowsMatchStep ==
  ASSUME PayTypeOK, Provenance, [PayNext]_payVars
  PROVE  RowsMatch'
<1> USE DEF Provenance, IntentsOf, Unused
<1>1. ASSUME UNCHANGED payments
      PROVE  RowsMatch'
  BY <1>1, StripeRemembers DEF RowsMatch
<1>2. ASSUME NEW rows, NEW status, UpdatePaymentStatus(rows, status)
      PROVE  RowsMatch'
  <2>1. \A b \in Bookings :
          /\ DOMAIN payments'[b] = DOMAIN payments[b]
          /\ \A k \in DOMAIN payments[b] :
               payments'[b][k].intent = payments[b][k].intent
    BY <1>2, UpdatePaymentStatusRows
  <2> QED
    BY <2>1, StripeRemembers DEF RowsMatch
<1>3. ASSUME NEW h \in Handlers, PaymentStep(h)
      PROVE  RowsMatch'
  <2>1. CASE CommitPayment(h)
    <3>1. pay[h] \in PayRequest /\ pay[h].pc = "loaded" /\ SavePayment(pay[h])
      BY <2>1 DEF CommitPayment, PayTypeOK
    <3>2. pay[h].intent \in IntentsOf(pay[h].booking)
      BY <3>1 DEF PayMatch
    <3>3. \A b \in Bookings : \A k \in DOMAIN payments'[b] :
            \/ k \in DOMAIN payments[b] /\ payments'[b][k] = payments[b][k]
            \/ b = pay[h].booking /\ payments'[b][k].intent = pay[h].intent
      BY <3>1, SavePaymentRows
    <3> QED
      BY <3>2, <3>3, StripeRemembers DEF RowsMatch
  <2> QED
    BY <1>1, <1>3, <2>1 DEF PaymentStep, StartPayment, SimulatePayment,
                            LoadPayment, AbandonPayment, backend
<1>4. ASSUME NEW d \in Deliveries, Webhook(d)
      PROVE  RowsMatch'
  BY <1>1, <1>2, <1>4 DEF Webhook, Receive, FindPayment, Duplicate, SettleFailed,
                          SettleCanceled, SettleSucceeded, Settle, SendReceipt,
                          DeliveryFails
<1>5. CASE Reconcile
  BY <1>1, <1>2, <1>5 DEF Reconcile, LoadUnresolved, ReconcileNext, ReconcileSkip
<1>6. ASSUME NEW i \in Intents, Pay(i) \/ PayFails(i) \/ CancelIntent(i)
      PROVE  RowsMatch'
  BY <1>1, <1>6 DEF Pay, PayFails, CancelIntent, backend
<1>7. CASE BookingStep \/ UNCHANGED payVars
  BY <1>1, <1>7 DEF BookingStep, payVars, backend
<1> QED
  BY <1>3, <1>4, <1>5, <1>6, <1>7 DEF PayNext

LEMMA PayMatchStep ==
  ASSUME PayTypeOK, Provenance, [PayNext]_payVars
  PROVE  PayMatch'
<1> USE DEF Provenance, IntentsOf, Unused
<1>1. ASSUME UNCHANGED pay
      PROVE  PayMatch'
  <2>1. \A h \in Handlers : pay[h].pc = "loaded" => pay[h].booking \in Bookings
    BY DEF PayTypeOK, PayRequest, NotPaying
  <2> QED
    BY <1>1, <2>1, StripeRemembers DEF PayMatch
<1>2. ASSUME NEW h \in Handlers, NEW p, pay' = [pay EXCEPT ![h] = p],
             p.pc = "loaded" =>
               /\ p.intent \in Intents
               /\ intent'[p.intent].status # "unused"
               /\ intent'[p.intent].booking = p.booking
      PROVE  PayMatch'
  <2>1. \A g \in Handlers : pay[g].pc = "loaded" => pay[g].booking \in Bookings
    BY DEF PayTypeOK, PayRequest, NotPaying
  <2>2. pay'[h] = p /\ \A g \in Handlers : g # h => pay'[g] = pay[g]
    BY <1>2 DEF PayTypeOK
  <2> QED
    BY <1>2, <2>1, <2>2, StripeRemembers DEF PayMatch
<1>3. ASSUME NEW h \in Handlers, PaymentStep(h)
      PROVE  PayMatch'
  <2>1. CASE LoadPayment(h)
    <3> DEFINE b == pay[h].booking
    <3>1. b \in Bookings
      BY <2>1 DEF LoadPayment, PayTypeOK, PayRequest, NotPaying
    <3>2. PICK i \in Unused \cup IntentsOf(b) :
            /\ intent' = IF i \in Unused
                           THEN [intent EXCEPT ![i] = [status |-> "open", booking |-> b]]
                           ELSE intent
            /\ pay' = [pay EXCEPT ![h] = [pc |-> "loaded", booking |-> b,
                                          intent |-> i, existing |-> Len(payments[b])]]
      BY <2>1 DEF LoadPayment
    <3>3. /\ i \in Intents
          /\ intent'[i].status # "unused"
          /\ intent'[i].booking = b
      BY <3>1, <3>2, StripeRemembers DEF PayTypeOK
    <3> QED
      BY <1>2, <3>2, <3>3
  <2>2. ASSUME NEW b \in Bookings, StartPayment(h, b)
        PROVE  PayMatch'
    BY <1>1, <1>2, <2>2 DEF StartPayment
  <2> QED
    BY <1>1, <1>2, <1>3, <2>1, <2>2
    DEF PaymentStep, SimulatePayment, CommitPayment, AbandonPayment, NotPaying, backend
<1>4. ASSUME NEW d \in Deliveries, Webhook(d)
      PROVE  PayMatch'
  BY <1>1, <1>4 DEF Webhook, Receive, FindPayment, Duplicate, SettleFailed,
                    SettleCanceled, SettleSucceeded, Settle, SendReceipt,
                    DeliveryFails
<1>5. CASE Reconcile
  BY <1>1, <1>5 DEF Reconcile, LoadUnresolved, ReconcileNext, ReconcileSkip
<1>6. ASSUME NEW i \in Intents, Pay(i) \/ PayFails(i) \/ CancelIntent(i)
      PROVE  PayMatch'
  BY <1>1, <1>6 DEF Pay, PayFails, CancelIntent, backend
<1>7. CASE BookingStep \/ UNCHANGED payVars
  BY <1>1, <1>7 DEF BookingStep, payVars, backend
<1> QED
  BY <1>3, <1>4, <1>5, <1>6, <1>7 DEF PayNext

LEMMA DeliveryMatchStep ==
  ASSUME PayTypeOK, Provenance, [PayNext]_payVars
  PROVE  DeliveryMatch'
<1> USE DEF Provenance
<1> DEFINE Matches(x) ==
             /\ x.pc = "found" =>
                  \A r \in x.rows : r[1] \in Bookings /\ x.event[1] \in IntentsOf(r[1])
             /\ x.pc = "committed" => x.event[2] = "succeeded"
             /\ x # NoDelivery => x.event \in sent
<1>1. \A d \in Deliveries : Matches(delivery[d])
  <2>1. \A d \in Deliveries : delivery[d].pc = "found" =>
          \A r \in delivery[d].rows : r[1] \in Bookings
    BY DEF PayTypeOK, Delivery, NoDelivery, RowId
  <2> QED
    BY <2>1 DEF DeliveryMatch
<1>2. ASSUME NEW x, Matches(x)
      PROVE  /\ x.pc = "found" =>
                  \A r \in x.rows : x.event[1] \in IntentsOf(r[1])'
             /\ x.pc = "committed" => x.event[2] = "succeeded"
             /\ x # NoDelivery => x.event \in sent'
  BY <1>2, MoneyStays
<1>3. ASSUME \A d \in Deliveries :
               \E x : Matches(x) /\ delivery'[d] = x
      PROVE  DeliveryMatch'
  <2> SUFFICES ASSUME NEW d \in Deliveries
               PROVE  /\ delivery'[d].pc = "found" =>
                           \A r \in delivery'[d].rows :
                             /\ delivery'[d].event[1] \in Intents
                             /\ intent'[delivery'[d].event[1]].status # "unused"
                             /\ intent'[delivery'[d].event[1]].booking = r[1]
                      /\ delivery'[d].pc = "committed"
                           => delivery'[d].event[2] = "succeeded"
                      /\ delivery'[d] # NoDelivery => delivery'[d].event \in sent'
    BY DEF DeliveryMatch, IntentsOf, Unused
  <2>1. PICK x : Matches(x) /\ delivery'[d] = x
    BY <1>3
  <2> QED
    BY <1>2, <2>1 DEF IntentsOf, Unused
<1>4. ASSUME UNCHANGED delivery
      PROVE  DeliveryMatch'
  BY <1>1, <1>3, <1>4
<1>5. ASSUME NEW d \in Deliveries, NEW x, Matches(x),
             delivery' = [delivery EXCEPT ![d] = x]
      PROVE  DeliveryMatch'
  <2>1. \A o \in Deliveries : delivery'[o] = IF o = d THEN x ELSE delivery[o]
    BY <1>5 DEF PayTypeOK
  <2> HIDE DEF Matches
  <2> QED
    BY <1>1, <1>3, <1>5, <2>1
<1>6. ASSUME NEW d \in Deliveries, Webhook(d)
      PROVE  DeliveryMatch'
  <2>1. Matches(NoDelivery)
    BY DEF NoDelivery
  <2>2. ASSUME NEW e \in sent, Receive(d, e)
        PROVE  DeliveryMatch'
    <3>1. Matches([pc |-> "checked", event |-> e])
      OBVIOUS
    <3> QED
      BY <1>5, <2>2, <3>1 DEF Receive
  <2>3. ASSUME NEW e \in sent, FindPayment(d, e)
        PROVE  DeliveryMatch'
    <3>1. Matches([pc |-> "found", event |-> e, rows |-> FindByStripeIntentId(e[1])])
      BY FoundRowsMatch
    <3> QED
      BY <1>5, <2>3, <3>1 DEF FindPayment
  <2>4. ASSUME NEW e \in sent, NEW status, Settle(d, e, status)
        PROVE  DeliveryMatch'
    <3>1. e[2] = "succeeded" => Matches([pc |-> "committed", event |-> e])
      OBVIOUS
    <3> QED
      BY <1>5, <2>1, <2>4, <3>1 DEF Settle
  <2>5. CASE SendReceipt(d) \/ DeliveryFails(d) \/ \E e \in sent : Duplicate(d, e)
    BY <1>5, <2>1, <2>5 DEF SendReceipt, DeliveryFails, Duplicate
  <2> QED
    BY <1>6, <2>2, <2>3, <2>4, <2>5
    DEF Webhook, SettleFailed, SettleCanceled, SettleSucceeded
<1>7. ASSUME NEW h \in Handlers, PaymentStep(h)
      PROVE  DeliveryMatch'
  BY <1>4, <1>7 DEF PaymentStep, StartPayment, SimulatePayment, LoadPayment,
                    CommitPayment, AbandonPayment, backend
<1>8. CASE Reconcile
  BY <1>4, <1>8 DEF Reconcile, LoadUnresolved, ReconcileNext, ReconcileSkip
<1>9. ASSUME NEW i \in Intents, Pay(i) \/ PayFails(i) \/ CancelIntent(i)
      PROVE  DeliveryMatch'
  BY <1>4, <1>9 DEF Pay, PayFails, CancelIntent, backend
<1>10. CASE BookingStep \/ UNCHANGED payVars
  BY <1>4, <1>10 DEF BookingStep, payVars, backend
<1> QED
  BY <1>6, <1>7, <1>8, <1>9, <1>10 DEF PayNext

LEMMA UnresolvedMatchStep ==
  ASSUME PayTypeOK, Provenance, [PayNext]_payVars
  PROVE  UnresolvedMatch'
<1> USE DEF Provenance
<1>1. ASSUME unresolved' \subseteq unresolved
      PROVE  UnresolvedMatch'
  <2>1. \A u \in unresolved : u[1][1] \in Bookings
    BY DEF PayTypeOK, RowId
  <2> QED
    BY <1>1, <2>1, StripeRemembers DEF UnresolvedMatch, IntentsOf, Unused
<1>2. CASE LoadUnresolved
  <2>1. \A r \in Unresolved : r[1] \in Bookings /\ Row(r).intent \in IntentsOf(r[1])
    BY DEF Unresolved, Rows, Row, RowsMatch
  <2>2. unresolved' = {<<r, Row(r).intent>> : r \in Unresolved} /\ UNCHANGED intent
    BY <1>2 DEF LoadUnresolved, stripe
  <2> QED
    BY <2>1, <2>2 DEF UnresolvedMatch, IntentsOf, Unused
<1>3. CASE ReconcileNext \/ ReconcileSkip
  BY <1>1, <1>3 DEF ReconcileNext, ReconcileSkip
<1>4. ASSUME NEW h \in Handlers, PaymentStep(h)
      PROVE  UnresolvedMatch'
  BY <1>1, <1>4 DEF PaymentStep, StartPayment, SimulatePayment, LoadPayment,
                    CommitPayment, AbandonPayment, backend
<1>5. ASSUME NEW d \in Deliveries, Webhook(d)
      PROVE  UnresolvedMatch'
  BY <1>1, <1>5 DEF Webhook, Receive, FindPayment, Duplicate, SettleFailed,
                    SettleCanceled, SettleSucceeded, Settle, SendReceipt,
                    DeliveryFails
<1>6. ASSUME NEW i \in Intents, Pay(i) \/ PayFails(i) \/ CancelIntent(i)
      PROVE  UnresolvedMatch'
  BY <1>1, <1>6 DEF Pay, PayFails, CancelIntent, backend
<1>7. CASE BookingStep \/ UNCHANGED payVars
  BY <1>1, <1>7 DEF BookingStep, payVars, backend
<1> QED
  BY <1>2, <1>3, <1>4, <1>5, <1>6, <1>7 DEF PayNext, Reconcile

LEMMA EventsTrueStep ==
  ASSUME PayTypeOK, Provenance, [PayNext]_payVars
  PROVE  EventsTrue'
<1> USE DEF Provenance
<1>1. ASSUME \A j \in Intents :
               <<j, "succeeded">> \in sent' =>
                 <<j, "succeeded">> \in sent \/ intent'[j].status = "succeeded"
      PROVE  EventsTrue'
  BY <1>1, StripeRemembers DEF EventsTrue
<1>2. ASSUME NEW i \in Intents, Pay(i)
      PROVE  EventsTrue'
  <2>1. intent[i].status = "open"
    BY <1>2 DEF Pay
  <2>2. intent[i] = [status |-> "open", booking |-> intent[i].booking]
    BY <2>1 DEF PayTypeOK, Intent
  <2>3. intent'[i].status = "succeeded"
    BY <1>2, <2>2 DEF Pay, PayTypeOK
  <2> QED
    BY <1>1, <1>2, <2>3 DEF Pay, Raise
<1>3. ASSUME NEW i \in Intents, PayFails(i) \/ CancelIntent(i)
      PROVE  EventsTrue'
  BY <1>1, <1>3 DEF PayFails, CancelIntent, Raise
<1>4. ASSUME NEW h \in Handlers, PaymentStep(h)
      PROVE  EventsTrue'
  BY <1>1, <1>4 DEF PaymentStep, StartPayment, SimulatePayment, LoadPayment,
                    CommitPayment, AbandonPayment, stripe
<1>5. ASSUME NEW d \in Deliveries, Webhook(d)
      PROVE  EventsTrue'
  BY <1>1, <1>5 DEF Webhook, Receive, FindPayment, Duplicate, SettleFailed,
                    SettleCanceled, SettleSucceeded, Settle, SendReceipt,
                    DeliveryFails, stripe
<1>6. CASE Reconcile
  BY <1>1, <1>6 DEF Reconcile, LoadUnresolved, ReconcileNext, ReconcileSkip, stripe
<1>7. CASE BookingStep \/ UNCHANGED payVars
  BY <1>1, <1>7 DEF BookingStep, payVars, stripe
<1> QED
  BY <1>2, <1>3, <1>4, <1>5, <1>6, <1>7 DEF PayNext

LEMMA ProvenanceStep ==
  ASSUME PayTypeOK, Provenance, [PayNext]_payVars
  PROVE  Provenance'
BY RowsMatchStep, PayMatchStep, DeliveryMatchStep, UnresolvedMatchStep,
   EventsTrueStep
DEF Provenance

\* Only reconcilePayments moves a booking otherwise than by a transition.
LEMMA MoveShape ==
  ASSUME CompositionInv, PayTypeOK, [PayNext]_payVars
  PROVE  \/ \E b \in Bookings, to \in Status, role \in Role : LoggedMove(b, to, role)
         \/ UNCHANGED booking
         \/ ReconcileNext
<1> USE DEF CompositionInv
<1>1. CASE BookingStep
  BY <1>1, LoggedStep DEF BookingStep, Handler
<1>2. ASSUME NEW h \in Handlers, PaymentStep(h)
      PROVE  UNCHANGED booking \/ Handler(h)
  BY <1>2, SharedStep, SimulateStep
  DEF PaymentStep, StartPayment, LoadPayment, CommitPayment, AbandonPayment, vars
<1>3. CASE Reconcile
  BY <1>3 DEF Reconcile, LoadUnresolved, ReconcileSkip, vars
<1>4. ASSUME NEW i \in Intents, Pay(i) \/ PayFails(i) \/ CancelIntent(i)
      PROVE  UNCHANGED booking
  BY <1>4 DEF Pay, PayFails, CancelIntent, vars
<1>5. CASE UNCHANGED payVars
  BY <1>5 DEF payVars, vars
<1> QED
  BY <1>1, <1>2, <1>3, <1>4, <1>5, LoggedStep, WebhookStep DEF PayNext, vars

Done == {"confirmed", "in_progress", "completed"}

\* A booking enters Done from Done, or because reconcilePayments has asked
\* Stripe about an intent of its own; from paid it could, but never is there.
LEMMA DoneStep ==
  ASSUME CompositionInv, PayTypeOK, Provenance, [PayNext]_payVars,
         NEW b \in Bookings, booking'[b].status \in Done
  PROVE  booking[b].status \in Done \/ PaidFor(b)
<1>1. ASSUME NEW c \in Bookings, NEW to \in Status, NEW role \in Role,
             LoggedMove(c, to, role)
      PROVE  booking[b].status \in Done
  <2>1. /\ booking'[c].status = to
        /\ \A d \in Bookings : d # c => booking'[d] = booking[d]
    BY <1>1, UpdateStatusEffect DEF LoggedMove, CompositionInv
  <2>2. CASE b # c
    BY <2>1, <2>2
  <2>3. CASE b = c
    BY <1>1, <2>1, <2>3 DEF LoggedMove, CanTransition, AllowedTransitions, Done,
                            CompositionInv, NeverPaid
  <2> QED
    BY <2>2, <2>3
<1>2. CASE ReconcileNext
  <2>1. PICK u \in unresolved :
          /\ intent[u[2]].status = "succeeded"
          /\ ReconcilePayment(u[1][1]) \/ UNCHANGED vars
    BY <1>2 DEF ReconcileNext
  <2>2. u[1][1] \in Bookings /\ PaidFor(u[1][1])
    BY <2>1 DEF Provenance, UnresolvedMatch, PaidFor, PayTypeOK, RowId
  <2>3. b # u[1][1] => booking'[b] = booking[b]
    BY <2>1, <2>2, UpdateStatusEffect DEF ReconcilePayment, vars, CompositionInv
  <2> QED
    BY <2>2, <2>3
<1> QED
  BY <1>1, <1>2, MoveShape

\* A row becomes succeeded only through an event of Stripe's that says so, or
\* through its answer to reconcilePayments.
LEMMA SucceededRowStep ==
  ASSUME PayTypeOK, Provenance, MoneyFirst, [PayNext]_payVars,
         NEW b \in Bookings, NEW k \in DOMAIN payments'[b],
         payments'[b][k].status = "succeeded"
  PROVE  PaidFor(b)
<1>1. ASSUME k \in DOMAIN payments[b], payments'[b][k] = payments[b][k]
      PROVE  PaidFor(b)
  BY <1>1 DEF MoneyFirst
<1>2. ASSUME UNCHANGED payments
      PROVE  PaidFor(b)
  BY <1>1, <1>2
<1>3. ASSUME NEW rows, NEW status, UpdatePaymentStatus(rows, status),
             status = "succeeded" => \A r \in rows : PaidFor(r[1])
      PROVE  PaidFor(b)
  <2>1. /\ k \in DOMAIN payments[b]
        /\ "succeeded" = IF <<b, k>> \in rows THEN status ELSE payments[b][k].status
    BY <1>3, UpdatePaymentStatusRows
  <2>2. CASE <<b, k>> \in rows
    BY <1>3, <2>1, <2>2
  <2>3. CASE <<b, k>> \notin rows
    BY <2>1, <2>3 DEF MoneyFirst
  <2> QED
    BY <2>2, <2>3
<1>4. ASSUME NEW h \in Handlers, PaymentStep(h)
      PROVE  PaidFor(b)
  <2>1. CASE CommitPayment(h)
    <3>1. pay[h] \in PayRequest /\ pay[h].pc = "loaded" /\ SavePayment(pay[h])
      BY <2>1 DEF CommitPayment, PayTypeOK
    <3>2. \/ k \in DOMAIN payments[b] /\ payments'[b][k] = payments[b][k]
          \/ payments'[b][k].status = "requires_payment_method"
      BY <3>1, SavePaymentRows
    <3> QED
      BY <1>1, <3>2
  <2> QED
    BY <1>2, <1>4, <2>1 DEF PaymentStep, StartPayment, SimulatePayment,
                            LoadPayment, AbandonPayment, backend
<1>5. ASSUME NEW d \in Deliveries, Webhook(d)
      PROVE  PaidFor(b)
  <2>1. ASSUME NEW e \in sent, SettleSucceeded(d, e)
        PROVE  PaidFor(b)
    <3>1. /\ e[1] \in Intents
          /\ e = <<e[1], "succeeded">>
      BY <2>1 DEF SettleSucceeded, PayTypeOK, StripeEvent
    <3>2. intent[e[1]].status = "succeeded"
      BY <3>1 DEF Provenance, EventsTrue
    <3>3. /\ UpdatePaymentStatus(delivery[d].rows, "succeeded")
          /\ \A r \in delivery[d].rows : e[1] \in IntentsOf(r[1])
      BY <2>1 DEF SettleSucceeded, Settle, Provenance, DeliveryMatch
    <3> QED
      BY <1>3, <3>2, <3>3 DEF PaidFor
  <2> QED
    BY <1>2, <1>3, <1>5, <2>1
    DEF Webhook, Receive, FindPayment, Duplicate, SettleFailed, SettleCanceled,
        Settle, SendReceipt, DeliveryFails
<1>6. CASE ReconcileNext
  <2>1. PICK u \in unresolved :
          /\ intent[u[2]].status = "succeeded"
          /\ UpdatePaymentStatus({u[1]}, "succeeded")
    BY <1>6 DEF ReconcileNext
  <2>2. PaidFor(u[1][1])
    BY <2>1 DEF Provenance, UnresolvedMatch, PaidFor
  <2> QED
    BY <1>3, <2>1, <2>2
<1>7. CASE LoadUnresolved \/ ReconcileSkip
  BY <1>2, <1>7 DEF LoadUnresolved, ReconcileSkip
<1>8. ASSUME NEW i \in Intents, Pay(i) \/ PayFails(i) \/ CancelIntent(i)
      PROVE  PaidFor(b)
  BY <1>2, <1>8 DEF Pay, PayFails, CancelIntent, backend
<1>9. CASE BookingStep \/ UNCHANGED payVars
  BY <1>2, <1>9 DEF BookingStep, payVars, backend
<1> QED
  BY <1>4, <1>5, <1>6, <1>7, <1>8, <1>9 DEF PayNext, Reconcile

\* A receipt is sent for an event of Stripe's that says succeeded.
LEMMA ReceiptStep ==
  ASSUME PayTypeOK, Provenance, MoneyFirst, [PayNext]_payVars,
         NEW b \in Bookings, b \in receipts'
  PROVE  PaidFor(b)
<1>1. ASSUME UNCHANGED receipts
      PROVE  PaidFor(b)
  BY <1>1 DEF MoneyFirst
<1>2. ASSUME NEW d \in Deliveries, SendReceipt(d)
      PROVE  PaidFor(b)
  <2> DEFINE i == delivery[d].event[1]
  <2>1. /\ delivery[d].event \in sent
        /\ delivery[d].event[2] = "succeeded"
    BY <1>2 DEF SendReceipt, NoDelivery, Provenance, DeliveryMatch
  <2>2. i \in Intents /\ delivery[d].event = <<i, "succeeded">>
    BY <2>1 DEF PayTypeOK, StripeEvent
  <2>3. intent[i].status = "succeeded"
    BY <2>1, <2>2 DEF Provenance, EventsTrue
  <2>4. b \in receipts \/ \E r \in FindByStripeIntentId(i) : b = r[1]
    BY <1>2 DEF SendReceipt
  <2> QED
    BY <2>3, <2>4, FoundRowsMatch DEF MoneyFirst, PaidFor, Provenance
<1>3. ASSUME NEW d \in Deliveries, Webhook(d)
      PROVE  PaidFor(b)
  BY <1>1, <1>2, <1>3 DEF Webhook, Receive, FindPayment, Duplicate, SettleFailed,
                          SettleCanceled, SettleSucceeded, Settle, DeliveryFails
<1>4. ASSUME NEW h \in Handlers, PaymentStep(h)
      PROVE  PaidFor(b)
  BY <1>1, <1>4 DEF PaymentStep, StartPayment, SimulatePayment, LoadPayment,
                    CommitPayment, AbandonPayment, backend
<1>5. CASE Reconcile
  BY <1>1, <1>5 DEF Reconcile, LoadUnresolved, ReconcileNext, ReconcileSkip
<1>6. ASSUME NEW i \in Intents, Pay(i) \/ PayFails(i) \/ CancelIntent(i)
      PROVE  PaidFor(b)
  BY <1>1, <1>6 DEF Pay, PayFails, CancelIntent, backend
<1>7. CASE BookingStep \/ UNCHANGED payVars
  BY <1>1, <1>7 DEF BookingStep, payVars, backend
<1> QED
  BY <1>3, <1>4, <1>5, <1>6, <1>7 DEF PayNext

\* What is known of an intent belongs to its booking.
LEMMA ProvenanceInvariant == PaySpec => []Provenance
<1>1. PayInit => Provenance
  BY DEF PayInit, Provenance, RowsMatch, PayMatch, DeliveryMatch,
         UnresolvedMatch, EventsTrue, NotPaying, NoDelivery
<1> QED
  BY <1>1, ProvenanceStep, PayTypeCorrect, PTL DEF PaySpec

\* Nothing is confirmed, recorded as paid or receipted unless Stripe has the
\* money for that very booking (MoneyFirst).
THEOREM MoneyComesFirst == PaySpec => []MoneyFirst
<1>1. PayInit => MoneyFirst
  BY DEF PayInit, Init, MoneyFirst, NoStatus
<1>2. /\ CompositionInv /\ PayTypeOK
      /\ Provenance /\ MoneyFirst /\ [PayNext]_payVars
      => MoneyFirst'
  <2> SUFFICES ASSUME CompositionInv, PayTypeOK, Provenance, MoneyFirst,
                      [PayNext]_payVars
               PROVE  MoneyFirst'
    OBVIOUS
  <2>1. \A b \in Bookings :
          \/ booking'[b].status \in Done
          \/ \E k \in DOMAIN payments'[b] : payments'[b][k].status = "succeeded"
          \/ b \in receipts'
          => PaidFor(b)
    BY DoneStep, SucceededRowStep, ReceiptStep DEF MoneyFirst, Done
  <2>2. \A b \in Bookings : PaidFor(b) => PaidFor(b)'
    BY MoneyStays
  <2> QED
    BY <2>1, <2>2 DEF MoneyFirst, Done
<1> QED
  BY <1>1, <1>2, CompositionInvariant, ProvenanceInvariant, PTL DEF PaySpec

-----------------------------------------------------------------------------
(* Refunds: composition                                                    *)

\* Refunds change nothing of payments, nor of bookings: what is proved of
\* those holds here too.
THEOREM ImplementsPayments == RefundSpec => PaySpec
<1>1. RefundInit => PayInit
  BY DEF RefundInit
<1>2. [RefundNext]_allVars => [PayNext]_payVars
  BY DEF RefundNext, RefundStep, StartRefund, CheckBalance, CallStripe,
         CommitRefund, AbandonRefund, ChargeRefunded, allVars
<1> QED
  BY <1>1, <1>2, PTL DEF RefundSpec, PaySpec

-----------------------------------------------------------------------------
(* Refunds: type correctness                                               *)

\* What a request holds at each point of createRefund.
LEMMA RequestTypes ==
  ASSUME NEW c \in RefundRequest
  PROVE  /\ c.pc \in {"loaded", "checked", "refunded"} =>
              c.booking \in Bookings /\ c.intent \in Intents /\ c.amount \in Amount
         /\ c.pc = "loaded" =>
              c = [pc |-> "loaded", booking |-> c.booking, intent |-> c.intent,
                   amount |-> c.amount]
         /\ c.pc = "refunded" => c.id \in RefundIds
BY DEF RefundRequest, NotRefunding

\* What every step does to the tables of refunds, here and at Stripe.
LEMMA RefundTypeStep ==
  RefundTypeOK /\ PayTypeOK /\ [RefundNext]_allVars => RefundTypeOK'
<1> SUFFICES ASSUME RefundTypeOK, PayTypeOK, [RefundNext]_allVars
             PROVE  RefundTypeOK'
  OBVIOUS
<1>0. NotRefunding \in RefundRequest
  BY DEF RefundRequest
<1>1. ASSUME UNCHANGED refundVars
      PROVE  RefundTypeOK'
  BY <1>1 DEF refundVars, RefundTypeOK
<1>2. ASSUME NEW q \in RefundRequests, NEW r \in Rows, NEW role, NEW reason,
             NEW amount \in Amount, StartRefund(q, r, role, reason, amount)
      PROVE  RefundTypeOK'
  <2>1. r[1] \in Bookings /\ Row(r).intent \in Intents
    BY RowsType DEF RowId, Payment
  <2>2. [pc |-> "loaded", booking |-> r[1], intent |-> Row(r).intent,
         amount |-> amount] \in RefundRequest
    BY <2>1 DEF RefundRequest
  <2> QED
    BY <1>2, <2>2 DEF StartRefund, Proceed, RefundTypeOK
<1>3. ASSUME NEW q \in RefundRequests, CheckBalance(q)
      PROVE  RefundTypeOK'
  <2> DEFINE c == refundReq[q]
  <2>1. c \in RefundRequest /\ c.pc = "loaded"
    BY <1>3 DEF CheckBalance, RefundTypeOK
  <2>2. [c EXCEPT !.pc = "checked"] = [pc |-> "checked", booking |-> c.booking,
                                       intent |-> c.intent, amount |-> c.amount]
    BY <2>1, RequestTypes
  <2>3. [c EXCEPT !.pc = "checked"] \in RefundRequest
    BY <2>1, <2>2, RequestTypes DEF RefundRequest
  <2> QED
    BY <1>3, <2>3 DEF CheckBalance, Proceed, RefundTypeOK
<1>4. ASSUME NEW q \in RefundRequests, CallStripe(q)
      PROVE  RefundTypeOK'
  <2> DEFINE c == refundReq[q]
  <2>1. /\ c.booking \in Bookings /\ c.intent \in Intents /\ c.amount \in Amount
    BY <1>4, RequestTypes DEF CallStripe, RefundTypeOK
  <2>2. \A f \in RefundIds :
          /\ [pc |-> "refunded", booking |-> c.booking, intent |-> c.intent,
              amount |-> c.amount, id |-> f] \in RefundRequest
          /\ [status |-> "made", intent |-> c.intent, amount |-> c.amount]
               \in StripeRefund
    BY <2>1 DEF RefundRequest, StripeRefund
  <2> QED
    BY <1>4, <2>2 DEF CallStripe, Proceed, RefundTypeOK
<1>5. ASSUME NEW q \in RefundRequests, CommitRefund(q)
      PROVE  RefundTypeOK'
  <2> DEFINE c == refundReq[q]
  <2>1. c.booking \in Bookings /\ c.amount \in Amount
    BY <1>5, RequestTypes DEF CommitRefund, RefundTypeOK
  <2>2. [status |-> "pending", booking |-> c.booking, amount |-> c.amount] \in Refund
    BY <2>1 DEF Refund
  <2> QED
    BY <1>0, <1>5, <2>2 DEF CommitRefund, Proceed, RefundTypeOK
<1>6. ASSUME NEW q \in RefundRequests, AbandonRefund(q)
      PROVE  RefundTypeOK'
  BY <1>0, <1>6 DEF AbandonRefund, Proceed, RefundTypeOK
<1>7. ASSUME NEW f \in RefundIds, ChargeRefunded(f)
      PROVE  RefundTypeOK'
  <2>1. ASSUME NEW g \in RefundIds, refund[g].status = "pending"
        PROVE  [refund[g] EXCEPT !.status = "succeeded"] \in Refund
    <3>1. refund[g] \in [status : {"pending", "succeeded"}, booking : Bookings,
                         amount : Amount]
      BY <2>1 DEF RefundTypeOK, Refund, NoRefund
    <3> QED
      BY <3>1 DEF Refund
  <2>2. refund' \in [RefundIds -> Refund]
    BY <1>7, <2>1 DEF ChargeRefunded, RefundTypeOK
  <2> QED
    BY <1>7, <2>2 DEF ChargeRefunded, RefundTypeOK
<1> QED
  BY <1>1, <1>2, <1>3, <1>4, <1>5, <1>6, <1>7
  DEF RefundNext, RefundStep, allVars

\* Every reachable state is well typed.
THEOREM RefundTypeCorrect == RefundSpec => []RefundTypeOK
<1>1. RefundInit => RefundTypeOK
  BY DEF RefundInit, RefundTypeOK, Refund, RefundRequest, StripeRefund
<1> QED
  BY <1>1, RefundTypeStep, ImplementsPayments, PayTypeCorrect, PTL DEF RefundSpec

-----------------------------------------------------------------------------
(* Refunds: none is made up                                                *)

\* Stripe, whose intents these are, knows i as an intent for b.
Belongs(intents, i, b) ==
  i \in Intents /\ intents[i].status # "unused" /\ intents[i].booking = b

LEMMA IntentsBelong ==
  \A i, b : i \in IntentsOf(b) <=> Belongs(intent, i, b)
BY DEF IntentsOf, Unused, Belongs

\* A request asks for a refund on an intent of its booking, even if the payment
\* row has got another by now, and once it holds an answer Stripe has made that
\* refund.
RealRequest(c, intents, made) ==
  /\ c.pc \in {"loaded", "checked", "refunded"} => Belongs(intents, c.intent, c.booking)
  /\ c.pc = "refunded" =>
       made[c.id] # NoRefund /\ made[c.id].amount = c.amount /\ made[c.id].intent = c.intent

\* Each row is of a refund that was made on an intent of its booking.
RealRow(row, intents, m) ==
  row # NoRefund =>
    m # NoRefund /\ m.amount = row.amount /\ Belongs(intents, m.intent, row.booking)

\* Stripe, as opposed to the mock, pays back only what it has received.
Funded(m, intents) ==
  m # NoRefund => m.intent \in Intents /\ intents[m.intent].status = "succeeded"

\* The strengthening of RefundsAreReal.
RealInv ==
  /\ \A q \in RefundRequests : RealRequest(refundReq[q], intent, refunded)
  /\ \A f \in RefundIds : RealRow(refund[f], intent, refunded[f])
  /\ \A f \in RefundIds : Funded(refunded[f], intent)

\* No intent changes hands, and none that is paid is unpaid.
LEMMA IntentsStay ==
  ASSUME PayTypeOK, [RefundNext]_allVars
  PROVE  /\ \A i, b : Belongs(intent, i, b) => Belongs(intent', i, b)
         /\ \A i \in Intents :
              intent[i].status = "succeeded" => intent'[i].status = "succeeded"
<1>1. [PayNext]_payVars
  BY DEF RefundNext, RefundStep, StartRefund, CheckBalance, CallStripe,
         CommitRefund, AbandonRefund, ChargeRefunded, allVars
<1> QED
  BY <1>1, StripeRemembers DEF Belongs

\* A refund that Stripe has made stays as it is made.
LEMMA RefundedStays ==
  ASSUME RefundTypeOK, [RefundNext]_allVars, NEW f \in RefundIds, refunded[f] # NoRefund
  PROVE  refunded'[f] = refunded[f]
<1>1. ASSUME NEW q \in RefundRequests, CallStripe(q)
      PROVE  refunded'[f] = refunded[f]
  BY <1>1 DEF CallStripe, RefundTypeOK
<1> QED
  BY <1>1 DEF RefundNext, RefundStep, StartRefund, CheckBalance, CommitRefund,
              AbandonRefund, ChargeRefunded, refundVars, allVars

\* What is real stays real.
LEMMA RealStays ==
  ASSUME RefundTypeOK, PayTypeOK, RealInv, [RefundNext]_allVars
  PROVE  /\ \A q \in RefundRequests : RealRequest(refundReq[q], intent', refunded')
         /\ \A f \in RefundIds : RealRow(refund[f], intent', refunded'[f])
         /\ \A f \in RefundIds : refunded[f] # NoRefund => Funded(refunded'[f], intent')
<1>1. ASSUME NEW q \in RefundRequests
      PROVE  RealRequest(refundReq[q], intent', refunded')
  <2>1. refundReq[q] \in RefundRequest /\ RealRequest(refundReq[q], intent, refunded)
    BY DEF RefundTypeOK, RealInv
  <2>2. refundReq[q].pc = "refunded" => refundReq[q].id \in RefundIds
    BY <2>1, RequestTypes
  <2> QED
    BY <2>1, <2>2, IntentsStay, RefundedStays DEF RealRequest
<1>2. ASSUME NEW f \in RefundIds
      PROVE  RealRow(refund[f], intent', refunded'[f])
  BY IntentsStay, RefundedStays DEF RealInv, RealRow
<1>3. ASSUME NEW f \in RefundIds, refunded[f] # NoRefund
      PROVE  Funded(refunded'[f], intent')
  BY <1>3, IntentsStay, RefundedStays DEF RealInv, Funded
<1> QED
  BY <1>1, <1>2, <1>3

\* Each step of createRefund, of the webhook and of payments.
LEMMA RealStep ==
  ASSUME ProviderChecksBalance,
         RefundTypeOK, PayTypeOK, Provenance, RealInv, [RefundNext]_allVars
  PROVE  RealInv'
<1>1. ASSUME UNCHANGED refundVars
      PROVE  RealInv'
  BY <1>1, RealStays DEF refundVars, RealInv, Funded
<1>2. ASSUME NEW q \in RefundRequests, NEW c, Proceed(q, c),
             RealRequest(c, intent', refunded'),
             UNCHANGED <<refund, refunded>>
      PROVE  RealInv'
  <2>1. \A p \in RefundRequests : refundReq'[p] = IF p = q THEN c ELSE refundReq[p]
    BY <1>2 DEF Proceed, RefundTypeOK
  <2> QED
    BY <1>2, <2>1, RealStays DEF RealInv, Funded
<1>3. RealRequest(NotRefunding, intent', refunded')
  BY DEF RealRequest, NotRefunding
<1>4. ASSUME NEW q \in RefundRequests, NEW r \in Rows, NEW role, NEW reason,
             NEW amount \in Amount, StartRefund(q, r, role, reason, amount)
      PROVE  RealInv'
  <2> DEFINE c == [pc |-> "loaded", booking |-> r[1], intent |-> Row(r).intent,
                   amount |-> amount]
  <2>1. Row(r).intent \in IntentsOf(r[1])
    BY DEF Provenance, RowsMatch, Rows, Row
  <2>2. Belongs(intent', Row(r).intent, r[1])
    BY <2>1, IntentsBelong, IntentsStay
  <2>3. RealRequest(c, intent', refunded')
    BY <2>2 DEF RealRequest
  <2> QED
    BY <1>2, <1>4, <2>3 DEF StartRefund
<1>5. ASSUME NEW q \in RefundRequests, CheckBalance(q)
      PROVE  RealInv'
  <2> DEFINE c == refundReq[q]
  <2>1. c \in RefundRequest /\ c.pc = "loaded"
    BY <1>5 DEF CheckBalance, RefundTypeOK
  <2>2. [c EXCEPT !.pc = "checked"] = [pc |-> "checked", booking |-> c.booking,
                                       intent |-> c.intent, amount |-> c.amount]
    BY <2>1, RequestTypes
  <2>3. RealRequest([c EXCEPT !.pc = "checked"], intent', refunded')
    BY <2>1, <2>2, RealStays DEF RealRequest
  <2> QED
    BY <1>2, <1>5, <2>3 DEF CheckBalance
<1>6. ASSUME NEW q \in RefundRequests, CallStripe(q)
      PROVE  RealInv'
  <2> DEFINE c == refundReq[q]
  <2>1. PICK f \in RefundIds :
          /\ refunded[f] = NoRefund
          /\ refunded' = [refunded EXCEPT ![f] =
               [status |-> "made", intent |-> c.intent, amount |-> c.amount]]
          /\ Proceed(q, [pc |-> "refunded", booking |-> c.booking, intent |-> c.intent,
                         amount |-> c.amount, id |-> f])
    BY <1>6 DEF CallStripe
  <2>2. /\ c.pc = "checked" /\ intent[c.intent].status = "succeeded"
        /\ UNCHANGED <<intent, refund>>
    BY <1>6 DEF CallStripe, payVars, stripe
  <2>3. c.intent \in Intents /\ Belongs(intent, c.intent, c.booking)
    BY <2>2 DEF RealInv, RealRequest, Belongs
  <2>4. refunded'[f] = [status |-> "made", intent |-> c.intent, amount |-> c.amount]
    BY <2>1 DEF RefundTypeOK
  <2>5. refunded'[f] # NoRefund
    BY <2>4 DEF NoRefund
  <2>6. \A p \in RefundRequests : RealRequest(refundReq'[p], intent', refunded')
    <3>1. ASSUME NEW p \in RefundRequests, p # q
          PROVE  RealRequest(refundReq'[p], intent', refunded')
      BY <2>1, <3>1, RealStays DEF Proceed, RefundTypeOK
    <3>2. refundReq'[q] = [pc |-> "refunded", booking |-> c.booking,
                           intent |-> c.intent, amount |-> c.amount, id |-> f]
      BY <2>1 DEF Proceed, RefundTypeOK
    <3>3. RealRequest(refundReq'[q], intent', refunded')
      BY <2>2, <2>3, <2>4, <2>5, <3>2 DEF RealRequest
    <3> QED
      BY <3>1, <3>3
  <2>7. \A g \in RefundIds : Funded(refunded'[g], intent')
    <3>1. \A g \in RefundIds : g # f => refunded'[g] = refunded[g]
      BY <2>1 DEF RefundTypeOK
    <3> QED
      BY <2>2, <2>3, <2>4, <3>1 DEF Funded, RealInv
  <2>8. \A g \in RefundIds : RealRow(refund'[g], intent', refunded'[g])
    BY <2>2, RealStays
  <2> QED
    BY <2>6, <2>7, <2>8 DEF RealInv
<1>7. ASSUME NEW q \in RefundRequests, CommitRefund(q)
      PROVE  RealInv'
  <2> DEFINE c == refundReq[q]
             row == [status |-> "pending", booking |-> c.booking, amount |-> c.amount]
  <2>1. c.pc = "refunded" /\ c.id \in RefundIds
    BY <1>7, RequestTypes DEF CommitRefund, RefundTypeOK
  <2>2. RealRequest(c, intent', refunded')
    BY RealStays
  <2>3. \A f \in RefundIds : refund'[f] = IF f = c.id THEN row ELSE refund[f]
    BY <1>7 DEF CommitRefund, RefundTypeOK
  <2>4. RealRow(row, intent', refunded'[c.id])
    BY <2>1, <2>2 DEF RealRequest, RealRow
  <2>5. \A p \in RefundRequests : RealRequest(refundReq'[p], intent', refunded')
    BY <1>3, <1>7, RealStays DEF CommitRefund, Proceed, RefundTypeOK
  <2>6. \A f \in RefundIds : Funded(refunded'[f], intent')
    BY <1>7, RealStays DEF CommitRefund, Funded
  <2>7. \A f \in RefundIds : RealRow(refund'[f], intent', refunded'[f])
    BY <2>3, <2>4, RealStays
  <2> QED
    BY <2>5, <2>6, <2>7 DEF RealInv
<1>8. ASSUME NEW q \in RefundRequests, AbandonRefund(q)
      PROVE  RealInv'
  BY <1>2, <1>3, <1>8 DEF AbandonRefund
<1>9. ASSUME NEW f \in RefundIds, ChargeRefunded(f)
      PROVE  RealInv'
  <2>1. UNCHANGED <<refundReq, refunded>>
    BY <1>9 DEF ChargeRefunded
  <2>2. ASSUME NEW g \in RefundIds
        PROVE  RealRow(refund'[g], intent', refunded'[g])
    <3>1. CASE refund'[g] = refund[g]
      BY <3>1, RealStays
    <3>2. CASE refund[g].status = "pending"
                 /\ refund'[g] = [refund[g] EXCEPT !.status = "succeeded"]
      <4>1. refund[g] \in [status : {"pending", "succeeded"}, booking : Bookings,
                           amount : Amount]
        BY <3>2 DEF RefundTypeOK, Refund, NoRefund
      <4>2. /\ refund[g] # NoRefund
            /\ refund'[g].booking = refund[g].booking
            /\ refund'[g].amount = refund[g].amount
        BY <3>2, <4>1 DEF NoRefund
      <4> QED
        BY <4>2, RealStays DEF RealRow
    <3> QED
      BY <1>9, <3>1, <3>2 DEF ChargeRefunded
  <2>3. \A g \in RefundIds : Funded(refunded'[g], intent')
    BY <2>1, RealStays DEF Funded
  <2> QED
    BY <2>1, <2>2, <2>3, RealStays DEF RealInv
<1> QED
  BY <1>1, <1>4, <1>5, <1>6, <1>7, <1>8, <1>9
  DEF RefundNext, RefundStep, allVars

\* When Stripe itself is asked (and not the mock, which refunds what was never
\* paid), no refund is made up: each row is of a refund made at Stripe, of that
\* amount, on an intent of that booking which has been paid (RefundsAreReal).
THEOREM RefundsReal ==
  ProviderChecksBalance => (RefundSpec => []RefundsAreReal)
<1> SUFFICES ASSUME ProviderChecksBalance PROVE RefundSpec => []RefundsAreReal
  OBVIOUS
<1>1. RefundInit => RealInv
  BY DEF RefundInit, RealInv, RealRequest, RealRow, Funded, NotRefunding
<1>2. RefundTypeOK /\ PayTypeOK /\ Provenance /\ RealInv /\ [RefundNext]_allVars
        => RealInv'
  BY RealStep
<1>3. RealInv => RefundsAreReal
  BY IntentsBelong DEF RealInv, RealRow, Funded, RefundsAreReal
<1> QED
  BY <1>1, <1>2, <1>3, RefundTypeCorrect, ImplementsPayments, PayTypeCorrect,
     ProvenanceInvariant, PTL DEF RefundSpec

-----------------------------------------------------------------------------
(* Refunds: they are paid for                                              *)

\* Which refunds Stripe has made, on which intent, and of what.
Made(made) == {f \in RefundIds : made[f] # NoRefund}

MadeOn(made, i) == {f \in Made(made) : made[f].intent = i}

AmountOf(table) == [f \in RefundIds |-> table[f].amount]

IntentOf(made) == [f \in RefundIds |-> made[f].intent]

\* Stripe pays back no more of an intent than it has received for it.
Balanced(made) ==
  \A i \in Intents : SumFunctionOnSet(AmountOf(made), MadeOn(made, i)) <= TotalCents

\* Sets of refunds are finite, and what was refunded is an amount.
LEMMA MadeTypes ==
  ASSUME NEW made \in [RefundIds -> StripeRefund]
  PROVE  /\ \A S \in SUBSET RefundIds : IsFiniteSet(S)
         /\ \A f \in Made(made) : AmountOf(made)[f] \in Nat
         /\ Made(made) \subseteq RefundIds
         /\ \A i : MadeOn(made, i) \subseteq Made(made)
<1>1. \A S \in SUBSET RefundIds : IsFiniteSet(S)
  BY FS_Subset, RefundsAssumption
<1>2. \A f \in Made(made) : AmountOf(made)[f] \in Nat
  BY RefundsAssumption DEF Made, AmountOf, StripeRefund, Amount
<1> QED
  BY <1>1, <1>2 DEF Made, MadeOn

\* The balance that Stripe checks is such a sum.
LEMMA StripeTotals ==
  \A i : RefundedAtStripe(i) = SumFunctionOnSet(AmountOf(refunded), MadeOn(refunded, i))
<1> SUFFICES ASSUME NEW i
             PROVE  RefundedAtStripe(i)
                      = SumFunctionOnSet(AmountOf(refunded), MadeOn(refunded, i))
  OBVIOUS
<1> DEFINE S == {f \in RefundIds : refunded[f] # NoRefund /\ refunded[f].intent = i}
<1>1. S = MadeOn(refunded, i)
  BY DEF MadeOn, Made
<1>2. RefundedAtStripe(i) = MapThenSumSet(LAMBDA f : refunded[f].amount, S)
  BY DEF RefundedAtStripe
<1>3. IsFiniteSet(S) /\ S \subseteq RefundIds
  BY FS_Subset, RefundsAssumption
<1> HIDE DEF S
<1>4. RefundedAtStripe(i) = SumFunctionOnSet([f \in S |-> refunded[f].amount], S)
  BY <1>2, SumOfAmounts
<1>5. SumFunctionOnSet([f \in S |-> refunded[f].amount], S)
        = SumFunctionOnSet(AmountOf(refunded), S)
  <2>1. \A f \in S : [g \in S |-> refunded[g].amount][f] = AmountOf(refunded)[f]
    BY <1>3 DEF AmountOf
  <2> QED
    BY <1>3, <2>1, SumOfEqual
<1> QED
  BY <1>1, <1>4, <1>5

\* One more refund on an intent that has received as much keeps the balance.
LEMMA BalanceStep ==
  ASSUME ProviderChecksBalance, RefundTypeOK, RefundTypeOK', Balanced(refunded),
         [RefundNext]_allVars
  PROVE  Balanced(refunded')
<1>1. ASSUME NEW q \in RefundRequests, CallStripe(q)
      PROVE  Balanced(refunded')
  <2> DEFINE c == refundReq[q]
             m == [status |-> "made", intent |-> c.intent, amount |-> c.amount]
  <2>1. PICK f \in RefundIds : refunded[f] = NoRefund /\ refunded' = [refunded EXCEPT ![f] = m]
    BY <1>1 DEF CallStripe
  <2>2. /\ refunded \in [RefundIds -> StripeRefund]
        /\ refunded' \in [RefundIds -> StripeRefund]
    BY DEF RefundTypeOK
  <2>3. \A g \in RefundIds : refunded'[g] = IF g = f THEN m ELSE refunded[g]
    BY <2>1, <2>2
  <2>4. RefundedAtStripe(c.intent) + c.amount <= TotalCents
    BY <1>1 DEF CallStripe
  <2>5. m # NoRefund
    BY DEF NoRefund
  <2> SUFFICES ASSUME NEW i \in Intents
               PROVE  SumFunctionOnSet(AmountOf(refunded'), MadeOn(refunded', i)) <= TotalCents
    BY DEF Balanced
  <2>6. \A g \in MadeOn(refunded, i) : AmountOf(refunded')[g] = AmountOf(refunded)[g]
    BY <2>1, <2>3 DEF MadeOn, Made, AmountOf
  <2>7. SumFunctionOnSet(AmountOf(refunded'), MadeOn(refunded, i))
          = SumFunctionOnSet(AmountOf(refunded), MadeOn(refunded, i))
    BY <2>2, <2>6, MadeTypes, SumOfEqual
  <2>8. CASE i # c.intent
    <3>1. MadeOn(refunded', i) = MadeOn(refunded, i)
      BY <2>1, <2>3, <2>8 DEF MadeOn, Made
    <3> QED
      BY <2>7, <3>1 DEF Balanced
  <2>9. CASE i = c.intent
    <3>1. f \in MadeOn(refunded', i) /\ MadeOn(refunded', i) \ {f} = MadeOn(refunded, i)
      BY <2>1, <2>3, <2>5, <2>9 DEF MadeOn, Made
    <3>2. /\ IsFiniteSet(MadeOn(refunded', i))
          /\ \A g \in MadeOn(refunded', i) : AmountOf(refunded')[g] \in Nat
      BY <2>2, MadeTypes
    <3>3. SumFunctionOnSet(AmountOf(refunded'), MadeOn(refunded', i))
            = AmountOf(refunded')[f]
                + SumFunctionOnSet(AmountOf(refunded'), MadeOn(refunded', i) \ {f})
      BY <3>1, <3>2, SumTakesOut
    <3>4. AmountOf(refunded')[f] = c.amount
      BY <2>3 DEF AmountOf
    <3>5. /\ IsFiniteSet(MadeOn(refunded, i))
          /\ \A g \in MadeOn(refunded, i) : AmountOf(refunded)[g] \in Nat
      BY <2>2, MadeTypes
    <3>6. SumFunctionOnSet(AmountOf(refunded), MadeOn(refunded, i)) \in Nat
      BY <3>5, SumIsNatural
    <3>7. c.amount \in Nat
      BY <3>1, <3>2, <3>4
    <3>8. SumFunctionOnSet(AmountOf(refunded), MadeOn(refunded, i)) + c.amount <= TotalCents
      BY <2>4, <2>9, StripeTotals
    <3>9. SumFunctionOnSet(AmountOf(refunded'), MadeOn(refunded', i))
            = c.amount + SumFunctionOnSet(AmountOf(refunded), MadeOn(refunded, i))
      BY <2>7, <3>1, <3>3, <3>4
    <3> HIDE DEF c
    <3> QED
      BY <3>6, <3>7, <3>8, <3>9, RefundsAssumption
  <2> QED
    BY <2>8, <2>9
<1>2. ASSUME UNCHANGED refunded
      PROVE  Balanced(refunded')
  BY <1>2
<1> QED
  BY <1>1, <1>2 DEF RefundNext, RefundStep, StartRefund, CheckBalance, CommitRefund,
                    AbandonRefund, ChargeRefunded, refundVars, allVars

\* The rows of a booking are among what Stripe has refunded of the intents that
\* were paid for it.
LEMMA RowsArePaidFor ==
  ASSUME RefundTypeOK, RefundsAreReal, Balanced(refunded)
  PROVE  RefundedWithinPayment
<1> SUFFICES ASSUME NEW b \in Bookings
             PROVE  MapThenSumSet(LAMBDA f : refund[f].amount, RefundRows(b))
                      <= TotalCents * Cardinality({i \in IntentsOf(b) :
                                                     intent[i].status = "succeeded"})
  BY DEF RefundedWithinPayment
<1> DEFINE K == {i \in IntentsOf(b) : intent[i].status = "succeeded"}
           P == {f \in Made(refunded) : IntentOf(refunded)[f] \in K}
           R == RefundRows(b)
           sum == MapThenSumSet(LAMBDA f : refund[f].amount, R)
<1>1. refunded \in [RefundIds -> StripeRefund]
  BY DEF RefundTypeOK
<1>2. K \in SUBSET Intents /\ IsFiniteSet(K)
  BY FS_Subset, RefundsAssumption DEF IntentsOf
<1>3. R \in SUBSET P /\ R \in SUBSET RefundIds /\ P \in SUBSET Made(refunded)
  BY DEF RefundRows, RefundsAreReal, Made, IntentOf
<1>4. \A f \in R : refund[f].amount = AmountOf(refunded)[f]
  BY DEF RefundRows, RefundsAreReal, AmountOf
<1>5. \A i \in K : SumFunctionOnSet(AmountOf(refunded),
                                   {f \in Made(refunded) : IntentOf(refunded)[f] = i})
                   <= TotalCents
  <2> SUFFICES ASSUME NEW i \in K
               PROVE  SumFunctionOnSet(AmountOf(refunded),
                                       {f \in Made(refunded) : IntentOf(refunded)[f] = i})
                        <= TotalCents
    OBVIOUS
  <2>1. {f \in Made(refunded) : IntentOf(refunded)[f] = i} = MadeOn(refunded, i)
    BY DEF MadeOn, Made, IntentOf
  <2> QED
    BY <1>2, <2>1 DEF Balanced
<1>6. /\ IsFiniteSet(Made(refunded)) /\ IsFiniteSet(P) /\ IsFiniteSet(R)
      /\ \A f \in Made(refunded) : AmountOf(refunded)[f] \in Nat
      /\ \A f \in P : AmountOf(refunded)[f] \in Nat
      /\ TotalCents \in Nat
  BY <1>1, <1>3, MadeTypes, RefundsAssumption
<1>7. SumFunctionOnSet(AmountOf(refunded), P) <= TotalCents * Cardinality(K)
  <2> HIDE DEF K
  <2> QED
    BY <1>2, <1>5, <1>6, SumOfKinds
<1> HIDE DEF P, R, K
<1>8. SumFunctionOnSet(AmountOf(refunded), R) <= SumFunctionOnSet(AmountOf(refunded), P)
  BY <1>3, <1>6, SumOfPart
<1>9. sum = SumFunctionOnSet(AmountOf(refunded), R)
  <2>1. sum = SumFunctionOnSet([f \in R |-> refund[f].amount], R)
    BY SumOfAmounts
  <2>2. \A f \in R : [g \in R |-> refund[g].amount][f] = AmountOf(refunded)[f]
    BY <1>4
  <2> HIDE DEF sum
  <2> QED
    BY <1>6, <2>1, <2>2, SumOfEqual
<1>10. /\ SumFunctionOnSet(AmountOf(refunded), R) \in Nat
       /\ SumFunctionOnSet(AmountOf(refunded), P) \in Nat
       /\ TotalCents * Cardinality(K) \in Nat
  <2>1. \A f \in R : AmountOf(refunded)[f] \in Nat
    BY <1>3, <1>6
  <2> QED
    BY <1>2, <1>6, <2>1, SumIsNatural, FS_CardinalityType
<1>11. sum <= TotalCents * Cardinality(K)
  <2> HIDE DEF sum
  <2> QED
    BY <1>7, <1>8, <1>9, <1>10
<1> QED
  BY <1>11 DEF R, K

\* Against Stripe itself, however createRefund requests, payments and webhooks
\* interleave and whichever of them fail half-way, no more is refunded for a
\* booking than was paid for it, although createRefund compares with a balance it
\* has read before and in which what is pending does not count.
THEOREM RefundsWithinPayments ==
  ProviderChecksBalance => (RefundSpec => []RefundsArePaidFor)
<1> SUFFICES ASSUME ProviderChecksBalance PROVE RefundSpec => []RefundsArePaidFor
  OBVIOUS
<1> DEFINE Inv == Balanced(refunded)
<1>1. RefundInit => Inv
  <2> SUFFICES ASSUME RefundInit, NEW i \in Intents
               PROVE  SumFunctionOnSet(AmountOf(refunded), MadeOn(refunded, i)) <= TotalCents
    BY DEF Balanced
  <2>1. MadeOn(refunded, i) = {}
    BY DEF RefundInit, MadeOn, Made
  <2>2. SumFunctionOnSet(AmountOf(refunded), {}) = 0
    BY SumOfNone
  <2> QED
    BY <2>1, <2>2, RefundsAssumption
<1>2. RefundTypeOK /\ RefundTypeOK' /\ Inv /\ [RefundNext]_allVars => Inv'
  BY BalanceStep
<1>3. RefundTypeOK /\ RefundsAreReal /\ Inv => RefundsArePaidFor
  BY RowsArePaidFor DEF RefundsArePaidFor
<1>4. RefundSpec => []RefundsAreReal
  BY RefundsReal
<1> HIDE DEF Inv
<1> QED
  BY <1>1, <1>2, <1>3, <1>4, RefundTypeCorrect, PTL DEF RefundSpec
=============================================================================
