----------------------------- MODULE Payments -----------------------------
(***************************************************************************)
(* The payments component on top of the bookings component: the payment    *)
(* rows, PaymentService.createPaymentIntent in its real steps, the Stripe  *)
(* webhook, and reconcilePayments.  Stripe itself is external: it keeps    *)
(* the intents, and it delivers each of its events at least once, in any   *)
(* order, several at a time, again and again until one is acknowledged.    *)
(*                                                                         *)
(* Bookings knows of payments only two actions, CreatePaymentIntent and    *)
(* ReconcilePayment.  BookingsSpec below says that nothing which happens   *)
(* here does anything else to a booking.                                   *)
(***************************************************************************)
EXTENDS Bookings

CONSTANTS
  Intents,     \* identifiers of Stripe PaymentIntents
  Deliveries   \* concurrent webhook requests

VARIABLES
  payments,   \* table payments: the rows of each booking, oldest first
  processed,  \* table webhook_events: the events with a row, all processed
  receipts,   \* bookings whose receipt is in the notifications queue
  pay,        \* what createPaymentIntent holds besides req
  delivery,   \* what each webhook request holds
  unresolved, \* what reconcilePayments has loaded and not yet handled
  intent,     \* at Stripe: the intents
  issued,     \* intents whose client secret a traveler has received
  sent        \* at Stripe: the events raised so far

backend == <<payments, processed, receipts, pay, delivery, unresolved>>
stripe == <<intent, issued, sent>>
payVars == <<vars, backend, stripe>>

-----------------------------------------------------------------------------
(* Types                                                                   *)

\* requires_action and processing are in the enum, but nothing writes them.
PaymentStatus == {"requires_payment_method", "succeeded", "failed", "cancelled"}

Payment == [intent : Intents, status : PaymentStatus]

\* A row by its primary key: the booking and the position among its rows.
RowId == Bookings \X (Nat \ {0})

\* status is "unused" until createPaymentIntent has asked for the intent.
Intent ==
  [status : {"unused"}]
    \cup [status : {"open", "succeeded", "canceled"}, booking : Bookings]

EventType == {"succeeded", "payment_failed", "canceled"}

StripeEvent == Intents \X EventType

\* "started": the booking is read.  "loaded": so is the latest payment row
\* (existing, 0 if there is none), and Stripe has answered with an intent.
NotPaying == [pc |-> "none"]

PayRequest ==
  {NotPaying}
    \cup [pc : {"started"}, booking : Bookings]
    \cup [pc : {"loaded"}, booking : Bookings, intent : Intents, existing : Nat]

\* "checked": the event was not processed when the request looked.  "found":
\* inside the transaction, with the row (if any) that has the event's intent.
\* "committed": before the jobs are handed over.
NoDelivery == [pc |-> "none"]

Delivery ==
  {NoDelivery}
    \cup [pc : {"checked", "committed"}, event : StripeEvent]
    \cup [pc : {"found"}, event : StripeEvent, rows : SUBSET RowId]

PayTypeOK ==
  /\ payments \in [Bookings -> Seq(Payment)]
  /\ processed \in SUBSET StripeEvent
  /\ receipts \in SUBSET Bookings
  /\ pay \in [Handlers -> PayRequest]
  /\ delivery \in [Deliveries -> Delivery]
  /\ unresolved \in SUBSET (RowId \X Intents)
  /\ intent \in [Intents -> Intent]
  /\ issued \in SUBSET Intents
  /\ sent \in SUBSET StripeEvent

PayInit ==
  /\ Init
  /\ payments = [b \in Bookings |-> <<>>]
  /\ processed = {}
  /\ receipts = {}
  /\ pay = [h \in Handlers |-> NotPaying]
  /\ delivery = [d \in Deliveries |-> NoDelivery]
  /\ unresolved = {}
  /\ intent = [i \in Intents |-> [status |-> "unused"]]
  /\ issued = {}
  /\ sent = {}

-----------------------------------------------------------------------------
(* PaymentRepository                                                       *)

Rows == UNION {{b} \X DOMAIN payments[b] : b \in Bookings}

Row(r) == payments[r[1]][r[2]]

\* findByStripeIntentId.  The column is unique.
FindByStripeIntentId(i) == {r \in Rows : Row(r).intent = i}

\* updateStatus of the rows with these ids, whatever they hold by now.
UpdatePaymentStatus(rows, status) ==
  payments' =
    [b \in Bookings |->
      [k \in DOMAIN payments[b] |->
        IF <<b, k>> \in rows
          THEN [intent |-> payments[b][k].intent, status |-> status]
          ELSE payments[b][k]]]

\* findUnresolvedPayments.  Any row may be older than an hour.
Unresolved == {r \in Rows : Row(r).status = "requires_payment_method"}

-----------------------------------------------------------------------------
(* PaymentService.createPaymentIntent                                      *)

\* The booking is read, and refused unless accepted or awaiting_payment.
StartPayment(h, b) ==
  /\ CreatePaymentIntent(h, b)
  /\ pay' = IF booking[b].status \in {"accepted", "awaiting_payment"}
              THEN [pay EXCEPT ![h] = [pc |-> "started", booking |-> b]]
              ELSE pay
  /\ UNCHANGED <<payments, processed, receipts, delivery, unresolved, stripe>>

Unused == {i \in Intents : intent[i].status = "unused"}

IntentsOf(b) == {i \in Intents \ Unused : intent[i].booking = b}

\* The latest payment row is read (refused if succeeded) and Stripe called:
\* it answers with a new intent, or with one of this booking if it has seen
\* the Idempotency-Key before.  The intent is of use to nobody yet.
LoadPayment(h) ==
  LET b == pay[h].booking
      existing == Len(payments[b])
  IN  /\ pay[h].pc = "started"
      /\ existing > 0 => payments[b][existing].status # "succeeded"
      /\ \E i \in Unused \cup IntentsOf(b) :
           /\ intent' = IF i \in Unused
                          THEN [intent EXCEPT ![i] = [status |-> "open", booking |-> b]]
                          ELSE intent
           /\ pay' = [pay EXCEPT ![h] = [pc |-> "loaded", booking |-> b,
                                         intent |-> i, existing |-> existing]]
      /\ UNCHANGED <<vars, payments, processed, receipts, delivery, unresolved,
                     issued, sent>>

\* The row that was the latest gets the new intent, or the first row is
\* created.
SavePayment(p) ==
  LET row == [intent |-> p.intent, status |-> "requires_payment_method"]
  IN  payments' = [payments EXCEPT ![p.booking] =
                     IF p.existing = 0 THEN Append(@, row)
                     ELSE [@ EXCEPT ![p.existing] = row]]

\* Mutant: the booking is moved without its lock.
CommitPaymentUnlocked(h) ==
  /\ pay[h].pc = "loaded"
  /\ FindByStripeIntentId(pay[h].intent)
       \subseteq {<<pay[h].booking, pay[h].existing>>}
  /\ SavePayment(pay[h])
  /\ \/ /\ req[h].pc = "validated"
        /\ UpdateStatus(req[h].booking, req[h].to)
        /\ CreateEvent(req[h].booking, req[h].from, req[h].to, req[h].role)
        /\ req' = [req EXCEPT ![h] = Idle]
        /\ UNCHANGED <<overdue, expiry, queue>>
     \/ Respond(h)
  /\ pay' = [pay EXCEPT ![h] = NotPaying]
  /\ issued' = issued \cup {pay[h].intent}
  /\ UNCHANGED <<processed, receipts, delivery, unresolved, intent, sent>>

\* The transaction: the payment row, without a lock, and, if the booking was
\* accepted when read, its transition under the lock.  The answer carries the
\* client secret.
CommitPayment(h) ==
  /\ pay[h].pc = "loaded"
  /\ FindByStripeIntentId(pay[h].intent)
       \subseteq {<<pay[h].booking, pay[h].existing>>}
  /\ SavePayment(pay[h])
  /\ Commit(h) \/ Respond(h)
  /\ pay' = [pay EXCEPT ![h] = NotPaying]
  /\ issued' = issued \cup {pay[h].intent}
  /\ UNCHANGED <<processed, receipts, delivery, unresolved, intent, sent>>

\* The booking has changed since it was read (409); or the provider is gone,
\* the booking already paid, Stripe unreachable, the intent saved by another
\* row; or the process dies.
AbandonPayment(h) ==
  /\ pay[h] # NotPaying
  /\ Conflict(h) \/ Lost(h) \/ Respond(h)
  /\ pay' = [pay EXCEPT ![h] = NotPaying]
  /\ UNCHANGED <<payments, processed, receipts, delivery, unresolved, stripe>>

\* simulatePayment asks for a transition to confirmed that neither of the
\* statuses it accepts allows, so its transaction always rolls back.
SimulatePayment(h, b) ==
  /\ Load(h, b,
          /\ booking[b].status \in {"accepted", "awaiting_payment"}
          /\ Valid(b, "confirmed", "system", FALSE),
          "confirmed", "system", FALSE)
  /\ UNCHANGED <<backend, stripe>>

-----------------------------------------------------------------------------
(* Stripe and the traveler's browser                                       *)

Raise(i, type) == sent' = sent \cup {<<i, type>>}

\* The traveler pays, with any secret ever received.
Pay(i) ==
  /\ i \in issued
  /\ intent[i].status = "open"
  /\ intent' = [intent EXCEPT ![i].status = "succeeded"]
  /\ Raise(i, "succeeded")
  /\ UNCHANGED <<vars, backend, issued>>

\* The card is refused; the intent stays open for another attempt.
PayFails(i) ==
  /\ i \in issued
  /\ intent[i].status = "open"
  /\ Raise(i, "payment_failed")
  /\ UNCHANGED <<vars, backend, intent, issued>>

CancelIntent(i) ==
  /\ intent[i].status = "open"
  /\ intent' = [intent EXCEPT ![i].status = "canceled"]
  /\ Raise(i, "canceled")
  /\ UNCHANGED <<vars, backend, issued>>

-----------------------------------------------------------------------------
(* PaymentService.handleWebhookEvent                                       *)

\* A request arrives for an event not yet processed.  (If it is processed the
\* answer is 200 and nothing happens.)
Receive(d, e) ==
  /\ delivery[d] = NoDelivery
  /\ e \in sent \ processed
  /\ delivery' = [delivery EXCEPT ![d] = [pc |-> "checked", event |-> e]]
  /\ UNCHANGED <<vars, payments, processed, receipts, pay, unresolved, stripe>>

\* Mutant: the event's row is not inserted here, so that nothing is unique.
FindPaymentNoInsert(d, e) ==
  /\ delivery[d] = [pc |-> "checked", event |-> e]
  /\ delivery' = [delivery EXCEPT ![d] =
       [pc |-> "found", event |-> e, rows |-> FindByStripeIntentId(e[1])]]
  /\ UNCHANGED <<vars, payments, processed, receipts, pay, unresolved, stripe>>

\* The transaction inserts the event, and so waits for another transaction
\* that has inserted it, and then looks for the payment row.
FindPayment(d, e) ==
  /\ delivery[d] = [pc |-> "checked", event |-> e]
  /\ e \notin processed
  /\ \A o \in Deliveries : delivery[o].pc = "found" => delivery[o].event # e
  /\ delivery' = [delivery EXCEPT ![d] =
       [pc |-> "found", event |-> e, rows |-> FindByStripeIntentId(e[1])]]
  /\ UNCHANGED <<vars, payments, processed, receipts, pay, unresolved, stripe>>

\* The other transaction has committed: unique violation.
Duplicate(d, e) ==
  /\ delivery[d] = [pc |-> "checked", event |-> e]
  /\ e \in processed
  /\ delivery' = [delivery EXCEPT ![d] = NoDelivery]
  /\ UNCHANGED <<vars, payments, processed, receipts, pay, unresolved, stripe>>

\* The transaction writes the payment row and marks the event processed.
Settle(d, e, status) ==
  /\ delivery[d].pc = "found"
  /\ delivery[d].event = e
  /\ UpdatePaymentStatus(delivery[d].rows, status)
  /\ processed' = processed \cup {e}
  /\ delivery' = [delivery EXCEPT ![d] =
       IF e[2] = "succeeded" THEN [pc |-> "committed", event |-> e]
       ELSE NoDelivery]
  /\ UNCHANGED <<overdue, req, expiry, queue, receipts, pay, unresolved, stripe>>

\* Mutant: a failure is only accepted for a payment that is still open.
SettleFailedIfOpen(d, e) ==
  /\ e[2] = "payment_failed"
  /\ delivery[d].pc = "found"
  /\ \A r \in delivery[d].rows : Row(r).status = "requires_payment_method"
  /\ Settle(d, e, "failed")
  /\ UNCHANGED <<booking, events>>

SettleFailed(d, e) ==
  /\ e[2] = "payment_failed"
  /\ Settle(d, e, "failed")
  /\ UNCHANGED <<booking, events>>

SettleCanceled(d, e) ==
  /\ e[2] = "canceled"
  /\ Settle(d, e, "cancelled")
  /\ UNCHANGED <<booking, events>>

\* Mutant: the webhook confirms the booking whatever its status.
ConfirmUnvalidated(b) ==
  /\ UpdateStatus(b, "confirmed")
  /\ CreateEvent(b, booking[b].status, "confirmed", "system")

\* The booking of a payment that has succeeded.  Not confirmed yet, it is
\* confirmed if validateTransition allows it, which takes a booking in paid.
ConfirmBooking(b) ==
  \/ /\ booking[b].status = "confirmed"
     /\ UNCHANGED <<booking, events>>
  \/ /\ Valid(b, "confirmed", "system", FALSE)
     /\ UpdateStatus(b, "confirmed")
     /\ CreateEvent(b, booking[b].status, "confirmed", "system")

\* An event for an intent that no row has is acknowledged all the same.
SettleSucceeded(d, e) ==
  /\ e[2] = "succeeded"
  /\ Settle(d, e, "succeeded")
  /\ \/ delivery[d].rows = {} /\ UNCHANGED <<booking, events>>
     \/ \E r \in delivery[d].rows : ConfirmBooking(r[1])

\* The jobs after the commit: the row is looked for once more.
SendReceipt(d) ==
  /\ delivery[d].pc = "committed"
  /\ receipts' = receipts \cup
       {r[1] : r \in FindByStripeIntentId(delivery[d].event[1])}
  /\ delivery' = [delivery EXCEPT ![d] = NoDelivery]
  /\ UNCHANGED <<vars, payments, processed, pay, unresolved, stripe>>

\* validateTransition or the lock throws and the transaction rolls back, or
\* the process dies.  Either way Stripe gets no 2xx.
DeliveryFails(d) ==
  /\ delivery[d] # NoDelivery
  /\ delivery' = [delivery EXCEPT ![d] = NoDelivery]
  /\ UNCHANGED <<vars, payments, processed, receipts, pay, unresolved, stripe>>

-----------------------------------------------------------------------------
(* PaymentService.reconcilePayments                                        *)

\* The rows are loaded once, each with its intent of that moment.
LoadUnresolved ==
  /\ Reconciling
  /\ unresolved = {}
  /\ Unresolved # {}
  /\ unresolved' = {<<r, Row(r).intent>> : r \in Unresolved}
  /\ UNCHANGED <<vars, payments, processed, receipts, pay, delivery, stripe>>

\* Mutant: the answer of Stripe is not looked at.
ReconcileNextUnchecked ==
  \E u \in unresolved :
    LET b == u[1][1]
    IN  /\ UpdatePaymentStatus({u[1]}, "succeeded")
        /\ ReconcilePayment(b) \/ (booking[b].status = "confirmed" /\ UNCHANGED vars)
        /\ unresolved' = unresolved \ {u}
        /\ UNCHANGED <<processed, receipts, pay, delivery, stripe>>

\* One turn of the loop.  Stripe is asked about the intent remembered, and the
\* row by its id set to succeeded; then the booking is read and confirmed.
ReconcileNext ==
  \E u \in unresolved :
    LET b == u[1][1]
    IN  /\ intent[u[2]].status = "succeeded"
        /\ UpdatePaymentStatus({u[1]}, "succeeded")
        /\ \/ ReconcilePayment(b)
           \/ booking[b].status = "confirmed" /\ UNCHANGED vars
        /\ unresolved' = unresolved \ {u}
        /\ UNCHANGED <<processed, receipts, pay, delivery, stripe>>

\* Not paid, or Stripe or the lock has thrown (caught, the next row follows);
\* or the process dies.
ReconcileSkip ==
  \E rest \in {{}} \cup {unresolved \ {u} : u \in unresolved} :
    /\ unresolved # {}
    /\ unresolved' = rest
    /\ UNCHANGED <<vars, payments, processed, receipts, pay, delivery, stripe>>

-----------------------------------------------------------------------------
\* A request to the bookings component, or the expiry job.
BookingStep ==
  /\ \/ \E h \in Handlers :
          /\ pay[h] = NotPaying
          /\ \/ \E b \in Bookings :
                  \/ CreateBooking(h, b)
                  \/ AcceptBooking(h, b)
                  \/ DeclineBooking(h, b)
                  \/ CancelBooking(h, b)
                  \/ CompleteBooking(h, b)
                  \/ NoShowBooking(h, b)
             \/ Commit(h)
             \/ Conflict(h)
             \/ Enqueue(h)
             \/ Respond(h)
             \/ Lost(h)
     \/ \E w \in Workers : ExpiryJob(w)
     \/ \E b \in Bookings : TimePasses(b)
  /\ UNCHANGED <<backend, stripe>>

PaymentStep(h) ==
  \/ \E b \in Bookings : StartPayment(h, b) \/ SimulatePayment(h, b)
  \/ LoadPayment(h)
  \/ CommitPayment(h)
  \/ AbandonPayment(h)

Webhook(d) ==
  \/ \E e \in sent :
       \/ Receive(d, e)
       \/ FindPayment(d, e)
       \/ Duplicate(d, e)
       \/ SettleFailed(d, e)
       \/ SettleCanceled(d, e)
       \/ SettleSucceeded(d, e)
  \/ SendReceipt(d)
  \/ DeliveryFails(d)

Reconcile == LoadUnresolved \/ ReconcileNext \/ ReconcileSkip

PayNext ==
  \/ BookingStep
  \/ \E h \in Handlers : PaymentStep(h)
  \/ \E d \in Deliveries : Webhook(d)
  \/ Reconcile
  \/ \E i \in Intents : Pay(i) \/ PayFails(i) \/ CancelIntent(i)

PaySpec == PayInit /\ [][PayNext]_payVars

\* Stripe does not give up on an event before it is acknowledged, not every one
\* of its requests hits a dying process, and no request hangs for ever.
Redelivery ==
  /\ \A d \in Deliveries : WF_payVars(DeliveryFails(d))
  /\ \A e \in StripeEvent :
       /\ SF_payVars(\E d \in Deliveries : Receive(d, e))
       /\ SF_payVars(\E d \in Deliveries : FindPayment(d, e) \/ Duplicate(d, e))
       /\ SF_payVars(\E d \in Deliveries : \/ SettleFailed(d, e)
                                           \/ SettleCanceled(d, e)
                                           \/ SettleSucceeded(d, e))

FairPaySpec == PaySpec /\ Redelivery

-----------------------------------------------------------------------------
(* Properties                                                              *)

\* Composition: whatever payments do, they do to bookings only what the
\* bookings component expects, so what holds of it alone holds here too.  In
\* particular the webhook never confirms a booking, because validateTransition
\* wants it in paid, where nothing puts it.
BookingsSpec == Spec

\* The table has no unique key on the booking, yet a booking never gets two
\* payment rows: the first row is only ever created together with the move
\* out of accepted, and of two racing requests one loses that (CommitPayment).
OnePaymentPerBooking == \A b \in Bookings : Len(payments[b]) <= 1

\* The traveler has paid for b: not what the database says, but Stripe.
PaidFor(b) == \E i \in IntentsOf(b) : intent[i].status = "succeeded"

\* Money first.  A booking is confirmed or completed, a payment recorded as
\* succeeded, and a receipt sent only when Stripe has the money for that very
\* booking, although webhooks and reconciliation act on stale rows.
MoneyFirst ==
  \A b \in Bookings :
    \/ booking[b].status \in {"confirmed", "in_progress", "completed"}
    \/ \E k \in DOMAIN payments[b] : payments[b][k].status = "succeeded"
    \/ b \in receipts
    => PaidFor(b)

\* Duplicate deliveries are no-ops: of all requests for one event that passed
\* the unlocked check at most one gets to act on it, and none once the event
\* is processed.
EventAppliedOnce ==
  \A d \in Deliveries : delivery[d].pc = "found" =>
    /\ delivery[d].event \notin processed
    /\ \A o \in Deliveries :
         delivery[o].pc = "found" /\ delivery[o].event = delivery[d].event => o = d

\* A failure is recorded in the end, or acknowledged because its row has moved
\* on to another intent: no such event is redelivered for ever.
FailureIsAcknowledged ==
  \A i \in Intents :
    <<i, "payment_failed">> \in sent ~> <<i, "payment_failed">> \in processed

-----------------------------------------------------------------------------
(* What comments, pages and tests say and the code does not keep: TLC      *)
(* refutes each on a small instance.                                       *)

\* "Transition Booking: awaiting_payment -> paid -> confirmed" (the webhook): a
\* booking whose payment has succeeded at Stripe does not stay where it is.
PaidBookingMovesOn ==
  \A b \in Bookings :
    (booking[b].status = "awaiting_payment" /\ PaidFor(b))
      ~> booking[b].status # "awaiting_payment"

\* "Terminal states - no transitions allowed": a booking that has been
\* cancelled, declined, expired or completed stays so.
TerminalIsFinal ==
  [][\A b \in Bookings : booking[b].status \in Terminal =>
       booking'[b].status = booking[b].status]_payVars

\* "This booking has already been paid for": a booking is not paid twice.
PaidOnce ==
  \A b \in Bookings : \A i, j \in IntentsOf(b) :
    intent[i].status = "succeeded" /\ intent[j].status = "succeeded" => i = j
=============================================================================
