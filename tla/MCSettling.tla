---------------------------- MODULE MCSettling ----------------------------
(***************************************************************************)
(* What must happen to bookings, payments and refunds in the end, on small *)
(* instances, under the fairness of each.  Each behaviour is about one     *)
(* question, `part`: do overdue bookings leave pending, is Stripe ever     *)
(* done with a failed payment, do pending refunds settle?                  *)
(***************************************************************************)
EXTENDS Integers, FiniteSets, Sequences

CONSTANTS
  Parts,   \* the questions of this run
  MaxMoves \* bound: transitions of a booking, in the question of expiry (an
           \* overdue booking that is pending has made none: expiry is never barred)

VARIABLES
  part,                                                       \* the question
  booking, events, overdue, req, expiry, queue,               \* Bookings
  payments, processed, receipts, pay, delivery, unresolved,
  intent, issued, sent,                                       \* Payments
  refund, refundReq, refunded, settled                        \* Refunds

bookingVars == <<booking, events, overdue, req, expiry, queue>>
paymentVars == <<payments, processed, receipts, pay, delivery, unresolved, intent, issued, sent>>
refundVars  == <<refund, refundReq, refunded, settled>>

settleVars == <<bookingVars, paymentVars>>
allVars == <<bookingVars, paymentVars, refundVars>>

vars == <<part, allVars>>

-----------------------------------------------------------------------------
(* The instances                                                           *)

OneBooking == {"b1"}
TwoBookings == {"b1", "b2"}
OneHandler == {"h1"}
OneWorker == {"w1"}
OneIntent == {"i1"}
OneDelivery == {"d1"}
OneRefund == {"f1"}
OneRequest == {"q1"}

\* A conflict about one booking aborts the run that was to expire the other.
Expiry == INSTANCE Bookings WITH
  Bookings <- TwoBookings, Handlers <- OneHandler, Workers <- OneWorker,
  Reconciling <- FALSE, MaxVersion <- 0

Webhooks == INSTANCE Payments WITH
  Bookings <- OneBooking, Handlers <- OneHandler, Workers <- {},
  Intents <- OneIntent, Deliveries <- OneDelivery, Reconciling <- FALSE, MaxVersion <- 0

\* What is paid is recorded by reconciliation.
Refunds == INSTANCE Refunds WITH
  Bookings <- OneBooking, Handlers <- OneHandler, Workers <- {},
  Intents <- OneIntent, Deliveries <- {}, Reconciling <- TRUE, MaxVersion <- 4,
  RefundIds <- OneRefund, RefundRequests <- OneRequest, TotalCents <- 1,
  AdminRefundThreshold <- 1, ProviderChecksBalance <- TRUE

-----------------------------------------------------------------------------
(* One question                                                            *)

\* Without payments, there are no intents, deliveries and refunds.
None == [x \in {} |-> x]

Init ==
  /\ part \in Parts
  /\ CASE part = "expiry" -> Expiry!Init
       [] part = "webhooks" -> Webhooks!PayInit
       [] part = "refunds" -> Refunds!RefundInit
  /\ part = "expiry" =>
       /\ payments = None /\ pay = None /\ delivery = None /\ intent = None
       /\ processed = {} /\ receipts = {} /\ unresolved = {} /\ issued = {} /\ sent = {}
  /\ part # "refunds" => refund = None /\ refundReq = None /\ refunded = None /\ settled = {}

Next ==
  \/ /\ part = "expiry"
     /\ Expiry!Next
     /\ \A b \in TwoBookings : Len(events'[b]) <= 1 + MaxMoves
     /\ UNCHANGED <<part, paymentVars, refundVars>>
  \/ /\ part = "webhooks"
     /\ Webhooks!PayNext
     /\ UNCHANGED <<part, refundVars>>
  \/ /\ part = "refunds"
     /\ Refunds!RefundNext
     /\ UNCHANGED part

\* Of the fairness of each component (Fairness, Redelivery, RefundFairness) no
\* more than its question needs: the job's runs go on, and Stripe redelivers.
Settling ==
  /\ \A w \in OneWorker :
       /\ WF_bookingVars(part = "expiry" /\ Expiry!ScanExpired(w))
       /\ SF_bookingVars(part = "expiry" /\ (Expiry!ExpireNext(w) \/ Expiry!ExpiryConflict(w)))
  /\ \A d \in OneDelivery, i \in OneIntent :
       LET e == <<i, "payment_failed">>
       IN  /\ WF_settleVars(part = "webhooks" /\ Webhooks!DeliveryFails(d))
           /\ SF_settleVars(part = "webhooks" /\ Webhooks!Receive(d, e))
           /\ SF_settleVars(part = "webhooks" /\ (Webhooks!FindPayment(d, e) \/ Webhooks!Duplicate(d, e)))
           /\ SF_settleVars(part = "webhooks" /\ Webhooks!SettleFailed(d, e))
  /\ \A f \in OneRefund : WF_allVars(part = "refunds" /\ Refunds!ChargeRefunded(f))

Spec == Init /\ [][Next]_vars /\ Settling

-----------------------------------------------------------------------------
(* Properties.  Each is the one of its component, of the behaviours whose  *)
(* question it is.                                                         *)

\* The expiry job makes progress in spite of conflicts that abort its runs: a
\* pending booking whose time is over does not stay pending.
OverdueLeavesPending ==
  \A b \in TwoBookings :
    (part = "expiry" /\ b \in overdue /\ booking[b].status = "pending")
      ~> (part = "expiry" => booking[b].status # "pending")

\* A failure is recorded in the end, or acknowledged because its row has moved on
\* to another intent: no such event is redelivered for ever.
FailureIsAcknowledged == part = "webhooks" => Webhooks!FailureIsAcknowledged

\* A pending refund whose event is still to come succeeds in the end, unless the
\* payment row loses the intent it was made on.
PendingRefundSettles ==
  \A f \in OneRefund :
    (/\ part = "refunds"
     /\ refunded[f] # Refunds!NoRefund
     /\ refund[f].status = "pending"
     /\ f \notin settled)
      ~> (part = "refunds" =>
            \/ refund[f].status = "succeeded"
            \/ /\ refunded[f] # Refunds!NoRefund
               /\ Refunds!FindByStripeIntentId(refunded[f].intent) = {})
=============================================================================
