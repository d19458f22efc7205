------------------------------ MODULE Refunds ------------------------------
(***************************************************************************)
(* Refunds on top of payments: RefundService.createRefund in its real      *)
(* steps and the charge.refunded webhook.  Of everything below only the    *)
(* last step of createRefund and the webhook are transactions; what they   *)
(* rely on has been read before, and Stripe has been called before, too.   *)
(***************************************************************************)
EXTENDS Payments, FiniteSetsExt

CONSTANTS
  RefundIds,             \* identifiers of refunds at Stripe
  RefundRequests,        \* concurrent createRefund requests
  TotalCents,            \* what a booking costs, in some unit
  AdminRefundThreshold,  \* ADMIN_REFUND_THRESHOLD_CENTS
  ProviderChecksBalance  \* FALSE: the mock, without a key for Stripe

\* Finitely many, so that their amounts add up.
ASSUME RefundsAssumption ==
  /\ IsFiniteSet(RefundIds) /\ IsFiniteSet(Intents)
  /\ TotalCents \in Nat \ {0}
  /\ AdminRefundThreshold \in Nat
  /\ ProviderChecksBalance \in BOOLEAN

VARIABLES
  refund,    \* table refunds, by stripeRefundId (unique)
  refundReq, \* what each createRefund request holds
  refunded,  \* at Stripe: the refunds made
  settled    \* refunds whose charge.refunded event has been processed

refundVars == <<refund, refundReq, refunded, settled>>
allVars == <<payVars, refundVars>>

-----------------------------------------------------------------------------
(* Types                                                                   *)

Amount == 1..TotalCents

RefundReason ==
  {"traveler_cancelled", "provider_cancelled", "no_show", "service_failure",
   "duplicate", "other"}

NoRefund == [status |-> "none"]

\* failed is in the enum, but nothing writes it.
Refund ==
  {NoRefund}
    \cup [status : {"pending", "succeeded"}, booking : Bookings, amount : Amount]

\* "loaded": the payment was succeeded.  "checked": the balance was enough.
\* "refunded": Stripe has answered with a refund.
NotRefunding == [pc |-> "none"]

RefundRequest ==
  {NotRefunding}
    \cup [pc : {"loaded", "checked"}, booking : Bookings, intent : Intents,
          amount : Amount]
    \cup [pc : {"refunded"}, booking : Bookings, intent : Intents,
          amount : Amount, id : RefundIds]

StripeRefund == {NoRefund} \cup [status : {"made"}, intent : Intents, amount : Amount]

RefundTypeOK ==
  /\ refund \in [RefundIds -> Refund]
  /\ refundReq \in [RefundRequests -> RefundRequest]
  /\ refunded \in [RefundIds -> StripeRefund]
  /\ settled \in SUBSET RefundIds

RefundInit ==
  /\ PayInit
  /\ refund = [f \in RefundIds |-> NoRefund]
  /\ refundReq = [q \in RefundRequests |-> NotRefunding]
  /\ refunded = [f \in RefundIds |-> NoRefund]
  /\ settled = {}

-----------------------------------------------------------------------------
(* RefundRepository, and the balance Stripe keeps                          *)

RefundRows(b) ==
  {f \in RefundIds : refund[f] # NoRefund /\ refund[f].booking = b}

\* getSuccessfulRefundsTotal: what is pending does not count.
SuccessfulRefundsTotal(b) ==
  MapThenSumSet(LAMBDA f : refund[f].amount,
                {f \in RefundRows(b) : refund[f].status = "succeeded"})

RefundedAtStripe(i) ==
  MapThenSumSet(LAMBDA f : refunded[f].amount,
                {f \in RefundIds : refunded[f] # NoRefund /\ refunded[f].intent = i})

-----------------------------------------------------------------------------
(* RefundService.createRefund                                              *)

Proceed(q, next) == refundReq' = [refundReq EXCEPT ![q] = next]

\* The routes let concierges and admins in.
MayRefund(role, reason, amount) ==
  \/ role = "admin"
  \/ role = "concierge" /\ reason # "other" /\ amount <= AdminRefundThreshold

\* A payment row is read by its id; whatever the booking's status.
StartRefund(q, r, role, reason, amount) ==
  /\ refundReq[q] = NotRefunding
  /\ MayRefund(role, reason, amount)
  /\ Row(r).status = "succeeded"
  /\ Proceed(q, [pc |-> "loaded", booking |-> r[1], intent |-> Row(r).intent,
                 amount |-> amount])
  /\ UNCHANGED <<payVars, refund, refunded, settled>>

CheckBalance(q) ==
  LET c == refundReq[q]
  IN  /\ c.pc = "loaded"
      /\ c.amount <= TotalCents - SuccessfulRefundsTotal(c.booking)
      /\ Proceed(q, [c EXCEPT !.pc = "checked"])
      /\ UNCHANGED <<payVars, refund, refunded, settled>>

\* Mutant: the refund is asked for on whichever intent was paid.
CallStripeAnyIntent(q) ==
  LET c == refundReq[q]
  IN  /\ c.pc = "checked"
      /\ \E f \in RefundIds, i \in Intents :
           /\ refunded[f] = NoRefund
           /\ refunded' = [refunded EXCEPT ![f] =
                [status |-> "made", intent |-> i, amount |-> TotalCents]]
           /\ Proceed(q, [pc |-> "refunded", booking |-> c.booking, intent |-> c.intent,
                          amount |-> c.amount, id |-> f])
      /\ UNCHANGED <<payVars, refund, settled>>

\* No Idempotency-Key: each call is another refund.  Stripe pays back no more
\* than it has received; the mock does not mind.
CallStripe(q) ==
  LET c == refundReq[q]
  IN  /\ c.pc = "checked"
      /\ ProviderChecksBalance =>
           /\ intent[c.intent].status = "succeeded"
           /\ RefundedAtStripe(c.intent) + c.amount <= TotalCents
      /\ \E f \in RefundIds :
           /\ refunded[f] = NoRefund
           /\ refunded' = [refunded EXCEPT ![f] =
                [status |-> "made", intent |-> c.intent, amount |-> c.amount]]
           /\ Proceed(q, [pc |-> "refunded", booking |-> c.booking, intent |-> c.intent,
                          amount |-> c.amount, id |-> f])
      /\ UNCHANGED <<payVars, refund, settled>>

\* The row is pending even if its event has been processed already.
CommitRefund(q) ==
  LET c == refundReq[q]
  IN  /\ c.pc = "refunded"
      /\ refund' = [refund EXCEPT ![c.id] =
           [status |-> "pending", booking |-> c.booking, amount |-> c.amount]]
      /\ Proceed(q, NotRefunding)
      /\ UNCHANGED <<payVars, refunded, settled>>

\* The balance is too small, Stripe refuses, the database fails, or the
\* process dies: a refund made at Stripe then has no row.
AbandonRefund(q) ==
  /\ refundReq[q] # NotRefunding
  /\ Proceed(q, NotRefunding)
  /\ UNCHANGED <<payVars, refund, refunded, settled>>

-----------------------------------------------------------------------------
(* The charge.refunded webhook                                             *)

\* Mutant: the event is acknowledged, the rows are left alone.
ChargeRefundedIgnored(f) ==
  /\ refunded[f] # NoRefund
  /\ f \notin settled
  /\ settled' = settled \cup {f}
  /\ UNCHANGED <<payVars, refund, refundReq, refunded>>

\* An event is raised as soon as the refund is made.  All rows of the booking
\* that are pending become succeeded, if a payment row still has the intent.
\* The insert of the event serialises its deliveries, so they are one step.
ChargeRefunded(f) ==
  LET bookings == {r[1] : r \in FindByStripeIntentId(refunded[f].intent)}
  IN  /\ refunded[f] # NoRefund
      /\ f \notin settled
      /\ settled' = settled \cup {f}
      /\ refund' = [g \in RefundIds |->
           IF refund[g].status = "pending" /\ refund[g].booking \in bookings
             THEN [refund[g] EXCEPT !.status = "succeeded"]
             ELSE refund[g]]
      /\ UNCHANGED <<payVars, refundReq, refunded>>

-----------------------------------------------------------------------------
RefundStep(q) ==
  \/ \E r \in Rows, role \in {"concierge", "admin"}, reason \in RefundReason,
        amount \in Amount : StartRefund(q, r, role, reason, amount)
  \/ CheckBalance(q)
  \/ CallStripe(q)
  \/ CommitRefund(q)
  \/ AbandonRefund(q)

RefundNext ==
  \/ PayNext /\ UNCHANGED refundVars
  \/ \E q \in RefundRequests : RefundStep(q)
  \/ \E f \in RefundIds : ChargeRefunded(f)

RefundSpec == RefundInit /\ [][RefundNext]_allVars

\* Stripe redelivers until it is answered; requests end, and handlers too.
RefundFairness ==
  /\ \A f \in RefundIds : WF_allVars(ChargeRefunded(f))
  /\ \A q \in RefundRequests : WF_allVars(RefundStep(q))
  /\ \A h \in Handlers : WF_allVars(Enqueue(h) /\ UNCHANGED <<backend, stripe, refundVars>>)

FairRefundSpec == RefundSpec /\ RefundFairness

-----------------------------------------------------------------------------
(* Properties                                                              *)

\* No row is made up: each is of a refund that Stripe has made, of that
\* amount, on an intent of that very booking which has been paid, although
\* the payment row may have got another intent since it was read.
RefundsAreReal ==
  \A f \in RefundIds : refund[f] # NoRefund =>
    /\ refunded[f] # NoRefund
    /\ refunded[f].amount = refund[f].amount
    /\ refunded[f].intent \in IntentsOf(refund[f].booking)
    /\ intent[refunded[f].intent].status = "succeeded"

\* A pending refund whose event is still to come succeeds in the end, unless
\* the payment row loses the intent it was made on.
PendingRefundSettles ==
  \A f \in RefundIds :
    (refunded[f] # NoRefund /\ refund[f].status = "pending" /\ f \notin settled)
      ~> \/ refund[f].status = "succeeded"
         \/ refunded[f] # NoRefund /\ FindByStripeIntentId(refunded[f].intent) = {}

\* "exceeds the remaining refundable balance": never is more refunded for a
\* booking than was paid for it.
RefundedWithinPayment ==
  \A b \in Bookings :
    MapThenSumSet(LAMBDA f : refund[f].amount, RefundRows(b))
      <= TotalCents * Cardinality({i \in IntentsOf(b) : intent[i].status = "succeeded"})

\* Refunds are paid for: the rows are well-formed, none is made up, and they
\* add up to no more than was paid for the booking.
RefundsArePaidFor == RefundTypeOK /\ RefundsAreReal /\ RefundedWithinPayment

-----------------------------------------------------------------------------
(* What comments, pages and tests say and the code does not keep: TLC      *)
(* refutes each on a small instance.                                       *)

\* "Update refund record if exists": a refund is recorded as succeeded because
\* of its own event.
SucceedsByItsOwnEvent ==
  \A f \in RefundIds : refund[f].status = "succeeded" => f \in settled

\* "Provider cancels: 100% refund to traveler": a paid booking that the
\* provider cancels is refunded, without somebody of the staff asking for it.
ProviderCancellationIsRefunded ==
  \A b \in Bookings :
    (/\ booking[b].status = "cancelled_by_provider"
     /\ \E r \in Rows : r[1] = b /\ Row(r).status = "succeeded")
      ~> RefundRows(b) # {}
=============================================================================
