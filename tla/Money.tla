------------------------------- MODULE Money -------------------------------
(***************************************************************************)
(* The money of one booking: calculateBookingFinancials when it is made,   *)
(* evaluateCancellationRules when it is cancelled, and what createBooking  *)
(* and cancelBooking make of the answers.  Amounts are whole cents, rates  *)
(* whole percentages.  The code computes with floating point numbers, so a *)
(* half may be rounded either way (0.29 * 50 is a little less than 14.5).  *)
(***************************************************************************)
EXTENDS Integers

CONSTANTS
  Prices,        \* priceCents of services
  Guests,        \* guestCount of requests
  ServiceRates,  \* commissionRate of services, perhaps null (NoRate)
  ProviderRates, \* commissionRate of providers
  Notices,       \* hours between the cancellation and the scheduled date
  NoRate

\* What an instance must satisfy.
MoneyAssumption ==
  /\ Prices \subseteq Nat
  /\ Guests \subseteq Nat
  /\ Notices \subseteq Int
  /\ ServiceRates \cup ProviderRates \subseteq Int \cup {NoRate}

VARIABLES
  row,    \* the booking: what createBooking and cancelBooking store of money
  refund  \* the refund that cancelBooking asks for

vars == <<row, refund>>

NoBooking == [status |-> "none"]
NoRefund == [cents |-> 0, caller |-> "nobody", notice |-> 0]

Caller == {"traveler", "provider", "admin", "concierge"}

TypeOK ==
  /\ row = NoBooking
       \/ row \in [status : {"booked", "cancelled"}, totalCents : Nat,
                   commissionCents : Nat, providerEarningsCents : Nat, rate : Int]
  /\ refund \in [cents : Nat, caller : Caller \cup {"nobody"}, notice : Int]

Init ==
  /\ row = NoBooking
  /\ refund = NoRefund

-----------------------------------------------------------------------------
(* calculateBookingFinancials                                              *)

PlatformDefaultCommissionRate == 15

AtLeast(low, x) == IF x < low THEN low ELSE x

Clamp(rate) == IF rate > 100 THEN 100 ELSE AtLeast(0, rate)

EffectiveRate(service, provider) ==
  IF service # NoRate THEN service
  ELSE IF provider # NoRate THEN provider
  ELSE PlatformDefaultCommissionRate

\* Math.round(n / 100)
Round(n) == {(n + 50) \div 100, (n + 49) \div 100}

Financials(price, guests, service, provider) ==
  LET rate == EffectiveRate(service, provider)
      total == AtLeast(0, price * AtLeast(1, guests))
  IN  {[totalCents |-> total, commissionCents |-> c,
        providerEarningsCents |-> AtLeast(0, total - c), rate |-> rate] :
         c \in Round(total * Clamp(rate))}

\* createBooking stores the answer with the booking.
CreateBooking ==
  /\ row = NoBooking
  /\ \E price \in Prices, guests \in Guests, service \in ServiceRates,
        provider \in ProviderRates :
       \E f \in Financials(price, guests, service, provider) :
         row' = [status |-> "booked", totalCents |-> f.totalCents,
                 commissionCents |-> f.commissionCents,
                 providerEarningsCents |-> f.providerEarningsCents, rate |-> f.rate]
  /\ UNCHANGED refund

-----------------------------------------------------------------------------
(* evaluateCancellationRules                                               *)

\* Mutant: exactly 24 hours are enough.
EvaluateCancellationRulesInclusive(role, notice, total, earnings) ==
  IF role \in {"provider", "admin"} \/ notice >= 24
    THEN [refund |-> total, earnings |-> 0]
    ELSE [refund |-> 0, earnings |-> earnings]

EvaluateCancellationRules(role, notice, total, earnings) ==
  IF role \in {"provider", "admin"} \/ notice > 24
    THEN [refund |-> total, earnings |-> 0]
    ELSE [refund |-> 0, earnings |-> earnings]

\* Whoever is not the provider of the booking is taken for its traveler.
\* Nothing stores the earnings that the evaluation leaves.
CancelBooking(caller, notice) ==
  LET role == IF caller = "provider" THEN "provider" ELSE "traveler"
      evaluation == EvaluateCancellationRules(role, notice, row.totalCents,
                                              row.providerEarningsCents)
  IN  /\ row.status = "booked"
      /\ row' = [row EXCEPT !.status = "cancelled"]
      /\ refund' = [cents |-> evaluation.refund, caller |-> caller, notice |-> notice]

Next ==
  \/ CreateBooking
  \/ \E caller \in Caller, notice \in Notices : CancelBooking(caller, notice)

Spec == Init /\ [][Next]_vars

-----------------------------------------------------------------------------
(* Properties                                                              *)

\* No cent is lost or made: commission and earnings add up to the total,
\* neither is negative, and the commission is the nearest cent to the rate,
\* whatever the price, the guests and the rates are (calculateBookingFinancials).
MoneyAddsUp ==
  row # NoBooking =>
    /\ row.commissionCents + row.providerEarningsCents = row.totalCents
    /\ row.commissionCents >= 0
    /\ row.providerEarningsCents >= 0
    /\ LET error == 100 * row.commissionCents - row.totalCents * Clamp(row.rate)
       IN  error <= 50 /\ -error <= 50

\* "Traveler cancels <= 24 hours before service date: 0% refund", more than
\* that, or by the provider, all of it: the answer of evaluateCancellationRules
\* reaches the refund that cancelBooking asks for.
RefundIsAllOrNothing ==
  refund.caller \in {"traveler", "provider"} =>
    refund.cents = IF refund.caller = "traveler" /\ refund.notice <= 24
                     THEN 0 ELSE row.totalCents

-----------------------------------------------------------------------------
(* What comments, pages and tests say and the code does not keep: TLC      *)
(* refutes each on a small instance.                                       *)

\* "Provider/Admin initiated cancellation - full refund issued".
AdminCancellationIsRefunded ==
  refund.caller = "admin" => refund.cents = row.totalCents

\* "100% refund to traveler, provider earnings = 0": what is refunded is not
\* kept for the provider as well.
RefundedIsNotEarned ==
  refund.cents > 0 => row.providerEarningsCents = 0
=============================================================================
