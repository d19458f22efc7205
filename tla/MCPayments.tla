---------------------------- MODULE MCPayments ----------------------------
(***************************************************************************)
(* Payments on small instances: one booking, and as many requests, webhook *)
(* deliveries and intents as the question of each run needs.               *)
(***************************************************************************)
EXTENDS Payments, TLC

CONSTANTS b1, h1, h2, i1, i2, d1, d2

OneBooking == {b1}
OneHandler == {h1}
TwoHandlers == {h1, h2}
NoWorker == {}
OneIntent == {i1}
TwoIntents == {i1, i2}
OneDelivery == {d1}
TwoDeliveries == {d1, d2}

\* What no action and no property of the runs reads is left out of the view:
\* the jobs of the bookings component, and who did what for which reason.
View ==
  <<booking, [b \in Bookings |-> [k \in DOMAIN events[b] |-> events[b][k].to]],
    overdue, expiry, backend, stripe,
    [h \in Handlers |->
      IF req[h].pc = "validated"
        THEN <<req[h].booking, req[h].version, req[h].to>>
        ELSE req[h].pc]>>

Symmetry ==
  Permutations(Handlers) \cup Permutations(Intents) \cup Permutations(Deliveries)
=============================================================================
