----------------------------- MODULE MCRefunds -----------------------------
(***************************************************************************)
(* Refunds on small instances: one booking of two units, paid through one  *)
(* of two intents and recorded by reconciliation.                          *)
(***************************************************************************)
EXTENDS Refunds, TLC

CONSTANTS b1, h1, i1, i2, f1, f2, q1, q2

OneBooking == {b1}
OneHandler == {h1}
NoWorker == {}
NoDeliveries == {}
TwoIntents == {i1, i2}
TwoRefunds == {f1, f2}
TwoRequests == {q1, q2}

\* The jobs and the authors of events are read by nothing here.
View ==
  <<booking, expiry, overdue, backend, stripe, refundVars,
    [h \in Handlers |->
      IF req[h].pc = "validated"
        THEN <<req[h].booking, req[h].version, req[h].to>>
        ELSE req[h].pc]>>

Symmetry ==
  Permutations(Intents) \cup Permutations(RefundIds) \cup Permutations(RefundRequests)
=============================================================================
