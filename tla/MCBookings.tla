---------------------------- MODULE MCBookings ----------------------------
(***************************************************************************)
(* Bookings on small instances: one booking, and as many requests and jobs *)
(* as it takes to overtake each other.  Symmetry permutes them.            *)
(***************************************************************************)
EXTENDS Bookings, TLC

CONSTANTS b1, h1, h2, h3, w1, w2

OneBooking == {b1}
TwoHandlers == {h1, h2}
ThreeHandlers == {h1, h2, h3}
OneWorker == {w1}
TwoWorkers == {w1, w2}

Symmetry ==
  Permutations(Handlers) \cup Permutations(Workers)
=============================================================================
