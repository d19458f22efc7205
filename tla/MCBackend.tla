----------------------------- MODULE MCBackend -----------------------------
(***************************************************************************)
(* Backend on small instances of its components.                           *)
(***************************************************************************)
EXTENDS Backend

\* r2 lies outside the radius.
Distances == [r \in Rows |-> IF r = "r2" THEN 9 ELSE 1]

\* Every remainder and half, and rates inside, at and beyond the bounds the code clamps to.
PriceRange == 0..52
RatesOfServices == {None, 0, 1, 15, 29, 50, 99, 100}
RatesOfProviders == {None, -5, 15, 20, 120}
HoursOfNotice == {-1, 23, 24, 25}
=============================================================================
