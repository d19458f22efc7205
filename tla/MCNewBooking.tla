--------------------------- MODULE MCNewBooking ---------------------------
(* Instances of NewBooking for TLC. *)
EXTENDS NewBooking
=============================================================================
