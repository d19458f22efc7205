------------------------- MODULE BookingLifecycle -------------------------
(***************************************************************************)
(* What the bookings component promises its callers, with no handlers, no  *)
(* versions and no races in sight: a booking is requested once, it then    *)
(* moves one allowed transition at a time, every status it enters is       *)
(* recorded, and the record is never rewritten.                            *)
(***************************************************************************)
EXTENDS Sequences, BookingStateMachine

CONSTANT Bookings

VARIABLES
  status,   \* [Bookings -> Status \cup {NoStatus}]
  history   \* [Bookings -> Seq(Status)]: every status entered, in order

Init ==
  /\ status = [b \in Bookings |-> NoStatus]
  /\ history = [b \in Bookings |-> <<>>]

\* The booking enters status to, and the history says so.
Enter(b, to) ==
  /\ status' = [status EXCEPT ![b] = to]
  /\ history' = [history EXCEPT ![b] = Append(@, to)]

Create(b) ==
  /\ status[b] = NoStatus
  /\ Enter(b, "pending")

Move(b, to) ==
  /\ CanTransition(status[b], to)
  /\ Enter(b, to)

Next == \E b \in Bookings : Create(b) \/ \E to \in Status : Move(b, to)

Spec == Init /\ [][Next]_<<status, history>>
=============================================================================
