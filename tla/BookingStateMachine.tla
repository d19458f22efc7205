----------------------- MODULE BookingStateMachine -----------------------
(***************************************************************************)
(* The booking state machine of the backend (class BookingStateMachine):   *)
(* which status may follow which, which actor may cause the change, and    *)
(* which changes need a reason.  Every handler that moves a booking is     *)
(* meant to ask ValidateTransition first; the modules that model the       *)
(* handlers say which of them really do.                                   *)
(***************************************************************************)

\* The column value of a booking that has not been inserted yet; it is also
\* the fromStatus (null) of the first row of the event log.
NoStatus == "none"

Terminal ==
  {"completed", "declined", "expired", "payment_failed",
   "cancelled_by_traveler", "cancelled_by_provider", "no_show"}

Status ==
  {"pending", "accepted", "awaiting_payment", "paid", "confirmed",
   "in_progress"} \cup Terminal

\* Prisma's UserRole plus the pseudo-role of webhooks and scheduled jobs.
Role == {"traveler", "provider", "concierge", "admin", "system"}

\* ALLOWED_TRANSITIONS as a relation: <<from, to>>.
AllowedTransitions ==
       {"pending"} \X {"accepted", "declined", "expired",
                       "cancelled_by_traveler"}
  \cup {"accepted"} \X {"awaiting_payment", "cancelled_by_traveler",
                        "cancelled_by_provider"}
  \cup {"awaiting_payment"} \X {"paid", "payment_failed",
                                "cancelled_by_traveler", "expired"}
  \cup {"paid"} \X {"confirmed", "cancelled_by_traveler",
                    "cancelled_by_provider"}
  \cup {"confirmed"} \X {"in_progress", "completed",
                         "cancelled_by_traveler", "cancelled_by_provider"}
  \cup {"in_progress"} \X {"completed", "no_show"}

CanTransition(from, to) == <<from, to>> \in AllowedTransitions

\* ACTOR_PERMISSIONS as a relation: <<status to enter, role>>.  A status that
\* the table does not list (pending, payment_failed) is open to every role.
ActorPermissions ==
       {"accepted", "declined", "no_show", "cancelled_by_provider"}
         \X {"provider", "admin"}
  \cup {"expired", "paid"} \X {"system", "admin"}
  \cup {"cancelled_by_traveler"} \X {"traveler", "admin", "concierge"}
  \cup {"awaiting_payment", "confirmed", "in_progress", "completed"}
         \X {"system", "admin", "provider"}
  \cup {"pending", "payment_failed"} \X Role

RequiresReason == {"declined", "no_show", "cancelled_by_provider"}

\* validateTransition returns normally, that is, it does not throw.
ValidateTransition(from, to, role, hasReason) ==
  /\ CanTransition(from, to)
  /\ <<to, role>> \in ActorPermissions
  /\ to \in RequiresReason => hasReason
=============================================================================
