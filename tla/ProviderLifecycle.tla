------------------------- MODULE ProviderLifecycle -------------------------
(***************************************************************************)
(* ProviderStateMachine, and the life of one provider as it promises it:   *)
(* one transition after the other, none of them on stale information.      *)
(***************************************************************************)

VARIABLES status, verification

lifecycleVars == <<status, verification>>

ProviderStatus ==
  {"draft", "submitted", "under_review", "changes_requested", "approved",
   "listed", "suspended", "rejected"}

VerificationStatus == {"pending", "verified", "rejected"}

AllowedTransitions ==
  [draft             |-> {"submitted"},
   submitted         |-> {"under_review", "rejected", "draft"},
   under_review      |-> {"approved", "rejected", "changes_requested"},
   changes_requested |-> {"submitted"},
   approved          |-> {"listed", "suspended"},
   listed            |-> {"suspended", "draft"},
   suspended         |-> {"listed", "approved"},
   rejected          |-> {"draft"}]

CanTransition(from, to) == to \in AllowedTransitions[from]

\* What transition makes of the verification status.  The other targets leave
\* it to the handler.
VerificationOf(to, otherwise) ==
  IF to = "submitted" THEN "pending"
  ELSE IF to \in {"approved", "listed"} THEN "verified"
  ELSE IF to = "rejected" THEN "rejected"
  ELSE otherwise

LifecycleInit == status = "draft" /\ verification = "pending"

\* One transition of the table.
Move(to) ==
  /\ CanTransition(status, to)
  /\ status' = to
  /\ verification' \in {VerificationOf(to, verification), VerificationOf(to, "pending")}

\* Approve and automatically list.
ApproveAndList ==
  /\ CanTransition(status, "approved")
  /\ CanTransition("approved", "listed")
  /\ status' = "listed"
  /\ verification' = "verified"

LifecycleNext == ApproveAndList \/ \E to \in ProviderStatus : Move(to)

LifecycleSpec == LifecycleInit /\ [][LifecycleNext]_lifecycleVars
=============================================================================
