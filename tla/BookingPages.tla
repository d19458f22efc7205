--------------------------- MODULE BookingPages ---------------------------
(***************************************************************************)
(* One booking as its three pages show it, each in a browser with its own  *)
(* cache of queries (React Query): the traveler's list and detail page,    *)
(* the provider's list and the admin's list.  A page offers actions by the *)
(* status it shows; the server decides by the status the booking has.      *)
(***************************************************************************)
EXTENDS BookingStateMachine, Queries

CONSTANTS
  Browsers, \* who has a page open: traveler, provider, admin
  Elsewhere, \* the statuses that others give the booking
  Deadline   \* whether the service begins in 24 hours or less at some time

VARIABLES
  status,  \* of the booking, on the server
  version, \* how often it has changed
  late,    \* the service begins in 24 hours or less
  charged, \* Stripe has the money, and its webhook is to come
  cache,   \* the queries of each browser
  page,    \* "list" or "detail"
  dialog,  \* the actions that a browser asks to confirm, or has sent
  payment, \* the payment dialog of the traveler
  own      \* version when a browser last heard that its action succeeded, unless
           \* its page then waited for a fetch that may be older

server == <<status, version, late, charged>>

vars == <<server, cache, page, dialog, payment, own>>

-----------------------------------------------------------------------------
(* Types                                                                   *)

Pages == {"list", "detail"}

Actions == {"accept", "decline", "cancel", "complete"}

\* Where an action is chosen: a modal dialog each, and the menus of the provider,
\* which stay open to a second action while one is under way (bound: two).
Hands == Browsers \cup {h \in {"provider again"} : "provider" \in Browsers}

Who(h) == IF h = "provider again" THEN "provider" ELSE h

NoDialog == [action |-> "none", stage |-> "none", seen |-> 0, reason |-> TRUE]

\* stage: the answer is on its way once the server has acted.
Dialog ==
  [action : Actions, stage : {"open", "sent", "done", "refused"}, seen : Nat, reason : BOOLEAN]

TypeOK ==
  /\ status \in Status
  /\ version \in Nat
  /\ late \in BOOLEAN
  /\ charged \in BOOLEAN
  /\ cache \in [Browsers -> [Pages -> Query(Status)]]
  /\ page \in [Browsers -> Pages]
  /\ dialog \in [Hands -> Dialog \cup {NoDialog}]
  /\ payment \in {"closed", "preparing", "checkout", "test", "success"}
  /\ own \in [Browsers -> Nat]

Init ==
  /\ status = "pending" /\ version = 0 /\ late = FALSE /\ charged = FALSE
  /\ cache = [b \in Browsers |-> [p \in Pages |->
       IF p = "list" THEN Sent(Unfetched("pending")) ELSE Unfetched("pending")]]
  /\ page = [b \in Browsers |-> "list"]
  /\ dialog = [h \in Hands |-> NoDialog]
  /\ payment = "closed"
  /\ own = [b \in Browsers |-> 0]

-----------------------------------------------------------------------------
(* Queries                                                                 *)

Shown(b) == cache[b][page[b]]

\* A user comes to a page, or back to it; the detail page is the traveler's.
Open(b, p) ==
  /\ p = "detail" => b = "traveler"
  /\ b = "traveler" => payment = "closed"
  /\ \A h \in Hands : Who(h) = b => dialog[h].stage # "open"
  /\ page' = [page EXCEPT ![b] = p]
  /\ cache' = [cache EXCEPT ![b][p] = Mounted(@)]
  /\ UNCHANGED <<server, dialog, payment, own>>

\* staleTime has passed.
Age(b, p) ==
  /\ cache[b][p].loaded
  /\ ~cache[b][p].stale
  /\ cache' = [cache EXCEPT ![b][p].stale = TRUE]
  /\ UNCHANGED <<server, page, dialog, payment, own>>

Read(b, p) ==
  /\ cache[b][p].fetch = "sent"
  /\ cache' = [cache EXCEPT ![b][p] = ReadBy(@, status, version)]
  /\ UNCHANGED <<server, page, dialog, payment, own>>

Receive(b, p) ==
  /\ cache[b][p].fetch = "read"
  /\ cache' = [cache EXCEPT ![b][p] = Received(@)]
  /\ UNCHANGED <<server, page, dialog, payment, own>>

FailFetch(b, p) ==
  /\ cache[b][p].fetch # "no"
  /\ cache' = [cache EXCEPT ![b][p] = Failed(@)]
  /\ UNCHANGED <<server, page, dialog, payment, own>>

\* "Try again", or the page is loaded again.
Refetch(b) ==
  /\ Shown(b).failed
  /\ Shown(b).fetch = "no"
  /\ cache' = [cache EXCEPT ![b][page[b]] = Refetched(@)]
  /\ UNCHANGED <<server, page, dialog, payment, own>>

-----------------------------------------------------------------------------
(* What the pages offer                                                    *)

\* Mutant: the provider may complete what is not paid.
OfferedByProviderUnpaid(s) ==
  CASE s = "pending" -> {"accept", "decline"}
    [] s \in {"accepted", "confirmed"} -> {"complete"}
    [] OTHER -> {}

OfferedByProvider(s) ==
  CASE s = "pending" -> {"accept", "decline"}
    [] s = "confirmed" -> {"complete"}
    [] OTHER -> {}

\* getActions
OfferedByAdmin(s) ==
  CASE s = "pending" -> {"accept", "decline"}
    [] s \in {"accepted", "awaiting_payment", "paid", "confirmed", "in_progress"} ->
         {"complete", "cancel"}
    [] OTHER -> {}

\* showCancelButton, next to which the cards of cancelled bookings hide it.
OfferedToTraveler(s) ==
  IF s \in {"cancelled_by_traveler", "cancelled_by_provider", "completed", "no_show"}
  THEN {} ELSE {"cancel"}

\* In the lists an error takes the place of the bookings.  The detail page has
\* no such branch: when its query has failed it shows what it begins with, a
\* pending booking.
Displayed(b) ==
  IF b = "traveler" THEN page[b] = "detail" /\ (Shown(b).loaded \/ Shown(b).fetch = "no")
  ELSE Shown(b).loaded /\ ~Shown(b).failed

Offered(b) ==
  IF Displayed(b)
  THEN CASE b = "traveler" -> OfferedToTraveler(Shown(b).status)
         [] b = "provider" -> OfferedByProvider(Shown(b).status)
         [] b = "admin" -> OfferedByAdmin(Shown(b).status)
  ELSE {}

\* The entries of the detail page's timeline, but for acceptance.
Timeline(s) ==
  LET cancelled == s \in {"cancelled_by_traveler", "cancelled_by_provider", "no_show"}
  IN  {"requested"}
        \cup (IF cancelled THEN {"cancelled"}
              ELSE IF s \in {"paid", "confirmed", "in_progress", "completed"}
              THEN {"payment confirmed"} ELSE {"awaiting payment"})
        \cup (IF s = "completed" THEN {"completed"} ELSE {})

\* Only the admin is asked for a reason, and may leave it empty.
GivesReason(b, reason) == b # "admin" => reason

\* The provider's menu sends at once; the others ask first.
Choose(h, action, reason) ==
  LET b == Who(h)
  IN  /\ dialog[h] = NoDialog
      /\ b = "traveler" => payment = "closed"
      /\ action \in Offered(b)
      /\ GivesReason(b, reason)
      /\ dialog' = [dialog EXCEPT ![h] =
           [action |-> action, stage |-> IF b = "provider" THEN "sent" ELSE "open",
            seen |-> Shown(b).version, reason |-> reason]]
      /\ UNCHANGED <<server, cache, page, payment, own>>

Confirm(h) ==
  /\ dialog[h].stage = "open"
  /\ dialog' = [dialog EXCEPT ![h].stage = "sent"]
  /\ UNCHANGED <<server, cache, page, payment, own>>

Dismiss(h) ==
  /\ dialog[h].stage = "open"
  /\ dialog' = [dialog EXCEPT ![h] = NoDialog]
  /\ UNCHANGED <<server, cache, page, payment, own>>

-----------------------------------------------------------------------------
(* The server                                                              *)

Target(b, action) ==
  CASE action = "accept" -> "accepted"
    [] action = "decline" -> "declined"
    [] action = "complete" -> "completed"
    [] action = "cancel" -> "cancelled_by_traveler"

\* An admin's cancellation is validated as the traveler's.
ActsAs(b, action) == IF action = "cancel" THEN "traveler" ELSE b

Accepted(h) ==
  ValidateTransition(status, Target(Who(h), dialog[h].action), ActsAs(Who(h), dialog[h].action),
                     dialog[h].reason)

Serve(h) ==
  /\ dialog[h].stage = "sent"
  /\ \/ /\ Accepted(h)
        /\ status' = Target(Who(h), dialog[h].action)
        /\ version' = version + 1
        /\ dialog' = [dialog EXCEPT ![h].stage = "done"]
     \/ /\ ~Accepted(h)
        /\ dialog' = [dialog EXCEPT ![h].stage = "refused"]
        /\ UNCHANGED <<status, version>>
  /\ UNCHANGED <<late, charged, cache, page, payment, own>>

\* Anybody else, on any other device, and the jobs of the backend.  Only the
\* reconciliation of payments, which is not called yet, would confirm a booking.
ChangeElsewhere ==
  /\ \/ \E to \in Elsewhere \ {"paid", "confirmed", "in_progress", "no_show"} :
          CanTransition(status, to) /\ status' = to
     \/ /\ "confirmed" \in Elsewhere
        /\ status = "awaiting_payment"
        /\ status' = "confirmed"
  /\ version' = version + 1
  /\ UNCHANGED <<late, charged, cache, page, dialog, payment, own>>

\* payment_intent.succeeded asks for awaiting_payment -> confirmed, which the
\* state machine refuses: every delivery is rolled back, until Stripe gives up.
Webhook ==
  /\ charged
  /\ charged' = FALSE
  /\ UNCHANGED <<status, version, late, cache, page, dialog, payment, own>>

DayBefore ==
  /\ Deadline /\ ~late
  /\ late' = TRUE
  /\ UNCHANGED <<status, version, charged, cache, page, dialog, payment, own>>

-----------------------------------------------------------------------------
(* Answers                                                                 *)

\* invalidateQueries of the lists, which the query of one booking is not among,
\* and refetch() of the detail page that the traveler acted from.
AfterSuccess(b) ==
  [cache EXCEPT ![b]["list"] = Invalidate(@, page[b] = "list"),
                ![b]["detail"] = IF b = "traveler" THEN Invalidate(@, TRUE) ELSE @]

\* Where a user acts.
ActingPage(b) == IF b = "traveler" THEN "detail" ELSE "list"

\* refetch() starts nothing while the page has no booking and is fetching it.
Joins(b) ==
  LET query == cache[b][ActingPage(b)]
  IN  ~query.loaded /\ query.fetch # "no"

Succeed(h) ==
  LET b == Who(h)
  IN  /\ dialog[h].stage = "done"
      /\ dialog' = [dialog EXCEPT ![h] = NoDialog]
      /\ own' = [own EXCEPT ![b] = IF Joins(b) THEN @ ELSE version]
      /\ cache' = AfterSuccess(b)
      /\ UNCHANGED <<server, page, payment>>

\* An error, or an answer that is lost: the traveler's and the provider's page
\* say nothing, the admin's dialog stays open with the error.
Fail(h) ==
  /\ dialog[h].stage \in {"done", "refused"}
  /\ dialog' = [dialog EXCEPT ![h] =
       IF Who(h) = "admin" THEN [@ EXCEPT !.stage = "open"] ELSE NoDialog]
  /\ UNCHANGED <<server, cache, page, payment, own>>

-----------------------------------------------------------------------------
(* Payment                                                                 *)

\* openPaymentModal
OpenPayment ==
  /\ "traveler" \in Browsers
  /\ page["traveler"] = "detail"
  /\ dialog["traveler"] = NoDialog
  /\ payment = "closed"
  /\ Shown("traveler").loaded
  /\ Shown("traveler").status \in {"accepted", "awaiting_payment"}
  /\ payment' = "preparing"
  /\ UNCHANGED <<server, cache, page, dialog, own>>

\* POST /payments/intents
CreateIntent ==
  /\ payment = "preparing"
  /\ status \in {"accepted", "awaiting_payment"}
  /\ payment' = "checkout"
  /\ IF status = "accepted"
     THEN status' = "awaiting_payment" /\ version' = version + 1
     ELSE UNCHANGED <<status, version>>
  /\ UNCHANGED <<late, charged, cache, page, dialog, own>>

\* Any error leads to the test mode, whose payments the server refuses while
\* Stripe is configured; the page ignores that.
FailIntent ==
  /\ payment = "preparing"
  /\ payment' = "test"
  /\ UNCHANGED <<server, cache, page, dialog, own>>

\* handlePay and handlePaymentSuccess
Pay ==
  /\ payment = "checkout"
  /\ ~charged
  /\ payment' = "success"
  /\ charged' = TRUE
  /\ cache' = [cache EXCEPT !["traveler"]["detail"] = Invalidate(@, TRUE)]
  /\ UNCHANGED <<status, version, late, page, dialog, own>>

ClosePayment ==
  /\ payment # "closed"
  /\ payment' = "closed"
  /\ UNCHANGED <<server, cache, page, dialog, own>>

-----------------------------------------------------------------------------
Next ==
  \/ \E b \in Browsers, p \in Pages :
       Open(b, p) \/ Age(b, p) \/ Read(b, p) \/ Receive(b, p) \/ FailFetch(b, p)
  \/ \E b \in Browsers : Refetch(b)
  \/ \E h \in Hands :
       \/ Confirm(h) \/ Dismiss(h) \/ Serve(h) \/ Succeed(h) \/ Fail(h)
       \/ \E action \in Actions, reason \in BOOLEAN : Choose(h, action, reason)
  \/ ChangeElsewhere \/ Webhook \/ DayBefore
  \/ OpenPayment \/ CreateIntent \/ FailIntent \/ Pay \/ ClosePayment

Spec == Init /\ [][Next]_vars

-----------------------------------------------------------------------------
(* Properties                                                              *)

\* Once the page that a user acted from has finished loading, it shows the booking
\* at least as the user has left it: the answer of a fetch that began before the
\* action does not stay (onSuccess of the hooks, refetch of the page), also when a
\* second action is under way.  A detail page that never had the booking, and was
\* fetching it when it heard of the success, is the exception: see RefetchIsNew.
OwnActionShown ==
  \A b \in Browsers :
    LET query == cache[b][ActingPage(b)]
    IN  Settled(query) /\ page[b] = ActingPage(b) => query.version >= own[b]

\* A user's action is refused only if the booking has changed since the page
\* showed it: what a page offers is what the server allows for that status.
RefusedOnlyWhenStale ==
  \A h \in Hands : dialog[h].stage = "refused" => dialog[h].seen # version

-----------------------------------------------------------------------------
(* What comments, pages and tests say and the code does not keep: TLC      *)
(* refutes each on a small instance.                                       *)

\* refetch() after a cancellation shows it: a page without the booking offers to
\* cancel what it takes for pending, and may go on to show an older answer.
RefetchIsNew ==
  [][\A b \in Browsers :
       LET query == cache'[b][ActingPage(b)]
       IN  Succeed(b) /\ query.fetch = "read" => query.readVersion >= version]_vars

\* "Complete payment to guarantee your booking."
InvitedToPay ==
  LET query == cache["traveler"]["detail"]
  IN  query.loaded /\ "awaiting payment" \in Timeline(query.status)
        => query.status \in {"pending", "accepted", "awaiting_payment"}

\* "Your booking is confirmed. You'll receive an email receipt shortly."
ConfirmedShown == payment = "success" => status = "confirmed"

\* "Test Mode - Stripe not configured": Stripe is configured here, and an intent
\* can be refused because the booking has moved on.
NoTestMode == payment # "test"

\* "You are within the free cancellation window. You will receive a full
\* refund."  The dialog that says so opens only before the deadline.
RefundPromiseKept ==
  [][dialog["traveler"].stage = "none" /\ dialog'["traveler"].stage = "open" => ~late]_vars
=============================================================================
