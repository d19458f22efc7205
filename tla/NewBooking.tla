---------------------------- MODULE NewBooking ----------------------------
(***************************************************************************)
(* The form in which a traveler requests a booking of one service, and the *)
(* middleware that answers a request again by its Idempotency-Key, which   *)
(* the page makes of the service and the date.  Requests overlap: between  *)
(* the lookup of one, its commit and the storing of its answer others are  *)
(* looked up, and a process that dies in between never goes on with it.    *)
(* Everything happens within the day that an answer is kept, and Redis     *)
(* answers (Idempotency has its outages).                                  *)
(***************************************************************************)
EXTENDS Naturals, Sequences

CONSTANTS
  Travelers,
  Dates,
  Guests,      \* numbers of guests offered by the form
  Capacity,    \* maxCapacity of the service
  FirstDate,   \* the date the form begins with, and
  FirstGuests,
  MaxRequests  \* bound: submissions

VARIABLES
  listed,   \* the service can be booked
  user,     \* who is signed in
  wizard,   \* the form of each traveler
  requests, \* POST /bookings, as the server has them, waited for or not
  bookings,
  cache     \* answers kept under idem:<key>

vars == <<listed, user, wizard, requests, bookings, cache>>

-----------------------------------------------------------------------------
(* Types                                                                   *)

CreateBookingInput == [traveler : Travelers, date : Dates, guests : Guests]

\* booking: 0 where there is none.
Answer == [status : {"none", "success", "failure", "mismatch"}, booking : Nat]

NoAnswer == [status |-> "none", booking |-> 0]

Failure == [status |-> "failure", booking |-> 0]

Mismatch == [status |-> "mismatch", booking |-> 0]

\* executed: the handler has decided, and its answer is on the way.
\* seen: the bookings that had been answered when it was looked up.
Request ==
  [input : CreateBookingInput, state : {"sent", "executing", "executed", "answered"},
   seen : SUBSET Nat, answer : Answer]

\* retried: it was refused once for its token, and is sent again after a refresh.
Mutation ==
  [state : {"none", "waiting", "shown"}, request : Nat, retried : BOOLEAN, booking : Nat]

NoMutation == [state |-> "none", request |-> 0, retried |-> FALSE, booking |-> 0]

NewForm ==
  [step |-> 1, date |-> FirstDate, guests |-> FirstGuests, error |-> FALSE,
   mutation |-> NoMutation]

Form ==
  [step : 1..4, date : Dates, guests : Guests, error : BOOLEAN, mutation : Mutation]

Nothing == [state |-> "none"]

CachedResponse == [state : {"stored"}, input : CreateBookingInput, answer : Answer]

Booking == [input : CreateBookingInput, status : {"pending", "over"}, seen : SUBSET Nat]

-----------------------------------------------------------------------------
(* The server                                                              *)

\* Mutant: the number of guests is part of the key.
KeyWithGuests(input) == <<input.date, input.guests>>

\* useCreateBooking, with the only service left out.
Key(input) == <<input.date>>

Keys == {Key(i) : i \in CreateBookingInput}

TypeOK ==
  /\ listed \in BOOLEAN
  /\ user \in [Travelers -> BOOLEAN]
  /\ wizard \in [Travelers -> Form]
  /\ requests \in Seq(Request)
  /\ bookings \in Seq(Booking)
  /\ cache \in [Keys -> CachedResponse \cup {Nothing}]

Init ==
  /\ listed = TRUE
  /\ user \in [Travelers -> BOOLEAN]
  /\ wizard = [t \in Travelers |-> NewForm]
  /\ requests = <<>>
  /\ bookings = <<>>
  /\ cache = [k \in Keys |-> Nothing]

\* payloadHash is of the body, which does not name the traveler.
SamePayload(first, second) == first.date = second.date /\ first.guests = second.guests

\* Of the checks of createBooking: the form makes none of them.
Bookable(input) == listed /\ input.guests <= Capacity

Answered(request, answer) == [request EXCEPT !.state = "answered", !.answer = answer]

\* The bookings some request has been answered with, received or not.
AnsweredBookings ==
  {i \in 1..Len(bookings) :
     \E r \in 1..Len(requests) :
       requests[r].state = "answered" /\ requests[r].answer.booking = i}

\* redis.get, before the handler runs.
Lookup(r) ==
  LET input == requests[r].input
      entry == cache[Key(input)]
  IN  /\ requests[r].state = "sent"
      /\ requests' = [requests EXCEPT ![r] =
           IF entry = Nothing THEN [@ EXCEPT !.state = "executing", !.seen = AnsweredBookings]
           ELSE Answered(@, IF SamePayload(entry.input, input) THEN entry.answer ELSE Mismatch)]
      /\ UNCHANGED <<listed, user, wizard, bookings, cache>>

\* The handler: what it commits is there before it is answered, or if it never is.
Execute(r) ==
  LET input == requests[r].input
      answer == IF Bookable(input)
                THEN [status |-> "success", booking |-> Len(bookings) + 1] ELSE Failure
  IN  /\ requests[r].state = "executing"
      /\ requests' = [requests EXCEPT ![r].state = "executed", ![r].answer = answer]
      /\ bookings' = IF Bookable(input)
                     THEN Append(bookings, [input |-> input, status |-> "pending",
                                            seen |-> requests[r].seen])
                     ELSE bookings
      /\ UNCHANGED <<listed, user, wizard, cache>>

\* res.json: the answer is kept whatever it is, and setex is sent before it, on the
\* one connection, so that no later lookup overtakes it.
Respond(r) ==
  LET input == requests[r].input
      answer == requests[r].answer
  IN  /\ requests[r].state = "executed"
      /\ requests' = [requests EXCEPT ![r].state = "answered"]
      /\ cache' = [cache EXCEPT ![Key(input)] =
           [state |-> "stored", input |-> input, answer |-> answer]]
      /\ UNCHANGED <<listed, user, wizard, bookings>>

\* Cancelled, declined or expired.
EndBooking(i) ==
  /\ bookings[i].status = "pending"
  /\ bookings' = [bookings EXCEPT ![i].status = "over"]
  /\ UNCHANGED <<listed, user, wizard, requests, cache>>

ListService ==
  /\ listed' = ~listed
  /\ UNCHANGED <<user, wizard, requests, bookings, cache>>

-----------------------------------------------------------------------------
(* The form                                                                *)

Fill(t, date, guests) ==
  /\ wizard[t].step = 1
  /\ wizard' = [wizard EXCEPT ![t].date = date, ![t].guests = guests]
  /\ UNCHANGED <<listed, user, requests, bookings, cache>>

Continue(t) ==
  /\ wizard[t].step \in {1, 2}
  /\ wizard' = [wizard EXCEPT ![t].step = @ + 1]
  /\ UNCHANGED <<listed, user, requests, bookings, cache>>

\* Also while the request is under way.
Back(t) ==
  /\ wizard[t].step \in {2, 3}
  /\ wizard' = [wizard EXCEPT ![t].step = @ - 1]
  /\ UNCHANGED <<listed, user, requests, bookings, cache>>

\* handleBookingSubmit
Submit(t) ==
  /\ wizard[t].step = 3
  /\ wizard[t].mutation.state = "none"
  /\ user[t]
  /\ Len(requests) < MaxRequests
  /\ requests' = Append(requests,
       [input |-> [traveler |-> t, date |-> wizard[t].date, guests |-> wizard[t].guests],
        state |-> "sent", seen |-> {}, answer |-> NoAnswer])
  /\ wizard' = [wizard EXCEPT ![t].error = FALSE,
       ![t].mutation = [state |-> "waiting", request |-> Len(requests) + 1,
                        retried |-> FALSE, booking |-> 0]]
  /\ UNCHANGED <<listed, user, bookings, cache>>

\* Sent to the login page, which does not lead back: one begins with a new form.
SubmitSignedOut(t) ==
  /\ wizard[t].step = 3
  /\ wizard[t].mutation.state = "none"
  /\ ~user[t]
  /\ user' = [user EXCEPT ![t] = TRUE]
  /\ wizard' = [wizard EXCEPT ![t] = NewForm]
  /\ UNCHANGED <<listed, requests, bookings, cache>>

\* authenticate, which comes before the lookup, refuses the token: the client
\* sends the request again once a call has refreshed it.
Unauthorized(t) ==
  LET mutation == wizard[t].mutation
  IN  /\ mutation.state = "waiting"
      /\ ~mutation.retried
      /\ requests[mutation.request].state = "sent"
      /\ wizard' = [wizard EXCEPT ![t].mutation.retried = TRUE]
      /\ UNCHANGED <<listed, user, requests, bookings, cache>>

\* An error is thrown, unless the request was sent again: then its body, whatever
\* the status, resolves as success, and the page shows that it was sent.
Receive(t) ==
  LET mutation == wizard[t].mutation
      answer == requests[mutation.request].answer
  IN  /\ mutation.state = "waiting"
      /\ requests[mutation.request].state = "answered"
      /\ \/ /\ answer.status = "success" \/ mutation.retried
            /\ wizard' = [wizard EXCEPT ![t].step = 4, ![t].mutation.state = "shown",
                                        ![t].mutation.booking = answer.booking]
         \/ /\ answer.status # "success" /\ ~mutation.retried
            /\ wizard' = [wizard EXCEPT ![t].error = TRUE, ![t].mutation = NoMutation]
      /\ UNCHANGED <<listed, user, requests, bookings, cache>>

\* The network fails: the server may have the request all the same.
Lose(t) ==
  /\ wizard[t].mutation.state = "waiting"
  /\ wizard' = [wizard EXCEPT ![t].error = TRUE, ![t].mutation = NoMutation]
  /\ UNCHANGED <<listed, user, requests, bookings, cache>>

\* The page is left, or loaded again.
Reload(t) ==
  /\ wizard' = [wizard EXCEPT ![t] = NewForm]
  /\ UNCHANGED <<listed, user, requests, bookings, cache>>

-----------------------------------------------------------------------------
Next ==
  \/ ListService
  \/ \E i \in 1..Len(bookings) : EndBooking(i)
  \/ \E r \in 1..Len(requests) : Lookup(r) \/ Execute(r) \/ Respond(r)
  \/ \E t \in Travelers :
       \/ Continue(t) \/ Back(t) \/ Submit(t) \/ SubmitSignedOut(t)
       \/ Unauthorized(t) \/ Receive(t) \/ Lose(t) \/ Reload(t)
       \/ \E date \in Dates, guests \in Guests : Fill(t, date, guests)

Spec == Init /\ [][Next]_vars

-----------------------------------------------------------------------------
(* Properties                                                              *)

\* A traveler who submits again once the server has answered with a booking of the
\* service for that date, because the answer was lost or the page was loaded again,
\* does not make another: two can only be of requests that overlapped, the second
\* having been looked up before the first was answered.
NoBookingAgain ==
  \A i, j \in 1..Len(bookings) :
    LET first == bookings[i].input
        second == bookings[j].input
    IN  i < j /\ first.traveler = second.traveler /\ first.date = second.date
          => i \notin bookings[j].seen

\* The booking that a page shows, if it shows one, is for the date and the number
\* of guests that were submitted, whichever request the answer was made for.
ShownAsAsked ==
  \A t \in Travelers :
    LET mutation == wizard[t].mutation
        input == requests[mutation.request].input
    IN  mutation.state = "shown" /\ mutation.booking # 0 =>
          /\ mutation.booking \in 1..Len(bookings)
          /\ bookings[mutation.booking].input.date = input.date
          /\ bookings[mutation.booking].input.guests = input.guests

BookedOnceAsSubmitted == NoBookingAgain /\ ShownAsAsked

-----------------------------------------------------------------------------
(* What comments, pages and tests say and the code does not keep: TLC      *)
(* refutes each on a small instance.                                       *)

\* "Booking request sent!": and it is the traveler's own.
ShownIsOwn ==
  \A t \in Travelers :
    LET mutation == wizard[t].mutation
    IN  mutation.state = "shown" /\ mutation.booking # 0
          => bookings[mutation.booking].input.traveler = t

\* "Booking request sent!": the server has a booking, also where the request was
\* sent again after a refresh.
SentIsBooked ==
  \A t \in Travelers : wizard[t].mutation.state = "shown" => wizard[t].mutation.booking # 0

\* "Ensures that mutating operations with the same Idempotency-Key return the
\* original response instead of executing again."
BookedOnce ==
  \A i, j \in 1..Len(bookings) :
    LET first == bookings[i].input
        second == bookings[j].input
    IN  first.traveler = second.traveler /\ first.date = second.date => i = j

\* "Your provider will review the request": a request is answered with a booking
\* that is still pending.
SentIsReviewed ==
  [][\A r \in 1..Len(requests) :
       /\ requests[r].state # "answered"
       /\ requests'[r].state = "answered" /\ requests'[r].answer.status = "success"
         => bookings'[requests'[r].answer.booking].status = "pending"]_vars
=============================================================================
