------------------------------ MODULE Reviews ------------------------------
(***************************************************************************)
(* Reviews of completed bookings and the rating of the provider, which     *)
(* every write of a review computes again in its own transaction.  The     *)
(* transactions are READ COMMITTED: a statement sees what is committed     *)
(* when it runs and what its own transaction has written; a row that was   *)
(* written stays locked to others until the commit.                        *)
(***************************************************************************)
EXTENDS Integers, Sequences, FiniteSets, Functions

CONSTANTS
  Bookings, \* completed bookings of one provider
  Ratings,  \* the ratings that are given
  Requests, \* concurrent HTTP requests
  Provider  \* the name of the row of the provider

\* What an instance must satisfy: the row of the provider is not one of a review,
\* bookings are finitely many, and a rating is 1 to 5 (createReviewSchema).
ReviewsAssumption ==
  /\ Provider \notin Bookings
  /\ IsFiniteSet(Bookings)
  /\ Ratings \subseteq 1..5

VARIABLES
  reviews,  \* committed rows of reviews, by the booking, which is unique
  editable, \* bookings with a review younger than 24 hours
  provider, \* avgRating, in hundredths, and reviewCount
  tx        \* what each request is doing

vars == <<reviews, editable, provider, tx>>

-----------------------------------------------------------------------------
(* Types                                                                   *)

NoReview == [exists |-> FALSE, rating |-> 0, status |-> "published"]

\* Only published and hidden are ever set; deletedAt never is.
Review == {NoReview} \cup [exists : {TRUE}, rating : Ratings, status : {"published", "hidden"}]

Rating == [avgRating : 0..500, reviewCount : 0..Cardinality(Bookings)]

NoRating == [avgRating |-> 0, reviewCount |-> 0]

Idle == [kind |-> "idle"]

\* A rating is given, or a status.
Asked == [rating : Ratings \cup {0}, status : {"published", "hidden"}]

Statements == {"write", "aggregate", "provider", "commit"}

\* plan: the statements that are left.  locks: the rows it has written.
\* row, rating: what it wrote to the review, and what it computed for the
\* provider.
Begun(t) ==
  /\ t.kind \in {"create", "update", "moderate"} /\ t.asked \in Asked
  /\ t.booking \in Bookings
  /\ t.plan \in Seq(Statements)
  /\ t.locks \subseteq Bookings \cup {Provider}
  /\ t.row \in Review
  /\ t.rating \in Rating

TypeOK ==
  /\ reviews \in [Bookings -> Review]
  /\ editable \subseteq {b \in Bookings : reviews[b].exists}
  /\ provider \in Rating
  /\ \A r \in Requests : tx[r] = Idle \/ Begun(tx[r])
  /\ \A r, s \in Requests :
       r # s /\ tx[r] # Idle /\ tx[s] # Idle => tx[r].locks \cap tx[s].locks = {}

Init ==
  /\ reviews = [b \in Bookings |-> NoReview]
  /\ editable = {}
  /\ provider = NoRating
  /\ tx = [r \in Requests |-> Idle]

-----------------------------------------------------------------------------
(* The rating                                                              *)

\* Reviews that are published.
Counted(rows) == {b \in Bookings : rows[b].exists /\ rows[b].status = "published"}

\* _avg after toFixed(2), and _count.
Aggregate(rows) ==
  LET count == Cardinality(Counted(rows))
      total == SumFunctionOnSet([b \in Bookings |-> rows[b].rating], Counted(rows))
  IN  IF count = 0 THEN NoRating
      ELSE [avgRating |-> (200 * total + count) \div (2 * count), reviewCount |-> count]

-----------------------------------------------------------------------------
(* Handlers, up to their transaction                                       *)

\* Mutant: moderation computes the rating before it writes the review.
PlanRatingFirst(kind, recalculate) ==
  IF kind = "moderate" THEN <<"aggregate", "provider", "write", "commit">>
  ELSE IF recalculate THEN <<"write", "aggregate", "provider", "commit">>
  ELSE <<"write", "commit">>

\* The order of the statements.
Plan(kind, recalculate) ==
  IF recalculate THEN <<"write", "aggregate", "provider", "commit">>
  ELSE <<"write", "commit">>

Begin(r, kind, b, asked, recalculate) ==
  /\ tx[r] = Idle
  /\ tx' = [tx EXCEPT ![r] =
       [kind |-> kind, booking |-> b, asked |-> asked, plan |-> Plan(kind, recalculate),
        locks |-> {}, row |-> NoReview, rating |-> NoRating]]
  /\ UNCHANGED <<reviews, editable, provider>>

Give(rating) == [rating |-> rating, status |-> "published"]

\* createReview, for the traveler of a completed booking without a review.
CreateReview(r, b, rating) ==
  /\ ~reviews[b].exists
  /\ Begin(r, "create", b, Give(rating), TRUE)

\* updateReview compares the rating with the review it has read.
UpdateReview(r, b, rating) ==
  /\ b \in editable
  /\ Begin(r, "update", b, Give(rating), rating # reviews[b].rating)

\* moderateReview
ModerateReview(r, b, status) ==
  /\ reviews[b].exists
  /\ Begin(r, "moderate", b, [rating |-> 0, status |-> status], TRUE)

-----------------------------------------------------------------------------
(* Statements                                                              *)

At(r, statement) == tx[r] # Idle /\ Head(tx[r].plan) = statement

\* Another transaction has written the row and not ended.
Locked(r, row) == \E s \in Requests \ {r} : tx[s] # Idle /\ row \in tx[s].locks

\* Creation fails on the unique key once another review is committed.
MayWrite(r) ==
  /\ ~Locked(r, tx[r].booking)
  /\ tx[r].kind = "create" => ~reviews[tx[r].booking].exists

\* The columns that each kind of request sets.
NewRow(kind, old, asked) ==
  CASE kind = "create" -> [exists |-> TRUE, rating |-> asked.rating, status |-> "published"]
    [] kind = "update" -> [old EXCEPT !.rating = asked.rating]
    [] kind = "moderate" -> [old EXCEPT !.status = asked.status]

WriteReview(r) ==
  /\ At(r, "write")
  /\ MayWrite(r)
  /\ tx' = [tx EXCEPT ![r] = [tx[r] EXCEPT
       !.row = NewRow(tx[r].kind, reviews[tx[r].booking], tx[r].asked),
       !.locks = tx[r].locks \cup {tx[r].booking},
       !.plan = Tail(tx[r].plan)]]
  /\ UNCHANGED <<reviews, editable, provider>>

Visible(r) ==
  IF tx[r].booking \in tx[r].locks THEN [reviews EXCEPT ![tx[r].booking] = tx[r].row] ELSE reviews

AggregateReviews(r) ==
  /\ At(r, "aggregate")
  /\ tx' = [tx EXCEPT ![r] = [tx[r] EXCEPT !.rating = Aggregate(Visible(r)),
                                           !.plan = Tail(tx[r].plan)]]
  /\ UNCHANGED <<reviews, editable, provider>>

UpdateProvider(r) ==
  /\ At(r, "provider")
  /\ ~Locked(r, Provider)
  /\ tx' = [tx EXCEPT ![r] = [tx[r] EXCEPT !.locks = tx[r].locks \cup {Provider},
                                           !.plan = Tail(tx[r].plan)]]
  /\ UNCHANGED <<reviews, editable, provider>>

Commit(r) ==
  /\ At(r, "commit")
  /\ reviews' = [reviews EXCEPT ![tx[r].booking] = tx[r].row]
  /\ editable' = IF tx[r].kind = "create" THEN editable \cup {tx[r].booking} ELSE editable
  /\ provider' = IF Provider \in tx[r].locks THEN tx[r].rating ELSE provider
  /\ tx' = [tx EXCEPT ![r] = Idle]

\* The unique key, or a failure of the connection or of the server.
Rollback(r) ==
  /\ tx[r] # Idle
  /\ tx' = [tx EXCEPT ![r] = Idle]
  /\ UNCHANGED <<reviews, editable, provider>>

\* 24 hours have passed.
CloseWindow(b) ==
  /\ b \in editable
  /\ editable' = editable \ {b}
  /\ UNCHANGED <<reviews, provider, tx>>

-----------------------------------------------------------------------------
Execute(r) == WriteReview(r) \/ AggregateReviews(r) \/ UpdateProvider(r) \/ Commit(r)

Next ==
  \/ \E r \in Requests : Execute(r) \/ Rollback(r)
  \/ \E r \in Requests, b \in Bookings :
       \/ \E rating \in Ratings : CreateReview(r, b, rating) \/ UpdateReview(r, b, rating)
       \/ \E status \in {"published", "hidden"} : ModerateReview(r, b, status)
  \/ \E b \in Bookings : CloseWindow(b)

Spec == Init /\ [][Next]_vars

-----------------------------------------------------------------------------
(* Properties                                                              *)

\* The row that a transaction waits for.
WaitsFor(r, row) ==
  \/ At(r, "write") /\ row = tx[r].booking
  \/ At(r, "provider") /\ row = Provider

\* No two transactions wait for rows of each other: the review is always
\* written before the provider (create, update and recalculateProviderRating).
NoDeadlock ==
  \A r, s \in Requests :
    r # s /\ tx[r] # Idle /\ tx[s] # Idle =>
      ~ ((\E row \in tx[s].locks : WaitsFor(r, row)) /\ (\E row \in tx[r].locks : WaitsFor(s, row)))

-----------------------------------------------------------------------------
(* What comments, pages and tests say and the code does not keep: TLC      *)
(* refutes each on a small instance.                                       *)

\* Between transactions the provider shows the average and the number of its
\* published reviews (recalculateProviderRating).
RatingMatches ==
  (\A r \in Requests : tx[r] = Idle) => provider = Aggregate(reviews)
=============================================================================
