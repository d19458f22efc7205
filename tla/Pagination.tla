----------------------------- MODULE Pagination -----------------------------
(***************************************************************************)
(* A client walks a list page by page, by cursor, while the list changes.  *)
(*                                                                         *)
(* Every list of the program is answered the same way: one query for       *)
(* limit + 1 rows in the order of the list, from the cursor row on, which  *)
(* is skipped; the row too many is cut off, and tells that there are more. *)
(* The cursor is the identifier of a row, not a position: between two      *)
(* pages, rows may be inserted before or after it, it may itself move in   *)
(* the order, or stop to match the filter of the list.                     *)
(*                                                                         *)
(* The database is external: Prisma appends the identifier to an order     *)
(* that is not unique, so the order of the rows is total; it starts at the *)
(* place the cursor row has now, whether or not that row still matches the *)
(* filter, and "skip: 1" drops the first row that does.                    *)
(***************************************************************************)
EXTENDS Naturals, FiniteSets, Sequences, FiniteSetsExt, SequencesExt

CONSTANTS
  Rows,        \* identifiers of rows
  Limit,       \* rows on a page
  Distance,    \* how far a row is from the place the client asks about
  Radius,      \* the radius the client asks for
  None,        \* no cursor
  MaxMoves     \* bound: rows that move in the order of a list

\* What an instance must satisfy: a page holds a row, the tables are finite, and
\* no row has the identifier that stands for none.
PaginationAssumption ==
  /\ Limit \in Nat \ {0}
  /\ IsFiniteSet(Rows)
  /\ None \notin Rows
  /\ MaxMoves \in Nat

(***************************************************************************)
(* Where a row enters the order of a list, how a row moves in it, whether  *)
(* a row can leave the filter, and whether a distance is applied after the *)
(* query.                                                                  *)
(***************************************************************************)
List(enters, moves, leaves, near) ==
  [enters |-> enters, moves |-> moves, leaves |-> leaves, near |-> near]

BookingsOfTraveler == List("anywhere", "never", TRUE, FALSE)
BookingsOfProvider == List("anywhere", "never", TRUE, FALSE)
AllBookings        == List("first",    "never", TRUE, FALSE)
AllPayments        == List("first",    "never", TRUE, FALSE)
AllRefunds         == List("first",    "never", TRUE, FALSE)
OwnConversations   == List("first",    "first", TRUE, FALSE)
Inbox              == List("anywhere", "anywhere", TRUE, FALSE)
Messages           == List("first",    "never", FALSE, FALSE)
ReviewsOfProvider  == List("first",    "never", TRUE, FALSE)
AllReviews         == List("first",    "never", FALSE, FALSE)
ServicesOfProvider == List("first",    "never", TRUE, FALSE)
AllServices        == List("first",    "never", TRUE, FALSE)
AllUsers           == List("first",    "never", TRUE, FALSE)
UsersByAdmin       == List("first",    "never", TRUE, FALSE)

\* -rating, created_at and a distance; -created_at is like AllServices.
ProvidersByRating  == List("anywhere", "anywhere", TRUE, FALSE)
ProvidersOldest    == List("last",     "never", TRUE, FALSE)
ProvidersNear      == List("anywhere", "never", TRUE, TRUE)

\* name, and a distance.
DestinationsByName == List("anywhere", "anywhere", TRUE, FALSE)
DestinationsNear   == List("anywhere", "never", TRUE, TRUE)

\* Every list of the program.
PlainLists ==
  {BookingsOfTraveler, BookingsOfProvider, AllBookings, AllPayments, AllRefunds,
   OwnConversations, Inbox, Messages, ReviewsOfProvider, AllReviews,
   ServicesOfProvider, AllServices, AllUsers, UsersByAdmin,
   ProvidersByRating, ProvidersOldest, DestinationsByName}

NearLists == {ProvidersNear, DestinationsNear}

Lists == PlainLists \cup NearLists

VARIABLES
  list,      \* the list that is walked
  order,     \* the rows there are, in the order of the list
  matching,  \* those that match its filter
  cursor,    \* what the client asks the next page with
  more,      \* hasMore of the last page, TRUE before the first
  shown,     \* the rows the client was shown
  twice,     \* and those it was shown more than once
  steady,    \* ghost: rows that matched, and did not move, since the start
  moved,     \* ghost: rows that moved since the start
  slips,     \* ghost: pages asked for with a cursor row that matched no more
  jumped,    \* ghost: the row that was the cursor moved
  moves      \* rows moved so far

table  == <<order, matching>>
answer == <<cursor, more, shown, twice>>
ghosts == <<steady, moved, slips, jumped>>
vars   == <<list, table, answer, ghosts, moves>>

TypeOK ==
  /\ list \in Lists
  /\ order \in Seq(Rows) /\ IsInjective(order)
  /\ matching \subseteq Range(order)
  /\ cursor \in Rows \cup {None}
  /\ more \in BOOLEAN
  /\ twice \subseteq shown /\ shown \subseteq Rows
  /\ steady \subseteq matching
  /\ moved \subseteq Range(order)
  /\ slips \in Nat /\ jumped \in BOOLEAN
  /\ moves \in 0..MaxMoves

Init ==
  /\ list \in Lists
  /\ order \in SetToSeqs(Rows) \cup UNION {SetToSeqs(Rows \ {row}) : row \in Rows}
  /\ matching \in SUBSET Range(order)
  /\ cursor = None /\ more = TRUE /\ shown = {} /\ twice = {}
  /\ steady = matching /\ moved = {} /\ slips = 0 /\ jumped = FALSE
  /\ moves = 0

-----------------------------------------------------------------------------
(* The answer to a request for a page.                                     *)

\* The rows of a sequence that are in a set, in their order.
Those(rows, S) ==
  LET taken[i \in 0..Len(rows)] ==
        IF i = 0 THEN <<>>
        ELSE IF rows[i] \in S THEN Append(taken[i - 1], rows[i]) ELSE taken[i - 1]
  IN  taken[Len(rows)]

\* The rows from the cursor row on that match.
MatchingFromCursor ==
  Those(IF cursor = None THEN order
        ELSE SubSeq(order, CHOOSE i \in DOMAIN order : order[i] = cursor, Len(order)),
        matching)

\* The first of them that is answered with: there is a skip when there is a cursor.
FirstTaken == IF cursor = None THEN 1 ELSE 2

\* Mutant: as many rows as the page holds, and not one more.
FoundWithoutExtra ==
  SubSeq(MatchingFromCursor, FirstTaken, Min({FirstTaken + Limit - 1, Len(MatchingFromCursor)}))

\* take and skip: the rows from the cursor row on that match, without the
\* first of them when there is a cursor, and at most one row too many.
Found ==
  SubSeq(MatchingFromCursor, FirstTaken, Min({FirstTaken + Limit, Len(MatchingFromCursor)}))

\* A list asked for near a place keeps the rows within the radius, by distance;
\* the sort is stable: a row comes after those that are no farther.
WithinRadius == {row \in Rows : Distance[row] <= Radius}

NoFarther(rows, row) == {i \in DOMAIN rows : Distance[rows[i]] <= Distance[row]}

ByDistance(rows) ==
  LET sorted[i \in 0..Len(rows)] ==
        IF i = 0 THEN <<>>
        ELSE InsertAt(sorted[i - 1], Cardinality(NoFarther(sorted[i - 1], rows[i])) + 1, rows[i])
  IN  sorted[Len(rows)]

Processed(rows) == IF list.near THEN ByDistance(Those(rows, WithinRadius)) ELSE rows

\* The row too many tells that there are more; the last row that is returned is
\* the next cursor.
HasMore(rows) == Len(rows) > Limit
Data(rows) == SubSeq(rows, 1, Min({Limit, Len(rows)}))
NextCursor(rows) == IF HasMore(rows) THEN Last(Data(rows)) ELSE None

-----------------------------------------------------------------------------
(* The client.                                                             *)

NextPage ==
  /\ more
  /\ LET rows == Processed(Found)
         page == Range(Data(rows))
     IN  /\ twice' = twice \cup (shown \cap page)
         /\ shown' = shown \cup page
         /\ more' = HasMore(rows)
         /\ cursor' = NextCursor(rows)
  /\ slips' = IF cursor # None /\ cursor \notin matching THEN slips + 1 ELSE slips
  /\ UNCHANGED <<list, table, steady, moved, jumped, moves>>

\* The client opens the list anew.
Reopen ==
  /\ ~more
  /\ cursor' = None /\ more' = TRUE /\ shown' = {} /\ twice' = {}
  /\ steady' = matching /\ moved' = {} /\ slips' = 0 /\ jumped' = FALSE
  /\ UNCHANGED <<list, table, moves>>

-----------------------------------------------------------------------------
(* The other clients.                                                      *)

Places(kind, length) ==
  CASE kind = "first"    -> {1}
    [] kind = "last"     -> {length + 1}
    [] kind = "anywhere" -> 1..(length + 1)
    [] kind = "never"    -> {}

\* A row is created; it matches at once, or later.
Create ==
  /\ \E row \in Rows \ Range(order), matches \in BOOLEAN :
       \E place \in Places(list.enters, Len(order)) :
         /\ order' = InsertAt(order, place, row)
         /\ matching' = IF matches THEN matching \cup {row} ELSE matching
  /\ UNCHANGED <<list, answer, ghosts, moves>>

\* What the list is ordered by changes: a message, a claim, a review, a name.
Move ==
  /\ moves < MaxMoves /\ moves' = moves + 1
  /\ \E from \in DOMAIN order :
       LET row == order[from]
           rest == RemoveAt(order, from)
       IN  \E place \in Places(list.moves, Len(rest)) :
             /\ order' = InsertAt(rest, place, row)
             /\ order' # order
             /\ steady' = steady \ {row}
             /\ moved' = moved \cup {row}
             /\ jumped' = (jumped \/ row = cursor)
  /\ UNCHANGED <<list, matching, answer, slips>>

\* A row leaves the filter of the list: another status, hidden, deleted, claimed.
Leave ==
  /\ list.leaves
  /\ \E row \in matching :
       /\ matching' = matching \ {row}
       /\ steady' = steady \ {row}
  /\ UNCHANGED <<list, order, answer, moved, slips, jumped, moves>>

\* A row enters the filter of the list.
Enter ==
  /\ list.leaves
  /\ \E row \in Range(order) \ matching : matching' = matching \cup {row}
  /\ UNCHANGED <<list, order, answer, ghosts, moves>>

Next == NextPage \/ Reopen \/ Create \/ Move \/ Leave \/ Enter

Spec == Init /\ [][Next]_vars

-----------------------------------------------------------------------------
(* Properties.                                                             *)

Missed == steady \ shown

(* A walk by cursor shows no row twice, whatever is created in front of it *)
(* or leaves the list meanwhile, unless the row itself moved in the order, *)
(* or the row that was the cursor did.  (Not in a list near a place, which *)
(* is put in another order than the one the cursor follows.)               *)
RepeatedOnlyAfterMove ==
  ~list.near => jumped \/ twice \subseteq moved

(* At the end of a walk by cursor, the rows that matched all the time and  *)
(* did not move were shown, but for one row for each page that was asked   *)
(* for with a cursor row that matched no more, unless the row that was the *)
(* cursor moved.  (Not in a list near a place.)                            *)
MissedOnlyByDepartures ==
  ~list.near /\ ~more => jumped \/ Cardinality(Missed) <= slips

-----------------------------------------------------------------------------
(* What comments, pages and tests say and the code does not keep: TLC      *)
(* refutes each on a small instance.                                       *)

(* A row that was in the list all the time is shown by the time the last   *)
(* page says that there are no more: cursor pages skip "the cursor record  *)
(* itself", and "one extra" row detects that there are more.  TLC refutes  *)
(* it: the first row that matches is skipped, whether it is the cursor's   *)
(* or, when the cursor row has left the filter, the next one.              *)
NoneMissed == ~list.near /\ ~more => Missed = {}

(* In a list near a place, the same for the rows within the radius.  TLC   *)
(* refutes it: hasMore is computed from the rows that are left of a page.  *)
NoneNearMissed == list.near /\ ~more => \A row \in Missed : Distance[row] > Radius
=============================================================================
