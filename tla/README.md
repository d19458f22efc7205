# A verification project for Salone Travel

TLA+ modules that model the concierge platform (a backend of Express, Prisma over PostgreSQL,
BullMQ over Redis and Stripe; a frontend of Next.js and React Query), TLC configurations that
check them on small instances, and proofs, checked by TLAPS, that nearly all of the safety that
TLC finds on a small instance holds for every number of bookings, users, requests, workers,
deliveries, sockets and pages. Paths below are relative to `src/backend/src/` unless they start
with `src/` or, for the frontend, with `app/`, `components/`, `hooks/` or `lib/`, which are in
`src/frontend/src/`.

Contents

1. The system: components, state, operations, hard behaviours, correctness
2. How the code is translated
3. Modules and what they correspond to
4. Runs, bounds, fairness
5. What is proved, and how
6. Where code and documentation disagree
7. What is only model-checked, and what is not modelled
8. What is left to do

## 1. The system

Three processes share one PostgreSQL database and one Redis: the web server
(`server.ts`, HTTP and WebSocket), the worker (`worker.ts`, BullMQ processors)
and the scheduler (`scheduler.ts`, cron). Any number of requests run at once;
between two `await`s of one handler anything may happen. Transactions are
interactive Prisma transactions at PostgreSQL's default, READ COMMITTED, with no
explicit row locks. Most handlers read and validate *outside* their transaction.
Browsers keep copies of rows in React Query, tokens in `localStorage`, and decide
by the copies what to offer.

| component | state | operations | interacts with |
|---|---|---|---|
| Bookings (`modules/bookings`, `domain/booking`) | `bookings` (status, version, expiresAt), `booking_events` | create, accept, decline, cancel, complete, no-show | Payments write bookings through the same repository; jobs to the queues after the commit |
| Expiry job (`jobs/processors/booking.processor.ts`) | rows loaded by a run | `check_expired_bookings` every five minutes | Bookings, under the same version check |
| Payments (`modules/payments`) | `payments`, `webhook_events` | createPaymentIntent, webhook, simulatePayment, reconcilePayments | Bookings; Stripe (intents, events delivered at least once); notifications queue |
| Refunds (`modules/refunds`) | `refunds` | createRefund; settled by the `charge.refunded` webhook | Payments, Stripe |
| Money (`domain/money`, `domain/booking/booking-cancellation.ts`) | none | commission, share of a cancellation that is refunded | Bookings, Refunds |
| Authentication (`modules/auth`, `common/middleware/authenticate.ts`) | `refresh_sessions`, `email_verifications` | register, login, refresh with rotation and reuse detection, logout, forgot and reset password, verify | Users (status), maintenance job (deletes expired rows) |
| Users, administration (`modules/users`, `modules/admin`) | `users.status` | suspend, reactivate, administration of services, demo data | Sessions, cache, providers |
| Provider lifecycle (`modules/providers`, `modules/provider-documents`, `domain/provider`) | `providers.status`, documents | update, submit, review, approve, request changes, reject, suspend, reinstate | Cache, documents, services |
| Catalogue (`modules/services`, `modules/destinations`) with Redis cache (`common/cache`) | rows, cached copies with a time to live | create, update, delete, list | Provider lifecycle, administration |
| Conversations (`modules/conversations`, `websocket`) | `conversations` (status, assignee), `messages`, rooms of sockets | create, claim, release, reassign, emergency, resolve, send, mark read | Rooms, notifications queue |
| Reviews (`modules/reviews`) | `reviews`, `providers.avgRating`, `reviewCount` | create, update, moderate; each recalculates the aggregate | Bookings (completed), Providers |
| Idempotency middleware | key -> stored answer | wraps POST /bookings and POST /payments/intents | every handler behind it |
| Rate limiter | sorted set per client | admit or refuse | every handler |
| Lists (`common/pagination`) | none; a cursor in the client | one page | every list |
| Notifications (`jobs`) | jobs, attempts | SMS, WhatsApp, mail | gateways (mocks) |
| Object storage (`modules/storage`) | files under `uploads/` | direct upload | documents page |
| API client (`lib/api-client.ts`), AuthProvider (`lib/auth-context.tsx`) | tokens, refresh in progress, subscribers, user | request with one shared refresh; sign-in, guards of the layouts | Authentication |
| Realtime client (`lib/websocket-client.ts`, hooks) | socket, current thread, cached messages | connect, rejoin, handle messages | Rooms |
| Pages that decide (`app`, `hooks`) | queries, dialogs, forms | offer, confirm, send, refetch | the handlers above |
| Audit log, configuration, pages that only show | append-only, none | | nothing reads them to decide anything |

What is hard, and what correctness means, component by component:

- **Bookings.** A status is read, validated and acted on later. Racing requests,
  the expiry job and payments meet on one row; the version in the `where` clause
  of `updateStatus` is the only thing between them. Correct means: no stale read
  takes effect; no transition happens twice; `booking_events` tells the whole
  story; jobs announce only what happened; an overdue request expires.
- **Payments.** Stripe delivers events late, twice, at the same time and in any
  order; the payment row has neither a version nor a unique key on the booking.
  Correct means: one payment row per booking; nothing is confirmed, recorded as
  succeeded or receipted that Stripe has not been paid for; an event takes
  effect once; an event is acknowledged in the end; a booking is paid once.
- **Refunds.** The balance is read before Stripe is called and the row written
  after. Correct means: never more refunded than paid; every row is of a refund
  at Stripe; a refund settles the row it is about.
- **Sessions.** Rotation reads the session outside its transaction. Correct
  means: one successor per token; after reuse, reset or suspension nothing of the
  old survives for long; a code is used once.
- **Provider lifecycle.** No version. Correct means: only allowed transitions;
  what is public was approved, and was complete once, but for what a seed inserts.
- **Cache.** A fill races with a write and its invalidation. Correct means: what
  is cached becomes current within a time to live.
- **Conversations.** Claims race; sockets outlive assignments. Correct means: one concierge at a
  time; who is not assigned receives nothing; who stays connected hears of new threads and of
  emergencies; what was shown is stored.
- **Reviews.** The aggregate is computed from a snapshot. Correct means: it ends
  up equal to the aggregate of the reviews.
- **Idempotency, rate limiter, queues, lists.** One execution per key; a client
  that pauses is admitted; a job is tried until done and repeats only whole
  attempts; a walk through a list misses only what was not there all the time.
- **API client, sign-in.** One refresh per token, no call waits for ever, who has
  logged out is gone, and nobody sees the rows of another.
- **Pages.** What is offered is refused only if the row has changed since; after
  one's own action the page shows its outcome; a promise in a text is kept; what
  was typed is what is stored, and nothing else.

`PROJECT.json` lists under `hazards` the places where this can go wrong and a test would
hardly reach, each at the line where it bites, with the properties that cover it.
Section 6 has those of which the code gets something wrong, section 7 those of which no
run states a property that holds.

## 2. How the code is translated

- **One step is one database transaction or one other effect.** An interactive
  transaction of a booking handler updates `bookings` where the version is the
  one read, and appends an event. Under READ COMMITTED the update waits for a
  concurrent writer of the row and re-evaluates its `where` clause, and nothing
  else in the transaction depends on what may change meanwhile: the whole is one
  step. What the handler read *before* the transaction is a step of its own, and
  so is the job it hands over *after* the commit.
- **Transactions that read what others may write are split**: the webhook at its
  lookup of the payment row (`FindPayment`, `Settle...`; the insert into
  `webhook_events` waits for a concurrent transaction that has inserted the same
  event), and the transactions of Reviews into their statements, with row locks.
- **In the browser** an action is what happens between two awaits: JavaScript runs
  to completion. A request is sent, served and answered in three steps, and each
  may be followed by anything. React Query and Socket.io are modelled from how the
  code uses them (`Queries`: staleness, refetch on mount, cancellation of a fetch by
  an invalidation, an error that stays until there is an answer).
- **Errors.** A refusal before the transaction leaves the state alone and ends the
  handler. A rollback is a step that changes nothing but the handler. Refusals that
  do not depend on anything a property reads (404, ownership of the row, schema of
  the input) change nothing and are left out, unless a page provokes them.
- **Death of a process** between two steps forgets what a handler or a job held (`Lost`,
  `WorkerCrash`, `DeliveryFails`, `AbandonPayment`, `AbandonRefund`, `Fail`, `Restart`, `Crash`,
  `Reload`).
- **Data** is kept to what decides: a booking is its status and version; amounts
  appear in Money and Refunds only; content of a cached table is the number of its
  writes; a token is the session it stands for; a row of a form has two columns.
- **The repository's ids** are elements of constant sets; a row that does not exist
  yet has a value that says so.
- **Bounds** are constants called `Max...`, or a set of identifiers that can be used
  up. `Reconciling` says whether somebody calls `reconcilePayments` and
  `DirectSuspension` whether somebody calls `UserService.suspendUser`: today nobody
  does (no route), and the code is modelled as if only where a run says so.
- **History variables** (marked "history" or "ghost") record what no table does, so
  that a property can relate a state to an earlier one. No guard reads them.
- **Mutants.** Before some definitions stands another with a comment that starts
  "Mutant:". It is the definition with a plausible bug in it, and `PROJECT.json` says
  which property of which run notices it: there is one for each property that a
  passing run checks. No action or property uses a mutant.
- **Claims that fail.** The last section of a module, "What comments, pages and tests
  say and the code does not keep", states what the repository says of the program
  and the model refutes (section 6).

## 3. Modules

```
BookingStateMachine   pure: ALLOWED_TRANSITIONS, ACTOR_PERMISSIONS, validateTransition
  |        |
  |        BookingLifecycle    abstract: what bookings promise
  |                 ^ refined by
  Bookings ---------+          handlers, lock, expiry job, jobs handed over    BookingsProofs
  |     ^ refined by
  Payments                     EXTENDS Bookings: payment rows, webhook, Stripe  PaymentsProofs
  |
  Refunds                      EXTENDS Payments: refund rows, balance, charge.refunded
                                 (proofs in PaymentsProofs)

Money                          commission and cancellation, against their equations
AuthSessions                   accounts, sessions, codes, suspension, clean-up  AuthSessionsProofs
ProviderLifecycle              abstract: the provider state machine
  ^ refined by                   (with one request at a time)
Providers                      handlers, documents, services                    ProvidersProofs
Catalogue                      the cache in front of providers, services, destinations
Conversations                  threads, messages, rooms of sockets              ConversationsProofs
Reviews                        statements and locks of the rating
Notifications                  attempts, stalls and restarts of the worker
Idempotency, RateLimiter       the two middlewares with state
Pagination                     a walk through any list by cursor

Queries                        one query in the cache of React Query (operators only)
  BookingPages                 EXTENDS BookingStateMachine, Queries
  AdminPages, Onboarding       EXTENDS Queries, instance of ProviderLifecycle
NewBooking                     the booking form and the Idempotency-Key it makes
Uploads, EditForms             the documents page, the forms that edit rows
ApiClient, SignedIn            tokens, the shared refresh, AuthProvider and the guards
ChatClient                     sockets, rooms and the message cache of a page

Backend                        one component of the backend runs                BackendProofs
Browser                        one component of the frontend runs               BrowserProofs

SumsProofs                     sums over finite sets, for PaymentsProofs and BackendProofs
```

**Backend** and **Browser** instantiate the other components of the backend, and those of
the frontend, some of them several times: each behaviour is one of a single component on a
single instance, named by the variable `part`, while the others stay as they begin. The
models of those components share no variable, so that interleaving them would multiply the
states and show nothing new. Where components do share state, one module extends the other:
Payments has all of Bookings in it, Refunds all of Payments.

The runs need eight more modules. MCBookings, MCPayments, MCRefunds, MCNewBooking, MCBackend
and MCBrowser each extend one of these by the values of its constants and, where there is
one, its symmetry and VIEW. MCSettling and MCLiveness instantiate several components, as
Backend does, with the fairness that their liveness properties need.

**BookingStateMachine** is `domain/booking/booking-state-machine.ts` as three
relations and the predicate `ValidateTransition` (the method throws iff it is false).

**BookingLifecycle** is the abstract specification: `status` and `history` of each
booking, no handlers, versions or races. A booking is created once, moves along
allowed transitions, and the history only grows.

**Bookings** has the tables as `booking` and `events`, the time-out as `overdue`,
the local variables of requests as `req`, of expiry jobs as `expiry`, and BullMQ
as the set `queue` (jobs have fixed `jobId`s, so a second `add` is a no-op).

| code | definitions |
|---|---|
| `createBooking` | `CreateBooking`, `Enqueue` |
| `acceptBooking`, `declineBooking`, `cancelBooking`, `completeBooking`, `noShowBooking` up to the transaction | `AcceptBooking` ... `NoShowBooking`, by `Load`; the checks by `Valid`, `RefundDue` |
| their transactions, `updateStatus`, `createEvent` | `Commit`, `Conflict`, by `VersionMatches`, `UpdateStatus`, `CreateEvent` |
| what they do after it | `AfterCommit`, `Enqueue`, `Lost`, `Respond` |
| `BookingProcessor.process` | `ScanExpired`, `ExpireNext`, `ExpiryConflict`, `WorkerCrash` |
| `PaymentService`, seen from here | `CreatePaymentIntent`, `ReconcilePayment` |

**Payments** extends it with the tables `payments`, `processed` (webhook_events)
and `receipts`, the local variables `pay`, `delivery`, `unresolved`, and Stripe
(`intent`, `issued`, `sent`), which is external and modelled from how
`integrations/stripe` and the webhook use it: `sent` only grows and every
event in it may be delivered at any time until it has been processed.

| code | definitions |
|---|---|
| `createPaymentIntent` | `StartPayment` (booking read), `LoadPayment` (row read, Stripe called), `CommitPayment` (the transaction), `AbandonPayment` |
| `simulatePayment` | `SimulatePayment`: asks for a transition its guard excludes, so it always rolls back |
| `handleWebhookEvent` | `Receive`, `FindPayment`, `Duplicate`, `SettleSucceeded` (with `ConfirmBooking`), `SettleFailed`, `SettleCanceled`, `SendReceipt`, `DeliveryFails` |
| `reconcilePayments` | `LoadUnresolved`, `ReconcileNext`, `ReconcileSkip` |
| `PaymentRepository` | `FindByStripeIntentId`, `UpdatePaymentStatus`, `SavePayment`, `Unresolved` |
| Stripe and the browser | `Pay`, `PayFails`, `CancelIntent` |

`StartPayment` is the action `CreatePaymentIntent` of Bookings with the request's
own memory added, and `ReconcileNext` uses `ReconcilePayment`: composition is
by conjunction, and `BookingsSpec` says that the rest does not disturb bookings.

**Refunds** extends Payments with the table `refund`, the requests `refundReq`, and at
Stripe the refunds made (`refunded`) and the events processed (`settled`).
`StartRefund`, `CheckBalance`, `CallStripe`, `CommitRefund` are `createRefund`: the
balance is read before Stripe is called, the row written after, and
`AbandonRefund` may come between any two. `ChargeRefunded` is the branch of the
webhook, which settles all pending refunds of the booking. `ProviderChecksBalance`
tells Stripe, which refuses more than was paid, from the mock, which does not.

**Money** is `calculateBookingFinancials` (`Clamp`, `EffectiveRate`, `Round`) and
`evaluateCancellationRules`, as `CreateBooking` and `CancelBooking` use them. A half
cent may be rounded either way, since the code multiplies floating point numbers.

**AuthSessions** has `account`, `session`, `code` and the access tokens that are
valid. Every handler is a start (`Register`, `Login`, `Refresh`, `Logout`,
`ForgotPassword`, `ResetPassword`, ...: what it reads and checks) and a commit. A
session row stands for its refresh token: whoever has it may present it again.
`Time` lets sessions, codes and access tokens expire and `Maintenance` deletes rows.

**Providers** has rows, documents and services. `Load` reads a row and asks the
state machine, `Commit...` writes by id. Transitions of the table that no handler
makes (to `draft`) and a review of documents do not exist in the model because
they do not exist in the code. `updateOwnProvider` is allowed in any status.
Two seeds go round the state machine. `seedDemoData` of the administration, in its steps
from `SeedDemoData` to `CreateDemoServices`, gives the first public provider services, or
inserts one that is listed and that nobody has looked at; `prisma/seed.ts`, which is run
on a database before the program is, is a second initial state with an approved one.
`planted` remembers whom they have inserted, and the properties except those.

**Catalogue** gives each table the number of its writes as content. `Miss`, `Fetch`,
`Store` are `getOrSet`; `Write` and then `Delete` of each pattern are a handler;
`HandlerOf` says which patterns each handler invalidates, if any; Redis may fail.

**Conversations**: a handler commits (`Claim`, `Release`, `AdminReassign`, `FlagEmergency`,
`SendMessage`, ...) and leaves a list of things to do: queue a page, broadcast to a room,
acknowledge; requests interleave there, and the server may restart. `untold` and `untoldEmergency`
are the members of staff whom an announcement is owed: connected when the thread was opened or
flagged, and ever since. A socket that comes back is told nothing, since no client reads anything
again then; `conversation:updated` on `staff:concierge` (`TellUpdate`) tells nobody, since no
client listens to it. `AuthorizeJoin` and `EnterRoom` are two steps, as in `rooms.ts`.
Announcements in the thread and typing indicators are left out; `markRead` has no access check in
the code and none in the model.

**Reviews** runs the statements of `WriteReview`, `AggregateReviews`,
`UpdateProvider` one by one under READ COMMITTED: `Visible` is what a statement sees,
and rows that were written stay locked until the commit.

**Notifications**: `Calls` lists the channels of an attempt in their order, `Send`
calls one, which may deliver and still fail; `Take`, `Backoff`, `Stall` are what
BullMQ does (a stalled job is recovered once), `Shutdown`, `Close`, `Crash`, `Start`
are the process. The gateways are mocks in every process of the repository. The
order of jobs and what BullMQ makes of custom identifiers are not modelled.

**Idempotency**: `Check` looks the key up, `Execute` runs the handler and stores its answer,
failures included. ioredis holds commands back while it reconnects and sends them in order
afterwards; after ten attempts it gives up for good (`Outage`, `Reconnect`). **RateLimiter** is
one MULTI per request: remove, count, add; refused requests are counted as well. The clock has
seconds and instants of a second (`Fractions`); the code sees only the seconds, clients live in
the instants. **Pagination** is `paginateResults` over each list of the program (`Lists`), with
Prisma as described in the module's heading.

**Queries** is what React Query does to one query. **BookingPages** gives the traveler, the
provider and an admin a page with what it offers by status (`OfferedByProvider`, `OfferedByAdmin`,
`OfferedToTraveler`), the timeline and the payment dialog; the server decides by
`BookingStateMachine`. The page of one booking takes one that it has failed to fetch for pending
(`Displayed`). The menus of a provider stay open while an action is under way, so that there are
two hands (`Hands`). `Webhook` changes no booking, because the one of Payments never does (section
6). **AdminPages** does the same for providers, users and reviews, **Onboarding** for the
verification page, where two sets of rules, the page's `IsFullyCompliant` and the server's
`Eligible`, meet. **NewBooking** is the form with its three steps, its key made of service and
date, and the middleware: `Submit`, `Lookup`, `Execute` (the handler, with its commit), `Respond`
(its answer, and what is stored of it), `Receive`; `Unauthorized` is a refused token, after which
the request is sent again and whatever comes back counts as success. A request goes on at the
server when nobody waits for it any more (`Lose`, `Reload`). **Uploads**: a file is dropped,
stored, recorded; the drop zone shows one file while others are still under way. **EditForms**: a
form is a `Copy` of the cached row; `Type`, `Submit` all of it, `Store` what `Payload` sends of
it. `Serve` and `Fetched` bring the row again, and the form of a provider (`Refills`) is filled
again when the row is another one. A version, for which `updatedAt` stands, tells rows apart.

**ApiClient** is one client per tab: `Send`, `Unauthorized`, `Refresh` or `Subscribe`,
`RefreshSucceeds` with `TokenRefreshed`, `Retry`; the server rotates and detects reuse. A logout
is `LogoutAsked`, its request like any other (served, refused, itself refreshing), `LogoutDone`
and `LoadPage`. What was sent by a call that is over, or from a page that has been left, is served
late (`ServeLate`). **SignedIn** leaves rotation to it: a token is the user it stands for, and
what varies is `user`, `isLoading`, the page, GET /auth/me and POST /auth/refresh under way, how
far a logout is (`leaving`), and the rows that the cache keeps. `Refreshed` sets the tokens
whatever has become of them. **ChatClient** is `WebSocketManager` with its sockets and the
handlers of the hooks; the server is the one of Conversations, as a client sees it: it lets a
socket into a room (`Join`), or refuses or fails (`Deny`), after which the client does nothing.

## 4. Runs

Runs marked V check one claim of the repository and end with the counterexample
that section 6 describes.

| run | instance | question |
|---|---|---|
| `bookings_safety` | 1 booking, 3 requests, 2 expiry jobs | does nothing happen twice; do jobs say only what happened; do handlers and job implement `BookingLifecycle` |
| `bookings_reconcile` | 1 booking, 2 requests, 1 expiry job, reconciliation, MaxVersion 7 | does the version check turn every stale read into a conflict, also when rows change behind the state machine |
| `payments_webhooks` | 1 booking, 1 request, 2 intents, 2 deliveries, reconciliation, MaxVersion 5 | money first; an event takes effect once |
| `payments_bookings` | 1 booking, 2 requests, 2 intents, 1 delivery | one payment row per booking; does the composition implement Bookings |
| V `payments_confirmation`, `payments_twice` | 1 booking, 1 request, 1 or 2 intents, 1 delivery | |
| `refunds` | 1 booking, 1 request, 2 intents, 2 refunds, 2 refund requests, amounts to 2, reconciliation, a Stripe with a balance | are refund rows of real refunds, and never of too much |
| `settling` | three parts, below | what must happen to bookings, payments and refunds in the end |
| `backend` | fifteen parts, below | the other components of the backend: safety |
| `liveness` | four parts, below | the other components: what must happen in the end |
| `browser` | fourteen parts, below | pages and clients of the frontend: safety |
| V `new_booking_own` | 2 travelers, 1 date, 2 numbers of guests | |

The runs of several parts:

| run, part | instance | properties |
|---|---|---|
| `settling`, expiry | 2 bookings, 1 request, 1 job, at most MaxMoves = 1 transition each | `OverdueLeavesPending` |
| webhooks | 1 booking, 1 request, 1 intent, 1 delivery | `FailureIsAcknowledged` |
| refunds | 1 booking, 1 intent, 1 refund, 1 refund request, reconciliation | `PendingRefundSettles` |
| `backend`, accounts | 1 user, 2 requests, 2 sessions, suspension by both paths | `ExchangedTokenIsDead` |
| codes | 1 user, 1 request, 1 session, 2 codes | `ResetIsFinal` |
| providers | 1 provider, who may be the one of the demo data; 3 requests | `PublicWasApproved` |
| one by one | 2 owners, one an administrator who gets the demo provider, the other possibly seeded; 1 request | `PublicWasApproved` (and verified), `ImplementsLifecycle` |
| catalogue | 2 requests, the public page of a provider, outages | `TypeOK` |
| every table | 1 request, four other families of keys, all handlers | `TypeOK` |
| staff | 1 thread, 2 concierges, 1 administrator, 2 requests | `HoldersAreAssigned` |
| emergency | 1 thread, 2 concierges, 1 administrator, 2 requests, a queue that may refuse | `StaffIsTold` |
| messages | 1 thread, 1 concierge, 2 messages, 2 requests, restarts | `ShownIsStored` |
| reviews | 1 booking, 2 ratings, 3 requests | `NoDeadlock` |
| lists | 3 rows in pages of one, 1 move, every list of the program | `RowsOnceButForMoves` |
| idempotency | 3 requests at once, 2 keys, 2 bodies, outages | `AnswersBelong` |
| rate limiter | 2 requests in 3 seconds; 6 seconds of 2 instants, 2 requests in each | `LimiterKeepsItsWord` |
| notifications | 1 e-mail, 1 page of the staff, 2 attempts, 2 restarts | `DeliveredOncePerAttempt` |
| money | prices, guests, rates through every remainder; notices around 24 hours | `MoneyAddsUp` |
| `liveness`, accounts | as in `backend` | `SuspendedLosesAccess` |
| catalogue | as in `backend`, 2 writes per table | `NoStaleForever` |
| idempotency | as in `backend` | `EveryRequestAnswered` |
| signed in | 2 people, 2 calls, no expiry | `SpinnerEnds` |
| `browser`, traveler; provider bookings | one browser; the booking changes elsewhere | `OwnActionShown`; also `RefusedOnlyWhenStale` |
| lists | users and reviews, 1 change of each row by others | `OwnActionShown` |
| applications, decisions | list and page of a provider, 2 changes; the page, 5 changes | `RefusedOnlyWhenStale` |
| onboarding | 1 submission at a time, 3 changes | `NobodyIsLockedOut`, `OwnActionShown` |
| new booking | 1 traveler, 2 dates, 2 numbers of guests, 2 submissions | `BookedOnceAsSubmitted` |
| uploads | 3 files, one refused, 2 types | `DocumentsAreStored` |
| destination, profile | 1 editor, 2 fields, 2 saves or changes by others | `EditsAreKept` |
| signed in | 2 people, 2 calls, expiry | `LoggedOutIsGone` |
| api client | 1 tab, 3 calls, 3 pairs of tokens, lost answers, late service | `ExchangedOnce` |
| thread, rooms | 1 thread with 1 message, 2 threads; 2 sockets, drops | `RejoinsAfterReconnect` |

Each run of several parts also has the type invariants of its components, as one `TypeOK`
(`backend`, `browser`; of bookings and payments it is proved only, section 5). Properties of a run
are conjunctions of those of its components where these answer one question.

**Why the bounds are enough.** Every write concerns one row, and handlers share
nothing but rows and the queue, so one row shows all races about it; two are used where one
action handles several (the loop of the expiry job, rooms, keys) and where owners
could get in each other's way. Two requests suffice for one to read
what the other then changes, three for that to happen twice before the first
commits. Two intents are needed for a payment row to move from one to another,
two sessions for a token and the one it was exchanged for; three rows in pages of one
for a cursor with a row before it, and one to come; two people for rows of the other. Bounds
on writes, changes, restarts and rotations leave room for an operation, its
opposite, and where the property is about it the operation again. MaxMoves does not
bar expiry: an overdue booking that is pending has made no transition. What the instances
leave open section 5 closes, but for liveness and the three properties of section 7.

In NewBooking two submissions overlap at the server, and in ApiClient a third pair of tokens is
needed for a token to be exchanged, signed in anew and the older one presented again.

One restriction weakens what a part shows: in refunds a Stripe with a balance of its own is
assumed; with the mock, which has none, the sum is exceeded (section 6).

**Symmetry** permutes identifiers that nothing distinguishes, in runs that check
invariants and properties of single steps only, never in one with a liveness property.

**VIEW.** The passing runs of MCPayments and MCRefunds identify states that differ
only in what no guard and no property of those runs reads: the jobs of the bookings
queue; the role, reason and `enqueue` of a transition; of the log all but the
statuses entered.

**Deadlock** is checked in every run. Where an instance can be used up (tokens,
keys, seconds, restarts, sign-ins, sockets, messages) its run has an action `Settled`
for those parts, which does nothing; a component that is not named there never stops.

**Fairness.** Users owe nothing: no request has to be made, to be paid, or, in bookings and
payments, to be finished.

- `settling`, expiry: the scheduler adds the expiry job every five minutes and a
  worker takes it, hence weak fairness of `ScanExpired`; a run may be killed at any
  point, and again, but not before its first turn every single time, hence strong
  fairness of a turn. The repository's `src/render.yaml` starts the web server only: for an
  installation without worker and scheduler the assumption, and the conclusion,
  does not hold.
- `settling`, webhooks: Stripe retries an event until it is answered with 2xx.
  Of the failure event, strong fairness of its arrival, of the start of its transaction,
  and of its end; a delivery that is stuck ends by failing (time-out). Nothing is
  assumed of a *succeeded* event that rolls back: it takes the same request slot
  and returns for ever, and failures get through nevertheless. `payments_confirmation`
  assumes the same of every event (`Redelivery`), so that nothing but the code stands in
  the way.
- `settling`, refunds: `charge.refunded` arrives.
- `liveness`, accounts and catalogue: a request ends, well or badly; access tokens
  and cached entries expire.
- `liveness`, idempotency: a request that is in progress is handled, again and again if the
  connection breaks: what ioredis holds back is sent whenever the connection is
  up, hence strong fairness; reconnecting ends, with success or for good.
- `liveness`, signed in: GET /auth/me ends, with an answer or an error, and effects run.
  `SpinnerEnds` is claimed of a page that is not loaded anew for ever, and of tokens that
  do not expire meanwhile: section 6 says what happens when they do.

## 5. Proofs

TLAPS checks the modules `...Proofs`, for arbitrary values of the constants: any numbers of
bookings, users, requests, sessions, sockets, pages, changes by others. Each property that a
passing run checks and that is an invariant, an action property or a refinement is stated by a
theorem; what remains are the liveness properties (section 7). What is assumed of the constants is
what the modules themselves say of them, in an `ASSUME` that TLC evaluates in the runs:

- `ConstantsAssumption` (Bookings): `Reconciling` is a Boolean, `MaxVersion` a natural number.
- `RefundsAssumption`: amounts are natural numbers, and the sets of refunds and intents are
  finite, so that the amounts have a sum.
- `InstancesAssumption` of Backend and of Browser: what each component assumes of its
  instance. `None` is no user, click or token; bounds are natural numbers, limits are
  positive; the first choices of a form are among its choices; tokens are finitely many; of
  reviews, catalogue and lists it is `ReviewsAssumption` (ratings are 1 to 5, a provider has
  finitely many bookings and is none of them), `CatalogueAssumption` (a positive bound) and
  `PaginationAssumption` (a page holds a row, a table is finite, `None` is no row). Two are
  restrictions: the instances "one by one" and "codes" have one request, and the API client
  has one tab.

Where a theorem needs more, its statement says it: `~Reconciling`, `ProviderChecksBalance`
(Stripe, not the mock), `OneAtATime`. Section 6 tells what
happens without; the hypotheses are those of the runs of section 4.

**Bookings** (`BookingsProofs`)

| theorem | states | argument |
|---|---|---|
| `TypeCorrect` | `[]TypeOK` | inductive |
| `LockIsSound` | `[]StaleReadsAreDetectable` | inductive together with `TypeOK`. Versions only grow, and a write of a row leaves each remembered version behind (`WriteKeepsReadsDetectable`) |
| `LogIsFaithful` | `LoggedFromIsActual` | each step that logs is a `LoggedMove` (`LoggedStep`): by `LockIsSound` the version check implies that the remembered status is the present one |
| `LogIsComplete` | `~Reconciling => []EventLogIsComplete` | inductive with the two invariants above |
| `EnteredOnce` | `~Reconciling => []StatusEnteredOnce` | `LogsClimb`: each status has a `Stage`, every transition leads to a later one (`TransitionsClimb`), and a log has come no further than its booking |
| `JobsAreTrue` | `[]JobsMatchLog` | `JobsAreLogged`: a request that still has to enqueue its job has already logged what the job will say |
| `ImplementsLifecycle` | `~Reconciling => LifecycleSpec` | each step maps to `Create`, `Move` or a stutter |

**Payments and refunds** (`PaymentsProofs`)

| theorem | states | argument |
|---|---|---|
| `PayTypeCorrect`, `RefundTypeCorrect` | `[]PayTypeOK`, `[]RefundTypeOK` | inductive |
| `ImplementsBookings` | `BookingsSpec` | needs `NeverPaid`: no booking is in `paid` and nobody is about to move one there. So `ConfirmBooking` can only find the booking confirmed already, and every step of payments is a step of Bookings or leaves its variables alone (`RefinementStep`) |
| `LockIsSoundWithPayments` | `[]StaleReadsAreDetectable` | from `ImplementsBookings` and `LockIsSound` |
| `OnePayment` | `[]OnePaymentPerBooking` | `OneRow` (no row before a booking leaves `accepted`, one when it awaits payment) and `PayingHandlers` (who has seen no row is about to move the booking out of `accepted`, under the lock) |
| `AppliedOnce` | `[]EventAppliedOnce` | inductive with `PayTypeOK` |
| `MoneyComesFirst` | `[]MoneyFirst` | `Provenance`: every remembered intent (in a row, a request, a webhook delivery, the list of reconciliation) belongs to the booking it is about to be used for, and a `succeeded` event is true. What Stripe has once received it keeps (`StripeRemembers`) |
| `ImplementsPayments` | `RefundSpec => PaySpec` | every step of refunds is a step of payments or leaves payments alone, so that all of the above holds with refunds as well |
| `RefundsReal` | `ProviderChecksBalance => []RefundsAreReal` | `RealInv`: what a request of `createRefund` holds is about an intent of its booking, although the payment row may have got another since; with `Provenance` |
| `RefundsWithinPayments` | `ProviderChecksBalance => []RefundsArePaidFor` | `Balanced`: the refunds that Stripe has made of an intent add up to no more than it has received. The rows of a booking are some of those, of paid intents of that booking (`RefundsReal`), so they add up to at most what was paid through these (`SumOfKinds`). The balance that `createRefund` compares with plays no part: the guarantee is Stripe's alone |

`OnePaymentPerBooking` is not inductive: without `PayingHandlers` a request might hold
"no row yet" for a booking that has one. `MoneyFirst` is not inductive either:
without `Provenance` a stale row id could meet the event of another booking.

**Sums** (`SumsProofs`). A sum of the community modules is a recursive function over the
subsets of a set, that takes out a chosen element at a time. The lemmas about it (it does
not depend on the choice, a part adds up to no more than the whole, sums over disjoint sets
add up, sums per kind bound the whole) are proved with one induction, `MinimalSubset`: a
set of finite sets has a minimal one. `WFMin` gives it without a predicate as parameter.

**Sessions** (`AuthSessionsProofs`)

| theorem | states | argument |
|---|---|---|
| `AuthTypeCorrect` | `[]TypeOK` | inductive |
| `ExchangedIsDead` | `[]ExchangedTokenIsDead` | `RotationInv`: the session that a row names as its parent is itself a row, and revoked. It speaks of tables only: whatever a request has read before, its commit revokes the session it replaces, and fails if there is none |
| `ResetsAreFinal` | `OneAtATime => [](OneLiveCode /\ CodeUsedOnce /\ ResetEndsSessions)` | `ResetInv`: rows and tokens are of registered accounts, there is one unconsumed code of a kind, sessions are of the present password, and what a request has read is `StillSo`, because nobody else writes |

**Providers** (`ProvidersProofs`)

| theorem | states | argument |
|---|---|---|
| `ProvidersTypeCorrect` | `[]TypeOK` | inductive |
| `PublicIsApproved` | `[]PublicWasApproved` | `ApprovalInv`: who is about to be listed or suspended by a stale request was found approved at some time, and an approval is never forgotten; the only providers to get past that are those a seed has inserted |
| `ListedVerified`, `FollowsLifecycle` | `OneAtATime => []ListedIsVerified`, `OneAtATime => ImplementsLifecycle` | `FreshInv`: with nobody else about, the transition that was read for is still allowed at the commit |

**Conversations** (`ConversationsProofs`)

| theorem | states | argument |
|---|---|---|
| `ConversationsTypeCorrect` | `[]TypeOK` | `MessagesInv`: a message that a handler still has to send or acknowledge has a number, and is stored |
| `ShownStaysStored` | `[]ShownIsStored` | from the same, and `messages` only grows, also in a crash |
| `HolderIsAssigned` | `[]HoldersAreAssigned` | the claim is one conditional update |
| `EmergencyIsAnnounced` | `[]EmergencyAnnounced` | as long as anybody is owed the announcement, a handler has it in its list (`Announced`) |
| `StaffGetsToKnow` | `[]StaffIsTold` | the same of every thread that is opened |

**The backend as a whole** (`BackendProofs`)

| theorem | states | argument |
|---|---|---|
| `IdempotencyTypeCorrect`, `AnswersStayOfTheRequest` | `[]AnswersBelong` | `AnswerInv`: each entry of the cache reports an execution for its key and its body (`EntriesReport`) |
| `LimiterKeepsItsPromises` | `LimiterKeepsItsWord` | `LimiterInv`. `Counted`: what was served in the window that ends now is still counted, although Redis drops the key and old entries, because the key lives for one window after each request; so the window of a request that is let through has no more than the count. A stretch of `WindowSec - 1` seconds lies within `WindowSec` whole ones. `Promised`: what is counted and what `X-RateLimit-Remaining` promises stay within the limit, and a refusal names the second in which the key expires |
| `NotificationsTypeCorrect`, `JobsDeliverOnce` | `[]DeliveredOncePerAttempt` | `QueueInv`: how often each channel was reached is at most the number of attempts begun, and an attempt calls each channel once and in order (`Consistent`) |
| `MoneyTypeCorrect`, `MoneyStaysKept` | `[]MoneyAddsUp` | integer arithmetic of `calculateBookingFinancials`, for every price, number of guests and rate, with a half cent rounded either way |
| `WritersNeverDeadlock` | `[]NoDeadlock` | `LocksInOrder`: a transaction locks its review before the provider, and waits for no review once it has locked the provider |
| `WalksShowRowsOnce` | `[]RowsOnceButForMoves` | `WalkInv`: of a walk whose cursor row has not moved, what was shown lies not behind the cursor (`Passed`), but for rows that moved; and of the rows that stood still all the time, no more lie before the cursor unseen (`LeftOut`) than pages were asked for with a cursor row that had left the filter. Each page is what `Found` says: the matching rows after the cursor, in order and without gaps, less the one that `skip` drops |
| `ReviewsTypeCorrect` | `[]Rated!TypeOK` | `RatedInv`: with the order of the locks, and what each transaction still has to write is `Founded` in the tables it has read. That a rating is an average from 1 to 5 needs a sum over the reviews (`SumsProofs`) |
| `TypesStayCorrect` | `[]TypeOK` | the conjunction of the components' invariants: `WalkInv`, `RatedInv`, `CachedInv` (no more seedings than writes to the table), `LimiterInv`, `QueueInv`, ... |
| `ExchangedTokensStayDead`, `ResetsStayFinal`, `PublicStaysApproved`, `LifecycleIsFollowed`, `HoldersStayAssigned`, `StaffStaysTold`, `ShownMessagesStayStored` | the properties of the run `backend` | each step of Backend is one of the component that runs, and leaves the others alone (`OwnSteps`); so the theorem of the component carries over. `AuthFacts`, `ProvidersFacts`, ... instantiate the modules above with the values of the instance |

**Clients of the frontend** (`BrowserProofs`, first half)

| theorem | states | argument |
|---|---|---|
| `BookingsAreMadeOnce` | `[]BookedOnceAsSubmitted` | `BookedIsKept`: what is answered has its entry in the cache of the middleware, so that a request that is executing was looked up before a booking under its key was answered (`Asks`), and two bookings under one key overlapped (`OverlapOnly`) |
| `DocumentsStayStored` | `[]DocumentsAreStored` | `RecordsAreOfUploads`: a file that has been answered is on the disk, the type is chosen for good when the file is |
| `EditorsKeepEdits` | `EditsAreKept` | `DestinationsAreOfVersions`, `ProfilesAreOfVersions`: what was read, copied into a form or sent is of some version of the row, and of the present one it differs only where it was typed into; versions of the cache only grow |
| `LogoutsAreFinal` | `[]LoggedOutIsGone` | `NobodyComesBack`: but for a page that logout is about to unload, nothing holds anybody who has logged out, no refresh under way either; who is given tokens again counts as having come back |
| `ApiClientTypeCorrect`, `TokensAreSentOnce` | `[]Api!TypeOK` (any number of tabs), `[]ExchangedOnce` (one) | `OneRefresh`: one call refreshes at a time (`OneCall`), and a token that is not excused has one holder: a request on its way, a call with the answer, or the page (`OneHolder`) |

**Pages of the frontend** (`BrowserProofs`, second half). All pages show rows through
`Queries`. `QueryStep` says once what every operation of React Query, and every answer, may do
to a query, and that it keeps three things: `Held` (its type), `Honest` (a version is shown
with the status that went with it) and `CatchesUp` (neither what a query shows once it has
settled nor an answer on its way is older than the page's own last action). Each page then
only has to show that what it does is such an operation.

| theorem | states | argument |
|---|---|---|
| `OutcomesAreShown` | `[]OwnActionShown` | `BookingShown`, `AdminShown`, `SubmissionShown`: who acts from a page has data there, so that the invalidation after the action fetches again, and cancels what was under way; the page of one booking may have none, and `own` remembers only what it was not already fetching |
| `OffersAreGood` | `[]RefusedOnlyWhenStale` | `ChoiceStands`, `DecisionStands`: while the row is as the page showed it, what was chosen is on offer, and what is offered the server allows; the exceptions that the property makes are the ones that are left |
| `NobodyStaysLockedOut` | `[]NobodyIsLockedOut` | compares two sets of rules, the page's and the server's; from `OwnerRow`, which every row satisfies |
| `RoomsAreJoinedAgain` | `[]RejoinsAfterReconnect` | `InRoomOrAsked`: a connected socket is in the room of the manager's current thread, or was denied it, or has asked for it and the server has not handled that yet |

| `PageTypesStayCorrect` | `[]TypeOK` | the types of the pages do not follow from the above alone. `KindsKept`: the rows of users, reviews and providers share their queries and dialogs, and each holds statuses and actions of its own kind, whatever answer arrives. `ChatTyped`: a socket that is not connected is in no room and hears of nothing; it is inductive with `CreatedInOrder` (the socket that `connect()` creates is one that there has not been). `SubmissionsTyped`, `PaymentTyped`. Of the clients their own invariants |

Browser runs one component at a time, and the others stay as they begin; `PagesInv` is the
conjunction of the invariants of the pages, whether they run or wait, so that one
temporal step serves all.

Many of these invariants are not those of the runs but strengthenings, and the reason is
always the same: a handler, an answer or a job holds something it has read, and the
invariant has to say what of it is still true.

## 6. Where code and documentation disagree

Three claims have a run that TLC ends with a counterexample, and an entry under
`findings` in `PROJECT.json` that quotes the line it contradicts:

- `payments_confirmation`, `PaidBookingMovesOn`: the webhook asks for `awaiting_payment ->
  confirmed` at once, which the state machine refuses; the transaction rolls back, Stripe
  retries, and the paid booking stays where it is. (This is also why `BookingsSpec` holds:
  the webhook never changes a booking. Without reconciliation `paid`, `confirmed` and what
  follows are never entered.)
- `payments_twice`, `PaidOnce`: a second `createPaymentIntent` replaces the intent of the
  row; the first is not cancelled and can still be paid.
- `new_booking_own`, `ShownIsOwn`: the key is made of service and date only, so another
  traveler gets the booking of the first.

The other claims stand at the end of their modules, under "What comments, pages and tests
say and the code does not keep", each with a comment that names the code. They have no
listed run; a configuration with the property alone shows the counterexample.

| module | property | what the code does |
|---|---|---|
| Bookings | `LoggedActorIsPermitted` | `ACTOR_PERMISSIONS` gives `awaiting_payment` to system, admin and provider; `createPaymentIntent`, which does not ask, moves the booking as the traveler |
| Payments | `TerminalIsFinal` | `reconcilePayments`, once somebody calls it, confirms a cancelled booking |
| Refunds | `RefundedWithinPayment` with `ProviderChecksBalance = FALSE` | pending refunds do not count against the balance |
| | `SucceedsByItsOwnEvent` | one event settles all pending refunds of a booking |
| | `ProviderCancellationIsRefunded` | the automatic refund goes to a queue without a worker |
| Money | `AdminCancellationIsRefunded` | the admin branch of the cancellation rules is never taken |
| | `RefundedIsNotEarned` | the earnings after a refund go into metadata, the row keeps them |
| AuthSessions | `OneSuccessor` | two refreshes with one token get a session each |
| | `ResetEndsSessions`, with two requests | a login that was checked before a reset survives it |
| | `CodeUsedOnce`, with two requests | two requests use one code |
| Providers | `MustResubmit` | approval lists a provider whatever the status has become meanwhile |
| | `OnlyTravelersUpgraded` | an administrator who creates a provider stops being one |
| | `PublicIsVerified` | the demo provider is listed, and nobody has verified it |
| Catalogue | `UpdateClearsDestinations` | a slow fill undoes an invalidation |
| | `ProviderShowsServices` | the administration of services invalidates nothing |
| | `SeededOnce` | two seedings insert twice |
| Conversations | `NoDuplicateThread` | two threads for one booking |
| | `OnlyParticipantsReceive` | a concierge goes on receiving after another's claim |
| | `AckBeforeBroadcast` | the broadcast comes before the acknowledgement |

| Reviews | `RatingMatches` | two reviews at once, the rating counts one |
| Idempotency | `ExecutesOnce` | two requests at once with one key both execute |
| RateLimiter | `SlidingWindow` | late in one second and early in the one a window later there may be the limit each, in less than a window |
| Pagination | `NoneMissed` | a row that leaves the filter takes another one with it |
| | `NoneNearMissed` | rows outside the circle end the walk |
| ApiClient | `RequestsSettle` | the call that refreshes is never settled |
| | `SessionSurvives` | a refresh that is served after a logout has revoked its session, or a page that was left while refreshing, looks like theft, and reuse detection signs the user out everywhere |
| | `ExchangedOnce`, with two tabs | each tab has its own copy of the token, and a rotated one is sent |
| SignedIn | `SpinnerEnds`, with expiry | the call that refreshes may be GET /auth/me, and the page stays a spinner |
| | `SignedOutForGood` | a refresh that is answered after a logout has cleared the tokens, and before the page is left, sets them again: the next page is signed in |
| | `UserIsOfToken` | a late answer makes the page greet the user before |
| | `RowsAreOfUser` | the next user sees the rows of the one before |
| ChatClient | `LiveMessagesShown` | the handler of messages throws on the shape of its cache |
| | `HearsSelected` | after a navigation the page listens on a closed socket |
| | `JoinIsHeld` | a page that is not let into a room, because the server failed, does not ask again |
| BookingPages | `RefusedOnlyWhenStale`, of the traveler and an admin | pages offer what the server always refuses |
| | `ConfirmedShown` | success is shown before, or without, a confirmation |
| | `RefundPromiseKept` | a full refund is promised whatever the date |
| | `RefetchIsNew` | a page of one booking that has not got it yet offers to cancel it, and after that goes on waiting for the older answer |
| | `InvitedToPay` | a declined booking is invited to pay |
| | `NoTestMode` | any error opens the test mode |
| NewBooking | `SentIsReviewed` | the same traveler, after a cancellation, gets the old answer |
| | `BookedOnce` | a submission that is looked up before another is answered books too, even when that one has committed |
| | `SentIsBooked` | a request that is refused when it is sent again after a refresh shows "Booking request sent!" |
| AdminPages | `OwnDecisionShown` | the page of a provider does not fetch again after its own action |
| | `OfferedIsValid` | it offers to approve what is only submitted |
| Onboarding | `CompletedIsAccepted` | a checklist that is complete is refused by the server |
| | `VerifiedIsTold` | "Verified Partner" is never shown |
| Uploads | `SuccessIsOfFile` | the success of one file marks another |
| | `RemovedIsNotRecorded` | a removed file is recorded |
| | `AcceptedIsStorable` | the size that is promised does not fit the body |
| EditForms | `NoLostUpdate` | a save takes back what another has saved since the form was filled |
| | `TypedIsStored` | a field cannot be emptied |
| | `TypingSurvives` | what is typed while a save is under way goes when the row comes back |

Read on the way, without a property, because one look at the code settles them:

- `createBooking` accepts dates in the past.
- The login page ignores the `?redirect=` that the guards and the client give it.
- `useAdminUpdateUserRole`, which the settings page uses, sends PATCH to `/admin/users/:id`,
  which has no route. The search of the users page sends `search`, the query schema has `q`.
- The messages page opens a thread with `message`, where the schema asks for `initialMessage`;
  "flag as emergency" on the concierge's page only asks for confirmation.
- `conversation:updated` is broadcast by the server and no client listens: the staff are told
  neither of claims nor of releases, and a client that was away reads nothing again when its
  socket is back.
- `app/provider/services` creates services with a type and keys that the strict schema
  refuses; the profile form of a provider is free text where the server has enums and
  E.164; no page creates a provider.

## 7. What is only model-checked, and what is not modelled

**Only model-checked**, so that what the bounds of section 4 leave open is open:

- every liveness property (`OverdueLeavesPending`, `FailureIsAcknowledged`,
  `PendingRefundSettles` and those of the run `liveness`), since fairness and ENABLED are out
  of the prover's reach.

**Only proved.** `TypeOK`, `EventLogIsComplete` and `LoggedFromIsActual` of Bookings and
`PayTypeOK` of Payments hold by section 5 for every instance; no run repeats them.

**Hazards of which no run states a property that holds**:

- `modules/payments/repository.ts:56`: `updateStatus` of payments has neither lock nor
  order. A late `payment_failed` overwrites `succeeded`, which Payments lets happen
  (`SettleFailed`): the repository does not say what the row should then be.
- `modules/reviews/repository.ts:83`: the rating of overlapping reviews; it is wrong
  (`RatingMatches`).
- `modules/bookings/service.ts:414`: the job `auto_refund` goes to a queue that no worker
  reads (`ProviderCancellationIsRefunded`).
- `lib/api-client.ts:106`: the call that refreshes never settles (`RequestsSettle`).
- `modules/conversations/service.ts:159`: announcements of two requests may come in another
  order than their commits; nothing reads them (`conversation:updated` has no listener).
- `websocket/rooms.ts:36`: the right to a thread is asked once, when the room is joined
  (`OnlyParticipantsReceive`).
- `common/middleware/idempotency.ts:89`: failures are stored like successes, for a day, so
  that a retry after a passing error gets the error again. Modelled, and nothing says
  that it should be otherwise.
- The order in which BullMQ takes jobs of different priority.

**Halves of hazards that a property does not cover**, because the code does not prevent them;
the hazard's `note` says so, too:

- `modules/auth/auth.service.ts:352`: two refreshes that overlap get a session each
  (`OneSuccessor`); `ExchangedTokenIsDead` says what holds all the same.
- `modules/auth/auth.service.ts:503`: a sign-in that overlaps with a reset survives it.
- `modules/refunds/service.ts:64` and `modules/payments/service.ts:324`: two requests may ask
  Stripe for more than is left, which only Stripe's balance prevents; a crash between the
  refund at Stripe and its row loses the row.
- `modules/providers/service.ts:283`: of an approval and a rejection that overlap the last wins.
- `modules/conversations/service.ts:396`: a restart after a message is stored leaves it untold
  until the thread is read.
- `jobs/processors/notification.processor.ts:85`: a retry repeats an SMS that was delivered.

**Abstractions a reader should know of**, beyond those of section 2:

- BookingPages, AdminPages, Onboarding: one mutation per browser at a time where the buttons are
  disabled while one is pending, or dialogs are modal; in the provider's list, whose menus are
  not, two (`Hands`). Filters of a list are queries of their own under one prefix.
  `OwnActionShown` is about pages that are not left meanwhile, and excepts the page of one booking
  that was fetching it for the first time (`RefetchIsNew`). In Onboarding the handler of the
  server, and the fetch of the three lists the page shows, are one step each.
- NewBooking: all of it happens within the day for which answers are kept, and Redis answers; what
  happens without it is Idempotency. What is stored and the answer are one step, as the commands
  of one connection are executed in order; a process that dies before it is a request that goes no
  further.
- Pagination: Prisma and PostgreSQL are external; a page that comes out of the cache is
  as old as the cache, which is Catalogue. A page of a list near a place is sorted by distance
  (`ByDistance`); no property reads the order within a page.
- Uploads: each file is chosen once and the documents page stays open.
- EditForms: one row, one form, one save and one fetch under way per browser. The lists are those
  of an administrator and `/providers/me`, which do not come out of the cache in Redis; an
  administrator whose access token has expired gets the public list of destinations, which does.
- SignedIn: a reload ends the calls under way; calls that wait for a refresh are repeated as
  one; `Calls` bounds how many are under way. A logout ends with an answer, an error or its
  timer of 800 ms, in any of which it goes on in the same way.
- ApiClient: the server takes a request in one step; the last access token of an instance does
  not expire, since there is none to follow it.
- Conversations: what the staff are told is about sockets that stay connected; a page that is
  loaded reads the list, which is no announcement. `markRead` has no check of access, as in the
  code; what it changes, no property reads.
- RateLimiter: `Fractions` instants stand for the continuum within a second: only their order
  decides.
- BullMQ is at-least-once with fixed ids; the order of jobs is free.

**Not modelled**, with the status in `PROJECT.json`:

- the audit log, which is append-only and which nothing reads to decide anything;
  `charge.dispute.created` only writes there;
- boot, configuration, logging, schemas and routes, except for which processes run (that
  decides fairness) and which routes exist (that decides what is an action);
- verification of signatures and tokens, password hashing, what the gateways of mails and
  messages do inside;
- queries that only read: statistics and dashboards;
- pages that only show what a query has fetched: landing page, listings, details, dashboards,
  sidebars; wording, layout and formatting, unless a property is about them;
- `seed.ts`, but for its provider and services, with which Providers may begin;
- announcements in a thread and typing indicators.

## 8. What is left to do

All subsystems that decide anything are modelled, and their safety is proved. Left are:

1. Components whose behaviours are interleaved with each other, rather than one at a time as
   in Backend and Browser: for example a page of the traveler over the backend of Payments, with its
   caches. The theorems of the components carry over as in `OwnSteps`; what would be new are
   properties that speak of both sides.
2. A property of the lists near a place that holds: at present their module says only what
   they miss (`NoneNearMissed`).

None of the modules declares or reaches a RECURSIVE operator.
