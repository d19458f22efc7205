------------------------------ MODULE Backend ------------------------------
(***************************************************************************)
(* The components of the backend besides bookings, payments and refunds.   *)
(* They share no variable in the models, so that checking them side by     *)
(* side would multiply their states and show nothing new.  Each behaviour  *)
(* is therefore one of a single component, `part`, while the others stay   *)
(* as they begin.                                                          *)
(***************************************************************************)
EXTENDS Integers, FiniteSets, Sequences

CONSTANTS
  Parts,         \* the components of the behaviours looked at
  None,          \* no row, no rate, nobody
  Requests,      \* requests that may overlap, ...
  FewRequests,   \* ... of components with many states, ...
  OneRequest     \* ... and of those that answer one after the other

CONSTANTS
  Accounts, Sessions, Codes,                        \* accounts
  ResetSessions, ResetCodes, MaxResets,             \* codes
  RequiredTypes, Owners, ProviderAdmins, OtherTypes,    \* providers
  DemoUser,
  OwnersInTurn, AdminsInTurn, OtherTypesInTurn,     \* one by one
  DemoUserInTurn, SeededInTurn,
  MaxWrites,                                        \* catalogue, every table
  Threads, Traveler, Concierges, Admins, FewMessages,  \* staff, emergency
  EmergencyAdmins,
  ChatConcierges, ChatAdmins, MaxMessages,          \* messages
  Bookings, Ratings, ProviderRow,                   \* reviews
  Rows, PageSize, Distance, Radius, MaxMoves,       \* lists
  Keys, Payloads,                                   \* idempotency
  MaxRequests, WindowSec, Fractions, Horizon, Burst,  \* rate limiter
  Emails, Pages, Attempts, Concurrency, Restarts,   \* notifications
  Prices, Guests, ServiceRates, ProviderRates, Notices  \* money

VARIABLES
  part,                                                       \* the component
  account, session, code, access, authCall,                   \* AuthSessions
  provider, documents, service, offered, role, providerCall,  \* Providers
  vetted, planted,
  version, cached, redisUp, catalogueCall, seeded,            \* Catalogue
  conv, messages, online, room, received, acked, untold,
  untoldEmergency, paged, holding, threadCall,                  \* Conversations
  reviews, editable, rating, tx,                              \* Reviews
  list, order, matching, cursor, more, shown, twice, steady,
  moved, slips, jumped, moves,                                \* Pagination
  request, answers, redis,                                    \* Idempotency
  clock, entries, expires, served, headers,                   \* RateLimiter
  job, worker, delivered, restarts,                           \* Notifications
  row, refund                                                 \* Money

authVars         == <<account, session, code, access, authCall>>
providerVars     == <<provider, documents, service, offered, role, providerCall, vetted,
                      planted>>
catalogueVars    == <<version, cached, redisUp, catalogueCall, seeded>>
threadVars       == <<conv, messages, online, room, received, acked, untold,
                      untoldEmergency, paged, holding, threadCall>>
reviewVars       == <<reviews, editable, rating, tx>>
listVars         == <<list, order, matching, cursor, more, shown, twice, steady,
                      moved, slips, jumped, moves>>
idempotencyVars  == <<request, answers, redis>>
limiterVars      == <<clock, entries, expires, served, headers>>
notificationVars == <<job, worker, delivered, restarts>>
moneyVars        == <<row, refund>>

vars == <<part, authVars, providerVars, catalogueVars, threadVars, reviewVars, listVars,
          idempotencyVars, limiterVars, notificationVars, moneyVars>>

-----------------------------------------------------------------------------
(* The instances                                                           *)

\* Refresh tokens in concurrent requests; codes and resets, one request at a time.
Auth == INSTANCE AuthSessions WITH
  Users <- Accounts, Requests <- FewRequests, DirectSuspension <- TRUE, call <- authCall

OneTimeCodes == INSTANCE AuthSessions WITH
  Users <- Accounts, Requests <- OneRequest, Sessions <- ResetSessions, Codes <- ResetCodes,
  DirectSuspension <- FALSE, call <- authCall

\* Requests of owners and of administrators, together, or one after the other and
\* perhaps in a database that was seeded.
Providers == INSTANCE Providers WITH
  Admins <- ProviderAdmins, Seeded <- {}, call <- providerCall

OneByOne == INSTANCE Providers WITH
  Owners <- OwnersInTurn, Admins <- AdminsInTurn, Requests <- OneRequest,
  OtherTypes <- OtherTypesInTurn, DemoUser <- DemoUserInTurn, Seeded <- SeededInTurn,
  call <- providerCall

\* Everything that changes the public page of a provider, while requests
\* overlap; and all handlers, one after the other.
ProviderHandlers ==
  {"CreateProvider", "UpdateOwnProvider", "ModerateProvider", "ReviewProvider",
   "OwnerServices", "SeedDemoData"}

PublicPages == {"providers:slug"}

Catalogue == INSTANCE Catalogue WITH
  Requests <- FewRequests, Handlers <- ProviderHandlers,
  Keys <- PublicPages, Outages <- TRUE,
  call <- catalogueCall

EveryTable == INSTANCE Catalogue WITH
  Requests <- OneRequest,
  Handlers <- ProviderHandlers \cup
    {"CreateDestination", "UpdateDestination", "AdminServices", "Business"},
  Keys <- {"destinations:list", "destinations:slug", "services:catalog", "providers:dashboard"},
  Outages <- FALSE,
  call <- catalogueCall

\* Who has a thread; who is told of it and of an emergency in it.
Staff == INSTANCE Conversations WITH
  NoOne <- None, Requests <- FewRequests, Handlers <- {"create", "claim", "release", "reassign"},
  MaxMessages <- FewMessages, QueueFails <- FALSE, Crashes <- FALSE, call <- threadCall

Emergency == INSTANCE Conversations WITH
  Admins <- EmergencyAdmins, NoOne <- None, Requests <- FewRequests,
  Handlers <- {"create", "claim", "release", "reassign", "flag", "resolve"},
  MaxMessages <- FewMessages, QueueFails <- TRUE, Crashes <- FALSE, call <- threadCall

\* What is said in it.
Messages == INSTANCE Conversations WITH
  Concierges <- ChatConcierges, Admins <- ChatAdmins, NoOne <- None, Requests <- FewRequests,
  Handlers <- {"create", "claim", "join", "send", "read"},
  QueueFails <- FALSE, Crashes <- TRUE, call <- threadCall

Rated == INSTANCE Reviews WITH Provider <- ProviderRow, provider <- rating

Pagination == INSTANCE Pagination WITH Limit <- PageSize

Idem == INSTANCE Idempotency WITH
  Overlap <- TRUE, Outages <- TRUE, cache <- answers

RateLimiter == INSTANCE RateLimiter

Queue == INSTANCE Notifications

Cents == INSTANCE Money WITH NoRate <- None

\* What the components assume of their constants; an instance that answers
\* one request after the other has one request.
ASSUME InstancesAssumption ==
  /\ Auth!AuthAssumption /\ OneTimeCodes!AuthAssumption
  /\ Providers!ProvidersAssumption /\ OneByOne!ProvidersAssumption
  /\ Staff!ConversationsAssumption /\ Emergency!ConversationsAssumption
  /\ Messages!ConversationsAssumption
  /\ Catalogue!CatalogueAssumption /\ EveryTable!CatalogueAssumption
  /\ Rated!ReviewsAssumption
  /\ Pagination!PaginationAssumption
  /\ RateLimiter!RateLimitAssumption
  /\ Queue!NotificationsAssumption
  /\ Cents!MoneyAssumption
  /\ \A q, r \in OneRequest : q = r

-----------------------------------------------------------------------------
(* One component runs                                                      *)

\* A component that does not run begins in one way only.
Waiting(name) == part # name

Init ==
  /\ part \in Parts
  /\ IF part = "codes" THEN OneTimeCodes!Init ELSE Auth!Init
  /\ IF part = "one by one" THEN OneByOne!Init ELSE Providers!Init
  /\ IF part = "every table" THEN EveryTable!Init ELSE Catalogue!Init
  /\ Waiting("catalogue") /\ Waiting("every table") => version = [t \in Catalogue!Tables |-> 0]
  /\ CASE part = "messages" -> Messages!Init
       [] part = "emergency" -> Emergency!Init
       [] OTHER -> Staff!Init
  /\ Rated!Init
  /\ Pagination!Init
  /\ Waiting("lists") =>
       list = Pagination!AllPayments /\ order = Pagination!SetToSeq(Rows) /\ matching = {}
  /\ Idem!Init
  /\ RateLimiter!Init
  /\ Queue!Init
  /\ Cents!Init

\* All tokens, keys, seconds or restarts of the instance are used up.
Settled ==
  /\ part \in {"idempotency", "rate limiter", "notifications", "money"}
  /\ UNCHANGED vars

Next ==
  \/ /\ \/ part = "accounts" /\ Auth!Next
        \/ part = "codes" /\ OneTimeCodes!Next
     /\ UNCHANGED <<part, providerVars, catalogueVars, threadVars, reviewVars, listVars,
                    idempotencyVars, limiterVars, notificationVars, moneyVars>>
  \/ /\ \/ part = "providers" /\ Providers!Next
        \/ part = "one by one" /\ OneByOne!Next
     /\ UNCHANGED <<part, authVars, catalogueVars, threadVars, reviewVars, listVars,
                    idempotencyVars, limiterVars, notificationVars, moneyVars>>
  \/ /\ \/ part = "catalogue" /\ Catalogue!Next
        \/ part = "every table" /\ EveryTable!Next
     /\ UNCHANGED <<part, authVars, providerVars, threadVars, reviewVars, listVars,
                    idempotencyVars, limiterVars, notificationVars, moneyVars>>
  \/ /\ \/ part = "staff" /\ Staff!Next
        \/ part = "emergency" /\ Emergency!Next
        \/ part = "messages" /\ Messages!Next
     /\ UNCHANGED <<part, authVars, providerVars, catalogueVars, reviewVars, listVars,
                    idempotencyVars, limiterVars, notificationVars, moneyVars>>
  \/ /\ part = "reviews"
     /\ Rated!Next
     /\ UNCHANGED <<part, authVars, providerVars, catalogueVars, threadVars, listVars,
                    idempotencyVars, limiterVars, notificationVars, moneyVars>>
  \/ /\ part = "lists"
     /\ Pagination!Next
     /\ UNCHANGED <<part, authVars, providerVars, catalogueVars, threadVars, reviewVars,
                    idempotencyVars, limiterVars, notificationVars, moneyVars>>
  \/ /\ part = "idempotency"
     /\ Idem!Next
     /\ UNCHANGED <<part, authVars, providerVars, catalogueVars, threadVars, reviewVars,
                    listVars, limiterVars, notificationVars, moneyVars>>
  \/ /\ part = "rate limiter"
     /\ RateLimiter!Next
     /\ UNCHANGED <<part, authVars, providerVars, catalogueVars, threadVars, reviewVars,
                    listVars, idempotencyVars, notificationVars, moneyVars>>
  \/ /\ part = "notifications"
     /\ Queue!Next
     /\ UNCHANGED <<part, authVars, providerVars, catalogueVars, threadVars, reviewVars,
                    listVars, idempotencyVars, limiterVars, moneyVars>>
  \/ /\ part = "money"
     /\ Cents!Next
     /\ UNCHANGED <<part, authVars, providerVars, catalogueVars, threadVars, reviewVars,
                    listVars, idempotencyVars, limiterVars, notificationVars>>
  \/ Settled

Spec == Init /\ [][Next]_vars

-----------------------------------------------------------------------------
(* Properties.  Each is the one of its component; most say nothing of a    *)
(* component that does not run, for it stays as it begins.                 *)

\* What the schemas and types of accounts, providers, catalogue and conversations
\* allow, of the instance that runs.
AccountTables == IF part = "codes" THEN OneTimeCodes!TypeOK ELSE Auth!TypeOK

ProviderTables == IF part = "one by one" THEN OneByOne!TypeOK ELSE Providers!TypeOK

CatalogueTables == IF part = "every table" THEN EveryTable!TypeOK ELSE Catalogue!TypeOK

ThreadTables ==
  CASE part = "messages" -> Messages!TypeOK
    [] part = "emergency" -> Emergency!TypeOK
    [] OTHER -> Staff!TypeOK

\* The tables, caches, queues and local variables of each component hold what
\* their schemas and types allow.
TypeOK ==
  /\ part \in Parts
  /\ AccountTables
  /\ ProviderTables
  /\ CatalogueTables
  /\ ThreadTables
  /\ Rated!TypeOK
  /\ Pagination!TypeOK
  /\ Idem!TypeOK
  /\ RateLimiter!TypeOK
  /\ Queue!TypeOK
  /\ Cents!TypeOK

\* No interleaving of refresh, logout, reset, suspension and clean-up leaves a
\* session live together with one it was exchanged for (CommitRefresh).
ExchangedTokenIsDead == part = "accounts" => Auth!ExchangedTokenIsDead

\* When nothing overlaps, a reset is final: of the codes sent only the last is
\* live, it changes the password once, and no session outlives the password it
\* was opened with (CommitReset: "Revoke all active sessions for security").
ResetIsFinal ==
  part = "codes" => OneTimeCodes!OneLiveCode /\ OneTimeCodes!CodeUsedOnce /\ OneTimeCodes!ResetEndsSessions

\* Whatever stale transitions are committed in which order, what the public
\* sees was approved, and was complete, once; one request at a time it is also
\* verified.  The only exceptions are the providers that a seed has inserted,
\* of whom the demo provider of seedDemoData was never approved.
PublicWasApproved ==
  /\ part = "providers" => Providers!PublicWasApproved
  /\ part = "one by one" => OneByOne!ListedIsVerified

\* One request at a time: each provider that somebody has created for himself
\* lives as ProviderLifecycle says, by its transitions only, and its
\* verification follows its status.
ImplementsLifecycle ==
  /\ part = "one by one" => OneByOne!LifecycleBegins
  /\ [][part = "one by one" => OneByOne!LifecycleStep]_providerVars

\* Of concurrent claims of a thread at most one is answered with success, and
\* who was told that a thread is theirs is its concierge.
HoldersAreAssigned == part = "staff" => Staff!HoldersAreAssigned

\* Once the requests about a thread are done, every member of staff connected
\* without a break since it was opened, or since it was flagged, has been told
\* of it or of the emergency, also when Redis refused to queue the page.
StaffIsTold == part = "emergency" => Emergency!StaffIsTold

\* What a client was shown or has had acknowledged is in the database, whenever
\* the server restarts.
ShownIsStored == part = "messages" => Messages!ShownIsStored

\* Transactions that rate and edit take their row locks in one order.
NoDeadlock == Rated!NoDeadlock

\* A walk misses at most one row for each page asked for with a cursor row that
\* has left the filter, and otherwise nothing that was there all the time; it
\* repeats only rows that have moved (paginate).
RowsOnceButForMoves ==
  Pagination!MissedOnlyByDepartures /\ Pagination!RepeatedOnlyAfterMove

\* Every answer, fresh or repeated from the cache, is of the key and body of the
\* request that gets it, whatever the connection to Redis does.
AnswersBelong == Idem!AnswersBelong

\* The limiter keeps its word: no windowSec whole seconds of its clock, and no
\* windowSec - 1 seconds wherever they start, have more requests than the limit,
\* none that X-RateLimit-Remaining promises is refused, and whoever waits as long
\* as Retry-After says is admitted next time.
LimiterKeepsItsWord ==
  /\ []RateLimiter!WindowLimit
  /\ RateLimiter!RemainingHonored
  /\ RateLimiter!RetryAfterSuffices

\* A job that is completed has reached its addressee, whatever attempts failed
\* and whenever the worker stopped, and each attempt sends at most once.
DeliveredOncePerAttempt == Queue!DeliveredOncePerAttempt

\* Commission and earnings add up to what the traveler pays, and a cancellation
\* refunds all of it or nothing, on the right side of 24 hours.
MoneyAddsUp == Cents!MoneyAddsUp /\ Cents!RefundIsAllOrNothing
=============================================================================
