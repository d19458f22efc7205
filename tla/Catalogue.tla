----------------------------- MODULE Catalogue -----------------------------
(***************************************************************************)
(* The public catalogue: destinations, providers, services and the figures *)
(* of the dashboards, read through RedisCache by many requests at a time,  *)
(* while the handlers that change them invalidate, or do not invalidate,   *)
(* what is cached.                                                         *)
(*                                                                         *)
(* The content of a table is the number of writes to it: two readers see   *)
(* the same content iff they see the same number.  A table with zero       *)
(* writes is empty.                                                        *)
(***************************************************************************)
EXTENDS Naturals, FiniteSets

CONSTANTS
  Requests,  \* concurrent HTTP requests
  Handlers,  \* the handlers that this instance calls
  Keys,      \* the keys that this instance reads
  MaxWrites, \* bound: writes to one table
  Outages    \* whether Redis may become unavailable

\* What an instance must satisfy: a table can be filled.
CatalogueAssumption == MaxWrites \in Nat \ {0}

VARIABLES
  version,   \* writes to each table
  cached,    \* content of Redis
  redisUp,   \* whether Redis answers
  call,      \* what each request holds
  seeded     \* history: how often the demo services have been inserted

vars == <<version, cached, redisUp, call, seeded>>

-----------------------------------------------------------------------------
(* What is cached                                                          *)

\* figures: bookings, payments, refunds and reviews.
Tables == {"destination", "provider", "service", "figures"}

\* list of DestinationRepository, findBySlug.
DestinationKeys == {"destinations:list", "destinations:slug"}

\* list and findBySlug of ProviderRepository include services and ratings.
ProviderKeys == {"providers:list", "providers:slug"}

\* listAll of ServiceRepository includes the provider and filters by its status.
CatalogKeys == {"services:catalog"}

\* What the fetcher of a key reads.
Reads(k) ==
  IF k \in DestinationKeys THEN {"destination"}
  ELSE IF k \in ProviderKeys \cup CatalogKeys THEN {"provider", "service"}
  ELSE IF k = "providers:dashboard" THEN {"figures"}
  ELSE {"figures", "provider"}

View(k) == [t \in Reads(k) |-> version[t]]

Uncached == [t \in {} |-> 0]

\* The keys of a pattern.
Matching(pattern) ==
  CASE pattern = "destinations:list:*" -> {"destinations:list"}
    [] pattern = "destinations:*" -> DestinationKeys
    [] pattern = "providers:*" -> ProviderKeys \cup {"providers:dashboard"}
    [] pattern = "services:*" -> CatalogKeys

-----------------------------------------------------------------------------
(* Handlers: the table they write, and what they invalidate afterwards     *)

CreateDestination == [table |-> "destination", patterns |-> {"destinations:list:*"}]
UpdateDestination == [table |-> "destination", patterns |-> {"destinations:*"}]
CreateProvider == [table |-> "provider", patterns |-> {"providers:*"}]
UpdateOwnProvider == [table |-> "provider", patterns |-> {"providers:*"}]

\* submit, approve, request changes, reject, suspend, reinstate.
ModerateProvider == [table |-> "provider", patterns |-> {}]

\* The owner creates, updates or deletes a service.
OwnerServices == [table |-> "service", patterns |-> {"services:*", "providers:*"}]

\* An admin does.
AdminServices == [table |-> "service", patterns |-> {}]

\* A booking, a payment, a refund changes.
Business == [table |-> "figures", patterns |-> {}]

HandlerOf(name) ==
  CASE name = "CreateDestination" -> CreateDestination
    [] name = "UpdateDestination" -> UpdateDestination
    [] name = "CreateProvider" -> CreateProvider
    [] name = "UpdateOwnProvider" -> UpdateOwnProvider
    [] name = "ModerateProvider" -> ModerateProvider
    [] name = "OwnerServices" -> OwnerServices
    [] name = "AdminServices" -> AdminServices
    [] name = "Business" -> Business

-----------------------------------------------------------------------------
(* Types                                                                   *)

Idle == [pc |-> "idle"]

\* "fetching": the key was not found.  "storing": the database has answered.
\* "invalidating": these keys are still to be deleted.  "reviewing": the
\* transaction of reviewProvider is open.  "seeding": these tables were empty.
Call ==
  {Idle}
    \cup [pc : {"fetching"}, key : Keys]
    \cup (UNION {[pc : {"storing"}, key : {k}, value : [Reads(k) -> 0..MaxWrites]] : k \in Keys})
    \cup [pc : {"invalidating", "reviewing"}, keys : SUBSET Keys]
    \cup [pc : {"seeding"}, empty : SUBSET Tables]

Entry(k) == {Uncached} \cup [Reads(k) -> 0..MaxWrites]

TypeOK ==
  /\ version \in [Tables -> 0..MaxWrites]
  /\ DOMAIN cached = Keys /\ \A k \in Keys : cached[k] \in Entry(k)
  /\ redisUp \in BOOLEAN
  /\ call \in [Requests -> Call]
  /\ seeded \in 0..MaxWrites

\* Some tables are filled already.
Init ==
  /\ version \in [Tables -> 0..1]
  /\ cached = [k \in Keys |-> Uncached]
  /\ redisUp = TRUE
  /\ call = [r \in Requests |-> Idle]
  /\ seeded = 0

Goto(r, next) == call' = [call EXCEPT ![r] = next]

-----------------------------------------------------------------------------
(* getOrSet                                                                *)

\* A hit answers at once; a miss, or a Redis that does not answer, fetches.
Miss(r, k) ==
  /\ call[r] = Idle
  /\ cached[k] = Uncached \/ ~redisUp
  /\ Goto(r, [pc |-> "fetching", key |-> k])
  /\ UNCHANGED <<version, cached, redisUp, seeded>>

Fetch(r) ==
  /\ call[r].pc = "fetching"
  /\ Goto(r, [pc |-> "storing", key |-> call[r].key, value |-> View(call[r].key)])
  /\ UNCHANGED <<version, cached, redisUp, seeded>>

\* setex, whatever has happened to the table or the key since; also a null.
Store(r) ==
  /\ call[r].pc = "storing"
  /\ cached' = IF redisUp THEN [cached EXCEPT ![call[r].key] = call[r].value] ELSE cached
  /\ Goto(r, Idle)
  /\ UNCHANGED <<version, redisUp, seeded>>

\* Mutant: the pages of one row are kept without a time to live.
ExpireListsOnly(k) ==
  /\ k \in {"destinations:list", "providers:list", "services:catalog"}
  /\ cached[k] # Uncached
  /\ cached' = [cached EXCEPT ![k] = Uncached]
  /\ UNCHANGED <<version, redisUp, call, seeded>>

\* The time to live of an entry ends.
Expire(k) ==
  /\ cached[k] # Uncached
  /\ cached' = [cached EXCEPT ![k] = Uncached]
  /\ UNCHANGED <<version, redisUp, call, seeded>>

-----------------------------------------------------------------------------
(* invalidate, and the writers                                             *)

MatchingAny(patterns) == Keys \cap UNION {Matching(p) : p \in patterns}

Written(table) == [version EXCEPT ![table] = @ + 1]

\* The handler has written its rows and goes on to invalidate.
Write(r, name) ==
  LET h == HandlerOf(name)
  IN  /\ call[r] = Idle
      /\ version[h.table] < MaxWrites
      /\ h.table \in {"destination", "provider"} =>
           (name \in {"CreateDestination", "CreateProvider"} <=> version[h.table] = 0)
      /\ version' = Written(h.table)
      /\ Goto(r, [pc |-> "invalidating", keys |-> MatchingAny(h.patterns)])
      /\ UNCHANGED <<cached, redisUp, seeded>>

\* SCAN and DEL: the keys go one by one.
Delete(r, k) ==
  /\ call[r].pc \in {"invalidating", "reviewing"}
  /\ k \in call[r].keys
  /\ redisUp
  /\ cached' = [cached EXCEPT ![k] = Uncached]
  /\ Goto(r, [call[r] EXCEPT !.keys = @ \ {k}])
  /\ UNCHANGED <<version, redisUp, seeded>>

\* invalidate swallows the error of a Redis that does not answer.
GiveUp(r) ==
  /\ call[r].pc \in {"invalidating", "reviewing"}
  /\ call[r].keys # {}
  /\ ~redisUp
  /\ Goto(r, [call[r] EXCEPT !.keys = {}])
  /\ UNCHANGED <<version, cached, redisUp, seeded>>

Answer(r) ==
  /\ call[r].pc = "invalidating" /\ call[r].keys = {}
  /\ Goto(r, Idle)
  /\ UNCHANGED <<version, cached, redisUp, seeded>>

\* reviewProvider invalidates inside its transaction, before the commit.
ReviewProvider(r) ==
  /\ call[r] = Idle
  /\ version["provider"] \in 1..MaxWrites - 1
  /\ Goto(r, [pc |-> "reviewing", keys |-> MatchingAny({"providers:*"})])
  /\ UNCHANGED <<version, cached, redisUp, seeded>>

CommitReview(r) ==
  /\ call[r].pc = "reviewing" /\ call[r].keys = {}
  /\ version["provider"] < MaxWrites
  /\ version' = Written("provider")
  /\ Goto(r, Idle)
  /\ UNCHANGED <<cached, redisUp, seeded>>

\* The transaction of reviewProvider fails after the invalidation.
RollbackReview(r) ==
  /\ call[r].pc = "reviewing" /\ call[r].keys = {}
  /\ Goto(r, Idle)
  /\ UNCHANGED <<version, cached, redisUp, seeded>>

\* seedDemoData counts destinations and services.
SeedDemoData(r) ==
  /\ call[r] = Idle
  /\ Goto(r, [pc |-> "seeding",
              empty |-> {t \in {"destination", "service"} : version[t] = 0}])
  /\ UNCHANGED <<version, cached, redisUp, seeded>>

\* It fills what it found empty, with a provider if there is none, and
\* invalidates nothing.  Only destinations have a key that duplicates violate.
CommitSeed(r) ==
  LET written == call[r].empty \cup
        (IF "service" \in call[r].empty /\ version["provider"] = 0 THEN {"provider"} ELSE {})
  IN  /\ call[r].pc = "seeding"
      /\ \A t \in written : version[t] < MaxWrites
      /\ version' = [t \in Tables |-> IF t \in written THEN version[t] + 1 ELSE version[t]]
      /\ seeded' = IF "service" \in call[r].empty THEN seeded + 1 ELSE seeded
      /\ Goto(r, Idle)
      /\ UNCHANGED <<cached, redisUp>>

Outage ==
  /\ Outages
  /\ redisUp' = ~redisUp
  /\ UNCHANGED <<version, cached, call, seeded>>

-----------------------------------------------------------------------------
Finish(r) ==
  \/ Fetch(r)
  \/ Store(r)
  \/ \E k \in Keys : Delete(r, k)
  \/ GiveUp(r)
  \/ Answer(r)
  \/ CommitReview(r)
  \/ RollbackReview(r)
  \/ CommitSeed(r)

Start(r) ==
  \/ \E k \in Keys : Miss(r, k)
  \/ \E name \in Handlers \ {"ReviewProvider", "SeedDemoData"} : Write(r, name)
  \/ "ReviewProvider" \in Handlers /\ ReviewProvider(r)
  \/ "SeedDemoData" \in Handlers /\ SeedDemoData(r)

Next ==
  \/ \E r \in Requests : Start(r) \/ Finish(r)
  \/ \E k \in Keys : Expire(k)
  \/ Outage

Spec == Init /\ [][Next]_vars

\* Requests get on, and Redis drops what has lived its time.
Fairness ==
  /\ \A r \in Requests : WF_vars(Finish(r))
  /\ \A k \in Keys : WF_vars(Expire(k))

FairSpec == Spec /\ Fairness

-----------------------------------------------------------------------------
(* Properties                                                              *)

Fresh(k) == cached[k] = Uncached \/ cached[k] = View(k)

Quiet == \A r \in Requests : call[r] = Idle

\* However reads, writes and outages interleave, and although most handlers
\* invalidate nothing, no stale entry lasts: every key is fresh again and
\* again, and for good once the writes have ended (getOrSet's setex).
NoStaleForever == \A k \in Keys : []<>Fresh(k)

-----------------------------------------------------------------------------
(* What comments, pages and tests say and the code does not keep: TLC      *)
(* refutes each on a small instance.                                       *)

\* "Invalidate both list and slug caches": after the update of a destination
\* has answered, nothing that is cached is older than it.
UpdateClearsDestinations == Quiet => \A k \in Keys \cap DestinationKeys : Fresh(k)

\* "invalidate provider caches since provider detail includes services": between
\* requests the cached provider shows the services there are.
ProviderShowsServices ==
  Quiet => \A k \in Keys \cap ProviderKeys :
    cached[k] # Uncached => cached[k]["service"] = version["service"]

\* "Only runs if destinations or services tables are empty": the demo services
\* are inserted once.
SeededOnce == seeded <= 1
=============================================================================
