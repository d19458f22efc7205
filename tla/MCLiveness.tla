---------------------------- MODULE MCLiveness ----------------------------
(***************************************************************************)
(* The components of which something must happen in the end, on small      *)
(* instances, under the fairness of each.  Each behaviour is one of a      *)
(* single component, `part`, while the others stay as they begin.          *)
(***************************************************************************)
EXTENDS Integers, FiniteSets

CONSTANTS
  Parts, \* the components of this run
  None   \* nobody, no session

VARIABLES
  part,                                                  \* the component
  account, session, code, access, authCall,              \* AuthSessions
  version, cached, redisUp, catalogueCall, seeded,       \* Catalogue
  request, answers, redis,                               \* Idempotency
  user, isLoading, token, pathname, me, resent, refreshing,
  asker, waiting, signing, leaving, fetching, rows, left \* SignedIn

authVars        == <<account, session, code, access, authCall>>
catalogueVars   == <<version, cached, redisUp, catalogueCall, seeded>>
idempotencyVars == <<request, answers, redis>>
userVars        == <<user, isLoading, token, pathname, me, resent, refreshing, asker, waiting,
                     signing, leaving, fetching, rows, left>>

vars == <<part, authVars, catalogueVars, idempotencyVars, userVars>>

-----------------------------------------------------------------------------
(* The instances                                                           *)

Requests == {"r1", "r2"}

Sessions == {"s1", "s2"}

Auth == INSTANCE AuthSessions WITH
  Users <- {"ama"}, Sessions <- Sessions, Codes <- {}, MaxResets <- 2,
  DirectSuspension <- TRUE, call <- authCall

\* Everything that changes the public page of a provider.
PublicPages == {"providers:slug"}

Catalogue == INSTANCE Catalogue WITH
  Handlers <- {"CreateProvider", "UpdateOwnProvider", "ModerateProvider", "ReviewProvider",
               "OwnerServices", "SeedDemoData"},
  Keys <- PublicPages, MaxWrites <- 2, Outages <- TRUE, call <- catalogueCall

KeyedRequests == {"r1", "r2", "r3"}

Idempotency == INSTANCE Idempotency WITH
  Requests <- KeyedRequests, Keys <- {"k1", "k2"}, Payloads <- {"p1", "p2"},
  Overlap <- TRUE, Outages <- TRUE, cache <- answers

Calls == {1, 2}

SignedIn == INSTANCE SignedIn WITH
  Users <- {"ama", "bo"}, Admins <- {"bo"}, Expiry <- FALSE, page <- pathname

-----------------------------------------------------------------------------
(* One component runs                                                      *)

Waiting(name) == part # name

\* A component that does not run begins in one way only.
Init ==
  /\ part \in Parts
  /\ Auth!Init
  /\ Catalogue!Init
  /\ Waiting("catalogue") => version = [t \in Catalogue!Tables |-> 0]
  /\ Idempotency!Init
  /\ SignedIn!Init
  /\ Waiting("signed in") => pathname = "home" /\ token = None /\ me = [c \in Calls |-> None]

\* All requests of the instance are answered.
Settled ==
  /\ part = "idempotency"
  /\ UNCHANGED vars

Next ==
  \/ /\ part = "accounts"
     /\ Auth!Next
     /\ UNCHANGED <<part, catalogueVars, idempotencyVars, userVars>>
  \/ /\ part = "catalogue"
     /\ Catalogue!Next
     /\ UNCHANGED <<part, authVars, idempotencyVars, userVars>>
  \/ /\ part = "idempotency"
     /\ Idempotency!Next
     /\ UNCHANGED <<part, authVars, catalogueVars, userVars>>
  \/ /\ part = "signed in"
     /\ SignedIn!Next
     /\ UNCHANGED <<part, authVars, catalogueVars, idempotencyVars>>
  \/ Settled

\* The fairness of each component, while it runs.
Fairness ==
  /\ \A r \in Requests :
       /\ WF_authVars(part = "accounts" /\ Auth!Finish(r))
       /\ WF_catalogueVars(part = "catalogue" /\ Catalogue!Finish(r))
  /\ \A s \in Sessions : WF_authVars(part = "accounts" /\ Auth!AccessExpires("ama", s))
  /\ \A k \in PublicPages : WF_catalogueVars(part = "catalogue" /\ Catalogue!Expire(k))
  /\ \A r \in KeyedRequests :
       SF_idempotencyVars(part = "idempotency" /\ Idempotency!Handle(r))
  /\ WF_idempotencyVars(part = "idempotency" /\ Idempotency!Reconnect)
  /\ \A c \in Calls : WF_userVars(part = "signed in" /\ SignedIn!MeEnds(c))
  /\ WF_userVars(part = "signed in" /\ SignedIn!TurnAway)

Spec == Init /\ [][Next]_vars /\ Fairness

-----------------------------------------------------------------------------
(* Properties.  Each is the one of its component.                          *)

\* A suspended user loses access within the life of an access token, although
\* no middleware looks at the status and requests in flight still hand out
\* tokens (AccessExpires, CommitRefresh).
SuspendedLosesAccess == Auth!SuspendedLosesAccess

\* However reads, writes and outages interleave, each key is fresh again and
\* again (getOrSet's setex), although most handlers invalidate nothing.
NoStaleForever == Catalogue!NoStaleForever

\* Every request is answered, although a command may wait for Redis, and Redis
\* may be given up for good.
EveryRequestAnswered == Idempotency!EveryRequestAnswered

\* While no access token expires, no page stays behind its spinner, unless it is
\* loaded again and again: the user becomes known, or is sent elsewhere.
SpinnerEnds ==
  part = "signed in" =>
    (<>[][~SignedIn!Reload]_userVars => (~SignedIn!Shown ~> SignedIn!Shown))
=============================================================================
