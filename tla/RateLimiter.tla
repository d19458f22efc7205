---------------------------- MODULE RateLimiter ----------------------------
(***************************************************************************)
(* The sliding window of the rate limiter for one key, rl:<tier>:<user or  *)
(* address>.  The middleware counts in whole seconds, but requests come at *)
(* any instant of a second.  Redis executes the MULTIs of the process in   *)
(* the order they are issued, so a request counts at the instant in which  *)
(* the middleware has read the clock.  A request that Redis does not       *)
(* answer is let through and leaves no trace: a stutter.                   *)
(***************************************************************************)
EXTENDS Integers, FiniteSets, Functions

CONSTANTS
  MaxRequests, \* RATE_LIMITS[tier].max
  WindowSec,   \* RATE_LIMITS[tier].windowSec
  Fractions,   \* instants of a second that are told apart
  Horizon,     \* bound: seconds
  Burst        \* bound: requests in one instant

\* What an instance must satisfy.
RateLimitAssumption ==
  /\ MaxRequests \in Nat \ {0} /\ WindowSec \in Nat \ {0}
  /\ Fractions \in Nat \ {0} /\ Horizon \in Nat /\ Burst \in Nat

VARIABLES
  clock,   \* the time: a second, and how much of it has passed
  entries, \* how many members of the sorted set were added in each instant
  expires, \* when Redis drops the key
  served,  \* how many requests were counted and let through in each instant
  headers  \* of the last answer

vars == <<clock, entries, expires, served, headers>>

-----------------------------------------------------------------------------
(* Types                                                                   *)

Seconds == 0..Horizon
Moments == 0..(Fractions - 1)
Instants == Seconds \X Moments

NotBefore(s, t) == s[1] > t[1] \/ (s[1] = t[1] /\ s[2] >= t[2])

RateLimitResult ==
  [allowed : BOOLEAN, remaining : 0..MaxRequests, resetAt : 0..(Horizon + WindowSec)]

TypeOK ==
  /\ clock \in Instants
  /\ entries \in [Instants -> 0..Burst]
  /\ expires \in (0..(Horizon + WindowSec)) \X Moments
  /\ served \in [Instants -> 0..Burst]
  /\ headers \in RateLimitResult

Init ==
  /\ clock = <<0, 0>>
  /\ entries = [t \in Instants |-> 0]
  /\ expires = <<0, 0>>
  /\ served = [t \in Instants |-> 0]
  /\ headers = [allowed |-> TRUE, remaining |-> 0, resetAt |-> 0]

-----------------------------------------------------------------------------
(* checkRateLimit                                                          *)

\* Math.floor(Date.now() / 1000), which is also the score of what is added.
now == clock[1]

\* zremrangebyscore up to windowStart.
Expired(t) == t[1] <= now - WindowSec

\* What is left of the sorted set, unless its TTL has run out.
Remaining ==
  [t \in Instants |-> IF Expired(t) \/ NotBefore(clock, expires) THEN 0 ELSE entries[t]]

\* The request itself is added before the count, whether it is let through or not.
Added == [Remaining EXCEPT ![clock] = @ + 1]

Count == SumFunction(Added)

\* Mutant: the window is said to end a second early.
ResultSooner(count) ==
  [allowed   |-> count <= MaxRequests,
   remaining |-> IF count > MaxRequests THEN 0 ELSE MaxRequests - count,
   resetAt   |-> now + WindowSec - 1]

Result(count) ==
  [allowed   |-> count <= MaxRequests,
   remaining |-> IF count > MaxRequests THEN 0 ELSE MaxRequests - count,
   resetAt   |-> now + WindowSec]

-----------------------------------------------------------------------------
(* rateLimit                                                               *)

\* next(), or the answer 429 with Retry-After.
Limit ==
  /\ entries[clock] < Burst
  /\ headers' = Result(Count)
  /\ entries' = Added
  /\ expires' = <<now + WindowSec, clock[2]>>
  /\ served' = IF headers'.allowed THEN [served EXCEPT ![clock] = @ + 1] ELSE served
  /\ UNCHANGED clock

Tick ==
  /\ clock' \in Instants \ {clock} /\ NotBefore(clock', clock)
  /\ UNCHANGED <<entries, expires, served, headers>>

Next == Limit \/ Tick

Spec == Init /\ [][Next]_vars

-----------------------------------------------------------------------------
(* Properties                                                              *)

\* The windowSec whole seconds that end with this one.
InWindow(last) == {t \in Instants : last - WindowSec < t[1] /\ t[1] <= last}

\* The windowSec - 1 seconds that end at this instant.
Sliding(last) ==
  {t \in Instants : /\ NotBefore(last, t)
                    /\ NotBefore(t, <<last[1] - WindowSec + 1, last[2]>>)}

\* While Redis answers, no windowSec whole seconds have more than max requests,
\* and so no windowSec - 1 seconds have, wherever they start (checkRateLimit).
WindowLimit ==
  /\ \A last \in Seconds : SumFunctionOnSet(served, InWindow(last)) <= MaxRequests
  /\ \A last \in Instants : SumFunctionOnSet(served, Sliding(last)) <= MaxRequests

\* A client that was refused and waits as long as Retry-After says is let
\* through (rateLimit).
RetryAfterSuffices ==
  [][~headers.allowed /\ now >= headers.resetAt /\ Limit => headers'.allowed]_vars

\* X-RateLimit-Remaining promises no request that is refused.
RemainingHonored ==
  [][headers.remaining > 0 /\ Limit => headers'.allowed]_vars

-----------------------------------------------------------------------------
(* What a comment says and the code does not keep: TLC refutes it.         *)

\* "Redis sliding-window counter": no windowSec seconds have more than max
\* requests, wherever they start.  Late in one second and early in the one
\* windowSec later there may be max each, less than windowSec seconds apart.
SlidingWindow ==
  \A last \in Instants :
    SumFunctionOnSet(served,
        {t \in Instants : /\ NotBefore(last, t)
                          /\ ~NotBefore(<<last[1] - WindowSec, last[2]>>, t)})
      <= MaxRequests
=============================================================================
