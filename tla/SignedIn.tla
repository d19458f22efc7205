------------------------------ MODULE SignedIn ------------------------------
(***************************************************************************)
(* Who is signed in, as one tab of the browser sees it: AuthProvider asks  *)
(* GET /auth/me on every navigation, the layouts keep pages for the roles  *)
(* they are for, and React Query keeps the rows that a page has shown.     *)
(*                                                                         *)
(* An action is what happens between two awaits; a navigation includes the *)
(* effects of the page it leads to.  What becomes of tokens on the server  *)
(* is left to ApiClient: here a token is the user it stands for.           *)
(***************************************************************************)
CONSTANTS
  Users,    \* people who use this browser
  Admins,   \* those of them who are admins
  None,     \* nobody
  Calls,    \* bound: GET /auth/me under way at a time
  Expiry    \* whether access tokens expire

VARIABLES
  user,      \* of the AuthContext
  isLoading, \* of the AuthContext
  token,     \* whose tokens ApiClient and localStorage hold
  page,      \* what pathname is
  me,        \* whose tokens each GET /auth/me was sent with
  resent,     \* those that were sent again after a refresh
  refreshing, \* whose tokens POST /auth/refresh was sent with
  asker,     \* whether a GET /auth/me has sent it
  waiting,   \* such calls have subscribed, and wait for the next refresh
  signing,   \* who is being signed in
  leaving,   \* how far logout is
  fetching,  \* whose bookings are being fetched
  rows,      \* whose bookings React Query holds
  left       \* ghost: who has logged out, and not been given tokens again

asked == <<me, resent, refreshing, asker, waiting>>

vars == <<user, isLoading, token, page, asked, signing, leaving, fetching, rows, left>>

Pages == {"home", "login", "bookings", "admin"}

Somebody == Users \cup {None}

TypeOK ==
  /\ user \in Somebody /\ token \in Somebody
  /\ isLoading \in BOOLEAN
  /\ page \in Pages
  /\ me \in [Calls -> Somebody]
  /\ resent \subseteq Calls
  /\ refreshing \in Somebody
  /\ asker \in BOOLEAN /\ waiting \in BOOLEAN
  /\ signing \in Somebody
  /\ leaving \in {"no", "asked", "gone"}
  /\ fetching \in Somebody /\ rows \in Somebody
  /\ left \subseteq Users

\* A page is opened with what localStorage holds.
Init ==
  /\ page \in Pages /\ token \in Somebody
  /\ user = None /\ isLoading = (token # None)
  /\ \E c \in Calls : me = [d \in Calls |-> IF d = c THEN token ELSE None]
  /\ resent = {} /\ refreshing = None /\ asker = FALSE /\ waiting = FALSE
  /\ signing = None /\ leaving = "no"
  /\ fetching = None /\ rows = None /\ left = {}

-----------------------------------------------------------------------------
(* AuthProvider.                                                           *)

\* refreshUser up to its await, with the tokens of t, when u is in the context.
RefreshUser(t, u) ==
  IF t = None
  THEN user' = None /\ isLoading' = FALSE /\ UNCHANGED me
  ELSE /\ user' = u /\ UNCHANGED isLoading
       /\ \E c \in Calls : me[c] = None /\ me' = [me EXCEPT ![c] = t]

\* The effect of AuthProvider follows the pathname.
Goto(p, t, u) ==
  /\ page' = p
  /\ IF p # page THEN RefreshUser(t, u) ELSE user' = u /\ UNCHANGED <<isLoading, me>>

\* clearTokens with onUnauthorized, which goes to the login page.
ClearTokens(calls, loading) ==
  /\ token' = None /\ user' = None /\ page' = "login"
  /\ isLoading' = (page = "login" /\ loading)
  /\ me' = calls

\* The rest of the page stays as it is.
Rest == <<signing, leaving, fetching, rows, left>>

\* A call is over.
Ends(c) ==
  /\ me[c] # None
  /\ resent' = resent \ {c}

\* The answer names the user of the tokens that the request was sent with.
MeAnswered(c) ==
  /\ Ends(c)
  /\ user' = me[c] /\ isLoading' = FALSE
  /\ me' = [me EXCEPT ![c] = None]
  /\ UNCHANGED <<token, page, refreshing, asker, waiting>> /\ UNCHANGED Rest

\* The network or the server fails, or the tokens are gone when it is a 401.
MeFails(c) ==
  /\ Ends(c)
  /\ ClearTokens([me EXCEPT ![c] = None], FALSE)
  /\ UNCHANGED <<refreshing, asker, waiting>> /\ UNCHANGED Rest

\* Refused when it was sent again: it resolves all the same, with no user.
MeUnnamed(c) ==
  /\ Ends(c) /\ c \in resent
  /\ user' = None /\ isLoading' = FALSE
  /\ me' = [me EXCEPT ![c] = None]
  /\ UNCHANGED <<token, page, refreshing, asker, waiting>> /\ UNCHANGED Rest

\* 401: this call refreshes the tokens, or waits until another has.
MeUnauthorized(c) ==
  /\ Expiry /\ me[c] # None /\ c \notin resent /\ token # None
  /\ me' = [me EXCEPT ![c] = None]
  /\ IF refreshing = None
     THEN refreshing' = token /\ asker' = TRUE /\ UNCHANGED waiting
     ELSE waiting' = TRUE /\ UNCHANGED <<refreshing, asker>>
  /\ UNCHANGED <<user, isLoading, token, page, resent>> /\ UNCHANGED Rest

\* 401 to another request, that of the logout too: it refreshes them.
OtherUnauthorized ==
  /\ Expiry /\ token # None /\ refreshing = None
  /\ refreshing' = token /\ asker' = FALSE
  /\ UNCHANGED <<user, isLoading, token, page, me, resent, waiting>> /\ UNCHANGED Rest

\* setTokens, whatever has become of the tokens since.  Who has subscribed is
\* sent again, here as one request; the call that refreshed subscribes now.
Refreshed ==
  /\ refreshing # None
  /\ token' = refreshing
  /\ left' = IF leaving = "gone" THEN left \ {refreshing} ELSE left
  /\ IF waiting
     THEN \E c \in Calls : /\ me[c] = None /\ me' = [me EXCEPT ![c] = refreshing]
                           /\ resent' = resent \cup {c}
     ELSE UNCHANGED <<me, resent>>
  /\ waiting' = asker
  /\ refreshing' = None /\ asker' = FALSE
  /\ UNCHANGED <<user, isLoading, page, signing, leaving, fetching, rows>>

\* Refused or lost: nobody is sent again, and the call subscribes all the same.
RefreshFails ==
  /\ refreshing # None
  /\ ClearTokens(me, isLoading)
  /\ waiting' = (waiting \/ asker)
  /\ refreshing' = None /\ asker' = FALSE
  /\ UNCHANGED resent /\ UNCHANGED Rest

-----------------------------------------------------------------------------
(* Signing in and out.                                                     *)

LoginAsked(u) ==
  /\ page = "login" /\ signing = None
  /\ signing' = u
  /\ UNCHANGED <<user, isLoading, token, page, asked, leaving, fetching, rows, left>>

\* The form goes to the page of the role.
LoginAnswered ==
  /\ signing # None
  /\ token' = signing /\ left' = left \ {signing}
  /\ Goto(IF signing \in Admins THEN "admin" ELSE "home", signing, signing)
  /\ signing' = None
  /\ UNCHANGED <<resent, refreshing, asker, waiting, leaving, fetching, rows>>

LoginRefused ==
  /\ signing # None /\ signing' = None
  /\ UNCHANGED <<user, isLoading, token, page, asked, leaving, fetching, rows, left>>

LogoutAsked ==
  /\ user # None /\ leaving = "no"
  /\ leaving' = "asked"
  /\ UNCHANGED <<user, isLoading, token, page, asked, signing, fetching, rows, left>>

\* Mutant: to the login page by the router.
LogoutDoneByRouter ==
  /\ leaving = "asked"
  /\ ClearTokens(me, FALSE)
  /\ left' = left \cup ({user, token} \ {None})
  /\ leaving' = "no"
  /\ UNCHANGED <<resent, refreshing, asker, waiting, signing, fetching, rows>>

\* Answered, refused, or not answered within 800 ms.
LogoutDone ==
  /\ leaving = "asked"
  /\ ClearTokens(me, FALSE)
  /\ left' = left \cup ({user, token} \ {None})
  /\ leaving' = "gone"
  /\ UNCHANGED <<resent, refreshing, asker, waiting, signing, fetching, rows>>

\* window.location.href, or the user: of what is in memory nothing is left.
Load(p) ==
  /\ page' = p /\ user' = None /\ isLoading' = (token # None)
  /\ \E c \in Calls : me' = [d \in Calls |-> IF d = c THEN token ELSE None]
  /\ resent' = {} /\ refreshing' = None /\ asker' = FALSE /\ waiting' = FALSE
  /\ signing' = None /\ leaving' = "no" /\ fetching' = None /\ rows' = None
  /\ UNCHANGED <<token, left>>

Unload == leaving = "gone" /\ Load("login")

Reload == leaving # "gone" /\ Load(page)

-----------------------------------------------------------------------------
(* Pages.                                                                  *)

Guarded == {"bookings", "admin"}

Allowed(u, p) == u # None /\ (p = "admin" => u \in Admins)

\* What a layout shows its children on.
Shown == page \in Guarded => ~isLoading /\ Allowed(user, page)

Navigate(p) ==
  /\ p # page /\ Goto(p, token, user)
  /\ UNCHANGED <<token, resent, refreshing, asker, waiting, signing, leaving, fetching, rows,
                 left>>

\* Mutant: a layout waits for a user.
TurnAwayUser ==
  /\ page \in Guarded /\ ~isLoading /\ user # None /\ ~Allowed(user, page)
  /\ Goto("home", token, user)
  /\ UNCHANGED <<token, resent, refreshing, asker, waiting, signing, leaving, fetching, rows,
                 left>>

\* The effect of a layout.
TurnAway ==
  /\ page \in Guarded /\ ~isLoading /\ ~Allowed(user, page)
  /\ Goto(IF user = None THEN "login" ELSE "home", token, user)
  /\ UNCHANGED <<token, resent, refreshing, asker, waiting, signing, leaving, fetching, rows,
                 left>>

\* useMyBookings: nothing is held, or what is held is a minute old.
Fetch ==
  /\ page = "bookings" /\ Shown /\ token # None /\ fetching = None
  /\ fetching' = token
  /\ UNCHANGED <<user, isLoading, token, page, asked, signing, leaving, rows, left>>

FetchEnds ==
  /\ fetching # None
  /\ fetching' = None /\ rows' \in {rows, fetching}
  /\ UNCHANGED <<user, isLoading, token, page, asked, signing, leaving, left>>

MeEnds(c) ==
  MeAnswered(c) \/ MeFails(c) \/ MeUnnamed(c) \/ MeUnauthorized(c)

Next ==
  \/ \E c \in Calls : MeAnswered(c) \/ MeFails(c) \/ MeUnnamed(c) \/ MeUnauthorized(c)
  \/ OtherUnauthorized \/ Refreshed \/ RefreshFails
  \/ \E u \in Users : LoginAsked(u)
  \/ LoginAnswered \/ LoginRefused
  \/ LogoutAsked \/ LogoutDone \/ Unload \/ Reload
  \/ \E p \in Pages : Navigate(p)
  \/ TurnAway \/ Fetch \/ FetchEnds

\* Requests end, one way or another, and effects run.
Spec ==
  /\ Init /\ [][Next]_vars
  /\ \A c \in Calls : WF_vars(MeEnds(c))
  /\ WF_vars(TurnAway)

-----------------------------------------------------------------------------
(* Properties.                                                             *)

(* Whoever has logged out is gone: no late answer and no cache brings the  *)
(* user or the rows back.  What does is a refresh that is answered after   *)
(* clearTokens and before the page is left: it sets the tokens again.       *)
LoggedOutIsGone == leaving = "no" => user \notin left /\ rows \notin left

-----------------------------------------------------------------------------
(* What comments, pages and tests say and the code does not keep: TLC      *)
(* refutes each on a small instance.                                       *)

(* Whoever has logged out stays so until the next sign-in: nothing else    *)
(* brings tokens that are not there.                                       *)
SignedOutForGood ==
  [][leaving = "gone" /\ token = None => token' \in {None, signing}]_vars

(* No page stays behind its spinner, unless it is loaded again and again:  *)
(* the user becomes known, or is sent elsewhere.  That holds while no      *)
(* access token expires; the call that refreshes the tokens may never end. *)
SpinnerEnds == <>[][~Reload]_vars => (~Shown ~> Shown)

(* The user that the page greets is the one whose tokens it uses.          *)
UserIsOfToken == user # None /\ token # None => user = token

(* "Your Bookings" are those of the user.                                  *)
RowsAreOfUser == page = "bookings" /\ Shown /\ rows # None => rows = user
=============================================================================
