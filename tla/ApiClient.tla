----------------------------- MODULE ApiClient -----------------------------
(***************************************************************************)
(* The API client of the frontend: one instance per tab of the browser,    *)
(* with its tokens in memory, requests that are refused when their access  *)
(* token has expired, one refresh for all of them, and their repetition.   *)
(* AuthProvider signs in and out; the server rotates refresh tokens and    *)
(* takes a second use of one for theft (see AuthSessions).                 *)
(*                                                                         *)
(* JavaScript runs to completion: an action is what happens between two    *)
(* awaits.  The server takes a request in one step; that two exchanges of  *)
(* one token may overlap there is in AuthSessions.                         *)
(***************************************************************************)
EXTENDS Naturals, FiniteSets

CONSTANTS
  Tabs,      \* pages that are open at the same time
  Requests,  \* calls of apiClient.request
  NoToken,   \* the null of accessToken and refreshToken
  MaxTokens  \* bound: pairs of tokens that the server gives out

VARIABLES
  tab,      \* the ApiClient of each tab
  stored,   \* localStorage, which the tabs share
  server,   \* what the server keeps of the user's sessions, and what is on its way there
  req,      \* the calls
  abandoned \* history: tokens that were stored when a page was left that was refreshing

vars == <<tab, stored, server, req, abandoned>>

-----------------------------------------------------------------------------
(* Types                                                                   *)

\* The access and the refresh token of a pair share a number.
Token == 1..MaxTokens

\* leaving: AuthProvider.logout has "asked" the server, or cleared the tokens ("gone").
Client == [token : Token \cup {NoToken}, isRefreshing : BOOLEAN,
           refreshSubscribers : SUBSET Requests, leaving : {"no", "asked", "gone"}]

\* newest: rows of refresh_sessions that are not revoked; those that a logout or the
\* detection of a theft has revoked, not an exchange; tokens seen a second time;
\* access tokens that have not expired; requests that no call waits for any more.
Server == [issued : Token, newest : SUBSET Token, revoked : SUBSET Token,
           thefts : SUBSET Token, valid : SUBSET Token,
           late : SUBSET ({"refresh", "logout"} \X Requests \X Token)]

\* "sent" with this access token; "refreshing" and "rotated": this call sent
\* the refresh, with this token or with this one for an answer; "refused";
\* "waiting": subscribed; "retrying" with this token; "resolved", "rejected".
Call == [pc : {"idle", "sent", "refreshing", "rotated", "refused", "waiting", "retrying",
               "resolved", "rejected"},
         tab : Tabs, token : Token \cup {NoToken}, logout : BOOLEAN]

TypeOK ==
  /\ tab \in [Tabs -> Client]
  /\ stored \in Token \cup {NoToken}
  /\ server \in Server
  /\ req \in [Requests -> Call]
  /\ \A t \in Tabs : \A r \in tab[t].refreshSubscribers : req[r].pc = "waiting" /\ req[r].tab = t
  /\ abandoned \subseteq Token

\* The tabs have been opened by a user who is signed in.
Init ==
  /\ tab = [t \in Tabs |->
       [token |-> 1, isRefreshing |-> FALSE, refreshSubscribers |-> {}, leaving |-> "no"]]
  /\ stored = 1
  /\ server = [issued |-> 1, newest |-> {1}, revoked |-> {}, thefts |-> {}, valid |-> {1},
               late |-> {}]
  /\ req \in [Requests -> {[pc |-> "idle", tab |-> t, token |-> NoToken, logout |-> FALSE] :
                           t \in Tabs}]
  /\ abandoned = {}

Mine(r) == tab[req[r].tab]

Becomes(r, pc, token) == req' = [req EXCEPT ![r] = [req[r] EXCEPT !.pc = pc, !.token = token]]

-----------------------------------------------------------------------------
(* Sessions: what the server does with them                                *)

\* A new pair of tokens, of a new row of refresh_sessions.
Issued(s) ==
  LET next == s.issued + 1
  IN  [s EXCEPT !.issued = next, !.newest = @ \cup {next}, !.valid = @ \cup {next}]

\* /auth/refresh exchanges the token for another pair,
Exchanged(s, token) == [Issued(s) EXCEPT !.newest = @ \ {token}]

\* or sees the token of a revoked row, and revokes all rows of the user.
Detected(s, token) ==
  [s EXCEPT !.newest = {}, !.revoked = @ \cup s.newest, !.thefts = @ \cup {token}]

\* /auth/logout revokes the row that the access token names.
SignedOut(s, token) ==
  [s EXCEPT !.newest = @ \ {token}, !.revoked = @ \cup (s.newest \cap {token})]

-----------------------------------------------------------------------------
(* Tokens of the page                                                      *)

SetTokens(t, token) ==
  /\ stored' = token
  /\ tab' = [tab EXCEPT ![t].token = token]

\* Takes the user to the sign-in page, which keeps the instance and its subscribers.
ClearTokens(t, client) ==
  /\ stored' = NoToken
  /\ tab' = [tab EXCEPT ![t] = [client EXCEPT !.token = NoToken]]

-----------------------------------------------------------------------------
(* request                                                                 *)

Send(r) ==
  /\ req[r].pc = "idle"
  /\ Becomes(r, "sent", Mine(r).token)
  /\ UNCHANGED <<tab, stored, server, abandoned>>

\* What the handler does: nothing, but for a logout that gets through.
Handled(r) ==
  \/ UNCHANGED server
  \/ /\ req[r].logout /\ req[r].token \in server.valid
     /\ server' = SignedOut(server, req[r].token)

\* The token is valid: the answer is what the handler says.
Answer(r) ==
  /\ req[r].pc = "sent"
  /\ req[r].token \in server.valid
  /\ Handled(r)
  /\ \E pc \in {"resolved", "rejected"} : Becomes(r, pc, NoToken)
  /\ UNCHANGED <<tab, stored, abandoned>>

Unauthorized(r) == req[r].pc = "sent" /\ req[r].token \notin server.valid

\* 401 and no refresh token: an error like others.
Reject(r) ==
  /\ Unauthorized(r)
  /\ Mine(r).token = NoToken
  /\ Becomes(r, "rejected", NoToken)
  /\ UNCHANGED <<tab, stored, server, abandoned>>

\* Mutant: each refused call refreshes.
RefreshAlways(r) ==
  /\ Unauthorized(r)
  /\ Mine(r).token # NoToken
  /\ tab' = [tab EXCEPT ![req[r].tab].isRefreshing = TRUE]
  /\ Becomes(r, "refreshing", Mine(r).token)
  /\ UNCHANGED <<stored, server, abandoned>>

\* The first call that is refused refreshes, a logout as any other,
Refresh(r) ==
  /\ Unauthorized(r)
  /\ Mine(r).token # NoToken
  /\ ~Mine(r).isRefreshing
  /\ tab' = [tab EXCEPT ![req[r].tab].isRefreshing = TRUE]
  /\ Becomes(r, "refreshing", Mine(r).token)
  /\ UNCHANGED <<stored, server, abandoned>>

\* the others subscribe.
Subscribe(r) ==
  /\ Unauthorized(r)
  /\ Mine(r).token # NoToken
  /\ Mine(r).isRefreshing
  /\ tab' = [tab EXCEPT ![req[r].tab].refreshSubscribers = @ \cup {r}]
  /\ Becomes(r, "waiting", NoToken)
  /\ UNCHANGED <<stored, server, abandoned>>

\* onTokenRefreshed calls the subscribers; then the refresher subscribes.
TokenRefreshed(t, token, refresher) ==
  /\ req' = [s \in Requests |->
       IF s \in tab[t].refreshSubscribers THEN [req[s] EXCEPT !.pc = "retrying", !.token = token]
       ELSE IF s = refresher THEN [req[s] EXCEPT !.pc = "waiting", !.token = NoToken]
       ELSE req[s]]
  /\ tab' = [tab EXCEPT ![t] =
       [tab[t] EXCEPT !.token = token, !.isRefreshing = FALSE, !.refreshSubscribers = {refresher}]]

\* Also after clearTokens of a logout: the tokens are back.
RefreshSucceeds(r) ==
  /\ req[r].pc = "rotated"
  /\ TokenRefreshed(req[r].tab, req[r].token, r)
  /\ stored' = req[r].token
  /\ UNCHANGED <<server, abandoned>>

\* The requests of these calls that the server may still come to.
Pending(calls) ==
  {<<"refresh", r, req[r].token>> : r \in {q \in calls : req[q].pc = "refreshing"}}
  \cup {<<"logout", r, req[r].token>> : r \in
          {q \in calls : /\ req[q].logout /\ req[q].pc \in {"sent", "retrying"}
                        /\ req[q].token # NoToken}}

\* The server says no, or the answer does not arrive: the refresher subscribes all the same.
RefreshFails(r) ==
  /\ req[r].pc \in {"refreshing", "rotated", "refused"}
  /\ ClearTokens(req[r].tab,
       [Mine(r) EXCEPT !.isRefreshing = FALSE, !.refreshSubscribers = @ \cup {r}])
  /\ Becomes(r, "waiting", NoToken)
  /\ server' = [server EXCEPT !.late = @ \cup Pending({r})]
  /\ UNCHANGED abandoned

\* The second answer is not looked at: an error resolves too; 204 has no body and rejects.
Retry(r) ==
  /\ req[r].pc = "retrying"
  /\ Handled(r)
  /\ \E pc \in {"resolved", "rejected"} : Becomes(r, pc, NoToken)
  /\ UNCHANGED <<tab, stored, abandoned>>

-----------------------------------------------------------------------------
(* The server                                                              *)

Rotate(r) ==
  /\ req[r].pc = "refreshing"
  /\ req[r].token \in server.newest
  /\ server.issued < MaxTokens
  /\ server' = Exchanged(server, req[r].token)
  /\ Becomes(r, "rotated", server.issued + 1)
  /\ UNCHANGED <<tab, stored, abandoned>>

DetectReuse(r) ==
  /\ req[r].pc = "refreshing"
  /\ req[r].token \notin server.newest
  /\ server' = Detected(server, req[r].token)
  /\ Becomes(r, "refused", NoToken)
  /\ UNCHANGED <<tab, stored, abandoned>>

\* A request is served whose call has been given up, or whose page has been left.
ServeLate(kind, r, token) ==
  LET s == [server EXCEPT !.late = @ \ {<<kind, r, token>>}]
  IN  /\ <<kind, r, token>> \in server.late
      /\ \/ /\ kind = "refresh" /\ token \in s.newest /\ s.issued < MaxTokens
            /\ server' = Exchanged(s, token)
         \/ /\ kind = "refresh" /\ token \notin s.newest
            /\ server' = Detected(s, token)
         \/ /\ kind = "logout" /\ token \in s.valid
            /\ server' = SignedOut(s, token)
      /\ UNCHANGED <<tab, stored, req, abandoned>>

\* The lifetime of an access token ends; the last one of all is not used up here.
Expire(token) ==
  /\ token \in server.valid /\ token < MaxTokens
  /\ server' = [server EXCEPT !.valid = @ \ {token}]
  /\ UNCHANGED <<tab, stored, req, abandoned>>

-----------------------------------------------------------------------------
(* AuthProvider                                                            *)

\* The sign-in page does not ask whether somebody is signed in, or a refresh is under way.
Login(t) ==
  /\ server.issued < MaxTokens
  /\ server' = Issued(server)
  /\ SetTokens(t, server.issued + 1)
  /\ UNCHANGED <<req, abandoned>>

\* logout posts to /auth/logout,
LogoutAsked(t) ==
  /\ tab[t].leaving = "no" /\ tab[t].token # NoToken
  /\ \E r \in Requests :
       /\ req[r].pc = "idle" /\ req[r].tab = t
       /\ req' = [req EXCEPT ![r] = [req[r] EXCEPT !.pc = "sent", !.token = tab[t].token,
                                                 !.logout = TRUE]]
  /\ tab' = [tab EXCEPT ![t].leaving = "asked"]
  /\ UNCHANGED <<stored, server, abandoned>>

\* and clears the tokens when it has the answer, an error, or after 800 ms of
\* neither: its refresh may be under way.
LogoutDone(t) ==
  /\ tab[t].leaving = "asked"
  /\ ClearTokens(t, [tab[t] EXCEPT !.leaving = "gone"])
  /\ UNCHANGED <<server, req, abandoned>>

\* refreshUser clears them too, when /auth/me has failed.
Forget(t) ==
  /\ tab[t].token # NoToken
  /\ ClearTokens(t, tab[t])
  /\ UNCHANGED <<server, req, abandoned>>

\* The page is loaded anew, by the user or by a logout (window.location.href), with
\* an instance that has what is stored; its calls are gone.
LoadPage(t) ==
  /\ tab' = [tab EXCEPT ![t] =
       [token |-> stored, isRefreshing |-> FALSE, refreshSubscribers |-> {}, leaving |-> "no"]]
  /\ req' = [r \in Requests |->
       IF req[r].tab = t /\ req[r].pc # "idle"
       THEN [req[r] EXCEPT !.pc = "rejected", !.token = NoToken] ELSE req[r]]
  /\ server' = [server EXCEPT !.late = @ \cup Pending({r \in Requests : req[r].tab = t})]
  /\ abandoned' = abandoned \cup (IF tab[t].isRefreshing THEN {stored} \ {NoToken} ELSE {})
  /\ UNCHANGED stored

-----------------------------------------------------------------------------
Progress(r) ==
  \/ Answer(r)
  \/ Reject(r)
  \/ Refresh(r)
  \/ Subscribe(r)
  \/ Rotate(r)
  \/ DetectReuse(r)
  \/ RefreshSucceeds(r)
  \/ Retry(r)

Next ==
  \/ \E r \in Requests : Send(r) \/ Progress(r) \/ RefreshFails(r)
  \/ \E kind \in {"refresh", "logout"}, r \in Requests, token \in Token :
       ServeLate(kind, r, token)
  \/ \E token \in Token : Expire(token)
  \/ \E t \in Tabs : Login(t) \/ LogoutAsked(t) \/ LogoutDone(t) \/ Forget(t) \/ LoadPage(t)

Spec == Init /\ [][Next]_vars

\* The network answers, and JavaScript runs what is ready.
FairSpec ==
  /\ Spec
  /\ \A r \in Requests : WF_vars(Progress(r))
  /\ \A r \in Requests : WF_vars(RefreshFails(r))

-----------------------------------------------------------------------------
(* Properties                                                              *)

Settled(r) == req[r].pc \in {"resolved", "rejected"}

\* One user with one page looks like a thief to the server only in two ways: a
\* logout (or a theft seen before) ended the session of a token that was still to
\* be served, or a page was left that was refreshing, and the next one has the
\* token that was stored.  Otherwise no refresh token is sent twice, whatever is
\* refused, refreshed, lost, served late, signed in or forgotten at the same time
\* (isRefreshing in ApiClient.request).
ExchangedOnce == server.thefts \subseteq server.revoked \cup abandoned

-----------------------------------------------------------------------------
(* What comments, pages and tests say and the code does not keep: TLC      *)
(* refutes each on a small instance.                                       *)

\* One user with one page never looks like a thief to the server.
SessionSurvives == server.thefts = {}

\* Every call that has been sent ends with an answer or an error.
RequestsSettle == \A r \in Requests : (req[r].pc = "sent") ~> Settled(r)
=============================================================================
