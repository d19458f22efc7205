--------------------------- MODULE AuthSessions ---------------------------
(***************************************************************************)
(* Accounts, refresh sessions, access tokens and one-time codes: the       *)
(* handlers of AuthService, suspension by AdminService and UserService,    *)
(* and the clean-up of MaintenanceProcessor, all running concurrently.     *)
(*                                                                         *)
(* A session row is identified with its refresh token (only the hash is    *)
(* stored), a code row with its code.  Whoever has a token or a code may   *)
(* present it again.  Handlers look rows up outside their transactions,    *)
(* and nothing in the transactions looks at them again.                    *)
(***************************************************************************)
EXTENDS Naturals

CONSTANTS
  Users,              \* e-mail addresses
  Requests,           \* concurrent HTTP requests
  Sessions,           \* identifiers of rows of refresh_sessions
  Codes,              \* identifiers of rows of email_verifications
  None,               \* not a session: a session that stems from no other
  MaxResets,          \* bound: how often a password is reset
  DirectSuspension    \* TRUE iff somebody calls UserService.suspendUser

\* What an instance must satisfy.
AuthAssumption ==
  /\ None \notin Sessions
  /\ MaxResets \in Nat
  /\ DirectSuspension \in BOOLEAN

VARIABLES
  account,  \* table users: status, password (its number), emailVerifiedAt
  session,  \* table refresh_sessions
  code,     \* table email_verifications
  access,   \* access tokens (JWT) that have not expired: <<user, session>>
  call      \* what each request holds in its local variables

vars == <<account, session, code, access, call>>

-----------------------------------------------------------------------------
(* Types                                                                   *)

Account ==
  [status : {"none", "active", "suspended"}, password : Nat, verified : BOOLEAN]

NoRow == [user |-> "no row"]

\* parent (the session it was exchanged for) and password (the one that was
\* proved) are not columns: they say where a session comes from.
SessionRow ==
  [user : Users, revoked : BOOLEAN, expired : BOOLEAN,
   parent : Sessions \cup {None}, password : Nat]

Purpose == {"password_reset", "email_verify"}

CodeRow ==
  [user : Users, purpose : Purpose, consumed : BOOLEAN, expired : BOOLEAN,
   uses : Nat]

\* "registering": the address was free.  "granting": credentials or refresh
\* token checked.  "theft": a revoked token was presented.  "leaving": logout
\* has found the session.  "sending": the transaction has marked the stale
\* codes.  "redeeming": a valid code was found.
Idle == [pc |-> "idle"]

Call ==
  {Idle}
    \cup [pc : {"registering", "theft"}, user : Users]
    \cup [pc : {"granting"}, user : Users, password : Nat,
          parent : Sessions \cup {None}]
    \cup [pc : {"leaving"}, session : Sessions]
    \cup [pc : {"sending"}, user : Users, purpose : Purpose, stale : SUBSET Codes]
    \cup [pc : {"redeeming"}, code : Codes, user : Users, purpose : Purpose]

TypeOK ==
  /\ account \in [Users -> Account]
  /\ session \in [Sessions -> SessionRow \cup {NoRow}]
  /\ code \in [Codes -> CodeRow \cup {NoRow}]
  /\ access \in SUBSET (Users \X Sessions)
  /\ call \in [Requests -> Call]

Init ==
  /\ account = [u \in Users |-> [status |-> "none", password |-> 0, verified |-> FALSE]]
  /\ session = [s \in Sessions |-> NoRow]
  /\ code = [c \in Codes |-> NoRow]
  /\ access = {}
  /\ call = [r \in Requests |-> Idle]

-----------------------------------------------------------------------------
(* AuthRepository                                                          *)

SessionRows == {s \in Sessions : session[s] # NoRow}
CodeRows == {c \in Codes : code[c] # NoRow}

SessionsOf(u) == {s \in SessionRows : session[s].user = u}

\* Sessions whose refresh token is accepted.
Live == {s \in SessionRows : ~session[s].revoked /\ ~session[s].expired}

Revoke(rows) ==
  [s \in Sessions |->
     IF s \in rows THEN [session[s] EXCEPT !.revoked = TRUE] ELSE session[s]]

\* createRefreshSession, with an access token made for it.
NewSession(u, parent, password) ==
  [user |-> u, revoked |-> FALSE, expired |-> FALSE, parent |-> parent,
   password |-> password]

NewCode(u, purpose) ==
  [user |-> u, purpose |-> purpose, consumed |-> FALSE, expired |-> FALSE, uses |-> 0]

FindValidVerificationCode(c, u, purpose) ==
  /\ c \in CodeRows
  /\ code[c].user = u
  /\ code[c].purpose = purpose
  /\ ~code[c].consumed
  /\ ~code[c].expired

Unconsumed(u, purpose) ==
  {c \in CodeRows : code[c].user = u /\ code[c].purpose = purpose /\ ~code[c].consumed}

-----------------------------------------------------------------------------
(* AuthService.register, login and the answer both give                    *)

Enter(r, next) == call[r] = Idle /\ call' = [call EXCEPT ![r] = next]
Leave(r) == call' = [call EXCEPT ![r] = Idle]

\* authenticate: the token's signature and time, nothing in the database.
Authenticated(u) == \E t \in access : t[1] = u

\* A transaction fails or the process dies; the caller gets an error.
Fail(r) ==
  /\ call[r] # Idle
  /\ Leave(r)
  /\ UNCHANGED <<account, session, code, access>>

Register(r, u) ==
  /\ account[u].status = "none"
  /\ Enter(r, [pc |-> "registering", user |-> u])
  /\ UNCHANGED <<account, session, code, access>>

\* The address is unique: of two registrations one fails here.
CommitRegister(r) ==
  LET u == call[r].user
  IN  /\ call[r].pc = "registering"
      /\ account[u].status = "none"
      /\ account' = [account EXCEPT ![u].status = "active"]
      /\ \E s \in Sessions \ SessionRows :
           /\ session' = [session EXCEPT ![s] = NewSession(u, None, 0)]
           /\ access' = access \cup {<<u, s>>}
      /\ \/ \E c \in Codes \ CodeRows :
              code' = [code EXCEPT ![c] = NewCode(u, "email_verify")]
         \/ Codes \subseteq CodeRows /\ UNCHANGED code
      /\ Leave(r)

\* The password given is the present one; a wrong one changes nothing.
Login(r, u) ==
  /\ account[u].status = "active"
  /\ Enter(r, [pc |-> "granting", user |-> u, password |-> account[u].password,
               parent |-> None])
  /\ UNCHANGED <<account, session, code, access>>

\* The new row; whoever refreshes or logs in gets the tokens.
Grant(r, rows) ==
  LET g == call[r]
  IN  /\ \E s \in Sessions \ SessionRows :
           /\ session' = [rows EXCEPT ![s] = NewSession(g.user, g.parent, g.password)]
           /\ access' = access \cup {<<g.user, s>>}
      /\ Leave(r)
      /\ UNCHANGED <<account, code>>

CommitLogin(r) ==
  /\ call[r].pc = "granting"
  /\ call[r].parent = None
  /\ Grant(r, session)

\* Mutant: the new session is written, the old one is not revoked.
CommitRefreshOnly(r) ==
  /\ call[r].pc = "granting"
  /\ call[r].parent \in SessionRows
  /\ Grant(r, session)

\* The old session is revoked by its id, whatever has become of it; if it has
\* been deleted the transaction fails.
CommitRefresh(r) ==
  /\ call[r].pc = "granting"
  /\ call[r].parent \in SessionRows
  /\ Grant(r, Revoke({call[r].parent}))

-----------------------------------------------------------------------------
(* AuthService.refresh and logout                                          *)

\* Mutant: refresh does not look at the status of the user.
RefreshAnyUser(r, s) ==
  /\ s \in SessionRows
  /\ session[s].revoked \/ ~session[s].expired
  /\ Enter(r, IF session[s].revoked THEN [pc |-> "theft", user |-> session[s].user]
              ELSE [pc |-> "granting", user |-> session[s].user,
                    password |-> session[s].password, parent |-> s])
  /\ UNCHANGED <<account, session, code, access>>

\* The row is looked up by the hash of the token: revoked, expired (refused),
\* of a suspended user (refused), or good.
Refresh(r, s) ==
  LET u == session[s].user
  IN  /\ s \in SessionRows
      /\ \/ /\ session[s].revoked
            /\ Enter(r, [pc |-> "theft", user |-> u])
         \/ /\ s \in Live
            /\ account[u].status # "suspended"
            /\ Enter(r, [pc |-> "granting", user |-> u,
                         password |-> session[s].password, parent |-> s])
      /\ UNCHANGED <<account, session, code, access>>

\* Reuse detection: revokeAllUserSessions.
RevokeAllUserSessions(r) ==
  /\ call[r].pc = "theft"
  /\ session' = Revoke(SessionsOf(call[r].user))
  /\ Leave(r)
  /\ UNCHANGED <<account, code, access>>

\* By the refresh token if one is given, else by the session in the access
\* token.  Either way a bearer of an access token calls it.
Logout(r, u, s) ==
  /\ Authenticated(u)
  /\ \/ s \in SessionRows /\ ~session[s].revoked
     \/ <<u, s>> \in access
  /\ Enter(r, [pc |-> "leaving", session |-> s])
  /\ UNCHANGED <<account, session, code, access>>

CommitLogout(r) ==
  /\ call[r].pc = "leaving"
  /\ call[r].session \in SessionRows
  /\ session' = Revoke({call[r].session})
  /\ Leave(r)
  /\ UNCHANGED <<account, code, access>>

-----------------------------------------------------------------------------
(* AuthService.forgotPassword, resetPassword, the two of e-mail verification *)

\* The transaction's first statement marks the codes that are not consumed yet.
\* Codes that others have not committed it cannot see.
Invalidate(r, u, purpose) ==
  Enter(r, [pc |-> "sending", user |-> u, purpose |-> purpose,
            stale |-> Unconsumed(u, purpose)])

ForgotPassword(r, u) ==
  /\ account[u].status = "active"
  /\ Invalidate(r, u, "password_reset")
  /\ UNCHANGED <<account, session, code, access>>

SendEmailVerification(r, u) ==
  /\ Authenticated(u)
  /\ ~account[u].verified
  /\ Invalidate(r, u, "email_verify")
  /\ UNCHANGED <<account, session, code, access>>

CommitCode(r) ==
  LET k == call[r]
  IN  /\ k.pc = "sending"
      /\ \E c \in Codes \ CodeRows :
           code' = [o \in Codes |->
                      IF o = c THEN NewCode(k.user, k.purpose)
                      ELSE IF o \in k.stale \cap CodeRows
                        THEN [code[o] EXCEPT !.consumed = TRUE]
                      ELSE code[o]]
      /\ Leave(r)
      /\ UNCHANGED <<account, session, access>>

Redeem(r, u, c, purpose) ==
  /\ FindValidVerificationCode(c, u, purpose)
  /\ Enter(r, [pc |-> "redeeming", code |-> c, user |-> u, purpose |-> purpose])

\* A suspended user may reset the password.
ResetPassword(r, u, c) ==
  /\ account[u].password < MaxResets
  /\ Redeem(r, u, c, "password_reset")
  /\ UNCHANGED <<account, session, code, access>>

\* There is nothing to do for a verified address.
ConfirmEmailVerification(r, u, c) ==
  /\ ~account[u].verified
  /\ Redeem(r, u, c, "email_verify")
  /\ UNCHANGED <<account, session, code, access>>

\* The transaction marks the code by its id, consumed or not.
Consume(c) ==
  /\ c \in CodeRows
  /\ code' = [code EXCEPT ![c].consumed = TRUE, ![c].uses = @ + 1]

\* Mutant: a reset leaves the sessions alone.
CommitResetOnly(r) ==
  /\ call[r].pc = "redeeming"
  /\ call[r].purpose = "password_reset"
  /\ Consume(call[r].code)
  /\ account' = [account EXCEPT ![call[r].user].password = @ + 1]
  /\ Leave(r)
  /\ UNCHANGED <<session, access>>

CommitReset(r) ==
  LET u == call[r].user
  IN  /\ call[r].pc = "redeeming"
      /\ call[r].purpose = "password_reset"
      /\ Consume(call[r].code)
      /\ account' = [account EXCEPT ![u].password = @ + 1]
      /\ session' = Revoke(SessionsOf(u))
      /\ Leave(r)
      /\ UNCHANGED access

CommitVerification(r) ==
  /\ call[r].pc = "redeeming"
  /\ call[r].purpose = "email_verify"
  /\ Consume(call[r].code)
  /\ account' = [account EXCEPT ![call[r].user].verified = TRUE]
  /\ Leave(r)
  /\ UNCHANGED <<session, access>>

-----------------------------------------------------------------------------
(* AdminService, UserService                                               *)

AdminCreateUser(u) ==
  /\ account[u].status = "none"
  /\ account' = [account EXCEPT ![u].status = "active", ![u].verified = TRUE]
  /\ UNCHANGED <<session, code, access, call>>

AdminSuspendUser(u) ==
  /\ account[u].status # "none"
  /\ account' = [account EXCEPT ![u].status = "suspended"]
  /\ session' = Revoke(SessionsOf(u))
  /\ UNCHANGED <<code, access, call>>

\* UserService writes the status only.
SuspendUser(u) ==
  /\ DirectSuspension
  /\ account[u].status # "none"
  /\ account' = [account EXCEPT ![u].status = "suspended"]
  /\ UNCHANGED <<session, code, access, call>>

ReactivateUser(u) ==
  /\ account[u].status # "none"
  /\ account' = [account EXCEPT ![u].status = "active"]
  /\ UNCHANGED <<session, code, access, call>>

-----------------------------------------------------------------------------
(* Time and MaintenanceProcessor                                           *)

SessionExpires(s) ==
  /\ s \in SessionRows
  /\ ~session[s].expired
  /\ session' = [session EXCEPT ![s].expired = TRUE]
  /\ UNCHANGED <<account, code, access, call>>

CodeExpires(c) ==
  /\ c \in CodeRows
  /\ ~code[c].expired
  /\ code' = [code EXCEPT ![c].expired = TRUE]
  /\ UNCHANGED <<account, session, access, call>>

\* A quarter of an hour after it was made, whatever has happened since.
AccessExpires(u, s) ==
  /\ <<u, s>> \in access
  /\ access' = access \ {<<u, s>>}
  /\ UNCHANGED <<account, session, code, call>>

\* deleteMany of the expired rows; what stems from them stems from none.
DeleteExpiredSessions ==
  LET old == {s \in SessionRows : session[s].expired}
  IN  /\ old # {}
      /\ session' = [s \in Sessions |->
           IF s \in old \/ s \notin SessionRows THEN NoRow
           ELSE [session[s] EXCEPT !.parent = IF @ \in old THEN None ELSE @]]
      /\ UNCHANGED <<account, code, access, call>>

DeleteExpiredVerifications ==
  LET old == {c \in CodeRows : code[c].expired}
  IN  /\ old # {}
      /\ code' = [c \in Codes |-> IF c \in old THEN NoRow ELSE code[c]]
      /\ UNCHANGED <<account, session, access, call>>

-----------------------------------------------------------------------------
Finish(r) ==
  \/ CommitRegister(r)
  \/ CommitLogin(r)
  \/ CommitRefresh(r)
  \/ RevokeAllUserSessions(r)
  \/ CommitLogout(r)
  \/ CommitCode(r)
  \/ CommitReset(r)
  \/ CommitVerification(r)
  \/ Fail(r)

Start(r, u) ==
  \/ Register(r, u)
  \/ Login(r, u)
  \/ \E s \in Sessions : Logout(r, u, s)
  \/ ForgotPassword(r, u)
  \/ SendEmailVerification(r, u)
  \/ \E c \in Codes : ResetPassword(r, u, c) \/ ConfirmEmailVerification(r, u, c)

Administration(u) ==
  \/ AdminCreateUser(u)
  \/ AdminSuspendUser(u)
  \/ SuspendUser(u)
  \/ ReactivateUser(u)

Time ==
  \/ \E s \in Sessions : SessionExpires(s) \/ \E u \in Users : AccessExpires(u, s)
  \/ \E c \in Codes : CodeExpires(c)

Maintenance == DeleteExpiredSessions \/ DeleteExpiredVerifications

Next ==
  \/ \E r \in Requests :
       \/ \E u \in Users : Start(r, u)
       \/ \E s \in Sessions : Refresh(r, s)
       \/ Finish(r)
  \/ \E u \in Users : Administration(u)
  \/ Time
  \/ Maintenance

Spec == Init /\ [][Next]_vars

\* Requests end (well or badly) and access tokens expire; nobody has to do
\* anything else.
Fairness ==
  /\ \A r \in Requests : WF_vars(Finish(r))
  /\ \A u \in Users, s \in Sessions : WF_vars(AccessExpires(u, s))

FairSpec == Spec /\ Fairness

-----------------------------------------------------------------------------
(* Properties                                                              *)

\* A refresh token that has been exchanged is dead for ever: no interleaving
\* of refresh, logout, reset, suspension and clean-up leaves a session live
\* together with one it was exchanged for (CommitRefresh).
ExchangedTokenIsDead ==
  \A s \in SessionRows :
    session[s].parent # None => session[session[s].parent].revoked

\* A suspended user loses access within the life of an access token, although
\* no middleware looks at the status, requests in flight still hand out
\* tokens, and one kind of suspension leaves the sessions alone.
SuspendedLosesAccess ==
  \A u \in Users :
    account[u].status = "suspended"
      ~> \/ account[u].status = "active"
         \/ \A s \in Sessions : <<u, s>> \notin access

\* "Revoke all active sessions for security": after a reset no session stems
\* from a password that is not the present one.
ResetEndsSessions ==
  \A s \in Live : session[s].password = account[session[s].user].password

\* "Invalidate previous password_reset codes": of the codes of one purpose only
\* the last one sent opens the account.
OneLiveCode ==
  \A u \in Users, purpose \in Purpose :
    \A c, d \in Unconsumed(u, purpose) : c = d

\* "Mark verification code consumed": a code changes a password once.
CodeUsedOnce == \A c \in CodeRows : code[c].uses <= 1

-----------------------------------------------------------------------------
(* What comments, pages and tests say and the code does not keep: TLC      *)
(* refutes each on a small instance.                                       *)

\* "Token rotation: Revoke old session and issue new pair": a refresh token is
\* exchanged for one other.
OneSuccessor ==
  \A s, t \in SessionRows :
    session[s].parent = session[t].parent /\ session[s].parent # None => s = t
=============================================================================
