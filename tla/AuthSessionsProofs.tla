------------------------ MODULE AuthSessionsProofs ------------------------
(***************************************************************************)
(* Proofs about AuthSessions, for any sets of users, requests, sessions    *)
(* and codes.                                                              *)
(***************************************************************************)
EXTENDS AuthSessions, TLAPS

-----------------------------------------------------------------------------
(* Type correctness                                                        *)

\* A row is never taken for the absence of one.
LEMMA RowsAreRows ==
  /\ NoRow \notin SessionRow
  /\ NoRow \notin CodeRow
<1>1. DOMAIN NoRow = {"user"}
  BY DEF NoRow
<1>2. \A r \in SessionRow : "revoked" \in DOMAIN r
  BY DEF SessionRow
<1>3. \A r \in CodeRow : "consumed" \in DOMAIN r
  BY DEF CodeRow
<1> QED
  BY <1>1, <1>2, <1>3

\* The rows of a well-typed table are typed.
LEMMA TableFacts ==
  ASSUME TypeOK
  PROVE  /\ \A s \in SessionRows : s \in Sessions /\ session[s] \in SessionRow
         /\ \A c \in CodeRows : c \in Codes /\ code[c] \in CodeRow
BY DEF TypeOK, SessionRows, CodeRows

\* What a request holds at each point of its handler.
LEMMA CallFields ==
  ASSUME NEW k \in Call
  PROVE  /\ k.pc \in {"registering", "theft"} => k.user \in Users
         /\ k.pc = "granting" => /\ k.user \in Users
                                 /\ k.password \in Nat
                                 /\ k.parent \in Sessions \cup {None}
         /\ k.pc = "leaving" => k.session \in Sessions
         /\ k.pc = "sending" => /\ k.user \in Users
                                /\ k.purpose \in Purpose
                                /\ k.stale \subseteq Codes
         /\ k.pc = "redeeming" => /\ k.code \in Codes
                                  /\ k.user \in Users
                                  /\ k.purpose \in Purpose
BY DEF Call, Idle

\* A request that enters or leaves a handler leaves the others alone.
LEMMA CallTypes ==
  ASSUME TypeOK, NEW r \in Requests
  PROVE  /\ Leave(r) => call' \in [Requests -> Call]
         /\ \A next \in Call : Enter(r, next) => call' \in [Requests -> Call]
<1>1. Idle \in Call
  BY DEF Call
<1> QED
  BY <1>1 DEF TypeOK, Leave, Enter

\* Revoking keeps the table typed, ...
LEMMA RevokeType ==
  ASSUME TypeOK, NEW rows \in SUBSET SessionRows
  PROVE  Revoke(rows) \in [Sessions -> SessionRow \cup {NoRow}]
<1>1. ASSUME NEW s \in rows
      PROVE  [session[s] EXCEPT !.revoked = TRUE] \in SessionRow
  BY TableFacts DEF SessionRow
<1> QED
  BY <1>1 DEF Revoke, TypeOK

\* ... and so do new rows.
LEMMA NewRowTypes ==
  /\ \A u \in Users, parent \in Sessions \cup {None}, n \in Nat :
       NewSession(u, parent, n) \in SessionRow
  /\ \A u \in Users, purpose \in Purpose : NewCode(u, purpose) \in CodeRow
BY DEF NewSession, SessionRow, NewCode, CodeRow

\* The handlers' constant purposes are purposes.
LEMMA Purposes == "password_reset" \in Purpose /\ "email_verify" \in Purpose
BY DEF Purpose

\* A handler that has done no more than look.
LEMMA StartType ==
  ASSUME TypeOK, NEW r \in Requests, NEW u \in Users, Start(r, u)
  PROVE  TypeOK'
<1> USE Purposes
<1>1. ASSUME NEW next \in Call, Enter(r, next),
             UNCHANGED <<account, session, code, access>>
      PROVE  TypeOK'
  BY <1>1, CallTypes DEF TypeOK
<1>2. CASE Register(r, u)
  BY <1>1, <1>2 DEF Register, Call
<1>3. CASE Login(r, u)
  <2>1. account[u].password \in Nat
    BY DEF TypeOK, Account
  <2> QED
    BY <1>1, <1>3, <2>1 DEF Login, Call
<1>4. ASSUME NEW s \in Sessions, Logout(r, u, s)
      PROVE  TypeOK'
  BY <1>1, <1>4 DEF Logout, Call
<1>5. Unconsumed(u, "password_reset") \subseteq Codes
        /\ Unconsumed(u, "email_verify") \subseteq Codes
  BY DEF Unconsumed, CodeRows
<1>6. CASE ForgotPassword(r, u)
  BY <1>1, <1>5, <1>6 DEF ForgotPassword, Invalidate, Call
<1>7. CASE SendEmailVerification(r, u)
  BY <1>1, <1>5, <1>7 DEF SendEmailVerification, Invalidate, Call
<1>8. ASSUME NEW c \in Codes, ResetPassword(r, u, c)
      PROVE  TypeOK'
  BY <1>1, <1>8 DEF ResetPassword, Redeem, Call
<1>9. ASSUME NEW c \in Codes, ConfirmEmailVerification(r, u, c)
      PROVE  TypeOK'
  BY <1>1, <1>9 DEF ConfirmEmailVerification, Redeem, Call
<1> QED
  BY <1>2, <1>3, <1>4, <1>6, <1>7, <1>8, <1>9 DEF Start

LEMMA RefreshType ==
  ASSUME TypeOK, NEW r \in Requests, NEW s \in Sessions, Refresh(r, s)
  PROVE  TypeOK'
<1>1. session[s] \in SessionRow
  BY TableFacts DEF Refresh
<1>2. session[s].user \in Users /\ session[s].password \in Nat
  BY <1>1 DEF SessionRow
<1>3. \E next \in Call : Enter(r, next)
  <2>1. [pc |-> "theft", user |-> session[s].user] \in Call
    BY <1>2 DEF Call
  <2>2. [pc |-> "granting", user |-> session[s].user,
         password |-> session[s].password, parent |-> s] \in Call
    BY <1>2 DEF Call
  <2> QED
    BY <2>1, <2>2 DEF Refresh
<1> QED
  BY <1>3, CallTypes DEF Refresh, TypeOK

\* The new session row and the tokens made for it.
LEMMA GrantType ==
  ASSUME TypeOK, NEW r \in Requests, call[r].pc = "granting",
         NEW rows \in [Sessions -> SessionRow \cup {NoRow}],
         Grant(r, rows)
  PROVE  TypeOK'
<1>1. /\ call[r].user \in Users
      /\ call[r].password \in Nat
      /\ call[r].parent \in Sessions \cup {None}
  BY CallFields DEF TypeOK
<1>2. NewSession(call[r].user, call[r].parent, call[r].password) \in SessionRow
  BY <1>1, NewRowTypes
<1> QED
  BY <1>1, <1>2, CallTypes DEF Grant, TypeOK

LEMMA FinishType ==
  ASSUME TypeOK, NEW r \in Requests, Finish(r)
  PROVE  TypeOK'
<1> USE Purposes
<1>0. call[r] \in Call
  BY DEF TypeOK
<1>1. CASE CommitRegister(r)
  <2>1. call[r].user \in Users
    BY <1>0, <1>1, CallFields DEF CommitRegister
  <2>2. account' \in [Users -> Account]
    BY <1>1, <2>1 DEF CommitRegister, TypeOK, Account
  <2>3. /\ session' \in [Sessions -> SessionRow \cup {NoRow}]
        /\ access' \in SUBSET (Users \X Sessions)
    <3>1. NewSession(call[r].user, None, 0) \in SessionRow
      BY <2>1, NewRowTypes
    <3> QED
      BY <1>1, <2>1, <3>1 DEF CommitRegister, TypeOK
  <2>4. code' \in [Codes -> CodeRow \cup {NoRow}]
    BY <1>1, <2>1, NewRowTypes DEF CommitRegister, TypeOK
  <2>5. call' \in [Requests -> Call]
    BY <1>1, CallTypes DEF CommitRegister
  <2> QED
    BY <2>2, <2>3, <2>4, <2>5 DEF TypeOK
<1>2. CASE CommitLogin(r)
  BY <1>2, GrantType DEF CommitLogin, TypeOK
<1>3. CASE CommitRefresh(r)
  BY <1>3, GrantType, RevokeType DEF CommitRefresh
<1>4. CASE RevokeAllUserSessions(r)
  <2>1. SessionsOf(call[r].user) \subseteq SessionRows
    BY DEF SessionsOf
  <2> QED
    BY <1>4, <2>1, RevokeType, CallTypes DEF RevokeAllUserSessions, TypeOK
<1>5. CASE CommitLogout(r)
  BY <1>5, RevokeType, CallTypes DEF CommitLogout, TypeOK
<1>6. CASE CommitCode(r)
  <2>1. NewCode(call[r].user, call[r].purpose) \in CodeRow
    BY <1>0, <1>6, CallFields, NewRowTypes DEF CommitCode
  <2>2. \A o \in CodeRows : [code[o] EXCEPT !.consumed = TRUE] \in CodeRow
    BY TableFacts DEF CodeRow
  <2>3. code' \in [Codes -> CodeRow \cup {NoRow}]
    BY <1>6, <2>1, <2>2 DEF CommitCode, TypeOK
  <2> QED
    BY <1>6, <2>3, CallTypes DEF CommitCode, TypeOK
<1>7. ASSUME NEW c \in Codes, Consume(c)
      PROVE  code' \in [Codes -> CodeRow \cup {NoRow}]
  <2>0. code[c] \in CodeRow /\ code[c].uses + 1 \in Nat
    BY <1>7, TableFacts DEF Consume, CodeRow
  <2>1. [code[c] EXCEPT !.consumed = TRUE, !.uses = @ + 1] \in CodeRow
    BY <2>0 DEF CodeRow
  <2>2. code' = [code EXCEPT ![c] = [code[c] EXCEPT !.consumed = TRUE, !.uses = @ + 1]]
    BY <1>7, TableFacts DEF Consume, CodeRow, TypeOK
  <2> QED
    BY <2>1, <2>2 DEF TypeOK
<1>8. CASE CommitReset(r)
  <2>1. call[r].user \in Users /\ call[r].code \in Codes
    BY <1>0, <1>8, CallFields DEF CommitReset
  <2>2. account' \in [Users -> Account]
    BY <1>8, <2>1 DEF CommitReset, TypeOK, Account
  <2>3. SessionsOf(call[r].user) \subseteq SessionRows
    BY DEF SessionsOf
  <2> QED
    BY <1>7, <1>8, <2>1, <2>2, <2>3, RevokeType, CallTypes
    DEF CommitReset, TypeOK
<1>9. CASE CommitVerification(r)
  <2>1. call[r].user \in Users /\ call[r].code \in Codes
    BY <1>0, <1>9, CallFields DEF CommitVerification
  <2>2. account' \in [Users -> Account]
    BY <1>9, <2>1 DEF CommitVerification, TypeOK, Account
  <2> QED
    BY <1>7, <1>9, <2>1, <2>2, CallTypes DEF CommitVerification, TypeOK
<1>10. CASE Fail(r)
  BY <1>10, CallTypes DEF Fail, TypeOK
<1> QED
  BY <1>1, <1>2, <1>3, <1>4, <1>5, <1>6, <1>8, <1>9, <1>10 DEF Finish

LEMMA AdministrationType ==
  ASSUME TypeOK, NEW u \in Users, Administration(u)
  PROVE  TypeOK'
<1>1. CASE AdminSuspendUser(u)
  <2>1. SessionsOf(u) \subseteq SessionRows
    BY DEF SessionsOf
  <2>2. account' \in [Users -> Account]
    BY <1>1 DEF AdminSuspendUser, TypeOK, Account
  <2> QED
    BY <1>1, <2>1, <2>2, RevokeType DEF AdminSuspendUser, TypeOK
<1>2. CASE AdminCreateUser(u) \/ SuspendUser(u) \/ ReactivateUser(u)
  <2>1. account' \in [Users -> Account]
    BY <1>2 DEF AdminCreateUser, SuspendUser, ReactivateUser, TypeOK, Account
  <2> QED
    BY <1>2, <2>1 DEF AdminCreateUser, SuspendUser, ReactivateUser, TypeOK
<1> QED
  BY <1>1, <1>2 DEF Administration

\* What a deletion leaves of the session table.
LEMMA DeletionType ==
  ASSUME TypeOK, Time \/ Maintenance
  PROVE  TypeOK'
<1>1. ASSUME NEW s \in Sessions, SessionExpires(s)
      PROVE  TypeOK'
  <2>1. [session[s] EXCEPT !.expired = TRUE] \in SessionRow
    BY <1>1, TableFacts DEF SessionExpires, SessionRow
  <2> QED
    BY <1>1, <2>1 DEF SessionExpires, TypeOK
<1>2. ASSUME NEW s \in Sessions, NEW u \in Users, AccessExpires(u, s)
      PROVE  TypeOK'
  BY <1>2 DEF AccessExpires, TypeOK
<1>3. ASSUME NEW c \in Codes, CodeExpires(c)
      PROVE  TypeOK'
  <2>1. [code[c] EXCEPT !.expired = TRUE] \in CodeRow
    BY <1>3, TableFacts DEF CodeExpires, CodeRow
  <2> QED
    BY <1>3, <2>1 DEF CodeExpires, TypeOK
<1>4. CASE DeleteExpiredSessions
  <2>1. ASSUME NEW s \in SessionRows, NEW old
        PROVE  [session[s] EXCEPT !.parent = IF @ \in old THEN None ELSE @]
                 \in SessionRow
    BY TableFacts DEF SessionRow
  <2> QED
    BY <1>4, <2>1 DEF DeleteExpiredSessions, TypeOK
<1>5. CASE DeleteExpiredVerifications
  BY <1>5 DEF DeleteExpiredVerifications, TypeOK
<1> QED
  BY <1>1, <1>2, <1>3, <1>4, <1>5 DEF Time, Maintenance

LEMMA AuthTypeStep == TypeOK /\ [Next]_vars => TypeOK'
<1> SUFFICES ASSUME TypeOK, [Next]_vars PROVE TypeOK'
  OBVIOUS
<1>1. CASE UNCHANGED vars
  BY <1>1 DEF vars, TypeOK
<1> QED
  BY <1>1, StartType, RefreshType, FinishType, AdministrationType, DeletionType
  DEF Next

LEMMA AuthTypeInit == Init => TypeOK
BY DEF Init, TypeOK, Account, Call

\* Every reachable state of accounts, sessions, codes and requests in flight is
\* well typed.
THEOREM AuthTypeCorrect == Spec => []TypeOK
BY AuthTypeInit, AuthTypeStep, PTL DEF Spec

-----------------------------------------------------------------------------
(* Token rotation                                                          *)

\* The strengthening of ExchangedTokenIsDead: the session a row stems from is
\* itself still a row.  Clean-up must not leave a parent that a later row could
\* be mistaken for.
ParentIsDead(s) ==
  \/ session[s].parent = None
  \/ /\ session[s].parent \in SessionRows
     /\ session[session[s].parent].revoked

RotationInv == \A s \in SessionRows : ParentIsDead(s)

\* Revoking forgets no row and brings none back to life.
LEMMA RevokeEffect ==
  ASSUME TypeOK, NEW rows \in SUBSET SessionRows, NEW s \in Sessions
  PROVE  /\ (Revoke(rows)[s] # NoRow) <=> (s \in SessionRows)
         /\ s \in SessionRows =>
              /\ Revoke(rows)[s].user = session[s].user
              /\ Revoke(rows)[s].parent = session[s].parent
              /\ Revoke(rows)[s].revoked = (session[s].revoked \/ s \in rows)
<1>1. ASSUME s \in rows
      PROVE  /\ Revoke(rows)[s] # NoRow
             /\ Revoke(rows)[s].user = session[s].user
             /\ Revoke(rows)[s].parent = session[s].parent
             /\ Revoke(rows)[s].revoked = TRUE
  <2>1. session[s] \in SessionRow
    BY <1>1, TableFacts
  <2>2. [session[s] EXCEPT !.revoked = TRUE] \in SessionRow
    BY <2>1 DEF SessionRow
  <2>3. Revoke(rows)[s] = [session[s] EXCEPT !.revoked = TRUE]
    BY <1>1 DEF Revoke
  <2> QED
    BY <2>1, <2>2, <2>3, RowsAreRows DEF SessionRow
<1>2. ASSUME s \notin rows
      PROVE  Revoke(rows)[s] = session[s]
  BY <1>2 DEF Revoke
<1>3. s \in SessionRows => session[s].revoked \in BOOLEAN
  BY TableFacts DEF SessionRow
<1> QED
  BY <1>1, <1>2, <1>3 DEF SessionRows

\* A step that revokes rows keeps the invariant.
LEMMA RevokeKeepsRotation ==
  ASSUME TypeOK, RotationInv, NEW rows \in SUBSET SessionRows,
         session' = Revoke(rows)
  PROVE  RotationInv'
<1>1. SessionRows' = SessionRows
  BY RevokeEffect DEF SessionRows
<1>2. ASSUME NEW s \in SessionRows
      PROVE  ParentIsDead(s)'
  <2>1. s \in Sessions /\ ParentIsDead(s)
    BY DEF RotationInv, SessionRows
  <2>2. session'[s].parent = session[s].parent
    BY <2>1, RevokeEffect
  <2>3. CASE session[s].parent \in SessionRows
    <3>1. session[s].parent \in Sessions
      BY <2>3 DEF SessionRows
    <3>2. session[session[s].parent].revoked
            => session'[session[s].parent].revoked
      BY <2>3, <3>1, RevokeEffect
    <3> QED
      BY <1>1, <2>1, <2>2, <3>2 DEF ParentIsDead
  <2> QED
    BY <2>1, <2>2, <2>3 DEF ParentIsDead
<1> QED
  BY <1>1, <1>2 DEF RotationInv

\* A new row stems from none, or from one that the same transaction revokes.
LEMMA NewRowKeepsRotation ==
  ASSUME TypeOK, RotationInv,
         NEW u \in Users, NEW n \in Nat,
         NEW parents \in SUBSET SessionRows,
         NEW parent \in parents \cup {None},
         NEW s \in Sessions \ SessionRows,
         session' = [Revoke(parents) EXCEPT ![s] = NewSession(u, parent, n)]
  PROVE  RotationInv'
<1>0. parent \in Sessions \cup {None}
  BY DEF SessionRows
<1>1. session'[s] = NewSession(u, parent, n)
  BY DEF Revoke
<1>2. \A t \in Sessions : t # s => session'[t] = Revoke(parents)[t]
  BY DEF Revoke
<1>3. NewSession(u, parent, n) # NoRow
  BY <1>0, NewRowTypes, RowsAreRows
<1>4. SessionRows' = SessionRows \cup {s}
  BY <1>1, <1>2, <1>3, RevokeEffect DEF SessionRows
<1>5. ASSUME NEW t \in SessionRows
      PROVE  ParentIsDead(t)'
  <2>1. t \in Sessions /\ t # s /\ ParentIsDead(t)
    BY DEF RotationInv, SessionRows
  <2>2. session'[t].parent = session[t].parent
    BY <1>2, <2>1, RevokeEffect
  <2>3. CASE session[t].parent \in SessionRows
    <3>1. session[t].parent \in Sessions /\ session[t].parent # s
      BY <2>3 DEF SessionRows
    <3>2. session[session[t].parent].revoked
            => session'[session[t].parent].revoked
      <4>1. session'[session[t].parent] = Revoke(parents)[session[t].parent]
        BY <1>2, <3>1
      <4>2. Revoke(parents)[session[t].parent].revoked
              = (session[session[t].parent].revoked \/ session[t].parent \in parents)
        BY <2>3, <3>1, RevokeEffect
      <4> QED
        BY <4>1, <4>2, Zenon
    <3> QED
      BY <1>4, <2>1, <2>2, <3>2 DEF ParentIsDead
  <2> QED
    BY <2>1, <2>2, <2>3 DEF ParentIsDead
<1>6. ParentIsDead(s)'
  <2>1. session'[s].parent = parent
    BY <1>1 DEF NewSession
  <2>2. CASE parent \in parents
    <3>1. parent \in Sessions /\ parent # s /\ parent \in SessionRows
      BY <2>2 DEF SessionRows
    <3>2. session'[parent].revoked
      BY <1>2, <2>2, <3>1, RevokeEffect
    <3> QED
      BY <1>4, <2>1, <3>1, <3>2 DEF ParentIsDead
  <2> QED
    BY <2>1, <2>2 DEF ParentIsDead
<1> QED
  BY <1>4, <1>5, <1>6 DEF RotationInv

\* Clean-up cuts the rows that remain off from those it deletes.
LEMMA DeletionKeepsRotation ==
  ASSUME TypeOK, RotationInv, DeleteExpiredSessions
  PROVE  RotationInv'
<1> DEFINE old == {s \in SessionRows : session[s].expired}
           kept(s) == [session[s] EXCEPT !.parent = IF @ \in old THEN None ELSE @]
<1>1. \A s \in SessionRows :
        /\ kept(s) # NoRow
        /\ kept(s).parent = IF session[s].parent \in old THEN None
                            ELSE session[s].parent
        /\ kept(s).revoked = session[s].revoked
  <2>1. \A s \in SessionRows : session[s] \in SessionRow
    BY TableFacts
  <2>2. \A s \in SessionRows : kept(s) \in SessionRow
    BY <2>1 DEF SessionRow
  <2> QED
    BY <2>1, <2>2, RowsAreRows DEF SessionRow
<1>2. \A s \in Sessions : session'[s] = IF s \in old \/ s \notin SessionRows
                                          THEN NoRow ELSE kept(s)
  BY DEF DeleteExpiredSessions
<1> HIDE DEF kept
<1>3. SessionRows' = SessionRows \ old
  BY <1>1, <1>2 DEF SessionRows
<1> HIDE DEF old
<1>4. ASSUME NEW s \in SessionRows \ old
      PROVE  ParentIsDead(s)'
  <2>1. s \in Sessions /\ ParentIsDead(s)
    BY DEF RotationInv, SessionRows
  <2>2. session'[s].parent = IF session[s].parent \in old THEN None
                             ELSE session[s].parent
    BY <1>1, <1>2, <2>1
  <2>3. CASE session[s].parent \in SessionRows \ old
    <3>1. session[s].parent \in Sessions
      BY <2>3 DEF SessionRows
    <3>2. session'[session[s].parent].revoked = session[session[s].parent].revoked
      BY <1>1, <1>2, <2>3, <3>1
    <3> QED
      BY <1>3, <2>1, <2>2, <2>3, <3>2 DEF ParentIsDead
  <2> QED
    BY <2>1, <2>2, <2>3 DEF ParentIsDead
<1> QED
  BY <1>3, <1>4 DEF RotationInv

\* No other step of a handler, of time or of clean-up writes a session row
\* except to revoke or to expire it.
LEMMA RotationStep == TypeOK /\ RotationInv /\ [Next]_vars => RotationInv'
<1> SUFFICES ASSUME TypeOK, RotationInv, [Next]_vars PROVE RotationInv'
  OBVIOUS
<1>1. CASE UNCHANGED session
  BY <1>1 DEF RotationInv, ParentIsDead, SessionRows
<1>2. ASSUME NEW r \in Requests, CommitRegister(r)
      PROVE  RotationInv'
  <2>1. call[r].user \in Users
    BY <1>2, CallFields DEF CommitRegister, TypeOK
  <2>2. session = Revoke({})
    BY DEF Revoke, TypeOK
  <2> QED
    BY <1>2, <2>1, <2>2, NewRowKeepsRotation DEF CommitRegister
<1>3. ASSUME NEW r \in Requests, CommitLogin(r)
      PROVE  RotationInv'
  <2>1. call[r].user \in Users /\ call[r].password \in Nat
    BY <1>3, CallFields DEF CommitLogin, TypeOK
  <2>2. session = Revoke({})
    BY DEF Revoke, TypeOK
  <2> QED
    BY <1>3, <2>1, <2>2, NewRowKeepsRotation DEF CommitLogin, Grant
<1>4. ASSUME NEW r \in Requests, CommitRefresh(r)
      PROVE  RotationInv'
  <2>1. call[r].user \in Users /\ call[r].password \in Nat
    BY <1>4, CallFields DEF CommitRefresh, TypeOK
  <2>2. /\ {call[r].parent} \in SUBSET SessionRows
        /\ call[r].parent \in {call[r].parent} \cup {None}
    BY <1>4 DEF CommitRefresh
  <2>3. PICK s \in Sessions \ SessionRows :
          session' = [Revoke({call[r].parent}) EXCEPT
                        ![s] = NewSession(call[r].user, call[r].parent, call[r].password)]
    BY <1>4 DEF CommitRefresh, Grant
  <2> QED
    BY <2>1, <2>2, <2>3, NewRowKeepsRotation
<1>5. \A u : SessionsOf(u) \subseteq SessionRows
  BY DEF SessionsOf
<1>6. ASSUME NEW r \in Requests,
             RevokeAllUserSessions(r) \/ CommitLogout(r) \/ CommitReset(r)
      PROVE  RotationInv'
  BY <1>5, <1>6, RevokeKeepsRotation
  DEF RevokeAllUserSessions, CommitLogout, CommitReset
<1>7. ASSUME NEW u \in Users, AdminSuspendUser(u)
      PROVE  RotationInv'
  BY <1>5, <1>7, RevokeKeepsRotation DEF AdminSuspendUser
<1>8. ASSUME NEW s \in Sessions, SessionExpires(s)
      PROVE  RotationInv'
  <2>1. [session[s] EXCEPT !.expired = TRUE] # NoRow
    <3>1. [session[s] EXCEPT !.expired = TRUE] \in SessionRow
      BY <1>8, TableFacts DEF SessionExpires, SessionRow
    <3> QED
      BY <3>1, RowsAreRows
  <2>2. /\ SessionRows' = SessionRows
        /\ \A t \in SessionRows : /\ session'[t].parent = session[t].parent
                                  /\ session'[t].revoked = session[t].revoked
    BY <1>8, <2>1, TableFacts DEF SessionExpires, SessionRows, SessionRow, TypeOK
  <2> QED
    BY <2>2 DEF RotationInv, ParentIsDead
<1>9. CASE DeleteExpiredSessions
  BY <1>9, DeletionKeepsRotation
<1>10. ASSUME NEW r \in Requests,
              \/ \E u \in Users : Start(r, u)
              \/ \E s \in Sessions : Refresh(r, s)
              \/ CommitCode(r) \/ CommitVerification(r) \/ Fail(r)
       PROVE  UNCHANGED session
  BY <1>10
  DEF Start, Register, Login, Logout, ForgotPassword, SendEmailVerification,
      ResetPassword, ConfirmEmailVerification, Refresh, CommitCode,
      CommitVerification, Fail
<1>11. ASSUME NEW u \in Users,
              AdminCreateUser(u) \/ SuspendUser(u) \/ ReactivateUser(u)
       PROVE  UNCHANGED session
  BY <1>11 DEF AdminCreateUser, SuspendUser, ReactivateUser
<1>12. ASSUME \/ \E s \in Sessions, u \in Users : AccessExpires(u, s)
              \/ \E c \in Codes : CodeExpires(c)
              \/ DeleteExpiredVerifications
              \/ UNCHANGED vars
       PROVE  UNCHANGED session
  BY <1>12 DEF AccessExpires, CodeExpires, DeleteExpiredVerifications, vars
<1> QED
  BY <1>1, <1>2, <1>3, <1>4, <1>6, <1>7, <1>8, <1>9, <1>10, <1>11, <1>12
  DEF Next, Finish, Administration, Time, Maintenance

\* A refresh token that has been exchanged is dead for ever, however refresh,
\* logout, reset, suspension and clean-up interleave (ExchangedTokenIsDead).
THEOREM ExchangedIsDead == Spec => []ExchangedTokenIsDead
<1>1. Init => RotationInv
  BY DEF Init, RotationInv, SessionRows
<1>2. RotationInv => ExchangedTokenIsDead
  BY DEF RotationInv, ParentIsDead, ExchangedTokenIsDead
<1> QED
  BY <1>1, <1>2, RotationStep, AuthTypeCorrect, PTL DEF Spec

-----------------------------------------------------------------------------
(* Resets, when no request overlaps another                                *)

\* With two requests a login that is checked before a reset may be committed
\* after it, and two requests may use one code.
OneAtATime == \A q, r \in Requests : q = r

Registered(u) == account[u].status # "none"

\* What rows and tokens are about is registered; a free address has had no
\* password.
OnlyOfRegistered ==
  /\ \A u \in Users : ~Registered(u) => account[u].password = 0
  /\ \A s \in SessionRows : Registered(session[s].user)
  /\ \A c \in CodeRows : Registered(code[c].user)
  /\ \A t \in access : Registered(t[1])

\* Codes that are not consumed are unused, and the only ones of their kind.
CodesAreSingle ==
  /\ \A c \in CodeRows :
       code[c].uses <= 1 /\ (~code[c].consumed => code[c].uses = 0)
  /\ \A c, d \in CodeRows :
       /\ ~code[c].consumed /\ ~code[d].consumed
       /\ code[c].user = code[d].user
       /\ code[c].purpose = code[d].purpose
       => c = d

\* What a request has read is still so when it writes.
StillSo(r) ==
  LET k == call[r]
  IN  /\ k.pc \in {"granting", "sending"} => Registered(k.user)
      /\ k.pc = "granting" => k.password = account[k.user].password
      /\ k.pc = "sending" => Unconsumed(k.user, k.purpose) \subseteq k.stale
      /\ k.pc = "redeeming" /\ k.code \in CodeRows =>
           /\ code[k.code].user = k.user
           /\ code[k.code].purpose = k.purpose
           /\ ~code[k.code].consumed

ResetInv ==
  /\ OnlyOfRegistered
  /\ CodesAreSingle
  /\ ResetEndsSessions
  /\ \A r \in Requests : StillSo(r)

\* A request that has only looked has seen what is so.
LEMMA LookingSeesWhatIs ==
  ASSUME TypeOK, OneAtATime, ResetInv, NEW r \in Requests,
         \/ \E u \in Users : Start(r, u)
         \/ \E s \in Sessions : Refresh(r, s)
  PROVE  ResetInv'
<1>1. UNCHANGED <<account, session, code, access>>
  BY DEF Start, Register, Login, Logout, ForgotPassword, SendEmailVerification,
         ResetPassword, ConfirmEmailVerification, Refresh
<1>2. OnlyOfRegistered' /\ CodesAreSingle' /\ ResetEndsSessions'
  BY <1>1 DEF ResetInv, OnlyOfRegistered, CodesAreSingle, ResetEndsSessions,
     Registered, SessionRows, CodeRows, Live
<1>3. ASSUME NEW next, Enter(r, next)
      PROVE  call'[r] = next
  BY <1>3 DEF Enter, TypeOK
<1>4. StillSo(r)'
  <2> USE <1>1, <1>3 DEF StillSo, Registered, CodeRows, Unconsumed
  <2>1. ASSUME NEW u \in Users, Register(r, u)
        PROVE  StillSo(r)'
    BY <2>1 DEF Register
  <2>2. ASSUME NEW u \in Users, Login(r, u)
        PROVE  StillSo(r)'
    BY <2>2 DEF Login
  <2>3. ASSUME NEW u \in Users, NEW s \in Sessions, Logout(r, u, s)
        PROVE  StillSo(r)'
    BY <2>3 DEF Logout
  <2>4. ASSUME NEW u \in Users, ForgotPassword(r, u)
        PROVE  StillSo(r)'
    BY <2>4 DEF ForgotPassword, Invalidate
  <2>5. ASSUME NEW u \in Users, SendEmailVerification(r, u)
        PROVE  StillSo(r)'
    <3>1. Registered(u)
      BY <2>5 DEF SendEmailVerification, Authenticated, ResetInv, OnlyOfRegistered
    <3> QED
      BY <2>5, <3>1 DEF SendEmailVerification, Invalidate
  <2>6. ASSUME NEW u \in Users, NEW c \in Codes,
               ResetPassword(r, u, c) \/ ConfirmEmailVerification(r, u, c)
        PROVE  StillSo(r)'
    BY <2>6 DEF ResetPassword, ConfirmEmailVerification, Redeem,
       FindValidVerificationCode
  <2>7. ASSUME NEW s \in Sessions, Refresh(r, s)
        PROVE  StillSo(r)'
    <3>1. /\ Registered(session[s].user)
          /\ s \in Live => session[s].password = account[session[s].user].password
      BY <2>7 DEF Refresh, ResetInv, OnlyOfRegistered, ResetEndsSessions
    <3> QED
      BY <2>7, <3>1 DEF Refresh
  <2> QED
    BY <2>1, <2>2, <2>3, <2>4, <2>5, <2>6, <2>7 DEF Start
<1> QED
  BY <1>2, <1>4 DEF ResetInv, OneAtATime

\* What revoking leaves of a row.
LEMMA RevokedRows ==
  ASSUME TypeOK, NEW rows \in SUBSET SessionRows, session' = Revoke(rows)
  PROVE  /\ SessionRows' = SessionRows
         /\ Live' = Live \ rows
         /\ \A s \in SessionRows : /\ session'[s].user = session[s].user
                                   /\ session'[s].password = session[s].password
<1>1. ASSUME NEW s \in SessionRows
      PROVE  /\ session'[s].user = session[s].user
             /\ session'[s].password = session[s].password
             /\ session'[s].expired = session[s].expired
             /\ session'[s].revoked = (session[s].revoked \/ s \in rows)
  <2>1. s \in Sessions /\ session[s] \in SessionRow
    BY TableFacts
  <2>2. session'[s] = IF s \in rows THEN [session[s] EXCEPT !.revoked = TRUE]
                      ELSE session[s]
    BY <2>1 DEF Revoke
  <2> QED
    BY <2>1, <2>2 DEF SessionRow
<1>2. SessionRows' = SessionRows
  BY RevokeEffect DEF SessionRows
<1> QED
  BY <1>1, <1>2 DEF Live

\* What a new row adds to what is left.
LEMMA AddedRow ==
  ASSUME TypeOK, NEW rows \in SUBSET SessionRows,
         NEW u \in Users, NEW parent \in Sessions \cup {None}, NEW n \in Nat,
         NEW s \in Sessions \ SessionRows,
         session'[s] = NewSession(u, parent, n),
         \A t \in Sessions : t # s => session'[t] = Revoke(rows)[t]
  PROVE  /\ SessionRows' = SessionRows \cup {s}
         /\ Live' \subseteq Live \cup {s}
         /\ \A t \in SessionRows : /\ session'[t].user = session[t].user
                                   /\ session'[t].password = session[t].password
         /\ session'[s].user = u /\ session'[s].password = n
<1>3. NewSession(u, parent, n) # NoRow
  BY NewRowTypes, RowsAreRows
<1>4. ASSUME NEW t \in SessionRows
      PROVE  /\ session'[t].user = session[t].user
             /\ session'[t].password = session[t].password
             /\ session'[t].expired = session[t].expired
             /\ ~session'[t].revoked => ~session[t].revoked
  <2>1. t \in Sessions /\ session[t] \in SessionRow /\ t # s
    BY TableFacts
  <2>2. session'[t] = IF t \in rows THEN [session[t] EXCEPT !.revoked = TRUE]
                      ELSE session[t]
    BY <2>1 DEF Revoke
  <2> QED
    BY <2>1, <2>2 DEF SessionRow
<1>5. SessionRows' = SessionRows \cup {s}
  BY <1>3, RevokeEffect DEF SessionRows
<1>6. ASSUME NEW t \in Live', t # s
      PROVE  t \in Live
  <2>1. t \in SessionRows /\ ~session'[t].revoked /\ ~session'[t].expired
    BY <1>5, <1>6 DEF Live
  <2> QED
    BY <1>4, <2>1 DEF Live
<1>7. Live' \subseteq Live \cup {s}
  BY <1>6
<1>8. session'[s].user = u /\ session'[s].password = n
  BY DEF NewSession
<1> QED
  BY <1>4, <1>5, <1>7, <1>8

\* Of a user all of whose sessions are revoked, none is live; the rest stays.
LEMMA RevokeAllEffect ==
  ASSUME TypeOK, NEW u \in Users, session' = Revoke(SessionsOf(u))
  PROVE  /\ SessionRows' = SessionRows
         /\ \A s \in SessionRows : /\ session'[s].user = session[s].user
                                   /\ session'[s].password = session[s].password
         /\ \A s \in Live' : s \in Live /\ session[s].user # u
<1>1. SessionsOf(u) \in SUBSET SessionRows
  BY DEF SessionsOf
<1>2. Live' = Live \ SessionsOf(u)
  BY <1>1, RevokedRows
<1> QED
  BY <1>1, <1>2, RevokedRows DEF SessionsOf, Live

\* What consuming a code does to the table.
LEMMA ConsumeEffect ==
  ASSUME TypeOK, NEW c, Consume(c)
  PROVE  /\ c \in CodeRows
         /\ CodeRows' = CodeRows
         /\ \A d \in CodeRows : d # c => code'[d] = code[d]
         /\ code'[c].user = code[c].user
         /\ code'[c].purpose = code[c].purpose
         /\ code'[c].consumed
         /\ code'[c].uses = code[c].uses + 1
<1>1. c \in Codes /\ code[c] \in CodeRow
  BY TableFacts DEF Consume
<1>2. code[c].uses + 1 \in Nat
  BY <1>1 DEF CodeRow
<1>3. code'[c] = [code[c] EXCEPT !.consumed = TRUE, !.uses = @ + 1]
  BY <1>1 DEF Consume, TypeOK, CodeRow
<1>4. code'[c] \in CodeRow
  BY <1>1, <1>2, <1>3 DEF CodeRow
<1>5. \A d \in Codes : d # c => code'[d] = code[d]
  BY DEF Consume, TypeOK
<1>6. CodeRows' = CodeRows
  BY <1>1, <1>4, <1>5, RowsAreRows DEF CodeRows, Consume
<1>7. \A d \in CodeRows : d \in Codes
  BY DEF CodeRows
<1> QED
  BY <1>1, <1>3, <1>5, <1>6, <1>7 DEF CodeRow, Consume

\* A request that ends holds nothing.
LEMMA LeavingHoldsNothing ==
  ASSUME TypeOK, OneAtATime, NEW r \in Requests, Leave(r)
  PROVE  \A q \in Requests : StillSo(q)'
<1>1. \A q \in Requests : call'[q] = Idle
  BY DEF OneAtATime, Leave, TypeOK
<1> QED
  BY <1>1 DEF StillSo, Idle

\* Where sessions, accounts and tokens stay, a step of the codes decides.
LEMMA RegistrationAndSessionsStay ==
  ASSUME TypeOK, ResetInv, UNCHANGED <<account, session, access>>,
         \A c \in CodeRows' : Registered(code'[c].user)
  PROVE  OnlyOfRegistered' /\ ResetEndsSessions'
BY DEF ResetInv, OnlyOfRegistered, ResetEndsSessions, Registered, SessionRows, Live

\* A registration that has succeeded.
LEMMA RegistrationKeeps ==
  ASSUME TypeOK, ResetInv, NEW r \in Requests, CommitRegister(r)
  PROVE  OnlyOfRegistered' /\ CodesAreSingle' /\ ResetEndsSessions'
<1>0. PICK u \in Users : u = call[r].user
  BY CallFields DEF CommitRegister, TypeOK
<1>1. u \in Users /\ ~Registered(u) /\ account[u].password = 0
  BY <1>0 DEF CommitRegister, TypeOK, Registered, ResetInv, OnlyOfRegistered
<1>2. /\ \A v \in Users : account'[v].password = account[v].password
      /\ \A v \in Users : v # u => account'[v] = account[v]
      /\ account'[u].status # "none"
      /\ \A v \in Users : Registered(v) => account'[v].status # "none"
  BY <1>0, <1>1 DEF CommitRegister, TypeOK, Account, Registered
<1>3. PICK s \in Sessions \ SessionRows :
        /\ session' = [session EXCEPT ![s] = NewSession(u, None, 0)]
        /\ access' = access \cup {<<u, s>>}
  BY <1>0 DEF CommitRegister
<1>4. /\ SessionRows' = SessionRows \cup {s}
      /\ Live' \subseteq Live \cup {s}
      /\ \A t \in SessionRows : /\ session'[t].user = session[t].user
                                /\ session'[t].password = session[t].password
      /\ session'[s].user = u /\ session'[s].password = 0
  <2>1. PICK rows \in SUBSET SessionRows, parent \in Sessions \cup {None}, n \in Nat :
          rows = {} /\ parent = None /\ n = 0
    OBVIOUS
  <2>2. /\ session'[s] = NewSession(u, parent, n)
        /\ \A t \in Sessions : t # s => session'[t] = Revoke(rows)[t]
    BY <1>3, <2>1 DEF TypeOK, Revoke
  <2> QED
    BY <1>1, <1>3, <2>1, <2>2, AddedRow
<1>5. \/ UNCHANGED code
      \/ \E c \in Codes \ CodeRows : code' = [code EXCEPT ![c] = NewCode(u, "email_verify")]
  BY <1>0 DEF CommitRegister
<1>6. ASSUME NEW c \in Codes \ CodeRows,
             code' = [code EXCEPT ![c] = NewCode(u, "email_verify")]
      PROVE  /\ CodeRows' = CodeRows \cup {c}
             /\ \A d \in CodeRows : code'[d] = code[d]
             /\ code'[c] = NewCode(u, "email_verify")
  <2>1. NewCode(u, "email_verify") # NoRow
    BY <1>1, NewRowTypes, Purposes, RowsAreRows
  <2> QED
    BY <1>6, <2>1 DEF CodeRows, TypeOK
<1>7. OnlyOfRegistered'
  <2>1. \A c \in CodeRows' : account'[code'[c].user].status # "none"
    <3>1. CASE UNCHANGED code
      BY <1>2, <3>1, TableFacts DEF CodeRows, CodeRow, ResetInv, OnlyOfRegistered
    <3>2. ASSUME NEW c \in Codes \ CodeRows,
                 code' = [code EXCEPT ![c] = NewCode(u, "email_verify")]
          PROVE  \A d \in CodeRows' : account'[code'[d].user].status # "none"
      <4>1. /\ CodeRows' = CodeRows \cup {c}
            /\ \A d \in CodeRows : code'[d] = code[d]
            /\ code'[c].user = u
        <5>1. /\ CodeRows' = CodeRows \cup {c}
              /\ \A d \in CodeRows : code'[d] = code[d]
              /\ code'[c] = NewCode(u, "email_verify")
          BY <1>6, <3>2
        <5> QED
          BY <5>1 DEF NewCode
      <4>2. \A d \in CodeRows : code[d].user \in Users /\ Registered(code[d].user)
        BY TableFacts DEF CodeRow, ResetInv, OnlyOfRegistered
      <4> QED
        BY <1>2, <4>1, <4>2
    <3> QED
      BY <1>5, <3>1, <3>2
  <2>2. \A t \in SessionRows' : account'[session'[t].user].status # "none"
    BY <1>2, <1>4, TableFacts DEF SessionRow, ResetInv, OnlyOfRegistered
  <2>3. \A t \in access' : account'[t[1]].status # "none"
    BY <1>1, <1>2, <1>3 DEF TypeOK, ResetInv, OnlyOfRegistered
  <2>4. \A v \in Users : account'[v].password = 0 \/ account'[v].status # "none"
    BY <1>2 DEF ResetInv, OnlyOfRegistered
  <2> QED
    BY <2>1, <2>2, <2>3, <2>4 DEF OnlyOfRegistered, Registered
<1>8. CodesAreSingle'
  <2>1. CASE UNCHANGED code
    BY <2>1 DEF CodesAreSingle, CodeRows, ResetInv
  <2>2. ASSUME NEW c \in Codes \ CodeRows,
               code' = [code EXCEPT ![c] = NewCode(u, "email_verify")]
        PROVE  CodesAreSingle'
    <3>1. \A d \in CodeRows : code[d].user # u
      BY <1>1 DEF ResetInv, OnlyOfRegistered
    <3>2. /\ CodeRows' = CodeRows \cup {c}
          /\ \A d \in CodeRows : code'[d] = code[d]
          /\ code'[c].user = u /\ ~code'[c].consumed /\ code'[c].uses = 0
      <4>1. /\ CodeRows' = CodeRows \cup {c}
            /\ \A d \in CodeRows : code'[d] = code[d]
            /\ code'[c] = NewCode(u, "email_verify")
        BY <1>6, <2>2
      <4> QED
        BY <4>1 DEF NewCode
    <3>3. \A d \in CodeRows' :
            code'[d].uses <= 1 /\ (~code'[d].consumed => code'[d].uses = 0)
      BY <3>2 DEF CodesAreSingle, ResetInv
    <3>4. ASSUME NEW d \in CodeRows', NEW e \in CodeRows',
                 ~code'[d].consumed /\ ~code'[e].consumed,
                 code'[d].user = code'[e].user, code'[d].purpose = code'[e].purpose
          PROVE  d = e
      BY <3>1, <3>2, <3>4 DEF CodesAreSingle, ResetInv
    <3> QED
      BY <3>3, <3>4 DEF CodesAreSingle
  <2> QED
    BY <1>5, <2>1, <2>2
<1>9. ResetEndsSessions'
  <2>1. ASSUME NEW t \in Live'
        PROVE  session'[t].password = account'[session'[t].user].password
    <3>1. CASE t = s
      BY <1>1, <1>2, <1>4, <3>1
    <3>2. CASE t # s
      <4>1. t \in Live /\ t \in SessionRows
        BY <1>4, <3>2 DEF Live
      <4>2. session[t].user \in Users
        BY <4>1, TableFacts DEF SessionRow
      <4> QED
        BY <1>2, <1>4, <4>1, <4>2 DEF ResetInv, ResetEndsSessions
    <3> QED
      BY <3>1, <3>2
  <2> QED
    BY <2>1 DEF ResetEndsSessions
<1> QED
  BY <1>7, <1>8, <1>9

\* A login or a refresh that has succeeded.
LEMMA GrantKeeps ==
  ASSUME TypeOK, ResetInv, NEW r \in Requests, CommitLogin(r) \/ CommitRefresh(r)
  PROVE  OnlyOfRegistered' /\ CodesAreSingle' /\ ResetEndsSessions'
<1>0. PICK u \in Users : u = call[r].user
  BY CallFields DEF CommitLogin, CommitRefresh, TypeOK
<1>1. /\ call[r].pc = "granting"
      /\ call[r].password \in Nat /\ call[r].parent \in Sessions \cup {None}
  BY CallFields DEF CommitLogin, CommitRefresh, TypeOK
<1>2. Registered(u) /\ call[r].password = account[u].password
  BY <1>0, <1>1 DEF ResetInv, StillSo
<1>3. UNCHANGED <<account, code>>
  BY DEF CommitLogin, CommitRefresh, Grant
<1>4. PICK rows \in SUBSET SessionRows, s \in Sessions \ SessionRows :
        /\ session' = [Revoke(rows) EXCEPT
                         ![s] = NewSession(u, call[r].parent, call[r].password)]
        /\ access' = access \cup {<<u, s>>}
  <2>1. CASE CommitLogin(r)
    <3>1. session = Revoke({})
      BY DEF Revoke, TypeOK
    <3>2. {} \in SUBSET SessionRows
      OBVIOUS
    <3> QED
      BY <1>0, <2>1, <3>1, <3>2 DEF CommitLogin, Grant
  <2>2. CASE CommitRefresh(r)
    <3>1. {call[r].parent} \in SUBSET SessionRows
      BY <2>2 DEF CommitRefresh
    <3> QED
      BY <1>0, <2>2, <3>1 DEF CommitRefresh, Grant
  <2> QED
    BY <2>1, <2>2
<1>5. /\ SessionRows' = SessionRows \cup {s}
      /\ Live' \subseteq Live \cup {s}
      /\ \A t \in SessionRows : /\ session'[t].user = session[t].user
                                /\ session'[t].password = session[t].password
      /\ session'[s].user = u /\ session'[s].password = call[r].password
  <2>1. PICK parent \in Sessions \cup {None}, n \in Nat :
          parent = call[r].parent /\ n = call[r].password
    BY <1>1
  <2>2. /\ session'[s] = NewSession(u, parent, n)
        /\ \A t \in Sessions : t # s => session'[t] = Revoke(rows)[t]
    BY <1>4, <2>1 DEF Revoke
  <2> QED
    <3>1. u \in Users /\ s \in Sessions \ SessionRows /\ rows \in SUBSET SessionRows
      BY <1>0, <1>4
    <3>2. /\ SessionRows' = SessionRows \cup {s}
          /\ Live' \subseteq Live \cup {s}
          /\ \A t \in SessionRows : /\ session'[t].user = session[t].user
                                    /\ session'[t].password = session[t].password
          /\ session'[s].user = u /\ session'[s].password = n
      BY <2>1, <2>2, <3>1, AddedRow
    <3> QED
      BY <2>1, <3>2
<1>6. OnlyOfRegistered'
  <2>1. \A t \in access' : Registered(t[1])
    BY <1>2, <1>4 DEF ResetInv, OnlyOfRegistered
  <2>2. \A t \in SessionRows' : Registered(session'[t].user)
    BY <1>2, <1>5 DEF ResetInv, OnlyOfRegistered
  <2> QED
    BY <1>3, <2>1, <2>2 DEF ResetInv, OnlyOfRegistered, Registered, CodeRows
<1>7. CodesAreSingle'
  BY <1>3 DEF CodesAreSingle, CodeRows, ResetInv
<1>8. ResetEndsSessions'
  <2>1. ASSUME NEW t \in Live'
        PROVE  session'[t].password = account[session'[t].user].password
    <3>1. CASE t = s
      BY <1>2, <1>5, <3>1
    <3>2. CASE t # s
      <4>1. t \in Live /\ t \in SessionRows
        BY <1>5, <3>2 DEF Live
      <4> QED
        BY <1>5, <4>1 DEF ResetInv, ResetEndsSessions
    <3> QED
      BY <3>1, <3>2
  <2> QED
    BY <1>3, <2>1 DEF ResetEndsSessions
<1> QED
  BY <1>6, <1>7, <1>8

\* A code that is sent takes the place of those before it.
LEMMA SendingKeeps ==
  ASSUME TypeOK, ResetInv, NEW r \in Requests, CommitCode(r)
  PROVE  OnlyOfRegistered' /\ CodesAreSingle' /\ ResetEndsSessions'
<1>0. PICK u \in Users, purpose \in Purpose :
        u = call[r].user /\ purpose = call[r].purpose
  BY CallFields DEF CommitCode, TypeOK
<1>1. Registered(u) /\ Unconsumed(u, purpose) \subseteq call[r].stale
  BY <1>0 DEF CommitCode, ResetInv, StillSo
<1>2. PICK c \in Codes \ CodeRows :
        code' = [o \in Codes |->
                   IF o = c THEN NewCode(u, purpose)
                   ELSE IF o \in call[r].stale \cap CodeRows
                     THEN [code[o] EXCEPT !.consumed = TRUE]
                   ELSE code[o]]
  BY <1>0 DEF CommitCode
<1>3. code'[c] = NewCode(u, purpose) /\ code'[c] # NoRow
  BY <1>0, <1>2, NewRowTypes, RowsAreRows
<1>4. ASSUME NEW d \in CodeRows
      PROVE  /\ d # c
             /\ code'[d] # NoRow
             /\ code'[d].user = code[d].user
             /\ code'[d].purpose = code[d].purpose
             /\ code'[d].uses = code[d].uses
             /\ code'[d].consumed = (code[d].consumed \/ d \in call[r].stale)
  <2>1. d \in Codes /\ d # c /\ code[d] \in CodeRow
    BY TableFacts
  <2>2. code'[d] = IF d \in call[r].stale THEN [code[d] EXCEPT !.consumed = TRUE]
                   ELSE code[d]
    BY <1>2, <2>1
  <2>3. code'[d] \in CodeRow
    BY <2>1, <2>2 DEF CodeRow
  <2> QED
    BY <2>1, <2>2, <2>3, RowsAreRows DEF CodeRow
<1>5. CodeRows' = CodeRows \cup {c}
  BY <1>2, <1>3, <1>4 DEF CodeRows
<1>6. UNCHANGED <<account, session, access>>
  BY DEF CommitCode
<1>7. code'[c].user = u /\ code'[c].purpose = purpose
        /\ ~code'[c].consumed /\ code'[c].uses = 0
  BY <1>3 DEF NewCode
<1>8. \A d \in CodeRows' : Registered(code'[d].user)
  BY <1>1, <1>4, <1>5, <1>7 DEF ResetInv, OnlyOfRegistered
<1>9. CodesAreSingle'
  <2>1. ASSUME NEW d \in CodeRows'
        PROVE  code'[d].uses <= 1 /\ (~code'[d].consumed => code'[d].uses = 0)
    <3>1. CASE d = c
      BY <1>7, <3>1
    <3>2. CASE d \in CodeRows
      <4>1. code[d].uses <= 1 /\ (~code[d].consumed => code[d].uses = 0)
        BY <3>2 DEF ResetInv, CodesAreSingle
      <4> QED
        BY <1>4, <3>2, <4>1
    <3> QED
      BY <1>5, <3>1, <3>2
  <2>2. \A d \in CodeRows :
          code'[d].user = u /\ code'[d].purpose = purpose => code'[d].consumed
    BY <1>1, <1>4 DEF Unconsumed
  <2>3. ASSUME NEW d \in CodeRows', NEW e \in CodeRows',
               ~code'[d].consumed /\ ~code'[e].consumed,
               code'[d].user = code'[e].user, code'[d].purpose = code'[e].purpose
        PROVE  d = e
    BY <1>4, <1>5, <1>7, <2>2, <2>3 DEF ResetInv, CodesAreSingle
  <2> QED
    BY <2>1, <2>3 DEF CodesAreSingle
<1> QED
  BY <1>6, <1>8, <1>9, RegistrationAndSessionsStay

\* A code that is used is used for the first time.
LEMMA UseKeepsCodesSingle ==
  ASSUME TypeOK, ResetInv, NEW r \in Requests, call[r].pc = "redeeming",
         Consume(call[r].code)
  PROVE  CodesAreSingle'
<1> DEFINE c == call[r].code
<1>1. c \in CodeRows /\ code[c].uses = 0
  <2>1. c \in CodeRows
    BY ConsumeEffect
  <2> QED
    BY <2>1 DEF ResetInv, StillSo, CodesAreSingle
<1>2. PICK d \in CodeRows : d = c
  BY <1>1
<1>3. /\ CodeRows' = CodeRows
      /\ \A e \in CodeRows : e # d => code'[e] = code[e]
      /\ code'[d].consumed /\ code'[d].uses = 1
  BY <1>1, <1>2, ConsumeEffect
<1> HIDE DEF c
<1> QED
  BY <1>2, <1>3 DEF CodesAreSingle, ResetInv

\* A reset that has succeeded: the sessions of the old password are gone.
LEMMA ResettingKeeps ==
  ASSUME TypeOK, ResetInv, NEW r \in Requests, CommitReset(r)
  PROVE  OnlyOfRegistered' /\ CodesAreSingle' /\ ResetEndsSessions'
<1>0. PICK u \in Users, c \in Codes : u = call[r].user /\ c = call[r].code
  BY CallFields DEF CommitReset, TypeOK
<1>1. /\ c \in CodeRows /\ code[c].user = u
      /\ CodeRows' = CodeRows
      /\ \A d \in CodeRows : code'[d].user = code[d].user
  <2>1. Consume(c)
    BY <1>0 DEF CommitReset
  <2>2. c \in CodeRows => code[c].user = u
    BY <1>0 DEF CommitReset, ResetInv, StillSo
  <2> QED
    BY <2>1, <2>2, ConsumeEffect
<1>2. Registered(u)
  BY <1>1 DEF ResetInv, OnlyOfRegistered
<1>3. /\ \A v \in Users : account'[v].status = account[v].status
      /\ \A v \in Users : v # u => account'[v].password = account[v].password
  BY <1>0 DEF CommitReset, TypeOK, Account
<1>4. /\ SessionRows' = SessionRows
      /\ \A s \in SessionRows : /\ session'[s].user = session[s].user
                                /\ session'[s].password = session[s].password
      /\ \A s \in Live' : s \in Live /\ session[s].user # u
  BY <1>0, RevokeAllEffect DEF CommitReset
<1>5. CodesAreSingle'
  BY UseKeepsCodesSingle DEF CommitReset
<1>6. OnlyOfRegistered'
  <2>1. \A v \in Users : account'[v].status = "none" => account'[v].password = 0
    BY <1>2, <1>3 DEF ResetInv, OnlyOfRegistered, Registered
  <2>2. \A s \in SessionRows : session[s].user \in Users
    BY TableFacts DEF SessionRow
  <2>3. \A d \in CodeRows : code[d].user \in Users
    BY TableFacts DEF CodeRow
  <2>4. access' = access /\ access \subseteq Users \X Sessions
    BY DEF CommitReset, TypeOK
  <2> QED
    BY <1>1, <1>3, <1>4, <2>1, <2>2, <2>3, <2>4
    DEF ResetInv, OnlyOfRegistered, Registered
<1>7. ASSUME NEW s \in Live'
      PROVE  session'[s].password = account'[session'[s].user].password
  <2>1. s \in SessionRows /\ s \in Live /\ session[s].user # u
    BY <1>4 DEF Live
  <2>2. session[s].user \in Users
    BY <2>1, TableFacts DEF SessionRow
  <2> QED
    BY <1>3, <1>4, <2>1, <2>2 DEF ResetInv, ResetEndsSessions
<1> QED
  BY <1>5, <1>6, <1>7 DEF ResetEndsSessions

\* A change of accounts that keeps who is registered and every password.
LEMMA AccountChangeKeeps ==
  ASSUME TypeOK, ResetInv,
         \A u \in Users : /\ account'[u].password = account[u].password
                          /\ Registered(u) => account'[u].status # "none",
         UNCHANGED access,
         SessionRows' = SessionRows,
         \A s \in SessionRows : /\ session'[s].user = session[s].user
                                /\ session'[s].password = session[s].password,
         Live' \subseteq Live,
         CodeRows' = CodeRows,
         \A c \in CodeRows : code'[c].user = code[c].user
  PROVE  OnlyOfRegistered' /\ ResetEndsSessions'
<1>1. /\ \A s \in SessionRows : session[s].user \in Users
      /\ \A c \in CodeRows : code[c].user \in Users
      /\ access \subseteq Users \X Sessions
  BY TableFacts DEF SessionRow, CodeRow, TypeOK
<1>2. OnlyOfRegistered'
  BY <1>1 DEF ResetInv, OnlyOfRegistered, Registered
<1>3. ASSUME NEW s \in Live'
      PROVE  session'[s].password = account'[session'[s].user].password
  <2>1. s \in Live /\ s \in SessionRows
    BY DEF Live
  <2> QED
    BY <1>1, <2>1 DEF ResetInv, ResetEndsSessions
<1> QED
  BY <1>2, <1>3 DEF ResetEndsSessions

\* The end of a request leaves the tables as the invariant says.
LEMMA EndingKeeps ==
  ASSUME TypeOK, OneAtATime, ResetInv, NEW r \in Requests, Finish(r)
  PROVE  ResetInv'
<1>1. Leave(r)
  BY DEF Finish, CommitRegister, CommitLogin, CommitRefresh, Grant,
     RevokeAllUserSessions, CommitLogout, CommitCode, CommitReset,
     CommitVerification, Fail
<1>2. ASSUME NEW rows \in SUBSET SessionRows, session' = Revoke(rows),
             UNCHANGED <<account, code, access>>
      PROVE  OnlyOfRegistered' /\ CodesAreSingle' /\ ResetEndsSessions'
  <2>1. /\ SessionRows' = SessionRows
        /\ \A s \in SessionRows : /\ session'[s].user = session[s].user
                                  /\ session'[s].password = session[s].password
        /\ Live' \subseteq Live
    BY <1>2, RevokedRows
  <2>2. CodeRows' = CodeRows
    BY <1>2 DEF CodeRows
  <2>3. CodesAreSingle'
    BY <1>2, <2>2 DEF CodesAreSingle, ResetInv
  <2> QED
    BY <1>2, <2>1, <2>2, <2>3, AccountChangeKeeps DEF Registered
<1>3. CASE CommitRegister(r)
  BY <1>3, RegistrationKeeps, <1>1, LeavingHoldsNothing DEF ResetInv
<1>4. CASE CommitLogin(r) \/ CommitRefresh(r)
  BY <1>4, GrantKeeps, <1>1, LeavingHoldsNothing DEF ResetInv
<1>5. CASE RevokeAllUserSessions(r)
  <2>1. SessionsOf(call[r].user) \in SUBSET SessionRows
    BY DEF SessionsOf
  <2> QED
    BY <1>2, <1>5, <2>1, <1>1, LeavingHoldsNothing DEF ResetInv, RevokeAllUserSessions
<1>6. CASE CommitLogout(r)
  <2>1. {call[r].session} \in SUBSET SessionRows
    BY <1>6 DEF CommitLogout
  <2> QED
    BY <1>2, <1>6, <2>1, <1>1, LeavingHoldsNothing DEF ResetInv, CommitLogout
<1>7. CASE CommitCode(r)
  BY <1>7, SendingKeeps, <1>1, LeavingHoldsNothing DEF ResetInv
<1>8. CASE CommitReset(r)
  BY <1>8, ResettingKeeps, <1>1, LeavingHoldsNothing DEF ResetInv
<1>9. CASE CommitVerification(r)
  <2>1. CodesAreSingle'
    BY <1>9, UseKeepsCodesSingle DEF CommitVerification
  <2>2. PICK u \in Users, c \in Codes : u = call[r].user /\ c = call[r].code
    BY <1>9, CallFields DEF CommitVerification, TypeOK
  <2>3. \A v \in Users : /\ account'[v].password = account[v].password
                         /\ Registered(v) => account'[v].status # "none"
    BY <1>9, <2>2 DEF CommitVerification, TypeOK, Account, Registered
  <2>4. CodeRows' = CodeRows /\ \A d \in CodeRows : code'[d].user = code[d].user
    BY <1>9, <2>2, ConsumeEffect DEF CommitVerification
  <2>5. UNCHANGED <<session, access>> /\ SessionRows' = SessionRows /\ Live' \subseteq Live
    BY <1>9 DEF CommitVerification, SessionRows, Live
  <2>6. OnlyOfRegistered' /\ ResetEndsSessions'
    BY <2>3, <2>4, <2>5, AccountChangeKeeps
  <2> QED
    BY <2>1, <2>6, <1>1, LeavingHoldsNothing DEF ResetInv
<1>10. CASE Fail(r)
  <2>1. session = Revoke({}) /\ {} \in SUBSET SessionRows
    BY DEF Revoke, TypeOK
  <2> QED
    BY <1>2, <1>10, <2>1, <1>1, LeavingHoldsNothing DEF ResetInv, Fail
<1> QED
  BY <1>3, <1>4, <1>5, <1>6, <1>7, <1>8, <1>9, <1>10 DEF Finish

\* Administration, time and clean-up take no password, code or registration away
\* that a request has read.
LEMMA OthersKeep ==
  ASSUME TypeOK, ResetInv, UNCHANGED call,
         \/ \E u \in Users : Administration(u)
         \/ Time
         \/ Maintenance
  PROVE  ResetInv'
<1>0. /\ \A s \in SessionRows : session[s].user \in Users
      /\ \A c \in CodeRows : c \in Codes /\ code[c].user \in Users
      /\ access \subseteq Users \X Sessions
  BY TableFacts DEF SessionRow, CodeRow, TypeOK
<1>1. \A u \in Users : /\ account'[u].password = account[u].password
                       /\ Registered(u) => account'[u].status # "none"
  <2>1. ASSUME NEW u \in Users, Administration(u)
        PROVE  <1>1!:
    BY <2>1 DEF Administration, AdminCreateUser, AdminSuspendUser, SuspendUser,
       ReactivateUser, TypeOK, Account, Registered
  <2>2. CASE Time \/ Maintenance
    BY <2>2 DEF Registered, Time, SessionExpires, AccessExpires, CodeExpires,
       Maintenance, DeleteExpiredSessions, DeleteExpiredVerifications
  <2> QED
    BY <2>1, <2>2
<1>2. access' \subseteq access
  BY DEF Administration, AdminCreateUser, AdminSuspendUser, SuspendUser, ReactivateUser,
     Time, SessionExpires, AccessExpires, CodeExpires,
     Maintenance, DeleteExpiredSessions, DeleteExpiredVerifications
<1>3. /\ SessionRows' \subseteq SessionRows
      /\ \A s \in SessionRows' : /\ session'[s].user = session[s].user
                                 /\ session'[s].password = session[s].password
      /\ Live' \subseteq Live
  <2>1. CASE UNCHANGED session
    BY <2>1 DEF SessionRows, Live
  <2>2. ASSUME NEW u \in Users, AdminSuspendUser(u)
        PROVE  <1>3!:
    BY <2>2, RevokeAllEffect DEF AdminSuspendUser
  <2>3. ASSUME NEW s \in Sessions, SessionExpires(s)
        PROVE  <1>3!:
    <3>1. session[s] \in SessionRow
      BY <2>3, TableFacts DEF SessionExpires
    <3>2. \A t \in Sessions : t # s => session'[t] = session[t]
      BY <2>3 DEF SessionExpires, TypeOK
    <3>3. session'[s] = [session[s] EXCEPT !.expired = TRUE]
      BY <2>3 DEF SessionExpires, TypeOK
    <3> QED
      BY <2>3, <3>1, <3>2, <3>3 DEF SessionRow, SessionRows, Live, SessionExpires
  <2>4. CASE DeleteExpiredSessions
    <3> DEFINE old == {s \in SessionRows : session[s].expired}
    <3>1. ASSUME NEW s \in SessionRows'
          PROVE  /\ s \in SessionRows
                 /\ session'[s].user = session[s].user
                 /\ session'[s].password = session[s].password
                 /\ session'[s].revoked = session[s].revoked
                 /\ session'[s].expired = session[s].expired
      <4>1. s \in SessionRows
        BY <2>4 DEF DeleteExpiredSessions, SessionRows
      <4>2. session'[s] = [session[s] EXCEPT !.parent = IF @ \in old THEN None ELSE @]
        BY <2>4, <4>1 DEF DeleteExpiredSessions, SessionRows
      <4> HIDE DEF old
      <4> QED
        BY <4>1, <4>2, TableFacts DEF SessionRow
    <3> QED
      BY <3>1 DEF Live
  <2>5. ASSUME \/ \E u \in Users : AdminCreateUser(u) \/ SuspendUser(u) \/ ReactivateUser(u)
               \/ \E s \in Sessions, u \in Users : AccessExpires(u, s)
               \/ \E c \in Codes : CodeExpires(c)
               \/ DeleteExpiredVerifications
        PROVE  UNCHANGED session
    BY <2>5 DEF AdminCreateUser, SuspendUser, ReactivateUser, AccessExpires,
       CodeExpires, DeleteExpiredVerifications
  <2> QED
    BY <2>1, <2>2, <2>3, <2>4, <2>5 DEF Administration, Time, Maintenance
<1>4. /\ CodeRows' \subseteq CodeRows
      /\ \A c \in CodeRows' : /\ code'[c].user = code[c].user
                              /\ code'[c].purpose = code[c].purpose
                              /\ code'[c].consumed = code[c].consumed
                              /\ code'[c].uses = code[c].uses
  <2>1. CASE UNCHANGED code
    BY <2>1 DEF CodeRows
  <2>2. ASSUME NEW c \in Codes, CodeExpires(c)
        PROVE  <1>4!:
    <3>1. code[c] \in CodeRow
      BY <2>2, TableFacts DEF CodeExpires
    <3>2. \A d \in Codes : d # c => code'[d] = code[d]
      BY <2>2 DEF CodeExpires, TypeOK
    <3>3. code'[c] = [code[c] EXCEPT !.expired = TRUE]
      BY <2>2 DEF CodeExpires, TypeOK
    <3> QED
      BY <2>2, <3>1, <3>2, <3>3 DEF CodeRow, CodeRows, CodeExpires
  <2>3. CASE DeleteExpiredVerifications
    BY <2>3 DEF DeleteExpiredVerifications, CodeRows
  <2>4. ASSUME \/ \E u \in Users : Administration(u)
               \/ \E s \in Sessions : SessionExpires(s) \/ \E u \in Users : AccessExpires(u, s)
               \/ DeleteExpiredSessions
        PROVE  UNCHANGED code
    BY <2>4 DEF Administration, AdminCreateUser, AdminSuspendUser, SuspendUser,
       ReactivateUser, SessionExpires, AccessExpires, DeleteExpiredSessions
  <2> QED
    BY <2>1, <2>2, <2>3, <2>4 DEF Time, Maintenance
<1>5. OnlyOfRegistered'
  <2>1. \A u \in Users : account'[u].status = "none" => account'[u].password = 0
    BY <1>1 DEF ResetInv, OnlyOfRegistered, Registered
  <2>2. \A s \in SessionRows' : account'[session'[s].user].status # "none"
    BY <1>0, <1>1, <1>3 DEF ResetInv, OnlyOfRegistered
  <2>3. \A c \in CodeRows' : account'[code'[c].user].status # "none"
    BY <1>0, <1>1, <1>4 DEF ResetInv, OnlyOfRegistered
  <2>4. \A t \in access' : account'[t[1]].status # "none"
    BY <1>0, <1>1, <1>2 DEF ResetInv, OnlyOfRegistered
  <2> QED
    BY <2>1, <2>2, <2>3, <2>4 DEF OnlyOfRegistered, Registered
<1>6. CodesAreSingle'
  BY <1>4 DEF ResetInv, CodesAreSingle
<1>7. ResetEndsSessions'
  <2>1. ASSUME NEW s \in Live'
        PROVE  session'[s].password = account'[session'[s].user].password
    <3>1. s \in Live /\ s \in SessionRows /\ s \in SessionRows'
      BY <1>3 DEF Live
    <3> QED
      BY <1>0, <1>1, <1>3, <3>1 DEF ResetInv, ResetEndsSessions
  <2> QED
    BY <2>1 DEF ResetEndsSessions
<1>8. ASSUME NEW r \in Requests
      PROVE  StillSo(r)'
  <2> DEFINE k == call[r]
  <2>0. k' = k /\ k \in Call /\ StillSo(r)
    BY DEF ResetInv, TypeOK
  <2>1. k.pc \in {"granting", "sending"} =>
          /\ account'[k.user].status # "none"
          /\ account'[k.user].password = account[k.user].password
    BY <1>1, <2>0, CallFields DEF StillSo
  <2>2. Unconsumed(k.user, k.purpose)' \subseteq Unconsumed(k.user, k.purpose)
    BY <1>4, <2>0 DEF Unconsumed
  <2>3. k.pc = "redeeming" /\ k.code \in CodeRows' =>
          /\ code'[k.code].user = k.user
          /\ code'[k.code].purpose = k.purpose
          /\ ~code'[k.code].consumed
    BY <1>4, <2>0 DEF StillSo
  <2> HIDE DEF k
  <2>4. call[r] = k /\ call'[r] = k
    BY <2>0 DEF k
  <2> QED
    BY <2>0, <2>1, <2>2, <2>3, <2>4 DEF StillSo, Registered
<1> QED
  BY <1>5, <1>6, <1>7, <1>8 DEF ResetInv

LEMMA ResetInit == Init => ResetInv
BY DEF Init, ResetInv, OnlyOfRegistered, CodesAreSingle, ResetEndsSessions, StillSo,
   Registered, SessionRows, CodeRows, Live, Idle

LEMMA ResetStep == OneAtATime /\ TypeOK /\ ResetInv /\ [Next]_vars => ResetInv'
<1> SUFFICES ASSUME OneAtATime, TypeOK, ResetInv, [Next]_vars
             PROVE  ResetInv'
  OBVIOUS
<1>1. CASE UNCHANGED vars
  BY <1>1 DEF vars, ResetInv, OnlyOfRegistered, CodesAreSingle, ResetEndsSessions,
     StillSo, Registered, SessionRows, CodeRows, Live, Unconsumed
<1>2. ASSUME \/ \E u \in Users : Administration(u)
             \/ Time
             \/ Maintenance
      PROVE  UNCHANGED call
  BY <1>2 DEF Administration, AdminCreateUser, AdminSuspendUser, SuspendUser,
     ReactivateUser, Time, SessionExpires, AccessExpires, CodeExpires,
     Maintenance, DeleteExpiredSessions, DeleteExpiredVerifications
<1> QED
  BY <1>1, <1>2, LookingSeesWhatIs, EndingKeeps, OthersKeep DEF Next

\* When no request overlaps another a reset is final: of the codes sent only the
\* last is live, it changes the password once, and no session outlives the
\* password it was opened with (resetPassword, forgotPassword).
THEOREM ResetsAreFinal ==
  OneAtATime => (Spec => [](OneLiveCode /\ CodeUsedOnce /\ ResetEndsSessions))
<1> SUFFICES ASSUME OneAtATime
             PROVE  Spec => [](OneLiveCode /\ CodeUsedOnce /\ ResetEndsSessions)
  OBVIOUS
<1>1. ResetInv => OneLiveCode /\ CodeUsedOnce /\ ResetEndsSessions
  BY DEF ResetInv, CodesAreSingle, OneLiveCode, CodeUsedOnce, Unconsumed
<1>2. TypeOK /\ ResetInv /\ [Next]_vars => ResetInv'
  BY ResetStep
<1> QED
  BY <1>1, <1>2, ResetInit, AuthTypeCorrect, PTL DEF Spec
=============================================================================
