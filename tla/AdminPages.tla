----------------------------- MODULE AdminPages -----------------------------
(***************************************************************************)
(* The pages on which administrators approve providers, suspend users and  *)
(* moderate reviews, each with the queries of its browser.  One provider,  *)
(* one user and one review stand for the rows.                             *)
(***************************************************************************)
EXTENDS Queries

CONSTANTS
  Admins,    \* those whose browsers are modelled
  Shared,    \* the pages of this instance
  MaxChanges \* bound: changes of a row

VARIABLES
  row,    \* what each page is about, on the server
  cache,  \* the queries of each browser
  page,   \* where each administrator is
  dialog, \* the action that a browser asks to confirm, or has sent
  own     \* version when a browser heard, on the page of a row, that it had changed it

vars == <<row, cache, page, dialog, own>>

Machine == INSTANCE ProviderLifecycle WITH status <- row, verification <- row

-----------------------------------------------------------------------------
(* Types                                                                   *)

\* "provider" is the page of one of them.
Kind(p) == IF p = "providers" THEN "provider" ELSE p

Kinds == {Kind(p) : p \in Shared}

UserStatus == {"active", "suspended"}

ReviewStatus == {"pending_moderation", "published", "hidden"}

StatusOf(k) ==
  CASE k = "provider" -> Machine!ProviderStatus
    [] k = "users" -> UserStatus
    [] k = "reviews" -> ReviewStatus

First(k) ==
  CASE k = "provider" -> "draft"
    [] k = "users" -> "active"
    [] k = "reviews" -> "published"

Actions ==
  {"approve", "reject", "suspend", "reinstate", "reactivate", "add", "hide", "publish"}

NoDialog == [action |-> "none", on |-> "none", stage |-> "none", seen |-> 0]

Dialog ==
  [action : Actions, on : Shared, stage : {"open", "sent", "done", "refused"}, seen : Nat]

TypeOK ==
  /\ \A k \in Kinds : row[k].status \in StatusOf(k) /\ row[k].version \in Nat
  /\ \A a \in Admins, p \in Shared : cache[a][p] \in Query(StatusOf(Kind(p)))
  /\ page \in [Admins -> Shared]
  /\ dialog \in [Admins -> Dialog \cup {NoDialog}]
  /\ own \in [Admins -> [Kinds -> Nat]]

Init ==
  /\ row = [k \in Kinds |-> [status |-> First(k), version |-> 0]]
  /\ cache = [a \in Admins |-> [p \in Shared |-> Unfetched(First(Kind(p)))]]
  /\ page \in [Admins -> Shared]
  /\ dialog = [a \in Admins |-> NoDialog]
  /\ own = [a \in Admins |-> [k \in Kinds |-> 0]]

-----------------------------------------------------------------------------
(* Queries                                                                 *)

Open(a, p) ==
  /\ dialog[a].stage # "open"
  /\ page' = [page EXCEPT ![a] = p]
  /\ cache' = [cache EXCEPT ![a][p] = Mounted(@)]
  /\ UNCHANGED <<row, dialog, own>>

\* staleTime has passed.
Age(a, p) ==
  /\ cache[a][p].loaded
  /\ ~cache[a][p].stale
  /\ cache' = [cache EXCEPT ![a][p].stale = TRUE]
  /\ UNCHANGED <<row, page, dialog, own>>

Read(a, p) ==
  /\ cache[a][p].fetch = "sent"
  /\ cache' = [cache EXCEPT ![a][p] = ReadBy(@, row[Kind(p)].status, row[Kind(p)].version)]
  /\ UNCHANGED <<row, page, dialog, own>>

Receive(a, p) ==
  /\ cache[a][p].fetch = "read"
  /\ cache' = [cache EXCEPT ![a][p] = Received(@)]
  /\ UNCHANGED <<row, page, dialog, own>>

FailFetch(a, p) ==
  /\ cache[a][p].fetch # "no"
  /\ cache' = [cache EXCEPT ![a][p] = Failed(@)]
  /\ UNCHANGED <<row, page, dialog, own>>

\* The lists offer to try again; the page of a provider has to be opened again.
Refetch(a) ==
  /\ page[a] # "provider"
  /\ cache[a][page[a]].failed
  /\ cache[a][page[a]].fetch = "no"
  /\ cache' = [cache EXCEPT ![a][page[a]] = Refetched(@)]
  /\ UNCHANGED <<row, page, dialog, own>>

-----------------------------------------------------------------------------
(* What the pages offer                                                    *)

\* canApprove, canReject, canSuspend, canReinstate
OfferedOnProvider(s) ==
  CASE s \in {"submitted", "under_review"} -> {"approve", "reject"}
    [] s \in {"listed", "approved"} -> {"suspend"}
    [] s = "suspended" -> {"reinstate"}
    [] OTHER -> {}

\* In the lists an error takes the place of the rows.
Offered(p, query) ==
  CASE p = "provider" -> IF query.loaded THEN OfferedOnProvider(query.status) ELSE {}
    [] p = "users" ->
         {"add"} \cup (IF ~query.loaded \/ query.failed THEN {}
                       ELSE IF query.status = "active" THEN {"suspend"} ELSE {"reactivate"})
    [] p = "reviews" ->
         IF ~query.loaded \/ query.failed THEN {}
         ELSE IF query.status = "published" THEN {"hide"} ELSE {"publish"}
    [] OTHER -> {}

\* The menus of the lists send at once; the forms and the page of a provider ask.
Choose(a, action) ==
  LET query == cache[a][page[a]]
  IN  /\ dialog[a] = NoDialog
      /\ action \in Offered(page[a], query)
      /\ dialog' = [dialog EXCEPT ![a] =
           [action |-> action, on |-> page[a], seen |-> query.version,
            stage |-> IF page[a] = "provider" \/ action = "add" THEN "open" ELSE "sent"]]
      /\ UNCHANGED <<row, cache, page, own>>

\* handleConfirm, handleSubmit
Confirm(a) ==
  /\ dialog[a].stage = "open"
  /\ dialog' = [dialog EXCEPT ![a].stage = "sent"]
  /\ UNCHANGED <<row, cache, page, own>>

Dismiss(a) ==
  /\ dialog[a].stage = "open"
  /\ dialog' = [dialog EXCEPT ![a] = NoDialog]
  /\ UNCHANGED <<row, cache, page, own>>

-----------------------------------------------------------------------------
(* The server                                                              *)

Target(k, action, status) ==
  CASE action = "approve" -> "listed"
    [] action = "reject" -> "rejected"
    [] action = "suspend" -> "suspended"
    [] action = "reinstate" -> "listed"
    [] action = "reactivate" -> "active"
    [] action = "hide" -> "hidden"
    [] action = "publish" -> "published"
    [] action = "add" -> status

\* Users and reviews take any status; a provider goes through its transitions, and
\* an approved one is listed at once.
Allowed(k, action, status) ==
  k = "provider" =>
    IF action = "approve" THEN Machine!CanTransition(status, "approved")
    ELSE Machine!CanTransition(status, Target(k, action, status))

Written(k, status) == [status |-> status, version |-> row[k].version + 1]

Serve(a) ==
  LET k == Kind(dialog[a].on)
  IN  /\ dialog[a].stage = "sent"
      /\ row[k].version < MaxChanges
      /\ IF Allowed(k, dialog[a].action, row[k].status)
         THEN /\ row' = [row EXCEPT ![k] =
                   Written(k, Target(k, dialog[a].action, row[k].status))]
              /\ dialog' = [dialog EXCEPT ![a].stage = "done"]
         ELSE /\ dialog' = [dialog EXCEPT ![a].stage = "refused"]
              /\ UNCHANGED row
      /\ UNCHANGED <<cache, page, own>>

\* The owner of the provider, other administrators, and whoever else calls the API.
ChangeElsewhere(k, to) ==
  /\ row[k].version < MaxChanges
  /\ k = "provider" => Machine!CanTransition(row[k].status, to)
  /\ row' = [row EXCEPT ![k] = Written(k, to)]
  /\ UNCHANGED <<cache, page, dialog, own>>

-----------------------------------------------------------------------------
(* Answers                                                                 *)

\* Whether success on page p invalidates the query of page q: ['admin', 'providers'],
\* ['admin', 'users'], and all of ['admin'] after a moderation.
InvalidatedBy(p, q) ==
  \/ p = "reviews"
  \/ p = "provider" /\ q = "providers"
  \/ p = "users" /\ q = "users"

Succeed(a) ==
  LET d == dialog[a]
  IN  /\ d.stage = "done"
      /\ dialog' = [dialog EXCEPT ![a] = NoDialog]
      /\ own' = IF d.action = "add" \/ page[a] # d.on THEN own
                ELSE [own EXCEPT ![a][Kind(d.on)] = row[Kind(d.on)].version]
      /\ cache' = [cache EXCEPT ![a] = [q \in Shared |->
           IF InvalidatedBy(d.on, q) THEN Invalidate(cache[a][q], page[a] = q) ELSE cache[a][q]]]
      /\ UNCHANGED <<row, page>>

\* An error, or an answer that is lost: the dialogs stay open with the error, the
\* menus say nothing.
Fail(a) ==
  /\ dialog[a].stage \in {"done", "refused"}
  /\ dialog' = [dialog EXCEPT ![a] =
       IF dialog[a].on = "provider" \/ dialog[a].action = "add"
       THEN [@ EXCEPT !.stage = "open"] ELSE NoDialog]
  /\ UNCHANGED <<row, cache, page, own>>

-----------------------------------------------------------------------------
Next ==
  \/ \E a \in Admins, p \in Shared :
       Open(a, p) \/ Age(a, p) \/ Read(a, p) \/ Receive(a, p) \/ FailFetch(a, p)
  \/ \E a \in Admins :
       \/ Refetch(a) \/ Confirm(a) \/ Dismiss(a) \/ Serve(a) \/ Succeed(a) \/ Fail(a)
       \/ \E action \in Actions : Choose(a, action)
  \/ \E k \in Kinds : \E to \in StatusOf(k) : ChangeElsewhere(k, to)

Spec == Init /\ [][Next]_vars

-----------------------------------------------------------------------------
(* Properties                                                              *)

\* The list from which an administrator changes a row, and stays there until it is
\* done, shows the outcome once it has settled, whatever other fetches and
\* administrators do (onSuccess of the hooks).
OwnActionShown ==
  \A a \in Admins :
    Settled(cache[a][page[a]]) /\ page[a] # "provider"
      => cache[a][page[a]].version >= own[a][Kind(page[a])]

\* All but the approval of an application that nobody has taken into review.
OfferedIsValidOtherwise ==
  \A a \in Admins :
    dialog[a].stage = "refused" =>
      \/ dialog[a].seen # row[Kind(dialog[a].on)].version
      \/ dialog[a].action = "approve" /\ row["provider"].status = "submitted"

-----------------------------------------------------------------------------
(* What comments, pages and tests say and the code does not keep: TLC      *)
(* refutes each on a small instance.                                       *)

\* The page of a provider shows the outcome of what was done there.
OwnDecisionShown ==
  \A a \in Admins :
    Settled(cache[a][page[a]]) /\ page[a] = "provider" /\ dialog[a] = NoDialog
      => cache[a]["provider"].version >= own[a]["provider"]

\* "Determine which actions are valid for this status": what the page of a provider
\* offers is refused only if the provider has changed meanwhile.
OfferedIsValid ==
  \A a \in Admins : dialog[a].stage = "refused" => dialog[a].seen # row[Kind(dialog[a].on)].version
=============================================================================
