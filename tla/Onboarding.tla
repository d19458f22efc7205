----------------------------- MODULE Onboarding -----------------------------
(***************************************************************************)
(* The verification page, on which the owner of a provider sees what is    *)
(* missing and submits the application.  The page judges by three queries, *)
(* the profile, the documents and the services, each as old as it may be;  *)
(* the server judges by its rows.                                          *)
(*                                                                         *)
(* Both halves of the server's handler are one step here (Providers has    *)
(* them apart), and so is a fetch of documents or services: what the page  *)
(* does changes neither.                                                   *)
(***************************************************************************)
EXTENDS Queries

CONSTANTS
  Clicks,     \* bound: submissions under way at a time
  None,       \* none of them
  MaxChanges  \* bound: changes of the rows

VARIABLES
  row,     \* the provider, its documents and its services, on the server
  profile, \* the query of GET /providers/me
  lists,   \* what the browser holds of documents and services
  shown,   \* whether the page is open
  submit,  \* how far each POST /providers/me/submit is
  mine,    \* the one that the button of the page follows
  own      \* version when this visit of the page heard that it had submitted

vars == <<row, profile, lists, shown, submit, mine, own>>

Machine == INSTANCE ProviderLifecycle WITH status <- row, verification <- row

-----------------------------------------------------------------------------
(* Types                                                                   *)

\* Fields of the profile: description stands for those that both sides look at.
Fields == {"description", "address"}

\* tax_id stands for the identification of the owner as well.
DocumentTypes == {"business_registration", "permit", "tax_id"}

ServiceStates == {"none", "inactive", "active"}

Row ==
  [status : Machine!ProviderStatus, filled : SUBSET Fields,
   documents : SUBSET DocumentTypes, services : ServiceStates, version : Nat]

Profile == [status : Machine!ProviderStatus, filled : SUBSET Fields]

ProfileOf(r) == [status |-> r.status, filled |-> r.filled]

ListsOf(r) == [documents |-> r.documents, services |-> r.services]

\* What has not been loaded is as good as empty.
NoLists == [documents |-> {}, services |-> "none"]

TypeOK ==
  /\ row \in Row
  /\ profile \in Query(Profile)
  /\ lists \in [documents : SUBSET DocumentTypes, services : ServiceStates]
  /\ shown \in BOOLEAN
  /\ submit \in [Clicks -> {"none", "sent", "done", "refused"}]
  /\ mine \in Clicks \cup {None}
  /\ own \in Nat

\* A draft with all that is asked for.
Init ==
  /\ row = [status |-> "draft", filled |-> Fields, services |-> "active", version |-> 0,
            documents |-> {"business_registration", "tax_id"}]
  /\ profile = Unfetched(ProfileOf(row))
  /\ lists = NoLists
  /\ shown = FALSE
  /\ submit = [c \in Clicks |-> "none"]
  /\ mine = None
  /\ own = 0

-----------------------------------------------------------------------------
(* Queries                                                                 *)

Enter ==
  /\ ~shown
  /\ shown' = TRUE
  /\ profile' = Mounted(profile)
  /\ UNCHANGED <<row, lists, submit, mine, own>>

\* What is under way goes on, but no button follows it any more.
Leave ==
  /\ shown
  /\ shown' = FALSE
  /\ mine' = None
  /\ own' = 0
  /\ UNCHANGED <<row, profile, lists, submit>>

\* A minute has passed, or another page has invalidated the query; which is
\* looked at when the page is opened.
Age ==
  /\ ~shown
  /\ profile.loaded
  /\ ~profile.stale
  /\ profile' = [profile EXCEPT !.stale = TRUE]
  /\ UNCHANGED <<row, lists, shown, submit, mine, own>>

Read ==
  /\ profile.fetch = "sent"
  /\ profile' = ReadBy(profile, ProfileOf(row), row.version)
  /\ UNCHANGED <<row, lists, shown, submit, mine, own>>

Receive ==
  /\ profile.fetch = "read"
  /\ profile' = Received(profile)
  /\ UNCHANGED <<row, lists, shown, submit, mine, own>>

FailFetch ==
  /\ profile.fetch # "no"
  /\ profile' = Failed(profile)
  /\ UNCHANGED <<row, lists, shown, submit, mine, own>>

\* ErrorState asks for the provider again, not for the other two.
Retry ==
  /\ shown
  /\ profile.failed
  /\ profile.fetch = "no"
  /\ profile' = Refetched(profile)
  /\ UNCHANGED <<row, lists, shown, submit, mine, own>>

FetchLists ==
  /\ lists' \in {[lists EXCEPT !.documents = row.documents],
                 [lists EXCEPT !.services = row.services]}
  /\ UNCHANGED <<row, profile, shown, submit, mine, own>>

-----------------------------------------------------------------------------
(* What the page makes of them                                             *)

\* isFullyCompliant: the fields without the address; any service; a permit does for
\* a registration.
IsFullyCompliant ==
  /\ "description" \in profile.status.filled
  /\ "tax_id" \in lists.documents
  /\ lists.documents \cap {"business_registration", "permit"} # {}
  /\ lists.services # "none"

\* Mutant: what the owner was asked to change cannot be submitted again.
AlreadySubmittedOnce(status) ==
  status \in {"submitted", "under_review", "approved", "changes_requested"}

\* isAlreadySubmitted
AlreadySubmitted(status) == status \in {"submitted", "under_review", "approved"}

\* An error takes the place of the whole card.
Offered ==
  /\ shown
  /\ profile.loaded
  /\ ~profile.failed
  /\ ~AlreadySubmitted(profile.status.status)
  /\ IsFullyCompliant

\* The heading of the card.
SaysVerified ==
  /\ shown
  /\ profile.loaded
  /\ profile.status.status = "approved"

Click(c) ==
  /\ Offered
  /\ mine = None
  /\ submit[c] = "none"
  /\ submit' = [submit EXCEPT ![c] = "sent"]
  /\ mine' = c
  /\ UNCHANGED <<row, profile, lists, shown, own>>

-----------------------------------------------------------------------------
(* The server                                                              *)

\* validateVerificationPreconditions
Eligible ==
  /\ row.filled = Fields
  /\ {"business_registration", "tax_id"} \subseteq row.documents
  /\ row.services = "active"

Accepts == Eligible /\ Machine!CanTransition(row.status, "submitted")

Submitted == [row EXCEPT !.status = "submitted", !.version = @ + 1]

Serve(c) ==
  /\ submit[c] = "sent"
  /\ row.version < MaxChanges
  /\ IF Accepts
     THEN row' = Submitted /\ submit' = [submit EXCEPT ![c] = "done"]
     ELSE UNCHANGED row /\ submit' = [submit EXCEPT ![c] = "refused"]
  /\ UNCHANGED <<profile, lists, shown, mine, own>>

\* An admin moves the provider; approval lists it at once.
Moderate(to) ==
  /\ row.version < MaxChanges
  /\ \/ /\ to \in {"under_review", "changes_requested", "rejected", "suspended", "listed"}
        /\ Machine!CanTransition(row.status, to)
     \/ to = "listed" /\ Machine!CanTransition(row.status, "approved")
  /\ row' = [row EXCEPT !.status = to, !.version = @ + 1]
  /\ UNCHANGED <<profile, lists, shown, submit, mine, own>>

\* The owner edits profile, documents or services, on other pages or elsewhere.
Edit ==
  /\ row.version < MaxChanges
  /\ \/ \E f \in SUBSET Fields : row' = [row EXCEPT !.filled = f, !.version = @ + 1]
     \/ \E t \in DocumentTypes :
          \/ row' = [row EXCEPT !.documents = @ \cup {t}, !.version = @ + 1]
          \/ row' = [row EXCEPT !.documents = @ \ {t}, !.version = @ + 1]
     \/ \E s \in ServiceStates : row' = [row EXCEPT !.services = s, !.version = @ + 1]
  /\ UNCHANGED <<profile, lists, shown, submit, mine, own>>

-----------------------------------------------------------------------------
(* Answers                                                                 *)

Free(c) == IF mine = c THEN None ELSE mine

\* ['provider'] is a prefix of ['provider', 'me'].
AfterSubmission == Invalidate(profile, shown)

Succeed(c) ==
  /\ submit[c] = "done"
  /\ submit' = [submit EXCEPT ![c] = "none"]
  /\ mine' = Free(c)
  /\ own' = IF mine = c THEN row.version ELSE own
  /\ profile' = AfterSubmission
  /\ UNCHANGED <<row, lists, shown>>

\* A refusal, or an answer that is lost: the page says nothing of either.
Fail(c) ==
  /\ submit[c] \in {"done", "refused"}
  /\ submit' = [submit EXCEPT ![c] = "none"]
  /\ mine' = Free(c)
  /\ UNCHANGED <<row, profile, lists, shown, own>>

-----------------------------------------------------------------------------
Next ==
  \/ Enter \/ Leave \/ Age \/ Read \/ Receive \/ FailFetch \/ Retry \/ FetchLists
  \/ Edit
  \/ \E c \in Clicks : Click(c) \/ Serve(c) \/ Succeed(c) \/ Fail(c)
  \/ \E to \in Machine!ProviderStatus : Moderate(to)

Spec == Init /\ [][Next]_vars

-----------------------------------------------------------------------------
(* Properties.                                                             *)

UpToDate ==
  shown /\ Settled(profile) /\ profile.status = ProfileOf(row) /\ lists = ListsOf(row)

(* Whoever the server would accept can submit: however profile, documents, *)
(* services and the admins' decisions have come about, a page that is up   *)
(* to date offers it (isFullyCompliant and isAlreadySubmitted against the  *)
(* preconditions and transitions of the backend).                          *)
NobodyIsLockedOut == UpToDate /\ Accepts => Offered

(* After a submission the page does not go on showing the provider as it   *)
(* was before, whatever fetch it overtakes (onSuccess of                   *)
(* useSubmitForVerification).                                              *)
OwnSubmissionShown ==
  shown /\ Settled(profile) => profile.version >= own

-----------------------------------------------------------------------------
(* What comments, pages and tests say and the code does not keep: TLC      *)
(* refutes each on a small instance.                                       *)

(* "Please complete all verification steps before submitting": who has     *)
(* completed them all, and is offered to submit, is accepted.              *)
CompletedIsAccepted == UpToDate /\ Offered => Accepts

(* "Your account is fully verified": a listed provider is told so.         *)
VerifiedIsTold == UpToDate /\ row.status = "listed" => SaysVerified
=============================================================================
