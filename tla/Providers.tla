----------------------------- MODULE Providers -----------------------------
(***************************************************************************)
(* Providers, their documents and services, and the handlers of            *)
(* ProviderService, ProviderDocumentsService and ServicesService that      *)
(* decide about verification, and seedDemoData of AdminService, which goes *)
(* round it, running concurrently.                                         *)
(*                                                                         *)
(* A handler loads the provider and validates the transition outside its   *)
(* transaction; the transaction writes the row by its id.  There is a      *)
(* version column, but nothing reads or writes it.                         *)
(***************************************************************************)
EXTENDS FiniteSets

CONSTANTS
  Owners,         \* users, each with at most one provider (unique userId)
  Admins,         \* those of them who are admins
  Requests,       \* concurrent HTTP requests
  RequiredTypes,  \* REQUIRED_VERIFICATION_DOCUMENTS
  OtherTypes,     \* the other types of documents
  DemoUser,       \* whoever has DEMO_EMAIL
  Seeded          \* users for whom prisma/seed.ts inserts a provider, when it is run

\* What an instance must satisfy.
ProvidersAssumption ==
  /\ Admins \subseteq Owners
  /\ RequiredTypes \cap OtherTypes = {}
  /\ DemoUser \in Owners /\ Seeded \subseteq Owners

VARIABLES
  provider,  \* table providers, by owner
  documents, \* table provider_documents: the types each provider has
  service,   \* owners with an active service
  offered,   \* table services has rows, be they inactive or marked as deleted
  role,      \* column role of users, or "none" if there is no user
  call,      \* what each request holds
  vetted,    \* history: owners whose provider has passed the preconditions
  planted    \* history: owners whose provider was inserted by a seed

vars == <<provider, documents, service, offered, role, call, vetted, planted>>

Lifecycle(o) == INSTANCE ProviderLifecycle
  WITH status <- provider[o].status, verification <- provider[o].verification

Machine == INSTANCE ProviderLifecycle
  WITH status <- provider, verification <- provider

ProviderStatus == Machine!ProviderStatus

-----------------------------------------------------------------------------
(* Types                                                                   *)

\* complete: the fields of the profile that verification asks for are there.
\* verifiedAt: the column is set.
Provider ==
  [exists : BOOLEAN, status : ProviderStatus,
   verification : Machine!VerificationStatus, verifiedAt : BOOLEAN,
   complete : BOOLEAN]

\* "creating": no provider for the user was found.  "moving": the transition
\* of the provider to this status was found to be allowed.  "seeding": there
\* were no services; "demo user", "demo provider": and no public provider, so
\* that the user, then the provider is looked for; "filling": this one gets
\* the demo services.
Idle == [pc |-> "idle"]

Call ==
  {Idle}
    \cup [pc : {"creating", "filling"}, owner : Owners]
    \cup [pc : {"seeding", "demo user", "demo provider"}]
    \cup [pc : {"moving"}, owner : Owners, to : ProviderStatus, from : ProviderStatus]

TypeOK ==
  /\ provider \in [Owners -> Provider]
  /\ documents \in [Owners -> SUBSET (RequiredTypes \cup OtherTypes)]
  /\ service \in SUBSET Owners
  /\ offered \in BOOLEAN
  /\ role \in [Owners -> {"none", "traveler", "provider", "admin"}]
  /\ call \in [Requests -> Call]
  /\ vetted \in SUBSET Owners
  /\ planted \in SUBSET Owners

NoProvider ==
  [exists |-> FALSE, status |-> "draft", verification |-> "pending",
   verifiedAt |-> FALSE, complete |-> FALSE]

\* The row of prisma/seed.ts.
SeededProvider ==
  [exists |-> TRUE, status |-> "approved", verification |-> "verified",
   verifiedAt |-> TRUE, complete |-> TRUE]

\* prisma/seed.ts was run on the database, or it was not.
Init ==
  /\ planted \in {{}, Seeded}
  /\ provider = [o \in Owners |-> IF o \in planted THEN SeededProvider ELSE NoProvider]
  /\ documents = [o \in Owners |-> {}]
  /\ service = planted
  /\ offered = (planted # {})
  /\ role = [o \in Owners |->
       CASE o \in Admins   -> "admin"
         [] o \in planted  -> "provider"
         [] o = DemoUser   -> "none"
         [] OTHER          -> "traveler"]
  /\ call = [r \in Requests |-> Idle]
  /\ vetted = {}

-----------------------------------------------------------------------------
(* ProviderService.createProvider and updateOwnProvider                    *)

Enter(r, next) == call[r] = Idle /\ call' = [call EXCEPT ![r] = next]
Leave(r) == call' = [call EXCEPT ![r] = Idle]

\* DEMO_EMAIL is an address as any other: its user may register before the
\* demo data are loaded, in a role of his choice.
Register(o) ==
  /\ role[o] = "none"
  /\ \E chosen \in {"traveler", "provider"} : role' = [role EXCEPT ![o] = chosen]
  /\ UNCHANGED <<provider, documents, service, offered, call, vetted, planted>>

CreateProvider(r, o) ==
  /\ role[o] # "none"
  /\ ~provider[o].exists
  /\ Enter(r, [pc |-> "creating", owner |-> o])
  /\ UNCHANGED <<provider, documents, service, offered, role, vetted, planted>>

\* The unique keys on the user and on the slug let one of two requests fail.
\* The role is written whatever it was.
CommitCreate(r) ==
  LET o == call[r].owner
  IN  /\ call[r].pc = "creating"
      /\ ~provider[o].exists
      /\ \E complete \in BOOLEAN :
           provider' = [provider EXCEPT ![o].exists = TRUE, ![o].complete = complete]
      /\ role' = [role EXCEPT ![o] = "provider"]
      /\ Leave(r)
      /\ UNCHANGED <<documents, service, offered, vetted, planted>>

\* In any status, and any field may be emptied or filled.
UpdateOwnProvider(o) ==
  /\ provider[o].exists
  /\ provider' = [provider EXCEPT ![o].complete = ~@]
  /\ UNCHANGED <<documents, service, offered, role, call, vetted, planted>>

\* A request ends with an error, or its process dies.
Fail(r) ==
  /\ call[r] # Idle
  /\ Leave(r)
  /\ UNCHANGED <<provider, documents, service, offered, role, vetted, planted>>

-----------------------------------------------------------------------------
(* Documents and services.  Documents are uploaded pending, and nothing    *)
(* reviews them: none is ever rejected.                                    *)

UploadDocument(o, type) ==
  /\ provider[o].exists
  /\ documents' = [documents EXCEPT ![o] = @ \cup {type}]
  /\ UNCHANGED <<provider, service, offered, role, call, vetted, planted>>

\* In any status; the last one of its type.
DeleteDocument(o, type) ==
  /\ type \in documents[o]
  /\ documents' = [documents EXCEPT ![o] = @ \ {type}]
  /\ UNCHANGED <<provider, service, offered, role, call, vetted, planted>>

\* The first active service is created, the last one deleted or deactivated:
\* the row stays.  The owner does so, or an admin (admin/services).
ChangeServices(o) ==
  /\ provider[o].exists
  /\ service' = IF o \in service THEN service \ {o} ELSE service \cup {o}
  /\ offered' = TRUE
  /\ UNCHANGED <<provider, documents, role, call, vetted, planted>>

-----------------------------------------------------------------------------
(* AdminService.seedDemoData: no transaction, and no state machine.  What  *)
(* is looked for and created if it is not there is one step: if another    *)
(* request creates it in between, the unique key makes this one Fail.      *)

Goto(r, next) == call' = [call EXCEPT ![r] = next]

Stays == UNCHANGED <<provider, documents, service, offered, role, vetted, planted>>

\* Services are counted.  If there are any, no provider is touched.
SeedDemoData(r) ==
  /\ ~offered
  /\ Enter(r, [pc |-> "seeding"])
  /\ Stays

Public(o) == provider[o].exists /\ provider[o].status \in {"approved", "listed"}

\* The oldest provider that is public, if there is one.
FindPublic(r) ==
  /\ call[r].pc = "seeding"
  /\ \/ \E o \in Owners : Public(o) /\ Goto(r, [pc |-> "filling", owner |-> o])
     \/ (\A o \in Owners : ~Public(o)) /\ Goto(r, [pc |-> "demo user"])
  /\ Stays

DemoUserFound(r) ==
  /\ call[r].pc = "demo user"
  /\ Goto(r, [pc |-> "demo provider"])
  /\ role' = [role EXCEPT ![DemoUser] = IF @ = "none" THEN "provider" ELSE @]
  /\ UNCHANGED <<provider, documents, service, offered, vetted, planted>>

\* A provider he has already stays as it is, whatever its status.
DemoProviderFound(r) ==
  /\ call[r].pc = "demo provider"
  /\ provider[DemoUser].exists
  /\ Goto(r, [pc |-> "filling", owner |-> DemoUser])
  /\ Stays

\* A listed provider without an application, without phone and address.
CreateDemoProvider(r) ==
  /\ call[r].pc = "demo provider"
  /\ ~provider[DemoUser].exists
  /\ provider' = [provider EXCEPT ![DemoUser] =
       [NoProvider EXCEPT !.exists = TRUE, !.status = "listed"]]
  /\ planted' = planted \cup {DemoUser}
  /\ Goto(r, [pc |-> "filling", owner |-> DemoUser])
  /\ UNCHANGED <<documents, service, offered, role, vetted>>

CreateDemoServices(r) ==
  /\ call[r].pc = "filling"
  /\ service' = service \cup {call[r].owner}
  /\ offered' = TRUE
  /\ Leave(r)
  /\ UNCHANGED <<provider, documents, role, vetted, planted>>

-----------------------------------------------------------------------------
(* Transitions                                                             *)

\* validateVerificationPreconditions
MeetsPreconditions(o) ==
  /\ provider[o].complete
  /\ RequiredTypes \subseteq documents[o]
  /\ o \in service

\* Mutant: the state machine is not asked.
LoadUnchecked(r, o, to) ==
  /\ provider[o].exists
  /\ Enter(r, [pc |-> "moving", owner |-> o, to |-> to, from |-> provider[o].status])

\* The provider is read and the transition validated.
Load(r, o, to) ==
  /\ provider[o].exists
  /\ Machine!CanTransition(provider[o].status, to)
  /\ Enter(r, [pc |-> "moving", owner |-> o, to |-> to, from |-> provider[o].status])

Submit(r, o) ==
  /\ MeetsPreconditions(o)
  /\ Load(r, o, "submitted")
  /\ vetted' = vetted \cup {o}
  /\ UNCHANGED <<provider, documents, service, offered, role, planted>>

\* The first half of a handler of an admin: the machine is asked about the
\* status it moves to.
Moderate(r, o, to) ==
  /\ Load(r, o, to)
  /\ Stays

ReviewProvider(r, o) == Moderate(r, o, "under_review")
ApproveProvider(r, o) == Moderate(r, o, "approved")
RequestChanges(r, o) == Moderate(r, o, "changes_requested")
RejectProvider(r, o) == Moderate(r, o, "rejected")
SuspendProvider(r, o) == Moderate(r, o, "suspended")
ReinstateProvider(r, o) == Moderate(r, o, "listed")

AdminHandler(r, o) ==
  \/ ReviewProvider(r, o)
  \/ ApproveProvider(r, o)
  \/ RequestChanges(r, o)
  \/ RejectProvider(r, o)
  \/ SuspendProvider(r, o)
  \/ ReinstateProvider(r, o)

Moving(r, to) == call[r].pc = "moving" /\ call[r].to = to

\* The row is written by its id.
Update(r, status, verification, verifiedAt) ==
  /\ provider' = [provider EXCEPT ![call[r].owner] =
       [@ EXCEPT !.status = status, !.verification = verification,
                 !.verifiedAt = verifiedAt]]
  /\ Leave(r)
  /\ UNCHANGED <<documents, service, offered, role, vetted, planted>>

Row(r) == provider[call[r].owner]

CommitSubmit(r) ==
  /\ Moving(r, "submitted")
  /\ Update(r, "submitted", "pending", Row(r).verifiedAt)

\* Review, suspend and reinstate write the status only.
UpdateStatus(r) ==
  Update(r, call[r].to, Row(r).verification, Row(r).verifiedAt)

CommitReview(r) == Moving(r, "under_review") /\ UpdateStatus(r)
CommitSuspend(r) == Moving(r, "suspended") /\ UpdateStatus(r)
CommitReinstate(r) == Moving(r, "listed") /\ UpdateStatus(r)

\* Mutant: the date of the verification is forgotten.
CommitApproveUndated(r) ==
  /\ Moving(r, "approved")
  /\ Update(r, "listed", "verified", Row(r).verifiedAt)

\* Approve and automatically list.
CommitApprove(r) ==
  /\ Moving(r, "approved")
  /\ Update(r, "listed", "verified", TRUE)

CommitChanges(r) ==
  /\ Moving(r, "changes_requested")
  /\ Update(r, "changes_requested", "pending", Row(r).verifiedAt)

CommitReject(r) ==
  /\ Moving(r, "rejected")
  /\ Update(r, "rejected", "rejected", Row(r).verifiedAt)

-----------------------------------------------------------------------------
Seed(r) ==
  \/ FindPublic(r)
  \/ DemoUserFound(r)
  \/ DemoProviderFound(r)
  \/ CreateDemoProvider(r)
  \/ CreateDemoServices(r)

Finish(r) ==
  \/ CommitCreate(r)
  \/ CommitSubmit(r)
  \/ CommitReview(r)
  \/ CommitSuspend(r)
  \/ CommitReinstate(r)
  \/ CommitApprove(r)
  \/ CommitChanges(r)
  \/ CommitReject(r)
  \/ Seed(r)
  \/ Fail(r)

Owner(o) ==
  \/ Register(o)
  \/ UpdateOwnProvider(o)
  \/ ChangeServices(o)
  \/ \E type \in RequiredTypes \cup OtherTypes :
       UploadDocument(o, type) \/ DeleteDocument(o, type)

Next ==
  \/ \E r \in Requests :
       \/ \E o \in Owners :
            \/ CreateProvider(r, o)
            \/ Submit(r, o)
            \/ AdminHandler(r, o)
       \/ SeedDemoData(r)
       \/ Finish(r)
  \/ \E o \in Owners : Owner(o)

Spec == Init /\ [][Next]_vars

-----------------------------------------------------------------------------
(* Properties                                                              *)

\* The public sees a provider (listed, or suspended and reinstated at will)
\* only if an admin has approved it once, and it has had all documents, a full
\* profile and a service once, whatever stale transitions are committed in
\* which order (Submit, CommitApprove, CommitReinstate).  The only ones to get
\* past that are those a seed inserts: the demo provider and that of seed.ts.
PublicWasApproved ==
  /\ \A o \in Owners \ planted : provider[o].status \in {"approved", "listed", "suspended"} =>
       provider[o].verifiedAt /\ o \in vetted
  /\ planted \subseteq Seeded \cup {DemoUser}

\* One request at a time: what the public sees is verified, and what has been
\* rejected is not public, but for the demo provider.  (suspend and reinstate
\* do not write that column.)
ListedIsVerified ==
  \A o \in Owners \ planted :
    provider[o].status = "listed" => provider[o].verification = "verified"

\* One request at a time: each provider that somebody has created for himself
\* lives as ProviderLifecycle says, by its transitions only, and its
\* verification follows its status.  (The demo provider begins as listed and,
\* suspended and reinstated, is listed unverified.)
LifecycleBegins == \A o \in Owners \ planted : Lifecycle(o)!LifecycleInit

LifecycleStep ==
  \A o \in Owners \ planted' :
    \/ Lifecycle(o)!LifecycleNext
    \/ UNCHANGED Lifecycle(o)!lifecycleVars

ImplementsLifecycle == LifecycleBegins /\ [][LifecycleStep]_vars

-----------------------------------------------------------------------------
(* What comments, pages and tests say and the code does not keep: TLC      *)
(* refutes each on a small instance.                                       *)

\* "should reject changes_requested -> approved (must resubmit first)": a
\* provider that was asked for changes or rejected is not listed in one step.
MustResubmit ==
  [][\A o \in Owners : provider[o].status \in {"changes_requested", "rejected"}
       => provider'[o].status # "listed"]_vars

\* "Upgrade user role to provider if currently traveler".
OnlyTravelersUpgraded ==
  [][\A o \in Owners : role'[o] # role[o] => role[o] = "traveler"]_vars

\* "Verified Local Providers" (app/providers/page.tsx): whoever is listed is
\* verified, one request at a time; the demo provider is not.
PublicIsVerified ==
  \A o \in Owners : provider[o].status = "listed" => provider[o].verification = "verified"
=============================================================================
