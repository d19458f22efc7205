-------------------------- MODULE ProvidersProofs --------------------------
(***************************************************************************)
(* Proofs about Providers, for any sets of owners, admins, requests and    *)
(* types of documents.                                                     *)
(***************************************************************************)
EXTENDS Providers, TLAPS

-----------------------------------------------------------------------------
(* Type correctness                                                        *)

USE DEF ProviderStatus, Machine!ProviderStatus, Machine!VerificationStatus

\* What a request holds at each point of its handler.
LEMMA CallFields ==
  ASSUME NEW k \in Call
  PROVE  /\ k.pc \in {"creating", "filling"} => k.owner \in Owners
         /\ k.pc = "moving" => /\ k.owner \in Owners
                               /\ k.to \in ProviderStatus
                               /\ k.from \in ProviderStatus
<1>1. \/ k = Idle
      \/ k \in [pc : {"creating", "filling"}, owner : Owners]
      \/ k \in [pc : {"seeding", "demo user", "demo provider"}]
      \/ k \in [pc : {"moving"}, owner : Owners, to : ProviderStatus, from : ProviderStatus]
  BY DEF Call
<1>2. CASE k = Idle
  BY <1>2 DEF Idle
<1>3. CASE k \in [pc : {"creating", "filling"}, owner : Owners]
  BY <1>3
<1>4. CASE k \in [pc : {"seeding", "demo user", "demo provider"}]
  <2>1. k.pc \in {"seeding", "demo user", "demo provider"}
    BY <1>4
  <2> QED
    BY <2>1
<1>5. CASE k \in [pc : {"moving"}, owner : Owners, to : ProviderStatus, from : ProviderStatus]
  <2>1. /\ k.pc = "moving" /\ k.owner \in Owners
        /\ k.to \in ProviderStatus /\ k.from \in ProviderStatus
    BY <1>5
  <2> QED
    BY <2>1
<1> QED
  BY <1>1, <1>2, <1>3, <1>4, <1>5

\* A request that enters or leaves a handler leaves the others alone.
LEMMA CallSteps ==
  ASSUME TypeOK, NEW r \in Requests
  PROVE  /\ Leave(r) => call' \in [Requests -> Call]
         /\ \A next \in Call : Enter(r, next) \/ Goto(r, next) => call' \in [Requests -> Call]
<1>1. Idle \in Call
  BY DEF Call
<1> QED
  BY <1>1 DEF TypeOK, Leave, Enter, Goto

\* Every transition starts with the same read.
LEMMA LoadType ==
  ASSUME TypeOK, NEW r \in Requests, NEW o \in Owners, NEW to \in ProviderStatus,
         Load(r, o, to)
  PROVE  call' \in [Requests -> Call]
<1>1. [pc |-> "moving", owner |-> o, to |-> to, from |-> provider[o].status] \in Call
  BY DEF Call, TypeOK, Provider
<1> QED
  BY <1>1, CallSteps DEF Load

\* Every transaction of a transition writes one row by its id.
LEMMA UpdateEffect ==
  ASSUME TypeOK, NEW r \in Requests, call[r].pc = "moving",
         NEW status \in ProviderStatus, NEW verification \in Machine!VerificationStatus,
         NEW verifiedAt \in BOOLEAN,
         Update(r, status, verification, verifiedAt)
  PROVE  LET o == call[r].owner
         IN  /\ o \in Owners
             /\ provider'[o].status = status
             /\ provider'[o].verification = verification
             /\ provider'[o].verifiedAt = verifiedAt
             /\ \A p \in Owners : p # o => provider'[p] = provider[p]
             /\ TypeOK'
<1> DEFINE o == call[r].owner
<1>1. o \in Owners
  BY CallFields DEF TypeOK
<1> DEFINE row == [provider[o] EXCEPT !.status = status, !.verification = verification,
                                      !.verifiedAt = verifiedAt]
<1>2. row \in Provider
  <2>1. provider[o] \in Provider
    BY <1>1 DEF TypeOK
  <2> QED
    BY <2>1 DEF Provider
<1>3. /\ row.status = status
      /\ row.verification = verification
      /\ row.verifiedAt = verifiedAt
  <2>1. provider[o] \in Provider
    BY <1>1 DEF TypeOK
  <2> QED
    BY <2>1 DEF Provider
<1>4. provider' = [provider EXCEPT ![o] = row]
  BY DEF Update
<1> HIDE DEF row
<1>5. /\ provider' \in [Owners -> Provider]
      /\ provider'[o] = row
      /\ \A p \in Owners : p # o => provider'[p] = provider[p]
  BY <1>1, <1>2, <1>4 DEF TypeOK
<1>6. TypeOK'
  BY <1>5, CallSteps DEF Update, TypeOK
<1> QED
  BY <1>1, <1>3, <1>5, <1>6

\* What the transaction of a transition writes.
StatusWritten(r) == IF call[r].to = "approved" THEN "listed" ELSE call[r].to

VerificationWritten(r) ==
  CASE call[r].to = "approved"                           -> "verified"
    [] call[r].to = "rejected"                           -> "rejected"
    [] call[r].to \in {"submitted", "changes_requested"} -> "pending"
    [] OTHER                                             -> Row(r).verification

VerifiedAtWritten(r) == call[r].to = "approved" \/ Row(r).verifiedAt

LEMMA TransitionWrites ==
  ASSUME TypeOK, NEW r \in Requests,
         \/ CommitSubmit(r) \/ CommitReview(r) \/ CommitSuspend(r)
         \/ CommitReinstate(r) \/ CommitApprove(r) \/ CommitChanges(r)
         \/ CommitReject(r)
  PROVE  /\ call[r].pc = "moving"
         /\ call[r].owner \in Owners
         /\ call[r].to \in ProviderStatus \ {"draft"}
         /\ StatusWritten(r) \in ProviderStatus
         /\ VerificationWritten(r) \in Machine!VerificationStatus
         /\ VerifiedAtWritten(r) \in BOOLEAN
         /\ Update(r, StatusWritten(r), VerificationWritten(r), VerifiedAtWritten(r))
<1> USE DEF StatusWritten, VerificationWritten, VerifiedAtWritten
<1>1. call[r].pc = "moving"
  BY DEF CommitSubmit, CommitReview, CommitSuspend, CommitReinstate,
         CommitApprove, CommitChanges, CommitReject, Moving
<1>2. call[r].owner \in Owners /\ call[r].to \in ProviderStatus
  BY <1>1, CallFields DEF TypeOK
<1>3. /\ Row(r).verifiedAt \in BOOLEAN
      /\ Row(r).verification \in Machine!VerificationStatus
  BY <1>2 DEF TypeOK, Provider, Row
<1>4. CASE CommitSubmit(r)
  BY <1>1, <1>2, <1>3, <1>4 DEF CommitSubmit, Moving
<1>5. CASE CommitReview(r) \/ CommitSuspend(r) \/ CommitReinstate(r)
  BY <1>1, <1>2, <1>3, <1>5
  DEF CommitReview, CommitSuspend, CommitReinstate, UpdateStatus, Moving
<1>6. CASE CommitApprove(r)
  BY <1>1, <1>2, <1>3, <1>6 DEF CommitApprove, Moving
<1>7. CASE CommitChanges(r)
  BY <1>1, <1>2, <1>3, <1>7 DEF CommitChanges, Moving
<1>8. CASE CommitReject(r)
  BY <1>1, <1>2, <1>3, <1>8 DEF CommitReject, Moving
<1> QED
  BY <1>4, <1>5, <1>6, <1>7, <1>8

\* The demo data: no row but that of the demo provider is written.
LEMMA SeedType ==
  ASSUME ProvidersAssumption, TypeOK, NEW r \in Requests, SeedDemoData(r) \/ Seed(r)
  PROVE  TypeOK'
<1>1. /\ \A o \in Owners : [pc |-> "filling", owner |-> o] \in Call
      /\ \A pc \in {"seeding", "demo user", "demo provider"} : [pc |-> pc] \in Call
  BY DEF Call
<1>2. DemoUser \in Owners
  BY DEF ProvidersAssumption
<1>3. CASE SeedDemoData(r)
  BY <1>1, <1>3, CallSteps DEF SeedDemoData, Stays, TypeOK
<1>4. CASE FindPublic(r)
  BY <1>1, <1>4, CallSteps DEF FindPublic, Stays, TypeOK
<1>5. CASE DemoUserFound(r)
  <2>1. role' \in [Owners -> {"none", "traveler", "provider", "admin"}]
    BY <1>5 DEF DemoUserFound, TypeOK
  <2> QED
    BY <1>1, <1>5, <2>1, CallSteps DEF DemoUserFound, TypeOK
<1>6. CASE DemoProviderFound(r)
  BY <1>1, <1>2, <1>6, CallSteps DEF DemoProviderFound, Stays, TypeOK
<1>7. CASE CreateDemoProvider(r)
  <2>1. [NoProvider EXCEPT !.exists = TRUE, !.status = "listed"] \in Provider
    BY DEF NoProvider, Provider
  <2>2. provider' \in [Owners -> Provider] /\ planted' \in SUBSET Owners
    BY <1>2, <1>7, <2>1 DEF CreateDemoProvider, TypeOK
  <2> QED
    BY <1>1, <1>2, <1>7, <2>2, CallSteps DEF CreateDemoProvider, TypeOK
<1>8. CASE CreateDemoServices(r)
  <2>1. call[r].owner \in Owners
    BY <1>8, CallFields DEF CreateDemoServices, TypeOK
  <2> QED
    BY <1>8, <2>1, CallSteps DEF CreateDemoServices, TypeOK
<1> QED
  BY <1>3, <1>4, <1>5, <1>6, <1>7, <1>8 DEF Seed

LEMMA ProvidersTypeStep == ProvidersAssumption /\ TypeOK /\ [Next]_vars => TypeOK'
<1> SUFFICES ASSUME ProvidersAssumption, TypeOK, [Next]_vars PROVE TypeOK'
  OBVIOUS
<1>1. ASSUME NEW r \in Requests, NEW o \in Owners, CreateProvider(r, o)
      PROVE  TypeOK'
  <2>1. [pc |-> "creating", owner |-> o] \in Call
    BY DEF Call
  <2> QED
    BY <1>1, <2>1, CallSteps DEF CreateProvider, TypeOK
<1>2. ASSUME NEW r \in Requests, NEW o \in Owners, Submit(r, o)
      PROVE  TypeOK'
  BY <1>2, LoadType DEF Submit, TypeOK
<1>3. ASSUME NEW r \in Requests, NEW o \in Owners, AdminHandler(r, o)
      PROVE  TypeOK'
  BY <1>3, LoadType
  DEF AdminHandler, ReviewProvider, ApproveProvider, RequestChanges, RejectProvider,
      SuspendProvider, ReinstateProvider, Moderate, Stays, TypeOK
<1>4. ASSUME NEW r \in Requests, CommitCreate(r)
      PROVE  TypeOK'
  <2>1. call[r].owner \in Owners
    BY <1>4, CallFields DEF CommitCreate, TypeOK
  <2>2. provider' \in [Owners -> Provider]
    <3> DEFINE o == call[r].owner
               row(complete) == [provider[o] EXCEPT !.exists = TRUE, !.complete = complete]
    <3>1. \A complete \in BOOLEAN : row(complete) \in Provider
      <4>1. provider[o] \in Provider
        BY <2>1 DEF TypeOK
      <4> QED
        BY <4>1 DEF Provider
    <3>2. \E complete \in BOOLEAN : provider' = [provider EXCEPT ![o] = row(complete)]
      BY <1>4, <2>1 DEF CommitCreate, TypeOK, Provider
    <3> HIDE DEF row
    <3> QED
      BY <3>1, <3>2 DEF TypeOK
  <2> QED
    BY <1>4, <2>1, <2>2, CallSteps DEF CommitCreate, TypeOK
<1>5. ASSUME NEW r \in Requests,
             \/ CommitSubmit(r) \/ CommitReview(r) \/ CommitSuspend(r)
             \/ CommitReinstate(r) \/ CommitApprove(r) \/ CommitChanges(r)
             \/ CommitReject(r)
      PROVE  TypeOK'
  BY <1>5, TransitionWrites, UpdateEffect
<1>6. ASSUME NEW r \in Requests, Fail(r)
      PROVE  TypeOK'
  BY <1>6, CallSteps DEF Fail, TypeOK
<1>7. ASSUME NEW o \in Owners, Owner(o)
      PROVE  TypeOK'
  <2>1. CASE UpdateOwnProvider(o)
    <3>1. provider' \in [Owners -> Provider]
      BY <2>1 DEF UpdateOwnProvider, TypeOK, Provider
    <3> QED
      BY <2>1, <3>1 DEF UpdateOwnProvider, TypeOK
  <2>2. CASE ChangeServices(o)
    BY <2>2 DEF ChangeServices, TypeOK
  <2>3. ASSUME NEW type \in RequiredTypes \cup OtherTypes,
               UploadDocument(o, type) \/ DeleteDocument(o, type)
        PROVE  TypeOK'
    BY <2>3 DEF UploadDocument, DeleteDocument, TypeOK
  <2>4. CASE Register(o)
    BY <2>4 DEF Register, TypeOK
  <2> QED
    BY <1>7, <2>1, <2>2, <2>3, <2>4 DEF Owner
<1>8. CASE UNCHANGED vars
  BY <1>8 DEF vars, TypeOK
<1>9. ASSUME NEW r \in Requests, SeedDemoData(r) \/ Seed(r)
      PROVE  TypeOK'
  BY <1>9, SeedType
<1> QED
  BY <1>1, <1>2, <1>3, <1>4, <1>5, <1>6, <1>7, <1>8, <1>9 DEF Next, Finish

LEMMA ProvidersTypeInit == ProvidersAssumption /\ Init => TypeOK
<1> SUFFICES ASSUME ProvidersAssumption, Init PROVE TypeOK
  OBVIOUS
<1>1. NoProvider \in Provider /\ SeededProvider \in Provider
  BY DEF NoProvider, SeededProvider, Provider
<1>2. planted \in SUBSET Owners /\ Idle \in Call
  BY DEF Init, ProvidersAssumption, Call
<1>3. role \in [Owners -> {"none", "traveler", "provider", "admin"}]
  BY DEF Init
<1> QED
  BY <1>1, <1>2, <1>3 DEF Init, TypeOK

\* Every reachable state of the providers is well typed.
THEOREM ProvidersTypeCorrect == ProvidersAssumption => (Spec => []TypeOK)
<1> SUFFICES ASSUME ProvidersAssumption PROVE Spec => []TypeOK
  OBVIOUS
<1>1. TypeOK /\ [Next]_vars => TypeOK'
  BY ProvidersTypeStep
<1>2. Init => TypeOK
  BY ProvidersTypeInit
<1> QED
  BY <1>1, <1>2, PTL DEF Spec

-----------------------------------------------------------------------------
(* What the public sees                                                    *)

\* The strengthening of PublicWasApproved.  Whoever has left draft was vetted,
\* and so was whoever a request in flight is about to move; and a request that
\* is about to list or suspend a provider has found it approved, however long
\* ago that was.
ApprovalInv ==
  /\ planted \subseteq Seeded \cup {DemoUser}
  /\ \A o \in Owners \ planted :
       /\ provider[o].status # "draft" => o \in vetted
       /\ provider[o].status \in {"approved", "listed", "suspended"}
            => provider[o].verifiedAt
  /\ \A r \in Requests : call[r].pc = "moving" /\ call[r].owner \notin planted =>
       /\ call[r].owner \in vetted
       /\ call[r].to \in {"listed", "suspended"} => provider[call[r].owner].verifiedAt
  /\ \A r \in Requests : call[r].pc = "moving" => call[r].to # "draft"

\* Only a provider that was approved can be listed or suspended, and one in
\* draft can only be submitted.
LEMMA TransitionFacts ==
  ASSUME NEW from \in ProviderStatus, NEW to \in ProviderStatus,
         Machine!CanTransition(from, to)
  PROVE  /\ from = "draft" => to = "submitted"
         /\ to \in {"listed", "suspended"} => from \in {"approved", "listed", "suspended"}
BY DEF Machine!CanTransition, Machine!AllowedTransitions

\* A read by request r; the others stay where they are.
LEMMA LoadKeepsApproval ==
  ASSUME TypeOK, ApprovalInv,
         NEW r \in Requests, NEW o \in Owners, NEW to \in ProviderStatus \ {"draft"},
         Load(r, o, to), UNCHANGED <<provider, planted>>,
         vetted \subseteq vetted',
         to = "submitted" => o \in vetted'
  PROVE  ApprovalInv'
<1>1. provider[o].status \in ProviderStatus
  BY DEF TypeOK, Provider
<1>2. o \notin planted => o \in vetted'
  BY <1>1, TransitionFacts DEF Load, ApprovalInv
<1>3. o \notin planted /\ to \in {"listed", "suspended"} => provider[o].verifiedAt
  BY <1>1, TransitionFacts DEF Load, ApprovalInv
<1>4. ASSUME NEW q \in Requests, call'[q].pc = "moving"
      PROVE  /\ call'[q].owner \notin planted =>
                  /\ call'[q].owner \in vetted'
                  /\ call'[q].to \in {"listed", "suspended"}
                       => provider'[call'[q].owner].verifiedAt
             /\ call'[q].to # "draft"
  <2>1. CASE q = r
    BY <1>2, <1>3, <2>1 DEF Load, Enter, TypeOK
  <2>2. CASE q # r
    BY <1>4, <2>2 DEF Load, Enter, TypeOK, ApprovalInv
  <2> QED
    BY <2>1, <2>2
<1> QED
  BY <1>4 DEF ApprovalInv

\* A write that takes verifiedAt from nobody.
LEMMA WriteKeepsApproval ==
  ASSUME TypeOK, ApprovalInv, UNCHANGED vetted,
         planted \subseteq planted', planted' \subseteq Seeded \cup {DemoUser},
         \A o \in Owners \ planted' :
           /\ provider[o].verifiedAt => provider'[o].verifiedAt
           /\ \/ provider'[o].status = provider[o].status
              \/ /\ o \in vetted
                 /\ provider'[o].status \in {"approved", "listed", "suspended"}
                      => provider'[o].verifiedAt,
         \A q \in Requests : call'[q].pc = "moving" => call'[q] = call[q]
  PROVE  ApprovalInv'
<1>1. \A q \in Requests : call[q].pc = "moving" => call[q].owner \in Owners
  BY CallFields DEF TypeOK
<1> QED
  BY <1>1 DEF ApprovalInv

\* Leaving a handler is not entering one.
LEMMA LeaveMovesNobody ==
  ASSUME TypeOK, NEW r \in Requests, Leave(r)
  PROVE  \A q \in Requests : call'[q].pc = "moving" => call'[q] = call[q]
BY DEF Leave, Idle, TypeOK

\* The demo data touch no provider but one they have inserted, and start no transition.
LEMMA SeedLeavesRows ==
  ASSUME TypeOK, NEW r \in Requests, SeedDemoData(r) \/ Seed(r)
  PROVE  /\ planted \subseteq planted' /\ planted' \subseteq planted \cup {DemoUser}
         /\ UNCHANGED vetted
         /\ \A o \in Owners \ planted' : provider'[o] = provider[o]
         /\ \A q \in Requests : call'[q].pc = "moving" => call'[q] = call[q] /\ q # r
<1>1. \A q \in Requests : call'[q].pc = "moving" => call'[q] = call[q] /\ q # r
  <2>1. ASSUME NEW next, next.pc # "moving", Goto(r, next) \/ Enter(r, next)
        PROVE  \A q \in Requests : call'[q].pc = "moving" => call'[q] = call[q] /\ q # r
    BY <2>1 DEF Goto, Enter, TypeOK
  <2>2. CASE Leave(r)
    BY <2>2 DEF Leave, Idle, TypeOK
  <2>3. CASE SeedDemoData(r)
    <3>1. Enter(r, [pc |-> "seeding"]) /\ [pc |-> "seeding"].pc = "seeding"
      BY <2>3 DEF SeedDemoData
    <3> QED
      BY <2>1, <3>1
  <2>4. CASE FindPublic(r)
    <3>1. PICK next : Goto(r, next) /\ next.pc # "moving"
      <4>1. CASE \E o \in Owners : Public(o) /\ Goto(r, [pc |-> "filling", owner |-> o])
        BY <4>1
      <4>2. CASE Goto(r, [pc |-> "demo user"])
        <5>1. [pc |-> "demo user"].pc = "demo user"
          OBVIOUS
        <5> QED
          BY <4>2, <5>1
      <4> QED
        BY <2>4, <4>1, <4>2 DEF FindPublic
    <3> QED
      BY <2>1, <3>1
  <2>5. CASE DemoUserFound(r) \/ DemoProviderFound(r) \/ CreateDemoProvider(r)
    <3>1. PICK next : Goto(r, next) /\ next.pc # "moving"
      <4>1. [pc |-> "demo provider"].pc = "demo provider"
        OBVIOUS
      <4>2. CASE Goto(r, [pc |-> "demo provider"])
        BY <4>1, <4>2
      <4>3. CASE Goto(r, [pc |-> "filling", owner |-> DemoUser])
        BY <4>3
      <4> QED
        BY <2>5, <4>2, <4>3 DEF DemoUserFound, DemoProviderFound, CreateDemoProvider
    <3> QED
      BY <2>1, <3>1
  <2> QED
    BY <2>2, <2>3, <2>4, <2>5 DEF Seed, CreateDemoServices
<1>2. CASE CreateDemoProvider(r)
  BY <1>1, <1>2 DEF CreateDemoProvider, TypeOK
<1>3. CASE ~CreateDemoProvider(r)
  BY <1>1, <1>3 DEF SeedDemoData, Seed, FindPublic, DemoUserFound, DemoProviderFound,
                    CreateDemoServices, Stays
<1> QED
  BY <1>2, <1>3

LEMMA ApprovalStep == TypeOK /\ ApprovalInv /\ [Next]_vars => ApprovalInv'
<1> SUFFICES ASSUME TypeOK, ApprovalInv, [Next]_vars PROVE ApprovalInv'
  OBVIOUS
<1>1. ASSUME NEW r \in Requests, NEW o \in Owners, CreateProvider(r, o)
      PROVE  ApprovalInv'
  <2>1. \A q \in Requests : call'[q].pc = "moving" => call'[q] = call[q]
    BY <1>1 DEF CreateProvider, Enter, TypeOK
  <2> QED
    BY <1>1, <2>1, WriteKeepsApproval DEF CreateProvider, ApprovalInv
<1>2. ASSUME NEW r \in Requests, NEW o \in Owners, Submit(r, o)
      PROVE  ApprovalInv'
  BY <1>2, LoadKeepsApproval DEF Submit
<1>3. ASSUME NEW r \in Requests, NEW o \in Owners, AdminHandler(r, o)
      PROVE  ApprovalInv'
  BY <1>3, LoadKeepsApproval
  DEF AdminHandler, ReviewProvider, ApproveProvider, RequestChanges, RejectProvider,
      SuspendProvider, ReinstateProvider, Moderate, Stays
<1>4. ASSUME NEW r \in Requests, CommitCreate(r)
      PROVE  ApprovalInv'
  <2>1. \A o \in Owners : /\ provider'[o].status = provider[o].status
                          /\ provider'[o].verifiedAt = provider[o].verifiedAt
    BY <1>4 DEF CommitCreate, TypeOK, Provider
  <2> QED
    BY <1>4, <2>1, WriteKeepsApproval, LeaveMovesNobody DEF CommitCreate, ApprovalInv
<1>5. ASSUME NEW r \in Requests,
             \/ CommitSubmit(r) \/ CommitReview(r) \/ CommitSuspend(r)
             \/ CommitReinstate(r) \/ CommitApprove(r) \/ CommitChanges(r)
             \/ CommitReject(r)
      PROVE  ApprovalInv'
  <2> DEFINE o == call[r].owner
  <2>1. /\ call[r].pc = "moving"
        /\ Update(r, StatusWritten(r), VerificationWritten(r), VerifiedAtWritten(r))
    BY <1>5, TransitionWrites
  <2>2. /\ provider'[o].status = StatusWritten(r)
        /\ provider'[o].verifiedAt = VerifiedAtWritten(r)
        /\ \A p \in Owners : p # o => provider'[p] = provider[p]
    BY <1>5, TransitionWrites, UpdateEffect
  <2>3. o \notin planted =>
          /\ o \in vetted
          /\ call[r].to \in {"listed", "suspended"} => provider[o].verifiedAt
    BY <2>1 DEF ApprovalInv
  <2>4. \A p \in Owners \ planted :
          /\ provider[p].verifiedAt => provider'[p].verifiedAt
          /\ \/ provider'[p].status = provider[p].status
             \/ /\ p \in vetted
                /\ provider'[p].status \in {"approved", "listed", "suspended"}
                     => provider'[p].verifiedAt
    BY <2>2, <2>3 DEF StatusWritten, VerifiedAtWritten, Row
  <2>5. Leave(r) /\ UNCHANGED <<vetted, planted>>
    BY <2>1 DEF Update
  <2> QED
    BY <2>4, <2>5, WriteKeepsApproval, LeaveMovesNobody DEF ApprovalInv
<1>6. ASSUME NEW r \in Requests, Fail(r)
      PROVE  ApprovalInv'
  BY <1>6, WriteKeepsApproval, LeaveMovesNobody DEF Fail, ApprovalInv
<1>7. ASSUME NEW o \in Owners, Owner(o)
      PROVE  ApprovalInv'
  <2>1. \A p \in Owners : /\ provider'[p].status = provider[p].status
                          /\ provider'[p].verifiedAt = provider[p].verifiedAt
    BY <1>7 DEF Owner, Register, UpdateOwnProvider, ChangeServices, UploadDocument,
                DeleteDocument, TypeOK, Provider
  <2>2. UNCHANGED <<call, vetted, planted>>
    BY <1>7 DEF Owner, Register, UpdateOwnProvider, ChangeServices, UploadDocument,
                DeleteDocument
  <2> QED
    BY <2>1, <2>2, WriteKeepsApproval DEF ApprovalInv
<1>8. CASE UNCHANGED vars
  BY <1>8, WriteKeepsApproval DEF vars, ApprovalInv
<1>9. ASSUME NEW r \in Requests, SeedDemoData(r) \/ Seed(r)
      PROVE  ApprovalInv'
  <2>1. /\ planted \subseteq planted' /\ planted' \subseteq Seeded \cup {DemoUser}
        /\ UNCHANGED vetted
        /\ \A o \in Owners \ planted' : provider'[o] = provider[o]
        /\ \A q \in Requests : call'[q].pc = "moving" => call'[q] = call[q]
    BY <1>9, SeedLeavesRows DEF ApprovalInv
  <2> QED
    BY <2>1, WriteKeepsApproval
<1> QED
  BY <1>1, <1>2, <1>3, <1>4, <1>5, <1>6, <1>7, <1>8, <1>9 DEF Next, Finish

\* What the public sees was approved once, and complete once, whatever stale
\* transitions of concurrent requests are committed in which order
\* (PublicWasApproved); only what a seed has inserted was not, and that is the
\* provider of DEMO_EMAIL or of prisma/seed.ts.
THEOREM PublicIsApproved == ProvidersAssumption => (Spec => []PublicWasApproved)
<1> SUFFICES ASSUME ProvidersAssumption PROVE Spec => []PublicWasApproved
  OBVIOUS
<1>1. Init => ApprovalInv
  BY DEF Init, ApprovalInv, Idle, NoProvider
<1>2. ApprovalInv => PublicWasApproved
  BY DEF ApprovalInv, PublicWasApproved
<1>3. Spec => []TypeOK
  BY ProvidersTypeCorrect
<1> QED
  BY <1>1, <1>2, <1>3, ApprovalStep, PTL DEF Spec

-----------------------------------------------------------------------------
(* One request at a time                                                   *)

\* No two requests are ever in flight together.
OneAtATime == \A q, r \in Requests : q = r

\* The strengthening of ListedIsVerified and of the refinement: with nobody
\* else about, a request is still allowed to make the transition it has read
\* for, and whoever has been approved is verified until changes are due.
FreshInv ==
  /\ \A o \in Owners \ planted : provider[o].status \in {"approved", "listed", "suspended"}
       => provider[o].verification = "verified"
  /\ \A r \in Requests : call[r].pc = "moving"
       => Machine!CanTransition(provider[call[r].owner].status, call[r].to)

\* The machine that is asked is the one ProviderLifecycle follows.
LEMMA SameMachine ==
  ASSUME NEW o \in Owners
  PROVE  /\ Lifecycle(o)!ProviderStatus = ProviderStatus
         /\ \A from, to : Lifecycle(o)!CanTransition(from, to)
                            <=> Machine!CanTransition(from, to)
BY DEF Lifecycle!ProviderStatus, Lifecycle!CanTransition, Machine!CanTransition,
       Lifecycle!AllowedTransitions, Machine!AllowedTransitions

\* A step that leaves statuses alone, and starts no transition but an allowed one.
LEMMA QuietStep ==
  ASSUME FreshInv,
         \A o \in Owners : /\ provider'[o].status = provider[o].status
                           /\ provider'[o].verification = provider[o].verification,
         TypeOK, UNCHANGED planted,
         \A q \in Requests : call'[q].pc = "moving" =>
           \/ call'[q] = call[q]
           \/ /\ call'[q].owner \in Owners
              /\ Machine!CanTransition(provider[call'[q].owner].status, call'[q].to)
  PROVE  FreshInv' /\ LifecycleStep
<1>1. \A q \in Requests : call[q].pc = "moving" => call[q].owner \in Owners
  BY CallFields DEF TypeOK
<1>2. FreshInv'
  BY <1>1 DEF FreshInv, Machine!CanTransition, Machine!AllowedTransitions
<1>3. LifecycleStep
  BY DEF LifecycleStep, Lifecycle!lifecycleVars
<1> QED
  BY <1>2, <1>3

\* A read starts an allowed transition and no other.
LEMMA LoadIsAllowed ==
  ASSUME TypeOK, NEW r \in Requests, NEW o \in Owners, NEW to, Load(r, o, to)
  PROVE  \A q \in Requests : call'[q].pc = "moving" =>
           \/ call'[q] = call[q]
           \/ /\ call'[q].owner \in Owners
              /\ Machine!CanTransition(provider[call'[q].owner].status, call'[q].to)
BY DEF Load, Enter, TypeOK

\* A transaction that writes what its machine allowed makes that transition.
LEMMA WriteIsMove ==
  ASSUME TypeOK, FreshInv, OneAtATime, NEW r \in Requests,
         \/ CommitSubmit(r) \/ CommitReview(r) \/ CommitSuspend(r)
         \/ CommitReinstate(r) \/ CommitApprove(r) \/ CommitChanges(r)
         \/ CommitReject(r)
  PROVE  FreshInv' /\ LifecycleStep
<1> DEFINE to == call[r].to
<1>0. PICK o \in Owners : o = call[r].owner
  BY TransitionWrites
<1> DEFINE v == provider[o].verification
<1>1. /\ call[r].pc = "moving"
      /\ to \in ProviderStatus \ {"draft"}
      /\ Update(r, StatusWritten(r), VerificationWritten(r), VerifiedAtWritten(r))
  BY TransitionWrites
<1>2. /\ provider'[o].status = StatusWritten(r)
      /\ provider'[o].verification = VerificationWritten(r)
      /\ \A p \in Owners : p # o => provider'[p] = provider[p]
  BY <1>0, TransitionWrites, UpdateEffect
<1>3. /\ Machine!CanTransition(provider[o].status, to)
      /\ o \notin planted /\ provider[o].status \in {"approved", "listed", "suspended"}
           => v = "verified"
      /\ provider[o].status \in ProviderStatus
  BY <1>0, <1>1 DEF FreshInv, TypeOK, Provider
<1>4. o \notin planted /\ to \in {"listed", "suspended"} => v = "verified"
  BY <1>1, <1>3, TransitionFacts
<1>5. \A q \in Requests : call'[q].pc # "moving"
  BY <1>1 DEF OneAtATime, Update, Leave, Idle, TypeOK
<1>6. UNCHANGED planted /\ FreshInv'
  <2>1. o \notin planted /\ StatusWritten(r) \in {"approved", "listed", "suspended"}
          => VerificationWritten(r) = "verified"
    BY <1>0, <1>4 DEF StatusWritten, VerificationWritten, Row
  <2>2. UNCHANGED planted
    BY <1>1 DEF Update
  <2> QED
    BY <1>2, <1>5, <2>1, <2>2 DEF FreshInv
<1>7. ASSUME o \notin planted PROVE Lifecycle(o)!LifecycleNext
  <2>1. CASE to = "approved"
    <3>1. provider'[o].status = "listed" /\ provider'[o].verification = "verified"
      BY <1>2, <2>1 DEF StatusWritten, VerificationWritten
    <3>2. Machine!CanTransition("approved", "listed")
      BY DEF Machine!CanTransition, Machine!AllowedTransitions
    <3> QED
      BY <1>1, <1>3, <2>1, <3>1, <3>2, SameMachine
      DEF Lifecycle!LifecycleNext, Lifecycle!ApproveAndList
  <2>2. CASE to # "approved"
    <3>1. provider'[o].status = to
      BY <1>2, <2>2 DEF StatusWritten
    <3>2. provider'[o].verification \in {Lifecycle(o)!VerificationOf(to, v),
                                         Lifecycle(o)!VerificationOf(to, "pending")}
      BY <1>0, <1>1, <1>2, <1>4, <1>7, <2>2
      DEF VerificationWritten, Row, Lifecycle!VerificationOf
    <3> QED
      BY <1>1, <1>3, <3>1, <3>2, SameMachine
      DEF Lifecycle!LifecycleNext, Lifecycle!Move
  <2> QED
    BY <2>1, <2>2
<1>8. LifecycleStep
  BY <1>2, <1>6, <1>7 DEF LifecycleStep, Lifecycle!lifecycleVars
<1> QED
  BY <1>6, <1>8

LEMMA FreshStep ==
  OneAtATime /\ TypeOK /\ FreshInv /\ [Next]_vars => FreshInv' /\ LifecycleStep
<1> SUFFICES ASSUME OneAtATime, TypeOK, FreshInv, [Next]_vars
             PROVE  FreshInv' /\ LifecycleStep
  OBVIOUS
<1>1. ASSUME NEW r \in Requests, NEW o \in Owners, CreateProvider(r, o)
      PROVE  FreshInv' /\ LifecycleStep
  <2>1. \A q \in Requests : call'[q].pc = "moving" => call'[q] = call[q]
    BY <1>1 DEF CreateProvider, Enter, TypeOK
  <2> QED
    BY <1>1, <2>1, QuietStep DEF CreateProvider
<1>2. ASSUME NEW r \in Requests, NEW o \in Owners, Submit(r, o)
      PROVE  FreshInv' /\ LifecycleStep
  BY <1>2, LoadIsAllowed, QuietStep DEF Submit
<1>3. ASSUME NEW r \in Requests, NEW o \in Owners, AdminHandler(r, o)
      PROVE  FreshInv' /\ LifecycleStep
  BY <1>3, LoadIsAllowed, QuietStep
  DEF AdminHandler, ReviewProvider, ApproveProvider, RequestChanges, RejectProvider,
      SuspendProvider, ReinstateProvider, Moderate, Stays
<1>4. ASSUME NEW r \in Requests, CommitCreate(r)
      PROVE  FreshInv' /\ LifecycleStep
  <2>1. \A o \in Owners : /\ provider'[o].status = provider[o].status
                          /\ provider'[o].verification = provider[o].verification
    BY <1>4 DEF CommitCreate, TypeOK, Provider
  <2> QED
    BY <1>4, <2>1, QuietStep, LeaveMovesNobody DEF CommitCreate
<1>5. ASSUME NEW r \in Requests,
             \/ CommitSubmit(r) \/ CommitReview(r) \/ CommitSuspend(r)
             \/ CommitReinstate(r) \/ CommitApprove(r) \/ CommitChanges(r)
             \/ CommitReject(r)
      PROVE  FreshInv' /\ LifecycleStep
  BY <1>5, WriteIsMove
<1>6. ASSUME NEW r \in Requests, Fail(r)
      PROVE  FreshInv' /\ LifecycleStep
  BY <1>6, QuietStep, LeaveMovesNobody DEF Fail
<1>7. ASSUME NEW o \in Owners, Owner(o)
      PROVE  FreshInv' /\ LifecycleStep
  <2>1. \A p \in Owners : /\ provider'[p].status = provider[p].status
                          /\ provider'[p].verification = provider[p].verification
    BY <1>7 DEF Owner, Register, UpdateOwnProvider, ChangeServices, UploadDocument,
                DeleteDocument, TypeOK, Provider
  <2>2. UNCHANGED <<call, planted>>
    BY <1>7 DEF Owner, Register, UpdateOwnProvider, ChangeServices, UploadDocument,
                DeleteDocument
  <2> QED
    BY <2>1, <2>2, QuietStep
<1>8. CASE UNCHANGED vars
  BY <1>8, QuietStep DEF vars
<1>9. ASSUME NEW r \in Requests, SeedDemoData(r) \/ Seed(r)
      PROVE  FreshInv' /\ LifecycleStep
  <2>1. \A q \in Requests : call'[q].pc # "moving"
    BY <1>9, SeedLeavesRows DEF OneAtATime
  <2>2. /\ planted \subseteq planted'
        /\ \A o \in Owners \ planted' : provider'[o] = provider[o]
    BY <1>9, SeedLeavesRows
  <2>3. FreshInv'
    BY <2>1, <2>2 DEF FreshInv
  <2>4. LifecycleStep
    BY <2>2 DEF LifecycleStep, Lifecycle!lifecycleVars
  <2> QED
    BY <2>3, <2>4
<1> QED
  BY <1>1, <1>2, <1>3, <1>4, <1>5, <1>6, <1>7, <1>8, <1>9 DEF Next, Finish

LEMMA FreshInit == Init => FreshInv
BY DEF Init, FreshInv, Idle, NoProvider

\* When no two requests overlap, whoever is listed is verified, but for the providers
\* that seedDemoData and prisma/seed.ts insert (ListedIsVerified).
THEOREM ListedVerified ==
  ProvidersAssumption /\ OneAtATime => (Spec => []ListedIsVerified)
<1> SUFFICES ASSUME ProvidersAssumption, OneAtATime PROVE Spec => []ListedIsVerified
  OBVIOUS
<1>1. FreshInv => ListedIsVerified
  BY DEF FreshInv, ListedIsVerified
<1>2. TypeOK /\ FreshInv /\ [Next]_vars => FreshInv'
  BY FreshStep
<1>3. Spec => []TypeOK
  BY ProvidersTypeCorrect
<1> QED
  BY <1>1, <1>2, <1>3, FreshInit, PTL DEF Spec

\* When no two requests overlap, the handlers move each provider but those a seed has
\* inserted as ProviderLifecycle says, by its transitions only (ImplementsLifecycle).
THEOREM FollowsLifecycle ==
  ProvidersAssumption /\ OneAtATime => (Spec => ImplementsLifecycle)
<1> SUFFICES ASSUME ProvidersAssumption, OneAtATime PROVE Spec => ImplementsLifecycle
  OBVIOUS
<1>1. Init => LifecycleBegins
  BY DEF Init, LifecycleBegins, Lifecycle!LifecycleInit, NoProvider
<1>2. TypeOK /\ FreshInv /\ [Next]_vars => FreshInv' /\ LifecycleStep
  BY FreshStep
<1>3. Spec => []TypeOK
  BY ProvidersTypeCorrect
<1> QED
  BY <1>1, <1>2, <1>3, FreshInit, PTL DEF Spec, ImplementsLifecycle
=============================================================================
