------------------------------ MODULE Browser ------------------------------
(***************************************************************************)
(* The pages and clients of the frontend.  Each behaviour is one of a      *)
(* single component, `part`, while the others stay as they begin.          *)
(***************************************************************************)
EXTENDS Integers, FiniteSets, Sequences

CONSTANTS
  Parts, \* the components of the behaviours looked at
  None   \* no token, no thread, nobody

CONSTANTS
  Reviewers, ListChanges, ApplicationChanges, DecisionChanges, \* lists, applications, decisions
  Clicks, ProfileChanges,                                      \* onboarding
  Travelers, Dates, Guests, Capacity, FirstDate, FirstGuests,  \* new booking,
  MaxRequests,                                                 \* also
  Files, Types, FirstType, Mime, Size,                         \* uploads
  Editors, FormFields, Optional, Dropped, Values, Empty, MaxSaves,   \* destination, profile
  Users, Admins, Calls,                                        \* signed in
  Tabs, Requests, MaxTokens,                                   \* api client
  Threads, OneThread, MaxMessages, MaxSockets                  \* rooms, thread

VARIABLES
  part,                                                        \* the component
  status, version, late, charged, bookingCache, bookingPage,
  bookingDialog, payment, bookingOwn,                          \* BookingPages
  moderated, adminCache, adminPage, adminDialog, adminOwn,     \* AdminPages
  provider, profile, lists, shown, submit, mine, submitted,    \* Onboarding
  listed, known, wizard, requests, bookings, answers,          \* NewBooking
  uploading, type, zone, upload, chosen, adrift, latest, disk,
  docs, removed,                                               \* Uploads
  row, cached, served, form, save, from, typed, saves,         \* EditForms
  user, isLoading, token, pathname, me, resent, refreshing,
  asker, waiting, signing, leaving, fetching, rows, left,      \* SignedIn
  tab, localStorage, session, req, abandoned,                  \* ApiClient
  sockets, manager, outbox, rooms, denied, frames, signedIn,
  selected, hooked, stored, threadCache, arriving, heard                 \* ChatClient

bookingVars == <<status, version, late, charged, bookingCache, bookingPage,
                 bookingDialog, payment, bookingOwn>>
adminVars   == <<moderated, adminCache, adminPage, adminDialog, adminOwn>>
ownerVars   == <<provider, profile, lists, shown, submit, mine, submitted>>
wizardVars  == <<listed, known, wizard, requests, bookings, answers>>
uploadVars  == <<uploading, type, zone, upload, chosen, adrift, latest, disk, docs, removed>>
editVars    == <<row, cached, served, form, save, from, typed, saves>>
userVars    == <<user, isLoading, token, pathname, me, resent, refreshing, asker, waiting, signing,
                 leaving, fetching, rows, left>>
clientVars  == <<tab, localStorage, session, req, abandoned>>
chatVars    == <<sockets, manager, outbox, rooms, denied, frames, signedIn, selected, hooked,
                 stored, threadCache, arriving, heard>>

vars == <<part, bookingVars, adminVars, ownerVars, wizardVars, uploadVars, editVars, userVars,
          clientVars, chatVars>>

-----------------------------------------------------------------------------
(* The instances                                                           *)

\* The traveler's pages, and the provider's, which the others keep changing.
Traveler == INSTANCE BookingPages WITH
  Browsers <- {"traveler"}, Elsewhere <- {"accepted"}, Deadline <- FALSE,
  cache <- bookingCache, page <- bookingPage, dialog <- bookingDialog, own <- bookingOwn

ProviderBookings == INSTANCE BookingPages WITH
  Browsers <- {"provider"}, Elsewhere <- Traveler!Status, Deadline <- TRUE,
  cache <- bookingCache, page <- bookingPage, dialog <- bookingDialog, own <- bookingOwn

\* The lists of an administrator, an application, and all decisions on it.
Lists == INSTANCE AdminPages WITH
  Admins <- Reviewers, Shared <- {"users", "reviews"}, MaxChanges <- ListChanges,
  row <- moderated, cache <- adminCache, page <- adminPage, dialog <- adminDialog,
  own <- adminOwn

Applications == INSTANCE AdminPages WITH
  Admins <- Reviewers, Shared <- {"providers", "provider"}, MaxChanges <- ApplicationChanges,
  row <- moderated, cache <- adminCache, page <- adminPage, dialog <- adminDialog,
  own <- adminOwn

Decisions == INSTANCE AdminPages WITH
  Admins <- Reviewers, Shared <- {"provider"}, MaxChanges <- DecisionChanges,
  row <- moderated, cache <- adminCache, page <- adminPage, dialog <- adminDialog,
  own <- adminOwn

Onboarding == INSTANCE Onboarding WITH
  MaxChanges <- ProfileChanges, row <- provider, own <- submitted

New == INSTANCE NewBooking WITH user <- known, cache <- answers

Documents == INSTANCE Uploads WITH First <- FirstType, form <- uploading

\* The form of a destination, and the one of a provider, which follows the row.
Destination == INSTANCE EditForms WITH Fields <- FormFields, Refills <- FALSE

Profile == INSTANCE EditForms WITH
  Fields <- FormFields, Dropped <- {}, Refills <- TRUE

AuthUser == INSTANCE SignedIn WITH Expiry <- TRUE, page <- pathname

\* One page.
Api == INSTANCE ApiClient WITH
  NoToken <- None, stored <- localStorage, server <- session

\* What a thread shows, and which thread the sockets are in.
Thread == INSTANCE ChatClient WITH
  Threads <- OneThread, NoThread <- None, UserChanges <- TRUE, Drops <- TRUE,
  cache <- threadCache, fetching <- arriving

Rooms == INSTANCE ChatClient WITH
  NoThread <- None, MaxMessages <- 0, UserChanges <- TRUE, Drops <- TRUE,
  cache <- threadCache, fetching <- arriving

\* What the components assume of their constants.  None is no value of another
\* kind, and a form begins with a choice it offers.
ASSUME InstancesAssumption ==
  /\ FirstDate \in Dates /\ FirstGuests \in Guests
  /\ FirstType \in Types
  /\ Destination!FieldsAssumption /\ Profile!FieldsAssumption
  /\ MaxSaves \in Nat /\ MaxRequests \in Nat
  /\ None \notin Users /\ None \notin Clicks
  /\ MaxMessages \in Nat /\ MaxSockets \in Nat
  /\ \A s, t \in Tabs : s = t
  /\ MaxTokens \in Nat \ {0} /\ None \notin Api!Token

-----------------------------------------------------------------------------
(* One component runs                                                      *)

\* A component that does not run begins in one way only.
Waiting(name) == part # name

Init ==
  /\ part \in Parts
  /\ IF part = "provider bookings" THEN ProviderBookings!Init ELSE Traveler!Init
  /\ CASE part = "applications" -> Applications!Init
       [] part = "decisions" -> Decisions!Init
       [] OTHER -> Lists!Init
  /\ Waiting("lists") /\ Waiting("applications") /\ Waiting("decisions") =>
       adminPage = [a \in Reviewers |-> "users"]
  /\ Onboarding!Init
  /\ New!Init
  /\ Waiting("new booking") => known = [t \in Travelers |-> TRUE]
  /\ Documents!Init
  /\ Destination!Init
  /\ Waiting("destination") /\ Waiting("profile") =>
       row.fields = [f \in FormFields |-> CHOOSE v \in Values[f] : TRUE]
  /\ AuthUser!Init
  /\ Waiting("signed in") => pathname = "home" /\ token = None
  /\ Api!Init
  /\ IF part = "rooms" THEN Rooms!Init ELSE Thread!Init

\* All tokens, sign-ins, sockets and messages of the instance are used up.
Settled ==
  /\ part \in {"api client", "thread", "rooms"}
  /\ UNCHANGED vars

Next ==
  \/ /\ \/ part = "traveler" /\ Traveler!Next
        \/ part = "provider bookings" /\ ProviderBookings!Next
     /\ UNCHANGED <<part, adminVars, ownerVars, wizardVars, uploadVars, editVars, userVars,
                    clientVars, chatVars>>
  \/ /\ \/ part = "lists" /\ Lists!Next
        \/ part = "applications" /\ Applications!Next
        \/ part = "decisions" /\ Decisions!Next
     /\ UNCHANGED <<part, bookingVars, ownerVars, wizardVars, uploadVars, editVars, userVars,
                    clientVars, chatVars>>
  \/ /\ part = "onboarding"
     /\ Onboarding!Next
     /\ UNCHANGED <<part, bookingVars, adminVars, wizardVars, uploadVars, editVars, userVars,
                    clientVars, chatVars>>
  \/ /\ part = "new booking"
     /\ New!Next
     /\ UNCHANGED <<part, bookingVars, adminVars, ownerVars, uploadVars, editVars, userVars,
                    clientVars, chatVars>>
  \/ /\ part = "uploads"
     /\ Documents!Next
     /\ UNCHANGED <<part, bookingVars, adminVars, ownerVars, wizardVars, editVars, userVars,
                    clientVars, chatVars>>
  \/ /\ \/ part = "destination" /\ Destination!Next
        \/ part = "profile" /\ Profile!Next
     /\ UNCHANGED <<part, bookingVars, adminVars, ownerVars, wizardVars, uploadVars, userVars,
                    clientVars, chatVars>>
  \/ /\ part = "signed in"
     /\ AuthUser!Next
     /\ UNCHANGED <<part, bookingVars, adminVars, ownerVars, wizardVars, uploadVars, editVars,
                    clientVars, chatVars>>
  \/ /\ part = "api client"
     /\ Api!Next
     /\ UNCHANGED <<part, bookingVars, adminVars, ownerVars, wizardVars, uploadVars, editVars,
                    userVars, chatVars>>
  \/ /\ \/ part = "thread" /\ Thread!Next
        \/ part = "rooms" /\ Rooms!Next
     /\ UNCHANGED <<part, bookingVars, adminVars, ownerVars, wizardVars, uploadVars, editVars,
                    userVars, clientVars>>
  \/ Settled

Spec == Init /\ [][Next]_vars

-----------------------------------------------------------------------------
(* Properties.  Each is the one of its component; most say nothing of a    *)
(* component that does not run, for it stays as it begins.                 *)

\* The caches, forms, mutations, tokens and sockets of each component, and what
\* the server keeps for it, are what their types allow.
TypeOK ==
  /\ part \in Parts
  /\ IF part = "provider bookings" THEN ProviderBookings!TypeOK ELSE Traveler!TypeOK
  /\ CASE part = "applications" -> Applications!TypeOK
       [] part = "decisions" -> Decisions!TypeOK
       [] OTHER -> Lists!TypeOK
  /\ Onboarding!TypeOK
  /\ New!TypeOK
  /\ Documents!TypeOK
  /\ Destination!TypeOK
  /\ AuthUser!TypeOK
  /\ Api!TypeOK
  /\ IF part = "rooms" THEN Rooms!TypeOK ELSE Thread!TypeOK

\* What the pages of providers and administrators offer is refused only if the
\* row has changed since the page showed it, but for the approval of an
\* application that nobody has taken into review (getActions, canApprove).
RefusedOnlyWhenStale ==
  /\ part = "provider bookings" => ProviderBookings!RefusedOnlyWhenStale
  /\ part = "applications" => Applications!OfferedIsValidOtherwise
  /\ part = "decisions" => Decisions!OfferedIsValidOtherwise

\* A page from which somebody changed a row comes to show the outcome: the answer
\* of a fetch that began before the change does not stay (onSuccess of the
\* hooks).  Here of bookings, of users and reviews, and of the owner's profile.
\* Not so the page of one booking that has not had it yet when it hears of its
\* own success: it joins the fetch under way (BookingPages!RefetchIsNew).
OwnActionShown ==
  /\ part = "traveler" => Traveler!OwnActionShown
  /\ part = "provider bookings" => ProviderBookings!OwnActionShown
  /\ part = "lists" => Lists!OwnActionShown
  /\ Onboarding!OwnSubmissionShown

\* Whom the server would accept, a page that is up to date offers to submit.
NobodyIsLockedOut == Onboarding!NobodyIsLockedOut

\* A traveler who submits again once the server has answered with a booking, because
\* the answer was lost or the page was loaded again, makes no other of the service
\* for that date; and a booking that the page shows is for the date and the guests
\* that were submitted.
BookedOnceAsSubmitted == New!BookedOnceAsSubmitted

\* A document is recorded as of the type that was selected when its file was
\* chosen, and not before the file is stored.
DocumentsAreStored == Documents!DocumentsAreStored /\ Documents!RecordedAsChosen

\* Whoever saves a form of a row that nobody has saved since it was filled changes
\* nothing but what has been typed into it, though all of it is sent
\* (formToPayload, handleSave); and what is typed into a form that follows the
\* cached row (useEffect) is overwritten only when the row has changed.
EditsAreKept ==
  [][IF part = "profile" THEN Profile!OthersAreKept /\ Profile!TypingIsKept
     ELSE Destination!OthersAreKept /\ Destination!TypingIsKept]_vars

\* Whoever has logged out is gone: no late answer to GET /auth/me and no cached
\* query brings the user or the rows back.  Tokens do that a refresh under way sets
\* after clearTokens and before the page is left (SignedIn!SignedOutForGood).
LoggedOutIsGone == AuthUser!LoggedOutIsGone

\* One user with one page looks like a thief to the server only if a logout ended the
\* session while a refresh was under way, or the page was left that was refreshing
\* (isRefreshing); ApiClient!SessionSurvives says that it never does.
ExchangedOnce == Api!ExchangedOnce

\* When the manager's socket is connected and the server has handled what it emitted,
\* it has been asked over this connection to let it into the room of the manager's
\* current thread, also after the connection broke or another socket took its
\* place, and it has done so, refused or failed.  The current thread is not
\* always the one on the screen (ChatClient!HearsSelected).
RejoinsAfterReconnect ==
  IF part = "rooms" THEN Rooms!RejoinsAfterReconnect ELSE Thread!RejoinsAfterReconnect
=============================================================================
