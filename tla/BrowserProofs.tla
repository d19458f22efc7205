--------------------------- MODULE BrowserProofs ---------------------------
(***************************************************************************)
(* Proofs about pages and clients of the frontend, for all values of their *)
(* constants.                                                              *)
(***************************************************************************)
EXTENDS Browser, FiniteSetTheorems, TLAPS

-----------------------------------------------------------------------------
(* SignedIn                                                                *)

\* The inductive invariant: but for a page that logout is about to unload, nothing
\* holds anybody who has logged out; the tokens never do.
HoldsNoneOf(gone) ==
  /\ user \notin gone /\ fetching \notin gone /\ rows \notin gone /\ refreshing \notin gone
  /\ \A c \in Calls : me[c] \notin gone

NobodyComesBack ==
  /\ AuthUser!TypeOK
  /\ token \notin left
  /\ leaving # "gone" => HoldsNoneOf(left)

USE DEF AuthUser!Somebody, AuthUser!Pages, AuthUser!Guarded

LEMMA AnswersOfMe ==
  ASSUME None \notin Users, NobodyComesBack, NEW c \in Calls, AuthUser!MeEnds(c)
  PROVE  NobodyComesBack'
<1> USE DEF NobodyComesBack, HoldsNoneOf, AuthUser!TypeOK, AuthUser!Ends
<1>1. CASE AuthUser!MeAnswered(c)
  BY <1>1 DEF AuthUser!MeAnswered, AuthUser!Rest
<1>2. CASE AuthUser!MeFails(c)
  BY <1>2 DEF AuthUser!MeFails, AuthUser!ClearTokens, AuthUser!Rest
<1>3. CASE AuthUser!MeUnnamed(c)
  BY <1>3 DEF AuthUser!MeUnnamed, AuthUser!Rest
<1>4. CASE AuthUser!MeUnauthorized(c)
  BY <1>4 DEF AuthUser!MeUnauthorized, AuthUser!Rest
<1> QED
  BY <1>1, <1>2, <1>3, <1>4 DEF AuthUser!MeEnds

LEMMA RefreshOfTokens ==
  ASSUME None \notin Users, NobodyComesBack,
         AuthUser!OtherUnauthorized \/ AuthUser!Refreshed \/ AuthUser!RefreshFails
  PROVE  NobodyComesBack'
<1> USE DEF NobodyComesBack, HoldsNoneOf, AuthUser!TypeOK
<1>1. CASE AuthUser!OtherUnauthorized
  BY <1>1 DEF AuthUser!OtherUnauthorized, AuthUser!Rest
<1>2. CASE AuthUser!Refreshed
  <2>1. /\ refreshing # None /\ token' = refreshing /\ refreshing' = None /\ asker' = FALSE
        /\ left' = IF leaving = "gone" THEN left \ {refreshing} ELSE left
        /\ waiting' = asker
        /\ UNCHANGED <<user, isLoading, pathname, signing, leaving, fetching, rows>>
    BY <1>2 DEF AuthUser!Refreshed
  <2>2. \/ UNCHANGED <<me, resent>>
        \/ \E c \in Calls : me' = [me EXCEPT ![c] = refreshing] /\ resent' = resent \cup {c}
    BY <1>2 DEF AuthUser!Refreshed
  <2> QED
    BY <2>1, <2>2
<1>3. CASE AuthUser!RefreshFails
  BY <1>3 DEF AuthUser!RefreshFails, AuthUser!ClearTokens, AuthUser!Rest
<1> QED
  BY <1>1, <1>2, <1>3

LEMMA SigningInAndOut ==
  ASSUME None \notin Users, NobodyComesBack,
         \/ \E u \in Users : AuthUser!LoginAsked(u)
         \/ AuthUser!LoginAnswered \/ AuthUser!LoginRefused
         \/ AuthUser!LogoutAsked \/ AuthUser!LogoutDone
         \/ AuthUser!Unload \/ AuthUser!Reload
  PROVE  NobodyComesBack'
<1> USE DEF NobodyComesBack, HoldsNoneOf, AuthUser!TypeOK
<1>1. ASSUME NEW u \in Users, AuthUser!LoginAsked(u)
      PROVE  NobodyComesBack'
  BY <1>1 DEF AuthUser!LoginAsked, AuthUser!asked
<1>2. CASE AuthUser!LoginAnswered
  BY <1>2 DEF AuthUser!LoginAnswered, AuthUser!Goto, AuthUser!RefreshUser
<1>3. CASE AuthUser!LoginRefused
  BY <1>3 DEF AuthUser!LoginRefused, AuthUser!asked
<1>4. CASE AuthUser!LogoutAsked
  BY <1>4 DEF AuthUser!LogoutAsked, AuthUser!asked
<1>5. CASE AuthUser!LogoutDone
  BY <1>5 DEF AuthUser!LogoutDone, AuthUser!ClearTokens
<1>6. ASSUME NEW p \in AuthUser!Pages, AuthUser!Load(p)
      PROVE  NobodyComesBack'
  BY <1>6 DEF AuthUser!Load
<1> QED
  BY <1>1, <1>2, <1>3, <1>4, <1>5, <1>6 DEF AuthUser!Unload, AuthUser!Reload

LEMMA PagesOfUser ==
  ASSUME None \notin Users, NobodyComesBack,
         \/ \E p \in AuthUser!Pages : AuthUser!Navigate(p)
         \/ AuthUser!TurnAway \/ AuthUser!Fetch \/ AuthUser!FetchEnds
  PROVE  NobodyComesBack'
<1> USE DEF NobodyComesBack, HoldsNoneOf, AuthUser!TypeOK
<1>1. ASSUME NEW p \in AuthUser!Pages, AuthUser!Navigate(p)
      PROVE  NobodyComesBack'
  BY <1>1 DEF AuthUser!Navigate, AuthUser!Goto, AuthUser!RefreshUser
<1>2. CASE AuthUser!TurnAway
  BY <1>2 DEF AuthUser!TurnAway, AuthUser!Goto, AuthUser!RefreshUser
<1>3. CASE AuthUser!Fetch
  BY <1>3 DEF AuthUser!Fetch, AuthUser!asked
<1>4. CASE AuthUser!FetchEnds
  BY <1>4 DEF AuthUser!FetchEnds, AuthUser!asked
<1> QED
  BY <1>1, <1>2, <1>3, <1>4

\* Whoever has logged out, and got no tokens since, is gone, with any number of users
\* and of calls under way: no late answer and no cached query brings them back.
LEMMA LogoutIsFinal ==
  None \notin Users
    => (AuthUser!Init /\ [][AuthUser!Next]_(AuthUser!vars)
          => [](AuthUser!TypeOK /\ AuthUser!LoggedOutIsGone))
<1> SUFFICES ASSUME None \notin Users
             PROVE  AuthUser!Init /\ [][AuthUser!Next]_(AuthUser!vars)
                      => [](AuthUser!TypeOK /\ AuthUser!LoggedOutIsGone)
  OBVIOUS
<1>1. AuthUser!Init => NobodyComesBack
  BY DEF AuthUser!Init, NobodyComesBack, HoldsNoneOf, AuthUser!TypeOK
<1>2. NobodyComesBack /\ [AuthUser!Next]_AuthUser!vars => NobodyComesBack'
  <2>1. NobodyComesBack /\ UNCHANGED AuthUser!vars => NobodyComesBack'
    BY DEF AuthUser!vars, AuthUser!asked, NobodyComesBack, HoldsNoneOf, AuthUser!TypeOK
  <2> QED
    BY <2>1, AnswersOfMe, RefreshOfTokens, SigningInAndOut, PagesOfUser
       DEF AuthUser!Next, AuthUser!MeEnds
<1>3. NobodyComesBack => AuthUser!TypeOK /\ AuthUser!LoggedOutIsGone
  BY DEF NobodyComesBack, HoldsNoneOf, AuthUser!LoggedOutIsGone
<1> QED
  BY <1>1, <1>2, <1>3, PTL

-----------------------------------------------------------------------------
(* Uploads                                                                 *)

\* The inductive invariant: what has been answered is on the disk, the type of a
\* recorded file is chosen for good, and a hidden form has left all uploads adrift.
RecordsAreOfUploads ==
  /\ Documents!TypeOK
  /\ \A f \in Files : upload[f] \in {"stored", "recording", "recorded", "done"} => f \in disk
  /\ \A d \in docs : upload[d.file] # "none" /\ d.file \in disk /\ d.type = chosen[d.file]
  /\ uploading \/ \A f \in Files : upload[f] # "none" => f \in adrift

USE DEF Documents!Stages, Documents!Blank

LEMMA FormOfDocuments ==
  ASSUME FirstType \in Types, RecordsAreOfUploads,
         \/ Documents!ShowForm \/ Documents!HideForm \/ Documents!Clear
         \/ \E t \in Types : Documents!ChooseType(t)
         \/ \E d \in docs : Documents!DeleteDocument(d)
         \/ \E f \in Files : Documents!RefuseFile(f)
  PROVE  RecordsAreOfUploads'
<1> USE DEF RecordsAreOfUploads, Documents!TypeOK
<1>1. CASE Documents!ShowForm
  BY <1>1 DEF Documents!ShowForm
<1>2. CASE Documents!HideForm
  BY <1>2 DEF Documents!HideForm, Documents!Hidden
<1>3. CASE Documents!Clear
  BY <1>3 DEF Documents!Clear
<1>4. ASSUME NEW t \in Types, Documents!ChooseType(t)
      PROVE  RecordsAreOfUploads'
  BY <1>4 DEF Documents!ChooseType
<1>5. ASSUME NEW d \in docs, Documents!DeleteDocument(d)
      PROVE  RecordsAreOfUploads'
  BY <1>5 DEF Documents!DeleteDocument
<1>6. ASSUME NEW f \in Files, Documents!RefuseFile(f)
      PROVE  RecordsAreOfUploads'
  BY <1>6 DEF Documents!RefuseFile
<1> QED
  BY <1>1, <1>2, <1>3, <1>4, <1>5, <1>6

LEMMA UploadOfFile ==
  ASSUME FirstType \in Types, RecordsAreOfUploads, NEW f \in Files,
         \/ Documents!HandleFile(f) \/ Documents!Store(f) \/ Documents!UploadAnswered(f)
         \/ Documents!UploadFails(f) \/ Documents!Record(f) \/ Documents!RecordAnswered(f)
         \/ Documents!RecordFails(f)
  PROVE  RecordsAreOfUploads'
<1> USE DEF RecordsAreOfUploads, Documents!TypeOK
<1>1. CASE Documents!HandleFile(f)
  BY <1>1 DEF Documents!HandleFile
<1>2. CASE Documents!Store(f)
  BY <1>2 DEF Documents!Store
<1>3. CASE Documents!UploadAnswered(f)
  BY <1>3 DEF Documents!UploadAnswered
<1>4. CASE Documents!UploadFails(f)
  BY <1>4 DEF Documents!UploadFails
<1>5. CASE Documents!Record(f)
  <2> DEFINE doc == [file |-> f, type |-> chosen[f]]
  <2>1. doc.file = f /\ doc.type = chosen[f]
    OBVIOUS
  <2>2. doc \in [file : Files, type : Types]
    OBVIOUS
  <2>3. docs' = docs \cup {doc}
    BY <1>5 DEF Documents!Record, Documents!RecordedType
  <2> HIDE DEF doc
  <2>4. upload' = [upload EXCEPT ![f] = "recorded"] /\ f \in disk
    BY <1>5 DEF Documents!Record
  <2>5. UNCHANGED <<uploading, type, zone, chosen, adrift, latest, disk, removed>>
    BY <1>5 DEF Documents!Record
  <2>6. \A g \in Files : upload'[g] # "none" => upload[g] # "none"
    BY <1>5 DEF Documents!Record
  <2>7. Documents!TypeOK'
    BY <2>2, <2>3, <2>4, <2>5
  <2>8. \A g \in Files : upload'[g] \in {"stored", "recording", "recorded", "done"} => g \in disk'
    BY <2>4, <2>5
  <2>9. \A d \in docs' : upload'[d.file] # "none" /\ d.file \in disk' /\ d.type = chosen'[d.file]
    BY <2>1, <2>3, <2>4, <2>5
  <2> QED
    BY <2>5, <2>6, <2>7, <2>8, <2>9
<1>6. CASE Documents!RecordAnswered(f)
  <2>1. upload' \in [Files -> Documents!Stages]
    BY <1>6 DEF Documents!RecordAnswered
  <2>2. \A g \in Files : upload'[g] # "none" => upload[g] # "none"
    BY <1>6 DEF Documents!RecordAnswered
  <2>3. UNCHANGED <<type, chosen, latest, disk, docs, removed>>
    BY <1>6 DEF Documents!RecordAnswered
  <2>4. \A g \in Files : upload'[g] \in {"stored", "recording", "recorded", "done"} => g \in disk'
    BY <1>6, <2>3 DEF Documents!RecordAnswered
  <2>5. \A d \in docs' : upload'[d.file] # "none" /\ d.file \in disk' /\ d.type = chosen'[d.file]
    BY <1>6, <2>3 DEF Documents!RecordAnswered
  <2>6. uploading' \in BOOLEAN /\ adrift' \subseteq Files
    BY <1>6 DEF Documents!RecordAnswered, Documents!Hidden
  <2>7. zone' \in [file : Files \cup {None}, uploading : BOOLEAN, success : BOOLEAN, error : BOOLEAN]
    <3> DEFINE blank == [file |-> None, uploading |-> FALSE, success |-> FALSE, error |-> FALSE]
    <3>1. blank \in [file : Files \cup {None}, uploading : BOOLEAN, success : BOOLEAN, error : BOOLEAN]
      OBVIOUS
    <3>2. zone' \in {zone, blank}
      BY <1>6 DEF Documents!RecordAnswered, Documents!Hidden
    <3> HIDE DEF blank
    <3> QED
      BY <3>1, <3>2
  <2>8. uploading' \/ zone' = Documents!Blank
    BY <1>6 DEF Documents!RecordAnswered, Documents!Hidden
  <2>9. uploading' \/ \A g \in Files : upload'[g] # "none" => g \in adrift'
    BY <1>6, <2>2 DEF Documents!RecordAnswered, Documents!Hidden
  <2>10. Documents!TypeOK'
    BY <2>1, <2>3, <2>6, <2>7, <2>8
  <2> QED
    BY <2>4, <2>5, <2>9, <2>10
<1>7. CASE Documents!RecordFails(f)
  BY <1>7 DEF Documents!RecordFails
<1> QED
  BY <1>1, <1>2, <1>3, <1>4, <1>5, <1>6, <1>7

LEMMA DocumentsInvariant == FirstType \in Types => (Documents!Spec => []RecordsAreOfUploads)
<1> SUFFICES ASSUME FirstType \in Types
             PROVE  Documents!Spec => []RecordsAreOfUploads
  OBVIOUS
<1>1. Documents!Init => RecordsAreOfUploads
  <2> SUFFICES ASSUME Documents!Init PROVE RecordsAreOfUploads
    OBVIOUS
  <2>1. zone \in [file : Files \cup {None}, uploading : BOOLEAN, success : BOOLEAN, error : BOOLEAN]
    BY DEF Documents!Init
  <2> QED
    BY <2>1 DEF Documents!Init, RecordsAreOfUploads, Documents!TypeOK
<1>2. RecordsAreOfUploads /\ [Documents!Next]_Documents!vars => RecordsAreOfUploads'
  <2>1. RecordsAreOfUploads /\ UNCHANGED Documents!vars => RecordsAreOfUploads'
    BY DEF Documents!vars, RecordsAreOfUploads, Documents!TypeOK
  <2> QED
    BY <2>1, FormOfDocuments, UploadOfFile DEF Documents!Next
<1> QED
  BY <1>1, <1>2, PTL DEF Documents!Spec

\* Every recorded document has its file on the disk and the type that was selected
\* when the file was chosen, however many uploads are under way at once, removed
\* from the form or answered after it was hidden.
LEMMA RecordedWithItsFile ==
  FirstType \in Types
    => (Documents!Spec => [](Documents!DocumentsAreStored /\ Documents!RecordedAsChosen))
<1>1. RecordsAreOfUploads => Documents!DocumentsAreStored /\ Documents!RecordedAsChosen
  BY DEF RecordsAreOfUploads, Documents!DocumentsAreStored, Documents!RecordedAsChosen
<1> QED
  BY <1>1, DocumentsInvariant, PTL

-----------------------------------------------------------------------------
(* EditForms                                                               *)

\* The inductive invariant: what was read of the row, the copy that a form was
\* filled from and the one that a save sends are those of some version, and where
\* that is the row's own they differ from it only in what has been typed.
DestinationOlder(r) ==
  /\ r.version <= row.version
  /\ r.version = row.version => r.fields = row.fields

DestinationSince(n, shown_, fields) ==
  /\ n <= row.version
  /\ n = row.version => \A f \in FormFields \ fields : shown_[f] = row.fields[f]

DestinationsAreOfVersions ==
  /\ Destination!TypeOK
  /\ \A e \in Editors : DestinationOlder(cached[e])
  /\ \A e \in Editors : served[e] # None =>
       /\ DestinationOlder(served[e])
       /\ cached[e].version <= served[e].version
       /\ cached[e].version = served[e].version => cached[e] = served[e]
  /\ \A e \in Editors : form[e] # None => DestinationSince(from[e], form[e], typed[e])
  /\ \A e \in Editors : save[e] # None =>
       DestinationSince(save[e].from, save[e].form, save[e].typed)

LEMMA DestinationRowChanges ==
  ASSUME DestinationsAreOfVersions, row' \in Destination!Row, row'.version = row.version + 1,
         UNCHANGED <<cached, served, form, from, typed>>,
         NEW e \in Editors, save' = save \/ save' = [save EXCEPT ![e].stored = TRUE],
         save' = save \/ save[e] # None,
         saves' \in 0..MaxSaves
  PROVE  DestinationsAreOfVersions'
<1> USE DEF DestinationsAreOfVersions, Destination!TypeOK
<1>1. row.version \in Nat
  BY DEF Destination!Row
<1>2. \A n \in Nat : n <= row.version => n <= row'.version /\ n # row'.version
  BY <1>1
<1>3. \A d \in Editors : DestinationOlder(cached[d])'
  BY <1>2 DEF DestinationOlder, Destination!Row
<1>4. \A d \in Editors : served[d] # None => DestinationOlder(served[d])'
  BY <1>2 DEF DestinationOlder, Destination!Row
<1>5. \A d \in Editors : form[d] # None => DestinationSince(from[d], form[d], typed[d])'
  BY <1>2 DEF DestinationSince
<1>6. /\ save' \in [Editors -> Destination!Patch \cup {None}]
      /\ \A d \in Editors : save'[d] # None => save[d] # None /\ save'[d].from = save[d].from
  <2>1. CASE save' = save
    BY <2>1
  <2>2. CASE save' # save
    <3>1. save[e] \in Destination!Patch
      BY <2>2
    <3>2. [save[e] EXCEPT !.stored = TRUE] \in Destination!Patch
      BY <3>1 DEF Destination!Patch
    <3>3. [save[e] EXCEPT !.stored = TRUE].from = save[e].from
      BY <3>1 DEF Destination!Patch
    <3>4. save' = [save EXCEPT ![e] = [save[e] EXCEPT !.stored = TRUE]]
      BY <2>2
    <3> QED
      BY <2>2, <3>2, <3>3, <3>4
  <2> QED
    BY <2>1, <2>2
<1>7. \A d \in Editors : save'[d] # None =>
        DestinationSince(save[d].from, save[d].form, save[d].typed)'
  <2> SUFFICES ASSUME NEW d \in Editors, save'[d] # None
               PROVE  DestinationSince(save[d].from, save[d].form, save[d].typed)'
    OBVIOUS
  <2>1. save[d] \in Destination!Patch /\ save'[d].from = save[d].from /\ save[d].from <= row.version
    BY <1>6 DEF DestinationSince
  <2>2. save'[d].from <= row'.version /\ save'[d].from # row'.version
    BY <1>2, <2>1 DEF Destination!Patch
  <2> QED
    BY <2>2 DEF DestinationSince
<1> QED
  BY <1>3, <1>4, <1>5, <1>6, <1>7

LEMMA DestinationFilled ==
  ASSUME DestinationsAreOfVersions, NEW e \in Editors, NEW r \in Destination!Row,
         DestinationOlder(r), Destination!Filled(e, r), UNCHANGED row
  PROVE  /\ form' \in [Editors -> Destination!Contents \cup {None}]
         /\ from' \in [Editors -> Nat]
         /\ typed' \in [Editors -> SUBSET FormFields]
         /\ from'[e] = r.version
         /\ \A d \in Editors : form'[d] # None => DestinationSince(from[d], form[d], typed[d])'
         /\ \A d \in Editors \ {e} :
              form'[d] = form[d] /\ from'[d] = from[d] /\ typed'[d] = typed[d]
<1> USE DEF DestinationsAreOfVersions, Destination!TypeOK, Destination!Filled, Destination!Copy
<1>1. r.fields \in Destination!Contents /\ r.version \in Nat
  BY DEF Destination!Row
<1>2. /\ form' \in [Editors -> Destination!Contents \cup {None}]
      /\ from' \in [Editors -> Nat]
      /\ typed' \in [Editors -> SUBSET FormFields]
      /\ form'[e] = r.fields /\ from'[e] = r.version /\ typed'[e] = {}
  BY <1>1
<1>3. \A d \in Editors \ {e} :
         form'[d] = form[d] /\ from'[d] = from[d] /\ typed'[d] = typed[d]
  OBVIOUS
<1>4. DestinationSince(from[e], form[e], typed[e])'
  BY <1>2 DEF DestinationSince, DestinationOlder
<1>5. \A d \in Editors \ {e} : form'[d] # None => DestinationSince(from[d], form[d], typed[d])'
  BY <1>3 DEF DestinationSince
<1> QED
  BY <1>2, <1>3, <1>4, <1>5

LEMMA DestinationStep ==
  ASSUME MaxSaves \in Nat, DestinationsAreOfVersions, Destination!Next
  PROVE  DestinationsAreOfVersions'
<1> USE DEF DestinationsAreOfVersions, Destination!TypeOK
<1>1. ASSUME NEW e \in Editors, Destination!Open(e)
      PROVE  DestinationsAreOfVersions'
  <2>1. /\ cached[e] \in Destination!Row /\ DestinationOlder(cached[e])
        /\ Destination!Filled(e, cached[e])
    BY <1>1 DEF Destination!Open
  <2>2. UNCHANGED <<row, cached, served, save, saves>>
    BY <1>1 DEF Destination!Open
  <2> QED
    BY <1>1, <2>1, <2>2, DestinationFilled DEF DestinationSince, DestinationOlder
<1>2. ASSUME NEW e \in Editors, Destination!Close(e)
      PROVE  DestinationsAreOfVersions'
  <2>1. \A d \in Editors : form'[d] # None =>
          form'[d] = form[d] /\ from'[d] = from[d] /\ typed'[d] = typed[d]
    BY <1>2 DEF Destination!Close, Destination!Closed
  <2>2. /\ form' \in [Editors -> Destination!Contents \cup {None}]
        /\ from' \in [Editors -> Nat]
        /\ typed' \in [Editors -> SUBSET FormFields]
    BY <1>2 DEF Destination!Close, Destination!Closed
  <2> QED
    BY <1>2, <2>1, <2>2 DEF Destination!Close, DestinationSince, DestinationOlder
<1>3. ASSUME NEW e \in Editors, Destination!Submit(e)
      PROVE  DestinationsAreOfVersions'
  <2> DEFINE patch == [form |-> form[e], from |-> from[e], typed |-> typed[e], stored |-> FALSE]
  <2>1. patch \in Destination!Patch
    BY <1>3 DEF Destination!Submit, Destination!Patch
  <2>2. save' = [save EXCEPT ![e] = patch] /\ save' \in [Editors -> Destination!Patch \cup {None}]
    BY <1>3, <2>1 DEF Destination!Submit
  <2>3. UNCHANGED <<row, cached, served, form, from, typed>> /\ saves' \in 0..MaxSaves
    BY <1>3 DEF Destination!Submit
  <2>4. \A d \in Editors \ {e} : save'[d] = save[d]
    BY <2>2
  <2>5. /\ save'[e] = patch
        /\ save'[e].from = from[e] /\ save'[e].form = form[e] /\ save'[e].typed = typed[e]
    BY <2>2
  <2>6. DestinationSince(save[e].from, save[e].form, save[e].typed)'
    BY <1>3, <2>3, <2>5 DEF Destination!Submit, DestinationSince
  <2> HIDE DEF patch
  <2> QED
    BY <2>2, <2>3, <2>4, <2>6 DEF DestinationSince, DestinationOlder
<1>4. ASSUME NEW e \in Editors, NEW f \in FormFields, NEW v \in Destination!Choices(f),
             Destination!Type(e, f, v)
      PROVE  DestinationsAreOfVersions'
  <2>1. form[e] \in Destination!Contents
    BY <1>4 DEF Destination!Type
  <2>2. [form[e] EXCEPT ![f] = v] \in Destination!Contents
    BY <2>1 DEF Destination!Contents
  <2>3. \A g \in FormFields \ {f} : [form[e] EXCEPT ![f] = v][g] = form[e][g]
    BY <2>1 DEF Destination!Contents
  <2>4. form' = [form EXCEPT ![e] = [form[e] EXCEPT ![f] = v]]
    BY <1>4 DEF Destination!Type
  <2>5. UNCHANGED <<row, cached, served, save, from, saves>>
    BY <1>4 DEF Destination!Type
  <2>6. typed' = [typed EXCEPT ![e] = typed[e] \cup {f}]
    BY <1>4 DEF Destination!Type
  <2>7. DestinationSince(from[e], form[e], typed[e])'
    BY <1>4, <2>3, <2>4, <2>5, <2>6 DEF Destination!Type, DestinationSince
  <2>8. \A d \in Editors \ {e} : form'[d] = form[d] /\ typed'[d] = typed[d]
    BY <2>4, <2>6
  <2>9. \A d \in Editors : form'[d] # None => form[d] # None
    BY <1>4, <2>8 DEF Destination!Type
  <2>10. \A d \in Editors : form'[d] # None => DestinationSince(from[d], form[d], typed[d])'
    BY <2>5, <2>7, <2>8, <2>9 DEF DestinationSince
  <2> QED
    BY <2>2, <2>4, <2>5, <2>6, <2>9, <2>10 DEF DestinationSince, DestinationOlder
<1>5. ASSUME NEW e \in Editors, Destination!Store(e)
      PROVE  DestinationsAreOfVersions'
  <2> DEFINE written == [f \in FormFields |-> IF f \in Destination!Payload(save[e])
                                      THEN save[e].form[f] ELSE row.fields[f]]
  <2>1. save[e] \in Destination!Patch
    BY <1>5 DEF Destination!Store
  <2>2. /\ save[e].form \in Destination!Contents
        /\ row.fields \in Destination!Contents /\ row.version \in Nat
    BY <2>1 DEF Destination!Patch, Destination!Row
  <2>3. written \in Destination!Contents
    BY <2>2 DEF Destination!Contents
  <2>4. row' = [fields |-> written, version |-> row.version + 1]
    BY <1>5 DEF Destination!Store
  <2>5. row' \in Destination!Row /\ row'.version = row.version + 1
    BY <2>2, <2>3, <2>4 DEF Destination!Row
  <2>6. /\ UNCHANGED <<cached, served, form, from, typed, saves>>
        /\ save' = [save EXCEPT ![e].stored = TRUE] /\ save[e] # None
    BY <1>5 DEF Destination!Store
  <2> QED
    BY <2>5, <2>6, DestinationRowChanges
<1>6. ASSUME NEW r \in Destination!Contents, Destination!ChangeElsewhere(r)
      PROVE  DestinationsAreOfVersions'
  <2>1. row' \in Destination!Row /\ row'.version = row.version + 1
    BY <1>6 DEF Destination!ChangeElsewhere, Destination!Row
  <2>2. UNCHANGED <<cached, served, form, from, typed, save>> /\ saves' \in 0..MaxSaves
    BY <1>6 DEF Destination!ChangeElsewhere
  <2>3. CASE \E e \in Editors : TRUE
    BY <2>1, <2>2, <2>3, DestinationRowChanges
  <2>4. CASE Editors = {}
    BY <2>1, <2>2, <2>4
  <2> QED
    BY <2>3, <2>4
<1>7. ASSUME NEW e \in Editors, Destination!SaveAnswered(e)
      PROVE  DestinationsAreOfVersions'
  <2>1. \A d \in Editors : form'[d] # None =>
          form'[d] = form[d] /\ from'[d] = from[d] /\ typed'[d] = typed[d]
    BY <1>7 DEF Destination!SaveAnswered, Destination!Closed
  <2>2. /\ form' \in [Editors -> Destination!Contents \cup {None}]
        /\ from' \in [Editors -> Nat]
        /\ typed' \in [Editors -> SUBSET FormFields]
    BY <1>7 DEF Destination!SaveAnswered, Destination!Closed
  <2>3. /\ UNCHANGED <<row, cached, saves>>
        /\ save' = [save EXCEPT ![e] = None] /\ served' = [served EXCEPT ![e] = None]
    BY <1>7 DEF Destination!SaveAnswered
  <2>4. \A d \in Editors : /\ save'[d] # None => save'[d] = save[d]
                           /\ served'[d] # None => served'[d] = served[d]
    BY <2>3
  <2> QED
    BY <2>1, <2>2, <2>3, <2>4 DEF DestinationSince, DestinationOlder
<1>8. ASSUME NEW e \in Editors, Destination!SaveFails(e)
      PROVE  DestinationsAreOfVersions'
  <2>1. \A d \in Editors : save'[d] # None => save'[d] = save[d]
    BY <1>8 DEF Destination!SaveFails
  <2> QED
    BY <1>8, <2>1 DEF Destination!SaveFails, DestinationSince, DestinationOlder
<1>9. ASSUME NEW e \in Editors, Destination!Serve(e)
      PROVE  DestinationsAreOfVersions'
  <2>1. /\ served' = [served EXCEPT ![e] = row]
        /\ UNCHANGED <<row, cached, form, save, from, typed, saves>>
    BY <1>9 DEF Destination!Serve
  <2>2. \A d \in Editors \ {e} : served'[d] = served[d]
    BY <2>1
  <2>3. /\ cached[e].version <= row.version
        /\ cached[e].version = row.version => cached[e] = row
    BY DEF DestinationOlder, Destination!Row
  <2>4. DestinationOlder(row)
    BY DEF DestinationOlder, Destination!Row
  <2> QED
    BY <2>1, <2>2, <2>3, <2>4 DEF DestinationSince, DestinationOlder
<1>10. ASSUME NEW e \in Editors, Destination!FetchFails(e)
       PROVE  DestinationsAreOfVersions'
  <2>1. \A d \in Editors : served'[d] # None => served'[d] = served[d]
    BY <1>10 DEF Destination!FetchFails
  <2> QED
    BY <1>10, <2>1 DEF Destination!FetchFails, DestinationSince, DestinationOlder
<1>11. ASSUME NEW e \in Editors, Destination!Fetched(e)
       PROVE  DestinationsAreOfVersions'
  <2>1. /\ served[e] \in Destination!Row /\ DestinationOlder(served[e])
        /\ served' = [served EXCEPT ![e] = None]
        /\ cached' = [cached EXCEPT ![e] = served[e]]
        /\ UNCHANGED <<row, save, saves>>
    BY <1>11 DEF Destination!Fetched
  <2>2. \A d \in Editors : /\ served'[d] # None => d # e /\ served'[d] = served[d]
                           /\ d # e => cached'[d] = cached[d]
    BY <2>1
  <2>3. cached'[e] = served[e] /\ cached' \in [Editors -> Destination!Row]
    BY <2>1
  <2>4. \A d \in Editors : DestinationOlder(cached[d])'
    BY <2>1, <2>2, <2>3 DEF DestinationOlder
  <2>5. UNCHANGED <<form, from, typed>>
    BY <1>11 DEF Destination!Fetched
  <2> QED
    BY <2>1, <2>2, <2>3, <2>4, <2>5 DEF DestinationSince, DestinationOlder
<1> QED
  BY <1>1, <1>2, <1>3, <1>4, <1>5, <1>6, <1>7, <1>8, <1>9, <1>10, <1>11 DEF Destination!Next

LEMMA DestinationKeepsEdits ==
  ASSUME DestinationsAreOfVersions, Destination!Next
  PROVE  Destination!OthersAreKept /\ Destination!TypingIsKept
<1> USE DEF DestinationsAreOfVersions, Destination!TypeOK
<1>1. Destination!OthersAreKept
  <2> SUFFICES ASSUME NEW e \in Editors, Destination!Stored(e), save[e].from = row.version,
                      NEW f \in FormFields \ save[e].typed
               PROVE  row'.fields[f] = row.fields[f]
    BY DEF Destination!OthersAreKept
  <2>1. Destination!Store(e)
    BY DEF Destination!Stored, Destination!Next, Destination!Open, Destination!Close,
           Destination!Submit,
           Destination!Type, Destination!Store, Destination!SaveAnswered, Destination!SaveFails,
           Destination!Serve, Destination!FetchFails, Destination!Fetched,
           Destination!ChangeElsewhere
  <2>2. save[e].form[f] = row.fields[f]
    BY <2>1 DEF Destination!Store, DestinationSince
  <2>3. row'.fields = [g \in FormFields |->
                         IF g \in Destination!Payload(save[e]) THEN save[e].form[g]
                         ELSE row.fields[g]]
    BY <2>1 DEF Destination!Store
  <2> QED
    BY <2>2, <2>3
<1>2. Destination!TypingIsKept
  <2> SUFFICES ASSUME NEW e \in Editors, form[e] # None, form'[e] # None, form'[e] # form[e]
               PROVE  \/ from[e] # row.version
                      \/ \E f \in typed'[e] : form'[e] = [form[e] EXCEPT ![f] = form'[e][f]]
    BY DEF Destination!TypingIsKept
  <2>1. \/ \E f \in FormFields : \E v \in Destination!Choices(f) : Destination!Type(e, f, v)
        \/ Destination!Fetched(e)
    BY DEF Destination!Next, Destination!Open, Destination!Filled, Destination!Close,
           Destination!Closed, Destination!Submit, Destination!Type, Destination!Store,
           Destination!SaveAnswered,
           Destination!SaveFails, Destination!Serve, Destination!FetchFails, Destination!Fetched,
           Destination!ChangeElsewhere
  <2>2. ASSUME NEW f \in FormFields, NEW v \in Destination!Choices(f), Destination!Type(e, f, v)
        PROVE  \E g \in typed'[e] : form'[e] = [form[e] EXCEPT ![g] = form'[e][g]]
    <3>1. form[e] \in Destination!Contents
      OBVIOUS
    <3>2. form'[e] = [form[e] EXCEPT ![f] = v] /\ f \in typed'[e]
      BY <2>2 DEF Destination!Type
    <3>3. form'[e][f] = v
      BY <3>1, <3>2 DEF Destination!Contents
    <3> QED
      BY <3>2, <3>3
  <2>3. ASSUME Destination!Fetched(e)
        PROVE  FALSE
    BY <2>3 DEF Destination!Fetched
  <2> QED
    BY <2>1, <2>2, <2>3
<1> QED
  BY <1>1, <1>2

LEMMA DestinationEditsAreKept ==
  MaxSaves \in Nat
    => (Destination!Spec =>
          /\ []Destination!TypeOK
          /\ [][Destination!OthersAreKept /\ Destination!TypingIsKept]_Destination!vars)
<1> SUFFICES ASSUME MaxSaves \in Nat
             PROVE  Destination!Spec =>
                      /\ []Destination!TypeOK
                      /\ [][Destination!OthersAreKept /\ Destination!TypingIsKept]_Destination!vars
  OBVIOUS
<1>1. Destination!Init => DestinationsAreOfVersions
  <2> SUFFICES ASSUME Destination!Init
               PROVE  DestinationsAreOfVersions
    OBVIOUS
  <2>1. row \in Destination!Row /\ row.version = 0
    BY DEF Destination!Init, Destination!Row
  <2> QED
    BY <2>1 DEF Destination!Init, DestinationsAreOfVersions, Destination!TypeOK, DestinationOlder
<1>2. DestinationsAreOfVersions /\ [Destination!Next]_Destination!vars => DestinationsAreOfVersions'
  <2>1. DestinationsAreOfVersions /\ UNCHANGED Destination!vars => DestinationsAreOfVersions'
    BY DEF Destination!vars, DestinationsAreOfVersions, Destination!TypeOK, DestinationOlder,
           DestinationSince
  <2> QED
    BY <2>1, DestinationStep
<1>3. DestinationsAreOfVersions => Destination!TypeOK
  BY DEF DestinationsAreOfVersions
<1>4. DestinationsAreOfVersions /\ [Destination!Next]_Destination!vars
        => [Destination!OthersAreKept /\ Destination!TypingIsKept]_Destination!vars
  BY DestinationKeepsEdits
<1> QED
  BY <1>1, <1>2, <1>3, <1>4, PTL DEF Destination!Spec

\* The inductive invariant for a form that follows the cached row: what was read of the row, the copy that a form was
\* filled from and the one that a save sends are those of some version, and where
\* that is the row's own they differ from it only in what has been typed;
\* the form is of the version that is cached.
ProfileOlder(r) ==
  /\ r.version <= row.version
  /\ r.version = row.version => r.fields = row.fields

ProfileSince(n, shown_, fields) ==
  /\ n <= row.version
  /\ n = row.version => \A f \in FormFields \ fields : shown_[f] = row.fields[f]

ProfilesAreOfVersions ==
  /\ Profile!TypeOK
  /\ \A e \in Editors : ProfileOlder(cached[e])
  /\ \A e \in Editors : served[e] # None =>
       /\ ProfileOlder(served[e])
       /\ cached[e].version <= served[e].version
       /\ cached[e].version = served[e].version => cached[e] = served[e]
  /\ \A e \in Editors : form[e] # None => ProfileSince(from[e], form[e], typed[e])
  /\ \A e \in Editors : save[e] # None =>
       ProfileSince(save[e].from, save[e].form, save[e].typed)
  /\ \A e \in Editors : form[e] # None => from[e] = cached[e].version

LEMMA ProfileRowChanges ==
  ASSUME ProfilesAreOfVersions, row' \in Profile!Row, row'.version = row.version + 1,
         UNCHANGED <<cached, served, form, from, typed>>,
         NEW e \in Editors, save' = save \/ save' = [save EXCEPT ![e].stored = TRUE],
         save' = save \/ save[e] # None,
         saves' \in 0..MaxSaves
  PROVE  ProfilesAreOfVersions'
<1> USE DEF ProfilesAreOfVersions, Profile!TypeOK
<1>1. row.version \in Nat
  BY DEF Profile!Row
<1>2. \A n \in Nat : n <= row.version => n <= row'.version /\ n # row'.version
  BY <1>1
<1>3. \A d \in Editors : ProfileOlder(cached[d])'
  BY <1>2 DEF ProfileOlder, Profile!Row
<1>4. \A d \in Editors : served[d] # None => ProfileOlder(served[d])'
  BY <1>2 DEF ProfileOlder, Profile!Row
<1>5. \A d \in Editors : form[d] # None => ProfileSince(from[d], form[d], typed[d])'
  BY <1>2 DEF ProfileSince
<1>6. /\ save' \in [Editors -> Profile!Patch \cup {None}]
      /\ \A d \in Editors : save'[d] # None => save[d] # None /\ save'[d].from = save[d].from
  <2>1. CASE save' = save
    BY <2>1
  <2>2. CASE save' # save
    <3>1. save[e] \in Profile!Patch
      BY <2>2
    <3>2. [save[e] EXCEPT !.stored = TRUE] \in Profile!Patch
      BY <3>1 DEF Profile!Patch
    <3>3. [save[e] EXCEPT !.stored = TRUE].from = save[e].from
      BY <3>1 DEF Profile!Patch
    <3>4. save' = [save EXCEPT ![e] = [save[e] EXCEPT !.stored = TRUE]]
      BY <2>2
    <3> QED
      BY <2>2, <3>2, <3>3, <3>4
  <2> QED
    BY <2>1, <2>2
<1>7. \A d \in Editors : save'[d] # None =>
        ProfileSince(save[d].from, save[d].form, save[d].typed)'
  <2> SUFFICES ASSUME NEW d \in Editors, save'[d] # None
               PROVE  ProfileSince(save[d].from, save[d].form, save[d].typed)'
    OBVIOUS
  <2>1. save[d] \in Profile!Patch /\ save'[d].from = save[d].from /\ save[d].from <= row.version
    BY <1>6 DEF ProfileSince
  <2>2. save'[d].from <= row'.version /\ save'[d].from # row'.version
    BY <1>2, <2>1 DEF Profile!Patch
  <2> QED
    BY <2>2 DEF ProfileSince
<1> QED
  BY <1>3, <1>4, <1>5, <1>6, <1>7

LEMMA ProfileFilled ==
  ASSUME ProfilesAreOfVersions, NEW e \in Editors, NEW r \in Profile!Row,
         ProfileOlder(r), Profile!Filled(e, r), UNCHANGED row
  PROVE  /\ form' \in [Editors -> Profile!Contents \cup {None}]
         /\ from' \in [Editors -> Nat]
         /\ typed' \in [Editors -> SUBSET FormFields]
         /\ from'[e] = r.version
         /\ \A d \in Editors : form'[d] # None => ProfileSince(from[d], form[d], typed[d])'
         /\ \A d \in Editors \ {e} :
              form'[d] = form[d] /\ from'[d] = from[d] /\ typed'[d] = typed[d]
<1> USE DEF ProfilesAreOfVersions, Profile!TypeOK, Profile!Filled, Profile!Copy
<1>1. r.fields \in Profile!Contents /\ r.version \in Nat
  BY DEF Profile!Row
<1>2. /\ form' \in [Editors -> Profile!Contents \cup {None}]
      /\ from' \in [Editors -> Nat]
      /\ typed' \in [Editors -> SUBSET FormFields]
      /\ form'[e] = r.fields /\ from'[e] = r.version /\ typed'[e] = {}
  BY <1>1
<1>3. \A d \in Editors \ {e} :
         form'[d] = form[d] /\ from'[d] = from[d] /\ typed'[d] = typed[d]
  OBVIOUS
<1>4. ProfileSince(from[e], form[e], typed[e])'
  BY <1>2 DEF ProfileSince, ProfileOlder
<1>5. \A d \in Editors \ {e} : form'[d] # None => ProfileSince(from[d], form[d], typed[d])'
  BY <1>3 DEF ProfileSince
<1> QED
  BY <1>2, <1>3, <1>4, <1>5

LEMMA ProfileStep ==
  ASSUME MaxSaves \in Nat, ProfilesAreOfVersions, Profile!Next
  PROVE  ProfilesAreOfVersions'
<1> USE DEF ProfilesAreOfVersions, Profile!TypeOK
<1>1. ASSUME NEW e \in Editors, Profile!Open(e)
      PROVE  ProfilesAreOfVersions'
  <2>1. /\ cached[e] \in Profile!Row /\ ProfileOlder(cached[e])
        /\ Profile!Filled(e, cached[e])
    BY <1>1 DEF Profile!Open
  <2>2. UNCHANGED <<row, cached, served, save, saves>>
    BY <1>1 DEF Profile!Open
  <2> QED
    BY <1>1, <2>1, <2>2, ProfileFilled DEF ProfileSince, ProfileOlder
<1>2. ASSUME NEW e \in Editors, Profile!Close(e)
      PROVE  ProfilesAreOfVersions'
  <2>1. \A d \in Editors : form'[d] # None =>
          form'[d] = form[d] /\ from'[d] = from[d] /\ typed'[d] = typed[d]
    BY <1>2 DEF Profile!Close, Profile!Closed
  <2>2. /\ form' \in [Editors -> Profile!Contents \cup {None}]
        /\ from' \in [Editors -> Nat]
        /\ typed' \in [Editors -> SUBSET FormFields]
    BY <1>2 DEF Profile!Close, Profile!Closed
  <2> QED
    BY <1>2, <2>1, <2>2 DEF Profile!Close, ProfileSince, ProfileOlder
<1>3. ASSUME NEW e \in Editors, Profile!Submit(e)
      PROVE  ProfilesAreOfVersions'
  <2> DEFINE patch == [form |-> form[e], from |-> from[e], typed |-> typed[e], stored |-> FALSE]
  <2>1. patch \in Profile!Patch
    BY <1>3 DEF Profile!Submit, Profile!Patch
  <2>2. save' = [save EXCEPT ![e] = patch] /\ save' \in [Editors -> Profile!Patch \cup {None}]
    BY <1>3, <2>1 DEF Profile!Submit
  <2>3. UNCHANGED <<row, cached, served, form, from, typed>> /\ saves' \in 0..MaxSaves
    BY <1>3 DEF Profile!Submit
  <2>4. \A d \in Editors \ {e} : save'[d] = save[d]
    BY <2>2
  <2>5. /\ save'[e] = patch
        /\ save'[e].from = from[e] /\ save'[e].form = form[e] /\ save'[e].typed = typed[e]
    BY <2>2
  <2>6. ProfileSince(save[e].from, save[e].form, save[e].typed)'
    BY <1>3, <2>3, <2>5 DEF Profile!Submit, ProfileSince
  <2> HIDE DEF patch
  <2> QED
    BY <2>2, <2>3, <2>4, <2>6 DEF ProfileSince, ProfileOlder
<1>4. ASSUME NEW e \in Editors, NEW f \in FormFields, NEW v \in Profile!Choices(f),
             Profile!Type(e, f, v)
      PROVE  ProfilesAreOfVersions'
  <2>1. form[e] \in Profile!Contents
    BY <1>4 DEF Profile!Type
  <2>2. [form[e] EXCEPT ![f] = v] \in Profile!Contents
    BY <2>1 DEF Profile!Contents
  <2>3. \A g \in FormFields \ {f} : [form[e] EXCEPT ![f] = v][g] = form[e][g]
    BY <2>1 DEF Profile!Contents
  <2>4. form' = [form EXCEPT ![e] = [form[e] EXCEPT ![f] = v]]
    BY <1>4 DEF Profile!Type
  <2>5. UNCHANGED <<row, cached, served, save, from, saves>>
    BY <1>4 DEF Profile!Type
  <2>6. typed' = [typed EXCEPT ![e] = typed[e] \cup {f}]
    BY <1>4 DEF Profile!Type
  <2>7. ProfileSince(from[e], form[e], typed[e])'
    BY <1>4, <2>3, <2>4, <2>5, <2>6 DEF Profile!Type, ProfileSince
  <2>8. \A d \in Editors \ {e} : form'[d] = form[d] /\ typed'[d] = typed[d]
    BY <2>4, <2>6
  <2>9. \A d \in Editors : form'[d] # None => form[d] # None
    BY <1>4, <2>8 DEF Profile!Type
  <2>10. \A d \in Editors : form'[d] # None => ProfileSince(from[d], form[d], typed[d])'
    BY <2>5, <2>7, <2>8, <2>9 DEF ProfileSince
  <2> QED
    BY <2>2, <2>4, <2>5, <2>6, <2>9, <2>10 DEF ProfileSince, ProfileOlder
<1>5. ASSUME NEW e \in Editors, Profile!Store(e)
      PROVE  ProfilesAreOfVersions'
  <2> DEFINE written == [f \in FormFields |-> IF f \in Profile!Payload(save[e])
                                      THEN save[e].form[f] ELSE row.fields[f]]
  <2>1. save[e] \in Profile!Patch
    BY <1>5 DEF Profile!Store
  <2>2. /\ save[e].form \in Profile!Contents
        /\ row.fields \in Profile!Contents /\ row.version \in Nat
    BY <2>1 DEF Profile!Patch, Profile!Row
  <2>3. written \in Profile!Contents
    BY <2>2 DEF Profile!Contents
  <2>4. row' = [fields |-> written, version |-> row.version + 1]
    BY <1>5 DEF Profile!Store
  <2>5. row' \in Profile!Row /\ row'.version = row.version + 1
    BY <2>2, <2>3, <2>4 DEF Profile!Row
  <2>6. /\ UNCHANGED <<cached, served, form, from, typed, saves>>
        /\ save' = [save EXCEPT ![e].stored = TRUE] /\ save[e] # None
    BY <1>5 DEF Profile!Store
  <2> QED
    BY <2>5, <2>6, ProfileRowChanges
<1>6. ASSUME NEW r \in Profile!Contents, Profile!ChangeElsewhere(r)
      PROVE  ProfilesAreOfVersions'
  <2>1. row' \in Profile!Row /\ row'.version = row.version + 1
    BY <1>6 DEF Profile!ChangeElsewhere, Profile!Row
  <2>2. UNCHANGED <<cached, served, form, from, typed, save>> /\ saves' \in 0..MaxSaves
    BY <1>6 DEF Profile!ChangeElsewhere
  <2>3. CASE \E e \in Editors : TRUE
    BY <2>1, <2>2, <2>3, ProfileRowChanges
  <2>4. CASE Editors = {}
    BY <2>1, <2>2, <2>4
  <2> QED
    BY <2>3, <2>4
<1>7. ASSUME NEW e \in Editors, Profile!SaveAnswered(e)
      PROVE  ProfilesAreOfVersions'
  <2>1. \A d \in Editors : form'[d] # None =>
          form'[d] = form[d] /\ from'[d] = from[d] /\ typed'[d] = typed[d]
    BY <1>7 DEF Profile!SaveAnswered, Profile!Closed
  <2>2. /\ form' \in [Editors -> Profile!Contents \cup {None}]
        /\ from' \in [Editors -> Nat]
        /\ typed' \in [Editors -> SUBSET FormFields]
    BY <1>7 DEF Profile!SaveAnswered, Profile!Closed
  <2>3. /\ UNCHANGED <<row, cached, saves>>
        /\ save' = [save EXCEPT ![e] = None] /\ served' = [served EXCEPT ![e] = None]
    BY <1>7 DEF Profile!SaveAnswered
  <2>4. \A d \in Editors : /\ save'[d] # None => save'[d] = save[d]
                           /\ served'[d] # None => served'[d] = served[d]
    BY <2>3
  <2> QED
    BY <2>1, <2>2, <2>3, <2>4 DEF ProfileSince, ProfileOlder
<1>8. ASSUME NEW e \in Editors, Profile!SaveFails(e)
      PROVE  ProfilesAreOfVersions'
  <2>1. \A d \in Editors : save'[d] # None => save'[d] = save[d]
    BY <1>8 DEF Profile!SaveFails
  <2> QED
    BY <1>8, <2>1 DEF Profile!SaveFails, ProfileSince, ProfileOlder
<1>9. ASSUME NEW e \in Editors, Profile!Serve(e)
      PROVE  ProfilesAreOfVersions'
  <2>1. /\ served' = [served EXCEPT ![e] = row]
        /\ UNCHANGED <<row, cached, form, save, from, typed, saves>>
    BY <1>9 DEF Profile!Serve
  <2>2. \A d \in Editors \ {e} : served'[d] = served[d]
    BY <2>1
  <2>3. /\ cached[e].version <= row.version
        /\ cached[e].version = row.version => cached[e] = row
    BY DEF ProfileOlder, Profile!Row
  <2>4. ProfileOlder(row)
    BY DEF ProfileOlder, Profile!Row
  <2> QED
    BY <2>1, <2>2, <2>3, <2>4 DEF ProfileSince, ProfileOlder
<1>10. ASSUME NEW e \in Editors, Profile!FetchFails(e)
       PROVE  ProfilesAreOfVersions'
  <2>1. \A d \in Editors : served'[d] # None => served'[d] = served[d]
    BY <1>10 DEF Profile!FetchFails
  <2> QED
    BY <1>10, <2>1 DEF Profile!FetchFails, ProfileSince, ProfileOlder
<1>11. ASSUME NEW e \in Editors, Profile!Fetched(e)
       PROVE  ProfilesAreOfVersions'
  <2>1. /\ served[e] \in Profile!Row /\ ProfileOlder(served[e])
        /\ served' = [served EXCEPT ![e] = None]
        /\ cached' = [cached EXCEPT ![e] = served[e]]
        /\ UNCHANGED <<row, save, saves>>
    BY <1>11 DEF Profile!Fetched
  <2>2. \A d \in Editors : /\ served'[d] # None => d # e /\ served'[d] = served[d]
                           /\ d # e => cached'[d] = cached[d]
    BY <2>1
  <2>3. cached'[e] = served[e] /\ cached' \in [Editors -> Profile!Row]
    BY <2>1
  <2>4. \A d \in Editors : ProfileOlder(cached[d])'
    BY <2>1, <2>2, <2>3 DEF ProfileOlder
  <2>5. CASE form[e] # None /\ served[e] # cached[e]
    <3>1. Profile!Filled(e, served[e])
      BY <1>11, <2>5 DEF Profile!Fetched
    <3>2. /\ form' \in [Editors -> Profile!Contents \cup {None}]
          /\ from' \in [Editors -> Nat]
          /\ typed' \in [Editors -> SUBSET FormFields]
          /\ from'[e] = served[e].version
          /\ \A d \in Editors : form'[d] # None => ProfileSince(from[d], form[d], typed[d])'
          /\ \A d \in Editors \ {e} :
               form'[d] = form[d] /\ from'[d] = from[d] /\ typed'[d] = typed[d]
      BY <2>1, <3>1, ProfileFilled
    <3>3. \A d \in Editors : form'[d] # None => from'[d] = cached'[d].version
      BY <2>2, <2>3, <3>2
    <3> QED
      BY <2>1, <2>2, <2>3, <2>4, <3>2, <3>3 DEF ProfileSince, ProfileOlder
  <2>6. CASE form[e] = None \/ served[e] = cached[e]
    <3>1. UNCHANGED <<form, from, typed>>
      BY <1>11, <2>6 DEF Profile!Fetched
    <3>2. \A d \in Editors : form'[d] # None => from'[d] = cached'[d].version
      BY <2>2, <2>3, <2>6, <3>1
    <3> QED
      BY <2>1, <2>2, <2>3, <2>4, <3>1, <3>2 DEF ProfileSince, ProfileOlder
  <2> QED
    BY <2>5, <2>6
<1> QED
  BY <1>1, <1>2, <1>3, <1>4, <1>5, <1>6, <1>7, <1>8, <1>9, <1>10, <1>11 DEF Profile!Next

LEMMA ProfileKeepsEdits ==
  ASSUME ProfilesAreOfVersions, Profile!Next
  PROVE  Profile!OthersAreKept /\ Profile!TypingIsKept
<1> USE DEF ProfilesAreOfVersions, Profile!TypeOK
<1>1. Profile!OthersAreKept
  <2> SUFFICES ASSUME NEW e \in Editors, Profile!Stored(e), save[e].from = row.version,
                      NEW f \in FormFields \ save[e].typed
               PROVE  row'.fields[f] = row.fields[f]
    BY DEF Profile!OthersAreKept
  <2>1. Profile!Store(e)
    BY DEF Profile!Stored, Profile!Next, Profile!Open, Profile!Close,
           Profile!Submit,
           Profile!Type, Profile!Store, Profile!SaveAnswered, Profile!SaveFails,
           Profile!Serve, Profile!FetchFails, Profile!Fetched,
           Profile!ChangeElsewhere
  <2>2. save[e].form[f] = row.fields[f]
    BY <2>1 DEF Profile!Store, ProfileSince
  <2>3. row'.fields = [g \in FormFields |->
                         IF g \in Profile!Payload(save[e]) THEN save[e].form[g]
                         ELSE row.fields[g]]
    BY <2>1 DEF Profile!Store
  <2> QED
    BY <2>2, <2>3
<1>2. Profile!TypingIsKept
  <2> SUFFICES ASSUME NEW e \in Editors, form[e] # None, form'[e] # None, form'[e] # form[e]
               PROVE  \/ from[e] # row.version
                      \/ \E f \in typed'[e] : form'[e] = [form[e] EXCEPT ![f] = form'[e][f]]
    BY DEF Profile!TypingIsKept
  <2>1. \/ \E f \in FormFields : \E v \in Profile!Choices(f) : Profile!Type(e, f, v)
        \/ Profile!Fetched(e)
    BY DEF Profile!Next, Profile!Open, Profile!Filled, Profile!Close,
           Profile!Closed, Profile!Submit, Profile!Type, Profile!Store, Profile!SaveAnswered,
           Profile!SaveFails, Profile!Serve, Profile!FetchFails, Profile!Fetched,
           Profile!ChangeElsewhere
  <2>2. ASSUME NEW f \in FormFields, NEW v \in Profile!Choices(f), Profile!Type(e, f, v)
        PROVE  \E g \in typed'[e] : form'[e] = [form[e] EXCEPT ![g] = form'[e][g]]
    <3>1. form[e] \in Profile!Contents
      OBVIOUS
    <3>2. form'[e] = [form[e] EXCEPT ![f] = v] /\ f \in typed'[e]
      BY <2>2 DEF Profile!Type
    <3>3. form'[e][f] = v
      BY <3>1, <3>2 DEF Profile!Contents
    <3> QED
      BY <3>2, <3>3
  <2>3. ASSUME Profile!Fetched(e)
        PROVE  from[e] # row.version
    <3>1. served[e] # None /\ served[e] # cached[e]
      BY <2>3 DEF Profile!Fetched
    <3>2. cached[e] \in Profile!Row /\ served[e] \in Profile!Row /\ row \in Profile!Row
      BY <3>1
    <3>3. /\ cached[e].version <= served[e].version /\ cached[e].version # served[e].version
          /\ served[e].version <= row.version
      BY <3>1 DEF ProfileOlder
    <3>4. /\ cached[e].version \in Nat /\ served[e].version \in Nat /\ row.version \in Nat
          /\ from[e] = cached[e].version
      BY <3>2 DEF Profile!Row
    <3>5. \A a, b, c \in Nat : a <= b /\ a # b /\ b <= c => a # c
      OBVIOUS
    <3> QED
      BY <3>3, <3>4, <3>5
  <2> QED
    BY <2>1, <2>2, <2>3
<1> QED
  BY <1>1, <1>2

LEMMA ProfileEditsAreKept ==
  MaxSaves \in Nat
    => (Profile!Spec =>
          /\ []Profile!TypeOK
          /\ [][Profile!OthersAreKept /\ Profile!TypingIsKept]_Profile!vars)
<1> SUFFICES ASSUME MaxSaves \in Nat
             PROVE  Profile!Spec =>
                      /\ []Profile!TypeOK
                      /\ [][Profile!OthersAreKept /\ Profile!TypingIsKept]_Profile!vars
  OBVIOUS
<1>1. Profile!Init => ProfilesAreOfVersions
  <2> SUFFICES ASSUME Profile!Init
               PROVE  ProfilesAreOfVersions
    OBVIOUS
  <2>1. row \in Profile!Row /\ row.version = 0
    BY DEF Profile!Init, Profile!Row
  <2> QED
    BY <2>1 DEF Profile!Init, ProfilesAreOfVersions, Profile!TypeOK, ProfileOlder
<1>2. ProfilesAreOfVersions /\ [Profile!Next]_Profile!vars => ProfilesAreOfVersions'
  <2>1. ProfilesAreOfVersions /\ UNCHANGED Profile!vars => ProfilesAreOfVersions'
    BY DEF Profile!vars, ProfilesAreOfVersions, Profile!TypeOK, ProfileOlder, ProfileSince
  <2> QED
    BY <2>1, ProfileStep
<1>3. ProfilesAreOfVersions => Profile!TypeOK
  BY DEF ProfilesAreOfVersions
<1>4. ProfilesAreOfVersions /\ [Profile!Next]_Profile!vars
        => [Profile!OthersAreKept /\ Profile!TypingIsKept]_Profile!vars
  BY ProfileKeepsEdits
<1> QED
  BY <1>1, <1>2, <1>3, <1>4, PTL DEF Profile!Spec

-----------------------------------------------------------------------------
(* NewBooking                                                              *)

\* Where the form begins.
FirstChoice == FirstDate \in Dates /\ FirstGuests \in Guests

\* Booking b is one that `input` asked for.
Shows(list, b, input) ==
  /\ b \in 1..Len(list)
  /\ list[b].input.date = input.date /\ list[b].input.guests = input.guests

IsFor(list, answer, input) == answer.booking # 0 => Shows(list, answer.booking, input)

\* An entry of the cache is under the key of its request, and answers it.
Kept(entries, list) ==
  \A k \in New!Keys : entries[k] # New!Nothing =>
    New!Key(entries[k].input) = k /\ IsFor(list, entries[k].answer, entries[k].input)

\* A request is answered what it asked for, and its key is then in the cache; one
\* that is executing found nothing there, and so no answered booking under its key.
Asks(entries, list, q) ==
  /\ IsFor(list, q.answer, q.input)
  /\ q.state = "answered" => entries[New!Key(q.input)] # New!Nothing
  /\ q.state = "executing" =>
       \A i \in q.seen :
         i \in 1..Len(list) /\ New!Key(list[i].input) # New!Key(q.input)

\* What a page shows is what its request asked for.
Follows(list, asked, m) ==
  m.state # "none" =>
    /\ m.request \in 1..Len(asked)
    /\ m.booking # 0 => Shows(list, m.booking, asked[m.request].input)

\* Of two bookings under one key, the second was looked up before the first was
\* answered.
OverlapOnly(list) ==
  \A i, j \in 1..Len(list) :
    i < j /\ New!Key(list[i].input) = New!Key(list[j].input) => i \notin list[j].seen

\* The inductive invariant: the cache knows every date that is answered for.
BookedIsKept ==
  /\ New!TypeOK
  /\ Kept(answers, bookings)
  /\ \A r \in 1..Len(requests) : Asks(answers, bookings, requests[r])
  /\ \A t \in Travelers : Follows(bookings, requests, wizard[t].mutation)
  /\ OverlapOnly(bookings)

\* The bookings of a list go on asking for the same in a later one, and the keys of a
\* cache stay there.
Goes(list, later) ==
  /\ Len(list) \in Nat /\ Len(later) \in Nat /\ Len(list) <= Len(later)
  /\ \A i \in 1..Len(list) : later[i].input = list[i].input

StaysIn(entries, later) ==
  \A k \in New!Keys : entries[k] # New!Nothing => later[k] # New!Nothing

LEMMA ShownStays ==
  ASSUME NEW list, NEW later, Goes(list, later)
  PROVE  \A b, input : Shows(list, b, input) => Shows(later, b, input)
BY DEF Shows, Goes

LEMMA RequestFields ==
  ASSUME NEW q \in New!Request
  PROVE  /\ q.input \in New!CreateBookingInput /\ q.seen \in SUBSET Nat
         /\ q.answer \in New!Answer
         /\ q.state \in {"sent", "executing", "executed", "answered"}
BY DEF New!Request

LEMMA CachedFields ==
  ASSUME NEW e \in New!CachedResponse
  PROVE  e # New!Nothing /\ e.input \in New!CreateBookingInput /\ e.answer \in New!Answer
BY DEF New!CachedResponse, New!Nothing

LEMMA WizardFields ==
  ASSUME NEW f \in New!Form
  PROVE  /\ f.step \in 1..4 /\ f.date \in Dates /\ f.guests \in Guests
         /\ f.error \in BOOLEAN /\ f.mutation \in New!Mutation
BY DEF New!Form

\* Requests of the same date share their key, and only they.
LEMMA KeyIsDate ==
  ASSUME NEW i \in New!CreateBookingInput, NEW j \in New!CreateBookingInput
  PROVE  /\ New!Key(i) \in New!Keys
         /\ New!Key(i) = New!Key(j) <=> i.date = j.date
BY DEF New!Key, New!Keys

LEMMA AsksStays ==
  ASSUME NEW list, NEW later, Goes(list, later), NEW entries, NEW others,
         StaysIn(entries, others), NEW q \in New!Request, Asks(entries, list, q)
  PROVE  Asks(others, later, q)
<1>1. q.input \in New!CreateBookingInput /\ New!Key(q.input) \in New!Keys
  BY RequestFields, KeyIsDate
<1>2. IsFor(later, q.answer, q.input)
  BY ShownStays DEF Asks, IsFor
<1>3. q.state = "answered" => others[New!Key(q.input)] # New!Nothing
  BY <1>1 DEF Asks, StaysIn
<1>4. ASSUME q.state = "executing", NEW i \in q.seen
      PROVE  i \in 1..Len(later) /\ New!Key(later[i].input) # New!Key(q.input)
  BY <1>4 DEF Asks, Goes
<1> QED
  BY <1>2, <1>3, <1>4 DEF Asks

\* A step of one form only.
LEMMA FormStep ==
  ASSUME BookedIsKept, NEW t \in Travelers, NEW f \in New!Form,
         Follows(bookings, requests, f.mutation),
         wizard' = [wizard EXCEPT ![t] = f], known' \in [Travelers -> BOOLEAN],
         UNCHANGED <<listed, requests, bookings, answers>>
  PROVE  BookedIsKept'
<1>1. wizard' \in [Travelers -> New!Form]
  BY DEF BookedIsKept, New!TypeOK
<1>2. \A u \in Travelers : wizard'[u] = IF u = t THEN f ELSE wizard[u]
  BY DEF BookedIsKept, New!TypeOK
<1>3. \A u \in Travelers : Follows(bookings', requests', wizard'[u].mutation)
  BY <1>2 DEF BookedIsKept
<1>4. New!TypeOK'
  BY <1>1 DEF BookedIsKept, New!TypeOK
<1> QED
  BY <1>3, <1>4 DEF BookedIsKept

LEMMA NoneFollows ==
  /\ New!NoMutation \in New!Mutation
  /\ \A list, asked : Follows(list, asked, New!NoMutation)
BY DEF New!NoMutation, New!Mutation, Follows

LEMMA NewFormFact ==
  FirstChoice => New!NewForm \in New!Form /\ New!NewForm.mutation = New!NoMutation
BY NoneFollows DEF FirstChoice, New!NewForm, New!Form

LEMMA WizardSteps ==
  ASSUME FirstChoice, BookedIsKept, NEW t \in Travelers,
         \/ New!Continue(t) \/ New!Back(t) \/ New!SubmitSignedOut(t) \/ New!Unauthorized(t)
         \/ New!Receive(t) \/ New!Lose(t) \/ New!Reload(t)
         \/ \E date \in Dates, guests \in Guests : New!Fill(t, date, guests)
  PROVE  BookedIsKept'
<1> DEFINE m == wizard[t].mutation
<1>1. /\ wizard[t] \in New!Form /\ m \in New!Mutation /\ wizard[t].step \in 1..4
      /\ Follows(bookings, requests, m)
  BY WizardFields DEF BookedIsKept, New!TypeOK
<1>2. known \in [Travelers -> BOOLEAN]
  BY DEF BookedIsKept, New!TypeOK
<1>3. ASSUME NEW step \in 1..4, wizard' = [wizard EXCEPT ![t].step = step],
             UNCHANGED <<listed, known, requests, bookings, answers>>
      PROVE  BookedIsKept'
  <2> DEFINE f == [wizard[t] EXCEPT !.step = step]
  <2>1. wizard' = [wizard EXCEPT ![t] = f]
    BY <1>3
  <2>2. f \in New!Form /\ f.mutation = m
    BY <1>1 DEF New!Form
  <2> HIDE DEF f
  <2> QED
    BY <1>1, <1>2, <1>3, <2>1, <2>2, FormStep
<1>4. CASE New!Continue(t)
  <2>1. wizard[t].step + 1 \in 1..4
    BY <1>1, <1>4 DEF New!Continue
  <2> QED
    BY <1>3, <1>4, <2>1 DEF New!Continue
<1>5. CASE New!Back(t)
  <2>1. wizard[t].step - 1 \in 1..4
    BY <1>1, <1>5 DEF New!Back
  <2> QED
    BY <1>3, <1>5, <2>1 DEF New!Back
<1>6. CASE New!SubmitSignedOut(t)
  <2>1. known' \in [Travelers -> BOOLEAN]
    BY <1>2, <1>6 DEF New!SubmitSignedOut
  <2> QED
    <3>1. /\ wizard' = [wizard EXCEPT ![t] = New!NewForm]
          /\ UNCHANGED <<listed, requests, bookings, answers>>
      BY <1>6 DEF New!SubmitSignedOut
    <3>2. New!NewForm \in New!Form /\ Follows(bookings, requests, New!NewForm.mutation)
      BY NewFormFact, NoneFollows
    <3> QED
      BY <2>1, <3>1, <3>2, FormStep
<1>7. CASE New!Unauthorized(t)
  <2> DEFINE f == [wizard[t] EXCEPT !.mutation = [m EXCEPT !.retried = TRUE]]
  <2>1. wizard' = [wizard EXCEPT ![t] = f]
    BY <1>7 DEF New!Unauthorized
  <2>2. /\ [m EXCEPT !.retried = TRUE] \in New!Mutation
        /\ Follows(bookings, requests, [m EXCEPT !.retried = TRUE])
    BY <1>1 DEF New!Mutation, Follows
  <2>3. f \in New!Form /\ f.mutation = [m EXCEPT !.retried = TRUE]
    BY <1>1, <2>2 DEF New!Form
  <2> HIDE DEF f
  <2> QED
    BY <1>2, <1>7, <2>1, <2>2, <2>3, FormStep DEF New!Unauthorized
<1>8. CASE New!Receive(t)
  <2> DEFINE answer == requests[m.request].answer
             shows == [m EXCEPT !.state = "shown", !.booking = answer.booking]
  <2>1. m.state = "waiting"
    BY <1>8 DEF New!Receive
  <2>2. m.request \in 1..Len(requests) /\ requests \in Seq(New!Request)
    BY <1>1, <2>1 DEF Follows, BookedIsKept, New!TypeOK
  <2>3. requests[m.request] \in New!Request /\ Asks(answers, bookings, requests[m.request])
    BY <2>2 DEF BookedIsKept
  <2>4. answer.booking \in Nat /\ IsFor(bookings, answer, requests[m.request].input)
    BY <2>3, RequestFields DEF New!Answer, Asks
  <2>5. shows \in New!Mutation /\ Follows(bookings, requests, shows)
    BY <1>1, <2>2, <2>4 DEF New!Mutation, Follows, IsFor
  <2>6. CASE /\ answer.status = "success" \/ m.retried
             /\ wizard' = [wizard EXCEPT ![t].step = 4, ![t].mutation.state = "shown",
                                         ![t].mutation.booking = answer.booking]
    <3> DEFINE f == [wizard[t] EXCEPT !.step = 4, !.mutation = shows]
    <3>1. wizard' = [wizard EXCEPT ![t] = f]
      BY <2>6
    <3> HIDE DEF shows
    <3>2. f \in New!Form /\ f.mutation = shows
      <4>1. wizard[t] \in New!Form /\ 4 \in 1..4
        BY <1>1
      <4> QED
        BY <4>1, <2>5 DEF New!Form
    <3> HIDE DEF f
    <3> QED
      BY <1>2, <1>8, <2>5, <3>1, <3>2, FormStep DEF New!Receive
  <2>7. CASE wizard' = [wizard EXCEPT ![t].error = TRUE, ![t].mutation = New!NoMutation]
    <3> DEFINE f == [wizard[t] EXCEPT !.error = TRUE, !.mutation = New!NoMutation]
    <3>1. wizard' = [wizard EXCEPT ![t] = f]
      BY <2>7
    <3>2. f \in New!Form /\ f.mutation = New!NoMutation
      BY <1>1, NoneFollows DEF New!Form
    <3> HIDE DEF f
    <3> QED
      BY <1>2, <1>8, <3>1, <3>2, FormStep, NoneFollows DEF New!Receive
  <2> QED
    BY <1>8, <2>6, <2>7 DEF New!Receive
<1>9. CASE New!Lose(t)
  <2> DEFINE f == [wizard[t] EXCEPT !.error = TRUE, !.mutation = New!NoMutation]
  <2>1. wizard' = [wizard EXCEPT ![t] = f]
    BY <1>9 DEF New!Lose
  <2>2. f \in New!Form /\ f.mutation = New!NoMutation
    BY <1>1, NoneFollows DEF New!Form
  <2> HIDE DEF f
  <2> QED
    BY <1>2, <1>9, <2>1, <2>2, FormStep, NoneFollows DEF New!Lose
<1>10. CASE New!Reload(t)
  BY <1>2, <1>10, FormStep, NewFormFact, NoneFollows DEF New!Reload
<1>11. ASSUME NEW date \in Dates, NEW guests \in Guests, New!Fill(t, date, guests)
       PROVE  BookedIsKept'
  <2> DEFINE f == [wizard[t] EXCEPT !.date = date, !.guests = guests]
  <2>1. wizard' = [wizard EXCEPT ![t] = f]
    BY <1>11 DEF New!Fill
  <2>2. f \in New!Form /\ f.mutation = m
    BY <1>1 DEF New!Form
  <2> HIDE DEF f
  <2> QED
    BY <1>1, <1>2, <1>11, <2>1, <2>2, FormStep DEF New!Fill
<1> QED
  BY <1>4, <1>5, <1>6, <1>7, <1>8, <1>9, <1>10, <1>11

\* A request more, which the page waits for.
LEMMA SubmitStep ==
  ASSUME BookedIsKept, NEW t \in Travelers, New!Submit(t)
  PROVE  BookedIsKept'
<1> DEFINE m == [state |-> "waiting", request |-> Len(requests) + 1, retried |-> FALSE,
                 booking |-> 0]
           q == [input |-> [traveler |-> t, date |-> wizard[t].date,
                            guests |-> wizard[t].guests],
                 state |-> "sent", seen |-> {}, answer |-> New!NoAnswer]
           f == [wizard[t] EXCEPT !.error = FALSE, !.mutation = m]
<1>1. /\ wizard' = [wizard EXCEPT ![t] = f]
      /\ requests' = Append(requests, q)
      /\ UNCHANGED <<listed, known, bookings, answers>>
  BY DEF New!Submit
<1>2. /\ wizard[t] \in New!Form /\ wizard[t].date \in Dates /\ wizard[t].guests \in Guests
      /\ requests \in Seq(New!Request)
  BY WizardFields DEF BookedIsKept, New!TypeOK
<1>3. /\ q \in New!Request /\ q.state = "sent" /\ q.answer.booking = 0
  BY <1>2 DEF New!Request, New!CreateBookingInput, New!NoAnswer, New!Answer
<1>4. /\ m \in New!Mutation /\ m.booking = 0 /\ m.request = Len(requests) + 1
  BY <1>2 DEF New!Mutation
<1> HIDE DEF q, m
<1>5. f \in New!Form /\ f.mutation = m
  BY <1>2, <1>4 DEF New!Form
<1> HIDE DEF f
<1>6. /\ requests' \in Seq(New!Request) /\ Len(requests') = Len(requests) + 1
      /\ \A r \in 1..Len(requests) : requests'[r] = requests[r]
      /\ requests'[Len(requests) + 1] = q
  BY <1>1, <1>2, <1>3
<1>7. \A r \in 1..Len(requests') : Asks(answers', bookings', requests'[r])
  <2>1. Asks(answers, bookings, q)
    BY <1>3 DEF Asks, IsFor
  <2> QED
    BY <1>1, <1>2, <1>6, <2>1 DEF BookedIsKept
<1>8. \A u \in Travelers : wizard'[u] = IF u = t THEN f ELSE wizard[u]
  BY <1>1 DEF BookedIsKept, New!TypeOK
<1>9. \A u \in Travelers : Follows(bookings', requests', wizard'[u].mutation)
  <2>1. Follows(bookings', requests', m)
    BY <1>2, <1>4, <1>6 DEF Follows
  <2>2. \A u \in Travelers : Follows(bookings', requests', wizard[u].mutation)
    BY <1>1, <1>2, <1>6 DEF BookedIsKept, Follows
  <2> QED
    BY <1>5, <1>8, <2>1, <2>2
<1>10. New!TypeOK'
  <2>1. wizard' \in [Travelers -> New!Form]
    BY <1>1, <1>5 DEF BookedIsKept, New!TypeOK
  <2> QED
    BY <1>1, <1>6, <2>1 DEF BookedIsKept, New!TypeOK
<1> QED
  BY <1>1, <1>7, <1>9, <1>10 DEF BookedIsKept

\* Another state of a request of the server, with the bookings that there are then.
LEMMA RequestStep ==
  ASSUME BookedIsKept, NEW r \in 1..Len(requests), NEW q \in New!Request,
         requests' = [requests EXCEPT ![r] = q], q.input = requests[r].input,
         Asks(answers', bookings', q), Goes(bookings, bookings'), StaysIn(answers, answers'),
         UNCHANGED <<listed, known, wizard>>,
         answers' \in [New!Keys -> New!CachedResponse \cup {New!Nothing}],
         bookings' \in Seq(New!Booking),
         Kept(answers', bookings'), OverlapOnly(bookings')
  PROVE  BookedIsKept'
<1>1. requests \in Seq(New!Request)
  BY DEF BookedIsKept, New!TypeOK
<1>2. /\ requests' \in Seq(New!Request) /\ Len(requests') = Len(requests)
      /\ \A s \in 1..Len(requests) : requests'[s] = IF s = r THEN q ELSE requests[s]
  BY <1>1
<1>3. \A s \in 1..Len(requests') : Asks(answers', bookings', requests'[s])
  <2>1. \A s \in 1..Len(requests) : requests[s] \in New!Request
    BY <1>1
  <2> QED
    BY <1>2, <2>1, AsksStays DEF BookedIsKept
<1>4. \A s \in 1..Len(requests) : requests'[s].input = requests[s].input
  BY <1>2
<1>5. \A t \in Travelers : Follows(bookings', requests', wizard'[t].mutation)
  BY <1>2, <1>4, ShownStays DEF BookedIsKept, Follows
<1>6. New!TypeOK'
  BY <1>2 DEF BookedIsKept, New!TypeOK
<1> QED
  BY <1>3, <1>5, <1>6 DEF BookedIsKept

LEMMA LookupStep ==
  ASSUME BookedIsKept, NEW r \in 1..Len(requests), New!Lookup(r)
  PROVE  BookedIsKept'
<1> DEFINE q == requests[r]
           key == New!Key(q.input)
           entry == answers[key]
<1>1. /\ requests \in Seq(New!Request) /\ bookings \in Seq(New!Booking)
      /\ answers \in [New!Keys -> New!CachedResponse \cup {New!Nothing}]
  BY DEF BookedIsKept, New!TypeOK
<1>2. q \in New!Request /\ Asks(answers, bookings, q)
  BY <1>1 DEF BookedIsKept
<1>3. key \in New!Keys /\ q.input \in New!CreateBookingInput
  BY <1>2, RequestFields, KeyIsDate
<1>4. UNCHANGED <<listed, known, wizard, bookings, answers>>
  BY DEF New!Lookup
<1>5. /\ Goes(bookings, bookings') /\ Kept(answers', bookings') /\ OverlapOnly(bookings')
      /\ answers' \in [New!Keys -> New!CachedResponse \cup {New!Nothing}]
      /\ bookings' \in Seq(New!Booking) /\ StaysIn(answers, answers')
  BY <1>1, <1>4 DEF Goes, BookedIsKept, StaysIn
<1>6. CASE entry = New!Nothing
  <2> DEFINE p == [q EXCEPT !.state = "executing", !.seen = New!AnsweredBookings]
  <2>1. requests' = [requests EXCEPT ![r] = p]
    BY <1>6 DEF New!Lookup
  <2>2. /\ p \in New!Request /\ p.input = q.input /\ p.answer = q.answer
        /\ p.seen = New!AnsweredBookings /\ p.state = "executing"
    <3>1. New!AnsweredBookings \in SUBSET Nat
      BY <1>1 DEF New!AnsweredBookings
    <3> QED
      BY <1>2, <3>1 DEF New!Request
  <2>3. ASSUME NEW i \in New!AnsweredBookings
        PROVE  i \in 1..Len(bookings) /\ New!Key(bookings[i].input) # key
    <3>1. PICK s \in 1..Len(requests) :
            requests[s].state = "answered" /\ requests[s].answer.booking = i
      BY DEF New!AnsweredBookings
    <3>2. /\ i \in 1..Len(bookings) /\ i # 0
          /\ Asks(answers, bookings, requests[s])
      BY <1>1, <3>1 DEF New!AnsweredBookings, BookedIsKept
    <3>3. Shows(bookings, i, requests[s].input)
      BY <3>1, <3>2 DEF Asks, IsFor
    <3>4. New!Key(bookings[i].input) = New!Key(requests[s].input)
      BY <3>3 DEF Shows, New!Key
    <3> QED
      BY <1>6, <3>1, <3>2, <3>4 DEF Asks
  <2> HIDE DEF p
  <2>4. Asks(answers', bookings', p)
    BY <1>2, <1>4, <2>2, <2>3 DEF Asks
  <2> HIDE DEF q
  <2>5. p.input = requests[r].input
    BY <2>2 DEF q
  <2> QED
    BY <1>4, <1>5, <2>1, <2>2, <2>4, <2>5, RequestStep
<1>7. CASE entry # New!Nothing
  <2> DEFINE answer == IF New!SamePayload(entry.input, q.input) THEN entry.answer
                       ELSE New!Mismatch
             p == [q EXCEPT !.state = "answered", !.answer = answer]
  <2>1. requests' = [requests EXCEPT ![r] = p]
    BY <1>7 DEF New!Lookup, New!Answered
  <2>2. entry \in New!CachedResponse /\ entry.answer \in New!Answer
    BY <1>1, <1>3, <1>7, CachedFields
  <2>3. IsFor(bookings, entry.answer, entry.input)
    BY <1>3, <1>7 DEF BookedIsKept, Kept
  <2>4. answer \in New!Answer /\ IsFor(bookings, answer, q.input)
    BY <2>2, <2>3 DEF IsFor, Shows, New!SamePayload, New!Mismatch, New!Answer
  <2> HIDE DEF answer, entry
  <2>5. p \in New!Request /\ p.input = q.input /\ p.answer = answer /\ p.state = "answered"
    BY <1>2, <2>4 DEF New!Request
  <2> HIDE DEF p
  <2>6. Asks(answers', bookings', p)
    BY <1>4, <1>7, <2>4, <2>5 DEF Asks, entry
  <2> HIDE DEF q
  <2>7. p.input = requests[r].input
    BY <2>5 DEF q
  <2> QED
    BY <1>4, <1>5, <2>1, <2>5, <2>6, <2>7, RequestStep
<1> QED
  BY <1>6, <1>7

\* The handler: a booking more, or none.
LEMMA ExecuteStep ==
  ASSUME BookedIsKept, NEW r \in 1..Len(requests), New!Execute(r)
  PROVE  BookedIsKept'
<1> DEFINE q == requests[r]
           key == New!Key(q.input)
           answer == IF New!Bookable(q.input)
                     THEN [status |-> "success", booking |-> Len(bookings) + 1]
                     ELSE New!Failure
           made == [input |-> q.input, status |-> "pending", seen |-> q.seen]
           p == [q EXCEPT !.state = "executed", !.answer = answer]
<1>1. /\ requests \in Seq(New!Request) /\ bookings \in Seq(New!Booking)
      /\ answers \in [New!Keys -> New!CachedResponse \cup {New!Nothing}]
  BY DEF BookedIsKept, New!TypeOK
<1>2. q \in New!Request /\ Asks(answers, bookings, q) /\ q.state = "executing"
  BY <1>1 DEF BookedIsKept, New!Execute
<1>3. q.input \in New!CreateBookingInput /\ q.seen \in SUBSET Nat
  BY <1>2, RequestFields
<1>4. /\ requests' = [requests EXCEPT ![r] = p]
      /\ bookings' = IF New!Bookable(q.input) THEN Append(bookings, made) ELSE bookings
      /\ UNCHANGED <<listed, known, wizard, answers>>
  BY DEF New!Execute
<1>5. /\ answer \in New!Answer
      /\ answer.booking = IF New!Bookable(q.input) THEN Len(bookings) + 1 ELSE 0
  BY <1>1 DEF New!Answer, New!Failure
<1> HIDE DEF answer
<1>6. made \in New!Booking /\ made.input = q.input /\ made.seen = q.seen
  BY <1>3 DEF New!Booking
<1>7. p \in New!Request /\ p.input = q.input /\ p.answer = answer /\ p.state = "executed"
  BY <1>2, <1>5 DEF New!Request
<1> HIDE DEF made, p
<1>8. /\ bookings' \in Seq(New!Booking)
      /\ Len(bookings') = IF New!Bookable(q.input) THEN Len(bookings) + 1 ELSE Len(bookings)
      /\ \A i \in 1..Len(bookings) : bookings'[i] = bookings[i]
      /\ New!Bookable(q.input) => bookings'[Len(bookings) + 1] = made
  BY <1>1, <1>4, <1>6
<1>9. Goes(bookings, bookings')
  BY <1>1, <1>8 DEF Goes
<1>10. IsFor(bookings', answer, q.input)
  BY <1>1, <1>5, <1>6, <1>8 DEF IsFor, Shows
<1>11. Asks(answers', bookings', p) /\ StaysIn(answers, answers')
  BY <1>4, <1>7, <1>10 DEF Asks, StaysIn
<1>12. Kept(answers', bookings')
  BY <1>4, <1>9, ShownStays DEF BookedIsKept, Kept, IsFor
<1>13. OverlapOnly(bookings')
  <2> SUFFICES ASSUME NEW i \in 1..Len(bookings'), NEW j \in 1..Len(bookings'), i < j,
                      New!Key(bookings'[i].input) = New!Key(bookings'[j].input)
               PROVE  i \notin bookings'[j].seen
    BY DEF OverlapOnly
  <2>1. i \in 1..Len(bookings) /\ bookings'[i] = bookings[i]
    BY <1>1, <1>8
  <2>2. CASE j \in 1..Len(bookings)
    BY <1>8, <2>1, <2>2 DEF BookedIsKept, OverlapOnly
  <2>3. CASE j \notin 1..Len(bookings)
    <3>1. New!Bookable(q.input) /\ j = Len(bookings) + 1
      BY <1>1, <1>8, <2>3
    <3>2. bookings'[j].seen = q.seen /\ New!Key(bookings[i].input) = key
      BY <1>6, <1>8, <2>1, <3>1
    <3> QED
      BY <1>2, <3>2 DEF Asks
  <2> QED
    BY <2>2, <2>3
<1>14. answers' \in [New!Keys -> New!CachedResponse \cup {New!Nothing}]
  BY <1>1, <1>4
<1> HIDE DEF q, key
<1>15. p.input = requests[r].input
  BY <1>7 DEF q
<1> QED
  BY <1>4, <1>7, <1>8, <1>9, <1>11, <1>12, <1>13, <1>14, <1>15, RequestStep

\* The answer, which the cache then has.
LEMMA RespondStep ==
  ASSUME BookedIsKept, NEW r \in 1..Len(requests), New!Respond(r)
  PROVE  BookedIsKept'
<1> DEFINE q == requests[r]
           key == New!Key(q.input)
           kept == [state |-> "stored", input |-> q.input, answer |-> q.answer]
           p == [q EXCEPT !.state = "answered"]
<1>1. /\ requests \in Seq(New!Request) /\ bookings \in Seq(New!Booking)
      /\ answers \in [New!Keys -> New!CachedResponse \cup {New!Nothing}]
  BY DEF BookedIsKept, New!TypeOK
<1>2. q \in New!Request /\ IsFor(bookings, q.answer, q.input)
  BY <1>1 DEF BookedIsKept, Asks
<1>3. /\ q.input \in New!CreateBookingInput /\ q.answer \in New!Answer
      /\ key \in New!Keys
  BY <1>2, RequestFields, KeyIsDate
<1>4. /\ requests' = [requests EXCEPT ![r] = p]
      /\ answers' = [answers EXCEPT ![key] = kept]
      /\ UNCHANGED <<listed, known, wizard, bookings>>
  BY DEF New!Respond
<1>5. kept \in New!CachedResponse /\ kept.input = q.input /\ kept.answer = q.answer
  BY <1>3 DEF New!CachedResponse
<1>6. /\ p \in New!Request /\ p.input = q.input /\ p.answer = q.answer
      /\ p.state = "answered"
  BY <1>2 DEF New!Request
<1>7. kept # New!Nothing
  BY <1>5, CachedFields
<1> HIDE DEF kept, p
<1>8. /\ answers' \in [New!Keys -> New!CachedResponse \cup {New!Nothing}]
      /\ \A k \in New!Keys : answers'[k] = IF k = key THEN kept ELSE answers[k]
  BY <1>1, <1>3, <1>4, <1>5
<1>9. Goes(bookings, bookings') /\ StaysIn(answers, answers')
  BY <1>1, <1>4, <1>7, <1>8 DEF Goes, StaysIn
<1>10. Asks(answers', bookings', p)
  BY <1>2, <1>3, <1>4, <1>6, <1>7, <1>8 DEF Asks
<1>11. Kept(answers', bookings')
  <2> SUFFICES ASSUME NEW k \in New!Keys, answers'[k] # New!Nothing
               PROVE  /\ New!Key(answers'[k].input) = k
                      /\ IsFor(bookings, answers'[k].answer, answers'[k].input)
    BY <1>4 DEF Kept
  <2>1. CASE k = key
    BY <1>2, <1>5, <1>8, <2>1
  <2>2. CASE k # key
    BY <1>8, <2>2 DEF BookedIsKept, Kept
  <2> QED
    BY <2>1, <2>2
<1>12. OverlapOnly(bookings') /\ bookings' \in Seq(New!Booking)
  BY <1>1, <1>4 DEF BookedIsKept
<1> HIDE DEF q, key
<1>13. p.input = requests[r].input
  BY <1>6 DEF q
<1> QED
  BY <1>4, <1>6, <1>8, <1>9, <1>10, <1>11, <1>12, <1>13, RequestStep

LEMMA EndingStep ==
  ASSUME BookedIsKept, NEW i \in 1..Len(bookings), New!EndBooking(i)
  PROVE  BookedIsKept'
<1>1. bookings \in Seq(New!Booking) /\ requests \in Seq(New!Request)
  BY DEF BookedIsKept, New!TypeOK
<1>2. bookings' = [bookings EXCEPT ![i] = [bookings[i] EXCEPT !.status = "over"]]
  BY DEF New!EndBooking
<1>3. /\ [bookings[i] EXCEPT !.status = "over"] \in New!Booking
      /\ [bookings[i] EXCEPT !.status = "over"].input = bookings[i].input
      /\ [bookings[i] EXCEPT !.status = "over"].seen = bookings[i].seen
  <2>1. bookings[i] \in New!Booking
    BY <1>1
  <2> QED
    BY <2>1 DEF New!Booking
<1>4. bookings' \in Seq(New!Booking) /\ Len(bookings') = Len(bookings)
  BY <1>1, <1>2, <1>3
<1>5. \A j \in 1..Len(bookings) :
        bookings'[j].input = bookings[j].input /\ bookings'[j].seen = bookings[j].seen
  BY <1>1, <1>2, <1>3
<1>6. Goes(bookings, bookings')
  BY <1>1, <1>4, <1>5 DEF Goes
<1>7. UNCHANGED <<listed, known, wizard, requests, answers>>
  BY DEF New!EndBooking
<1>8. Kept(answers', bookings')
  BY <1>4, <1>5, <1>6, <1>7, ShownStays DEF BookedIsKept, Kept, IsFor
<1>9. \A r \in 1..Len(requests') : Asks(answers', bookings', requests'[r])
  <2>1. \A r \in 1..Len(requests) : requests[r] \in New!Request
    BY <1>1
  <2>2. StaysIn(answers, answers')
    BY <1>7 DEF StaysIn
  <2> QED
    BY <1>6, <1>7, <2>1, <2>2, AsksStays DEF BookedIsKept
<1>10. \A t \in Travelers : Follows(bookings', requests', wizard'[t].mutation)
  BY <1>6, <1>7, ShownStays DEF BookedIsKept, Follows
<1>11. OverlapOnly(bookings')
  BY <1>4, <1>5 DEF BookedIsKept, OverlapOnly
<1>12. New!TypeOK'
  BY <1>4, <1>7 DEF BookedIsKept, New!TypeOK
<1> QED
  BY <1>8, <1>9, <1>10, <1>11, <1>12 DEF BookedIsKept

\* However often a traveler submits, loses the answer and loads the page again: once
\* the server has answered with a booking of the service for a date, nothing that is
\* looked up then books it again; and the page shows no booking but what it asked for.
LEMMA BookedOnce == FirstChoice => (New!Spec => [](New!TypeOK /\ New!BookedOnceAsSubmitted))
<1> SUFFICES ASSUME FirstChoice
             PROVE  New!Spec => [](New!TypeOK /\ New!BookedOnceAsSubmitted)
  OBVIOUS
<1>1. New!Init => BookedIsKept
  <2> SUFFICES ASSUME New!Init
               PROVE  BookedIsKept
    OBVIOUS
  <2>1. /\ bookings = <<>> /\ requests = <<>> /\ answers = [k \in New!Keys |-> New!Nothing]
        /\ wizard = [t \in Travelers |-> New!NewForm]
    BY DEF New!Init
  <2>2. New!TypeOK
    BY NewFormFact DEF New!Init, New!TypeOK
  <2>3. Kept(answers, bookings) /\ OverlapOnly(bookings)
    BY <2>1 DEF Kept, OverlapOnly
  <2>4. \A t \in Travelers : Follows(bookings, requests, wizard[t].mutation)
    BY <2>1, NewFormFact, NoneFollows
  <2> QED
    BY <2>1, <2>2, <2>3, <2>4 DEF BookedIsKept
<1>2. BookedIsKept /\ [New!Next]_New!vars => BookedIsKept'
  <2>1. BookedIsKept /\ UNCHANGED New!vars => BookedIsKept'
    BY DEF New!vars, BookedIsKept, New!TypeOK
  <2>2. BookedIsKept /\ New!ListService => BookedIsKept'
    BY DEF New!ListService, BookedIsKept, New!TypeOK
  <2> QED
    BY <2>1, <2>2, WizardSteps, SubmitStep, LookupStep, ExecuteStep, RespondStep, EndingStep
    DEF New!Next
<1>3. BookedIsKept => New!TypeOK /\ New!BookedOnceAsSubmitted
  <2> SUFFICES ASSUME BookedIsKept
               PROVE  New!NoBookingAgain /\ New!ShownAsAsked
    BY DEF BookedIsKept, New!BookedOnceAsSubmitted
  <2>1. New!ShownAsAsked
    BY DEF BookedIsKept, Follows, Shows, New!ShownAsAsked
  <2>2. New!NoBookingAgain
    BY DEF BookedIsKept, OverlapOnly, New!Key, New!NoBookingAgain
  <2> QED
    BY <2>1, <2>2
<1> QED
  BY <1>1, <1>2, <1>3, PTL DEF New!Spec

-----------------------------------------------------------------------------
(* ApiClient                                                               *)

TokensAreFinite == MaxTokens \in Nat \ {0} /\ None \notin Api!Token

\* A call that refreshes, or has the answer, holds a token.
RefreshTokens ==
  \A r \in Requests : req[r].pc \in {"refreshing", "rotated"} => req[r].token \in Api!Token

ClientsTyped == Api!TypeOK /\ RefreshTokens

LEMMA ClientFields ==
  ASSUME NEW c \in Api!Client
  PROVE  c.token \in Api!Token \cup {None} /\ c.isRefreshing \in BOOLEAN
         /\ c.refreshSubscribers \subseteq Requests
BY DEF Api!Client

LEMMA CallFields ==
  ASSUME NEW c \in Api!Call
  PROVE  c.tab \in Tabs /\ c.token \in Api!Token \cup {None}
BY DEF Api!Call

LateRequest == {"refresh", "logout"} \X Requests \X Api!Token

LEMMA ServerFields ==
  ASSUME NEW s \in Api!Server
  PROVE  /\ s.issued \in Api!Token /\ s.newest \subseteq Api!Token /\ s.revoked \subseteq Api!Token
         /\ s.thefts \subseteq Api!Token /\ s.valid \subseteq Api!Token
         /\ s.late \subseteq LateRequest
BY DEF Api!Server, LateRequest

\* What the server does with a session leaves of its record.
LEMMA IssuedFields ==
  ASSUME TokensAreFinite, NEW s \in Api!Server, s.issued < MaxTokens
  PROVE  /\ Api!Issued(s) \in Api!Server /\ s.issued + 1 \in Api!Token
         /\ Api!Issued(s).issued = s.issued + 1
         /\ Api!Issued(s).newest = s.newest \cup {s.issued + 1}
         /\ Api!Issued(s).revoked = s.revoked /\ Api!Issued(s).thefts = s.thefts
         /\ Api!Issued(s).late = s.late
<1>1. s.issued + 1 \in Api!Token
  BY ServerFields DEF TokensAreFinite, Api!Token
<1> QED
  BY <1>1 DEF Api!Issued, Api!Server

LEMMA ExchangedFields ==
  ASSUME TokensAreFinite, NEW s \in Api!Server, s.issued < MaxTokens, NEW k \in Api!Token
  PROVE  /\ Api!Exchanged(s, k) \in Api!Server /\ s.issued + 1 \in Api!Token
         /\ Api!Exchanged(s, k).issued = s.issued + 1
         /\ Api!Exchanged(s, k).newest = (s.newest \cup {s.issued + 1}) \ {k}
         /\ Api!Exchanged(s, k).revoked = s.revoked /\ Api!Exchanged(s, k).thefts = s.thefts
         /\ Api!Exchanged(s, k).late = s.late
<1> DEFINE next == Api!Issued(s)
<1>1. /\ next \in Api!Server /\ s.issued + 1 \in Api!Token /\ next.issued = s.issued + 1
      /\ next.newest = s.newest \cup {s.issued + 1} /\ next.revoked = s.revoked
      /\ next.thefts = s.thefts /\ next.late = s.late
  BY IssuedFields
<1>2. Api!Exchanged(s, k) = [next EXCEPT !.newest = next.newest \ {k}]
  BY DEF Api!Exchanged
<1> HIDE DEF next
<1> QED
  BY <1>1, <1>2 DEF Api!Server

LEMMA DetectedFields ==
  ASSUME NEW s \in Api!Server, NEW k \in Api!Token
  PROVE  /\ Api!Detected(s, k) \in Api!Server /\ Api!Detected(s, k).issued = s.issued
         /\ Api!Detected(s, k).newest = {} /\ Api!Detected(s, k).revoked = s.revoked \cup s.newest
         /\ Api!Detected(s, k).thefts = s.thefts \cup {k} /\ Api!Detected(s, k).late = s.late
BY DEF Api!Detected, Api!Server

LEMMA SignedOutFields ==
  ASSUME NEW s \in Api!Server, NEW k \in Api!Token
  PROVE  /\ Api!SignedOut(s, k) \in Api!Server /\ Api!SignedOut(s, k).issued = s.issued
         /\ Api!SignedOut(s, k).newest = s.newest \ {k}
         /\ Api!SignedOut(s, k).revoked = s.revoked \cup (s.newest \cap {k})
         /\ Api!SignedOut(s, k).thefts = s.thefts /\ Api!SignedOut(s, k).late = s.late
BY DEF Api!SignedOut, Api!Server

\* What becomes of one call.
LEMMA CallStep ==
  ASSUME ClientsTyped, NEW r \in Requests, NEW pc, NEW pair \in Api!Token \cup {None},
         pc \in {"idle", "sent", "refreshing", "rotated", "refused", "waiting", "retrying",
                 "resolved", "rejected"},
         Api!Becomes(r, pc, pair)
  PROVE  /\ req' \in [Requests -> Api!Call]
         /\ req'[r].pc = pc /\ req'[r].tab = req[r].tab /\ req'[r].token = pair
         /\ \A q \in Requests \ {r} : req'[q] = req[q]
<1> DEFINE c == [req[r] EXCEPT !.pc = pc, !.token = pair]
<1>1. req \in [Requests -> Api!Call]
  BY DEF ClientsTyped, Api!TypeOK
<1>2. req[r] \in Api!Call
  BY <1>1
<1>3. c \in Api!Call /\ c.pc = pc /\ c.tab = req[r].tab /\ c.token = pair
  BY <1>2 DEF Api!Call
<1>4. req' = [req EXCEPT ![r] = c]
  BY DEF Api!Becomes
<1> HIDE DEF c
<1> QED
  BY <1>1, <1>3, <1>4

\* What becomes of one tab.
LEMMA TabStep ==
  ASSUME ClientsTyped, NEW t \in Tabs, NEW c \in Api!Client, tab' = [tab EXCEPT ![t] = c]
  PROVE  /\ tab' \in [Tabs -> Api!Client]
         /\ \A u \in Tabs : tab'[u] = IF u = t THEN c ELSE tab[u]
BY DEF ClientsTyped, Api!TypeOK

\* What the invariant says of a call and its tab.
LEMMA ClientFacts ==
  ASSUME ClientsTyped, NEW r \in Requests
  PROVE  /\ req[r] \in Api!Call /\ req[r].tab \in Tabs /\ req[r].token \in Api!Token \cup {None}
         /\ Api!Mine(r) \in Api!Client /\ Api!Mine(r).token \in Api!Token \cup {None}
         /\ session \in Api!Server
<1>1. /\ req \in [Requests -> Api!Call] /\ tab \in [Tabs -> Api!Client] /\ session \in Api!Server
  BY DEF ClientsTyped, Api!TypeOK
<1>2. req[r] \in Api!Call
  BY <1>1
<1>3. req[r].tab \in Tabs /\ req[r].token \in Api!Token \cup {None}
  BY <1>2, CallFields
<1>4. Api!Mine(r) \in Api!Client
  BY <1>1, <1>3 DEF Api!Mine
<1> QED
  BY <1>1, <1>2, <1>3, <1>4, ClientFields

\* The requests that calls leave behind are of theirs.
LEMMA PendingRequests ==
  ASSUME ClientsTyped, NEW calls \in SUBSET Requests
  PROVE  /\ Api!Pending(calls) \subseteq LateRequest
         /\ \A r \in Requests, k \in Api!Token :
              <<"refresh", r, k>> \in Api!Pending(calls)
                => req[r].pc = "refreshing" /\ req[r].token = k
<1>1. ASSUME NEW r \in calls, req[r].pc = "refreshing"
      PROVE  <<"refresh", r, req[r].token>> \in LateRequest
  BY <1>1 DEF LateRequest, ClientsTyped, RefreshTokens
<1>2. ASSUME NEW r \in calls, req[r].token # None
      PROVE  <<"logout", r, req[r].token>> \in LateRequest
  BY <1>2, ClientFacts DEF LateRequest
<1>3. Api!Pending(calls) \subseteq LateRequest
  BY <1>1, <1>2 DEF Api!Pending
<1> QED
  BY <1>3 DEF Api!Pending

InFlight(calls, r) == calls[r].pc \in {"refreshing", "rotated", "refused"}

\* A call that may still refresh, or does.
Early(calls, r) == calls[r].pc \in {"idle", "sent", "refreshing", "rotated", "refused"}

\* The server changes no more than what a logout does, or forgets a request.
Quieter ==
  /\ session' \in Api!Server /\ session'.issued = session.issued
  /\ session'.newest \subseteq session.newest
  /\ session.newest \subseteq session'.newest \cup session'.revoked
  /\ session.revoked \subseteq session'.revoked
  /\ session'.thefts = session.thefts

LEMMA ForgottenRequests ==
  ASSUME NEW s \in Api!Server, NEW l \in SUBSET LateRequest, session = s,
         session' = [s EXCEPT !.late = l]
  PROVE  Quieter /\ session'.late = l
BY DEF Quieter, Api!Server, LateRequest

LEMMA LogoutIsQuiet ==
  ASSUME ClientsTyped, NEW r \in Requests, Api!Handled(r)
  PROVE  Quieter /\ session'.late = session.late
<1>1. session \in Api!Server /\ session.valid \subseteq Api!Token
  BY ClientFacts, ServerFields
<1>2. CASE UNCHANGED session
  BY <1>1, <1>2 DEF Quieter
<1>3. CASE req[r].token \in session.valid /\ session' = Api!SignedOut(session, req[r].token)
  <2>1. req[r].token \in Api!Token
    BY <1>1, <1>3
  <2> QED
    BY <1>1, <1>3, <2>1, SignedOutFields DEF Quieter
<1> QED
  BY <1>2, <1>3 DEF Api!Handled

\* A call that is not concerned with a refresh, before or after.
LEMMA QuietStep ==
  ASSUME ClientsTyped, NEW r \in Requests,
         Api!Send(r) \/ Api!Answer(r) \/ Api!Reject(r) \/ Api!Retry(r)
  PROVE  /\ ClientsTyped' /\ Quieter
         /\ UNCHANGED <<tab, localStorage, abandoned>> /\ session'.late = session.late
         /\ \A q \in Requests : /\ req'[q].tab = req[q].tab
                                /\ \/ req'[q] = req[q]
                                   \/ ~InFlight(req', q) /\ ~InFlight(req, q)
                                /\ Early(req', q) => Early(req, q)
<1>1. Api!Mine(r).token \in Api!Token \cup {None} /\ session \in Api!Server
  BY ClientFacts
<1>2. /\ req[r].pc \in {"idle", "sent", "retrying"}
      /\ UNCHANGED <<tab, localStorage, abandoned>>
      /\ UNCHANGED session \/ Api!Handled(r)
  BY DEF Api!Send, Api!Answer, Api!Reject, Api!Retry, Api!Unauthorized
<1>3. PICK pc \in {"sent", "resolved", "rejected"}, pair \in Api!Token \cup {None} :
        Api!Becomes(r, pc, pair) /\ (pc = "sent" => req[r].pc = "idle")
  BY <1>1 DEF Api!Send, Api!Answer, Api!Reject, Api!Retry
<1>4. /\ req' \in [Requests -> Api!Call]
      /\ req'[r].pc = pc /\ req'[r].tab = req[r].tab /\ req'[r].token = pair
      /\ \A q \in Requests \ {r} : req'[q] = req[q]
  BY <1>3, CallStep
<1>5. \A t \in Tabs : \A q \in tab[t].refreshSubscribers : q \in Requests \ {r}
  BY <1>2, ClientFields DEF ClientsTyped, Api!TypeOK
<1>6. Quieter /\ session'.late = session.late
  BY <1>1, <1>2, LogoutIsQuiet DEF Quieter
<1>7. Api!TypeOK'
  BY <1>2, <1>4, <1>5, <1>6 DEF ClientsTyped, Api!TypeOK, Quieter
<1>8. RefreshTokens'
  BY <1>4 DEF ClientsTyped, RefreshTokens
<1> QED
  BY <1>2, <1>3, <1>4, <1>6, <1>7, <1>8 DEF ClientsTyped, InFlight, Early

LEMMA RefreshEffect ==
  ASSUME TokensAreFinite, ClientsTyped, NEW r \in Requests, Api!Refresh(r)
  PROVE  /\ ClientsTyped'
         /\ UNCHANGED <<session, localStorage, abandoned>>
         /\ req'[r].pc = "refreshing" /\ req'[r].tab = req[r].tab /\ req'[r].token = Api!Mine(r).token
         /\ req[r].pc = "sent" /\ req'[r].token \in Api!Token
         /\ \A q \in Requests \ {r} : req'[q] = req[q]
         /\ \A t \in Tabs : /\ tab'[t].token = tab[t].token
                            /\ tab'[t].isRefreshing = (t = req[r].tab \/ tab[t].isRefreshing)
<1> DEFINE c == [Api!Mine(r) EXCEPT !.isRefreshing = TRUE]
           t == req[r].tab
<1>1. /\ t \in Tabs /\ Api!Mine(r) \in Api!Client
      /\ Api!Mine(r).token \in Api!Token
      /\ req[r].pc = "sent"
  BY ClientFacts DEF Api!Refresh, Api!Unauthorized
<1>2. /\ c \in Api!Client /\ c.token = tab[t].token /\ c.isRefreshing = TRUE
      /\ c.refreshSubscribers = tab[t].refreshSubscribers
  BY <1>1 DEF Api!Client, Api!Mine
<1>3. tab' = [tab EXCEPT ![t] = c] /\ Api!Becomes(r, "refreshing", Api!Mine(r).token)
      /\ UNCHANGED <<localStorage, session, abandoned>>
  BY DEF Api!Refresh, Api!Mine
<1>4. /\ req' \in [Requests -> Api!Call]
      /\ req'[r].pc = "refreshing" /\ req'[r].tab = t /\ req'[r].token = Api!Mine(r).token
      /\ \A q \in Requests \ {r} : req'[q] = req[q]
  BY <1>1, <1>3, CallStep
<1> HIDE DEF c
<1>5. /\ tab' \in [Tabs -> Api!Client]
      /\ \A u \in Tabs : tab'[u] = IF u = t THEN c ELSE tab[u]
  BY <1>1, <1>2, <1>3, TabStep
<1> HIDE DEF t
<1>6. /\ \A u \in Tabs : tab'[u].token = tab[u].token
      /\ \A u \in Tabs : tab'[u].refreshSubscribers = tab[u].refreshSubscribers
  BY <1>2, <1>5
<1>7. \A u \in Tabs : tab'[u].isRefreshing = (u = t \/ tab[u].isRefreshing)
  <2> TAKE u \in Tabs
  <2>1. tab[u].isRefreshing \in BOOLEAN
    BY ClientFields DEF ClientsTyped, Api!TypeOK
  <2> QED
    BY <2>1, <1>2, <1>5
<1>8. \A u \in Tabs : \A q \in tab[u].refreshSubscribers : q \in Requests \ {r}
  BY <1>1, ClientFields DEF ClientsTyped, Api!TypeOK
<1>9. Api!TypeOK'
  BY <1>3, <1>4, <1>5, <1>6, <1>8 DEF ClientsTyped, Api!TypeOK
<1>10. RefreshTokens'
  BY <1>1, <1>4 DEF ClientsTyped, RefreshTokens
<1> QED
  BY <1>1, <1>3, <1>4, <1>6, <1>7, <1>9, <1>10 DEF ClientsTyped, t

LEMMA SubscribeEffect ==
  ASSUME ClientsTyped, NEW r \in Requests, Api!Subscribe(r)
  PROVE  /\ ClientsTyped'
         /\ UNCHANGED <<session, localStorage, abandoned>>
         /\ req'[r].tab = req[r].tab /\ ~InFlight(req, r) /\ ~InFlight(req', r)
         /\ ~Early(req', r)
         /\ \A q \in Requests \ {r} : req'[q] = req[q]
         /\ \A t \in Tabs : /\ tab'[t].token = tab[t].token
                            /\ tab'[t].isRefreshing = tab[t].isRefreshing
<1> DEFINE t == req[r].tab
           c == [tab[t] EXCEPT !.refreshSubscribers = tab[t].refreshSubscribers \cup {r}]
<1>1. t \in Tabs /\ tab[t] \in Api!Client /\ req[r].pc = "sent"
  BY ClientFacts DEF Api!Subscribe, Api!Unauthorized, Api!Mine
<1>2. /\ c \in Api!Client /\ c.token = tab[t].token /\ c.isRefreshing = tab[t].isRefreshing
      /\ c.refreshSubscribers = tab[t].refreshSubscribers \cup {r}
  BY <1>1 DEF Api!Client
<1>3. tab' = [tab EXCEPT ![t] = c] /\ Api!Becomes(r, "waiting", None)
      /\ UNCHANGED <<localStorage, session, abandoned>>
  BY DEF Api!Subscribe
<1>4. /\ req' \in [Requests -> Api!Call]
      /\ req'[r].pc = "waiting" /\ req'[r].tab = t
      /\ \A q \in Requests \ {r} : req'[q] = req[q]
  BY <1>3, CallStep
<1> HIDE DEF c
<1>5. /\ tab' \in [Tabs -> Api!Client]
      /\ \A u \in Tabs : tab'[u] = IF u = t THEN c ELSE tab[u]
  BY <1>1, <1>2, <1>3, TabStep
<1> HIDE DEF t
<1>6. /\ \A u \in Tabs : tab'[u].token = tab[u].token
      /\ \A u \in Tabs : tab'[u].isRefreshing = tab[u].isRefreshing
      /\ \A u \in Tabs : \A q \in tab'[u].refreshSubscribers :
           q \in tab[u].refreshSubscribers \/ (q = r /\ u = t)
  BY <1>2, <1>5
<1>7. \A u \in Tabs : \A q \in tab[u].refreshSubscribers : q \in Requests \ {r}
  BY <1>1, ClientFields DEF ClientsTyped, Api!TypeOK
<1>8. \A u \in Tabs : \A q \in tab'[u].refreshSubscribers : req'[q].pc = "waiting" /\ req'[q].tab = u
  BY <1>4, <1>6, <1>7 DEF ClientsTyped, Api!TypeOK
<1>9. Api!TypeOK'
  BY <1>3, <1>4, <1>5, <1>8 DEF ClientsTyped, Api!TypeOK
<1>10. RefreshTokens'
  BY <1>4 DEF ClientsTyped, RefreshTokens
<1> QED
  BY <1>1, <1>3, <1>4, <1>6, <1>9, <1>10 DEF ClientsTyped, InFlight, Early, t

LEMMA SuccessEffect ==
  ASSUME ClientsTyped, NEW r \in Requests, Api!RefreshSucceeds(r)
  PROVE  /\ ClientsTyped'
         /\ UNCHANGED <<session, abandoned>> /\ localStorage' = req[r].token
         /\ req[r].pc = "rotated" /\ ~InFlight(req', r)
         /\ \A q \in Requests : /\ req'[q].tab = req[q].tab
                                /\ \/ req'[q] = req[q]
                                   \/ (~InFlight(req', q) /\ ~Early(req', q))
         /\ tab'[req[r].tab].token = req[r].token /\ ~tab'[req[r].tab].isRefreshing
         /\ \A t \in Tabs \ {req[r].tab} : tab'[t] = tab[t]
<1> DEFINE t == req[r].tab
           pair == req[r].token
           c == [tab[t] EXCEPT !.token = pair, !.isRefreshing = FALSE,
                               !.refreshSubscribers = {r}]
<1>1. /\ t \in Tabs /\ req[r].pc = "rotated" /\ pair \in Api!Token
      /\ req \in [Requests -> Api!Call] /\ tab[t] \in Api!Client
  BY ClientFacts DEF Api!RefreshSucceeds, ClientsTyped, RefreshTokens, Api!TypeOK
<1>2. /\ c \in Api!Client /\ c.token = pair /\ c.refreshSubscribers = {r}
      /\ c.isRefreshing = FALSE
  <2>1. /\ pair \in Api!Token \cup {None} /\ {r} \in SUBSET Requests
        /\ FALSE \in BOOLEAN
    BY <1>1
  <2> HIDE DEF pair
  <2> QED
    BY <1>1, <2>1 DEF Api!Client
<1>3. /\ tab' = [tab EXCEPT ![t] = c]
      /\ req' = [s \in Requests |->
           IF s \in tab[t].refreshSubscribers THEN [req[s] EXCEPT !.pc = "retrying", !.token = pair]
           ELSE IF s = r THEN [req[s] EXCEPT !.pc = "waiting", !.token = None]
           ELSE req[s]]
      /\ localStorage' = pair /\ UNCHANGED <<session, abandoned>>
  BY DEF Api!RefreshSucceeds, Api!TokenRefreshed
<1> HIDE DEF c
<1>4. /\ tab' \in [Tabs -> Api!Client]
      /\ \A u \in Tabs : tab'[u] = IF u = t THEN c ELSE tab[u]
  BY <1>1, <1>2, <1>3, TabStep
<1>5. r \notin tab[t].refreshSubscribers
  BY <1>1 DEF ClientsTyped, Api!TypeOK
<1>6. ASSUME NEW q \in Requests
      PROVE  /\ req'[q] \in Api!Call /\ req'[q].tab = req[q].tab
             /\ req'[q] = req[q] \/ req'[q].pc \in {"retrying", "waiting"}
             /\ q = r => req'[q].pc = "waiting"
             /\ req'[q] = req[q] \/ q = r \/ q \in tab[t].refreshSubscribers
  <2> DEFINE retried == [req[q] EXCEPT !.pc = "retrying", !.token = pair]
             subscribed == [req[q] EXCEPT !.pc = "waiting", !.token = None]
  <2>1. req[q] \in Api!Call
    BY <1>1
  <2>2. retried \in Api!Call /\ retried.tab = req[q].tab /\ retried.pc = "retrying"
    BY <1>1, <2>1 DEF Api!Call
  <2>3. subscribed \in Api!Call /\ subscribed.tab = req[q].tab /\ subscribed.pc = "waiting"
    BY <2>1 DEF Api!Call
  <2>4. req'[q] = IF q \in tab[t].refreshSubscribers THEN retried
                  ELSE IF q = r THEN subscribed ELSE req[q]
    BY <1>3
  <2> HIDE DEF retried, subscribed
  <2> QED
    BY <1>5, <2>1, <2>2, <2>3, <2>4
<1>7. req' \in [Requests -> Api!Call]
  BY <1>3, <1>6
<1>8. \A u \in Tabs : \A q \in tab'[u].refreshSubscribers : req'[q].pc = "waiting" /\ req'[q].tab = u
  <2> SUFFICES ASSUME NEW u \in Tabs, NEW q \in tab'[u].refreshSubscribers
               PROVE  req'[q].pc = "waiting" /\ req'[q].tab = u
    OBVIOUS
  <2>1. CASE u = t
    BY <2>1, <1>2, <1>4, <1>6
  <2>2. CASE u # t
    <3>1. q \in tab[u].refreshSubscribers /\ q \in Requests /\ req[q].pc = "waiting" /\ req[q].tab = u
      BY <2>2, <1>4, ClientFields DEF ClientsTyped, Api!TypeOK
    <3>2. q # r /\ q \notin tab[t].refreshSubscribers
      BY <2>2, <3>1, <1>1, SMTT(30) DEF ClientsTyped, Api!TypeOK
    <3> QED
      BY <3>1, <3>2, <1>6
  <2> QED
    BY <2>1, <2>2
<1>9. Api!TypeOK'
  BY <1>1, <1>3, <1>4, <1>7, <1>8 DEF ClientsTyped, Api!TypeOK
<1>10. RefreshTokens'
  BY <1>6 DEF ClientsTyped, RefreshTokens
<1>11. \A q \in Requests : req'[q] = req[q] \/ (~InFlight(req', q) /\ ~Early(req', q))
  BY <1>6 DEF InFlight, Early
<1>12. ~InFlight(req', r)
  BY <1>6 DEF InFlight
<1> QED
  BY <1>1, <1>2, <1>3, <1>4, <1>6, <1>9, <1>10, <1>11, <1>12 DEF ClientsTyped

LEMMA FailureEffect ==
  ASSUME ClientsTyped, NEW r \in Requests, Api!RefreshFails(r)
  PROVE  /\ ClientsTyped' /\ Quieter /\ UNCHANGED abandoned /\ localStorage' = None
         /\ InFlight(req, r) /\ req'[r].pc = "waiting" /\ req'[r].tab = req[r].tab
         /\ \A q \in Requests \ {r} : req'[q] = req[q]
         /\ tab'[req[r].tab].token = None
         /\ \A t \in Tabs \ {req[r].tab} : tab'[t] = tab[t]
         /\ session'.late = session.late \cup Api!Pending({r})
<1> DEFINE t == req[r].tab
           c == [tab[t] EXCEPT !.isRefreshing = FALSE,
                   !.refreshSubscribers = tab[t].refreshSubscribers \cup {r}, !.token = None]
<1>1. t \in Tabs /\ tab[t] \in Api!Client /\ InFlight(req, r) /\ session \in Api!Server
  BY ClientFacts DEF Api!RefreshFails, Api!Mine, InFlight
<1>2. tab[t].refreshSubscribers \subseteq Requests
  BY <1>1, ClientFields
<1>3. c \in Api!Client /\ c.token = None
      /\ c.refreshSubscribers = tab[t].refreshSubscribers \cup {r}
  BY <1>1, <1>2 DEF Api!Client
<1>4. tab' = [tab EXCEPT ![t] = c] /\ Api!Becomes(r, "waiting", None)
      /\ localStorage' = None /\ UNCHANGED abandoned
  BY DEF Api!RefreshFails, Api!ClearTokens, Api!Mine
<1>5. /\ req' \in [Requests -> Api!Call]
      /\ req'[r].pc = "waiting" /\ req'[r].tab = t
      /\ \A q \in Requests \ {r} : req'[q] = req[q]
  BY <1>4, CallStep
<1> HIDE DEF c
<1>6. /\ tab' \in [Tabs -> Api!Client]
      /\ \A u \in Tabs : tab'[u] = IF u = t THEN c ELSE tab[u]
  BY <1>1, <1>3, <1>4, TabStep
<1> HIDE DEF t
<1>7. \A u \in Tabs : \A q \in tab'[u].refreshSubscribers :
        q \in tab[u].refreshSubscribers \/ (q = r /\ u = t)
  BY <1>3, <1>6
<1>8. \A u \in Tabs : \A q \in tab[u].refreshSubscribers : q \in Requests \ {r}
  BY <1>1, ClientFields DEF ClientsTyped, Api!TypeOK, InFlight
<1>9. \A u \in Tabs : \A q \in tab'[u].refreshSubscribers : req'[q].pc = "waiting" /\ req'[q].tab = u
  BY <1>5, <1>7, <1>8 DEF ClientsTyped, Api!TypeOK
<1>10. Quieter /\ session'.late = session.late \cup Api!Pending({r})
  <2>1. session' = [session EXCEPT !.late = session.late \cup Api!Pending({r})]
    BY DEF Api!RefreshFails
  <2>2. session.late \cup Api!Pending({r}) \subseteq LateRequest
    BY <1>1, PendingRequests, ServerFields
  <2> QED
    BY <1>1, <2>1, <2>2, ForgottenRequests
<1>11. Api!TypeOK'
  BY <1>4, <1>5, <1>6, <1>9, <1>10 DEF ClientsTyped, Api!TypeOK, Quieter
<1>12. RefreshTokens'
  BY <1>5 DEF ClientsTyped, RefreshTokens
<1> QED
  BY <1>1, <1>3, <1>4, <1>5, <1>6, <1>10, <1>11, <1>12 DEF ClientsTyped, t

\* The server exchanges the token of a call, or sees one that is used again.
LEMMA RotateEffect ==
  ASSUME TokensAreFinite, ClientsTyped, NEW r \in Requests, Api!Rotate(r)
  PROVE  /\ ClientsTyped'
         /\ UNCHANGED <<tab, localStorage, abandoned>>
         /\ req[r].pc = "refreshing" /\ req[r].token \in Api!Token
         /\ req'[r].pc = "rotated" /\ req'[r].tab = req[r].tab
         /\ req'[r].token = session.issued + 1
         /\ \A q \in Requests \ {r} : req'[q] = req[q]
         /\ session.issued < MaxTokens /\ session' = Api!Exchanged(session, req[r].token)
<1>1. /\ req[r].pc = "refreshing" /\ req[r].token \in Api!Token /\ session \in Api!Server
      /\ session.issued < MaxTokens /\ session' = Api!Exchanged(session, req[r].token)
      /\ Api!Becomes(r, "rotated", session.issued + 1)
      /\ UNCHANGED <<tab, localStorage, abandoned>>
  BY ClientFacts DEF Api!Rotate, ClientsTyped, RefreshTokens
<1>2. session' \in Api!Server /\ session.issued + 1 \in Api!Token
  BY <1>1, ExchangedFields
<1>3. /\ req' \in [Requests -> Api!Call]
      /\ req'[r].pc = "rotated" /\ req'[r].tab = req[r].tab /\ req'[r].token = session.issued + 1
      /\ \A q \in Requests \ {r} : req'[q] = req[q]
  BY <1>1, <1>2, CallStep
<1>4. \A t \in Tabs : \A q \in tab[t].refreshSubscribers : q \in Requests \ {r}
  BY <1>1, ClientFields DEF ClientsTyped, Api!TypeOK
<1>5. Api!TypeOK'
  BY <1>1, <1>2, <1>3, <1>4 DEF ClientsTyped, Api!TypeOK
<1>6. RefreshTokens'
  BY <1>2, <1>3 DEF ClientsTyped, RefreshTokens
<1> QED
  BY <1>1, <1>3, <1>5, <1>6 DEF ClientsTyped

LEMMA ReuseEffect ==
  ASSUME ClientsTyped, NEW r \in Requests, Api!DetectReuse(r)
  PROVE  /\ ClientsTyped'
         /\ UNCHANGED <<tab, localStorage, abandoned>>
         /\ req[r].pc = "refreshing" /\ req[r].token \in Api!Token
         /\ req[r].token \notin session.newest
         /\ req'[r].pc = "refused" /\ req'[r].tab = req[r].tab
         /\ \A q \in Requests \ {r} : req'[q] = req[q]
         /\ session' = Api!Detected(session, req[r].token)
<1>1. /\ req[r].pc = "refreshing" /\ req[r].token \in Api!Token /\ session \in Api!Server
      /\ req[r].token \notin session.newest /\ session' = Api!Detected(session, req[r].token)
      /\ Api!Becomes(r, "refused", None)
      /\ UNCHANGED <<tab, localStorage, abandoned>>
  BY ClientFacts DEF Api!DetectReuse, ClientsTyped, RefreshTokens
<1>2. session' \in Api!Server
  BY <1>1, DetectedFields
<1>3. /\ req' \in [Requests -> Api!Call] /\ req'[r].pc = "refused" /\ req'[r].tab = req[r].tab
      /\ \A q \in Requests \ {r} : req'[q] = req[q]
  BY <1>1, CallStep
<1>4. \A t \in Tabs : \A q \in tab[t].refreshSubscribers : q \in Requests \ {r}
  BY <1>1, ClientFields DEF ClientsTyped, Api!TypeOK
<1>5. Api!TypeOK'
  BY <1>1, <1>2, <1>3, <1>4 DEF ClientsTyped, Api!TypeOK
<1>6. RefreshTokens'
  BY <1>3 DEF ClientsTyped, RefreshTokens
<1> QED
  BY <1>1, <1>3, <1>5, <1>6 DEF ClientsTyped

\* A late request: of a token that is exchanged or seen again, or a logout.
LEMMA LateEffect ==
  ASSUME TokensAreFinite, ClientsTyped, NEW kind \in {"refresh", "logout"}, NEW r \in Requests,
         NEW k \in Api!Token, Api!ServeLate(kind, r, k)
  PROVE  /\ ClientsTyped' /\ UNCHANGED <<tab, localStorage, req, abandoned>>
         /\ <<kind, r, k>> \in session.late /\ session'.late = session.late \ {<<kind, r, k>>}
         /\ \/ /\ kind = "refresh" /\ session.issued < MaxTokens
               /\ session'.issued = session.issued + 1
               /\ session'.newest = (session.newest \cup {session.issued + 1}) \ {k}
               /\ session'.revoked = session.revoked /\ session'.thefts = session.thefts
            \/ /\ kind = "refresh" /\ k \notin session.newest
               /\ session'.issued = session.issued
               /\ session'.newest = {} /\ session'.revoked = session.revoked \cup session.newest
               /\ session'.thefts = session.thefts \cup {k}
            \/ Quieter
<1> DEFINE s == [session EXCEPT !.late = session.late \ {<<kind, r, k>>}]
<1>1. session \in Api!Server
  BY ClientFacts
<1>2. /\ s \in Api!Server /\ s.issued = session.issued /\ s.newest = session.newest
      /\ s.revoked = session.revoked /\ s.thefts = session.thefts
      /\ s.late = session.late \ {<<kind, r, k>>}
  BY <1>1 DEF Api!Server
<1>3. /\ <<kind, r, k>> \in session.late /\ UNCHANGED <<tab, localStorage, req, abandoned>>
      /\ \/ /\ kind = "refresh" /\ s.issued < MaxTokens /\ session' = Api!Exchanged(s, k)
         \/ /\ kind = "refresh" /\ k \notin s.newest /\ session' = Api!Detected(s, k)
         \/ session' = Api!SignedOut(s, k)
  BY DEF Api!ServeLate
<1> HIDE DEF s
<1>4. CASE kind = "refresh" /\ s.issued < MaxTokens /\ session' = Api!Exchanged(s, k)
  <2>1. /\ session' \in Api!Server /\ session'.issued = s.issued + 1
        /\ session'.newest = (s.newest \cup {s.issued + 1}) \ {k}
        /\ session'.revoked = s.revoked /\ session'.thefts = s.thefts /\ session'.late = s.late
    BY <1>2, <1>4, ExchangedFields
  <2> QED
    BY <1>2, <1>3, <1>4, <2>1 DEF ClientsTyped, Api!TypeOK, RefreshTokens
<1>5. CASE kind = "refresh" /\ k \notin s.newest /\ session' = Api!Detected(s, k)
  <2>1. /\ session' \in Api!Server /\ session'.issued = s.issued
        /\ session'.newest = {} /\ session'.revoked = s.revoked \cup s.newest
        /\ session'.thefts = s.thefts \cup {k} /\ session'.late = s.late
    BY <1>2, <1>5, DetectedFields
  <2> QED
    BY <1>2, <1>3, <1>5, <2>1 DEF ClientsTyped, Api!TypeOK, RefreshTokens
<1>6. CASE session' = Api!SignedOut(s, k)
  <2>1. /\ session' \in Api!Server /\ session'.issued = s.issued
        /\ session'.newest = s.newest \ {k} /\ session'.revoked = s.revoked \cup (s.newest \cap {k})
        /\ session'.thefts = s.thefts /\ session'.late = s.late
    BY <1>2, <1>6, SignedOutFields
  <2>2. Quieter
    BY <1>2, <2>1 DEF Quieter
  <2> QED
    BY <1>2, <1>3, <2>1, <2>2 DEF ClientsTyped, Api!TypeOK, RefreshTokens
<1> QED
  BY <1>3, <1>4, <1>5, <1>6

LEMMA ExpireEffect ==
  ASSUME ClientsTyped, NEW pair \in Api!Token, Api!Expire(pair)
  PROVE  /\ ClientsTyped' /\ Quieter /\ session'.late = session.late
         /\ UNCHANGED <<tab, localStorage, req, abandoned>>
<1> DEFINE s == [session EXCEPT !.valid = session.valid \ {pair}]
<1>1. session \in Api!Server
  BY DEF ClientsTyped, Api!TypeOK
<1>2. /\ s \in Api!Server /\ s.issued = session.issued /\ s.newest = session.newest
      /\ s.revoked = session.revoked /\ s.thefts = session.thefts /\ s.late = session.late
  BY <1>1 DEF Api!Server
<1>3. session' = s /\ UNCHANGED <<tab, localStorage, req, abandoned>>
  BY DEF Api!Expire
<1> HIDE DEF s
<1> QED
  BY <1>2, <1>3 DEF ClientsTyped, Api!TypeOK, RefreshTokens, Quieter

LEMMA LoginEffect ==
  ASSUME TokensAreFinite, ClientsTyped, NEW t \in Tabs, Api!Login(t)
  PROVE  /\ ClientsTyped' /\ UNCHANGED <<req, abandoned>>
         /\ session.issued < MaxTokens /\ session.issued + 1 \in Api!Token
         /\ session'.issued = session.issued + 1
         /\ session'.newest = session.newest \cup {session.issued + 1}
         /\ session'.revoked = session.revoked /\ session'.thefts = session.thefts
         /\ session'.late = session.late
         /\ localStorage' = session.issued + 1 /\ tab'[t].token = session.issued + 1
         /\ tab'[t].isRefreshing = tab[t].isRefreshing
         /\ \A u \in Tabs \ {t} : tab'[u] = tab[u]
<1> DEFINE pair == session.issued + 1
           c == [tab[t] EXCEPT !.token = pair]
<1>1. session \in Api!Server /\ tab[t] \in Api!Client /\ session.issued < MaxTokens
  BY DEF ClientsTyped, Api!TypeOK, Api!Login
<1>2. /\ session' = Api!Issued(session) /\ tab' = [tab EXCEPT ![t] = c]
      /\ localStorage' = pair /\ UNCHANGED <<req, abandoned>>
  BY DEF Api!Login, Api!SetTokens
<1>3. /\ session' \in Api!Server /\ pair \in Api!Token /\ session'.issued = pair
      /\ session'.newest = session.newest \cup {pair}
      /\ session'.revoked = session.revoked /\ session'.thefts = session.thefts
      /\ session'.late = session.late
  BY <1>1, <1>2, IssuedFields
<1>4. /\ c \in Api!Client /\ c.token = pair /\ c.isRefreshing = tab[t].isRefreshing
      /\ c.refreshSubscribers = tab[t].refreshSubscribers
  BY <1>1, <1>3 DEF Api!Client
<1> HIDE DEF c
<1>5. /\ tab' \in [Tabs -> Api!Client]
      /\ \A u \in Tabs : tab'[u] = IF u = t THEN c ELSE tab[u]
  BY <1>2, <1>4, TabStep
<1>6. \A u \in Tabs : tab'[u].refreshSubscribers = tab[u].refreshSubscribers
  BY <1>4, <1>5
<1>7. Api!TypeOK'
  BY <1>2, <1>3, <1>5, <1>6 DEF ClientsTyped, Api!TypeOK
<1>8. RefreshTokens'
  BY <1>2 DEF ClientsTyped, RefreshTokens
<1> QED
  BY <1>1, <1>2, <1>3, <1>4, <1>5, <1>7, <1>8 DEF ClientsTyped

LEMMA AskedEffect ==
  ASSUME ClientsTyped, NEW t \in Tabs, Api!LogoutAsked(t)
  PROVE  /\ ClientsTyped' /\ UNCHANGED <<session, localStorage, abandoned>>
         /\ \A u \in Tabs : /\ tab'[u].token = tab[u].token
                            /\ tab'[u].isRefreshing = tab[u].isRefreshing
         /\ \A q \in Requests : /\ req'[q].tab = req[q].tab
                                /\ \/ req'[q] = req[q]
                                   \/ ~InFlight(req', q) /\ ~InFlight(req, q)
                                /\ Early(req', q) => Early(req, q)
<1>1. /\ tab[t] \in Api!Client /\ tab[t].token \in Api!Token \cup {None}
      /\ req \in [Requests -> Api!Call]
  BY ClientFields DEF ClientsTyped, Api!TypeOK
<1>2. PICK r \in Requests :
        /\ req[r].pc = "idle"
        /\ req' = [req EXCEPT ![r] = [req[r] EXCEPT !.pc = "sent", !.token = tab[t].token,
                                                   !.logout = TRUE]]
  BY DEF Api!LogoutAsked
<1> DEFINE c == [tab[t] EXCEPT !.leaving = "asked"]
           d == [req[r] EXCEPT !.pc = "sent", !.token = tab[t].token, !.logout = TRUE]
<1>3. tab' = [tab EXCEPT ![t] = c] /\ UNCHANGED <<session, localStorage, abandoned>>
  BY DEF Api!LogoutAsked
<1>4. /\ c \in Api!Client /\ c.token = tab[t].token /\ c.isRefreshing = tab[t].isRefreshing
      /\ c.refreshSubscribers = tab[t].refreshSubscribers
  BY <1>1 DEF Api!Client
<1>5. req[r] \in Api!Call
  BY <1>1
<1>6. d \in Api!Call /\ d.pc = "sent" /\ d.tab = req[r].tab
  BY <1>1, <1>5 DEF Api!Call
<1> HIDE DEF c, d
<1>7. /\ tab' \in [Tabs -> Api!Client]
      /\ \A u \in Tabs : tab'[u] = IF u = t THEN c ELSE tab[u]
  BY <1>3, <1>4, TabStep
<1>8. /\ req' \in [Requests -> Api!Call] /\ req'[r] = d
      /\ \A q \in Requests \ {r} : req'[q] = req[q]
  BY <1>1, <1>2, <1>6 DEF d
<1>9. \A u \in Tabs : \A q \in tab[u].refreshSubscribers : q \in Requests \ {r}
  BY <1>2, ClientFields DEF ClientsTyped, Api!TypeOK
<1>10. \A u \in Tabs : /\ tab'[u].refreshSubscribers = tab[u].refreshSubscribers
                       /\ tab'[u].token = tab[u].token
                       /\ tab'[u].isRefreshing = tab[u].isRefreshing
  BY <1>4, <1>7
<1>11. Api!TypeOK'
  BY <1>3, <1>7, <1>8, <1>9, <1>10 DEF ClientsTyped, Api!TypeOK
<1>12. RefreshTokens'
  BY <1>6, <1>8 DEF ClientsTyped, RefreshTokens
<1> QED
  BY <1>2, <1>3, <1>6, <1>8, <1>10, <1>11, <1>12 DEF ClientsTyped, InFlight, Early

\* clearTokens of AuthProvider: a refresh that is under way goes on.
LEMMA ClearEffect ==
  ASSUME ClientsTyped, NEW t \in Tabs, Api!LogoutDone(t) \/ Api!Forget(t)
  PROVE  /\ ClientsTyped' /\ UNCHANGED <<session, req, abandoned>> /\ localStorage' = None
         /\ tab'[t].token = None /\ tab'[t].isRefreshing = tab[t].isRefreshing
         /\ \A u \in Tabs \ {t} : tab'[u] = tab[u]
<1>1. tab[t] \in Api!Client
  BY DEF ClientsTyped, Api!TypeOK
<1>2. PICK c \in Api!Client :
        /\ tab' = [tab EXCEPT ![t] = c] /\ c.token = None
        /\ c.isRefreshing = tab[t].isRefreshing
        /\ c.refreshSubscribers = tab[t].refreshSubscribers
  <2>1. CASE Api!LogoutDone(t)
    <3> DEFINE c == [tab[t] EXCEPT !.leaving = "gone", !.token = None]
    <3>1. /\ c \in Api!Client /\ c.token = None /\ c.isRefreshing = tab[t].isRefreshing
          /\ c.refreshSubscribers = tab[t].refreshSubscribers
      BY <1>1 DEF Api!Client
    <3>2. tab' = [tab EXCEPT ![t] = c]
      BY <2>1 DEF Api!LogoutDone, Api!ClearTokens
    <3> HIDE DEF c
    <3> QED
      BY <3>1, <3>2
  <2>2. CASE Api!Forget(t)
    <3> DEFINE c == [tab[t] EXCEPT !.token = None]
    <3>1. /\ c \in Api!Client /\ c.token = None /\ c.isRefreshing = tab[t].isRefreshing
          /\ c.refreshSubscribers = tab[t].refreshSubscribers
      BY <1>1 DEF Api!Client
    <3>2. tab' = [tab EXCEPT ![t] = c]
      BY <2>2 DEF Api!Forget, Api!ClearTokens
    <3> HIDE DEF c
    <3> QED
      BY <3>1, <3>2
  <2> QED
    BY <2>1, <2>2
<1>3. UNCHANGED <<session, req, abandoned>> /\ localStorage' = None
  BY DEF Api!LogoutDone, Api!Forget, Api!ClearTokens
<1>4. /\ tab' \in [Tabs -> Api!Client]
      /\ \A u \in Tabs : tab'[u] = IF u = t THEN c ELSE tab[u]
  BY <1>2, TabStep
<1>5. \A u \in Tabs : tab'[u].refreshSubscribers = tab[u].refreshSubscribers
  BY <1>2, <1>4
<1>6. Api!TypeOK'
  BY <1>3, <1>4, <1>5 DEF ClientsTyped, Api!TypeOK
<1> QED
  BY <1>2, <1>3, <1>4, <1>6 DEF ClientsTyped, RefreshTokens

LEMMA LoadEffect ==
  ASSUME ClientsTyped, NEW t \in Tabs, Api!LoadPage(t)
  PROVE  /\ ClientsTyped' /\ Quieter /\ UNCHANGED localStorage
         /\ tab'[t].token = localStorage /\ ~tab'[t].isRefreshing
         /\ \A u \in Tabs \ {t} : tab'[u] = tab[u]
         /\ \A q \in Requests : /\ req'[q].tab = req[q].tab
                                /\ req[q].tab = t => ~InFlight(req', q)
                                /\ req[q].tab # t => req'[q] = req[q]
                                /\ Early(req', q) /\ req[q].tab = t
                                     => req'[q] = req[q] /\ req[q].pc = "idle"
         /\ abandoned \subseteq abandoned'
         /\ tab[t].isRefreshing /\ localStorage # None => localStorage \in abandoned'
         /\ session'.late = session.late \cup Api!Pending({q \in Requests : req[q].tab = t})
<1> DEFINE c == [token |-> localStorage, isRefreshing |-> FALSE, refreshSubscribers |-> {},
                 leaving |-> "no"]
           calls == {q \in Requests : req[q].tab = t}
<1>1. /\ c \in Api!Client /\ c.token = localStorage /\ c.refreshSubscribers = {}
      /\ c.isRefreshing = FALSE
  BY DEF Api!Client, ClientsTyped, Api!TypeOK
<1>2. /\ tab' = [tab EXCEPT ![t] = c]
      /\ req' = [r \in Requests |->
           IF req[r].tab = t /\ req[r].pc # "idle"
           THEN [req[r] EXCEPT !.pc = "rejected", !.token = None] ELSE req[r]]
      /\ UNCHANGED localStorage
  BY DEF Api!LoadPage
<1> HIDE DEF c
<1>3. /\ tab' \in [Tabs -> Api!Client]
      /\ \A u \in Tabs : tab'[u] = IF u = t THEN c ELSE tab[u]
  BY <1>1, <1>2, TabStep
<1>4. ASSUME NEW q \in Requests
      PROVE  /\ req'[q] \in Api!Call /\ req'[q].tab = req[q].tab
             /\ req'[q] = req[q] \/ req'[q].pc = "rejected"
             /\ req[q].tab = t => \/ req'[q] = req[q] /\ req[q].pc = "idle"
                                 \/ req'[q].pc = "rejected"
             /\ req[q].tab # t => req'[q] = req[q]
  <2> DEFINE gone == [req[q] EXCEPT !.pc = "rejected", !.token = None]
  <2>1. req[q] \in Api!Call
    BY ClientFacts
  <2>2. gone \in Api!Call /\ gone.tab = req[q].tab /\ gone.pc = "rejected"
    BY <2>1 DEF Api!Call
  <2>3. req'[q] = IF req[q].tab = t /\ req[q].pc # "idle" THEN gone ELSE req[q]
    BY <1>2
  <2> HIDE DEF gone
  <2> QED
    BY <2>1, <2>2, <2>3
<1>5. req' \in [Requests -> Api!Call]
  BY <1>2, <1>4
<1>6. \A u \in Tabs : \A q \in tab'[u].refreshSubscribers : req'[q].pc = "waiting" /\ req'[q].tab = u
  <2> SUFFICES ASSUME NEW u \in Tabs, NEW q \in tab'[u].refreshSubscribers
               PROVE  req'[q].pc = "waiting" /\ req'[q].tab = u
    OBVIOUS
  <2>1. u # t /\ q \in tab[u].refreshSubscribers
    BY <1>1, <1>3
  <2>2. q \in Requests /\ req[q].pc = "waiting" /\ req[q].tab = u
    BY <2>1, ClientFields DEF ClientsTyped, Api!TypeOK
  <2> QED
    BY <2>1, <2>2, <1>4
<1>7. Quieter /\ session'.late = session.late \cup Api!Pending(calls)
  <2>1. session' = [session EXCEPT !.late = session.late \cup Api!Pending(calls)]
    BY DEF Api!LoadPage
  <2>2. session \in Api!Server
    BY DEF ClientsTyped, Api!TypeOK
  <2>3. session.late \cup Api!Pending(calls) \subseteq LateRequest
    BY <2>2, PendingRequests, ServerFields
  <2> QED
    BY <2>1, <2>2, <2>3, ForgottenRequests
<1>8. /\ abandoned \subseteq abandoned' /\ abandoned' \subseteq Api!Token
      /\ tab[t].isRefreshing /\ localStorage # None => localStorage \in abandoned'
  BY DEF Api!LoadPage, ClientsTyped, Api!TypeOK
<1>9. Api!TypeOK'
  BY <1>2, <1>3, <1>5, <1>6, <1>7, <1>8 DEF ClientsTyped, Api!TypeOK, Quieter
<1>10. RefreshTokens'
  BY <1>4 DEF ClientsTyped, RefreshTokens
<1>11. \A q \in Requests : req[q].tab = t => ~InFlight(req', q)
  BY <1>4 DEF InFlight
<1>12. \A q \in Requests : Early(req', q) /\ req[q].tab = t
                           => req'[q] = req[q] /\ req[q].pc = "idle"
  BY <1>4 DEF Early
<1> QED
  BY <1>1, <1>2, <1>3, <1>4, <1>7, <1>8, <1>9, <1>10, <1>11, <1>12 DEF ClientsTyped

LEMMA ClientsStayTyped ==
  TokensAreFinite /\ ClientsTyped /\ [Api!Next]_Api!vars => ClientsTyped'
<1> SUFFICES ASSUME TokensAreFinite, ClientsTyped, [Api!Next]_Api!vars
             PROVE  ClientsTyped'
  OBVIOUS
<1>1. ASSUME NEW r \in Requests, Api!Send(r) \/ Api!Progress(r) \/ Api!RefreshFails(r)
      PROVE  ClientsTyped'
  BY <1>1, QuietStep, RefreshEffect, SubscribeEffect, SuccessEffect, FailureEffect,
     RotateEffect, ReuseEffect DEF Api!Progress
<1>2. ASSUME NEW kind \in {"refresh", "logout"}, NEW r \in Requests, NEW k \in Api!Token,
             Api!ServeLate(kind, r, k)
      PROVE  ClientsTyped'
  BY <1>2, LateEffect
<1>3. ASSUME NEW t \in Tabs,
             \/ Api!Login(t) \/ Api!LogoutAsked(t) \/ Api!LogoutDone(t) \/ Api!Forget(t)
             \/ Api!LoadPage(t)
      PROVE  ClientsTyped'
  BY <1>3, LoginEffect, AskedEffect, ClearEffect, LoadEffect
<1>4. ASSUME UNCHANGED Api!vars
      PROVE  ClientsTyped'
  BY <1>4 DEF Api!vars, ClientsTyped, Api!TypeOK, RefreshTokens
<1> QED
  BY <1>1, <1>2, <1>3, <1>4, ExpireEffect DEF Api!Next

LEMMA ClientsBeginTyped == TokensAreFinite /\ Api!Init => ClientsTyped
<1> SUFFICES ASSUME TokensAreFinite, Api!Init
             PROVE  ClientsTyped
  OBVIOUS
<1>1. 1 \in Api!Token
  BY DEF TokensAreFinite, Api!Token
<1>2. tab \in [Tabs -> Api!Client] /\ \A t \in Tabs : tab[t].refreshSubscribers = {}
  BY <1>1 DEF Api!Init, Api!Client
<1>3. session \in Api!Server
  <2>1. {} \in SUBSET ({"refresh", "logout"} \X Requests \X Api!Token)
    OBVIOUS
  <2> QED
    BY <1>1, <2>1 DEF Api!Init, Api!Server
<1>4. req \in [Requests -> Api!Call] /\ \A r \in Requests : req[r].pc = "idle"
  <2> DEFINE begun == {[pc |-> "idle", tab |-> t, token |-> None, logout |-> FALSE] : t \in Tabs}
  <2>1. \A c \in begun : c \in Api!Call /\ c.pc = "idle"
    <3>1. ASSUME NEW t \in Tabs
          PROVE  [pc |-> "idle", tab |-> t, token |-> None, logout |-> FALSE] \in Api!Call
      BY DEF Api!Call
    <3> QED
      BY <3>1
  <2>2. req \in [Requests -> begun]
    BY DEF Api!Init
  <2> HIDE DEF begun
  <2> QED
    BY <2>1, <2>2
<1> QED
  BY <1>1, <1>2, <1>3, <1>4 DEF ClientsTyped, Api!TypeOK, RefreshTokens, Api!Init

\* Tokens, subscribers and calls stay well typed with any number of tabs, pages that
\* are loaded anew and answers that are lost; who waits for a refresh is a subscriber
\* of its own tab.
THEOREM ApiClientTypeCorrect == TokensAreFinite => (Api!Spec => []Api!TypeOK)
<1> SUFFICES ASSUME TokensAreFinite
             PROVE  Api!Spec => []Api!TypeOK
  OBVIOUS
<1>1. ClientsTyped => Api!TypeOK
  BY DEF ClientsTyped
<1> QED
  BY <1>1, ClientsBeginTyped, ClientsStayTyped, PTL DEF Api!Spec

-----------------------------------------------------------------------------
\* The setting in which isRefreshing is enough: one page.
OnePage == \A t, u \in Tabs : t = u

\* Who may still use a refresh token, or give it to the page: a request that is on its
\* way, a call that has it for an answer, a page that is not refreshing.
Holds(r, k) ==
  \/ req[r].pc \in {"refreshing", "rotated"} /\ req[r].token = k
  \/ <<"refresh", r, k>> \in session.late

PageHolds(t, k) == ~tab[t].isRefreshing /\ tab[t].token = k

Excused(k) == k \in session.revoked \/ k \in abandoned

\* Unless it is excused, a token has one holder, and its row is not revoked.
OneHolder ==
  \A k \in Api!Token : ~Excused(k) =>
    /\ \A r \in Requests : Holds(r, k) => k \in session.newest
    /\ \A t \in Tabs : PageHolds(t, k) => k \in session.newest
    /\ \A r, q \in Requests : Holds(r, k) /\ Holds(q, k) => r = q
    /\ \A r \in Requests, t \in Tabs : ~(Holds(r, k) /\ PageHolds(t, k))

\* Nobody has a token that has not been given out.
GivenOut ==
  \A k \in Api!Token : session.issued < k =>
    /\ k \notin session.newest
    /\ \A r \in Requests : ~Holds(r, k)
    /\ \A t \in Tabs : tab[t].token # k

\* One call refreshes at a time, while the page says so; the page has what is stored.
OneCall ==
  /\ \A r, q \in Requests : InFlight(req, r) /\ InFlight(req, q) => r = q
  /\ \A r \in Requests : InFlight(req, r) => tab[req[r].tab].isRefreshing
  /\ \A t \in Tabs : tab[t].token = localStorage

\* A call whose refresh is late has given it up.
GivenUp ==
  \A r \in Requests, k \in Api!Token : <<"refresh", r, k>> \in session.late => ~Early(req, r)

\* The inductive invariant.
OneRefresh == ClientsTyped /\ Api!ExchangedOnce /\ OneCall /\ GivenUp /\ GivenOut /\ OneHolder

\* Nobody gets hold of a token, and no row is revoked without an excuse.
LEMMA HoldersKept ==
  ASSUME OneRefresh, session'.issued = session.issued,
         session'.newest \subseteq session.newest,
         session.newest \subseteq session'.newest \cup session'.revoked,
         session.revoked \subseteq session'.revoked, abandoned \subseteq abandoned',
         \A k \in Api!Token, r \in Requests : Holds(r, k)' => Holds(r, k),
         \A k \in Api!Token, t \in Tabs :
           /\ PageHolds(t, k)' => PageHolds(t, k) \/ k \in abandoned'
           /\ tab'[t].token = k => tab[t].token = k
  PROVE  GivenOut' /\ OneHolder'
<1>1. \A k \in Api!Token : ~Excused(k)' => ~Excused(k) /\ k \notin abandoned' /\ k \notin session'.revoked
  BY DEF Excused
<1>2. GivenOut'
  <2> SUFFICES ASSUME NEW k \in Api!Token, session'.issued < k
               PROVE  /\ k \notin session'.newest
                      /\ \A r \in Requests : ~Holds(r, k)'
                      /\ \A t \in Tabs : tab'[t].token # k
    BY DEF GivenOut
  <2>1. /\ k \notin session.newest
        /\ \A r \in Requests : ~Holds(r, k)
        /\ \A t \in Tabs : tab[t].token # k
    BY DEF OneRefresh, GivenOut
  <2> QED
    BY <2>1
<1>3. OneHolder'
  <2> SUFFICES ASSUME NEW k \in Api!Token, ~Excused(k)'
               PROVE  /\ \A r \in Requests : Holds(r, k)' => k \in session'.newest
                      /\ \A t \in Tabs : PageHolds(t, k)' => k \in session'.newest
                      /\ \A r, q \in Requests : Holds(r, k)' /\ Holds(q, k)' => r = q
                      /\ \A r \in Requests, t \in Tabs : ~(Holds(r, k)' /\ PageHolds(t, k)')
    BY DEF OneHolder
  <2>1. /\ \A r \in Requests : Holds(r, k) => k \in session.newest
        /\ \A t \in Tabs : PageHolds(t, k) => k \in session.newest
        /\ \A r, q \in Requests : Holds(r, k) /\ Holds(q, k) => r = q
        /\ \A r \in Requests, t \in Tabs : ~(Holds(r, k) /\ PageHolds(t, k))
    BY <1>1 DEF OneRefresh, OneHolder
  <2>2. \A t \in Tabs : PageHolds(t, k)' => PageHolds(t, k)
    BY <1>1
  <2>3. k \in session.newest => k \in session'.newest
    BY <1>1
  <2> QED
    BY <2>1, <2>2, <2>3
<1> QED
  BY <1>2, <1>3

\* A token is exchanged: whoever had it has it no more, but for who is excused.
LEMMA HoldersExchanged ==
  ASSUME OneRefresh, TokensAreFinite, session.issued < MaxTokens,
         session.issued + 1 \in Api!Token, NEW p \in Requests, NEW k \in Api!Token, Holds(p, k),
         session'.issued = session.issued + 1,
         session'.newest = (session.newest \cup {session.issued + 1}) \ {k},
         UNCHANGED <<tab, abandoned>>, session'.revoked = session.revoked,
         \A j \in Api!Token, r \in Requests :
           Holds(r, j)' => \/ j = session.issued + 1 /\ r = p
                           \/ j # k /\ Holds(r, j)
                           \/ r # p /\ Holds(r, j)
  PROVE  GivenOut' /\ OneHolder'
<1> DEFINE next == session.issued + 1
<1>1. session.issued \in Nat /\ \A j \in Api!Token : j \in Nat
  BY ServerFields DEF OneRefresh, ClientsTyped, Api!TypeOK, Api!Token
<1>2. /\ next \notin session.newest /\ \A r \in Requests : ~Holds(r, next)
      /\ \A t \in Tabs : tab[t].token # next
  BY <1>1 DEF OneRefresh, GivenOut
<1>3. k # next /\ \A j \in Api!Token : Excused(j)' = Excused(j)
  BY <1>2 DEF Excused
<1>4. \A j \in Api!Token, t \in Tabs : PageHolds(t, j)' = PageHolds(t, j)
  BY DEF PageHolds
<1>5. GivenOut'
  <2> SUFFICES ASSUME NEW j \in Api!Token, session'.issued < j
               PROVE  /\ j \notin session'.newest
                      /\ \A r \in Requests : ~Holds(r, j)'
                      /\ \A t \in Tabs : tab'[t].token # j
    BY DEF GivenOut
  <2>1. session.issued < j /\ j # next
    BY <1>1
  <2>2. /\ j \notin session.newest
        /\ \A r \in Requests : ~Holds(r, j)
        /\ \A t \in Tabs : tab[t].token # j
    BY <2>1 DEF OneRefresh, GivenOut
  <2> QED
    BY <2>1, <2>2
<1>6. OneHolder'
  <2> SUFFICES ASSUME NEW j \in Api!Token, ~Excused(j)
               PROVE  /\ \A r \in Requests : Holds(r, j)' => j \in session'.newest
                      /\ \A t \in Tabs : PageHolds(t, j)' => j \in session'.newest
                      /\ \A r, q \in Requests : Holds(r, j)' /\ Holds(q, j)' => r = q
                      /\ \A r \in Requests, t \in Tabs : ~(Holds(r, j)' /\ PageHolds(t, j)')
    BY <1>3 DEF OneHolder
  <2>1. /\ \A r \in Requests : Holds(r, j) => j \in session.newest
        /\ \A t \in Tabs : PageHolds(t, j) => j \in session.newest
        /\ \A r, q \in Requests : Holds(r, j) /\ Holds(q, j) => r = q
        /\ \A r \in Requests, t \in Tabs : ~(Holds(r, j) /\ PageHolds(t, j))
    BY DEF OneRefresh, OneHolder
  <2>2. CASE j = next
    <3>1. \A r \in Requests : Holds(r, j)' => r = p
      BY <1>2, <2>2
    <3>2. \A t \in Tabs : ~PageHolds(t, j)
      BY <1>2, <2>2 DEF PageHolds
    <3>3. j \in session'.newest
      BY <1>3, <2>2
    <3> QED
      BY <1>4, <3>1, <3>2, <3>3
  <2>3. CASE j = k
    <3>1. \A r \in Requests : ~Holds(r, j)'
      BY <1>3, <2>1, <2>3
    <3>2. \A t \in Tabs : ~PageHolds(t, j)
      BY <2>1, <2>3
    <3> QED
      BY <1>4, <3>1, <3>2
  <2>4. CASE j # next /\ j # k
    <3>1. \A r \in Requests : Holds(r, j)' => Holds(r, j)
      BY <2>4
    <3>2. j \in session.newest => j \in session'.newest
      BY <2>4
    <3> QED
      BY <1>4, <2>1, <3>1, <3>2
  <2> QED
    BY <2>2, <2>3, <2>4
<1> QED
  BY <1>5, <1>6

\* No call refreshes when the page is not refreshing.
LEMMA NobodyRefreshes ==
  ASSUME OnePage, OneRefresh, NEW t \in Tabs, ~tab[t].isRefreshing
  PROVE  \A r \in Requests : ~InFlight(req, r)
<1> SUFFICES ASSUME NEW r \in Requests, InFlight(req, r)
             PROVE  FALSE
  OBVIOUS
<1>1. req[r].tab = t
  BY ClientFacts DEF OnePage, OneRefresh
<1> QED
  BY <1>1 DEF OneRefresh, OneCall

\* A token that is seen a second time is one that is excused.
LEMMA SeenAgain ==
  ASSUME OneRefresh, NEW r \in Requests, NEW k \in Api!Token, Holds(r, k),
         k \notin session.newest
  PROVE  Excused(k)
BY DEF OneRefresh, OneHolder

LEMMA OneRefreshCalls ==
  ASSUME TokensAreFinite, OnePage, OneRefresh, NEW r \in Requests,
         Api!Send(r) \/ Api!Progress(r) \/ Api!RefreshFails(r)
  PROVE  OneRefresh'
<1>0. /\ ClientsTyped /\ req[r].tab \in Tabs /\ \A t \in Tabs : t = req[r].tab
      /\ session \in Api!Server
  BY ClientFacts DEF OneRefresh, OnePage
<1>1. CASE Api!Send(r) \/ Api!Answer(r) \/ Api!Reject(r) \/ Api!Retry(r)
  <2>1. /\ ClientsTyped' /\ Quieter
        /\ UNCHANGED <<tab, localStorage, abandoned>> /\ session'.late = session.late
        /\ \A q \in Requests : /\ req'[q].tab = req[q].tab
                               /\ \/ req'[q] = req[q]
                                  \/ ~InFlight(req', q) /\ ~InFlight(req, q)
                               /\ Early(req', q) => Early(req, q)
    BY <1>0, <1>1, QuietStep
  <2>2. \A q \in Requests : InFlight(req', q) => req'[q] = req[q] /\ InFlight(req, q)
    BY <2>1 DEF InFlight
  <2>3. \A k \in Api!Token, q \in Requests : Holds(q, k)' => Holds(q, k)
    BY <2>1 DEF Holds, InFlight
  <2>4. GivenOut' /\ OneHolder'
    BY <2>1, <2>3, HoldersKept DEF Quieter, PageHolds
  <2> QED
    BY <2>1, <2>2, <2>4 DEF OneRefresh, OneCall, GivenUp, Quieter, Api!ExchangedOnce
<1>2. CASE Api!Refresh(r)
  <2>1. /\ ClientsTyped'
        /\ UNCHANGED <<session, localStorage, abandoned>>
        /\ req'[r].pc = "refreshing" /\ req'[r].tab = req[r].tab
        /\ req'[r].token = Api!Mine(r).token /\ req'[r].token \in Api!Token
        /\ req[r].pc = "sent"
        /\ \A q \in Requests \ {r} : req'[q] = req[q]
        /\ \A t \in Tabs : /\ tab'[t].token = tab[t].token
                           /\ tab'[t].isRefreshing = (t = req[r].tab \/ tab[t].isRefreshing)
    BY <1>0, <1>2, RefreshEffect
  <2> DEFINE t == req[r].tab
             k == tab[t].token
  <2>2. ~tab[t].isRefreshing
    BY <1>2 DEF Api!Refresh, Api!Mine
  <2>3. \A q \in Requests : ~InFlight(req, q)
    BY <1>0, <2>2, NobodyRefreshes
  <2>4. PageHolds(t, k) /\ k \in Api!Token /\ t \in Tabs
    BY <1>0, <2>1, <2>2 DEF PageHolds, Api!Mine
  <2>5. \A j \in Api!Token, q \in Requests : Holds(q, j)' => Holds(q, j) \/ (q = r /\ j = k)
    BY <2>1 DEF Holds, Api!Mine
  <2>6. \A j \in Api!Token, u \in Tabs : ~PageHolds(u, j)'
    BY <1>0, <2>1 DEF PageHolds
  <2>7. \A j \in Api!Token : Excused(j)' = Excused(j)
    BY <2>1 DEF Excused
  <2>8. OneHolder'
    <3> SUFFICES ASSUME NEW j \in Api!Token, ~Excused(j)
                 PROVE  /\ \A q \in Requests : Holds(q, j)' => j \in session'.newest
                        /\ \A p, q \in Requests : Holds(p, j)' /\ Holds(q, j)' => p = q
      BY <2>6, <2>7 DEF OneHolder
    <3>1. /\ \A q \in Requests : Holds(q, j) => j \in session.newest
          /\ PageHolds(t, j) => j \in session.newest
          /\ \A p, q \in Requests : Holds(p, j) /\ Holds(q, j) => p = q
          /\ \A q \in Requests : ~(Holds(q, j) /\ PageHolds(t, j))
      BY <2>4 DEF OneRefresh, OneHolder
    <3> HIDE DEF t, k
    <3>2. CASE j = k
      BY <2>1, <2>4, <2>5, <3>1, <3>2
    <3>3. CASE j # k
      BY <2>1, <2>5, <3>1, <3>3
    <3> QED
      BY <3>2, <3>3
  <2>9. GivenOut'
    <3>1. ~(session.issued < k)
      BY <2>4 DEF OneRefresh, GivenOut
    <3> HIDE DEF k
    <3> QED
      BY <2>1, <2>5, <3>1 DEF OneRefresh, GivenOut
  <2>10. OneCall'
    <3>1. \A q \in Requests : InFlight(req', q) => q = r
      BY <2>1, <2>3 DEF InFlight
    <3> QED
      BY <1>0, <2>1, <3>1 DEF OneRefresh, OneCall
  <2> QED
    BY <2>1, <2>8, <2>9, <2>10 DEF OneRefresh, GivenUp, Early, Api!ExchangedOnce
<1>3. CASE Api!Subscribe(r)
  <2>1. /\ ClientsTyped'
        /\ UNCHANGED <<session, localStorage, abandoned>>
        /\ req'[r].tab = req[r].tab /\ ~InFlight(req, r) /\ ~InFlight(req', r)
        /\ ~Early(req', r)
        /\ \A q \in Requests \ {r} : req'[q] = req[q]
        /\ \A t \in Tabs : /\ tab'[t].token = tab[t].token
                           /\ tab'[t].isRefreshing = tab[t].isRefreshing
    BY <1>0, <1>3, SubscribeEffect
  <2>2. \A q \in Requests : InFlight(req', q) =>
          req'[q] = req[q] /\ InFlight(req, q) /\ req[q].tab \in Tabs
    BY <1>0, <2>1, ClientFacts DEF InFlight
  <2>3. \A k \in Api!Token, q \in Requests : Holds(q, k)' => Holds(q, k)
    BY <2>1 DEF Holds, InFlight
  <2>4. GivenOut' /\ OneHolder'
    BY <2>1, <2>3, HoldersKept DEF PageHolds
  <2> QED
    BY <2>1, <2>2, <2>4 DEF OneRefresh, OneCall, GivenUp, Early, Api!ExchangedOnce
<1>4. CASE Api!RefreshSucceeds(r)
  <2>1. /\ ClientsTyped' /\ UNCHANGED <<session, abandoned>> /\ localStorage' = req[r].token
        /\ req[r].pc = "rotated" /\ ~InFlight(req', r)
        /\ \A q \in Requests : req'[q] = req[q] \/ (~InFlight(req', q) /\ ~Early(req', q))
        /\ tab'[req[r].tab].token = req[r].token /\ ~tab'[req[r].tab].isRefreshing
    BY <1>0, <1>4, SuccessEffect
  <2>0. PICK k \in Api!Token : k = req[r].token
    BY <1>0, <2>1 DEF ClientsTyped, RefreshTokens
  <2>2. InFlight(req, r) /\ Holds(r, k)
    BY <2>0, <2>1 DEF InFlight, Holds
  <2>3. \A q \in Requests : ~InFlight(req', q)
    BY <2>1, <2>2 DEF OneRefresh, OneCall, InFlight
  <2>4. \A j \in Api!Token, q \in Requests : Holds(q, j)' =>
          <<"refresh", q, j>> \in session.late /\ Holds(q, j)
    BY <2>1, <2>3 DEF Holds, InFlight
  <2>5. \A j \in Api!Token, t \in Tabs : PageHolds(t, j)' => j = k
    BY <1>0, <2>0, <2>1 DEF PageHolds
  <2>6. OneHolder'
    <3> SUFFICES ASSUME NEW j \in Api!Token, ~Excused(j)
                 PROVE  /\ \A q \in Requests : Holds(q, j)' => j \in session'.newest
                        /\ \A t \in Tabs : PageHolds(t, j)' => j \in session'.newest
                        /\ \A p, q \in Requests : Holds(p, j)' /\ Holds(q, j)' => p = q
                        /\ \A q \in Requests, t \in Tabs : ~(Holds(q, j)' /\ PageHolds(t, j)')
      BY <2>1 DEF OneHolder, Excused
    <3>1. /\ \A q \in Requests : Holds(q, j) => j \in session.newest
          /\ \A p, q \in Requests : Holds(p, j) /\ Holds(q, j) => p = q
      BY DEF OneRefresh, OneHolder
    <3>2. \A q \in Requests : Holds(q, k)' => ~(k = j)
      <4> SUFFICES ASSUME NEW q \in Requests, Holds(q, k)', k = j
                   PROVE  FALSE
        OBVIOUS
      <4>1. <<"refresh", q, j>> \in session.late /\ Holds(q, j) /\ Holds(r, j)
        BY <2>2, <2>4
      <4>2. q = r
        BY <3>1, <4>1
      <4> QED
        BY <2>1, <4>1, <4>2 DEF OneRefresh, GivenUp, Early
    <3> QED
      BY <2>1, <2>2, <2>4, <2>5, <3>1, <3>2
  <2>7. GivenOut'
    <3>1. ~(session.issued < k)
      BY <2>2 DEF OneRefresh, GivenOut
    <3>2. \A t \in Tabs : tab'[t].token = k
      BY <1>0, <2>0, <2>1
    <3> QED
      BY <2>1, <2>4, <3>1, <3>2 DEF OneRefresh, GivenOut
  <2>8. OneCall'
    BY <1>0, <2>1, <2>3 DEF OneCall
  <2> QED
    BY <2>1, <2>6, <2>7, <2>8 DEF OneRefresh, GivenUp, Early, Api!ExchangedOnce
<1>5. CASE Api!RefreshFails(r)
  <2>1. /\ ClientsTyped' /\ Quieter /\ UNCHANGED abandoned /\ localStorage' = None
        /\ InFlight(req, r) /\ req'[r].pc = "waiting" /\ req'[r].tab = req[r].tab
        /\ \A q \in Requests \ {r} : req'[q] = req[q]
        /\ tab'[req[r].tab].token = None
        /\ session'.late = session.late \cup Api!Pending({r})
    BY <1>0, <1>5, FailureEffect
  <2>2. \A q \in Requests : ~InFlight(req', q)
    BY <2>1 DEF OneRefresh, OneCall, InFlight
  <2>3. \A t \in Tabs : tab'[t].token = None
    BY <1>0, <2>1
  <2>4. \A k \in Api!Token, q \in Requests :
          <<"refresh", q, k>> \in session'.late =>
            \/ <<"refresh", q, k>> \in session.late
            \/ q = r /\ req[q].pc = "refreshing" /\ req[q].token = k
    BY <1>0, <2>1, PendingRequests DEF Api!Pending
  <2>5. \A k \in Api!Token, q \in Requests : Holds(q, k)' => Holds(q, k)
    BY <2>1, <2>4 DEF Holds
  <2>6. \A k \in Api!Token, t \in Tabs : tab'[t].token # k /\ ~PageHolds(t, k)'
    BY <2>3 DEF PageHolds, TokensAreFinite
  <2>7. GivenOut' /\ OneHolder'
    BY <2>1, <2>5, <2>6, HoldersKept DEF Quieter
  <2>8. GivenUp'
    BY <2>1, <2>4 DEF OneRefresh, GivenUp, Early
  <2>9. OneCall'
    BY <2>1, <2>2, <2>3 DEF OneCall
  <2> QED
    BY <2>1, <2>7, <2>8, <2>9 DEF OneRefresh, Quieter, Api!ExchangedOnce
<1>6. CASE Api!Rotate(r)
  <2>1. /\ ClientsTyped'
        /\ UNCHANGED <<tab, localStorage, abandoned>>
        /\ req[r].pc = "refreshing" /\ req[r].token \in Api!Token
        /\ req'[r].pc = "rotated" /\ req'[r].tab = req[r].tab
        /\ req'[r].token = session.issued + 1
        /\ \A q \in Requests \ {r} : req'[q] = req[q]
        /\ session.issued < MaxTokens /\ session' = Api!Exchanged(session, req[r].token)
    BY <1>0, <1>6, RotateEffect
  <2> DEFINE k == req[r].token
  <2>2. /\ session.issued + 1 \in Api!Token /\ session'.issued = session.issued + 1
        /\ session'.newest = (session.newest \cup {session.issued + 1}) \ {k}
        /\ session'.revoked = session.revoked /\ session'.thefts = session.thefts
        /\ session'.late = session.late
    BY <1>0, <2>1, ExchangedFields
  <2>3. InFlight(req, r) /\ \A q \in Requests : InFlight(req', q) => q = r
    BY <2>1 DEF OneRefresh, OneCall, InFlight
  <2>4. Holds(r, k) /\ k \in Api!Token
    BY <2>1 DEF Holds
  <2>5. \A j \in Api!Token : <<"refresh", r, j>> \notin session.late
    BY <2>1 DEF OneRefresh, GivenUp, Early
  <2>6. \A j \in Api!Token, q \in Requests :
          Holds(q, j)' => (j = session.issued + 1 /\ q = r) \/ (q # r /\ Holds(q, j))
    BY <2>1, <2>2, <2>5 DEF Holds
  <2> HIDE DEF k
  <2>7. GivenOut' /\ OneHolder'
    BY <2>1, <2>2, <2>4, <2>6, HoldersExchanged
  <2>8. GivenUp'
    BY <2>1, <2>2, <2>5 DEF OneRefresh, GivenUp, Early
  <2>9. OneCall'
    BY <1>0, <2>1, <2>3 DEF OneRefresh, OneCall
  <2> QED
    BY <2>1, <2>2, <2>7, <2>8, <2>9 DEF OneRefresh, Api!ExchangedOnce
<1>7. CASE Api!DetectReuse(r)
  <2>1. /\ ClientsTyped'
        /\ UNCHANGED <<tab, localStorage, abandoned>>
        /\ req[r].pc = "refreshing" /\ req[r].token \in Api!Token
        /\ req[r].token \notin session.newest
        /\ req'[r].pc = "refused" /\ req'[r].tab = req[r].tab
        /\ \A q \in Requests \ {r} : req'[q] = req[q]
        /\ session' = Api!Detected(session, req[r].token)
    BY <1>0, <1>7, ReuseEffect
  <2> DEFINE k == req[r].token
  <2>2. /\ session'.issued = session.issued /\ session'.newest = {}
        /\ session'.revoked = session.revoked \cup session.newest
        /\ session'.thefts = session.thefts \cup {k} /\ session'.late = session.late
    BY <1>0, <2>1, DetectedFields
  <2>3. InFlight(req, r) /\ \A q \in Requests : InFlight(req', q) => q = r
    BY <2>1 DEF OneRefresh, OneCall, InFlight
  <2>4. Excused(k)
    BY <2>1, SeenAgain DEF Holds
  <2> HIDE DEF k
  <2>5. \A j \in Api!Token, q \in Requests : Holds(q, j)' => Holds(q, j)
    BY <2>1, <2>2 DEF Holds
  <2>6. GivenOut' /\ OneHolder'
    BY <2>1, <2>2, <2>5, HoldersKept DEF PageHolds
  <2>7. GivenUp'
    BY <2>1, <2>2 DEF OneRefresh, GivenUp, Early
  <2>8. OneCall'
    BY <1>0, <2>1, <2>3 DEF OneRefresh, OneCall
  <2>9. Api!ExchangedOnce'
    BY <2>1, <2>2, <2>4 DEF OneRefresh, Api!ExchangedOnce, Excused
  <2> QED
    BY <2>1, <2>6, <2>7, <2>8, <2>9 DEF OneRefresh
<1> QED
  BY <1>1, <1>2, <1>3, <1>4, <1>5, <1>6, <1>7 DEF Api!Progress

LEMMA OneRefreshLate ==
  ASSUME TokensAreFinite, OneRefresh, NEW kind \in {"refresh", "logout"}, NEW p \in Requests,
         NEW k \in Api!Token, Api!ServeLate(kind, p, k)
  PROVE  OneRefresh'
<1>0. ClientsTyped /\ session \in Api!Server
  BY DEF OneRefresh, ClientsTyped, Api!TypeOK
<1>1. /\ ClientsTyped' /\ UNCHANGED <<tab, localStorage, req, abandoned>>
      /\ <<kind, p, k>> \in session.late /\ session'.late = session.late \ {<<kind, p, k>>}
      /\ \/ /\ kind = "refresh" /\ session.issued < MaxTokens
            /\ session'.issued = session.issued + 1
            /\ session'.newest = (session.newest \cup {session.issued + 1}) \ {k}
            /\ session'.revoked = session.revoked /\ session'.thefts = session.thefts
         \/ /\ kind = "refresh" /\ k \notin session.newest
            /\ session'.issued = session.issued
            /\ session'.newest = {} /\ session'.revoked = session.revoked \cup session.newest
            /\ session'.thefts = session.thefts \cup {k}
         \/ Quieter
  BY <1>0, LateEffect
<1>2. \A j \in Api!Token, q \in Requests : Holds(q, j)' => Holds(q, j)
  BY <1>1 DEF Holds
<1>3. OneCall' /\ GivenUp'
  BY <1>1 DEF OneRefresh, OneCall, GivenUp, InFlight, Early
<1>4. kind = "refresh" => Holds(p, k)
  BY <1>1 DEF Holds
<1>5. CASE /\ kind = "refresh" /\ session.issued < MaxTokens
           /\ session'.issued = session.issued + 1
           /\ session'.newest = (session.newest \cup {session.issued + 1}) \ {k}
           /\ session'.revoked = session.revoked /\ session'.thefts = session.thefts
  <2>1. ~Holds(p, k)'
    BY <1>1, <1>5 DEF Holds, OneRefresh, GivenUp, Early
  <2>2. session.issued + 1 \in Api!Token
    BY <1>0, <1>5, IssuedFields
  <2>3. GivenOut' /\ OneHolder'
    BY <1>1, <1>2, <1>4, <1>5, <2>1, <2>2, HoldersExchanged
  <2> QED
    BY <1>1, <1>3, <1>5, <2>3 DEF OneRefresh, Api!ExchangedOnce
<1>6. CASE /\ kind = "refresh" /\ k \notin session.newest
           /\ session'.issued = session.issued
           /\ session'.newest = {} /\ session'.revoked = session.revoked \cup session.newest
           /\ session'.thefts = session.thefts \cup {k}
  <2>1. Excused(k)
    BY <1>4, <1>6, SeenAgain
  <2>2. GivenOut' /\ OneHolder'
    BY <1>1, <1>2, <1>6, HoldersKept DEF PageHolds
  <2> QED
    BY <1>1, <1>3, <1>6, <2>1, <2>2 DEF OneRefresh, Api!ExchangedOnce, Excused
<1>7. CASE Quieter
  <2>1. GivenOut' /\ OneHolder'
    BY <1>1, <1>2, <1>7, HoldersKept DEF PageHolds, Quieter
  <2> QED
    BY <1>1, <1>3, <1>7, <2>1 DEF OneRefresh, Api!ExchangedOnce, Quieter
<1> QED
  BY <1>1, <1>5, <1>6, <1>7

LEMMA OneRefreshLogin ==
  ASSUME TokensAreFinite, OnePage, OneRefresh, NEW t \in Tabs, Api!Login(t)
  PROVE  OneRefresh'
<1> DEFINE next == session.issued + 1
<1>0. ClientsTyped /\ session \in Api!Server /\ \A q \in Requests : req[q].tab = t
  BY ClientFacts DEF OneRefresh, ClientsTyped, Api!TypeOK, OnePage
<1>1. /\ ClientsTyped' /\ UNCHANGED <<req, abandoned>>
      /\ session.issued < MaxTokens /\ next \in Api!Token
      /\ session'.issued = next
      /\ session'.newest = session.newest \cup {next}
      /\ session'.revoked = session.revoked /\ session'.thefts = session.thefts
      /\ session'.late = session.late
      /\ localStorage' = next /\ tab'[t].token = next
      /\ tab'[t].isRefreshing = tab[t].isRefreshing
  BY <1>0, LoginEffect
<1>2. session.issued \in Nat /\ \A j \in Api!Token : j \in Nat
  BY <1>0, ServerFields DEF Api!Token
<1>3. next \notin session.newest /\ \A r \in Requests : ~Holds(r, next)
  BY <1>1, <1>2 DEF OneRefresh, GivenOut
<1>4. \A j \in Api!Token : /\ Excused(j)' = Excused(j)
                           /\ \A r \in Requests : Holds(r, j)' = Holds(r, j)
                           /\ \A u \in Tabs : PageHolds(u, j)' => j = next
  BY <1>1 DEF Excused, Holds, PageHolds, OnePage
<1>5. GivenOut'
  <2> SUFFICES ASSUME NEW j \in Api!Token, session'.issued < j
               PROVE  /\ j \notin session'.newest
                      /\ \A r \in Requests : ~Holds(r, j)'
                      /\ \A u \in Tabs : tab'[u].token # j
    BY DEF GivenOut
  <2>1. session.issued < j /\ j # next
    BY <1>1, <1>2
  <2>2. j \notin session.newest /\ \A r \in Requests : ~Holds(r, j)
    BY <2>1 DEF OneRefresh, GivenOut
  <2>3. \A u \in Tabs : tab'[u].token = next
    BY <1>1 DEF OnePage
  <2> HIDE DEF next
  <2> QED
    BY <1>1, <1>4, <2>1, <2>2, <2>3
<1>6. OneHolder'
  <2> SUFFICES ASSUME NEW j \in Api!Token, ~Excused(j)
               PROVE  /\ \A r \in Requests : Holds(r, j) => j \in session'.newest
                      /\ \A u \in Tabs : PageHolds(u, j)' => j \in session'.newest
                      /\ \A r, q \in Requests : Holds(r, j) /\ Holds(q, j) => r = q
                      /\ \A r \in Requests, u \in Tabs : ~(Holds(r, j) /\ PageHolds(u, j)')
    BY <1>4 DEF OneHolder
  <2>1. /\ \A r \in Requests : Holds(r, j) => j \in session.newest
        /\ \A r, q \in Requests : Holds(r, j) /\ Holds(q, j) => r = q
    BY DEF OneRefresh, OneHolder
  <2> HIDE DEF next
  <2> QED
    BY <1>1, <1>3, <1>4, <2>1
<1>7. OneCall'
  BY <1>0, <1>1 DEF OneRefresh, OneCall, OnePage, InFlight
<1> QED
  BY <1>1, <1>5, <1>6, <1>7 DEF OneRefresh, GivenUp, Early, Api!ExchangedOnce

LEMMA OneRefreshPages ==
  ASSUME TokensAreFinite, OnePage, OneRefresh,
         \/ \E pair \in Api!Token : Api!Expire(pair)
         \/ \E t \in Tabs : \/ Api!LogoutAsked(t) \/ Api!LogoutDone(t) \/ Api!Forget(t)
                          \/ Api!LoadPage(t)
  PROVE  OneRefresh'
<1>0. ClientsTyped /\ session \in Api!Server /\ \A q \in Requests : req[q].tab \in Tabs
  BY ClientFacts DEF OneRefresh, ClientsTyped, Api!TypeOK
<1>1. ASSUME NEW pair \in Api!Token, Api!Expire(pair)
      PROVE  OneRefresh'
  <2>1. /\ ClientsTyped' /\ Quieter /\ session'.late = session.late
        /\ UNCHANGED <<tab, localStorage, req, abandoned>>
    BY <1>0, <1>1, ExpireEffect
  <2>2. \A k \in Api!Token, q \in Requests : Holds(q, k)' => Holds(q, k)
    BY <2>1 DEF Holds
  <2>3. GivenOut' /\ OneHolder'
    BY <2>1, <2>2, HoldersKept DEF PageHolds, Quieter
  <2> QED
    BY <2>1, <2>3
       DEF OneRefresh, OneCall, GivenUp, InFlight, Early, Api!ExchangedOnce, Quieter
<1>2. ASSUME NEW t \in Tabs, Api!LogoutAsked(t)
      PROVE  OneRefresh'
  <2>1. /\ ClientsTyped' /\ UNCHANGED <<session, localStorage, abandoned>>
        /\ \A u \in Tabs : /\ tab'[u].token = tab[u].token
                           /\ tab'[u].isRefreshing = tab[u].isRefreshing
        /\ \A q \in Requests : /\ req'[q].tab = req[q].tab
                               /\ \/ req'[q] = req[q]
                                  \/ ~InFlight(req', q) /\ ~InFlight(req, q)
                               /\ Early(req', q) => Early(req, q)
    BY <1>0, <1>2, AskedEffect
  <2>2. \A k \in Api!Token, q \in Requests : Holds(q, k)' => Holds(q, k)
    BY <2>1 DEF Holds, InFlight
  <2>3. GivenOut' /\ OneHolder'
    BY <2>1, <2>2, HoldersKept DEF PageHolds
  <2>4. \A q \in Requests : InFlight(req', q) => req'[q] = req[q] /\ InFlight(req, q)
    BY <2>1 DEF InFlight
  <2> QED
    BY <1>0, <2>1, <2>3, <2>4 DEF OneRefresh, OneCall, GivenUp, Api!ExchangedOnce
<1>3. ASSUME NEW t \in Tabs, Api!LogoutDone(t) \/ Api!Forget(t)
      PROVE  OneRefresh'
  <2>1. /\ ClientsTyped' /\ UNCHANGED <<session, req, abandoned>> /\ localStorage' = None
        /\ tab'[t].token = None /\ tab'[t].isRefreshing = tab[t].isRefreshing
    BY <1>0, <1>3, ClearEffect
  <2>2. \A k \in Api!Token, u \in Tabs : tab'[u].token # k /\ ~PageHolds(u, k)'
    BY <2>1 DEF PageHolds, OnePage, TokensAreFinite
  <2>3. \A k \in Api!Token, q \in Requests : Holds(q, k)' => Holds(q, k)
    BY <2>1 DEF Holds
  <2>4. GivenOut' /\ OneHolder'
    BY <2>1, <2>2, <2>3, HoldersKept
  <2>5. OneCall'
    BY <1>0, <2>1 DEF OneRefresh, OneCall, OnePage, InFlight
  <2> QED
    BY <2>1, <2>4, <2>5 DEF OneRefresh, GivenUp, Early, Api!ExchangedOnce
<1>4. ASSUME NEW t \in Tabs, Api!LoadPage(t)
      PROVE  OneRefresh'
  <2>1. /\ ClientsTyped' /\ Quieter /\ UNCHANGED localStorage
        /\ tab'[t].token = localStorage /\ ~tab'[t].isRefreshing
        /\ \A q \in Requests : /\ req'[q].tab = req[q].tab
                               /\ req[q].tab = t => ~InFlight(req', q)
                               /\ Early(req', q) => req'[q] = req[q] /\ req[q].pc = "idle"
        /\ abandoned \subseteq abandoned'
        /\ tab[t].isRefreshing /\ localStorage # None => localStorage \in abandoned'
        /\ session'.late = session.late \cup Api!Pending({q \in Requests : req[q].tab = t})
    BY <1>0, <1>4, LoadEffect DEF OnePage
  <2>2. \A q \in Requests : ~InFlight(req', q)
    BY <1>0, <2>1 DEF OnePage
  <2>3. \A k \in Api!Token, q \in Requests :
          <<"refresh", q, k>> \in session'.late =>
            \/ <<"refresh", q, k>> \in session.late
            \/ req[q].pc = "refreshing" /\ req[q].token = k
    BY <1>0, <2>1, PendingRequests
  <2>4. \A k \in Api!Token, q \in Requests : Holds(q, k)' => Holds(q, k)
    BY <2>2, <2>3 DEF Holds, InFlight
  <2>5. \A u \in Tabs : tab[u].token = localStorage /\ tab'[u].token = localStorage
    BY <2>1 DEF OneRefresh, OneCall, OnePage
  <2>6. \A k \in Api!Token, u \in Tabs :
          /\ PageHolds(u, k)' => PageHolds(u, k) \/ k \in abandoned'
          /\ tab'[u].token = k => tab[u].token = k
    BY <2>1, <2>5 DEF PageHolds, OnePage, TokensAreFinite
  <2>7. GivenOut' /\ OneHolder'
    BY <2>1, <2>4, <2>6, HoldersKept DEF Quieter
  <2>8. GivenUp'
    BY <2>1, <2>3 DEF OneRefresh, GivenUp, Early
  <2>9. OneCall'
    BY <2>2, <2>1, <2>5 DEF OneCall
  <2> QED
    BY <2>1, <2>7, <2>8, <2>9 DEF OneRefresh, Api!ExchangedOnce, Quieter
<1> QED
  BY <1>1, <1>2, <1>3, <1>4

\* One user with one page: with any number of calls, however their refusals, refreshes,
\* losses, late requests, sign-ins, sign-outs and page loads fall, a refresh token whose
\* session no logout has ended is sent once, unless the page was left that sent it.
LEMMA OnePageIsNoThief ==
  TokensAreFinite /\ OnePage => (Api!Spec => []Api!ExchangedOnce)
<1> SUFFICES ASSUME TokensAreFinite, OnePage
             PROVE  Api!Spec => []Api!ExchangedOnce
  OBVIOUS
<1>1. Api!Init => OneRefresh
  <2> SUFFICES ASSUME Api!Init
               PROVE  OneRefresh
    OBVIOUS
  <2>1. ClientsTyped
    BY ClientsBeginTyped
  <2>2. /\ session.issued = 1 /\ session.newest = {1} /\ session.thefts = {}
        /\ session.late = {} /\ localStorage = 1
        /\ \A t \in Tabs : tab[t].token = 1
    BY DEF Api!Init
  <2>3. \A r \in Requests : req[r].pc = "idle"
    BY DEF Api!Init
  <2>4. \A k \in Api!Token, r \in Requests : ~Holds(r, k)
    BY <2>2, <2>3 DEF Holds
  <2>5. GivenOut /\ OneHolder
    BY <2>2, <2>4 DEF GivenOut, OneHolder, PageHolds, Api!Token, TokensAreFinite
  <2>6. OneCall /\ GivenUp /\ Api!ExchangedOnce
    BY <2>2, <2>3 DEF OneCall, GivenUp, InFlight, Api!ExchangedOnce
  <2> QED
    BY <2>1, <2>5, <2>6 DEF OneRefresh
<1>2. OneRefresh /\ [Api!Next]_Api!vars => OneRefresh'
  <2>1. ASSUME OneRefresh, UNCHANGED Api!vars
        PROVE  OneRefresh'
    <3>1. ClientsTyped'
      BY <2>1, ClientsStayTyped DEF OneRefresh
    <3> QED
      BY <2>1, <3>1
         DEF Api!vars, OneRefresh, OneCall, GivenUp, GivenOut, OneHolder, Holds, PageHolds,
             Excused, InFlight, Early, Api!ExchangedOnce
  <2> QED
    BY <2>1, OneRefreshCalls, OneRefreshLate, OneRefreshLogin, OneRefreshPages DEF Api!Next
<1>3. OneRefresh => Api!ExchangedOnce
  BY DEF OneRefresh
<1> QED
  BY <1>1, <1>2, <1>3, PTL DEF Api!Spec

-----------------------------------------------------------------------------
(* Browser: what it keeps                                                  *)

\* A component takes its own steps only, and only when it is the one that runs.
LEMMA OwnSteps ==
  ASSUME [Next]_vars
  PROVE  /\ part' = part
         /\ [New!Next]_(New!vars)
         /\ [Documents!Next]_(Documents!vars)
         /\ part # "profile" => [Destination!Next]_(Destination!vars)
         /\ part = "profile" => [Profile!Next]_(Profile!vars)
         /\ [AuthUser!Next]_(AuthUser!vars)
         /\ [Api!Next]_(Api!vars)
BY DEF Next, Settled, vars, bookingVars, adminVars, ownerVars, wizardVars, uploadVars, editVars,
       userVars, clientVars, chatVars, New!vars, Documents!vars, Destination!vars, Profile!vars,
       AuthUser!vars, AuthUser!asked, Api!vars

\* Once the server has answered with a booking of the service for a date, no request of
\* the traveler that is looked up afterwards makes another, though the answer was lost,
\* the page was loaded again or the token refused; and a booking that the page shows is
\* for the date and the guests that it submitted.  For any number of travelers, dates
\* and requests, which overlap: one that is looked up before the first is answered
\* books as well.
THEOREM BookingsAreMadeOnce == Spec => []BookedOnceAsSubmitted
<1>1. Init => New!Init
  BY DEF Init
<1>2. [Next]_vars => [New!Next]_(New!vars)
  BY OwnSteps
<1>3. New!Spec => [](New!TypeOK /\ New!BookedOnceAsSubmitted)
  BY BookedOnce, InstancesAssumption DEF FirstChoice
<1> QED
  BY <1>1, <1>2, <1>3, PTL DEF Spec, New!Spec, BookedOnceAsSubmitted

\* A document is recorded as of the type that was selected when its file was chosen,
\* and not before the file is stored.
THEOREM DocumentsStayStored == Spec => []DocumentsAreStored
<1>1. Init => Documents!Init
  BY DEF Init
<1>2. [Next]_vars => [Documents!Next]_(Documents!vars)
  BY OwnSteps
<1>3. Documents!Spec => [](Documents!DocumentsAreStored /\ Documents!RecordedAsChosen)
  BY RecordedWithItsFile, InstancesAssumption
<1> QED
  BY <1>1, <1>2, <1>3, PTL DEF Spec, Documents!Spec, DocumentsAreStored

\* A save of a form takes back nothing that was saved before the form was filled, and
\* what is typed is overwritten only when the row has changed since, for any number of
\* editors and fields, whether the form follows the cached row (useEffect) or not.
THEOREM EditorsKeepEdits == Spec => EditsAreKept
<1> DEFINE follows == part = "profile"
<1>1. Init => Destination!Init /\ Profile!Init
  BY DEF Init, Destination!Init, Profile!Init, Destination!Contents, Profile!Contents,
         Destination!Choices, Profile!Choices
<1>2. /\ follows /\ [Next]_vars => follows' /\ [Profile!Next]_(Profile!vars)
      /\ ~follows /\ [Next]_vars => ~follows' /\ [Destination!Next]_(Destination!vars)
  BY OwnSteps
<1>3. Profile!Spec => [][Profile!OthersAreKept /\ Profile!TypingIsKept]_Profile!vars
  BY ProfileEditsAreKept, InstancesAssumption
<1>4. Destination!Spec
        => [][Destination!OthersAreKept /\ Destination!TypingIsKept]_Destination!vars
  BY DestinationEditsAreKept, InstancesAssumption
<1>5. /\ follows /\ [Profile!OthersAreKept /\ Profile!TypingIsKept]_Profile!vars
        => [IF part = "profile" THEN Profile!OthersAreKept /\ Profile!TypingIsKept
            ELSE Destination!OthersAreKept /\ Destination!TypingIsKept]_vars
      /\ ~follows /\ [Destination!OthersAreKept /\ Destination!TypingIsKept]_Destination!vars
        => [IF part = "profile" THEN Profile!OthersAreKept /\ Profile!TypingIsKept
            ELSE Destination!OthersAreKept /\ Destination!TypingIsKept]_vars
  <2>1. UNCHANGED Profile!vars => Profile!OthersAreKept /\ Profile!TypingIsKept
    BY DEF Profile!vars, Profile!OthersAreKept, Profile!TypingIsKept, Profile!Stored
  <2>2. UNCHANGED Destination!vars => Destination!OthersAreKept /\ Destination!TypingIsKept
    BY DEF Destination!vars, Destination!OthersAreKept, Destination!TypingIsKept,
           Destination!Stored
  <2> QED
    BY <2>1, <2>2
<1> HIDE DEF follows
<1> QED
  BY <1>1, <1>2, <1>3, <1>4, <1>5, PTL DEF Spec, Profile!Spec, Destination!Spec, EditsAreKept

\* No late answer to GET /auth/me and no cached query brings back whoever has logged
\* out, for any number of users and calls.  Only tokens do that a refresh under way
\* sets after clearTokens and before the page is left: they count as given again.
THEOREM LogoutsAreFinal == Spec => []LoggedOutIsGone
<1>1. Init => AuthUser!Init
  BY DEF Init
<1>2. [Next]_vars => [AuthUser!Next]_(AuthUser!vars)
  BY OwnSteps
<1>3. AuthUser!Init /\ [][AuthUser!Next]_(AuthUser!vars)
        => [](AuthUser!TypeOK /\ AuthUser!LoggedOutIsGone)
  BY LogoutIsFinal, InstancesAssumption
<1> QED
  BY <1>1, <1>2, <1>3, PTL DEF Spec, LoggedOutIsGone

\* One user with one page looks like a thief to the server only if a logout ended the
\* session of a token that was still to be sent, or the page was left that was
\* refreshing; whatever else is refused, refreshed, lost, late or signed in at the same
\* time (isRefreshing).
THEOREM TokensAreSentOnce == Spec => []ExchangedOnce
<1>1. Init => Api!Init
  BY DEF Init
<1>2. [Next]_vars => [Api!Next]_(Api!vars)
  BY OwnSteps
<1>3. Api!Spec => []Api!ExchangedOnce
  BY OnePageIsNoThief, InstancesAssumption DEF TokensAreFinite, OnePage
<1> QED
  BY <1>1, <1>2, <1>3, PTL DEF Spec, Api!Spec, ExchangedOnce

-----------------------------------------------------------------------------
(* Rooms                                                                   *)

\* Both instances of the chat: any threads, any number of messages.
Chat(threads, max) == INSTANCE ChatClient WITH
  Threads <- threads, NoThread <- None, MaxMessages <- max, UserChanges <- TRUE,
  Drops <- TRUE, cache <- threadCache, fetching <- arriving

Events(threads) == {"join", "send"} \X threads

\* What the connection of a page to its room consists of.
Connections(threads) ==
  /\ sockets \in [1..MaxSockets -> {"none", "connecting", "connected", "closed"}]
  /\ manager \in [socket : 0..MaxSockets, currentConversationId : threads \cup {None}]
  /\ outbox \in [1..MaxSockets -> SUBSET Events(threads)]
  /\ rooms \in [1..MaxSockets -> SUBSET threads]
  /\ denied \in [1..MaxSockets -> SUBSET threads]
  /\ selected \in threads \cup {None}

\* The inductive invariant: a connected socket is in the room of the current thread,
\* or was told no, or has asked for it, and the server has not handled that yet.
InRoomOrAsked(threads) ==
  /\ Connections(threads)
  /\ LET s == manager.socket
         c == manager.currentConversationId
     IN  s # 0 /\ c # None /\ sockets[s] = "connected" =>
           c \in rooms[s] \/ c \in denied[s] \/ <<"join", c>> \in outbox[s]

LEMMA CreatedIsNatural ==
  ASSUME MaxSockets \in Nat, NEW threads, NEW max, Connections(threads)
  PROVE  Chat(threads, max)!Created \in Nat
<1> DEFINE created == {s \in 1..MaxSockets : sockets[s] # "none"}
<1>1. IsFiniteSet(1..MaxSockets)
  BY FS_Interval
<1>2. IsFiniteSet(created)
  BY <1>1, FS_Subset
<1>3. Cardinality(created) \in Nat
  BY <1>2, FS_CardinalityType
<1>4. Chat(threads, max)!Created = Cardinality(created)
  BY DEF Chat!Created, Chat!Sockets, Chat!Cardinality, Cardinality
<1> QED
  BY <1>3, <1>4

\* connect() takes the socket it has, if that is connected, or creates another.
LEMMA ConnectEffect ==
  ASSUME MaxSockets \in Nat, NEW threads, NEW max, Connections(threads),
         Chat(threads, max)!MayConnect
  PROVE  /\ Chat(threads, max)!ConnectedSocket \in 1..MaxSockets
         /\ \A s \in 1..MaxSockets :
              Chat(threads, max)!AfterConnect[s] =
                IF s = Chat(threads, max)!ConnectedSocket
                     /\ ~(s = manager.socket /\ sockets[s] = "connected")
                THEN "connecting" ELSE sockets[s]
         /\ Chat(threads, max)!AfterConnect \in
              [1..MaxSockets -> {"none", "connecting", "connected", "closed"}]
         /\ Chat(threads, max)!Keeps => Chat(threads, max)!ConnectedSocket = manager.socket
<1> DEFINE n == Chat(threads, max)!Created
<1>1. n \in Nat
  BY CreatedIsNatural
<1>2. manager.socket \in 0..MaxSockets
  BY DEF Connections
<1>3. CASE Chat(threads, max)!Keeps
  BY <1>2, <1>3 DEF Connections, Chat!Keeps, Chat!ConnectedSocket, Chat!AfterConnect
<1>4. CASE ~Chat(threads, max)!Keeps
  <2>1. n < MaxSockets /\ n + 1 \in 1..MaxSockets
    BY <1>1, <1>4 DEF Chat!MayConnect
  <2>2. /\ Chat(threads, max)!ConnectedSocket = n + 1
        /\ Chat(threads, max)!AfterConnect = [sockets EXCEPT ![n + 1] = "connecting"]
    BY <1>4 DEF Chat!ConnectedSocket, Chat!AfterConnect
  <2> HIDE DEF n
  <2>3. \A s \in 1..MaxSockets : Chat(threads, max)!AfterConnect[s] =
          IF s = n + 1 THEN "connecting" ELSE sockets[s]
    BY <2>1, <2>2 DEF Connections
  <2>4. n + 1 = manager.socket => sockets[manager.socket] # "connected"
    BY <1>2, <1>4, <2>1 DEF Chat!Keeps
  <2>5. Chat(threads, max)!AfterConnect \in
          [1..MaxSockets -> {"none", "connecting", "connected", "closed"}]
    BY <2>1, <2>2 DEF Connections
  <2> QED
    BY <1>4, <2>1, <2>2, <2>3, <2>4, <2>5
<1> QED
  BY <1>3, <1>4

LEMMA ManagerKeepsRoom ==
  ASSUME MaxSockets \in Nat, NEW threads, NEW max, InRoomOrAsked(threads),
         \/ Chat(threads, max)!SignIn \/ Chat(threads, max)!UserRead
         \/ Chat(threads, max)!SendMessage
         \/ \E c \in threads : Chat(threads, max)!Select(c)
  PROVE  InRoomOrAsked(threads)'
<1> USE DEF InRoomOrAsked, Connections, Events
<1>1. CASE Chat(threads, max)!SignIn
  <2>1. /\ sockets' = Chat(threads, max)!AfterConnect
        /\ manager' = [manager EXCEPT !.socket = Chat(threads, max)!ConnectedSocket]
        /\ UNCHANGED <<outbox, rooms, denied, selected>> /\ Chat(threads, max)!MayConnect
    BY <1>1 DEF Chat!SignIn
  <2> QED
    BY <2>1, ConnectEffect
<1>2. CASE Chat(threads, max)!UserRead
  <2> DEFINE n == Chat(threads, max)!Created + 1
  <2>0. Chat(threads, max)!Created \in Nat /\ Chat(threads, max)!Created < MaxSockets
    BY <1>2, CreatedIsNatural DEF Chat!UserRead
  <2>1. n \in 1..MaxSockets
    BY <2>0
  <2>2. /\ sockets' = [sockets EXCEPT ![manager.socket] = "closed", ![n] = "connecting"]
        /\ manager' = [socket |-> n, currentConversationId |-> None]
        /\ outbox' = [outbox EXCEPT ![manager.socket] = {}]
        /\ rooms' = [rooms EXCEPT ![manager.socket] = {}]
        /\ denied' = [denied EXCEPT ![manager.socket] = {}]
    BY <1>2 DEF Chat!UserRead
  <2> HIDE DEF n
  <2>3. /\ manager' \in [socket : 0..MaxSockets, currentConversationId : threads \cup {None}]
        /\ manager'.currentConversationId = None
    BY <2>1, <2>2
  <2>4. sockets' \in [1..MaxSockets -> {"none", "connecting", "connected", "closed"}]
    BY <2>1, <2>2
  <2>5. /\ outbox' \in [1..MaxSockets -> SUBSET Events(threads)]
        /\ rooms' \in [1..MaxSockets -> SUBSET threads]
        /\ denied' \in [1..MaxSockets -> SUBSET threads]
        /\ selected' = selected
    BY <1>2, <2>2 DEF Chat!UserRead
  <2>6. Connections(threads)'
    BY <2>3, <2>4, <2>5
  <2> QED
    BY <2>3, <2>6
<1>3. CASE Chat(threads, max)!SendMessage
  BY <1>3 DEF Chat!SendMessage
<1>4. ASSUME NEW c \in threads, Chat(threads, max)!Select(c)
      PROVE  InRoomOrAsked(threads)'
  <2> DEFINE s == Chat(threads, max)!ConnectedSocket
  <2>1. /\ sockets' = Chat(threads, max)!AfterConnect
        /\ manager' = [socket |-> s, currentConversationId |-> c]
        /\ outbox' = [outbox EXCEPT ![s] = @ \cup {<<"join", c>>}]
        /\ UNCHANGED <<rooms, denied>> /\ selected' = c /\ Chat(threads, max)!MayConnect
    BY <1>4 DEF Chat!Select
  <2>2. s \in 1..MaxSockets /\ s \in 0..MaxSockets
    BY <2>1, ConnectEffect
  <2> HIDE DEF s
  <2>3. <<"join", c>> \in Events(threads)
    OBVIOUS
  <2>4. outbox' \in [1..MaxSockets -> SUBSET Events(threads)]
        /\ <<"join", c>> \in outbox'[s]
    BY <2>1, <2>2, <2>3
  <2> QED
    BY <2>1, <2>2, <2>4, ConnectEffect
<1> QED
  BY <1>1, <1>2, <1>3, <1>4

LEMMA SocketsKeepRoom ==
  ASSUME NEW threads, NEW max, InRoomOrAsked(threads), NEW s \in 1..MaxSockets,
         \/ Chat(threads, max)!Open(s) \/ Chat(threads, max)!Refused(s)
         \/ Chat(threads, max)!Drop(s)
         \/ \E c \in threads :
              \/ Chat(threads, max)!Join(s, c) \/ Chat(threads, max)!Deny(s, c)
              \/ Chat(threads, max)!Send(s, c)
  PROVE  InRoomOrAsked(threads)'
<1> USE DEF InRoomOrAsked, Connections, Events
<1>1. CASE Chat(threads, max)!Open(s)
  BY <1>1 DEF Chat!Open
<1>2. CASE Chat(threads, max)!Refused(s)
  BY <1>2 DEF Chat!Refused
<1>3. CASE Chat(threads, max)!Drop(s)
  BY <1>3 DEF Chat!Drop
<1>4. ASSUME NEW c \in threads, Chat(threads, max)!Join(s, c)
      PROVE  InRoomOrAsked(threads)'
  BY <1>4 DEF Chat!Join
<1>5. ASSUME NEW c \in threads, Chat(threads, max)!Send(s, c)
      PROVE  InRoomOrAsked(threads)'
  BY <1>5 DEF Chat!Send
<1>6. ASSUME NEW c \in threads, Chat(threads, max)!Deny(s, c)
      PROVE  InRoomOrAsked(threads)'
  BY <1>6 DEF Chat!Deny
<1> QED
  BY <1>1, <1>2, <1>3, <1>4, <1>5, <1>6

\* What is read and shown of a thread leaves connections alone.
LEMMA MessagesKeepRoom ==
  ASSUME NEW threads, NEW max, InRoomOrAsked(threads),
         \/ Chat(threads, max)!Fetch
         \/ \E c \in threads : Chat(threads, max)!OtherSends(c) \/ Chat(threads, max)!Fetched(c)
         \/ \E s \in 1..MaxSockets : \E m \in Chat(threads, max)!Messages :
              Chat(threads, max)!HandleMessage(s, m)
         \/ UNCHANGED Chat(threads, max)!vars
  PROVE  InRoomOrAsked(threads)'
<1>1. UNCHANGED <<sockets, manager, outbox, rooms, denied, selected>>
  BY DEF Chat!Fetch, Chat!OtherSends, Chat!Fetched, Chat!HandleMessage, Chat!vars
<1> QED
  BY <1>1 DEF InRoomOrAsked, Connections

\* With any threads, sockets and messages: whatever breaks, is refused or connected
\* anew, a connected socket that the server has caught up with is in the room or was
\* told no.
LEMMA JoinsAgain ==
  ASSUME MaxSockets \in Nat, NEW threads, NEW max
  PROVE  /\ Chat(threads, max)!Init => InRoomOrAsked(threads)
         /\ InRoomOrAsked(threads) /\ [Chat(threads, max)!Next]_(Chat(threads, max)!vars)
              => InRoomOrAsked(threads)'
         /\ InRoomOrAsked(threads) => Chat(threads, max)!RejoinsAfterReconnect
<1>1. Chat(threads, max)!Init => InRoomOrAsked(threads)
  BY DEF Chat!Init, Chat!Sockets, InRoomOrAsked, Connections, Events
<1>2. InRoomOrAsked(threads) /\ [Chat(threads, max)!Next]_(Chat(threads, max)!vars)
        => InRoomOrAsked(threads)'
  BY ManagerKeepsRoom, SocketsKeepRoom, MessagesKeepRoom DEF Chat!Next, Chat!Sockets
<1>3. InRoomOrAsked(threads) => Chat(threads, max)!RejoinsAfterReconnect
  BY DEF Chat!RejoinsAfterReconnect, InRoomOrAsked
<1> QED
  BY <1>1, <1>2, <1>3

\* The two instances of Browser are among those.
LEMMA ChatsOfBrowser ==
  /\ Thread!Init => Chat(OneThread, MaxMessages)!Init
  /\ [Thread!Next]_(Thread!vars)
       => [Chat(OneThread, MaxMessages)!Next]_(Chat(OneThread, MaxMessages)!vars)
  /\ Chat(OneThread, MaxMessages)!RejoinsAfterReconnect => Thread!RejoinsAfterReconnect
  /\ Rooms!Init => Chat(Threads, 0)!Init
  /\ [Rooms!Next]_(Rooms!vars) => [Chat(Threads, 0)!Next]_(Chat(Threads, 0)!vars)
  /\ Chat(Threads, 0)!RejoinsAfterReconnect => Rooms!RejoinsAfterReconnect
<1> USE DEF Chat!Init, Chat!Next, Chat!vars, Chat!RejoinsAfterReconnect, Chat!SignIn,
      Chat!UserRead, Chat!SendMessage, Chat!Fetch, Chat!Select, Chat!OtherSends, Chat!Fetched,
      Chat!Open, Chat!Refused, Chat!Drop, Chat!Join, Chat!Deny, Chat!Send, Chat!HandleMessage,
      Chat!Sockets, Chat!Messages, Chat!Created, Chat!MayConnect, Chat!Keeps,
      Chat!AfterConnect, Chat!ConnectedSocket, Chat!Emitted, Chat!Store, Chat!Updated,
      Chat!NotFetching, Chat!Cardinality
<1>1. /\ Thread!Init => Chat(OneThread, MaxMessages)!Init
      /\ [Thread!Next]_(Thread!vars)
           => [Chat(OneThread, MaxMessages)!Next]_(Chat(OneThread, MaxMessages)!vars)
      /\ Chat(OneThread, MaxMessages)!RejoinsAfterReconnect => Thread!RejoinsAfterReconnect
  BY DEF Thread!Init, Thread!Next, Thread!vars, Thread!RejoinsAfterReconnect, Thread!SignIn,
      Thread!UserRead, Thread!SendMessage, Thread!Fetch, Thread!Select, Thread!OtherSends,
      Thread!Fetched, Thread!Open, Thread!Refused, Thread!Drop, Thread!Join, Thread!Deny,
      Thread!Send, Thread!HandleMessage, Thread!Sockets, Thread!Messages, Thread!Created,
      Thread!MayConnect, Thread!Keeps, Thread!AfterConnect, Thread!ConnectedSocket,
      Thread!Emitted, Thread!Store, Thread!Updated, Thread!NotFetching, Thread!Cardinality
<1>2. /\ Rooms!Init => Chat(Threads, 0)!Init
      /\ [Rooms!Next]_(Rooms!vars) => [Chat(Threads, 0)!Next]_(Chat(Threads, 0)!vars)
      /\ Chat(Threads, 0)!RejoinsAfterReconnect => Rooms!RejoinsAfterReconnect
  BY DEF Rooms!Init, Rooms!Next, Rooms!vars, Rooms!RejoinsAfterReconnect, Rooms!SignIn,
      Rooms!UserRead, Rooms!SendMessage, Rooms!Fetch, Rooms!Select, Rooms!OtherSends,
      Rooms!Fetched, Rooms!Open, Rooms!Refused, Rooms!Drop, Rooms!Join, Rooms!Deny,
      Rooms!Send, Rooms!HandleMessage, Rooms!Sockets, Rooms!Messages, Rooms!Created, Rooms!MayConnect,
      Rooms!Keeps, Rooms!AfterConnect, Rooms!ConnectedSocket, Rooms!Emitted, Rooms!Store,
      Rooms!Updated, Rooms!NotFetching, Rooms!Cardinality
<1> QED
  BY <1>1, <1>2

-----------------------------------------------------------------------------
(* Queries                                                                 *)

Q == INSTANCE Queries

\* A query of a row whose statuses are S, after any number of changes of the row.
Held(S) ==
  [loaded : BOOLEAN, status : S, version : Nat, stale : BOOLEAN,
   fetch : {"no", "sent", "read"}, readStatus : S, readVersion : Nat, failed : BOOLEAN]

\* What q has read and shows of the row is not made up: the status of the row goes
\* with its version.
Honest(q, status_, version_) ==
  /\ q.loaded => /\ q.version <= version_
                 /\ q.version = version_ => q.status = status_
  /\ q.fetch = "read" => /\ q.readVersion <= version_
                         /\ q.readVersion = version_ => q.readStatus = status_

\* Neither what q shows, once it has settled, nor an answer on its way is older.
CatchesUp(q, version_) ==
  /\ Q!Settled(q) => q.version >= version_
  /\ q.fetch = "read" => q.readVersion >= version_

\* A page asks, gives up or finds out that it has failed; nothing has been answered.
Quiet(q, r) ==
  /\ r.loaded = q.loaded /\ r.status = q.status /\ r.version = q.version
  /\ r.readStatus = q.readStatus /\ r.readVersion = q.readVersion
  /\ r.fetch = "read" => q.fetch = "read"
  /\ Q!Settled(r) => Q!Settled(q)

\* All that happens to a query while its row stays.
QueryStep(q, r, status_, version_) ==
  \/ Quiet(q, r)
  \/ r = Q!ReadBy(q, status_, version_)
  \/ q.fetch = "read" /\ r = Q!Received(q)

\* React Query's operations on a query are such steps.
LEMMA OperationsAreQuiet ==
  ASSUME NEW S, NEW q \in Held(S), NEW mounted \in BOOLEAN
  PROVE  /\ \A r \in {q, Q!Mounted(q), Q!Failed(q), Q!Refetched(q), Q!Invalidate(q, mounted),
                      [q EXCEPT !.stale = TRUE]} :
              r \in Held(S) /\ Quiet(q, r)
<1> DEFINE sent == [q EXCEPT !.fetch = "sent"]
           failed == [q EXCEPT !.fetch = "no", !.failed = TRUE]
           again == [sent EXCEPT !.failed = q.failed /\ q.loaded]
           stale == [q EXCEPT !.stale = TRUE]
           fresh == [again EXCEPT !.stale = TRUE]
<1>1. q \in Held(S) /\ Quiet(q, q)
  BY DEF Quiet
<1>2. sent \in Held(S) /\ Quiet(q, sent)
  BY DEF Held, Quiet, Q!Settled
<1>3. failed \in Held(S) /\ Quiet(q, failed)
  BY DEF Held, Quiet, Q!Settled
<1>4. again \in Held(S) /\ Quiet(q, again)
  BY <1>2 DEF Held, Quiet, Q!Settled
<1>5. stale \in Held(S) /\ Quiet(q, stale)
  BY DEF Held, Quiet, Q!Settled
<1>6. fresh \in Held(S) /\ Quiet(q, fresh)
  BY <1>4 DEF Held, Quiet, Q!Settled
<1>7. Q!Mounted(q) \in {q, sent}
  BY DEF Q!Mounted, Q!Sent
<1>8. Q!Failed(q) = failed /\ Q!Refetched(q) = again
  BY DEF Q!Failed, Q!Refetched, Q!Sent
<1>9. Q!Invalidate(q, mounted) \in {stale, fresh}
  BY DEF Q!Invalidate, Q!Refetched, Q!Sent
<1> HIDE DEF sent, failed, again, stale, fresh
<1>10. [q EXCEPT !.stale = TRUE] = stale
  BY DEF stale
<1> QED
  BY <1>1, <1>2, <1>3, <1>4, <1>5, <1>6, <1>7, <1>8, <1>9, <1>10

\* A query that has data gives up what it is fetching when it is invalidated, and one
\* that is not fetching begins to: it comes to show any version of the row so far.
LEMMA InvalidationCatchesUp ==
  ASSUME NEW S, NEW q \in Held(S), q.loaded \/ q.fetch = "no", NEW v
  PROVE  CatchesUp(Q!Invalidate(q, TRUE), v)
BY DEF Held, CatchesUp, Q!Invalidate, Q!Refetched, Q!Sent, Q!Settled

\* What holds of a query after such a step.
LEMMA QueryStepKeeps ==
  ASSUME NEW S, NEW q \in Held(S), NEW r, NEW s \in S, NEW v \in Nat, NEW own \in Nat,
         QueryStep(q, r, s, v), Quiet(q, r) => r \in Held(S), Honest(q, s, v), own <= v
  PROVE  /\ r \in Held(S)
         /\ Honest(r, s, v)
         /\ CatchesUp(q, own) => CatchesUp(r, own)
         /\ q.loaded => r.loaded
<1>1. CASE Quiet(q, r)
  BY <1>1 DEF Quiet, Honest, CatchesUp, Held
<1>2. CASE r = Q!ReadBy(q, s, v)
  <2>1. r = [q EXCEPT !.fetch = "read", !.readStatus = s, !.readVersion = v]
    BY <1>2 DEF Q!ReadBy
  <2>2. r \in Held(S) /\ r.fetch = "read" /\ r.readStatus = s /\ r.readVersion = v
        /\ r.loaded = q.loaded /\ r.status = q.status /\ r.version = q.version
    BY <2>1 DEF Held
  <2> QED
    BY <2>2 DEF Honest, CatchesUp, Q!Settled
<1>3. CASE q.fetch = "read" /\ r = Q!Received(q)
  <2>1. r = [loaded |-> TRUE, status |-> q.readStatus, version |-> q.readVersion,
             stale |-> FALSE, fetch |-> "no", readStatus |-> q.readStatus,
             readVersion |-> 0, failed |-> FALSE]
    BY <1>3 DEF Q!Received, Q!Unfetched
  <2>2. r \in Held(S)
    BY <2>1 DEF Held
  <2> QED
    BY <1>3, <2>1, <2>2 DEF Honest, CatchesUp, Q!Settled
<1> QED
  BY <1>1, <1>2, <1>3 DEF QueryStep

\* An operation of React Query on one query, or an answer to it.
Operation(q, r, status_, version_) ==
  \/ r \in {Q!Mounted(q), Q!Failed(q), Q!Refetched(q), Q!Invalidate(q, TRUE),
            [q EXCEPT !.stale = TRUE]}
  \/ r = Q!ReadBy(q, status_, version_)
  \/ q.fetch = "read" /\ r = Q!Received(q)

LEMMA OperationsAreSteps ==
  ASSUME NEW S, NEW q \in Held(S), NEW s \in S, NEW v \in Nat, Honest(q, s, v), NEW r,
         Operation(q, r, s, v)
  PROVE  r \in Held(S) /\ QueryStep(q, r, s, v)
<1>1. QueryStep(q, r, s, v) /\ (Quiet(q, r) => r \in Held(S))
  <2>1. CASE r = Q!ReadBy(q, s, v)
    BY <2>1 DEF QueryStep, Q!ReadBy, Held
  <2>2. CASE q.fetch = "read" /\ r = Q!Received(q)
    BY <2>2 DEF QueryStep, Q!Received, Q!Unfetched, Held
  <2>3. CASE r \in {Q!Mounted(q), Q!Failed(q), Q!Refetched(q), Q!Invalidate(q, TRUE),
                    [q EXCEPT !.stale = TRUE]}
    <3>1. r \in Held(S) /\ Quiet(q, r)
      BY <2>3, OperationsAreQuiet
    <3> QED
      BY <3>1 DEF QueryStep
  <2> QED
    BY <2>1, <2>2, <2>3 DEF Operation
<1>2. 0 <= v /\ 0 \in Nat
  OBVIOUS
<1> QED
  BY <1>1, <1>2, QueryStepKeeps

-----------------------------------------------------------------------------
(* Booking pages                                                           *)

\* Both instances: any browsers, whatever others do, with the deadline or without.
Pages(browsers, elsewhere, deadline) == INSTANCE BookingPages WITH
  Browsers <- browsers, Elsewhere <- elsewhere, Deadline <- deadline,
  cache <- bookingCache, page <- bookingPage, dialog <- bookingDialog, own <- bookingOwn

BookingStatuses == Traveler!Status

NoBookingDialog == [action |-> "none", stage |-> "none", seen |-> 0, reason |-> TRUE]

BookingDialog ==
  [action : {"accept", "decline", "cancel", "complete"},
   stage : {"open", "sent", "done", "refused"}, seen : Nat, reason : BOOLEAN]

\* The menus and dialogs of the browsers.
BookingHands(B) == B \cup {h \in {"provider again"} : "provider" \in B}

OwnerOf(h) == IF h = "provider again" THEN "provider" ELSE h

BookingTypes(B) ==
  /\ \A h \in BookingHands(B) : OwnerOf(h) \in B
  /\ status \in BookingStatuses /\ version \in Nat
  /\ bookingCache \in [B -> [{"list", "detail"} -> Held(BookingStatuses)]]
  /\ bookingPage \in [B -> {"list", "detail"}]
  /\ bookingDialog \in [BookingHands(B) -> BookingDialog \cup {NoBookingDialog}]
  /\ bookingOwn \in [B -> Nat]

ActsFrom(b) == IF b = "traveler" THEN "detail" ELSE "list"

\* The inductive invariant: the page that somebody acted from shows the outcome or
\* will fetch it, unless it was without data and waited for a fetch.
BookingShown(B) ==
  /\ BookingTypes(B)
  /\ \A b \in B :
       /\ bookingOwn[b] <= version
       /\ b # "traveler" => bookingPage[b] = "list"
       /\ \A p \in {"list", "detail"} : Honest(bookingCache[b][p], status, version)
       /\ CatchesUp(bookingCache[b][ActsFrom(b)], bookingOwn[b])

\* What every step makes of the row and of the queries of the pages.
BookingRowStep ==
  /\ status' \in BookingStatuses /\ version' \in Nat
  /\ (status' = status /\ version' = version) \/ version' > version

BookingCacheStep(B) ==
  /\ bookingCache' \in [B -> [{"list", "detail"} -> Held(BookingStatuses)]]
  /\ \A b \in B, p \in {"list", "detail"} :
       QueryStep(bookingCache[b][p], bookingCache'[b][p], status, version)

LEMMA OneQueryChanges ==
  ASSUME NEW B, BookingTypes(B), NEW b, NEW p \in {"list", "detail"}, NEW r,
         bookingCache' = [bookingCache EXCEPT ![b][p] = r],
         b \in B => /\ r \in Held(BookingStatuses)
                    /\ QueryStep(bookingCache[b][p], r, status, version)
  PROVE  BookingCacheStep(B)
<1>1. \A c \in B, o \in {"list", "detail"} :
        bookingCache'[c][o] = IF c = b /\ o = p THEN r ELSE bookingCache[c][o]
  BY DEF BookingTypes
<1>2. bookingCache' \in [B -> [{"list", "detail"} -> Held(BookingStatuses)]]
  BY DEF BookingTypes
<1>3. \A q : QueryStep(q, q, status, version)
  BY DEF QueryStep, Quiet
<1> QED
  BY <1>1, <1>2, <1>3 DEF BookingCacheStep

\* When a step takes the queries on.
LEMMA BookingStepKeeps ==
  ASSUME NEW B, BookingShown(B), BookingRowStep, BookingCacheStep(B),
         bookingPage' \in [B -> {"list", "detail"}],
         bookingDialog' \in [BookingHands(B) -> BookingDialog \cup {NoBookingDialog}],
         bookingOwn' \in [B -> Nat],
         \A b \in B :
           /\ b # "traveler" => bookingPage'[b] = "list"
           /\ \/ bookingOwn'[b] = bookingOwn[b]
              \/ /\ bookingOwn'[b] = version
                 /\ CatchesUp(bookingCache'[b][ActsFrom(b)], version)
  PROVE  BookingShown(B)'
<1>1. BookingTypes(B)'
  BY DEF BookingShown, BookingTypes, BookingRowStep, BookingCacheStep
<1>2. ASSUME NEW b \in B, NEW p \in {"list", "detail"}
      PROVE  /\ Honest(bookingCache'[b][p], status', version')
             /\ CatchesUp(bookingCache[b][p], bookingOwn[b]) =>
                  CatchesUp(bookingCache'[b][p], bookingOwn[b])
  <2> DEFINE q == bookingCache[b][p]
             r == bookingCache'[b][p]
  <2>1. /\ q \in Held(BookingStatuses) /\ r \in Held(BookingStatuses)
        /\ QueryStep(q, r, status, version) /\ Honest(q, status, version)
        /\ status \in BookingStatuses /\ version \in Nat
        /\ bookingOwn[b] \in Nat /\ bookingOwn[b] <= version
    BY DEF BookingShown, BookingTypes, BookingCacheStep
  <2> HIDE DEF q, r
  <2>2. /\ Honest(r, status, version)
        /\ CatchesUp(q, bookingOwn[b]) => CatchesUp(r, bookingOwn[b])
    BY <2>1, QueryStepKeeps
  <2>3. Honest(r, status', version')
    BY <2>1, <2>2 DEF Honest, Held, BookingRowStep
  <2> QED
    BY <2>2, <2>3 DEF q, r
<1>3. ASSUME NEW b \in B
      PROVE  /\ bookingOwn'[b] <= version'
             /\ CatchesUp(bookingCache'[b][ActsFrom(b)], bookingOwn'[b])
  <2>1. ActsFrom(b) \in {"list", "detail"}
    BY DEF ActsFrom
  <2>2. bookingOwn[b] \in Nat /\ bookingOwn[b] <= version /\ version \in Nat
    BY DEF BookingShown, BookingTypes
  <2>3. bookingOwn'[b] <= version'
    BY <2>2 DEF BookingRowStep
  <2> QED
    BY <1>2, <2>1, <2>3 DEF BookingShown
<1> QED
  BY <1>1, <1>2, <1>3 DEF BookingShown

\* Fetches of any page, and the payment of the traveler, who has the page open.
LEMMA BookingFetches ==
  ASSUME NEW B, NEW E, NEW D, BookingShown(B),
         \/ \E b \in B, p \in {"list", "detail"} :
              \/ Pages(B, E, D)!Open(b, p) \/ Pages(B, E, D)!Age(b, p)
              \/ Pages(B, E, D)!Read(b, p) \/ Pages(B, E, D)!Receive(b, p)
              \/ Pages(B, E, D)!FailFetch(b, p)
         \/ \E b \in B : Pages(B, E, D)!Refetch(b)
         \/ Pages(B, E, D)!Pay
  PROVE  BookingShown(B)'
<1> DEFINE Changes(b, p, r) ==
      /\ p \in {"list", "detail"}
      /\ bookingCache' = [bookingCache EXCEPT ![b][p] = r]
      /\ Operation(bookingCache[b][p], r, status, version)
<1>0. BookingTypes(B)
  BY DEF BookingShown
<1>1. PICK b, p, r : Changes(b, p, r)
  <2>1. ASSUME NEW b \in B, NEW p \in {"list", "detail"}, Pages(B, E, D)!Open(b, p)
        PROVE  Changes(b, p, Q!Mounted(bookingCache[b][p]))
    BY <2>1 DEF Operation, Pages!Open, Pages!Mounted, Pages!Sent, Q!Mounted, Q!Sent
  <2>2. ASSUME NEW b \in B, NEW p \in {"list", "detail"}, Pages(B, E, D)!Age(b, p)
        PROVE  Changes(b, p, [bookingCache[b][p] EXCEPT !.stale = TRUE])
    BY <2>2 DEF Operation, Pages!Age
  <2>3. ASSUME NEW b \in B, NEW p \in {"list", "detail"}, Pages(B, E, D)!Read(b, p)
        PROVE  Changes(b, p, Q!ReadBy(bookingCache[b][p], status, version))
    BY <2>3 DEF Operation, Pages!Read, Pages!ReadBy, Q!ReadBy
  <2>4. ASSUME NEW b \in B, NEW p \in {"list", "detail"}, Pages(B, E, D)!Receive(b, p)
        PROVE  Changes(b, p, Q!Received(bookingCache[b][p]))
    BY <2>4 DEF Operation, Pages!Receive, Pages!Received, Pages!Unfetched, Q!Received,
       Q!Unfetched
  <2>5. ASSUME NEW b \in B, NEW p \in {"list", "detail"}, Pages(B, E, D)!FailFetch(b, p)
        PROVE  Changes(b, p, Q!Failed(bookingCache[b][p]))
    BY <2>5 DEF Operation, Pages!FailFetch, Pages!Failed, Q!Failed
  <2>6. ASSUME NEW b \in B, Pages(B, E, D)!Refetch(b)
        PROVE  Changes(b, bookingPage[b], Q!Refetched(bookingCache[b][bookingPage[b]]))
    BY <1>0, <2>6 DEF Operation, BookingTypes, Pages!Refetch, Pages!Refetched, Pages!Sent,
       Q!Refetched, Q!Sent
  <2>7. ASSUME Pages(B, E, D)!Pay
        PROVE  Changes("traveler", "detail",
                       Q!Invalidate(bookingCache["traveler"]["detail"], TRUE))
    BY <2>7 DEF Operation, Pages!Pay, Pages!Invalidate, Pages!Refetched, Pages!Sent,
       Q!Invalidate, Q!Refetched, Q!Sent
  <2> HIDE DEF Changes
  <2> QED
    BY <2>1, <2>2, <2>3, <2>4, <2>5, <2>6, <2>7
<1>2. b \in B => /\ r \in Held(BookingStatuses)
                 /\ QueryStep(bookingCache[b][p], r, status, version)
  <2> SUFFICES ASSUME b \in B
               PROVE  /\ r \in Held(BookingStatuses)
                      /\ QueryStep(bookingCache[b][p], r, status, version)
    OBVIOUS
  <2> DEFINE q == bookingCache[b][p]
  <2>1. q \in Held(BookingStatuses) /\ Honest(q, status, version)
        /\ status \in BookingStatuses /\ version \in Nat
    BY <1>1 DEF BookingShown, BookingTypes
  <2>2. Operation(q, r, status, version)
    BY <1>1
  <2> HIDE DEF q
  <2>3. r \in Held(BookingStatuses) /\ QueryStep(q, r, status, version)
    BY <2>1, <2>2, OperationsAreSteps
  <2> QED
    BY <2>3 DEF q
<1>3. BookingCacheStep(B)
  BY <1>0, <1>1, <1>2, OneQueryChanges
<1>4. /\ UNCHANGED <<status, version, bookingDialog, bookingOwn>>
      /\ bookingPage' \in [B -> {"list", "detail"}]
      /\ \A c \in B : c # "traveler" => bookingPage'[c] = "list"
  <2>1. ASSUME NEW c \in B, NEW o \in {"list", "detail"}, Pages(B, E, D)!Open(c, o)
        PROVE  <1>4
    <3>1. /\ bookingPage' = [bookingPage EXCEPT ![c] = o]
          /\ o = "detail" => c = "traveler"
          /\ UNCHANGED <<status, version, bookingDialog, bookingOwn>>
      BY <2>1 DEF Pages!Open, Pages!server
    <3> QED
      BY <3>1 DEF BookingShown, BookingTypes
  <2>2. CASE UNCHANGED <<status, version, bookingPage, bookingDialog, bookingOwn>>
    BY <2>2 DEF BookingShown, BookingTypes
  <2> QED
    BY <2>1, <2>2 DEF Pages!Age, Pages!Read, Pages!Receive, Pages!FailFetch, Pages!Refetch,
       Pages!Pay, Pages!server
<1> QED
  BY <1>0, <1>3, <1>4, BookingStepKeeps DEF BookingTypes, BookingRowStep

\* A dialog that is open or sent goes on with what was chosen.
LEMMA DialogGoesOn ==
  ASSUME NEW B, BookingTypes(B), NEW b \in BookingHands(B), bookingDialog[b] # NoBookingDialog,
         NEW stage \in {"open", "sent", "done", "refused"},
         bookingDialog' = [bookingDialog EXCEPT ![b].stage = stage]
  PROVE  /\ bookingDialog' \in [BookingHands(B) -> BookingDialog \cup {NoBookingDialog}]
         /\ \A c \in BookingHands(B) : c # b => bookingDialog'[c] = bookingDialog[c]
         /\ bookingDialog'[b] \in BookingDialog
         /\ bookingDialog'[b].stage = stage
         /\ bookingDialog'[b].action = bookingDialog[b].action
         /\ bookingDialog'[b].seen = bookingDialog[b].seen
         /\ bookingDialog'[b].reason = bookingDialog[b].reason
<1> DEFINE d == [bookingDialog[b] EXCEPT !.stage = stage]
<1>1. bookingDialog[b] \in BookingDialog
  BY DEF BookingTypes
<1>2. /\ d \in BookingDialog /\ d.stage = stage
      /\ d.action = bookingDialog[b].action /\ d.seen = bookingDialog[b].seen
      /\ d.reason = bookingDialog[b].reason
  BY <1>1 DEF BookingDialog
<1>3. bookingDialog' = [bookingDialog EXCEPT ![b] = d]
  OBVIOUS
<1> HIDE DEF d
<1> QED
  BY <1>2, <1>3 DEF BookingTypes

\* Dialogs, and what the server does meanwhile.
BookingAction(B, E, D) ==
  \/ \E h \in BookingHands(B) :
       \/ Pages(B, E, D)!Confirm(h) \/ Pages(B, E, D)!Dismiss(h)
       \/ Pages(B, E, D)!Serve(h) \/ Pages(B, E, D)!Fail(h)
       \/ \E action \in Pages(B, E, D)!Actions, reason \in BOOLEAN :
            Pages(B, E, D)!Choose(h, action, reason)
  \/ Pages(B, E, D)!ChangeElsewhere \/ Pages(B, E, D)!Webhook
  \/ Pages(B, E, D)!DayBefore \/ Pages(B, E, D)!OpenPayment
  \/ Pages(B, E, D)!CreateIntent \/ Pages(B, E, D)!FailIntent
  \/ Pages(B, E, D)!ClosePayment
  \/ UNCHANGED Pages(B, E, D)!vars

LEMMA BookingActionEffect ==
  ASSUME NEW B, NEW E, NEW D, BookingShown(B), BookingAction(B, E, D)
  PROVE  /\ UNCHANGED <<bookingCache, bookingPage, bookingOwn>>
         /\ BookingRowStep
         /\ bookingDialog' \in [BookingHands(B) -> BookingDialog \cup {NoBookingDialog}]
<1> USE DEF BookingAction
<1>0. BookingTypes(B)
  BY DEF BookingShown
<1>1. UNCHANGED <<bookingCache, bookingPage, bookingOwn>>
  BY DEF Pages!Confirm, Pages!Dismiss, Pages!Serve, Pages!Fail, Pages!Choose,
     Pages!ChangeElsewhere, Pages!Webhook, Pages!DayBefore, Pages!OpenPayment,
     Pages!CreateIntent, Pages!FailIntent, Pages!ClosePayment, Pages!vars, Pages!server
<1>2. /\ BookingRowStep
      /\ bookingDialog' \in [BookingHands(B) -> BookingDialog \cup {NoBookingDialog}]
  <2> USE <1>0 DEF BookingTypes, BookingRowStep
  <2>1. ASSUME NEW h \in BookingHands(B), Pages(B, E, D)!Confirm(h)
        PROVE  <1>2
    <3>1. /\ bookingDialog[h] # NoBookingDialog
          /\ bookingDialog' = [bookingDialog EXCEPT ![h].stage = "sent"]
          /\ UNCHANGED <<status, version>>
      BY <2>1 DEF Pages!Confirm, Pages!server, NoBookingDialog
    <3> QED
      BY <3>1, DialogGoesOn
  <2>2. ASSUME NEW h \in BookingHands(B), Pages(B, E, D)!Dismiss(h)
        PROVE  <1>2
    BY <2>2 DEF Pages!Dismiss, Pages!server, Pages!NoDialog, NoBookingDialog
  <2>3. ASSUME NEW h \in BookingHands(B), Pages(B, E, D)!Serve(h)
        PROVE  <1>2
    <3>1. bookingDialog[h] \in BookingDialog /\ bookingDialog[h] # NoBookingDialog
      BY <2>3 DEF Pages!Serve, NoBookingDialog
    <3>2. PICK stage \in {"done", "refused"} :
            bookingDialog' = [bookingDialog EXCEPT ![h].stage = stage]
      BY <2>3 DEF Pages!Serve
    <3>3. Pages(B, E, D)!Target(OwnerOf(h), bookingDialog[h].action) \in BookingStatuses
      BY <3>1 DEF BookingDialog, BookingStatuses, Pages!Target, Traveler!Status,
         Traveler!Terminal
    <3>4. BookingRowStep
      <4>1. Pages(B, E, D)!Who(h) = OwnerOf(h)
        BY DEF Pages!Who, OwnerOf
      <4> QED
        BY <2>3, <3>3, <4>1 DEF Pages!Serve
    <3> QED
      BY <3>1, <3>2, <3>4, DialogGoesOn
  <2>4. ASSUME NEW h \in BookingHands(B), Pages(B, E, D)!Fail(h)
        PROVE  <1>2
    <3>1. bookingDialog[h] # NoBookingDialog /\ UNCHANGED <<status, version>>
      BY <2>4 DEF Pages!Fail, Pages!server, NoBookingDialog
    <3>2. CASE h = "admin"
      <4>1. bookingDialog' = [bookingDialog EXCEPT ![h].stage = "open"]
        BY <2>4, <3>2 DEF Pages!Fail, Pages!Who
      <4> QED
        BY <3>1, <4>1, DialogGoesOn
    <3>3. CASE h # "admin"
      <4>1. bookingDialog' = [bookingDialog EXCEPT ![h] = NoBookingDialog]
        BY <2>4, <3>3 DEF Pages!Fail, Pages!Who, Pages!NoDialog, NoBookingDialog
      <4> QED
        BY <3>1, <4>1
    <3> QED
      BY <3>2, <3>3
  <2>5. ASSUME NEW h \in BookingHands(B), NEW action \in Pages(B, E, D)!Actions, NEW reason \in BOOLEAN,
               Pages(B, E, D)!Choose(h, action, reason)
        PROVE  <1>2
    <3> DEFINE q == bookingCache[OwnerOf(h)][bookingPage[OwnerOf(h)]]
    <3>1. action \in Pages(B, E, D)!Actions /\ UNCHANGED <<status, version>>
      BY <2>5 DEF Pages!Choose, Pages!server
    <3>2. q \in Held(BookingStatuses)
      OBVIOUS
    <3>3. PICK stage \in {"sent", "open"} :
            bookingDialog' = [bookingDialog EXCEPT ![h] =
              [action |-> action, stage |-> stage, seen |-> q.version, reason |-> reason]]
      BY <2>5 DEF Pages!Choose, Pages!Shown, Pages!Who, OwnerOf
    <3>4. [action |-> action, stage |-> stage, seen |-> q.version, reason |-> reason]
            \in BookingDialog
      BY <3>1, <3>2 DEF BookingDialog, Held, Pages!Actions
    <3> HIDE DEF q
    <3> QED
      BY <3>1, <3>3, <3>4
  <2>6. ASSUME Pages(B, E, D)!ChangeElsewhere
        PROVE  <1>2
    <3>1. \A s, to : Pages(B, E, D)!CanTransition(s, to) => to \in BookingStatuses
      BY DEF Pages!CanTransition, Pages!AllowedTransitions, BookingStatuses,
         Traveler!Status, Traveler!Terminal
    <3>2. "confirmed" \in BookingStatuses
      BY DEF BookingStatuses, Traveler!Status
    <3> QED
      BY <2>6, <3>1, <3>2 DEF Pages!ChangeElsewhere
  <2>7. CASE Pages(B, E, D)!CreateIntent
    <3>1. "awaiting_payment" \in BookingStatuses
      BY DEF BookingStatuses, Traveler!Status
    <3> QED
      BY <2>7, <3>1 DEF Pages!CreateIntent
  <2>8. CASE UNCHANGED <<status, version, bookingDialog>>
    BY <2>8
  <2> QED
    BY <2>1, <2>2, <2>3, <2>4, <2>5, <2>6, <2>7, <2>8 DEF Pages!Webhook, Pages!DayBefore,
       Pages!OpenPayment, Pages!FailIntent, Pages!ClosePayment, Pages!vars, Pages!server
<1> QED
  BY <1>1, <1>2

LEMMA BookingActions ==
  ASSUME NEW B, NEW E, NEW D, BookingShown(B), BookingAction(B, E, D)
  PROVE  BookingShown(B)'
<1>1. BookingCacheStep(B)
  BY BookingActionEffect DEF BookingShown, BookingTypes, BookingCacheStep, QueryStep, Quiet
<1> QED
  BY <1>1, BookingActionEffect, BookingStepKeeps DEF BookingShown, BookingTypes

\* Success, after which the page that was acted from fetches again, unless it joins a
\* first fetch.
LEMMA BookingSuccess ==
  ASSUME NEW B, NEW E, NEW D, BookingShown(B), NEW h \in BookingHands(B),
         Pages(B, E, D)!Succeed(h)
  PROVE  BookingShown(B)'
<1> DEFINE b == OwnerOf(h)
<1>0. BookingTypes(B) /\ b \in B
  BY DEF BookingShown, BookingTypes
<1> DEFINE invalidated(p, mounted) == Q!Invalidate(bookingCache[b][p], mounted)
           onList == bookingPage[b] = "list"
           detail == IF b = "traveler" THEN invalidated("detail", TRUE)
                     ELSE bookingCache[b]["detail"]
<1>1. bookingCache' = [bookingCache EXCEPT ![b]["list"] = invalidated("list", onList),
                                           ![b]["detail"] = detail]
  BY DEF OwnerOf, Pages!Who, Pages!Succeed, Pages!AfterSuccess, Pages!Invalidate, Pages!Refetched, Pages!Sent,
     Q!Invalidate, Q!Refetched, Q!Sent
<1>2. \A p \in {"list", "detail"} : \A m \in BOOLEAN :
        /\ invalidated(p, m) \in Held(BookingStatuses)
        /\ QueryStep(bookingCache[b][p], invalidated(p, m), status, version)
        /\ QueryStep(bookingCache[b][p], bookingCache[b][p], status, version)
  <2> SUFFICES ASSUME NEW p \in {"list", "detail"}, NEW m \in BOOLEAN
               PROVE  /\ invalidated(p, m) \in Held(BookingStatuses)
                      /\ Quiet(bookingCache[b][p], invalidated(p, m))
                      /\ Quiet(bookingCache[b][p], bookingCache[b][p])
    BY DEF QueryStep
  <2>1. bookingCache[b][p] \in Held(BookingStatuses)
    BY <1>0 DEF BookingTypes
  <2> QED
    BY <2>1, OperationsAreQuiet
<1>3. ASSUME ~Pages(B, E, D)!Joins(b)
      PROVE  CatchesUp(invalidated(ActsFrom(b), TRUE), version)
  <2> DEFINE q == bookingCache[b][ActsFrom(b)]
  <2>1. q \in Held(BookingStatuses)
    BY <1>0 DEF BookingTypes, ActsFrom
  <2>2. q.loaded \/ q.fetch = "no"
    BY <1>3 DEF Pages!Joins, Pages!ActingPage, ActsFrom
  <2> HIDE DEF q
  <2>3. CatchesUp(Q!Invalidate(q, TRUE), version)
    BY <2>1, <2>2, InvalidationCatchesUp
  <2> QED
    BY <2>3 DEF q
<1>4. onList \in BOOLEAN /\ (b # "traveler" => onList = TRUE)
  BY <1>0 DEF BookingShown
<1>8. /\ UNCHANGED <<status, version, bookingPage>>
      /\ bookingDialog' = [bookingDialog EXCEPT ![h] = NoBookingDialog]
      /\ bookingOwn' = [bookingOwn EXCEPT ![b] =
           IF Pages(B, E, D)!Joins(b) THEN @ ELSE version]
  BY DEF OwnerOf, Pages!Who, Pages!Succeed, Pages!server, Pages!NoDialog, NoBookingDialog
<1> HIDE DEF invalidated, onList, b
<1>5. /\ \A c \in B : c # b => bookingCache'[c] = bookingCache[c]
      /\ bookingCache'[b]["list"] = invalidated("list", onList)
      /\ bookingCache'[b]["detail"] = detail
      /\ bookingCache' \in [B -> [{"list", "detail"} -> Held(BookingStatuses)]]
  BY <1>0, <1>1, <1>2, <1>4 DEF BookingTypes
<1>6. BookingCacheStep(B)
  BY <1>2, <1>4, <1>5, ZenonT(40) DEF BookingCacheStep, QueryStep, Quiet
<1>7. ASSUME ~Pages(B, E, D)!Joins(b)
      PROVE  CatchesUp(bookingCache'[b][ActsFrom(b)], version)
  BY <1>3, <1>4, <1>5, <1>7 DEF ActsFrom
<1>9. /\ bookingDialog' \in [BookingHands(B) -> BookingDialog \cup {NoBookingDialog}]
      /\ bookingOwn' \in [B -> Nat]
      /\ \A c \in B : \/ bookingOwn'[c] = bookingOwn[c]
                      \/ c = b /\ bookingOwn'[b] = version /\ ~Pages(B, E, D)!Joins(b)
  BY <1>0, <1>8 DEF BookingTypes
<1> QED
  BY <1>0, <1>6, <1>7, <1>8, <1>9, BookingStepKeeps DEF BookingShown, BookingTypes,
     BookingRowStep

\* The page that somebody acted from comes to show the outcome, whoever else changes
\* the booking and whatever fetches are under way, fail or are given up.
LEMMA BookingOutcomeShown ==
  ASSUME NEW B, NEW E, NEW D, \A h \in BookingHands(B) : OwnerOf(h) \in B
  PROVE  /\ Pages(B, E, D)!Init => BookingShown(B)
         /\ BookingShown(B) /\ [Pages(B, E, D)!Next]_(Pages(B, E, D)!vars) => BookingShown(B)'
         /\ BookingShown(B) => Pages(B, E, D)!OwnActionShown
<1>1. ASSUME Pages(B, E, D)!Init
      PROVE  BookingShown(B)
  <2> DEFINE none == [loaded |-> FALSE, status |-> "pending", version |-> 0, stale |-> TRUE,
                      fetch |-> "no", readStatus |-> "pending", readVersion |-> 0,
                      failed |-> FALSE]
             sent == [none EXCEPT !.fetch = "sent"]
  <2>1. "pending" \in BookingStatuses
    BY DEF BookingStatuses, Traveler!Status
  <2>2. /\ none \in Held(BookingStatuses) /\ Honest(none, "pending", 0) /\ CatchesUp(none, 0)
        /\ sent \in Held(BookingStatuses) /\ Honest(sent, "pending", 0) /\ CatchesUp(sent, 0)
    BY <2>1 DEF Held, Honest, CatchesUp, Q!Settled
  <2>3. bookingCache = [b \in B |-> [p \in {"list", "detail"} |-> IF p = "list" THEN sent ELSE none]]
    BY <1>1 DEF Pages!Init, Pages!Pages, Pages!Sent, Pages!Unfetched
  <2> HIDE DEF none, sent
  <2>4. /\ status = "pending" /\ version = 0
        /\ bookingPage = [b \in B |-> "list"]
        /\ bookingDialog = [h \in BookingHands(B) |-> NoBookingDialog]
        /\ bookingOwn = [b \in B |-> 0]
    BY <1>1 DEF Pages!Init, Pages!Hands, BookingHands, Pages!NoDialog, NoBookingDialog
  <2> QED
    BY <2>1, <2>2, <2>3, <2>4 DEF BookingShown, BookingTypes, ActsFrom
<1>2. BookingShown(B) /\ [Pages(B, E, D)!Next]_(Pages(B, E, D)!vars) => BookingShown(B)'
  BY BookingFetches, BookingActions, BookingSuccess DEF BookingAction, BookingHands,
     Pages!Hands, Pages!Next, Pages!Pages
<1>3. BookingShown(B) => Pages(B, E, D)!OwnActionShown
  BY DEF BookingShown, CatchesUp, Pages!OwnActionShown, Pages!Settled, Pages!ActingPage,
     Q!Settled, ActsFrom
<1> QED
  BY <1>1, <1>2, <1>3

\* The inductive invariant of refusals: while the booking is as the provider saw it,
\* what the provider chose is still on offer, and it has not been refused.
ChoiceStands(B) ==
  /\ BookingShown(B)
  /\ \A h \in BookingHands(B) :
       LET d == bookingDialog[h]
       IN  OwnerOf(h) = "provider" /\ d # NoBookingDialog =>
             /\ d.seen <= version
             /\ d.seen = version => /\ d.stage # "refused"
                                    /\ d.action \in ProviderBookings!OfferedByProvider(status)
                                    /\ d.reason

\* A step after which a menu of the provider has no action, or the same one.
LEMMA ChoiceStays ==
  ASSUME NEW B, ChoiceStands(B), BookingShown(B)', BookingRowStep,
         \A h \in BookingHands(B) : bookingDialog'[h] \in {NoBookingDialog, bookingDialog[h]}
  PROVE  ChoiceStands(B)'
<1> SUFFICES ASSUME NEW h \in BookingHands(B), OwnerOf(h) = "provider",
                    bookingDialog'[h] # NoBookingDialog
             PROVE  LET d == bookingDialog'[h]
                    IN  /\ d.seen <= version'
                        /\ d.seen = version' =>
                             /\ d.stage # "refused"
                             /\ d.action \in ProviderBookings!OfferedByProvider(status')
                             /\ d.reason
  BY DEF ChoiceStands
<1>1. bookingDialog'[h] = bookingDialog[h] /\ bookingDialog[h] \in BookingDialog
  BY DEF ChoiceStands, BookingShown, BookingTypes
<1>2. bookingDialog[h].seen \in Nat /\ version \in Nat
  BY <1>1 DEF ChoiceStands, BookingShown, BookingTypes, BookingDialog
<1> QED
  BY <1>1, <1>2 DEF ChoiceStands, BookingRowStep

\* ValidateTransition allows a provider whatever the list offers.
LEMMA OfferedIsAccepted ==
  ASSUME NEW B, NEW E, NEW D, ChoiceStands(B), NEW h \in BookingHands(B),
         OwnerOf(h) = "provider", bookingDialog[h] \in BookingDialog,
         bookingDialog[h].seen = version
  PROVE  Pages(B, E, D)!Accepted(h)
<1> DEFINE d == bookingDialog[h]
<1>1. d # NoBookingDialog
  BY DEF BookingDialog, NoBookingDialog
<1>2. d.reason /\ \/ status = "pending" /\ d.action \in {"accept", "decline"}
                  \/ status = "confirmed" /\ d.action = "complete"
  BY <1>1 DEF ChoiceStands, ProviderBookings!OfferedByProvider
<1> HIDE DEF d
<1>3. /\ Pages(B, E, D)!Target("provider", "accept") = "accepted"
      /\ Pages(B, E, D)!Target("provider", "decline") = "declined"
      /\ Pages(B, E, D)!Target("provider", "complete") = "completed"
  BY DEF Pages!Target
<1>4. \A to, reason : reason /\ (\/ status = "pending" /\ to \in {"accepted", "declined"}
                                 \/ status = "confirmed" /\ to = "completed") =>
        Pages(B, E, D)!ValidateTransition(status, to, "provider", reason)
  BY DEF Pages!ValidateTransition, Pages!CanTransition, Pages!AllowedTransitions,
     Pages!ActorPermissions
<1>5. \A action \in {"accept", "decline", "complete"} :
        Pages(B, E, D)!ActsAs("provider", action) = "provider"
  BY DEF Pages!ActsAs
<1>6. Pages(B, E, D)!Who(h) = "provider"
  BY DEF Pages!Who, OwnerOf
<1> QED
  BY <1>2, <1>3, <1>4, <1>5, <1>6 DEF d, Pages!Accepted

LEMMA ChoicesStand ==
  ASSUME NEW B, NEW E, NEW D, ChoiceStands(B),
         [Pages(B, E, D)!Next]_(Pages(B, E, D)!vars)
  PROVE  ChoiceStands(B)'
<1>0. BookingShown(B) /\ BookingShown(B)' /\ BookingTypes(B)
  BY BookingOutcomeShown DEF ChoiceStands, BookingShown, BookingTypes
<1>1. ASSUME NEW h \in BookingHands(B), Pages(B, E, D)!Serve(h)
      PROVE  ChoiceStands(B)'
  <2>1. bookingDialog[h] # NoBookingDialog
    BY <1>1 DEF Pages!Serve, NoBookingDialog
  <2>2. BookingRowStep
    BY <1>0, <1>1, BookingActionEffect DEF BookingAction
  <2>3. PICK stage \in {"done", "refused"} :
          /\ bookingDialog' = [bookingDialog EXCEPT ![h].stage = stage]
          /\ stage = "done" => version' = version + 1
          /\ stage = "refused" => /\ UNCHANGED <<status, version>>
                                  /\ ~Pages(B, E, D)!Accepted(h)
    BY <1>1 DEF Pages!Serve
  <2>4. /\ \A k \in BookingHands(B) : k # h => bookingDialog'[k] = bookingDialog[k]
        /\ bookingDialog'[h].seen = bookingDialog[h].seen
        /\ bookingDialog[h] \in BookingDialog /\ version \in Nat
    BY <1>0, <2>1, <2>3, DialogGoesOn DEF BookingTypes
  <2>5. \A k \in BookingHands(B) : OwnerOf(k) = "provider" /\ bookingDialog[k] # NoBookingDialog =>
          bookingDialog[k].seen \in Nat /\ bookingDialog[k].seen <= version
    BY <1>0 DEF ChoiceStands, BookingTypes, BookingDialog
  <2>6. CASE stage = "done"
    BY <1>0, <2>1, <2>3, <2>4, <2>5, <2>6 DEF ChoiceStands
  <2>7. CASE stage = "refused"
    <3>1. OwnerOf(h) = "provider" => bookingDialog[h].seen # version
      BY <2>3, <2>4, <2>7, OfferedIsAccepted
    <3> QED
      BY <1>0, <2>1, <2>3, <2>4, <2>5, <2>7, <3>1 DEF ChoiceStands
  <2> QED
    BY <2>6, <2>7
<1>2. ASSUME NEW h \in BookingHands(B), Pages(B, E, D)!Confirm(h)
      PROVE  ChoiceStands(B)'
  <2>1. /\ bookingDialog[h] # NoBookingDialog
        /\ bookingDialog' = [bookingDialog EXCEPT ![h].stage = "sent"]
        /\ UNCHANGED <<status, version>>
    BY <1>2 DEF Pages!Confirm, Pages!server, NoBookingDialog
  <2>2. /\ \A k \in BookingHands(B) : k # h => bookingDialog'[k] = bookingDialog[k]
        /\ bookingDialog'[h].stage = "sent"
        /\ bookingDialog'[h].action = bookingDialog[h].action
        /\ bookingDialog'[h].seen = bookingDialog[h].seen
        /\ bookingDialog'[h].reason = bookingDialog[h].reason
    BY <1>0, <2>1, DialogGoesOn
  <2> QED
    BY <1>0, <2>1, <2>2 DEF ChoiceStands
<1>3. ASSUME NEW h \in BookingHands(B), NEW action \in Pages(B, E, D)!Actions,
             NEW reason \in BOOLEAN, Pages(B, E, D)!Choose(h, action, reason)
      PROVE  ChoiceStands(B)'
  <2>1. /\ UNCHANGED <<status, version>>
        /\ \A k \in BookingHands(B) : k # h => bookingDialog'[k] = bookingDialog[k]
    BY <1>0, <1>3 DEF Pages!Choose, Pages!server, BookingTypes
  <2>2. CASE OwnerOf(h) # "provider"
    BY <1>0, <2>1, <2>2 DEF ChoiceStands
  <2>3. CASE OwnerOf(h) = "provider"
    <3> DEFINE q == bookingCache["provider"][bookingPage["provider"]]
    <3>0. "provider" \in B /\ Pages(B, E, D)!Who(h) = "provider"
      BY <1>0, <2>3 DEF BookingTypes, OwnerOf, Pages!Who
    <3>1. q \in Held(BookingStatuses) /\ Honest(q, status, version)
      BY <1>0, <3>0 DEF BookingShown, BookingTypes
    <3>2. bookingDialog' = [bookingDialog EXCEPT ![h] =
            [action |-> action, stage |-> "sent", seen |-> q.version, reason |-> reason]]
      BY <1>3, <3>0 DEF Pages!Choose, Pages!Shown
    <3>3. reason /\ action \in Pages(B, E, D)!Offered("provider")
      BY <1>3, <3>0 DEF Pages!Choose, Pages!GivesReason
    <3>4. q.loaded /\ action \in ProviderBookings!OfferedByProvider(q.status)
      BY <3>3 DEF Pages!Offered, Pages!Displayed, Pages!Shown, Pages!OfferedByProvider,
         ProviderBookings!OfferedByProvider
    <3> HIDE DEF q
    <3>5. q.version <= version /\ (q.version = version => q.status = status)
      BY <3>1, <3>4 DEF Honest
    <3>6. /\ bookingDialog'[h].stage = "sent" /\ bookingDialog'[h].action = action
          /\ bookingDialog'[h].seen = q.version /\ bookingDialog'[h].reason = reason
      BY <1>0, <3>2 DEF BookingTypes
    <3> QED
      BY <1>0, <2>1, <3>3, <3>4, <3>5, <3>6 DEF ChoiceStands
  <2> QED
    BY <2>2, <2>3
<1>4. ASSUME NEW h \in BookingHands(B),
             Pages(B, E, D)!Dismiss(h) \/ Pages(B, E, D)!Succeed(h) \/ Pages(B, E, D)!Fail(h)
      PROVE  ChoiceStands(B)'
  <2>1. UNCHANGED <<status, version>>
    BY <1>4 DEF Pages!Dismiss, Pages!Succeed, Pages!Fail, Pages!server
  <2>2. CASE bookingDialog' = [bookingDialog EXCEPT ![h] = NoBookingDialog]
    <3>1. \A k \in BookingHands(B) : bookingDialog'[k] \in {NoBookingDialog, bookingDialog[k]}
      BY <1>0, <2>2 DEF BookingTypes
    <3> QED
      BY <1>0, <2>1, <3>1, ChoiceStays DEF BookingTypes, BookingRowStep
  <2>3. CASE h = "admin" /\ bookingDialog' = [bookingDialog EXCEPT ![h].stage = "open"]
    <3>1. \A k \in BookingHands(B) : k # h => bookingDialog'[k] = bookingDialog[k]
      BY <1>0, <2>3 DEF BookingTypes
    <3>2. OwnerOf(h) # "provider"
      BY <2>3 DEF OwnerOf
    <3> QED
      BY <1>0, <2>1, <3>1, <3>2 DEF ChoiceStands
  <2> QED
    BY <1>4, <2>2, <2>3 DEF Pages!Dismiss, Pages!Succeed, Pages!Fail, Pages!Who,
       Pages!NoDialog, NoBookingDialog
<1>5. ASSUME BookingRowStep, UNCHANGED bookingDialog
      PROVE  ChoiceStands(B)'
  BY <1>0, <1>5, ChoiceStays
<1>6. CASE \/ Pages(B, E, D)!ChangeElsewhere \/ Pages(B, E, D)!Webhook
           \/ Pages(B, E, D)!DayBefore \/ Pages(B, E, D)!OpenPayment
           \/ Pages(B, E, D)!CreateIntent \/ Pages(B, E, D)!FailIntent
           \/ Pages(B, E, D)!ClosePayment
           \/ UNCHANGED Pages(B, E, D)!vars
  <2>1. BookingRowStep
    BY <1>0, <1>6, BookingActionEffect DEF BookingAction
  <2>2. UNCHANGED bookingDialog
    BY <1>6 DEF Pages!ChangeElsewhere, Pages!Webhook, Pages!DayBefore, Pages!OpenPayment,
       Pages!CreateIntent, Pages!FailIntent, Pages!ClosePayment, Pages!vars
  <2> QED
    BY <1>5, <2>1, <2>2
<1>7. CASE \/ \E b \in B, p \in {"list", "detail"} :
                \/ Pages(B, E, D)!Open(b, p) \/ Pages(B, E, D)!Age(b, p)
                \/ Pages(B, E, D)!Read(b, p) \/ Pages(B, E, D)!Receive(b, p)
                \/ Pages(B, E, D)!FailFetch(b, p)
           \/ \E b \in B : Pages(B, E, D)!Refetch(b)
           \/ Pages(B, E, D)!Pay
  <2>1. UNCHANGED <<status, version, bookingDialog>>
    BY <1>7 DEF Pages!Open, Pages!Age, Pages!Read, Pages!Receive, Pages!FailFetch,
       Pages!Refetch, Pages!Pay, Pages!server
  <2> QED
    BY <1>0, <1>5, <2>1 DEF BookingTypes, BookingRowStep
<1> QED
  BY <1>1, <1>2, <1>3, <1>4, <1>6, <1>7 DEF BookingHands, Pages!Hands, Pages!Next, Pages!Pages

\* What the provider's list offers is refused only if the booking has changed since
\* the list showed it, whatever others do and however old the list is.
LEMMA ProviderIsRefusedWhenStale ==
  ASSUME NEW E, NEW D
  PROVE  /\ Pages({"provider"}, E, D)!Init => ChoiceStands({"provider"})
         /\ ChoiceStands({"provider"}) => Pages({"provider"}, E, D)!RefusedOnlyWhenStale
<1>1. ASSUME Pages({"provider"}, E, D)!Init
      PROVE  ChoiceStands({"provider"})
  <2>1. \A h \in BookingHands({"provider"}) : OwnerOf(h) \in {"provider"}
    BY DEF BookingHands, OwnerOf
  <2>2. bookingDialog = [h \in BookingHands({"provider"}) |-> NoBookingDialog]
    BY <1>1 DEF Pages!Init, Pages!Hands, BookingHands, Pages!NoDialog, NoBookingDialog
  <2> QED
    BY <1>1, <2>1, <2>2, BookingOutcomeShown DEF ChoiceStands
<1>2. ASSUME ChoiceStands({"provider"})
      PROVE  Pages({"provider"}, E, D)!RefusedOnlyWhenStale
  <2>1. Pages({"provider"}, E, D)!Hands = BookingHands({"provider"})
    BY DEF Pages!Hands, BookingHands
  <2>2. \A h \in BookingHands({"provider"}) : OwnerOf(h) = "provider"
    BY DEF BookingHands, OwnerOf
  <2>3. NoBookingDialog.stage = "none"
    BY DEF NoBookingDialog
  <2> QED
    BY <1>2, <2>1, <2>2, <2>3 DEF ChoiceStands, Pages!RefusedOnlyWhenStale
<1> QED
  BY <1>1, <1>2

-----------------------------------------------------------------------------
(* Admin pages                                                             *)

\* All instances: any pages, any number of changes.
Moderation(shared, max) == INSTANCE AdminPages WITH
  Admins <- Reviewers, Shared <- shared, MaxChanges <- max, row <- moderated,
  cache <- adminCache, page <- adminPage, dialog <- adminDialog, own <- adminOwn

AdminPageNames == {"users", "reviews", "providers", "provider"}

RowOf(p) == IF p = "providers" THEN "provider" ELSE p

RowsOf(S) == {RowOf(p) : p \in S}

ModeratedStatuses ==
  Lists!Machine!ProviderStatus \cup Lists!UserStatus \cup Lists!ReviewStatus

NoAdminDialog == [action |-> "none", on |-> "none", stage |-> "none", seen |-> 0]

AdminDialog(S) ==
  [action : {"approve", "reject", "suspend", "reinstate", "reactivate", "add", "hide", "publish"},
   on : S \ {"providers"}, stage : {"open", "sent", "done", "refused"}, seen : Nat]

AdminTypes(S) ==
  /\ moderated \in [RowsOf(S) -> [status : ModeratedStatuses, version : Nat]]
  /\ adminCache \in [Reviewers -> [S -> Held(ModeratedStatuses)]]
  /\ adminPage \in [Reviewers -> S]
  /\ adminDialog \in [Reviewers -> AdminDialog(S) \cup {NoAdminDialog}]
  /\ adminOwn \in [Reviewers -> [RowsOf(S) -> Nat]]

\* The choice of an administrator on the page of a provider: while the row is as the
\* page showed it, it is still on offer; and if it has been refused, it was the
\* approval of an application that nobody has taken into review.
DecisionStands(d, provider_) ==
  d # NoAdminDialog /\ d.on = "provider" =>
    /\ d.seen <= provider_.version
    /\ d.seen = provider_.version =>
         /\ d.action \in Lists!OfferedOnProvider(provider_.status)
         /\ d.stage = "refused" => d.action = "approve" /\ provider_.status = "submitted"

\* The inductive invariant: a list that somebody has acted from had data, and what
\* has been refused was asked for on the page of a provider.
AdminShown(S) ==
  /\ AdminTypes(S)
  /\ \A a \in Reviewers :
       /\ \A k \in RowsOf(S) : adminOwn[a][k] <= moderated[k].version
       /\ \A p \in S :
            /\ Honest(adminCache[a][p], moderated[RowOf(p)].status, moderated[RowOf(p)].version)
            /\ p \in {"users", "reviews"} => CatchesUp(adminCache[a][p], adminOwn[a][p])
            /\ adminDialog[a].on = p /\ adminDialog[a].action # "add" =>
                 adminCache[a][p].loaded
       /\ adminDialog[a].stage = "refused" => adminDialog[a].on = "provider"
       /\ DecisionStands(adminDialog[a], moderated["provider"])

AdminRowStep(S) ==
  /\ moderated' \in [RowsOf(S) -> [status : ModeratedStatuses, version : Nat]]
  /\ \A k \in RowsOf(S) :
       moderated'[k] = moderated[k] \/ moderated'[k].version > moderated[k].version

AdminCacheStep(S) ==
  /\ adminCache' \in [Reviewers -> [S -> Held(ModeratedStatuses)]]
  /\ \A a \in Reviewers, p \in S :
       QueryStep(adminCache[a][p], adminCache'[a][p], moderated[RowOf(p)].status,
                 moderated[RowOf(p)].version)

\* A choice is made on a page that has data, or to add somebody.
ChosenOnData(a) ==
  adminDialog'[a] # NoAdminDialog /\ adminDialog'[a].action # "add" =>
    \/ /\ adminDialog[a] # NoAdminDialog
       /\ adminDialog'[a].on = adminDialog[a].on /\ adminDialog'[a].action = adminDialog[a].action
    \/ adminCache[a][adminDialog'[a].on].loaded

\* Success raises what the page of one row has to show.
OwnStep(S, a) ==
  \A k \in RowsOf(S) :
    \/ adminOwn'[a][k] = adminOwn[a][k]
    \/ /\ adminOwn'[a][k] = moderated[k].version
       /\ k \in {"users", "reviews"} => CatchesUp(adminCache'[a][k], moderated[k].version)

LEMMA AdminStepKeeps ==
  ASSUME NEW S \in SUBSET AdminPageNames, AdminShown(S), AdminRowStep(S), AdminCacheStep(S),
         adminPage' \in [Reviewers -> S],
         adminDialog' \in [Reviewers -> AdminDialog(S) \cup {NoAdminDialog}],
         adminOwn' \in [Reviewers -> [RowsOf(S) -> Nat]],
         \A a \in Reviewers :
           /\ ChosenOnData(a) /\ OwnStep(S, a)
           /\ adminDialog'[a].stage = "refused" => adminDialog'[a].on = "provider"
           /\ DecisionStands(adminDialog[a], moderated["provider"])'
  PROVE  AdminShown(S)'
<1>1. AdminTypes(S)'
  BY DEF AdminTypes, AdminRowStep, AdminCacheStep
<1>2. ASSUME NEW a \in Reviewers, NEW p \in S
      PROVE  /\ Honest(adminCache'[a][p], moderated'[RowOf(p)].status, moderated'[RowOf(p)].version)
             /\ CatchesUp(adminCache[a][p], adminOwn[a][RowOf(p)]) =>
                  CatchesUp(adminCache'[a][p], adminOwn[a][RowOf(p)])
             /\ adminCache[a][p].loaded => adminCache'[a][p].loaded
  <2> DEFINE q == adminCache[a][p]
             r == adminCache'[a][p]
             k == RowOf(p)
  <2>1. k \in RowsOf(S)
    BY DEF RowsOf
  <2>2. /\ q \in Held(ModeratedStatuses) /\ r \in Held(ModeratedStatuses)
        /\ QueryStep(q, r, moderated[k].status, moderated[k].version)
        /\ Honest(q, moderated[k].status, moderated[k].version)
    BY DEF AdminShown, AdminTypes, AdminCacheStep
  <2>3. /\ moderated[k].status \in ModeratedStatuses /\ moderated[k].version \in Nat
        /\ moderated'[k].version \in Nat
        /\ adminOwn[a][k] \in Nat /\ adminOwn[a][k] <= moderated[k].version
        /\ moderated'[k] = moderated[k] \/ moderated'[k].version > moderated[k].version
    BY <2>1 DEF AdminShown, AdminTypes, AdminRowStep
  <2> HIDE DEF q, r, k
  <2>4. /\ Honest(r, moderated[k].status, moderated[k].version)
        /\ CatchesUp(q, adminOwn[a][k]) => CatchesUp(r, adminOwn[a][k])
        /\ q.loaded => r.loaded
    BY <2>2, <2>3, QueryStepKeeps
  <2>5. Honest(r, moderated'[k].status, moderated'[k].version)
    BY <2>2, <2>3, <2>4 DEF Honest, Held
  <2> QED
    BY <2>4, <2>5 DEF q, r, k
<1>3. ASSUME NEW a \in Reviewers, NEW k \in RowsOf(S)
      PROVE  adminOwn'[a][k] <= moderated'[k].version
  <2>1. /\ moderated[k].version \in Nat /\ moderated'[k].version \in Nat
        /\ moderated'[k] = moderated[k] \/ moderated'[k].version > moderated[k].version
    BY DEF AdminShown, AdminTypes, AdminRowStep
  <2>2. adminOwn[a][k] \in Nat /\ adminOwn[a][k] <= moderated[k].version
    BY DEF AdminShown, AdminTypes
  <2>3. adminOwn'[a][k] = adminOwn[a][k] \/ adminOwn'[a][k] = moderated[k].version
    BY DEF OwnStep
  <2> QED
    BY <2>1, <2>2, <2>3
<1>4. ASSUME NEW a \in Reviewers, NEW p \in S, p \in {"users", "reviews"}
      PROVE  CatchesUp(adminCache'[a][p], adminOwn'[a][p])
  <2>1. RowOf(p) = p /\ p \in RowsOf(S)
    BY <1>4 DEF RowOf, RowsOf
  <2>2. CatchesUp(adminCache[a][p], adminOwn[a][p])
    BY <1>4 DEF AdminShown
  <2> QED
    BY <1>2, <1>4, <2>1, <2>2 DEF OwnStep
<1>5. ASSUME NEW a \in Reviewers, NEW p \in S,
             adminDialog'[a].on = p, adminDialog'[a].action # "add"
      PROVE  adminCache'[a][p].loaded
  <2>1. p # "none"
    BY DEF AdminPageNames
  <2>2. adminDialog'[a] # NoAdminDialog
    BY <1>5, <2>1 DEF NoAdminDialog
  <2>3. adminCache[a][p].loaded
    BY <1>5, <2>2 DEF ChosenOnData, AdminShown
  <2> QED
    BY <1>2, <2>3
<1> QED
  BY <1>1, <1>2, <1>3, <1>4, <1>5 DEF AdminShown

\* Fetches of any page.
LEMMA AdminFetches ==
  ASSUME NEW S \in SUBSET AdminPageNames, NEW M, AdminShown(S),
         NEW a \in Reviewers, NEW p \in S,
         \/ Moderation(S, M)!Open(a, p) \/ Moderation(S, M)!Age(a, p)
         \/ Moderation(S, M)!Read(a, p) \/ Moderation(S, M)!Receive(a, p)
         \/ Moderation(S, M)!FailFetch(a, p) \/ Moderation(S, M)!Refetch(a)
  PROVE  AdminShown(S)' /\ AdminCacheStep(S)
<1> DEFINE k(o) == moderated[RowOf(o)]
           Changes(o, r) ==
             /\ o \in S
             /\ adminCache' = [adminCache EXCEPT ![a][o] = r]
             /\ Operation(adminCache[a][o], r, k(o).status, k(o).version)
<1>0. AdminTypes(S)
  BY DEF AdminShown
<1>1. PICK o, r : Changes(o, r)
  <2>1. CASE Moderation(S, M)!Open(a, p)
    <3>1. Changes(p, Q!Mounted(adminCache[a][p]))
      BY <2>1 DEF Operation, Moderation!Open, Moderation!Mounted, Moderation!Sent,
         Q!Mounted, Q!Sent
    <3> QED
      BY <3>1
  <2>2. CASE Moderation(S, M)!Age(a, p)
    <3>1. Changes(p, [adminCache[a][p] EXCEPT !.stale = TRUE])
      BY <2>2 DEF Operation, Moderation!Age
    <3> QED
      BY <3>1
  <2>3. CASE Moderation(S, M)!Read(a, p)
    <3>1. Changes(p, Q!ReadBy(adminCache[a][p], k(p).status, k(p).version))
      BY <2>3 DEF Operation, Moderation!Read, Moderation!ReadBy, Moderation!Kind, RowOf, Q!ReadBy
    <3> QED
      BY <3>1
  <2>4. CASE Moderation(S, M)!Receive(a, p)
    <3>1. Changes(p, Q!Received(adminCache[a][p]))
      BY <2>4 DEF Operation, Moderation!Receive, Moderation!Received, Moderation!Unfetched,
         Q!Received, Q!Unfetched
    <3> QED
      BY <3>1
  <2>5. CASE Moderation(S, M)!FailFetch(a, p)
    <3>1. Changes(p, Q!Failed(adminCache[a][p]))
      BY <2>5 DEF Operation, Moderation!FailFetch, Moderation!Failed, Q!Failed
    <3> QED
      BY <3>1
  <2>6. CASE Moderation(S, M)!Refetch(a)
    <3>1. Changes(adminPage[a], Q!Refetched(adminCache[a][adminPage[a]]))
      BY <1>0, <2>6 DEF Operation, AdminTypes, Moderation!Refetch, Moderation!Refetched,
         Moderation!Sent, Q!Refetched, Q!Sent
    <3> QED
      BY <3>1
  <2> QED
    BY <2>1, <2>2, <2>3, <2>4, <2>5, <2>6
<1>2. r \in Held(ModeratedStatuses) /\ QueryStep(adminCache[a][o], r, k(o).status, k(o).version)
  <2> DEFINE q == adminCache[a][o]
             s == k(o).status
             v == k(o).version
  <2>0. o \in S /\ RowOf(o) \in RowsOf(S)
    BY <1>1 DEF RowsOf
  <2>1. q \in Held(ModeratedStatuses) /\ Honest(q, s, v) /\ s \in ModeratedStatuses /\ v \in Nat
    BY <2>0 DEF AdminShown, AdminTypes
  <2>2. Operation(q, r, s, v)
    BY <1>1
  <2> HIDE DEF q, s, v
  <2>3. r \in Held(ModeratedStatuses) /\ QueryStep(q, r, s, v)
    BY <2>1, <2>2, OperationsAreSteps
  <2> QED
    BY <2>3 DEF q, s, v
<1>3. AdminCacheStep(S)
  <2>1. o \in S /\ adminCache' = [adminCache EXCEPT ![a][o] = r]
    BY <1>1
  <2>2. \A b \in Reviewers, n \in S :
          adminCache'[b][n] = IF b = a /\ n = o THEN r ELSE adminCache[b][n]
    BY <1>0, <2>1 DEF AdminTypes
  <2>3. adminCache' \in [Reviewers -> [S -> Held(ModeratedStatuses)]]
    BY <1>0, <1>2, <2>1 DEF AdminTypes
  <2>4. \A q, s, v : QueryStep(q, q, s, v)
    BY DEF QueryStep, Quiet
  <2> QED
    BY <1>2, <2>2, <2>3, <2>4 DEF AdminCacheStep
<1>4. UNCHANGED <<moderated, adminDialog, adminOwn>> /\ adminPage' \in [Reviewers -> S]
  BY <1>0 DEF AdminTypes, Moderation!Open, Moderation!Age, Moderation!Read, Moderation!Receive,
     Moderation!FailFetch, Moderation!Refetch
<1>5. AdminRowStep(S)
  BY <1>0, <1>4 DEF AdminTypes, AdminRowStep
<1>6. adminDialog' \in [Reviewers -> AdminDialog(S) \cup {NoAdminDialog}]
      /\ adminOwn' \in [Reviewers -> [RowsOf(S) -> Nat]]
  BY <1>0, <1>4 DEF AdminTypes
<1>7. ASSUME NEW b \in Reviewers
      PROVE  /\ ChosenOnData(b) /\ OwnStep(S, b)
             /\ adminDialog'[b].stage = "refused" => adminDialog'[b].on = "provider"
             /\ DecisionStands(adminDialog[b], moderated["provider"])'
  BY <1>4 DEF AdminShown, ChosenOnData, OwnStep, DecisionStands
<1> QED
  BY <1>3, <1>4, <1>5, <1>6, <1>7, AdminStepKeeps

\* What has been chosen stands: a row that changes has a new version.
LEMMA DecisionsStand ==
  ASSUME NEW S \in SUBSET AdminPageNames, AdminShown(S), AdminRowStep(S), NEW b \in Reviewers
  PROVE  DecisionStands(adminDialog[b], moderated'["provider"])
<1> DEFINE e == adminDialog[b]
<1> SUFFICES ASSUME e # NoAdminDialog, e.on = "provider"
             PROVE  DecisionStands(e, moderated'["provider"])
  BY DEF DecisionStands
<1>1. e \in AdminDialog(S)
  BY DEF AdminShown, AdminTypes
<1>2. e.seen \in Nat /\ "provider" \in S
  BY <1>1 DEF AdminDialog
<1>3. "provider" \in RowsOf(S)
  BY <1>2 DEF RowsOf, RowOf
<1>4. /\ moderated["provider"].version \in Nat /\ moderated'["provider"].version \in Nat
      /\ \/ moderated'["provider"] = moderated["provider"]
         \/ moderated'["provider"].version > moderated["provider"].version
  BY <1>3 DEF AdminShown, AdminTypes, AdminRowStep
<1>5. DecisionStands(e, moderated["provider"])
  BY DEF AdminShown
<1> HIDE DEF e
<1> QED
  BY <1>2, <1>4, <1>5 DEF DecisionStands

\* One administrator has another dialog, which the query it was opened on allows.
LEMMA AdminDialogStep ==
  ASSUME NEW S \in SUBSET AdminPageNames, AdminShown(S), AdminRowStep(S),
         UNCHANGED <<adminCache, adminPage, adminOwn>>,
         NEW a \in Reviewers, NEW d \in AdminDialog(S) \cup {NoAdminDialog},
         adminDialog' = [adminDialog EXCEPT ![a] = d],
         d # NoAdminDialog /\ d.action # "add" =>
           \/ /\ adminDialog[a] # NoAdminDialog
              /\ d.on = adminDialog[a].on /\ d.action = adminDialog[a].action
           \/ adminCache[a][d.on].loaded,
         d.stage = "refused" => d.on = "provider",
         DecisionStands(d, moderated'["provider"])
  PROVE  AdminShown(S)'
<1>0. AdminTypes(S)
  BY DEF AdminShown
<1>1. adminDialog'[a] = d /\ \A b \in Reviewers : b # a => adminDialog'[b] = adminDialog[b]
  BY <1>0 DEF AdminTypes
<1>2. adminDialog' \in [Reviewers -> AdminDialog(S) \cup {NoAdminDialog}]
  BY <1>0 DEF AdminTypes
<1>3. AdminCacheStep(S) /\ adminPage' \in [Reviewers -> S]
      /\ adminOwn' \in [Reviewers -> [RowsOf(S) -> Nat]]
  BY <1>0 DEF AdminTypes, AdminCacheStep, QueryStep, Quiet
<1>4. \A b \in Reviewers : DecisionStands(adminDialog[b], moderated'["provider"])
  BY DecisionsStand
<1>5. ASSUME NEW b \in Reviewers
      PROVE  /\ ChosenOnData(b) /\ OwnStep(S, b)
             /\ adminDialog'[b].stage = "refused" => adminDialog'[b].on = "provider"
             /\ DecisionStands(adminDialog[b], moderated["provider"])'
  BY <1>1, <1>4 DEF AdminShown, ChosenOnData, OwnStep
<1> QED
  BY <1>2, <1>3, <1>5, AdminStepKeeps

\* A dialog that is open or sent goes on with what was chosen.
LEMMA AdminDialogGoesOn ==
  ASSUME NEW S \in SUBSET AdminPageNames, AdminShown(S), AdminRowStep(S),
         UNCHANGED <<adminCache, adminPage, adminOwn>>,
         NEW a \in Reviewers, adminDialog[a] # NoAdminDialog,
         NEW stage \in {"open", "sent", "done", "refused"},
         adminDialog' = [adminDialog EXCEPT ![a].stage = stage],
         stage = "refused" => adminDialog[a].on = "provider",
         \A d \in AdminDialog(S) :
           /\ d.on = adminDialog[a].on /\ d.action = adminDialog[a].action
           /\ d.seen = adminDialog[a].seen /\ d.stage = stage
           => DecisionStands(d, moderated'["provider"])
  PROVE  AdminShown(S)'
<1> DEFINE d == [adminDialog[a] EXCEPT !.stage = stage]
<1>1. adminDialog[a] \in AdminDialog(S)
  BY DEF AdminShown, AdminTypes
<1>2. /\ d \in AdminDialog(S) /\ d.stage = stage /\ d.on = adminDialog[a].on
      /\ d.action = adminDialog[a].action /\ d.seen = adminDialog[a].seen
  BY <1>1 DEF AdminDialog
<1>3. adminDialog' = [adminDialog EXCEPT ![a] = d]
  OBVIOUS
<1> HIDE DEF d
<1>4. DecisionStands(d, moderated'["provider"])
  BY <1>2
<1> QED
  BY <1>2, <1>3, <1>4, AdminDialogStep

\* The transitions of a provider allow what its page offers, but for the approval of
\* an application that has not been taken into review.
LEMMA OfferedIsAllowed ==
  ASSUME NEW S, NEW M, NEW s, NEW action \in Lists!OfferedOnProvider(s),
         ~Moderation(S, M)!Allowed("provider", action, s)
  PROVE  action = "approve" /\ s = "submitted"
<1> USE DEF Moderation!Machine!CanTransition, Moderation!Machine!AllowedTransitions
<1>1. \/ s \in {"submitted", "under_review"} /\ action \in {"approve", "reject"}
      \/ s \in {"listed", "approved"} /\ action = "suspend"
      \/ s = "suspended" /\ action = "reinstate"
  BY DEF Lists!OfferedOnProvider
<1>2. CASE s \in {"submitted", "under_review"}
  BY <1>1, <1>2 DEF Moderation!Allowed, Moderation!Target
<1>3. CASE s \in {"listed", "approved", "suspended"}
  BY <1>1, <1>3 DEF Moderation!Allowed, Moderation!Target
<1> QED
  BY <1>1, <1>2, <1>3

LEMMA AdminServes ==
  ASSUME NEW S \in SUBSET AdminPageNames, NEW M, AdminShown(S), NEW a \in Reviewers,
         Moderation(S, M)!Serve(a)
  PROVE  AdminShown(S)'
<1> DEFINE d == adminDialog[a]
           k == RowOf(d.on)
<1>0. AdminTypes(S) /\ d # NoAdminDialog /\ UNCHANGED <<adminCache, adminPage, adminOwn>>
  BY DEF AdminShown, Moderation!Serve, NoAdminDialog
<1>1. /\ d \in AdminDialog(S) /\ d.on \in S /\ d.on # "providers" /\ d.seen \in Nat
      /\ k = d.on /\ k \in RowsOf(S) /\ Moderation(S, M)!Kind(d.on) = k
  BY <1>0 DEF AdminTypes, AdminDialog, RowOf, RowsOf, Moderation!Kind
<1>2. moderated[k].status \in ModeratedStatuses /\ moderated[k].version \in Nat
  BY <1>0, <1>1 DEF AdminTypes
<1>3. DecisionStands(d, moderated["provider"])
  BY DEF AdminShown
<1>4. CASE Moderation(S, M)!Allowed(k, d.action, moderated[k].status)
  <2> DEFINE w == [status |-> Moderation(S, M)!Target(k, d.action, moderated[k].status),
                   version |-> moderated[k].version + 1]
  <2>1. moderated' = [moderated EXCEPT ![k] = w]
        /\ adminDialog' = [adminDialog EXCEPT ![a].stage = "done"]
    BY <1>1, <1>4 DEF Moderation!Serve, Moderation!Written
  <2>2. Moderation(S, M)!Target(k, d.action, moderated[k].status) \in ModeratedStatuses
    BY <1>1, <1>2 DEF AdminDialog, Moderation!Target, ModeratedStatuses, Lists!UserStatus,
       Lists!ReviewStatus, Lists!Machine!ProviderStatus
  <2>3. w \in [status : ModeratedStatuses, version : Nat] /\ w.version = moderated[k].version + 1
    BY <1>2, <2>2
  <2> HIDE DEF w
  <2>4. moderated'[k] = w /\ \A j \in RowsOf(S) : j # k => moderated'[j] = moderated[j]
    BY <1>0, <1>1, <2>1 DEF AdminTypes
  <2>5. AdminRowStep(S)
    BY <1>0, <1>2, <2>1, <2>3, <2>4 DEF AdminTypes, AdminRowStep
  <2>6. ASSUME NEW e \in AdminDialog(S), e.on = d.on, e.seen = d.seen
        PROVE  DecisionStands(e, moderated'["provider"])
    BY <1>0, <1>1, <1>2, <1>3, <2>3, <2>4, <2>6 DEF DecisionStands
  <2> QED
    BY <1>0, <2>1, <2>5, <2>6, AdminDialogGoesOn
<1>5. CASE ~Moderation(S, M)!Allowed(k, d.action, moderated[k].status)
  <2>1. UNCHANGED moderated /\ adminDialog' = [adminDialog EXCEPT ![a].stage = "refused"]
    BY <1>1, <1>5 DEF Moderation!Serve
  <2>2. k = "provider" /\ d.on = "provider"
    BY <1>1, <1>5 DEF Moderation!Allowed
  <2>3. AdminRowStep(S)
    BY <1>0, <2>1 DEF AdminTypes, AdminRowStep
  <2>4. ASSUME NEW e \in AdminDialog(S), e.on = d.on, e.action = d.action, e.seen = d.seen
        PROVE  DecisionStands(e, moderated'["provider"])
    BY <1>0, <1>3, <1>5, <2>1, <2>2, <2>4, OfferedIsAllowed DEF DecisionStands
  <2> QED
    BY <1>0, <2>1, <2>2, <2>3, <2>4, AdminDialogGoesOn
<1> QED
  BY <1>4, <1>5

LEMMA AdminChooses ==
  ASSUME NEW S \in SUBSET AdminPageNames, NEW M, AdminShown(S), NEW a \in Reviewers,
         NEW action \in Moderation(S, M)!Actions, Moderation(S, M)!Choose(a, action)
  PROVE  AdminShown(S)'
<1> DEFINE p == adminPage[a]
           q == adminCache[a][p]
<1>0. AdminTypes(S) /\ p \in S /\ q \in Held(ModeratedStatuses)
  BY DEF AdminShown, AdminTypes
<1>1. PICK stage \in {"open", "sent"} :
        adminDialog' = [adminDialog EXCEPT ![a] =
          [action |-> action, on |-> p, seen |-> q.version, stage |-> stage]]
  BY DEF Moderation!Choose
<1> DEFINE d == [action |-> action, on |-> p, seen |-> q.version, stage |-> stage]
<1>2. action \in Moderation(S, M)!Offered(p, q)
      /\ UNCHANGED <<moderated, adminCache, adminPage, adminOwn>>
  BY DEF Moderation!Choose
<1>3. /\ p # "providers" /\ (action # "add" => q.loaded)
      /\ p = "provider" => q.loaded /\ action \in Lists!OfferedOnProvider(q.status)
  BY <1>0, <1>2 DEF AdminPageNames, Moderation!Offered, Moderation!OfferedOnProvider,
     Lists!OfferedOnProvider
<1>4. d \in AdminDialog(S) /\ d.on = p /\ d.action = action /\ d.seen = q.version /\ d.stage # "refused"
  BY <1>0, <1>3 DEF AdminDialog, Held, Moderation!Actions
<1>5. p = "provider" => Honest(q, moderated[p].status, moderated[p].version)
  BY <1>0 DEF AdminShown, RowOf
<1>6. adminDialog' = [adminDialog EXCEPT ![a] = d]
  BY <1>1
<1> HIDE DEF d, p, q
<1>7. DecisionStands(d, moderated'["provider"])
  BY <1>2, <1>3, <1>4, <1>5 DEF DecisionStands, Honest
<1>8. AdminRowStep(S)
  BY <1>0, <1>2 DEF AdminTypes, AdminRowStep
<1>9. action # "add" => adminCache[a][d.on].loaded
  BY <1>3, <1>4 DEF q
<1> QED
  BY <1>2, <1>4, <1>6, <1>7, <1>8, <1>9, AdminDialogStep

LEMMA AdminAnswers ==
  ASSUME NEW S \in SUBSET AdminPageNames, NEW M, AdminShown(S), NEW a \in Reviewers,
         \/ Moderation(S, M)!Confirm(a) \/ Moderation(S, M)!Dismiss(a) \/ Moderation(S, M)!Fail(a)
  PROVE  AdminShown(S)'
<1> DEFINE d == adminDialog[a]
<1>0. AdminTypes(S) /\ d # NoAdminDialog
      /\ UNCHANGED <<moderated, adminCache, adminPage, adminOwn>>
  BY DEF AdminShown, Moderation!Confirm, Moderation!Dismiss, Moderation!Fail, NoAdminDialog
<1>1. AdminRowStep(S) /\ DecisionStands(d, moderated'["provider"])
  BY <1>0 DEF AdminTypes, AdminRowStep, AdminShown
<1>2. CASE adminDialog' = [adminDialog EXCEPT ![a] = NoAdminDialog]
  BY <1>0, <1>1, <1>2, AdminDialogStep DEF NoAdminDialog, DecisionStands
<1>3. ASSUME NEW stage \in {"open", "sent"},
             adminDialog' = [adminDialog EXCEPT ![a].stage = stage]
      PROVE  AdminShown(S)'
  <2>1. ASSUME NEW e \in AdminDialog(S), e.on = d.on, e.action = d.action, e.seen = d.seen,
               e.stage = stage
        PROVE  DecisionStands(e, moderated'["provider"])
    BY <1>0, <1>1, <2>1 DEF DecisionStands
  <2> QED
    BY <1>0, <1>1, <1>3, <2>1, AdminDialogGoesOn, ZenonT(40)
<1> QED
  BY <1>2, <1>3 DEF Moderation!Confirm, Moderation!Dismiss, Moderation!Fail,
     Moderation!NoDialog, NoAdminDialog

LEMMA AdminElsewhere ==
  ASSUME NEW S \in SUBSET AdminPageNames, NEW M, AdminShown(S),
         \/ \E k \in Moderation(S, M)!Kinds : \E to \in Moderation(S, M)!StatusOf(k) :
              Moderation(S, M)!ChangeElsewhere(k, to)
         \/ UNCHANGED Moderation(S, M)!vars
  PROVE  AdminShown(S)'
<1>0. AdminTypes(S) /\ UNCHANGED <<adminCache, adminPage, adminDialog, adminOwn>>
  BY DEF AdminShown, Moderation!ChangeElsewhere, Moderation!vars
<1>1. AdminRowStep(S)
  <2>1. ASSUME NEW k \in Moderation(S, M)!Kinds, NEW to \in Moderation(S, M)!StatusOf(k),
               Moderation(S, M)!ChangeElsewhere(k, to)
        PROVE  AdminRowStep(S)
    <3> DEFINE w == [status |-> to, version |-> moderated[k].version + 1]
    <3>1. k \in RowsOf(S) /\ k \in {"users", "reviews", "provider"}
      BY DEF RowsOf, RowOf, AdminPageNames, Moderation!Kinds, Moderation!Kind
    <3>2. to \in ModeratedStatuses
      BY <3>1 DEF ModeratedStatuses, Moderation!StatusOf, Moderation!UserStatus,
         Moderation!ReviewStatus, Moderation!Machine!ProviderStatus, Lists!UserStatus,
         Lists!ReviewStatus, Lists!Machine!ProviderStatus
    <3>3. moderated[k].version \in Nat
      BY <1>0, <3>1 DEF AdminTypes
    <3>4. w \in [status : ModeratedStatuses, version : Nat] /\ w.version > moderated[k].version
      BY <3>2, <3>3
    <3>5. moderated' = [moderated EXCEPT ![k] = w]
      BY <2>1 DEF Moderation!ChangeElsewhere, Moderation!Written
    <3> HIDE DEF w
    <3> QED
      BY <1>0, <3>1, <3>4, <3>5 DEF AdminTypes, AdminRowStep
  <2>2. CASE UNCHANGED moderated
    BY <1>0, <2>2 DEF AdminTypes, AdminRowStep
  <2> QED
    BY <2>1, <2>2 DEF Moderation!vars
<1>2. AdminCacheStep(S)
  BY <1>0 DEF AdminTypes, AdminCacheStep, QueryStep, Quiet
<1>3. ASSUME NEW a \in Reviewers
      PROVE  /\ ChosenOnData(a) /\ OwnStep(S, a)
             /\ adminDialog'[a].stage = "refused" => adminDialog'[a].on = "provider"
             /\ DecisionStands(adminDialog[a], moderated["provider"])'
  BY <1>0, <1>1, DecisionsStand DEF AdminShown, ChosenOnData, OwnStep
<1> QED
  BY <1>0, <1>1, <1>2, <1>3, AdminStepKeeps DEF AdminTypes

\* Success, after which the list that was acted from fetches again.
LEMMA AdminSuccess ==
  ASSUME NEW S \in SUBSET AdminPageNames, NEW M, AdminShown(S), NEW a \in Reviewers,
         Moderation(S, M)!Succeed(a)
  PROVE  AdminShown(S)' /\ AdminCacheStep(S)
<1> DEFINE d == adminDialog[a]
           invalidated(q) ==
             IF Moderation(S, M)!InvalidatedBy(d.on, q)
             THEN Q!Invalidate(adminCache[a][q], adminPage[a] = q) ELSE adminCache[a][q]
           follows == d.action # "add" /\ adminPage[a] = d.on
<1>0. AdminTypes(S) /\ UNCHANGED <<moderated, adminPage>> /\ d # NoAdminDialog
  BY DEF AdminShown, Moderation!Succeed, NoAdminDialog
<1>1. /\ d \in AdminDialog(S) /\ d.on \in S /\ d.on # "providers"
      /\ RowOf(d.on) = d.on /\ d.on \in RowsOf(S) /\ Moderation(S, M)!Kind(d.on) = d.on
  BY <1>0 DEF AdminTypes, AdminDialog, RowOf, RowsOf, Moderation!Kind
<1>2. adminDialog' = [adminDialog EXCEPT ![a] = NoAdminDialog]
  BY DEF Moderation!Succeed, Moderation!NoDialog, NoAdminDialog
<1>3. adminCache' = [adminCache EXCEPT ![a] = [q \in S |-> invalidated(q)]]
  BY DEF Moderation!Succeed, Moderation!Invalidate, Moderation!Refetched, Moderation!Sent,
     Q!Invalidate, Q!Refetched, Q!Sent
<1>4. adminOwn' = IF follows THEN [adminOwn EXCEPT ![a][d.on] = moderated[d.on].version]
                  ELSE adminOwn
  BY <1>1 DEF Moderation!Succeed
<1>5. \A q \in S : /\ invalidated(q) \in Held(ModeratedStatuses)
                   /\ Quiet(adminCache[a][q], invalidated(q))
  <2> SUFFICES ASSUME NEW q \in S
               PROVE  /\ invalidated(q) \in Held(ModeratedStatuses)
                      /\ Quiet(adminCache[a][q], invalidated(q))
    OBVIOUS
  <2>1. adminCache[a][q] \in Held(ModeratedStatuses)
    BY <1>0 DEF AdminTypes
  <2> QED
    BY <2>1, OperationsAreQuiet
<1>6. follows /\ d.on \in {"users", "reviews"} =>
        CatchesUp(invalidated(d.on), moderated[d.on].version)
  <2> SUFFICES ASSUME follows, d.on \in {"users", "reviews"}
               PROVE  CatchesUp(invalidated(d.on), moderated[d.on].version)
    OBVIOUS
  <2>1. invalidated(d.on) = Q!Invalidate(adminCache[a][d.on], TRUE)
    BY DEF Moderation!InvalidatedBy
  <2>2. adminCache[a][d.on] \in Held(ModeratedStatuses) /\ adminCache[a][d.on].loaded
    BY <1>0, <1>1 DEF AdminShown, AdminTypes
  <2> QED
    BY <2>1, <2>2, InvalidationCatchesUp
<1> HIDE DEF invalidated
<1>7. /\ \A b \in Reviewers : b # a => adminCache'[b] = adminCache[b]
      /\ \A q \in S : adminCache'[a][q] = invalidated(q)
      /\ adminCache' \in [Reviewers -> [S -> Held(ModeratedStatuses)]]
  BY <1>0, <1>3, <1>5 DEF AdminTypes
<1>8. AdminCacheStep(S)
  BY <1>5, <1>7 DEF AdminCacheStep, QueryStep, Quiet
<1>9. AdminRowStep(S)
  BY <1>0 DEF AdminTypes, AdminRowStep
<1>10. adminOwn' \in [Reviewers -> [RowsOf(S) -> Nat]]
  BY <1>0, <1>1, <1>4 DEF AdminTypes
<1>11. ASSUME NEW b \in Reviewers, NEW k \in RowsOf(S)
       PROVE  \/ adminOwn'[b][k] = adminOwn[b][k]
              \/ b = a /\ k = d.on /\ follows /\ adminOwn'[b][k] = moderated[k].version
  BY <1>0, <1>1, <1>4 DEF AdminTypes
<1>12. ASSUME NEW b \in Reviewers
       PROVE  /\ ChosenOnData(b) /\ OwnStep(S, b)
              /\ adminDialog'[b].stage = "refused" => adminDialog'[b].on = "provider"
              /\ DecisionStands(adminDialog[b], moderated["provider"])'
  <2>1. adminDialog'[b] \in {NoAdminDialog, adminDialog[b]}
    BY <1>0, <1>2 DEF AdminTypes
  <2>2. OwnStep(S, b)
    BY <1>1, <1>6, <1>7, <1>11 DEF OwnStep
  <2>3. DecisionStands(adminDialog[b], moderated'["provider"])
    BY <1>9, DecisionsStand
  <2> QED
    BY <2>1, <2>2, <2>3 DEF AdminShown, ChosenOnData, DecisionStands, NoAdminDialog
<1>13. adminDialog' \in [Reviewers -> AdminDialog(S) \cup {NoAdminDialog}]
  BY <1>0, <1>2 DEF AdminTypes
<1> QED
  BY <1>0, <1>8, <1>9, <1>10, <1>12, <1>13, AdminStepKeeps DEF AdminTypes

\* With any administrators on any of the pages and any number of changes: a list shows
\* the outcome of what was done there, and the page of a provider is refused what it
\* offers only if the provider has changed, or was never taken into review.
LEMMA AdminPagesKeepUp ==
  ASSUME NEW S \in SUBSET AdminPageNames, NEW M
  PROVE  /\ Moderation(S, M)!Init => AdminShown(S)
         /\ AdminShown(S) /\ [Moderation(S, M)!Next]_(Moderation(S, M)!vars) => AdminShown(S)'
         /\ AdminShown(S) /\ S \subseteq {"users", "reviews"} => Moderation(S, M)!OwnActionShown
         /\ AdminShown(S) => Moderation(S, M)!OfferedIsValidOtherwise
<1>1. ASSUME Moderation(S, M)!Init
      PROVE  AdminShown(S)
  <2> DEFINE none(s) == [loaded |-> FALSE, status |-> s, version |-> 0, stale |-> TRUE,
                         fetch |-> "no", readStatus |-> s, readVersion |-> 0, failed |-> FALSE]
             first(k) == Moderation(S, M)!First(k)
  <2>1. \A k \in {"users", "reviews", "provider"} : first(k) \in ModeratedStatuses
    BY DEF Moderation!First, ModeratedStatuses, Lists!UserStatus, Lists!ReviewStatus,
       Lists!Machine!ProviderStatus
  <2>2. \A p \in S : RowOf(p) \in RowsOf(S) /\ RowOf(p) \in {"users", "reviews", "provider"}
    BY DEF RowOf, RowsOf, AdminPageNames
  <2>3. \A s \in ModeratedStatuses :
          none(s) \in Held(ModeratedStatuses) /\ Honest(none(s), s, 0) /\ CatchesUp(none(s), 0)
    BY DEF Held, Honest, CatchesUp, Q!Settled
  <2>4. \A k \in RowsOf(S) : k \in {"users", "reviews", "provider"}
    BY DEF RowOf, RowsOf, AdminPageNames
  <2>5. /\ moderated = [k \in RowsOf(S) |-> [status |-> first(k), version |-> 0]]
        /\ adminCache = [a \in Reviewers |-> [p \in S |-> none(first(RowOf(p)))]]
        /\ adminPage \in [Reviewers -> S]
        /\ adminDialog = [a \in Reviewers |-> NoAdminDialog]
        /\ adminOwn = [a \in Reviewers |-> [k \in RowsOf(S) |-> 0]]
    BY <1>1 DEF Moderation!Init, Moderation!Unfetched, Moderation!NoDialog, NoAdminDialog,
       Moderation!Kinds, Moderation!Kind, RowOf, RowsOf
  <2> HIDE DEF none, first
  <2>6. AdminTypes(S)
    BY <2>1, <2>2, <2>3, <2>4, <2>5 DEF AdminTypes
  <2>7. ASSUME NEW a \in Reviewers, NEW p \in S
        PROVE  /\ Honest(adminCache[a][p], moderated[RowOf(p)].status, moderated[RowOf(p)].version)
               /\ p \in {"users", "reviews"} => CatchesUp(adminCache[a][p], adminOwn[a][p])
               /\ adminDialog[a].on # p
    <3>1. p # "none"
      BY DEF AdminPageNames
    <3>2. /\ adminCache[a][p] = none(first(RowOf(p)))
          /\ moderated[RowOf(p)] = [status |-> first(RowOf(p)), version |-> 0]
          /\ adminOwn[a][RowOf(p)] = 0
          /\ adminDialog[a] = NoAdminDialog
      BY <2>2, <2>5
    <3>3. /\ Honest(none(first(RowOf(p))), first(RowOf(p)), 0)
          /\ CatchesUp(none(first(RowOf(p))), 0)
      BY <2>1, <2>2, <2>3
    <3>4. p \in {"users", "reviews"} => RowOf(p) = p
      BY DEF RowOf
    <3> QED
      BY <3>1, <3>2, <3>3, <3>4 DEF NoAdminDialog
  <2>8. ASSUME NEW a \in Reviewers
        PROVE  /\ \A k \in RowsOf(S) : adminOwn[a][k] <= moderated[k].version
               /\ adminDialog[a].stage # "refused"
               /\ DecisionStands(adminDialog[a], moderated["provider"])
    BY <2>5 DEF DecisionStands, NoAdminDialog
  <2>9. ASSUME NEW a \in Reviewers
        PROVE  /\ \A k \in RowsOf(S) : adminOwn[a][k] <= moderated[k].version
               /\ \A p \in S :
                    /\ Honest(adminCache[a][p], moderated[RowOf(p)].status,
                              moderated[RowOf(p)].version)
                    /\ p \in {"users", "reviews"} => CatchesUp(adminCache[a][p], adminOwn[a][p])
                    /\ adminDialog[a].on = p /\ adminDialog[a].action # "add" =>
                         adminCache[a][p].loaded
               /\ adminDialog[a].stage = "refused" => adminDialog[a].on = "provider"
               /\ DecisionStands(adminDialog[a], moderated["provider"])
    <3>1. \A k \in RowsOf(S) : adminOwn[a][k] <= moderated[k].version
      BY <2>8
    <3>2. ASSUME NEW p \in S
          PROVE  /\ Honest(adminCache[a][p], moderated[RowOf(p)].status,
                           moderated[RowOf(p)].version)
                 /\ p \in {"users", "reviews"} => CatchesUp(adminCache[a][p], adminOwn[a][p])
                 /\ adminDialog[a].on = p /\ adminDialog[a].action # "add" =>
                      adminCache[a][p].loaded
      BY <2>7
    <3>3. /\ adminDialog[a].stage = "refused" => adminDialog[a].on = "provider"
          /\ DecisionStands(adminDialog[a], moderated["provider"])
      BY <2>8
    <3> QED
      BY <3>1, <3>2, <3>3
  <2> HIDE DEF AdminTypes
  <2> QED
    BY <2>6, <2>9 DEF AdminShown
<1>2. AdminShown(S) /\ [Moderation(S, M)!Next]_(Moderation(S, M)!vars) => AdminShown(S)'
  <2> SUFFICES ASSUME AdminShown(S), [Moderation(S, M)!Next]_(Moderation(S, M)!vars)
               PROVE  AdminShown(S)'
    OBVIOUS
  <2>1. CASE \E a \in Reviewers, p \in S :
               \/ Moderation(S, M)!Open(a, p) \/ Moderation(S, M)!Age(a, p)
               \/ Moderation(S, M)!Read(a, p) \/ Moderation(S, M)!Receive(a, p)
               \/ Moderation(S, M)!FailFetch(a, p)
    BY <2>1, AdminFetches
  <2>2. CASE \E a \in Reviewers : Moderation(S, M)!Refetch(a)
    <3>1. PICK a \in Reviewers : Moderation(S, M)!Refetch(a)
      BY <2>2
    <3>2. adminPage[a] \in S
      BY DEF AdminShown, AdminTypes
    <3> QED
      BY <3>1, <3>2, AdminFetches
  <2>3. CASE \E a \in Reviewers :
               \/ Moderation(S, M)!Confirm(a) \/ Moderation(S, M)!Dismiss(a)
               \/ Moderation(S, M)!Fail(a)
    BY <2>3, AdminAnswers
  <2>4. CASE \E a \in Reviewers : Moderation(S, M)!Serve(a)
    BY <2>4, AdminServes
  <2>5. CASE \E a \in Reviewers : Moderation(S, M)!Succeed(a)
    BY <2>5, AdminSuccess
  <2>6. CASE \E a \in Reviewers, action \in Moderation(S, M)!Actions :
               Moderation(S, M)!Choose(a, action)
    BY <2>6, AdminChooses
  <2>7. CASE \E k \in Moderation(S, M)!Kinds : \E to \in Moderation(S, M)!StatusOf(k) :
               Moderation(S, M)!ChangeElsewhere(k, to)
    BY <2>7, AdminElsewhere
  <2>8. CASE UNCHANGED Moderation(S, M)!vars
    BY <2>8, AdminElsewhere
  <2> QED
    BY <2>1, <2>2, <2>3, <2>4, <2>5, <2>6, <2>7, <2>8 DEF Moderation!Next
<1>3. AdminShown(S) /\ S \subseteq {"users", "reviews"} => Moderation(S, M)!OwnActionShown
  BY DEF AdminShown, AdminTypes, CatchesUp, Moderation!OwnActionShown, Moderation!Settled,
     Moderation!Kind, Q!Settled
<1>4. AdminShown(S) => Moderation(S, M)!OfferedIsValidOtherwise
  BY DEF AdminShown, DecisionStands, NoAdminDialog, Moderation!OfferedIsValidOtherwise,
     Moderation!Kind
<1> QED
  BY <1>1, <1>2, <1>3, <1>4

-----------------------------------------------------------------------------
(* Onboarding                                                              *)

OwnerRow ==
  [status : Onboarding!Machine!ProviderStatus, filled : SUBSET Onboarding!Fields,
   documents : SUBSET Onboarding!DocumentTypes, services : Onboarding!ServiceStates,
   version : Nat]

\* The inductive invariant: whoever waits for the answer to a submission is on the
\* page, with data, so that the page fetches again once it has succeeded.
SubmissionShown ==
  /\ provider \in OwnerRow
  /\ profile \in Held(Onboarding!Profile)
  /\ shown \in BOOLEAN
  /\ mine \in Clicks \cup {None}
  /\ submitted \in Nat /\ submitted <= provider.version
  /\ Honest(profile, Onboarding!ProfileOf(provider), provider.version)
  /\ CatchesUp(profile, submitted)
  /\ mine # None => shown /\ profile.loaded

\* While the row stays, the invariant holds of whatever React Query does.
LEMMA ProfileStepKeeps ==
  ASSUME SubmissionShown, Operation(profile, profile', Onboarding!ProfileOf(provider), provider.version)
  PROVE  /\ profile' \in Held(Onboarding!Profile)
         /\ Honest(profile', Onboarding!ProfileOf(provider), provider.version)
         /\ CatchesUp(profile', submitted)
         /\ profile.loaded => profile'.loaded
<1>1. /\ profile \in Held(Onboarding!Profile) /\ provider.version \in Nat
      /\ submitted \in Nat /\ submitted <= provider.version
      /\ Honest(profile, Onboarding!ProfileOf(provider), provider.version)
      /\ CatchesUp(profile, submitted)
  BY DEF SubmissionShown, OwnerRow
<1>2. Onboarding!ProfileOf(provider) \in Onboarding!Profile
  BY DEF SubmissionShown, OwnerRow, Onboarding!ProfileOf, Onboarding!Profile
<1> DEFINE s == Onboarding!ProfileOf(provider)
           v == provider.version
<1> HIDE DEF s, v
<1>3. /\ profile' \in Held(Onboarding!Profile)
      /\ QueryStep(profile, profile', s, v)
  BY <1>1, <1>2, OperationsAreSteps DEF s, v
<1>4. /\ Honest(profile', s, v)
      /\ CatchesUp(profile, submitted) => CatchesUp(profile', submitted)
      /\ profile.loaded => profile'.loaded
  BY <1>1, <1>2, <1>3, QueryStepKeeps DEF s, v
<1> QED
  BY <1>1, <1>3, <1>4 DEF s, v

LEMMA ProfileFetches ==
  ASSUME SubmissionShown,
         \/ Onboarding!Enter \/ Onboarding!Leave \/ Onboarding!Age \/ Onboarding!Read
         \/ Onboarding!Receive \/ Onboarding!FailFetch \/ Onboarding!Retry
         \/ Onboarding!FetchLists \/ UNCHANGED Onboarding!vars
  PROVE  SubmissionShown'
<1> USE DEF Onboarding!vars
<1>1. CASE \/ Onboarding!Enter \/ Onboarding!Age \/ Onboarding!Read \/ Onboarding!Receive
           \/ Onboarding!FailFetch \/ Onboarding!Retry
  <2>1. /\ Operation(profile, profile', Onboarding!ProfileOf(provider), provider.version)
        /\ provider' = provider /\ submitted' = submitted /\ mine' = mine
        /\ shown' \in BOOLEAN /\ (shown => shown')
    BY <1>1 DEF SubmissionShown, Operation, Onboarding!Enter, Onboarding!Age, Onboarding!Read,
       Onboarding!Receive, Onboarding!FailFetch, Onboarding!Retry, Onboarding!Mounted,
       Onboarding!ReadBy, Onboarding!Received, Onboarding!Failed, Onboarding!Refetched,
       Onboarding!Sent, Onboarding!Unfetched, Q!Mounted, Q!ReadBy, Q!Received, Q!Failed,
       Q!Refetched, Q!Sent, Q!Unfetched
  <2> QED
    BY <2>1, ProfileStepKeeps DEF SubmissionShown
<1>2. CASE Onboarding!Leave
  <2>1. /\ provider' = provider /\ profile' = profile
        /\ shown' = FALSE /\ mine' = None /\ submitted' = 0
    BY <1>2 DEF Onboarding!Leave
  <2>2. 0 <= provider.version /\ CatchesUp(profile, 0)
    BY DEF SubmissionShown, OwnerRow, Held, CatchesUp
  <2> QED
    BY <2>1, <2>2 DEF SubmissionShown
<1>3. CASE Onboarding!FetchLists \/ UNCHANGED Onboarding!vars
  BY <1>3 DEF SubmissionShown, Onboarding!FetchLists
<1> QED
  BY <1>1, <1>2, <1>3

LEMMA OwnerRowChanges ==
  ASSUME NEW r \in OwnerRow, NEW n \in Nat, NEW q,
         \/ \E s \in Onboarding!Machine!ProviderStatus :
              q = [r EXCEPT !.status = s, !.version = n]
         \/ \E f \in SUBSET Onboarding!Fields : q = [r EXCEPT !.filled = f, !.version = n]
         \/ \E d \in SUBSET Onboarding!DocumentTypes :
              q = [r EXCEPT !.documents = d, !.version = n]
         \/ \E v \in Onboarding!ServiceStates : q = [r EXCEPT !.services = v, !.version = n]
  PROVE  q \in OwnerRow /\ q.version = n
BY DEF OwnerRow

LEMMA ApplicationSteps ==
  ASSUME SubmissionShown,
         \/ Onboarding!Edit
         \/ \E c \in Clicks : Onboarding!Click(c) \/ Onboarding!Serve(c)
         \/ \E to \in Onboarding!Machine!ProviderStatus : Onboarding!Moderate(to)
  PROVE  SubmissionShown'
<1>1. CASE \E c \in Clicks : Onboarding!Click(c)
  BY <1>1 DEF SubmissionShown, Onboarding!Click, Onboarding!Offered
<1>2. CASE \/ Onboarding!Edit
           \/ \E c \in Clicks : Onboarding!Serve(c)
           \/ \E to \in Onboarding!Machine!ProviderStatus : Onboarding!Moderate(to)
  <2> DEFINE next == provider.version + 1
  <2>1. /\ \/ provider' = provider
           \/ provider' \in OwnerRow /\ provider'.version = next
        /\ UNCHANGED <<profile, shown, mine, submitted>>
    <3>0. provider \in OwnerRow /\ next \in Nat
      BY SMTT(30) DEF SubmissionShown, OwnerRow
    <3> HIDE DEF next
    <3>1. CASE Onboarding!Edit
      <4>1. UNCHANGED <<profile, shown, mine, submitted>>
        BY <3>1 DEF Onboarding!Edit
      <4>2. CASE \E f \in SUBSET Onboarding!Fields :
                   provider' = [provider EXCEPT !.filled = f, !.version = next]
        BY <3>0, <4>1, <4>2, OwnerRowChanges
      <4>3. CASE \E d \in SUBSET Onboarding!DocumentTypes :
                   provider' = [provider EXCEPT !.documents = d, !.version = next]
        BY <3>0, <4>1, <4>3, OwnerRowChanges
      <4>4. CASE \E v \in Onboarding!ServiceStates :
                   provider' = [provider EXCEPT !.services = v, !.version = next]
        BY <3>0, <4>1, <4>4, OwnerRowChanges
      <4>5. CASE \E t \in Onboarding!DocumentTypes :
                   \/ provider' = [provider EXCEPT !.documents = @ \cup {t}, !.version = next]
                   \/ provider' = [provider EXCEPT !.documents = @ \ {t}, !.version = next]
        <5>1. PICK t \in Onboarding!DocumentTypes :
                \/ provider' = [provider EXCEPT !.documents = @ \cup {t}, !.version = next]
                \/ provider' = [provider EXCEPT !.documents = @ \ {t}, !.version = next]
          BY <4>5
        <5>2. /\ provider.documents \cup {t} \in SUBSET Onboarding!DocumentTypes
              /\ provider.documents \ {t} \in SUBSET Onboarding!DocumentTypes
          BY <3>0 DEF OwnerRow
        <5> QED
          BY <4>3, <5>1, <5>2
      <4> QED
        BY <3>1, <4>1, <4>2, <4>4, <4>5 DEF Onboarding!Edit, next
    <3>2. CASE \E c \in Clicks : Onboarding!Serve(c)
      <4> DEFINE filed == [provider EXCEPT !.status = "submitted", !.version = next]
      <4>1. /\ UNCHANGED <<profile, shown, mine, submitted>>
            /\ provider' = provider \/ provider' = filed
        BY <3>2, SMTT(30) DEF Onboarding!Serve, Onboarding!Submitted, next
      <4>2. filed \in OwnerRow /\ filed.version = next
        BY <3>0, OwnerRowChanges DEF Onboarding!Machine!ProviderStatus
      <4> HIDE DEF filed
      <4> QED
        BY <4>1, <4>2
    <3>3. CASE \E to \in Onboarding!Machine!ProviderStatus : Onboarding!Moderate(to)
      <4>1. PICK to \in Onboarding!Machine!ProviderStatus :
              /\ UNCHANGED <<profile, shown, mine, submitted>>
              /\ provider' = [provider EXCEPT !.status = to, !.version = next]
        BY <3>3 DEF Onboarding!Moderate, next
      <4> QED
        BY <3>0, <4>1, OwnerRowChanges
    <3> QED
      BY <1>2, <3>1, <3>2, <3>3
  <2> QED
    <3>1. CASE provider' = provider
      BY <2>1, <3>1 DEF SubmissionShown
    <3>2. CASE provider' \in OwnerRow /\ provider'.version = next
      <4>1. /\ provider.version \in Nat /\ profile \in Held(Onboarding!Profile)
            /\ submitted \in Nat /\ submitted <= provider.version
            /\ Honest(profile, Onboarding!ProfileOf(provider), provider.version)
        BY DEF SubmissionShown, OwnerRow
      <4>2. /\ Honest(profile, Onboarding!ProfileOf(provider'), provider'.version)
            /\ submitted <= provider'.version
        BY <3>2, <4>1 DEF Honest, Held
      <4> QED
        BY <2>1, <3>2, <4>2 DEF SubmissionShown
    <3> QED
      BY <2>1, <3>1, <3>2
<1> QED
  BY <1>1, <1>2

LEMMA SubmissionAnswered ==
  ASSUME None \notin Clicks, SubmissionShown, NEW c \in Clicks,
         Onboarding!Succeed(c) \/ Onboarding!Fail(c)
  PROVE  SubmissionShown'
<1>1. CASE Onboarding!Fail(c)
  BY <1>1 DEF SubmissionShown, Onboarding!Fail, Onboarding!Free
<1>2. CASE Onboarding!Succeed(c)
  <2>1. /\ provider' = provider /\ shown' = shown /\ c # None
        /\ mine' = IF mine = c THEN None ELSE mine
        /\ submitted' = IF mine = c THEN provider.version ELSE submitted
        /\ profile' = Q!Invalidate(profile, shown)
    BY <1>2 DEF Onboarding!Succeed, Onboarding!Free, Onboarding!AfterSubmission,
       Onboarding!Invalidate, Onboarding!Refetched, Onboarding!Sent, Q!Invalidate,
       Q!Refetched, Q!Sent
  <2>2. Operation(profile, profile', Onboarding!ProfileOf(provider), provider.version)
    BY <2>1 DEF SubmissionShown, Operation, Q!Invalidate
  <2>3. /\ profile' \in Held(Onboarding!Profile)
        /\ Honest(profile', Onboarding!ProfileOf(provider), provider.version)
        /\ CatchesUp(profile', submitted)
        /\ profile.loaded => profile'.loaded
    BY <2>2, ProfileStepKeeps
  <2>4. CASE mine = c
    <3>1. shown = TRUE /\ profile.loaded /\ profile \in Held(Onboarding!Profile)
      BY <2>1, <2>4 DEF SubmissionShown
    <3>2. CatchesUp(Q!Invalidate(profile, TRUE), provider.version)
      BY <3>1, InvalidationCatchesUp
    <3>3. CatchesUp(profile', provider.version)
      BY <2>1, <3>1, <3>2
    <3>4. submitted' = provider.version /\ mine' = None
      BY <2>1, <2>4
    <3>5. provider.version \in Nat /\ provider.version <= provider.version
      BY DEF SubmissionShown, OwnerRow
    <3>6. CatchesUp(profile', submitted')
      BY <3>3, <3>4
    <3> QED
      BY <2>1, <2>3, <3>1, <3>4, <3>5, <3>6 DEF SubmissionShown
  <2>5. CASE mine # c
    BY <2>1, <2>3, <2>5 DEF SubmissionShown
  <2> QED
    BY <2>4, <2>5
<1> QED
  BY <1>1, <1>2

\* With any number of submissions and of changes: the page of the owner shows the
\* outcome of a submission; and it offers to submit whatever is accepted, which
\* compares the preconditions of both sides and depends on no step.
LEMMA OwnersKeepUp ==
  ASSUME None \notin Clicks
  PROVE  /\ Onboarding!Init => SubmissionShown
         /\ SubmissionShown /\ [Onboarding!Next]_(Onboarding!vars) => SubmissionShown'
         /\ SubmissionShown => Onboarding!OwnSubmissionShown
         /\ SubmissionShown => Onboarding!NobodyIsLockedOut
<1>1. Onboarding!Init => SubmissionShown
  <2> SUFFICES ASSUME Onboarding!Init
               PROVE  SubmissionShown
    OBVIOUS
  <2>1. /\ provider \in OwnerRow /\ provider.version = 0
        /\ shown = FALSE /\ mine = None /\ submitted = 0
    BY DEF OwnerRow, Onboarding!Init, Onboarding!Fields, Onboarding!DocumentTypes,
       Onboarding!ServiceStates, Onboarding!Machine!ProviderStatus
  <2>2. Onboarding!ProfileOf(provider) \in Onboarding!Profile
    BY <2>1 DEF OwnerRow, Onboarding!ProfileOf, Onboarding!Profile
  <2>3. profile = Onboarding!Unfetched(Onboarding!ProfileOf(provider))
    BY DEF Onboarding!Init
  <2>4. /\ profile \in Held(Onboarding!Profile)
        /\ Honest(profile, Onboarding!ProfileOf(provider), provider.version)
        /\ CatchesUp(profile, submitted)
    <3> DEFINE s == Onboarding!ProfileOf(provider)
    <3>1. profile = [loaded |-> FALSE, status |-> s, version |-> 0, stale |-> TRUE,
                     fetch |-> "no", readStatus |-> s, readVersion |-> 0, failed |-> FALSE]
      BY <2>3 DEF Onboarding!Unfetched
    <3> HIDE DEF s
    <3>2. s \in Onboarding!Profile
      BY <2>2 DEF s
    <3> QED
      BY <3>1, <3>2 DEF Held, Honest, CatchesUp, Q!Settled
  <2>5. submitted \in Nat /\ submitted <= provider.version
    BY <2>1
  <2> QED
    BY <2>1, <2>4, <2>5 DEF SubmissionShown
<1>2. SubmissionShown /\ [Onboarding!Next]_(Onboarding!vars) => SubmissionShown'
  BY ProfileFetches, ApplicationSteps, SubmissionAnswered DEF Onboarding!Next
<1>3. SubmissionShown => Onboarding!OwnSubmissionShown
  BY DEF SubmissionShown, CatchesUp, Onboarding!OwnSubmissionShown, Onboarding!Settled,
     Q!Settled
<1>4. SubmissionShown => Onboarding!NobodyIsLockedOut
  BY SMTT(30) DEF SubmissionShown, OwnerRow, Onboarding!NobodyIsLockedOut, Onboarding!UpToDate,
     Onboarding!Accepts, Onboarding!Eligible, Onboarding!Offered, Onboarding!Settled,
     Onboarding!AlreadySubmitted, Onboarding!IsFullyCompliant, Onboarding!ProfileOf,
     Onboarding!ListsOf, Onboarding!Fields, Onboarding!DocumentTypes,
     Onboarding!Machine!CanTransition, Onboarding!Machine!AllowedTransitions,
     Onboarding!Machine!ProviderStatus
<1> QED
  BY <1>1, <1>2, <1>3, <1>4

-----------------------------------------------------------------------------
(* The instances                                                           *)

\* The booking pages of Browser are among those proved about.
LEMMA BookingsOfBrowser ==
  /\ Traveler!Init => Pages({"traveler"}, {"accepted"}, FALSE)!Init
  /\ [Traveler!Next]_(Traveler!vars)
       => [Pages({"traveler"}, {"accepted"}, FALSE)!Next]_(
             Pages({"traveler"}, {"accepted"}, FALSE)!vars)
  /\ Pages({"traveler"}, {"accepted"}, FALSE)!OwnActionShown => Traveler!OwnActionShown
  /\ ProviderBookings!Init => Pages({"provider"}, Traveler!Status, TRUE)!Init
  /\ [ProviderBookings!Next]_(ProviderBookings!vars)
       => [Pages({"provider"}, Traveler!Status, TRUE)!Next]_(
             Pages({"provider"}, Traveler!Status, TRUE)!vars)
  /\ Pages({"provider"}, Traveler!Status, TRUE)!OwnActionShown
       => ProviderBookings!OwnActionShown
  /\ Pages({"provider"}, Traveler!Status, TRUE)!RefusedOnlyWhenStale
       => ProviderBookings!RefusedOnlyWhenStale
<1> USE DEF
      Pages!Init, Pages!Pages, Pages!Sent, Pages!Unfetched, Pages!Hands, Pages!NoDialog,
      Pages!Next, Pages!Open, Pages!Who, Pages!Mounted, Pages!server, Pages!Age, Pages!Read,
      Pages!ReadBy, Pages!Receive, Pages!Received, Pages!FailFetch, Pages!Failed,
      Pages!Refetch, Pages!Shown, Pages!Refetched, Pages!Confirm, Pages!Dismiss,
      Pages!Serve, Pages!Accepted, Pages!ValidateTransition, Pages!CanTransition,
      Pages!AllowedTransitions, Pages!ActorPermissions, Pages!Role, Pages!RequiresReason,
      Pages!Target, Pages!ActsAs, Pages!Succeed, Pages!Joins, Pages!ActingPage,
      Pages!AfterSuccess, Pages!Invalidate, Pages!Fail, Pages!Actions, Pages!Choose,
      Pages!Offered, Pages!Displayed, Pages!OfferedToTraveler, Pages!OfferedByProvider,
      Pages!OfferedByAdmin, Pages!GivesReason, Pages!ChangeElsewhere, Pages!Webhook,
      Pages!DayBefore, Pages!OpenPayment, Pages!CreateIntent, Pages!FailIntent, Pages!Pay,
      Pages!ClosePayment, Pages!vars, Pages!OwnActionShown, Pages!Settled,
      Pages!RefusedOnlyWhenStale
<1>1. /\ Traveler!Init => Pages({"traveler"}, {"accepted"}, FALSE)!Init
      /\ [Traveler!Next]_(Traveler!vars)
           => [Pages({"traveler"}, {"accepted"}, FALSE)!Next]_(
                 Pages({"traveler"}, {"accepted"}, FALSE)!vars)
      /\ Pages({"traveler"}, {"accepted"}, FALSE)!OwnActionShown => Traveler!OwnActionShown
  BY DEF
      Traveler!Init, Traveler!Pages, Traveler!Sent, Traveler!Unfetched, Traveler!Hands,
      Traveler!NoDialog, Traveler!Next, Traveler!Open, Traveler!Who, Traveler!Mounted,
      Traveler!server, Traveler!Age, Traveler!Read, Traveler!ReadBy, Traveler!Receive,
      Traveler!Received, Traveler!FailFetch, Traveler!Failed, Traveler!Refetch,
      Traveler!Shown, Traveler!Refetched, Traveler!Confirm, Traveler!Dismiss,
      Traveler!Serve, Traveler!Accepted, Traveler!ValidateTransition,
      Traveler!CanTransition, Traveler!AllowedTransitions, Traveler!ActorPermissions,
      Traveler!Role, Traveler!RequiresReason, Traveler!Target, Traveler!ActsAs,
      Traveler!Succeed, Traveler!Joins, Traveler!ActingPage, Traveler!AfterSuccess,
      Traveler!Invalidate, Traveler!Fail, Traveler!Actions, Traveler!Choose,
      Traveler!Offered, Traveler!Displayed, Traveler!OfferedToTraveler,
      Traveler!OfferedByProvider, Traveler!OfferedByAdmin, Traveler!GivesReason,
      Traveler!ChangeElsewhere, Traveler!Webhook, Traveler!DayBefore, Traveler!OpenPayment,
      Traveler!CreateIntent, Traveler!FailIntent, Traveler!Pay, Traveler!ClosePayment,
      Traveler!vars, Traveler!OwnActionShown, Traveler!Settled
<1>2. /\ ProviderBookings!Init => Pages({"provider"}, Traveler!Status, TRUE)!Init
      /\ [ProviderBookings!Next]_(ProviderBookings!vars)
           => [Pages({"provider"}, Traveler!Status, TRUE)!Next]_(
                 Pages({"provider"}, Traveler!Status, TRUE)!vars)
      /\ Pages({"provider"}, Traveler!Status, TRUE)!OwnActionShown
           => ProviderBookings!OwnActionShown
      /\ Pages({"provider"}, Traveler!Status, TRUE)!RefusedOnlyWhenStale
           => ProviderBookings!RefusedOnlyWhenStale
  BY ZenonT(40) DEF
      ProviderBookings!Init, ProviderBookings!Pages, ProviderBookings!Sent,
      ProviderBookings!Unfetched, ProviderBookings!Hands, ProviderBookings!NoDialog,
      ProviderBookings!Next, ProviderBookings!Open, ProviderBookings!Who,
      ProviderBookings!Mounted, ProviderBookings!server, ProviderBookings!Age,
      ProviderBookings!Read, ProviderBookings!ReadBy, ProviderBookings!Receive,
      ProviderBookings!Received, ProviderBookings!FailFetch, ProviderBookings!Failed,
      ProviderBookings!Refetch, ProviderBookings!Shown, ProviderBookings!Refetched,
      ProviderBookings!Confirm, ProviderBookings!Dismiss, ProviderBookings!Serve,
      ProviderBookings!Accepted, ProviderBookings!ValidateTransition,
      ProviderBookings!CanTransition, ProviderBookings!AllowedTransitions,
      ProviderBookings!ActorPermissions, ProviderBookings!Role,
      ProviderBookings!RequiresReason, ProviderBookings!Target, ProviderBookings!ActsAs,
      ProviderBookings!Succeed, ProviderBookings!Joins, ProviderBookings!ActingPage,
      ProviderBookings!AfterSuccess, ProviderBookings!Invalidate, ProviderBookings!Fail,
      ProviderBookings!Actions, ProviderBookings!Choose, ProviderBookings!Offered,
      ProviderBookings!Displayed, ProviderBookings!OfferedToTraveler,
      ProviderBookings!OfferedByProvider, ProviderBookings!OfferedByAdmin,
      ProviderBookings!GivesReason, ProviderBookings!ChangeElsewhere,
      ProviderBookings!Webhook, ProviderBookings!DayBefore, ProviderBookings!OpenPayment,
      ProviderBookings!CreateIntent, ProviderBookings!FailIntent, ProviderBookings!Pay,
      ProviderBookings!ClosePayment, ProviderBookings!vars, ProviderBookings!OwnActionShown,
      ProviderBookings!Settled, ProviderBookings!RefusedOnlyWhenStale
<1> QED
  BY <1>1, <1>2, ZenonT(40)

\* Their menus and dialogs are theirs.
LEMMA HandsOfBrowsers ==
  /\ \A h \in BookingHands({"traveler"}) : OwnerOf(h) \in {"traveler"}
  /\ \A h \in BookingHands({"provider"}) : OwnerOf(h) \in {"provider"}
BY DEF BookingHands, OwnerOf

\* So are the pages of administrators.
LEMMA AdminsOfBrowser ==
  /\ Lists!Init => Moderation({"users", "reviews"}, ListChanges)!Init
  /\ [Lists!Next]_(Lists!vars)
       => [Moderation({"users", "reviews"}, ListChanges)!Next]_(
             Moderation({"users", "reviews"}, ListChanges)!vars)
  /\ Moderation({"users", "reviews"}, ListChanges)!OwnActionShown => Lists!OwnActionShown
  /\ Applications!Init => Moderation({"providers", "provider"}, ApplicationChanges)!Init
  /\ [Applications!Next]_(Applications!vars)
       => [Moderation({"providers", "provider"}, ApplicationChanges)!Next]_(
             Moderation({"providers", "provider"}, ApplicationChanges)!vars)
  /\ Moderation({"providers", "provider"}, ApplicationChanges)!OfferedIsValidOtherwise
       => Applications!OfferedIsValidOtherwise
  /\ Decisions!Init => Moderation({"provider"}, DecisionChanges)!Init
  /\ [Decisions!Next]_(Decisions!vars)
       => [Moderation({"provider"}, DecisionChanges)!Next]_(
             Moderation({"provider"}, DecisionChanges)!vars)
  /\ Moderation({"provider"}, DecisionChanges)!OfferedIsValidOtherwise
       => Decisions!OfferedIsValidOtherwise
<1> USE DEF
      Moderation!Init, Moderation!Unfetched, Moderation!NoDialog, Moderation!Kinds,
      Moderation!Kind, Moderation!First, Moderation!Next, Moderation!vars, Moderation!Open,
      Moderation!Age, Moderation!Read, Moderation!Receive, Moderation!FailFetch,
      Moderation!Refetch, Moderation!Confirm, Moderation!Dismiss, Moderation!Serve,
      Moderation!Succeed, Moderation!Fail, Moderation!Actions, Moderation!Choose,
      Moderation!StatusOf, Moderation!ChangeElsewhere, Moderation!Mounted,
      Moderation!ReadBy, Moderation!Received, Moderation!Failed, Moderation!Refetched,
      Moderation!Sent, Moderation!Invalidate, Moderation!InvalidatedBy, Moderation!Allowed,
      Moderation!Target, Moderation!Written, Moderation!Offered,
      Moderation!OfferedOnProvider, Moderation!OwnActionShown,
      Moderation!OfferedIsValidOtherwise, Moderation!Settled, Moderation!UserStatus,
      Moderation!ReviewStatus, Moderation!Machine!ProviderStatus,
      Moderation!Machine!CanTransition, Moderation!Machine!AllowedTransitions
<1>1. /\ Lists!Init => Moderation({"users", "reviews"}, ListChanges)!Init
      /\ [Lists!Next]_(Lists!vars)
           => [Moderation({"users", "reviews"}, ListChanges)!Next]_(
                 Moderation({"users", "reviews"}, ListChanges)!vars)
      /\ Moderation({"users", "reviews"}, ListChanges)!OwnActionShown => Lists!OwnActionShown
  BY ZenonT(40) DEF
      Lists!Init, Lists!Unfetched, Lists!NoDialog, Lists!Kinds, Lists!Kind, Lists!First,
      Lists!Next, Lists!vars, Lists!Open, Lists!Age, Lists!Read, Lists!Receive,
      Lists!FailFetch, Lists!Refetch, Lists!Confirm, Lists!Dismiss, Lists!Serve,
      Lists!Succeed, Lists!Fail, Lists!Actions, Lists!Choose, Lists!StatusOf,
      Lists!ChangeElsewhere, Lists!Mounted, Lists!ReadBy, Lists!Received, Lists!Failed,
      Lists!Refetched, Lists!Sent, Lists!Invalidate, Lists!InvalidatedBy, Lists!Allowed,
      Lists!Target, Lists!Written, Lists!Offered, Lists!OfferedOnProvider,
      Lists!OwnActionShown, Lists!Settled, Lists!UserStatus, Lists!ReviewStatus,
      Lists!Machine!ProviderStatus, Lists!Machine!CanTransition,
      Lists!Machine!AllowedTransitions
<1>2. /\ Applications!Init => Moderation({"providers", "provider"}, ApplicationChanges)!Init
      /\ [Applications!Next]_(Applications!vars)
           => [Moderation({"providers", "provider"}, ApplicationChanges)!Next]_(
                 Moderation({"providers", "provider"}, ApplicationChanges)!vars)
      /\ Moderation({"providers", "provider"}, ApplicationChanges)!OfferedIsValidOtherwise
           => Applications!OfferedIsValidOtherwise
  BY ZenonT(40) DEF
      Applications!Init, Applications!Unfetched, Applications!NoDialog, Applications!Kinds,
      Applications!Kind, Applications!First, Applications!Next, Applications!vars,
      Applications!Open, Applications!Age, Applications!Read, Applications!Receive,
      Applications!FailFetch, Applications!Refetch, Applications!Confirm,
      Applications!Dismiss, Applications!Serve, Applications!Succeed, Applications!Fail,
      Applications!Actions, Applications!Choose, Applications!StatusOf,
      Applications!ChangeElsewhere, Applications!Mounted, Applications!ReadBy,
      Applications!Received, Applications!Failed, Applications!Refetched, Applications!Sent,
      Applications!Invalidate, Applications!InvalidatedBy, Applications!Allowed,
      Applications!Target, Applications!Written, Applications!Offered,
      Applications!OfferedOnProvider, Applications!OfferedIsValidOtherwise,
      Applications!Settled, Applications!UserStatus, Applications!ReviewStatus,
      Applications!Machine!ProviderStatus, Applications!Machine!CanTransition,
      Applications!Machine!AllowedTransitions
<1>3. /\ Decisions!Init => Moderation({"provider"}, DecisionChanges)!Init
      /\ [Decisions!Next]_(Decisions!vars)
           => [Moderation({"provider"}, DecisionChanges)!Next]_(
                 Moderation({"provider"}, DecisionChanges)!vars)
      /\ Moderation({"provider"}, DecisionChanges)!OfferedIsValidOtherwise
           => Decisions!OfferedIsValidOtherwise
  BY DEF
      Decisions!Init, Decisions!Unfetched, Decisions!NoDialog, Decisions!Kinds,
      Decisions!Kind, Decisions!First, Decisions!Next, Decisions!vars, Decisions!Open,
      Decisions!Age, Decisions!Read, Decisions!Receive, Decisions!FailFetch,
      Decisions!Refetch, Decisions!Confirm, Decisions!Dismiss, Decisions!Serve,
      Decisions!Succeed, Decisions!Fail, Decisions!Actions, Decisions!Choose,
      Decisions!StatusOf, Decisions!ChangeElsewhere, Decisions!Mounted, Decisions!ReadBy,
      Decisions!Received, Decisions!Failed, Decisions!Refetched, Decisions!Sent,
      Decisions!Invalidate, Decisions!InvalidatedBy, Decisions!Allowed, Decisions!Target,
      Decisions!Written, Decisions!Offered, Decisions!OfferedOnProvider,
      Decisions!OfferedIsValidOtherwise, Decisions!Settled, Decisions!UserStatus,
      Decisions!ReviewStatus, Decisions!Machine!ProviderStatus,
      Decisions!Machine!CanTransition, Decisions!Machine!AllowedTransitions
<1> QED
  BY <1>1, <1>2, <1>3

-----------------------------------------------------------------------------
(* What the pages hold                                                     *)

\* The deadline, the webhook that is to come and the payment dialog.
PaymentTyped ==
  /\ late \in BOOLEAN
  /\ charged \in BOOLEAN
  /\ payment \in {"closed", "preparing", "checkout", "test", "success"}

LEMMA PaymentStaysTyped ==
  ASSUME NEW B, NEW E, NEW D
  PROVE  /\ Pages(B, E, D)!Init => PaymentTyped
         /\ PaymentTyped /\ [Pages(B, E, D)!Next]_(Pages(B, E, D)!vars) => PaymentTyped'
<1>1. Pages(B, E, D)!Init => PaymentTyped
  BY DEF Pages!Init, PaymentTyped
<1>2. ASSUME PaymentTyped, [Pages(B, E, D)!Next]_(Pages(B, E, D)!vars)
      PROVE  PaymentTyped'
  <2>1. CASE \E b \in B, p \in {"list", "detail"} :
               \/ Pages(B, E, D)!Open(b, p) \/ Pages(B, E, D)!Age(b, p)
               \/ Pages(B, E, D)!Read(b, p) \/ Pages(B, E, D)!Receive(b, p)
               \/ Pages(B, E, D)!FailFetch(b, p)
    BY <1>2, <2>1 DEF PaymentTyped, Pages!server, Pages!Open, Pages!Age, Pages!Read,
       Pages!Receive, Pages!FailFetch
  <2>2. CASE \/ \E b \in B : Pages(B, E, D)!Refetch(b)
             \/ \E h \in Pages(B, E, D)!Hands :
                  \/ Pages(B, E, D)!Confirm(h) \/ Pages(B, E, D)!Dismiss(h)
                  \/ Pages(B, E, D)!Serve(h) \/ Pages(B, E, D)!Succeed(h)
                  \/ Pages(B, E, D)!Fail(h)
                  \/ \E action \in Pages(B, E, D)!Actions, reason \in BOOLEAN :
                       Pages(B, E, D)!Choose(h, action, reason)
    BY <1>2, <2>2 DEF PaymentTyped, Pages!server, Pages!Refetch, Pages!Confirm, Pages!Dismiss,
       Pages!Serve, Pages!Succeed, Pages!Fail, Pages!Choose
  <2>3. CASE Pages(B, E, D)!ChangeElsewhere \/ Pages(B, E, D)!Webhook \/ Pages(B, E, D)!DayBefore
    BY <1>2, <2>3 DEF PaymentTyped, Pages!ChangeElsewhere, Pages!Webhook, Pages!DayBefore
  <2>4. CASE \/ Pages(B, E, D)!OpenPayment \/ Pages(B, E, D)!CreateIntent
             \/ Pages(B, E, D)!FailIntent \/ Pages(B, E, D)!Pay \/ Pages(B, E, D)!ClosePayment
    BY <1>2, <2>4 DEF PaymentTyped, Pages!server, Pages!OpenPayment, Pages!CreateIntent,
       Pages!FailIntent, Pages!Pay, Pages!ClosePayment
  <2>5. CASE UNCHANGED Pages(B, E, D)!vars
    BY <1>2, <2>5 DEF PaymentTyped, Pages!vars, Pages!server
  <2> QED
    BY <1>2, <2>1, <2>2, <2>3, <2>4, <2>5 DEF Pages!Next, Pages!Pages
<1> QED
  BY <1>1, <1>2

\* What an administrator may do on each page.
ActionsOn(p) ==
  CASE p = "provider" -> {"approve", "reject", "suspend", "reinstate"}
    [] p = "users" -> {"add", "suspend", "reactivate"}
    [] p = "reviews" -> {"hide", "publish"}
    [] OTHER -> {}

\* A row and the queries of it have statuses of its kind, and a dialog is about an
\* action of its page.
KindsKept(S) ==
  /\ \A k \in RowsOf(S) : moderated[k].status \in Lists!StatusOf(k)
  /\ \A a \in Reviewers :
       /\ \A p \in S : /\ adminCache[a][p].status \in Lists!StatusOf(RowOf(p))
                       /\ adminCache[a][p].readStatus \in Lists!StatusOf(RowOf(p))
       /\ adminDialog[a] # NoAdminDialog =>
            adminDialog[a].action \in ActionsOn(adminDialog[a].on)

\* A query has the statuses it had, or the one of the row.
LEMMA StatusesOfStep ==
  ASSUME NEW S, NEW q \in Held(S), NEW r, NEW s, NEW v, QueryStep(q, r, s, v), NEW T,
         q.status \in T, q.readStatus \in T, s \in T
  PROVE  r.status \in T /\ r.readStatus \in T
<1>1. CASE Quiet(q, r)
  BY <1>1 DEF Quiet
<1>2. CASE r = Q!ReadBy(q, s, v)
  BY <1>2 DEF Q!ReadBy, Held
<1>3. CASE r = Q!Received(q)
  BY <1>3 DEF Q!Received, Q!Unfetched
<1> QED
  BY <1>1, <1>2, <1>3 DEF QueryStep

LEMMA AdminQueriesStep ==
  ASSUME NEW S \in SUBSET AdminPageNames, NEW M, AdminShown(S),
         [Moderation(S, M)!Next]_(Moderation(S, M)!vars)
  PROVE  AdminCacheStep(S)
<1>0. AdminTypes(S)
  BY DEF AdminShown
<1>1. CASE \E a \in Reviewers, p \in S :
             \/ Moderation(S, M)!Open(a, p) \/ Moderation(S, M)!Age(a, p)
             \/ Moderation(S, M)!Read(a, p) \/ Moderation(S, M)!Receive(a, p)
             \/ Moderation(S, M)!FailFetch(a, p)
  BY <1>1, AdminFetches
<1>2. CASE \E a \in Reviewers : Moderation(S, M)!Refetch(a)
  <2>1. PICK a \in Reviewers : Moderation(S, M)!Refetch(a)
    BY <1>2
  <2>2. adminPage[a] \in S
    BY <1>0 DEF AdminTypes
  <2> QED
    BY <2>1, <2>2, AdminFetches
<1>3. CASE \E a \in Reviewers : Moderation(S, M)!Succeed(a)
  BY <1>3, AdminSuccess
<1>4. CASE UNCHANGED adminCache
  BY <1>0, <1>4 DEF AdminTypes, AdminCacheStep, QueryStep, Quiet
<1>5. \/ \E a \in Reviewers :
           \/ Moderation(S, M)!Confirm(a) \/ Moderation(S, M)!Dismiss(a)
           \/ Moderation(S, M)!Serve(a) \/ Moderation(S, M)!Fail(a)
           \/ \E action \in Moderation(S, M)!Actions : Moderation(S, M)!Choose(a, action)
      \/ \E k \in Moderation(S, M)!Kinds : \E to \in Moderation(S, M)!StatusOf(k) :
           Moderation(S, M)!ChangeElsewhere(k, to)
      \/ UNCHANGED Moderation(S, M)!vars
      => UNCHANGED adminCache
  BY DEF Moderation!Confirm, Moderation!Dismiss, Moderation!Serve, Moderation!Fail,
     Moderation!Choose, Moderation!ChangeElsewhere, Moderation!vars
<1> QED
  BY <1>1, <1>2, <1>3, <1>4, <1>5 DEF Moderation!Next

LEMMA RowsKeepKind ==
  ASSUME NEW S \in SUBSET AdminPageNames, NEW M, AdminShown(S), KindsKept(S),
         [Moderation(S, M)!Next]_(Moderation(S, M)!vars), NEW k \in RowsOf(S)
  PROVE  moderated'[k].status \in Lists!StatusOf(k)
<1>0. AdminTypes(S) /\ moderated[k].status \in Lists!StatusOf(k)
  BY DEF AdminShown, KindsKept
<1>1. ASSUME NEW j \in RowsOf(S), NEW s, moderated' = [moderated EXCEPT ![j] = s],
             s.status \in Lists!StatusOf(j)
      PROVE  moderated'[k].status \in Lists!StatusOf(k)
  <2>1. moderated'[k] = IF k = j THEN s ELSE moderated[k]
    BY <1>0, <1>1 DEF AdminTypes
  <2> QED
    BY <1>0, <1>1, <2>1
<1>2. CASE UNCHANGED moderated
  BY <1>0, <1>2
<1>3. ASSUME NEW a \in Reviewers, Moderation(S, M)!Serve(a)
      PROVE  moderated'[k].status \in Lists!StatusOf(k)
  <2> DEFINE d == adminDialog[a]
             s == moderated[d.on].status
             w == [status |-> Moderation(S, M)!Target(d.on, d.action, s),
                   version |-> moderated[d.on].version + 1]
  <2>1. d # NoAdminDialog
    BY <1>3 DEF Moderation!Serve, NoAdminDialog
  <2>2. d \in AdminDialog(S) /\ d.action \in ActionsOn(d.on)
    BY <1>0, <2>1 DEF AdminTypes, KindsKept
  <2>3. d.on \in {"users", "reviews", "provider"} /\ d.on \in RowsOf(S)
    BY <2>2 DEF AdminDialog, AdminPageNames, RowOf, RowsOf
  <2>4. UNCHANGED moderated \/ moderated' = [moderated EXCEPT ![d.on] = w]
    BY <1>3, <2>3 DEF Moderation!Serve, Moderation!Kind, Moderation!Written
  <2>5. s \in Lists!StatusOf(d.on)
    BY <2>3 DEF KindsKept
  <2>6. Moderation(S, M)!Target(d.on, d.action, s) \in Lists!StatusOf(d.on)
    BY <2>2, <2>3, <2>5 DEF ActionsOn, Moderation!Target, Lists!StatusOf, Lists!UserStatus,
       Lists!ReviewStatus, Lists!Machine!ProviderStatus
  <2>7. w.status \in Lists!StatusOf(d.on)
    BY <2>6
  <2> HIDE DEF w
  <2> QED
    BY <1>1, <1>2, <2>3, <2>4, <2>7
<1>4. ASSUME NEW j \in Moderation(S, M)!Kinds, NEW to \in Moderation(S, M)!StatusOf(j),
             Moderation(S, M)!ChangeElsewhere(j, to)
      PROVE  moderated'[k].status \in Lists!StatusOf(k)
  <2> DEFINE w == [status |-> to, version |-> moderated[j].version + 1]
  <2>1. j \in RowsOf(S) /\ j \in {"users", "reviews", "provider"}
    BY DEF RowsOf, RowOf, AdminPageNames, Moderation!Kinds, Moderation!Kind
  <2>2. moderated' = [moderated EXCEPT ![j] = w]
    BY <1>4 DEF Moderation!ChangeElsewhere, Moderation!Written
  <2>3. w.status \in Lists!StatusOf(j)
    BY <2>1 DEF Moderation!StatusOf, Moderation!UserStatus, Moderation!ReviewStatus,
       Moderation!Machine!ProviderStatus, Lists!StatusOf, Lists!UserStatus,
       Lists!ReviewStatus, Lists!Machine!ProviderStatus
  <2> HIDE DEF w
  <2> QED
    BY <1>1, <2>1, <2>2, <2>3
<1>5. \/ \E a \in Reviewers, p \in S :
           \/ Moderation(S, M)!Open(a, p) \/ Moderation(S, M)!Age(a, p)
           \/ Moderation(S, M)!Read(a, p) \/ Moderation(S, M)!Receive(a, p)
           \/ Moderation(S, M)!FailFetch(a, p)
      \/ \E a \in Reviewers :
           \/ Moderation(S, M)!Refetch(a) \/ Moderation(S, M)!Confirm(a)
           \/ Moderation(S, M)!Dismiss(a) \/ Moderation(S, M)!Succeed(a)
           \/ Moderation(S, M)!Fail(a)
           \/ \E action \in Moderation(S, M)!Actions : Moderation(S, M)!Choose(a, action)
      \/ UNCHANGED Moderation(S, M)!vars
      => UNCHANGED moderated
  BY DEF Moderation!Open, Moderation!Age, Moderation!Read, Moderation!Receive,
     Moderation!FailFetch, Moderation!Refetch, Moderation!Confirm, Moderation!Dismiss,
     Moderation!Succeed, Moderation!Fail, Moderation!Choose, Moderation!vars
<1> QED
  BY <1>2, <1>3, <1>4, <1>5 DEF Moderation!Next

LEMMA DialogsKeepKind ==
  ASSUME NEW S \in SUBSET AdminPageNames, NEW M, AdminShown(S), KindsKept(S),
         [Moderation(S, M)!Next]_(Moderation(S, M)!vars), NEW b \in Reviewers,
         adminDialog'[b] # NoAdminDialog
  PROVE  adminDialog'[b].action \in ActionsOn(adminDialog'[b].on)
<1> DEFINE OfPage(d) == d # NoAdminDialog => d.action \in ActionsOn(d.on)
<1>0. AdminTypes(S) /\ OfPage(adminDialog[b])
  BY DEF AdminShown, KindsKept
<1>1. ASSUME NEW a \in Reviewers, NEW d, adminDialog' = [adminDialog EXCEPT ![a] = d], OfPage(d)
      PROVE  OfPage(adminDialog'[b])
  <2>1. adminDialog'[b] = IF b = a THEN d ELSE adminDialog[b]
    BY <1>0, <1>1 DEF AdminTypes
  <2> QED
    BY <1>0, <1>1, <2>1
<1>2. CASE UNCHANGED adminDialog
  BY <1>0, <1>2
<1>3. ASSUME NEW a \in Reviewers, NEW stage \in {"open", "sent", "done", "refused"},
             adminDialog[a] # NoAdminDialog, adminDialog' = [adminDialog EXCEPT ![a].stage = stage]
      PROVE  OfPage(adminDialog'[b])
  <2> DEFINE d == [adminDialog[a] EXCEPT !.stage = stage]
  <2>1. adminDialog[a] \in AdminDialog(S) /\ adminDialog[a].action \in ActionsOn(adminDialog[a].on)
    BY <1>0, <1>3 DEF AdminTypes, KindsKept
  <2>2. d.action = adminDialog[a].action /\ d.on = adminDialog[a].on
    BY <2>1 DEF AdminDialog
  <2>3. adminDialog' = [adminDialog EXCEPT ![a] = d]
    BY <1>3
  <2>4. OfPage(d)
    BY <2>1, <2>2
  <2> HIDE DEF d, OfPage
  <2> QED
    BY <1>1, <2>3, <2>4
<1>4. ASSUME NEW a \in Reviewers, NEW action \in Moderation(S, M)!Actions,
             Moderation(S, M)!Choose(a, action)
      PROVE  OfPage(adminDialog'[b])
  <2> DEFINE p == adminPage[a]
             q == adminCache[a][p]
  <2>1. p \in AdminPageNames
    BY <1>0 DEF AdminTypes
  <2>2. PICK stage \in {"open", "sent"} :
          adminDialog' = [adminDialog EXCEPT ![a] =
            [action |-> action, on |-> p, seen |-> q.version, stage |-> stage]]
    BY <1>4 DEF Moderation!Choose
  <2>3. action \in Moderation(S, M)!Offered(p, q)
    BY <1>4 DEF Moderation!Choose
  <2> HIDE DEF p, q
  <2>4. action \in ActionsOn(p)
    BY <2>1, <2>3 DEF AdminPageNames, ActionsOn, Moderation!Offered, Moderation!OfferedOnProvider
  <2> DEFINE d == [action |-> action, on |-> p, seen |-> q.version, stage |-> stage]
  <2>5. OfPage(d)
    BY <2>4
  <2>6. adminDialog' = [adminDialog EXCEPT ![a] = d]
    BY <2>2
  <2> HIDE DEF d, OfPage
  <2> QED
    BY <1>1, <2>5, <2>6
<1>5. OfPage(NoAdminDialog)
  OBVIOUS
<1>6. ASSUME NEW a \in Reviewers,
             \/ Moderation(S, M)!Confirm(a) \/ Moderation(S, M)!Dismiss(a)
             \/ Moderation(S, M)!Serve(a) \/ Moderation(S, M)!Succeed(a)
             \/ Moderation(S, M)!Fail(a)
      PROVE  OfPage(adminDialog'[b])
  <2>1. adminDialog[a] # NoAdminDialog
    BY <1>6 DEF NoAdminDialog, Moderation!Confirm, Moderation!Dismiss, Moderation!Serve,
       Moderation!Succeed, Moderation!Fail
  <2>2. \/ adminDialog' = [adminDialog EXCEPT ![a] = NoAdminDialog]
        \/ \E stage \in {"open", "sent", "done", "refused"} :
             adminDialog' = [adminDialog EXCEPT ![a].stage = stage]
    BY <1>6 DEF NoAdminDialog, Moderation!NoDialog, Moderation!Confirm, Moderation!Dismiss,
       Moderation!Serve, Moderation!Succeed, Moderation!Fail
  <2> HIDE DEF OfPage
  <2> QED
    BY <1>1, <1>3, <1>5, <2>1, <2>2
<1>7. \/ \E a \in Reviewers, p \in S :
           \/ Moderation(S, M)!Open(a, p) \/ Moderation(S, M)!Age(a, p)
           \/ Moderation(S, M)!Read(a, p) \/ Moderation(S, M)!Receive(a, p)
           \/ Moderation(S, M)!FailFetch(a, p)
      \/ \E a \in Reviewers : Moderation(S, M)!Refetch(a)
      \/ \E k \in Moderation(S, M)!Kinds : \E to \in Moderation(S, M)!StatusOf(k) :
           Moderation(S, M)!ChangeElsewhere(k, to)
      \/ UNCHANGED Moderation(S, M)!vars
      => UNCHANGED adminDialog
  BY DEF Moderation!Open, Moderation!Age, Moderation!Read, Moderation!Receive,
     Moderation!FailFetch, Moderation!Refetch, Moderation!ChangeElsewhere, Moderation!vars
<1>8. OfPage(adminDialog'[b])
  BY <1>2, <1>4, <1>6, <1>7 DEF Moderation!Next
<1> QED
  BY <1>8

\* With any administrators, pages and changes.
LEMMA KindsStay ==
  ASSUME NEW S \in SUBSET AdminPageNames, NEW M
  PROVE  /\ Moderation(S, M)!Init => KindsKept(S)
         /\ AdminShown(S) /\ KindsKept(S) /\ [Moderation(S, M)!Next]_(Moderation(S, M)!vars)
              => KindsKept(S)'
<1>1. ASSUME Moderation(S, M)!Init
      PROVE  KindsKept(S)
  <2>1. \A p \in S : RowOf(p) \in RowsOf(S)
    BY DEF RowsOf
  <2>2. \A k \in RowsOf(S) : Moderation(S, M)!First(k) \in Lists!StatusOf(k)
    BY DEF RowOf, RowsOf, AdminPageNames, Moderation!First, Lists!StatusOf, Lists!UserStatus,
       Lists!ReviewStatus, Lists!Machine!ProviderStatus
  <2>3. /\ moderated = [k \in RowsOf(S) |-> [status |-> Moderation(S, M)!First(k), version |-> 0]]
        /\ adminDialog = [a \in Reviewers |-> NoAdminDialog]
    BY <1>1 DEF Moderation!Init, Moderation!NoDialog, NoAdminDialog, Moderation!Kinds,
       Moderation!Kind, RowOf, RowsOf
  <2>4. \A a \in Reviewers, p \in S :
          /\ adminCache[a][p].status = Moderation(S, M)!First(RowOf(p))
          /\ adminCache[a][p].readStatus = Moderation(S, M)!First(RowOf(p))
    BY <1>1 DEF Moderation!Init, Moderation!Unfetched, Moderation!Kind, RowOf
  <2> QED
    BY <2>1, <2>2, <2>3, <2>4 DEF KindsKept
<1>2. ASSUME AdminShown(S), KindsKept(S), [Moderation(S, M)!Next]_(Moderation(S, M)!vars)
      PROVE  KindsKept(S)'
  <2>1. \A k \in RowsOf(S) : moderated'[k].status \in Lists!StatusOf(k)
    BY <1>2, RowsKeepKind
  <2>2. \A a \in Reviewers : adminDialog'[a] # NoAdminDialog =>
          adminDialog'[a].action \in ActionsOn(adminDialog'[a].on)
    BY <1>2, DialogsKeepKind
  <2>3. ASSUME NEW a \in Reviewers, NEW p \in S
        PROVE  /\ adminCache'[a][p].status \in Lists!StatusOf(RowOf(p))
               /\ adminCache'[a][p].readStatus \in Lists!StatusOf(RowOf(p))
    <3> DEFINE q == adminCache[a][p]
               r == adminCache'[a][p]
               s == moderated[RowOf(p)].status
               T == Lists!StatusOf(RowOf(p))
    <3>1. q \in Held(ModeratedStatuses)
      BY <1>2 DEF AdminShown, AdminTypes
    <3>2. QueryStep(q, r, s, moderated[RowOf(p)].version)
      BY <1>2, AdminQueriesStep DEF AdminCacheStep
    <3>3. q.status \in T /\ q.readStatus \in T /\ s \in T
      BY <1>2 DEF KindsKept, RowsOf
    <3> HIDE DEF q, r, s, T
    <3>4. r.status \in T /\ r.readStatus \in T
      BY <3>1, <3>2, <3>3, StatusesOfStep
    <3> QED
      BY <3>4 DEF r, T
  <2> QED
    BY <2>1, <2>2, <2>3 DEF KindsKept
<1> QED
  BY <1>1, <1>2

\* Sockets are created one after the other, and the one of the page is among them.
CreatedInOrder ==
  \E n \in 0..MaxSockets :
    /\ \A s \in 1..MaxSockets : sockets[s] # "none" <=> s <= n
    /\ manager.socket <= n

ChatMessages(threads, max) == threads \X (1..max)

NoAnswer == [pending |-> FALSE, messages |-> {}]

\* The messages that are stored, shown and on their way; only a connected socket is in
\* a room or hears of a message.
MessagesTyped(threads, max) ==
  /\ frames \in [1..MaxSockets -> SUBSET ChatMessages(threads, max)]
  /\ \A s \in 1..MaxSockets : sockets[s] # "connected" => rooms[s] = {} /\ frames[s] = {}
  /\ signedIn \in BOOLEAN
  /\ hooked \in 0..MaxSockets
  /\ stored \in [threads -> 0..max]
  /\ threadCache \in [threads -> [kind : {"none", "response", "array"},
                                  messages : SUBSET ChatMessages(threads, max)]]
  /\ arriving \in [threads -> {NoAnswer} \cup
                     [pending : {TRUE}, messages : SUBSET ChatMessages(threads, max)]]
  /\ heard \in [threads -> SUBSET ChatMessages(threads, max)]

\* The inductive invariant: none of the sockets to come is connected already.
ChatTyped(threads, max) ==
  Connections(threads) /\ CreatedInOrder /\ MessagesTyped(threads, max)

LEMMA CreatedIsLast ==
  ASSUME MaxSockets \in Nat, NEW threads, NEW max, NEW n \in 0..MaxSockets,
         \A s \in 1..MaxSockets : sockets[s] # "none" <=> s <= n
  PROVE  Chat(threads, max)!Created = n
<1>1. {s \in 1..MaxSockets : sockets[s] # "none"} = 1..n
  OBVIOUS
<1>2. Cardinality(1..n) = n
  BY FS_Interval
<1>3. Chat(threads, max)!Created = Cardinality({s \in 1..MaxSockets : sockets[s] # "none"})
  BY DEF Chat!Created, Chat!Sockets, Chat!Cardinality, Cardinality
<1> QED
  BY <1>1, <1>2, <1>3

\* connect() leaves messages alone: the socket that it takes was in no room.
LEMMA ConnectingKeeps ==
  ASSUME MaxSockets \in Nat, NEW threads, NEW max, ChatTyped(threads, max),
         Chat(threads, max)!MayConnect,
         sockets' = Chat(threads, max)!AfterConnect,
         manager'.socket = Chat(threads, max)!ConnectedSocket,
         UNCHANGED <<rooms, frames>>
  PROVE  /\ CreatedInOrder'
         /\ \A s \in 1..MaxSockets : sockets'[s] # "connected" => rooms'[s] = {} /\ frames'[s] = {}
         /\ Chat(threads, max)!ConnectedSocket \in 1..MaxSockets
<1>1. PICK n \in 0..MaxSockets :
        /\ \A s \in 1..MaxSockets : sockets[s] # "none" <=> s <= n
        /\ manager.socket <= n
  BY DEF ChatTyped, CreatedInOrder
<1>2. Chat(threads, max)!Created = n
  BY <1>1, CreatedIsLast
<1>3. Connections(threads) /\ manager.socket \in 0..MaxSockets
      /\ \A s \in 1..MaxSockets : sockets[s] # "connected" => rooms[s] = {} /\ frames[s] = {}
  BY DEF ChatTyped, MessagesTyped, Connections
<1>4. CASE Chat(threads, max)!Keeps
  <2>1. sockets' = sockets /\ manager'.socket = manager.socket
        /\ Chat(threads, max)!ConnectedSocket \in 1..MaxSockets
    BY <1>3, <1>4 DEF Chat!AfterConnect, Chat!ConnectedSocket, Chat!Keeps
  <2> QED
    BY <1>1, <1>3, <2>1 DEF CreatedInOrder
<1>5. CASE ~Chat(threads, max)!Keeps
  <2>1. n + 1 \in 1..MaxSockets /\ n + 1 \in 0..MaxSockets
    BY <1>2, <1>5 DEF Chat!MayConnect
  <2>2. sockets' = [sockets EXCEPT ![n + 1] = "connecting"] /\ manager'.socket = n + 1
        /\ Chat(threads, max)!ConnectedSocket = n + 1
    BY <1>2, <1>5 DEF Chat!AfterConnect, Chat!ConnectedSocket
  <2>3. \A s \in 1..MaxSockets : sockets'[s] = IF s = n + 1 THEN "connecting" ELSE sockets[s]
    BY <1>3, <2>1, <2>2 DEF Connections
  <2>4. \A s \in 1..MaxSockets : sockets'[s] # "none" <=> s <= n + 1
    BY <1>1, <2>3
  <2>5. CreatedInOrder'
    BY <2>1, <2>2, <2>4 DEF CreatedInOrder
  <2>6. sockets[n + 1] = "none"
    BY <1>1, <2>1
  <2> QED
    BY <1>3, <2>1, <2>2, <2>3, <2>5, <2>6
<1> QED
  BY <1>4, <1>5

LEMMA ManagerKeepsTypes ==
  ASSUME MaxSockets \in Nat, NEW threads, NEW max, ChatTyped(threads, max), Connections(threads)',
         \/ Chat(threads, max)!SignIn \/ Chat(threads, max)!UserRead
         \/ Chat(threads, max)!SendMessage
         \/ \E c \in threads : Chat(threads, max)!Select(c)
  PROVE  ChatTyped(threads, max)'
<1>0. Connections(threads) /\ CreatedInOrder /\ MessagesTyped(threads, max)
  BY DEF ChatTyped
<1>1. CASE Chat(threads, max)!SignIn
  <2>1. /\ Chat(threads, max)!MayConnect /\ sockets' = Chat(threads, max)!AfterConnect
        /\ manager' = [manager EXCEPT !.socket = Chat(threads, max)!ConnectedSocket]
        /\ UNCHANGED <<rooms, frames, hooked, stored, threadCache, arriving, heard>>
        /\ signedIn' = TRUE
    BY <1>1 DEF Chat!SignIn
  <2>2. manager'.socket = Chat(threads, max)!ConnectedSocket
    BY <1>0, <2>1 DEF Connections
  <2> QED
    BY <1>0, <2>1, <2>2, ConnectingKeeps DEF ChatTyped, MessagesTyped
<1>2. ASSUME NEW c \in threads, Chat(threads, max)!Select(c)
      PROVE  ChatTyped(threads, max)'
  <2>1. /\ Chat(threads, max)!MayConnect /\ sockets' = Chat(threads, max)!AfterConnect
        /\ manager'.socket = Chat(threads, max)!ConnectedSocket
        /\ hooked' = Chat(threads, max)!ConnectedSocket
        /\ UNCHANGED <<rooms, frames, signedIn, stored, threadCache, arriving, heard>>
    BY <1>2 DEF Chat!Select
  <2>2. hooked' \in 0..MaxSockets
    BY <2>1, ConnectingKeeps
  <2> QED
    BY <1>0, <2>1, <2>2, ConnectingKeeps DEF ChatTyped, MessagesTyped
<1>3. CASE Chat(threads, max)!UserRead
  <2>1. PICK n \in 0..MaxSockets :
          /\ \A s \in 1..MaxSockets : sockets[s] # "none" <=> s <= n
          /\ manager.socket <= n
    BY <1>0 DEF CreatedInOrder
  <2>2. Chat(threads, max)!Created = n
    BY <2>1, CreatedIsLast
  <2>3. n + 1 \in 1..MaxSockets /\ n + 1 \in 0..MaxSockets /\ manager.socket \in 1..MaxSockets
    BY <1>0, <1>3, <2>2 DEF Chat!UserRead, Connections
  <2>4. /\ sockets' = [sockets EXCEPT ![manager.socket] = "closed", ![n + 1] = "connecting"]
        /\ manager' = [socket |-> n + 1, currentConversationId |-> None]
        /\ rooms' = [rooms EXCEPT ![manager.socket] = {}]
        /\ frames' = [frames EXCEPT ![manager.socket] = {}]
        /\ UNCHANGED <<signedIn, hooked, stored, threadCache, arriving, heard>>
    BY <1>3, <2>2 DEF Chat!UserRead
  <2>5. ASSUME NEW s \in 1..MaxSockets
        PROVE  /\ sockets'[s] = IF s = n + 1 THEN "connecting"
                                ELSE IF s = manager.socket THEN "closed" ELSE sockets[s]
               /\ rooms'[s] = IF s = manager.socket THEN {} ELSE rooms[s]
               /\ frames'[s] = IF s = manager.socket THEN {} ELSE frames[s]
    BY <1>0, <2>3, <2>4 DEF Connections, MessagesTyped
  <2>6. CreatedInOrder'
    <3>1. \A s \in 1..MaxSockets : sockets'[s] # "none" <=> s <= n + 1
      BY <2>1, <2>3, <2>5
    <3>2. manager'.socket = n + 1
      BY <2>4
    <3> QED
      BY <2>3, <3>1, <3>2 DEF CreatedInOrder
  <2>7. \A s \in 1..MaxSockets : sockets'[s] # "connected" => rooms'[s] = {} /\ frames'[s] = {}
    <3>1. sockets[n + 1] = "none"
      BY <2>1, <2>3
    <3> QED
      BY <1>0, <2>5, <3>1 DEF MessagesTyped
  <2>8. frames' \in [1..MaxSockets -> SUBSET ChatMessages(threads, max)]
    BY <1>0, <2>4 DEF MessagesTyped
  <2> QED
    BY <1>0, <2>4, <2>6, <2>7, <2>8 DEF ChatTyped, MessagesTyped
<1>4. CASE Chat(threads, max)!SendMessage
  BY <1>0, <1>4 DEF Chat!SendMessage, ChatTyped, MessagesTyped, CreatedInOrder
<1> QED
  BY <1>1, <1>2, <1>3, <1>4

LEMMA StoreKeepsTypes ==
  ASSUME NEW threads, NEW max \in Nat, ChatTyped(threads, max), Connections(threads)',
         NEW c \in threads, Chat(threads, max)!Store(c),
         UNCHANGED <<sockets, manager, rooms, signedIn, hooked, threadCache, arriving, heard>>
  PROVE  ChatTyped(threads, max)'
<1>0. Connections(threads) /\ CreatedInOrder /\ MessagesTyped(threads, max)
  BY DEF ChatTyped
<1>1. stored[c] + 1 \in 1..max /\ stored[c] + 1 \in 0..max
  BY <1>0 DEF Chat!Store, MessagesTyped
<1>2. stored' \in [threads -> 0..max]
  BY <1>0, <1>1 DEF Chat!Store, MessagesTyped
<1>3. frames' = [s \in 1..MaxSockets |->
        IF c \in rooms[s] THEN frames[s] \cup {<<c, stored[c] + 1>>} ELSE frames[s]]
  BY DEF Chat!Store, Chat!Sockets
<1>4. <<c, stored[c] + 1>> \in ChatMessages(threads, max)
  BY <1>1 DEF ChatMessages
<1>5. frames' \in [1..MaxSockets -> SUBSET ChatMessages(threads, max)]
  BY <1>0, <1>3, <1>4 DEF MessagesTyped
<1>6. \A s \in 1..MaxSockets : sockets'[s] # "connected" => rooms'[s] = {} /\ frames'[s] = {}
  BY <1>0, <1>3 DEF MessagesTyped
<1> QED
  BY <1>0, <1>2, <1>5, <1>6 DEF ChatTyped, MessagesTyped, CreatedInOrder

LEMMA SocketsKeepTypes ==
  ASSUME NEW threads, NEW max \in Nat, ChatTyped(threads, max), Connections(threads)',
         NEW s \in 1..MaxSockets,
         \/ Chat(threads, max)!Open(s) \/ Chat(threads, max)!Refused(s)
         \/ Chat(threads, max)!Drop(s)
         \/ \E c \in threads :
              \/ Chat(threads, max)!Join(s, c) \/ Chat(threads, max)!Deny(s, c)
              \/ Chat(threads, max)!Send(s, c)
  PROVE  ChatTyped(threads, max)'
<1>0. Connections(threads) /\ CreatedInOrder /\ MessagesTyped(threads, max)
  BY DEF ChatTyped
<1>1. ASSUME NEW state \in {"connecting", "connected", "closed"}, sockets[s] # "none",
             sockets' = [sockets EXCEPT ![s] = state], UNCHANGED manager
      PROVE  CreatedInOrder'
  <2>1. \A t \in 1..MaxSockets : sockets'[t] # "none" <=> sockets[t] # "none"
    BY <1>0, <1>1 DEF Connections
  <2> QED
    BY <1>0, <1>1, <2>1 DEF CreatedInOrder
<1>2. CASE Chat(threads, max)!Open(s)
  <2>1. CreatedInOrder'
    BY <1>1, <1>2 DEF Chat!Open
  <2> QED
    BY <1>0, <1>2, <2>1 DEF Chat!Open, ChatTyped, MessagesTyped, Connections
<1>3. CASE Chat(threads, max)!Refused(s)
  <2>1. CreatedInOrder'
    BY <1>1, <1>3 DEF Chat!Refused
  <2> QED
    BY <1>0, <1>3, <2>1 DEF Chat!Refused, ChatTyped, MessagesTyped, Connections
<1>4. CASE Chat(threads, max)!Drop(s)
  <2>1. CreatedInOrder'
    BY <1>1, <1>4 DEF Chat!Drop
  <2> QED
    BY <1>0, <1>4, <2>1 DEF Chat!Drop, ChatTyped, MessagesTyped, Connections
<1>5. ASSUME NEW c \in threads, Chat(threads, max)!Join(s, c)
      PROVE  ChatTyped(threads, max)'
  BY <1>0, <1>5 DEF Chat!Join, Chat!Emitted, ChatTyped, MessagesTyped, Connections, CreatedInOrder
<1>6. ASSUME NEW c \in threads, Chat(threads, max)!Send(s, c)
      PROVE  ChatTyped(threads, max)'
  BY <1>6, StoreKeepsTypes DEF Chat!Send
<1>7. ASSUME NEW c \in threads, Chat(threads, max)!Deny(s, c)
      PROVE  ChatTyped(threads, max)'
  BY <1>0, <1>7 DEF Chat!Deny, ChatTyped, MessagesTyped, Connections, CreatedInOrder
<1> QED
  BY <1>2, <1>3, <1>4, <1>5, <1>6, <1>7

LEMMA MessagesKeepTypes ==
  ASSUME NEW threads, NEW max \in Nat, ChatTyped(threads, max), Connections(threads)',
         \/ Chat(threads, max)!Fetch
         \/ \E c \in threads : Chat(threads, max)!OtherSends(c) \/ Chat(threads, max)!Fetched(c)
         \/ \E s \in 1..MaxSockets : \E m \in Chat(threads, max)!Messages :
              Chat(threads, max)!HandleMessage(s, m)
         \/ UNCHANGED Chat(threads, max)!vars
  PROVE  ChatTyped(threads, max)'
<1>0. Connections(threads) /\ CreatedInOrder /\ MessagesTyped(threads, max)
  BY DEF ChatTyped
<1>1. CASE Chat(threads, max)!Fetch
  <2> DEFINE answer == [pending |-> TRUE, messages |-> {<<selected, i>> : i \in 1..stored[selected]}]
  <2>1. selected # None /\ arriving' = [arriving EXCEPT ![selected] = answer]
        /\ UNCHANGED <<sockets, manager, rooms, frames, signedIn, hooked, stored, threadCache, heard>>
    BY <1>1 DEF Chat!Fetch
  <2>2. selected \in threads /\ stored[selected] \in 0..max
    BY <1>0, <2>1 DEF Connections, MessagesTyped
  <2>3. answer \in [pending : {TRUE}, messages : SUBSET ChatMessages(threads, max)]
    BY <2>2 DEF ChatMessages
  <2> HIDE DEF answer
  <2>4. arriving' \in [threads -> {NoAnswer} \cup
                         [pending : {TRUE}, messages : SUBSET ChatMessages(threads, max)]]
    BY <1>0, <2>1, <2>3 DEF MessagesTyped
  <2> QED
    BY <1>0, <2>1, <2>4 DEF ChatTyped, MessagesTyped, CreatedInOrder
<1>2. ASSUME NEW c \in threads, Chat(threads, max)!OtherSends(c)
      PROVE  ChatTyped(threads, max)'
  BY <1>2, StoreKeepsTypes DEF Chat!OtherSends
<1>3. ASSUME NEW c \in threads, Chat(threads, max)!Fetched(c)
      PROVE  ChatTyped(threads, max)'
  <2> DEFINE entry == [kind |-> "response", messages |-> arriving[c].messages]
  <2>1. /\ threadCache' = [threadCache EXCEPT ![c] = entry]
        /\ arriving' = [arriving EXCEPT ![c] = NoAnswer]
        /\ UNCHANGED <<sockets, manager, rooms, frames, signedIn, hooked, stored, heard>>
    BY <1>3 DEF Chat!Fetched, Chat!NotFetching, NoAnswer
  <2>2. arriving[c].messages \in SUBSET ChatMessages(threads, max)
    <3>1. \/ arriving[c] = NoAnswer
          \/ arriving[c] \in [pending : {TRUE}, messages : SUBSET ChatMessages(threads, max)]
      BY <1>0 DEF MessagesTyped
    <3>2. CASE arriving[c] = NoAnswer
      <4>1. arriving[c].messages = {}
        BY <3>2 DEF NoAnswer
      <4> QED
        BY <4>1
    <3>3. CASE arriving[c] \in [pending : {TRUE}, messages : SUBSET ChatMessages(threads, max)]
      BY <3>3
    <3> QED
      BY <3>1, <3>2, <3>3
  <2>3. entry \in [kind : {"none", "response", "array"}, messages : SUBSET ChatMessages(threads, max)]
    BY <2>2
  <2> HIDE DEF entry
  <2> QED
    BY <1>0, <2>1, <2>3 DEF ChatTyped, MessagesTyped, CreatedInOrder
<1>4. ASSUME NEW s \in 1..MaxSockets, NEW m \in Chat(threads, max)!Messages,
             Chat(threads, max)!HandleMessage(s, m)
      PROVE  ChatTyped(threads, max)'
  <2>1. m \in ChatMessages(threads, max)
    BY DEF Chat!Messages, ChatMessages
  <2>2. /\ frames' = [frames EXCEPT ![s] = @ \ {m}]
        /\ UNCHANGED <<sockets, manager, rooms, signedIn, hooked, stored, arriving>>
    BY <1>4 DEF Chat!HandleMessage
  <2>3. /\ frames' \in [1..MaxSockets -> SUBSET ChatMessages(threads, max)]
        /\ \A t \in 1..MaxSockets : frames'[t] \subseteq frames[t]
    BY <1>0, <2>2 DEF MessagesTyped
  <2>4. CASE UNCHANGED <<threadCache, heard>>
    BY <1>0, <2>2, <2>3, <2>4 DEF ChatTyped, MessagesTyped, CreatedInOrder
  <2>5. CASE /\ threadCache' = [threadCache EXCEPT ![selected] =
                  Chat(threads, max)!Updated(threadCache[selected], m)]
             /\ heard' = [heard EXCEPT ![selected] = @ \cup {m}]
             /\ m[1] = selected
    <3> DEFINE entry == Chat(threads, max)!Updated(threadCache[selected], m)
    <3>1. selected \in threads
      BY <2>1, <2>5 DEF ChatMessages
    <3>2. entry \in [kind : {"none", "response", "array"},
                     messages : SUBSET ChatMessages(threads, max)]
      BY <1>0, <2>1, <3>1 DEF Chat!Updated, MessagesTyped
    <3> HIDE DEF entry
    <3>3. /\ threadCache' \in [threads -> [kind : {"none", "response", "array"},
                                           messages : SUBSET ChatMessages(threads, max)]]
          /\ heard' \in [threads -> SUBSET ChatMessages(threads, max)]
      BY <1>0, <2>1, <2>5, <3>1, <3>2 DEF MessagesTyped, entry
    <3> QED
      BY <1>0, <2>2, <2>3, <3>3 DEF ChatTyped, MessagesTyped, CreatedInOrder
  <2> QED
    BY <1>4, <2>4, <2>5 DEF Chat!HandleMessage
<1>5. CASE UNCHANGED Chat(threads, max)!vars
  BY <1>0, <1>5 DEF Chat!vars, ChatTyped, MessagesTyped, CreatedInOrder
<1> QED
  BY <1>1, <1>2, <1>3, <1>4, <1>5

\* With any threads, messages and sockets.
LEMMA ChatsStayTyped ==
  ASSUME MaxSockets \in Nat, NEW threads, NEW max \in Nat
  PROVE  /\ Chat(threads, max)!Init => ChatTyped(threads, max)
         /\ /\ InRoomOrAsked(threads) /\ ChatTyped(threads, max)
            /\ [Chat(threads, max)!Next]_(Chat(threads, max)!vars)
            => ChatTyped(threads, max)'
<1>1. ASSUME Chat(threads, max)!Init
      PROVE  ChatTyped(threads, max)
  <2>1. Connections(threads)
    BY <1>1, JoinsAgain DEF InRoomOrAsked
  <2>2. CreatedInOrder
    <3>1. 0 \in 0..MaxSockets /\ manager.socket = 0
          /\ \A s \in 1..MaxSockets : sockets[s] = "none"
      BY <1>1 DEF Chat!Init, Chat!Sockets
    <3> QED
      BY <3>1 DEF CreatedInOrder
  <2>3. MessagesTyped(threads, max)
    <3>1. /\ frames = [s \in 1..MaxSockets |-> {}] /\ rooms = [s \in 1..MaxSockets |-> {}]
          /\ signedIn = FALSE /\ hooked = 0
          /\ stored = [c \in threads |-> 0] /\ heard = [c \in threads |-> {}]
      BY <1>1 DEF Chat!Init, Chat!Sockets
    <3>2. threadCache \in [threads -> [kind : {"none", "response", "array"},
                                       messages : SUBSET ChatMessages(threads, max)]]
      BY <1>1 DEF Chat!Init
    <3>3. arriving = [c \in threads |-> NoAnswer]
      BY <1>1 DEF Chat!Init, Chat!NotFetching, NoAnswer
    <3>4. arriving \in [threads -> {NoAnswer} \cup
                          [pending : {TRUE}, messages : SUBSET ChatMessages(threads, max)]]
      BY <3>3
    <3>5. /\ frames \in [1..MaxSockets -> SUBSET ChatMessages(threads, max)]
          /\ heard \in [threads -> SUBSET ChatMessages(threads, max)]
      BY <3>1
    <3>6. 0 \in 0..max /\ 0 \in 0..MaxSockets
      OBVIOUS
    <3>7. stored \in [threads -> 0..max]
      BY <3>1, <3>6
    <3>8. stored \in [threads -> 0..max] /\ hooked \in 0..MaxSockets /\ signedIn \in BOOLEAN
      BY <3>1, <3>6, <3>7
    <3>9. \A s \in 1..MaxSockets : rooms[s] = {} /\ frames[s] = {}
      BY <3>1
    <3> QED
      BY <3>2, <3>4, <3>5, <3>8, <3>9 DEF MessagesTyped
  <2> QED
    BY <2>1, <2>2, <2>3 DEF ChatTyped
<1>2. ASSUME InRoomOrAsked(threads), ChatTyped(threads, max),
             [Chat(threads, max)!Next]_(Chat(threads, max)!vars)
      PROVE  ChatTyped(threads, max)'
  <2>1. Connections(threads)'
    BY <1>2, JoinsAgain DEF InRoomOrAsked
  <2> QED
    BY <1>2, <2>1, ManagerKeepsTypes, SocketsKeepTypes, MessagesKeepTypes
       DEF Chat!Next, Chat!Sockets
<1> QED
  BY <1>1, <1>2

\* What the page of the owner holds of documents and services, and its submissions.
SubmissionsTyped ==
  /\ lists \in [documents : SUBSET Onboarding!DocumentTypes, services : Onboarding!ServiceStates]
  /\ submit \in [Clicks -> {"none", "sent", "done", "refused"}]

LEMMA SubmissionsStayTyped ==
  /\ Onboarding!Init => SubmissionsTyped
  /\ SubmissionShown /\ SubmissionsTyped /\ [Onboarding!Next]_(Onboarding!vars)
       => SubmissionsTyped'
<1>1. Onboarding!Init => SubmissionsTyped
  BY DEF Onboarding!Init, Onboarding!NoLists, Onboarding!ServiceStates, SubmissionsTyped
<1>2. ASSUME SubmissionShown, SubmissionsTyped, [Onboarding!Next]_(Onboarding!vars)
      PROVE  SubmissionsTyped'
  <2>1. CASE Onboarding!FetchLists
    <3>1. provider.documents \in SUBSET Onboarding!DocumentTypes
          /\ provider.services \in Onboarding!ServiceStates
      BY <1>2 DEF SubmissionShown, OwnerRow
    <3>2. submit' = submit
          /\ \/ lists' = [lists EXCEPT !.documents = provider.documents]
             \/ lists' = [lists EXCEPT !.services = provider.services]
      BY <2>1 DEF Onboarding!FetchLists
    <3>3. lists' \in [documents : SUBSET Onboarding!DocumentTypes,
                      services : Onboarding!ServiceStates]
      BY <1>2, <3>1, <3>2 DEF SubmissionsTyped
    <3> QED
      BY <1>2, <3>2, <3>3 DEF SubmissionsTyped
  <2>2. ASSUME NEW c \in Clicks,
               \/ Onboarding!Click(c) \/ Onboarding!Serve(c)
               \/ Onboarding!Succeed(c) \/ Onboarding!Fail(c)
        PROVE  SubmissionsTyped'
    <3>1. lists' = lists
          /\ \E s \in {"none", "sent", "done", "refused"} : submit' = [submit EXCEPT ![c] = s]
      BY <2>2 DEF Onboarding!Click, Onboarding!Serve, Onboarding!Succeed, Onboarding!Fail
    <3> QED
      BY <1>2, <3>1 DEF SubmissionsTyped
  <2>3. \/ Onboarding!Enter \/ Onboarding!Leave \/ Onboarding!Age \/ Onboarding!Read
        \/ Onboarding!Receive \/ Onboarding!FailFetch \/ Onboarding!Retry \/ Onboarding!Edit
        \/ \E to \in Onboarding!Machine!ProviderStatus : Onboarding!Moderate(to)
        \/ UNCHANGED Onboarding!vars
        => UNCHANGED <<lists, submit>>
    BY DEF Onboarding!Enter, Onboarding!Leave, Onboarding!Age, Onboarding!Read,
       Onboarding!Receive, Onboarding!FailFetch, Onboarding!Retry, Onboarding!Edit,
       Onboarding!Moderate, Onboarding!vars
  <2> QED
    BY <1>2, <2>1, <2>2, <2>3 DEF Onboarding!Next, SubmissionsTyped
<1> QED
  BY <1>1, <1>2

-----------------------------------------------------------------------------
(* The types of the instances                                              *)

LEMMA BookingsAreTyped ==
  ASSUME PaymentTyped
  PROVE  /\ BookingShown({"traveler"}) => Traveler!TypeOK
         /\ BookingShown({"provider"}) => ProviderBookings!TypeOK
<1>1. ProviderBookings!Status = BookingStatuses
  BY DEF ProviderBookings!Status, ProviderBookings!Terminal, Traveler!Status, Traveler!Terminal,
     BookingStatuses
<1>2. /\ Traveler!Query(BookingStatuses) = Held(BookingStatuses)
      /\ ProviderBookings!Query(BookingStatuses) = Held(BookingStatuses)
  BY DEF Traveler!Query, ProviderBookings!Query, Held
<1>3. /\ Traveler!Dialog = BookingDialog /\ ProviderBookings!Dialog = BookingDialog
      /\ Traveler!NoDialog = NoBookingDialog /\ ProviderBookings!NoDialog = NoBookingDialog
  BY DEF Traveler!Dialog, ProviderBookings!Dialog, Traveler!Actions, ProviderBookings!Actions,
     BookingDialog, Traveler!NoDialog, ProviderBookings!NoDialog, NoBookingDialog
<1>4. /\ Traveler!Hands = BookingHands({"traveler"})
      /\ ProviderBookings!Hands = BookingHands({"provider"})
  BY DEF Traveler!Hands, ProviderBookings!Hands, BookingHands
<1> QED
  BY <1>1, <1>2, <1>3, <1>4 DEF BookingShown, BookingTypes, PaymentTyped, Traveler!TypeOK,
     ProviderBookings!TypeOK, BookingStatuses, Traveler!Pages, ProviderBookings!Pages

\* A query whose statuses are of one kind is a query of that kind.
LEMMA HeldOfKind ==
  ASSUME NEW S, NEW T, NEW q \in Held(S), q.status \in T, q.readStatus \in T
  PROVE  q \in Held(T)
BY DEF Held

\* With any pages and administrators.
LEMMA ModeratedAreTyped ==
  ASSUME NEW S \in SUBSET AdminPageNames, NEW M, AdminShown(S), KindsKept(S)
  PROVE  Moderation(S, M)!TypeOK
<1>0. AdminTypes(S) /\ Moderation(S, M)!Kinds = RowsOf(S)
  BY DEF AdminShown, Moderation!Kinds, Moderation!Kind, RowOf, RowsOf
<1>1. \A k \in RowsOf(S) : Lists!StatusOf(k) = Moderation(S, M)!StatusOf(k)
  BY DEF RowsOf, RowOf, AdminPageNames, Moderation!StatusOf, Moderation!UserStatus,
     Moderation!ReviewStatus, Moderation!Machine!ProviderStatus, Lists!StatusOf,
     Lists!UserStatus, Lists!ReviewStatus, Lists!Machine!ProviderStatus
<1>2. \A k \in RowsOf(S) : /\ moderated[k].status \in Moderation(S, M)!StatusOf(k)
                           /\ moderated[k].version \in Nat
  BY <1>0, <1>1 DEF AdminTypes, KindsKept
<1>3. ASSUME NEW a \in Reviewers, NEW p \in S
      PROVE  adminCache[a][p] \in
               Moderation(S, M)!Query(Moderation(S, M)!StatusOf(Moderation(S, M)!Kind(p)))
  <2> DEFINE q == adminCache[a][p]
             T == Moderation(S, M)!StatusOf(RowOf(p))
  <2>1. q \in Held(ModeratedStatuses)
    BY <1>0 DEF AdminTypes
  <2>2. q.status \in T /\ q.readStatus \in T
    BY <1>1 DEF KindsKept, RowsOf
  <2> HIDE DEF q, T
  <2>3. q \in Held(T)
    BY <2>1, <2>2, HeldOfKind
  <2> QED
    BY <2>3 DEF q, T, Held, Moderation!Query, Moderation!Kind, RowOf
<1>4. adminDialog \in [Reviewers -> Moderation(S, M)!Dialog \cup {Moderation(S, M)!NoDialog}]
  <2>1. AdminDialog(S) \subseteq Moderation(S, M)!Dialog
    BY DEF AdminDialog, Moderation!Dialog, Moderation!Actions
  <2>2. Moderation(S, M)!NoDialog = NoAdminDialog
    BY DEF Moderation!NoDialog, NoAdminDialog
  <2> QED
    BY <1>0, <2>1, <2>2 DEF AdminTypes
<1> QED
  BY <1>0, <1>2, <1>3, <1>4 DEF AdminTypes, Moderation!TypeOK

LEMMA AdminsAreTyped ==
  /\ AdminShown({"users", "reviews"}) /\ KindsKept({"users", "reviews"}) => Lists!TypeOK
  /\ AdminShown({"providers", "provider"}) /\ KindsKept({"providers", "provider"})
       => Applications!TypeOK
  /\ AdminShown({"provider"}) /\ KindsKept({"provider"}) => Decisions!TypeOK
<1>0. /\ {"users", "reviews"} \in SUBSET AdminPageNames
      /\ {"providers", "provider"} \in SUBSET AdminPageNames
      /\ {"provider"} \in SUBSET AdminPageNames
  BY DEF AdminPageNames
<1> USE DEF Moderation!TypeOK, Moderation!Kinds, Moderation!Kind, Moderation!StatusOf,
      Moderation!UserStatus, Moderation!ReviewStatus, Moderation!Machine!ProviderStatus,
      Moderation!Query, Moderation!Dialog, Moderation!Actions, Moderation!NoDialog
<1>1. Moderation({"users", "reviews"}, ListChanges)!TypeOK => Lists!TypeOK
  BY DEF Lists!TypeOK, Lists!Kinds, Lists!Kind, Lists!StatusOf, Lists!UserStatus,
     Lists!ReviewStatus, Lists!Machine!ProviderStatus, Lists!Query, Lists!Dialog,
     Lists!Actions, Lists!NoDialog
<1>2. Moderation({"providers", "provider"}, ApplicationChanges)!TypeOK => Applications!TypeOK
  BY DEF Applications!TypeOK, Applications!Kinds, Applications!Kind, Applications!StatusOf,
     Applications!UserStatus, Applications!ReviewStatus, Applications!Machine!ProviderStatus,
     Applications!Query, Applications!Dialog, Applications!Actions, Applications!NoDialog
<1>3. Moderation({"provider"}, DecisionChanges)!TypeOK => Decisions!TypeOK
  BY DEF Decisions!TypeOK, Decisions!Kinds, Decisions!Kind, Decisions!StatusOf,
     Decisions!UserStatus, Decisions!ReviewStatus, Decisions!Machine!ProviderStatus,
     Decisions!Query, Decisions!Dialog, Decisions!Actions, Decisions!NoDialog
<1> HIDE DEF Moderation!TypeOK
<1> QED
  BY <1>0, <1>1, <1>2, <1>3, ModeratedAreTyped

LEMMA OwnersAreTyped ==
  ASSUME SubmissionShown, SubmissionsTyped
  PROVE  Onboarding!TypeOK
BY DEF SubmissionShown, SubmissionsTyped, OwnerRow, Held, Onboarding!TypeOK, Onboarding!Row,
   Onboarding!Query

LEMMA ChatsAreTyped ==
  /\ ChatTyped(Threads, 0) => Rooms!TypeOK
  /\ ChatTyped(OneThread, MaxMessages) => Thread!TypeOK
BY DEF ChatTyped, Connections, Events, MessagesTyped, ChatMessages, NoAnswer,
   Rooms!TypeOK, Rooms!Sockets, Rooms!Messages, Rooms!Events, Rooms!Cached, Rooms!Answers,
   Thread!TypeOK, Thread!Sockets, Thread!Messages, Thread!Events, Thread!Cached, Thread!Answers

LEMMA ProfileIsDestination == Profile!TypeOK => Destination!TypeOK
BY DEF Profile!TypeOK, Destination!TypeOK, Profile!Row, Destination!Row, Profile!Contents,
   Destination!Contents, Profile!Choices, Destination!Choices, Profile!Patch, Destination!Patch

-----------------------------------------------------------------------------
(* Browser: what its pages show                                            *)

\* A component takes its own steps only, and one that waits takes none.
LEMMA PageSteps ==
  ASSUME [Next]_vars
  PROVE  /\ part' = part
         /\ part # "provider bookings" => [Traveler!Next]_(Traveler!vars)
         /\ part = "provider bookings" => [ProviderBookings!Next]_(ProviderBookings!vars)
         /\ part \notin {"applications", "decisions"} => [Lists!Next]_(Lists!vars)
         /\ part = "applications" => [Applications!Next]_(Applications!vars)
         /\ part = "decisions" => [Decisions!Next]_(Decisions!vars)
         /\ [Onboarding!Next]_(Onboarding!vars)
         /\ part # "rooms" => [Thread!Next]_(Thread!vars)
         /\ part = "rooms" => [Rooms!Next]_(Rooms!vars)
BY DEF Next, Settled, vars, bookingVars, adminVars, ownerVars, wizardVars, uploadVars, editVars,
       userVars, clientVars, chatVars, Traveler!vars, Traveler!server, ProviderBookings!vars,
       ProviderBookings!server, Lists!vars, Applications!vars, Decisions!vars, Onboarding!vars,
       Thread!vars, Rooms!vars

\* The inductive invariant of the pages, whether they run or wait: the ones of their
\* components, and the types that those do without.
PagesInv ==
  /\ part \in Parts
  /\ PaymentTyped
  /\ part = "provider bookings" => BookingShown({"provider"}) /\ ChoiceStands({"provider"})
  /\ part # "provider bookings" => BookingShown({"traveler"})
  /\ part = "applications" =>
       AdminShown({"providers", "provider"}) /\ KindsKept({"providers", "provider"})
  /\ part = "decisions" => AdminShown({"provider"}) /\ KindsKept({"provider"})
  /\ part \notin {"applications", "decisions"} =>
       AdminShown({"users", "reviews"}) /\ KindsKept({"users", "reviews"})
  /\ SubmissionShown /\ SubmissionsTyped
  /\ part = "rooms" => InRoomOrAsked(Threads) /\ ChatTyped(Threads, 0)
  /\ part # "rooms" => InRoomOrAsked(OneThread) /\ ChatTyped(OneThread, MaxMessages)

LEMMA PagesBegin ==
  ASSUME Init
  PROVE  PagesInv
<1>1. part = "provider bookings" =>
        BookingShown({"provider"}) /\ ChoiceStands({"provider"}) /\ PaymentTyped
  BY BookingsOfBrowser, BookingOutcomeShown, HandsOfBrowsers, ProviderIsRefusedWhenStale,
     PaymentStaysTyped DEF Init
<1>2. part # "provider bookings" => BookingShown({"traveler"}) /\ PaymentTyped
  BY BookingsOfBrowser, BookingOutcomeShown, HandsOfBrowsers, PaymentStaysTyped DEF Init
<1>3. /\ {"users", "reviews"} \in SUBSET AdminPageNames
      /\ {"providers", "provider"} \in SUBSET AdminPageNames
      /\ {"provider"} \in SUBSET AdminPageNames
  BY DEF AdminPageNames
<1>4. part = "applications" =>
        AdminShown({"providers", "provider"}) /\ KindsKept({"providers", "provider"})
  BY <1>3, AdminsOfBrowser, AdminPagesKeepUp, KindsStay DEF Init
<1>5. part = "decisions" => AdminShown({"provider"}) /\ KindsKept({"provider"})
  BY <1>3, AdminsOfBrowser, AdminPagesKeepUp, KindsStay DEF Init
<1>6. part \notin {"applications", "decisions"} =>
        AdminShown({"users", "reviews"}) /\ KindsKept({"users", "reviews"})
  BY <1>3, AdminsOfBrowser, AdminPagesKeepUp, KindsStay DEF Init
<1>7. SubmissionShown /\ SubmissionsTyped
  BY OwnersKeepUp, SubmissionsStayTyped, InstancesAssumption DEF Init
<1>8. part = "rooms" => InRoomOrAsked(Threads) /\ ChatTyped(Threads, 0)
  BY ChatsOfBrowser, JoinsAgain, ChatsStayTyped, InstancesAssumption DEF Init
<1>9. part # "rooms" => InRoomOrAsked(OneThread) /\ ChatTyped(OneThread, MaxMessages)
  BY ChatsOfBrowser, JoinsAgain, ChatsStayTyped, InstancesAssumption DEF Init
<1> QED
  BY <1>1, <1>2, <1>4, <1>5, <1>6, <1>7, <1>8, <1>9 DEF PagesInv, Init

LEMMA PagesGoOn ==
  ASSUME PagesInv, [Next]_vars
  PROVE  PagesInv'
<1>1. part' = part
  BY PageSteps
<1>2. part = "provider bookings" =>
        BookingShown({"provider"})' /\ ChoiceStands({"provider"})' /\ PaymentTyped'
  <2> SUFFICES ASSUME part = "provider bookings"
               PROVE  BookingShown({"provider"})' /\ ChoiceStands({"provider"})' /\ PaymentTyped'
    OBVIOUS
  <2>1. BookingShown({"provider"}) /\ ChoiceStands({"provider"}) /\ PaymentTyped
    BY DEF PagesInv
  <2>2. [Pages({"provider"}, Traveler!Status, TRUE)!Next]_(
           Pages({"provider"}, Traveler!Status, TRUE)!vars)
    BY PageSteps, BookingsOfBrowser
  <2> QED
    BY <2>1, <2>2, BookingOutcomeShown, HandsOfBrowsers, ChoicesStand, PaymentStaysTyped
<1>3. part # "provider bookings" => BookingShown({"traveler"})' /\ PaymentTyped'
  BY PageSteps, BookingsOfBrowser, BookingOutcomeShown, HandsOfBrowsers, PaymentStaysTyped
     DEF PagesInv
<1>4. /\ {"users", "reviews"} \in SUBSET AdminPageNames
      /\ {"providers", "provider"} \in SUBSET AdminPageNames
      /\ {"provider"} \in SUBSET AdminPageNames
  BY DEF AdminPageNames
<1>5. part = "applications" =>
        AdminShown({"providers", "provider"})' /\ KindsKept({"providers", "provider"})'
  BY <1>4, PageSteps, AdminsOfBrowser, AdminPagesKeepUp, KindsStay DEF PagesInv
<1>6. part = "decisions" => AdminShown({"provider"})' /\ KindsKept({"provider"})'
  BY <1>4, PageSteps, AdminsOfBrowser, AdminPagesKeepUp, KindsStay DEF PagesInv
<1>7. part \notin {"applications", "decisions"} =>
        AdminShown({"users", "reviews"})' /\ KindsKept({"users", "reviews"})'
  BY <1>4, PageSteps, AdminsOfBrowser, AdminPagesKeepUp, KindsStay DEF PagesInv
<1>8. SubmissionShown' /\ SubmissionsTyped'
  BY PageSteps, OwnersKeepUp, SubmissionsStayTyped, InstancesAssumption DEF PagesInv
<1>9. part = "rooms" => InRoomOrAsked(Threads)' /\ ChatTyped(Threads, 0)'
  BY PageSteps, ChatsOfBrowser, JoinsAgain, ChatsStayTyped, InstancesAssumption DEF PagesInv
<1>10. part # "rooms" => InRoomOrAsked(OneThread)' /\ ChatTyped(OneThread, MaxMessages)'
  BY PageSteps, ChatsOfBrowser, JoinsAgain, ChatsStayTyped, InstancesAssumption DEF PagesInv
<1> QED
  BY <1>1, <1>2, <1>3, <1>5, <1>6, <1>7, <1>8, <1>9, <1>10 DEF PagesInv

LEMMA PagesInvHolds == Spec => []PagesInv
<1>1. Init => PagesInv
  BY PagesBegin
<1>2. PagesInv /\ [Next]_vars => PagesInv'
  BY PagesGoOn
<1> QED
  BY <1>1, <1>2, PTL DEF Spec

\* A page from which somebody changed a row comes to show the outcome: the answer of a
\* fetch that began before the change does not stay (onSuccess of the hooks), for any
\* number of administrators, submissions and changes.  (Not of a booking's own page
\* that was still fetching it for the first time: see BookingPages.)
THEOREM OutcomesAreShown == Spec => []OwnActionShown
<1>1. PagesInv => OwnActionShown
  <2> SUFFICES ASSUME PagesInv
               PROVE  OwnActionShown
    OBVIOUS
  <2>1. part = "traveler" => Traveler!OwnActionShown
    BY BookingsOfBrowser, BookingOutcomeShown, HandsOfBrowsers DEF PagesInv
  <2>2. part = "provider bookings" => ProviderBookings!OwnActionShown
    BY BookingsOfBrowser, BookingOutcomeShown, HandsOfBrowsers DEF PagesInv
  <2>3. {"users", "reviews"} \in SUBSET AdminPageNames
    BY DEF AdminPageNames
  <2>4. part = "lists" => Lists!OwnActionShown
    BY <2>3, AdminsOfBrowser, AdminPagesKeepUp DEF PagesInv
  <2>5. Onboarding!OwnSubmissionShown
    BY OwnersKeepUp, InstancesAssumption DEF PagesInv
  <2> QED
    BY <2>1, <2>2, <2>4, <2>5 DEF OwnActionShown
<1> QED
  BY <1>1, PagesInvHolds, PTL

\* What the pages of providers and administrators offer is refused only if the row has
\* changed since the page showed it, but for the approval of an application that nobody
\* has taken into review (getActions, canApprove).
THEOREM OffersAreGood == Spec => []RefusedOnlyWhenStale
<1>1. PagesInv => RefusedOnlyWhenStale
  <2> SUFFICES ASSUME PagesInv
               PROVE  RefusedOnlyWhenStale
    OBVIOUS
  <2>1. part = "provider bookings" => ProviderBookings!RefusedOnlyWhenStale
    BY BookingsOfBrowser, ProviderIsRefusedWhenStale DEF PagesInv
  <2>2. /\ {"providers", "provider"} \in SUBSET AdminPageNames
        /\ {"provider"} \in SUBSET AdminPageNames
    BY DEF AdminPageNames
  <2>3. part = "applications" => Applications!OfferedIsValidOtherwise
    BY <2>2, AdminsOfBrowser, AdminPagesKeepUp DEF PagesInv
  <2>4. part = "decisions" => Decisions!OfferedIsValidOtherwise
    BY <2>2, AdminsOfBrowser, AdminPagesKeepUp DEF PagesInv
  <2> QED
    BY <2>1, <2>3, <2>4 DEF RefusedOnlyWhenStale
<1> QED
  BY <1>1, PagesInvHolds, PTL

\* Whom the server would accept, a page that is up to date offers to submit: what the
\* page checks of the profile, the documents and the services is no more than what the
\* server checks, in every status from which it lets a provider submit.
THEOREM NobodyStaysLockedOut == Spec => []NobodyIsLockedOut
<1>1. PagesInv => NobodyIsLockedOut
  BY OwnersKeepUp, InstancesAssumption DEF PagesInv, NobodyIsLockedOut
<1> QED
  BY <1>1, PagesInvHolds, PTL

\* When the socket of the manager is connected and the server has handled what it
\* emitted, it is in the room of the manager's current thread, unless the server refused
\* or failed over this connection: for any number of threads, sockets and messages, also
\* after the connection broke or another socket took its place.
THEOREM RoomsAreJoinedAgain == Spec => []RejoinsAfterReconnect
<1>1. PagesInv => RejoinsAfterReconnect
  <2> SUFFICES ASSUME PagesInv
               PROVE  RejoinsAfterReconnect
    OBVIOUS
  <2>1. part = "rooms" => Rooms!RejoinsAfterReconnect
    BY ChatsOfBrowser, JoinsAgain, InstancesAssumption DEF PagesInv
  <2>2. part # "rooms" => Thread!RejoinsAfterReconnect
    BY ChatsOfBrowser, JoinsAgain, InstancesAssumption DEF PagesInv
  <2> QED
    BY <2>1, <2>2 DEF RejoinsAfterReconnect
<1> QED
  BY <1>1, PagesInvHolds, PTL

\* The caches, forms, mutations, tokens and sockets of every page, and what the server
\* keeps for it, are what their types allow, for any number of users, pages, requests,
\* sockets and threads.
THEOREM PageTypesStayCorrect == Spec => []TypeOK
<1> DEFINE follows == part = "profile"
<1>1. Init => PagesInv /\ New!Init /\ Documents!Init /\ Destination!Init /\ Profile!Init
              /\ AuthUser!Init /\ Api!Init
  BY PagesBegin DEF Init, Destination!Init, Profile!Init, Destination!Contents, Profile!Contents,
         Destination!Choices, Profile!Choices
<1>2. /\ PagesInv /\ [Next]_vars => PagesInv'
      /\ [Next]_vars => /\ [New!Next]_(New!vars)
                        /\ [Documents!Next]_(Documents!vars)
                        /\ [AuthUser!Next]_(AuthUser!vars)
                        /\ [Api!Next]_(Api!vars)
      /\ follows /\ [Next]_vars => follows' /\ [Profile!Next]_(Profile!vars)
      /\ ~follows /\ [Next]_vars => ~follows' /\ [Destination!Next]_(Destination!vars)
  BY PagesGoOn, OwnSteps
<1>3. New!Spec => []New!TypeOK
  <2>1. New!Spec => [](New!TypeOK /\ New!BookedOnceAsSubmitted)
    BY BookedOnce, InstancesAssumption DEF FirstChoice
  <2> QED
    BY <2>1, PTL
<1>4. Documents!Spec => []Documents!TypeOK
  <2>1. Documents!Spec => []RecordsAreOfUploads
    BY DocumentsInvariant, InstancesAssumption
  <2>2. RecordsAreOfUploads => Documents!TypeOK
    BY DEF RecordsAreOfUploads
  <2> QED
    BY <2>1, <2>2, PTL
<1>5. Profile!Spec => []Destination!TypeOK
  <2>1. Profile!Spec => []Profile!TypeOK
    BY ProfileEditsAreKept, InstancesAssumption
  <2> QED
    BY <2>1, ProfileIsDestination, PTL
<1>6. Destination!Spec => []Destination!TypeOK
  <2>1. Destination!Spec => []Destination!TypeOK
    BY DestinationEditsAreKept, InstancesAssumption
  <2> QED
    BY <2>1, PTL
<1>7. AuthUser!Init /\ [][AuthUser!Next]_(AuthUser!vars) => []AuthUser!TypeOK
  <2>1. AuthUser!Init /\ [][AuthUser!Next]_(AuthUser!vars)
          => [](AuthUser!TypeOK /\ AuthUser!LoggedOutIsGone)
    BY LogoutIsFinal, InstancesAssumption
  <2> QED
    BY <2>1, PTL
<1>8. Api!Spec => []Api!TypeOK
  BY ApiClientTypeCorrect, InstancesAssumption DEF TokensAreFinite
<1>9. PagesInv /\ New!TypeOK /\ Documents!TypeOK /\ Destination!TypeOK /\ AuthUser!TypeOK
      /\ Api!TypeOK => TypeOK
  <2> SUFFICES ASSUME PagesInv, New!TypeOK, Documents!TypeOK, Destination!TypeOK,
                      AuthUser!TypeOK, Api!TypeOK
               PROVE  TypeOK
    OBVIOUS
  <2>1. IF part = "provider bookings" THEN ProviderBookings!TypeOK ELSE Traveler!TypeOK
    BY BookingsAreTyped DEF PagesInv
  <2>2. (CASE part = "applications" -> Applications!TypeOK
           [] part = "decisions" -> Decisions!TypeOK
           [] OTHER -> Lists!TypeOK)
    BY AdminsAreTyped DEF PagesInv
  <2>3. Onboarding!TypeOK
    BY OwnersAreTyped DEF PagesInv
  <2>4. IF part = "rooms" THEN Rooms!TypeOK ELSE Thread!TypeOK
    BY ChatsAreTyped DEF PagesInv
  <2> QED
    BY <2>1, <2>2, <2>3, <2>4 DEF TypeOK, PagesInv
<1> HIDE DEF follows
<1>10. Init /\ [][Next]_vars => []PagesInv
  BY <1>1, <1>2, PTL
<1>11. Init /\ [][Next]_vars => []New!TypeOK /\ []Documents!TypeOK /\ []AuthUser!TypeOK
                                /\ []Api!TypeOK
  BY <1>1, <1>2, <1>3, <1>4, <1>7, <1>8, PTL DEF New!Spec, Documents!Spec, Api!Spec
<1>12. Init /\ [][Next]_vars => []Destination!TypeOK
  BY <1>1, <1>2, <1>5, <1>6, PTL DEF Profile!Spec, Destination!Spec
<1> QED
  BY <1>9, <1>10, <1>11, <1>12, PTL DEF Spec
=============================================================================
