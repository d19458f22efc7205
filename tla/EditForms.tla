------------------------------ MODULE EditForms ------------------------------
(***************************************************************************)
(* Forms that edit a row which others edit too: the dialogs of the admins  *)
(* for packages and destinations, and the profile of a provider.  A form   *)
(* is a copy of the row that the browser has cached, all of it is sent,    *)
(* and the server writes what it is sent: `version` is not looked at.      *)
(*                                                                         *)
(* There is one row; a browser has one form open, one save and one fetch   *)
(* under way.                                                              *)
(***************************************************************************)
EXTENDS Naturals

CONSTANTS
  Editors,  \* browsers
  Fields,   \* columns of the row
  Optional, \* those that may be empty
  Dropped,  \* those that a form leaves out when they are empty
  Refills,  \* whether the form follows the cached row, as that of a provider does
  Values,   \* what may be typed into each field
  Empty,    \* null, or ''
  None,     \* no form, no save
  MaxSaves  \* bound: saves, and changes by others

\* What an instance must satisfy.
FieldsAssumption == Dropped \subseteq Optional /\ Optional \subseteq Fields

VARIABLES
  row,     \* the row: its fields, and a version, which updatedAt stands for
  cached,  \* the row as the list of each browser has it
  served,  \* the answer on its way to each browser
  form,    \* what each form shows
  save,    \* the PATCH of each browser
  from,    \* ghost: the version that each form was filled from
  typed,   \* ghost: the fields that have been typed into since
  saves    \* how many saves and other changes there were

vars == <<row, cached, served, form, save, from, typed, saves>>

Choices(f) == Values[f] \cup (IF f \in Optional THEN {Empty} ELSE {})

Contents == {r \in [Fields -> UNION {Choices(f) : f \in Fields}] :
               \A f \in Fields : r[f] \in Choices(f)}

Row == [fields : Contents, version : Nat]

\* from and typed are those of the form when it was submitted.
Patch == [form : Contents, from : Nat, typed : SUBSET Fields, stored : BOOLEAN]

TypeOK ==
  /\ row \in Row
  /\ cached \in [Editors -> Row]
  /\ served \in [Editors -> Row \cup {None}]
  /\ form \in [Editors -> Contents \cup {None}]
  /\ save \in [Editors -> Patch \cup {None}]
  /\ from \in [Editors -> Nat]
  /\ typed \in [Editors -> SUBSET Fields]
  /\ saves \in 0..MaxSaves

Init ==
  /\ row \in [fields : Contents, version : {0}]
  /\ cached = [e \in Editors |-> row]
  /\ form = [e \in Editors |-> None] /\ save = form /\ served = form
  /\ from = [e \in Editors |-> 0]
  /\ typed = [e \in Editors |-> {}]
  /\ saves = 0

-----------------------------------------------------------------------------
(* The form.                                                               *)

\* Mutant: a field that must not be empty is forgotten.
CopyWithoutName(r) ==
  [r.fields EXCEPT ![CHOOSE f \in Fields \ Optional : TRUE] = Empty]

\* openEdit, initial, useEffect: the row as the list has it, not as it is.
Copy(r) == r.fields

Filled(e, r) ==
  /\ form' = [form EXCEPT ![e] = Copy(r)]
  /\ from' = [from EXCEPT ![e] = r.version]
  /\ typed' = [typed EXCEPT ![e] = {}]

Open(e) ==
  /\ form[e] = None
  /\ Filled(e, cached[e])
  /\ UNCHANGED <<row, cached, served, save, saves>>

Type(e, f, v) ==
  /\ form[e] # None /\ v # form[e][f]
  /\ form' = [form EXCEPT ![e][f] = v]
  /\ typed' = [typed EXCEPT ![e] = @ \cup {f}]
  /\ UNCHANGED <<row, cached, served, save, from, saves>>

Closed(e) ==
  /\ form' = [form EXCEPT ![e] = None]
  /\ from' = [from EXCEPT ![e] = 0]
  /\ typed' = [typed EXCEPT ![e] = {}]

\* Cancel, Escape, a click beside the dialog: also while it is saved.
Close(e) ==
  /\ form[e] # None /\ Closed(e)
  /\ UNCHANGED <<row, cached, served, save, saves>>

Submit(e) ==
  /\ form[e] # None /\ save[e] = None /\ saves < MaxSaves
  /\ save' = [save EXCEPT ![e] =
       [form |-> form[e], from |-> from[e], typed |-> typed[e], stored |-> FALSE]]
  /\ saves' = saves + 1
  /\ UNCHANGED <<row, cached, served, form, from, typed>>

-----------------------------------------------------------------------------
(* The save.                                                               *)

\* formToPayload: the fields that are sent.
Payload(p) == Fields \ {f \in Dropped : p.form[f] = Empty}

\* The service reads the row to see that it is there, and updates it: also when
\* nothing is written that it does not have, for updatedAt is.
Store(e) ==
  /\ save[e] # None /\ ~save[e].stored
  /\ row' = [fields |-> [f \in Fields |->
                IF f \in Payload(save[e]) THEN save[e].form[f] ELSE row.fields[f]],
             version |-> row.version + 1]
  /\ save' = [save EXCEPT ![e].stored = TRUE]
  /\ UNCHANGED <<cached, served, form, from, typed, saves>>

\* Whatever else writes the row: a page that the instance has no editor for, a
\* decision of an administrator, the rating of a provider.
ChangeElsewhere(r) ==
  /\ saves < MaxSaves
  /\ row' = [fields |-> r, version |-> row.version + 1]
  /\ saves' = saves + 1
  /\ UNCHANGED <<cached, served, form, save, from, typed>>

\* The form that is open by now is closed; that of a provider stays.  A fetch
\* under way is given up for the one that the invalidation begins.
SaveAnswered(e) ==
  /\ save[e] # None /\ save[e].stored
  /\ save' = [save EXCEPT ![e] = None]
  /\ served' = [served EXCEPT ![e] = None]
  /\ IF Refills THEN UNCHANGED <<form, from, typed>> ELSE Closed(e)
  /\ UNCHANGED <<row, cached, saves>>

\* Refused, or lost on the way there or back: the dialog shows an error.
SaveFails(e) ==
  /\ save[e] # None
  /\ save' = [save EXCEPT ![e] = None]
  /\ UNCHANGED <<row, cached, served, form, from, typed, saves>>

-----------------------------------------------------------------------------
(* The list is fetched: after a save of its own, on a page that is shown   *)
(* when it is a minute old, or when the network is back.                   *)

\* Not from Redis: /providers/me and the lists of an administrator are not cached.
Serve(e) ==
  /\ served[e] = None
  /\ served' = [served EXCEPT ![e] = row]
  /\ UNCHANGED <<row, cached, form, save, from, typed, saves>>

FetchFails(e) ==
  /\ served[e] # None
  /\ served' = [served EXCEPT ![e] = None]
  /\ UNCHANGED <<row, cached, form, save, from, typed, saves>>

\* Mutant: every answer is another object, and the effect runs for each.
FetchedAnew(e) ==
  /\ served[e] # None
  /\ served' = [served EXCEPT ![e] = None]
  /\ cached' = [cached EXCEPT ![e] = served[e]]
  /\ IF Refills /\ form[e] # None
     THEN Filled(e, served[e])
     ELSE UNCHANGED <<form, from, typed>>
  /\ UNCHANGED <<row, save, saves>>

\* The cache keeps its object if the answer is the same: only another one
\* makes the effect of the profile page run, which fills the form again.
Fetched(e) ==
  /\ served[e] # None
  /\ served' = [served EXCEPT ![e] = None]
  /\ cached' = [cached EXCEPT ![e] = served[e]]
  /\ IF Refills /\ form[e] # None /\ served[e] # cached[e]
     THEN Filled(e, served[e])
     ELSE UNCHANGED <<form, from, typed>>
  /\ UNCHANGED <<row, save, saves>>

Next ==
  \/ \E e \in Editors :
       \/ Open(e) \/ Close(e) \/ Submit(e)
       \/ \E f \in Fields : \E v \in Choices(f) : Type(e, f, v)
       \/ Store(e) \/ SaveAnswered(e) \/ SaveFails(e)
       \/ Serve(e) \/ FetchFails(e) \/ Fetched(e)
  \/ \E r \in Contents : ChangeElsewhere(r)

Spec == Init /\ [][Next]_vars

-----------------------------------------------------------------------------
(* Properties, of a step.                                                  *)

Stored(e) == save[e] # None /\ ~save[e].stored /\ save'[e] # None /\ save'[e].stored

(* A save takes back what another has saved only if that was saved after   *)
(* the form was filled: of a row that has not changed since, it changes no *)
(* field but those typed into, although the whole form is sent.            *)
OthersAreKept ==
  \A e \in Editors : Stored(e) /\ save[e].from = row.version =>
    \A f \in Fields \ save[e].typed : row'.fields[f] = row.fields[f]

(* An open form changes under its user's hands only if the row has changed *)
(* since the form was filled: all the other fetches leave what was typed.  *)
TypingIsKept ==
  \A e \in Editors : form[e] # None /\ form'[e] # None /\ form'[e] # form[e] =>
    \/ from[e] # row.version
    \/ \E f \in typed'[e] : form'[e] = [form[e] EXCEPT ![f] = form'[e][f]]

-----------------------------------------------------------------------------
(* What comments, pages and tests say and the code does not keep: TLC      *)
(* refutes each on a small instance.                                       *)

(* No update is lost: whatever the form was copied from, a save changes    *)
(* nothing that has not been typed.                                        *)
NoLostUpdate ==
  [][\A e \in Editors : Stored(e) =>
       \A f \in Fields \ save[e].typed : row'.fields[f] = row.fields[f]]_vars

(* What may be left empty can be emptied: what has been typed is stored.   *)
TypedIsStored ==
  [][\A e \in Editors : Stored(e) =>
       \A f \in save[e].typed : row'.fields[f] = save[e].form[f]]_vars

(* What is typed while a save is under way is still there when it is done. *)
TypingSurvives ==
  [][\A e \in Editors : form[e] # None /\ form'[e] # None => typed[e] \subseteq typed'[e]]_vars
=============================================================================
