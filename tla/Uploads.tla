------------------------------ MODULE Uploads ------------------------------
(***************************************************************************)
(* The documents page of a provider: a file is dropped, uploaded at once,  *)
(* and recorded as a document when the upload is answered.                 *)
(*                                                                         *)
(* The drop zone shows one file, but what it started goes on when the file *)
(* is removed from it, or the form hidden; several uploads may be under    *)
(* way.  Each file is chosen once at most.                                 *)
(***************************************************************************)
EXTENDS Naturals

CONSTANTS
  Files,    \* choices of a file
  Types,    \* types of documents
  First,    \* the one that is selected at first
  None,     \* no file
  Mime,     \* of each file
  Size      \* of each file, in MB

VARIABLES
  form,     \* the form is shown
  type,     \* the type that is selected
  zone,     \* what the drop zone shows
  upload,   \* how far the upload of each file is
  chosen,   \* the type that was selected when the file was chosen
  adrift,   \* uploads started by a drop zone that is no longer there
  latest,   \* the file whose recording was asked for last
  disk,     \* files under uploads/
  docs,     \* table provider_documents
  removed   \* ghost: files that were removed, or whose form was cancelled, while under way

vars == <<form, type, zone, upload, chosen, adrift, latest, disk, docs, removed>>

Stages ==
  {"none", "sent", "stored", "recording", "recorded", "done", "failed", "refused"}

UnderWay == {"sent", "stored", "recording"}

Blank == [file |-> None, uploading |-> FALSE, success |-> FALSE, error |-> FALSE]

TypeOK ==
  /\ form \in BOOLEAN /\ type \in Types
  /\ zone \in [file : Files \cup {None}, uploading : BOOLEAN, success : BOOLEAN, error : BOOLEAN]
  /\ upload \in [Files -> Stages]
  /\ chosen \in [Files -> Types]
  /\ adrift \subseteq Files /\ latest \in Files \cup {None}
  /\ disk \subseteq Files
  /\ docs \subseteq [file : Files, type : Types]
  /\ removed \subseteq Files
  /\ form \/ zone = Blank

Init ==
  /\ form = FALSE /\ type = First /\ zone = Blank
  /\ upload = [f \in Files |-> "none"]
  /\ chosen = [f \in Files |-> First]
  /\ adrift = {} /\ latest = None /\ disk = {} /\ docs = {} /\ removed = {}

-----------------------------------------------------------------------------
(* Sizes and kinds that each of the three parties accepts.                 *)

AllowedMimeTypes == {"application/pdf", "image/jpeg", "image/png", "image/webp"}

AllowedDocumentMimeTypes == AllowedMimeTypes \ {"image/webp"}

MaxSizeMB == 10       \* of the drop zone
MaxFileSize == 10     \* of the storage, of the decoded file
MaxRequestBody == 10  \* of express.json, of the encoded one

\* Base64 makes four bytes of three.
Encoded(f) == (4 * Size[f] + 2) \div 3

Accepted(f) == Mime[f] \in AllowedMimeTypes /\ Size[f] <= MaxSizeMB

Storable(f) ==
  /\ Encoded(f) <= MaxRequestBody
  /\ Mime[f] \in AllowedMimeTypes /\ Size[f] <= MaxFileSize

-----------------------------------------------------------------------------
(* The user.                                                               *)

ShowForm ==
  /\ ~form /\ form' = TRUE
  /\ UNCHANGED <<type, zone, upload, chosen, adrift, latest, disk, docs, removed>>

\* The drop zone goes with the form; what it started does not.
Hidden ==
  /\ form' = FALSE /\ zone' = Blank
  /\ adrift' = adrift \cup {f \in Files : upload[f] # "none"}

\* Cancel
HideForm ==
  /\ form /\ Hidden
  /\ removed' = removed \cup {f \in Files : upload[f] \in UnderWay}
  /\ UNCHANGED <<type, upload, chosen, latest, disk, docs>>

ChooseType(t) ==
  /\ form /\ type' = t
  /\ UNCHANGED <<form, zone, upload, chosen, adrift, latest, disk, docs, removed>>

\* handleFile, up to the answer of the upload.
HandleFile(f) ==
  /\ form /\ zone.file = None /\ upload[f] = "none"
  /\ Accepted(f)
  /\ zone' = [file |-> f, uploading |-> TRUE, success |-> FALSE, error |-> FALSE]
  /\ upload' = [upload EXCEPT ![f] = "sent"]
  /\ chosen' = [chosen EXCEPT ![f] = type]
  /\ UNCHANGED <<form, type, adrift, latest, disk, docs, removed>>

RefuseFile(f) ==
  /\ form /\ zone.file = None /\ upload[f] = "none"
  /\ ~Accepted(f)
  /\ zone' = [zone EXCEPT !.error = TRUE, !.success = FALSE]
  /\ UNCHANGED <<form, type, upload, chosen, adrift, latest, disk, docs, removed>>

\* handleClear, "Remove file": whether an upload is under way is left as it is.
Clear ==
  /\ zone.file # None
  /\ zone' = [Blank EXCEPT !.uploading = zone.uploading]
  /\ removed' = IF upload[zone.file] \in UnderWay THEN removed \cup {zone.file} ELSE removed
  /\ UNCHANGED <<form, type, upload, chosen, adrift, latest, disk, docs>>

DeleteDocument(d) ==
  /\ docs' = docs \ {d}
  /\ UNCHANGED <<form, type, zone, upload, chosen, adrift, latest, disk, removed>>

-----------------------------------------------------------------------------
(* The upload.                                                             *)

Store(f) ==
  /\ upload[f] = "sent" /\ Storable(f)
  /\ upload' = [upload EXCEPT ![f] = "stored"]
  /\ disk' = disk \cup {f}
  /\ UNCHANGED <<form, type, zone, chosen, adrift, latest, docs, removed>>

\* Mutant: the drop zone does not wait for the answer.
UploadAnsweredAtOnce(f) ==
  /\ upload[f] \in {"sent", "stored"}
  /\ upload' = [upload EXCEPT ![f] = "recording"]
  /\ zone' = IF f \in adrift THEN zone ELSE [zone EXCEPT !.uploading = FALSE, !.success = TRUE]
  /\ latest' = f
  /\ UNCHANGED <<form, type, chosen, adrift, disk, docs, removed>>

\* Of whichever file the zone shows now; the page is asked to record the file.
UploadAnswered(f) ==
  /\ upload[f] = "stored"
  /\ upload' = [upload EXCEPT ![f] = "recording"]
  /\ zone' = IF f \in adrift THEN zone ELSE [zone EXCEPT !.uploading = FALSE, !.success = TRUE]
  /\ latest' = f
  /\ UNCHANGED <<form, type, chosen, adrift, disk, docs, removed>>

\* Refused, or the network fails, before the file was stored or after.
UploadFails(f) ==
  /\ upload[f] \in {"sent", "stored"}
  /\ upload' = [upload EXCEPT ![f] = "failed"]
  /\ zone' = IF f \in adrift THEN zone ELSE [zone EXCEPT !.uploading = FALSE, !.error = TRUE]
  /\ UNCHANGED <<form, type, chosen, adrift, latest, disk, docs, removed>>

-----------------------------------------------------------------------------
(* The document.                                                           *)

\* handleDropzoneSuccess is that of the render in which the file was chosen.
RecordedType(f) == chosen[f]

Record(f) ==
  /\ upload[f] = "recording"
  /\ Mime[f] \in AllowedDocumentMimeTypes /\ Size[f] <= MaxFileSize
  /\ upload' = [upload EXCEPT ![f] = "recorded"]
  /\ docs' = docs \cup {[file |-> f, type |-> RecordedType(f)]}
  /\ UNCHANGED <<form, type, zone, chosen, adrift, latest, disk, removed>>

\* The callback of the latest mutation hides the form, whatever it shows by now.
RecordAnswered(f) ==
  /\ upload[f] = "recorded"
  /\ upload' = [upload EXCEPT ![f] = "done"]
  /\ IF f = latest THEN Hidden ELSE UNCHANGED <<form, zone, adrift>>
  /\ UNCHANGED <<type, chosen, latest, disk, docs, removed>>

RecordFails(f) ==
  /\ upload[f] \in {"recording", "recorded"}
  /\ upload' = [upload EXCEPT ![f] = "refused"]
  /\ UNCHANGED <<form, type, zone, chosen, adrift, latest, disk, docs, removed>>

Next ==
  \/ ShowForm \/ HideForm \/ Clear
  \/ \E t \in Types : ChooseType(t)
  \/ \E d \in docs : DeleteDocument(d)
  \/ \E f \in Files :
       \/ HandleFile(f) \/ RefuseFile(f) \/ Store(f) \/ UploadAnswered(f) \/ UploadFails(f)
       \/ Record(f) \/ RecordAnswered(f) \/ RecordFails(f)

Spec == Init /\ [][Next]_vars

-----------------------------------------------------------------------------
(* Properties.                                                             *)

(* A document is recorded as of the type that was selected when its file   *)
(* was chosen, although the user may select another while it is uploaded.  *)
RecordedAsChosen == \A d \in docs : d.type = chosen[d.file]

(* A document has its file: no upload is recorded before it is stored.     *)
DocumentsAreStored == \A d \in docs : d.file \in disk

-----------------------------------------------------------------------------
(* What comments, pages and tests say and the code does not keep: TLC      *)
(* refutes each on a small instance.                                       *)

(* "Uploaded successfully": the file that the drop zone shows is stored.   *)
SuccessIsOfFile == zone.success /\ zone.file # None => zone.file \in disk

(* "Remove file", "Cancel": a file that the user has given up is not       *)
(* recorded as a document.                                                 *)
RemovedIsNotRecorded == \A d \in docs : d.file \notin removed

(* "Up to 10MB": what the drop zone sends, the server can take.            *)
AcceptedIsStorable == \A f \in Files : upload[f] = "sent" => Storable(f)
=============================================================================
