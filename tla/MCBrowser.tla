----------------------------- MODULE MCBrowser -----------------------------
(***************************************************************************)
(* Browser on small instances of its components.                           *)
(***************************************************************************)
EXTENDS Browser

\* One file is of a type that is refused.
MimeOf == [f \in Files |-> CASE f = "photo" -> "image/webp"
                            [] f = "text" -> "text/plain"
                            [] f = "licence" -> "application/pdf"]

Sizes == [f \in Files |-> 3]

Columns == [name |-> {1, 2}, latitude |-> {1}]
=============================================================================
