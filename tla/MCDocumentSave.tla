--------------------------- MODULE MCDocumentSave ---------------------------
(***************************************************************************)
(* Two documents, each of which may be saved while the other one is.       *)
(***************************************************************************)
EXTENDS DocumentSave

CONSTANTS a, b

Both == {a, b}

\* A document that edits can only make shorter, and one that may grow.
Lengths == [d \in Both |-> IF d = a THEN 2 ELSE 1]
=============================================================================
