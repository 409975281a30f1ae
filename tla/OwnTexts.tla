------------------------------ MODULE OwnTexts ------------------------------
(***************************************************************************)
(* What Hex Fiend promises to the user of several documents, however their *)
(* byte arrays read from each other's files: a document's text, its edit   *)
(* history and the clipboard are values of their own, and saving one       *)
(* document does not change them.  A save may make others forget their     *)
(* history, empty the clipboard and, with the user's consent, close other  *)
(* documents.  A save that does not succeed may spoil the text of the      *)
(* document being saved, and of no other.                                  *)
(***************************************************************************)
EXTENDS Integers, Sequences

CONSTANT Typed   \* the byte typed

VARIABLES
    text,    \* of each document
    past,    \* what undoing replaces, of each document, the last edit last
    clip,    \* the clipboard
    closed,  \* the documents that have been closed
    spoilt   \* those that have had a save that did not succeed

vars == <<text, past, clip, closed, spoilt>>

Last(s) == s[Len(s)]
Front(s) == SubSeq(s, 1, Len(s) - 1)

Replaced(t, edit) ==
    SubSeq(t, 1, edit.at - 1) \o edit.bytes
        \o SubSeq(t, edit.at + edit.length, Len(t))

\* What undoes an edit of the text t.
Inverse(t, edit) ==
    [at |-> edit.at, length |-> Len(edit.bytes),
     bytes |-> SubSeq(t, edit.at, edit.at + edit.length - 1)]

Edit(d, edit) ==
    /\ text' = [text EXCEPT ![d] = Replaced(@, edit)]
    /\ past' = [past EXCEPT ![d] = Append(@, Inverse(text[d], edit))]
    /\ UNCHANGED <<clip, closed, spoilt>>

Type(d) ==
    \E at \in 1 .. (Len(text[d]) + 1) :
        Edit(d, [at |-> at, length |-> 0, bytes |-> <<Typed>>])

Delete(d) ==
    \E at \in DOMAIN text[d] : \E length \in 1 .. (Len(text[d]) + 1 - at) :
        Edit(d, [at |-> at, length |-> length, bytes |-> <<>>])

Paste(d) ==
    /\ clip # <<>>
    /\ \E at \in 1 .. (Len(text[d]) + 1) :
            Edit(d, [at |-> at, length |-> 0, bytes |-> clip])

Copy(d) ==
    /\ \E from, to \in DOMAIN text[d] :
            from <= to /\ clip' = SubSeq(text[d], from, to)
    /\ UNCHANGED <<text, past, closed, spoilt>>

Undo(d) ==
    /\ past[d] # <<>>
    /\ Last(past[d]).at + Last(past[d]).length - 1 <= Len(text[d])
    /\ text' = [text EXCEPT ![d] = Replaced(@, Last(past[d]))]
    /\ past' = [past EXCEPT ![d] = Front(@)]
    /\ UNCHANGED <<clip, closed, spoilt>>

Forget ==
    /\ clip' \in {clip, <<>>}
    /\ closed \subseteq closed'
    /\ UNCHANGED spoilt
    /\ \A d \in DOMAIN text :
          /\ text'[d] = IF d \in closed' THEN <<>> ELSE text[d]
          /\ \/ past'[d] = <<>>
             \/ past'[d] = past[d] /\ d \notin closed'

Spoil(d) ==
    /\ spoilt' = spoilt \cup {d}
    /\ \A e \in (DOMAIN text \ {d}) \cup closed : text'[e] = text[e]
    /\ UNCHANGED <<past, clip, closed>>

Next ==
    \/ \E d \in DOMAIN text \ closed :
          Type(d) \/ Delete(d) \/ Paste(d) \/ Copy(d) \/ Undo(d)
    \/ \E d \in DOMAIN text : Spoil(d)
    \/ Forget

Init ==
    /\ past = [d \in DOMAIN text |-> <<>>]
    /\ clip = <<>>
    /\ closed = {} /\ spoilt = {}

Spec == Init /\ [][Next]_vars
=============================================================================
