---------------------------- MODULE UndoableText ----------------------------
(***************************************************************************)
(* What the edit history of the Linux application promises: each edit can  *)
(* be undone, giving back exactly the text there was before it, and undone *)
(* edits can be redone until another edit is made.                         *)
(***************************************************************************)
EXTENDS Naturals, Sequences

VARIABLES
    past,     \* the texts that undoing gives back, the last one first
    present,  \* the text
    future    \* the texts that redoing gives back, the first one first

Init == past = <<>> /\ future = <<>>

Last(s) == s[Len(s)]
Front(s) == SubSeq(s, 1, Len(s) - 1)

\* Whatever the new text is, the old one can be had back.
Edit ==
    /\ past' = Append(past, present)
    /\ future' = <<>>

\* One command that is undone in two steps.
EditTwice ==
    /\ Len(past') = Len(past) + 2
    /\ Front(past') = Append(past, present)
    /\ future' = <<>>

\* The last edit goes on: it will be undone as a whole.  Only the first of
\* two hexadecimal digits can be completed like this, so that the text keeps
\* its length and one byte of it changes.
CompleteEdit ==
    /\ past # <<>> /\ future = <<>>
    /\ Len(present') = Len(present)
    /\ \E i \in DOMAIN present : present' = [present EXCEPT ![i] = present'[i]]
    /\ UNCHANGED <<past, future>>

Undo ==
    /\ past # <<>>
    /\ present' = Last(past)
    /\ past' = Front(past)
    /\ future' = <<present>> \o future

Redo ==
    /\ future # <<>>
    /\ present' = Head(future)
    /\ past' = Append(past, present)
    /\ future' = Tail(future)

Next == CompleteEdit \/ Undo \/ Redo \/ Edit \/ EditTwice

Spec == Init /\ [][Next]_<<past, present, future>>
=============================================================================
