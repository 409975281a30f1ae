--------------------------- MODULE UndoableTyping ---------------------------
(***************************************************************************)
(* What the edit history of HFController promises.  Edits are undone and   *)
(* redone one by one, except that a string of typing is one edit: while it *)
(* is open it may go on, and undoing it takes all of it back.  All edits   *)
(* may be forgotten at once; whatever is done afterwards can be undone.    *)
(***************************************************************************)
EXTENDS Naturals, Sequences

VARIABLES
    past,     \* the texts that undoing gives back, the last one first
    present,  \* the text
    future,   \* the texts that redoing gives back, the next one last
    open      \* whether the last edit may go on

Init == past = <<>> /\ future = <<>> /\ ~open

Last(s) == s[Len(s)]
Front(s) == SubSeq(s, 1, Len(s) - 1)

Edit ==
    /\ past' = Append(past, present)
    /\ future' = <<>>

GoOn ==
    /\ open /\ past # <<>>
    /\ UNCHANGED <<past, future>>

Close ==
    /\ ~open'
    /\ UNCHANGED <<past, present, future>>

Forget ==
    /\ past' = <<>> /\ future' = <<>> /\ ~open'
    /\ UNCHANGED present

Undo ==
    /\ past # <<>>
    /\ present' = Last(past)
    /\ past' = Front(past)
    /\ future' = Append(future, present)
    /\ ~open'

Redo ==
    /\ future # <<>>
    /\ present' = Last(future)
    /\ past' = Append(past, present)
    /\ future' = Front(future)
    /\ ~open'

Next == Close \/ GoOn \/ Edit \/ Forget \/ Undo \/ Redo

Spec == Init /\ [][Next]_<<past, present, future, open>>
=============================================================================
