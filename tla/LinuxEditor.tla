----------------------------- MODULE LinuxEditor -----------------------------
(***************************************************************************)
(* The editor of the Linux application (ui/linux/src/main.cpp): caret,     *)
(* ranges of selected bytes, typing of characters and of hexadecimal       *)
(* digits, deleting, pasting, replacing, and the edit history.             *)
(*                                                                         *)
(* A step is one handler and the clampView with which the next frame       *)
(* starts.  Scrolling, the clipboard's format and status texts are left    *)
(* out; the arrow keys, a click and a drag all end in selectCharacter.     *)
(* A byte is a pair of hexadecimal digits.  The vector of additional       *)
(* selections is the set of positions it covers: its ranges are kept       *)
(* sorted, disjoint and not adjacent by normalizedRanges.                  *)
(***************************************************************************)
EXTENDS Integers, SequencesExt

CONSTANTS
    Digits,          \* the hexadecimal digits; 0 is one
    Texts,           \* what the document opened may contain
    Characters,      \* the bytes typed in the text pane
    TypedDigits,     \* the digits typed in the hexadecimal pane
    Clipboards,      \* the bytes pasted
    Patterns,        \* the bytes searched for
    Replacements,    \* the bytes they are replaced by
    EditModes,       \* the modes the user switches to
    Offsets,         \* where the user puts the caret
    MultiSelection,  \* whether the user selects several ranges
    MaxLength,       \* bounds the text
    MaxHistory       \* bounds the undo stack

Byte == Digits \X Digits

ASSUME LinuxEditorAssumption ==
    /\ 0 \in Digits /\ Digits \subseteq 0 .. 15
    /\ Texts \cup Clipboards \cup Patterns \cup Replacements \subseteq Seq(Byte)
    /\ <<>> \notin Patterns /\ <<>> \notin Clipboards
    /\ Characters \subseteq Byte /\ TypedDigits \subseteq Digits
    /\ EditModes \subseteq {"Insert", "Overwrite", "ReadOnly"}
    /\ Offsets \subseteq Nat /\ MultiSelection \in BOOLEAN
    /\ MaxLength \in Nat /\ MaxHistory \in Nat
    /\ \A t \in Texts : Len(t) <= MaxLength

VARIABLES
    text,      \* the bytes of the document
    view,      \* the selection and pending input of ViewState
    editMode,
    undo,      \* EditHistory
    redo

vars == <<text, view, editMode, undo, redo>>

NoDigit == -1
NoDrag == [anchor |-> -1, base |-> {}]

Least(m, n) == IF m <= n THEN m ELSE n
Greatest(m, n) == IF m >= n THEN m ELSE n

-----------------------------------------------------------------------------
(* EngineDocument *)

InDocument(t, offset, length) == offset + length <= Len(t)

\* replace: of a range of the document
Replaced(t, offset, length, bytes) ==
    SubSeq(t, 1, offset) \o bytes \o SubSeq(t, offset + length + 1, Len(t))

BytesAt(t, offset, length) == SubSeq(t, offset + 1, offset + length)

\* The offsets in from .. to where pattern occurs without leaving them.
Matches(t, pattern, from, to) ==
    {i \in from .. (to - Len(pattern)) : BytesAt(t, i, Len(pattern)) = pattern}

First(S) == CHOOSE i \in S : \A j \in S : i <= j
Final(S) == CHOOSE i \in S : \A j \in S : i >= j

-----------------------------------------------------------------------------
(* Selections *)

Positions(offset, length) == offset .. (offset + length - 1)

SelectedPositions(v) == v.additional \cup Positions(v.offset, v.length)

\* normalizedRanges of a set of positions.
Ranges(S) ==
    {[offset |-> p[1], length |-> p[2] - p[1] + 1] :
        p \in {q \in S \X S : /\ q[1] <= q[2] /\ q[1] .. q[2] \subseteq S
                              /\ q[1] - 1 \notin S /\ q[2] + 1 \notin S}}

\* The order in which deleteSelectedRanges goes through them: the i-th one has
\* i - 1 ranges behind it.
RangesFromEnd(S) ==
    LET Behind(r) == {s \in Ranges(S) : s.offset > r.offset}
    IN  [i \in 1 .. Cardinality(Ranges(S)) |->
            CHOOSE r \in Ranges(S) : Cardinality(Behind(r)) = i - 1]

WithoutPendingDigit(v) ==
    [v EXCEPT !.nibble = NoDigit, !.nibbleOffset = 0]

\* A single selection.
Selecting(v, offset, length, anchor) ==
    [WithoutPendingDigit(v) EXCEPT !.offset = offset, !.length = length,
                                   !.anchor = anchor, !.additional = {},
                                   !.drag = NoDrag]

\* Mutant of clampView: the length is not clamped to what follows the offset.
clampViewLength(v, n) ==
    [v EXCEPT !.offset = Least(v.offset, n), !.anchor = Least(v.anchor, n),
              !.length = Least(v.length, n),
              !.additional = v.additional \cap (0 .. (n - 1))]

clampView(v, n) ==
    IF n = 0
    THEN [v EXCEPT !.offset = 0, !.length = 0, !.anchor = 0,
                   !.additional = {}, !.drag = NoDrag]
    ELSE [v EXCEPT !.offset = Least(v.offset, n),
                   !.anchor = Least(v.anchor, n),
                   !.length = Least(v.length, n - Least(v.offset, n)),
                   !.additional = v.additional \cap (0 .. (n - 1))]

captureSelection(v) ==
    [offset |-> v.offset, length |-> v.length, anchor |-> v.anchor,
     additional |-> v.additional]

\* Mutant of restoreSelection: the pending digit survives.
restoreSelectionKeepingDigit(v, s) ==
    [v EXCEPT !.offset = s.offset, !.length = s.length, !.anchor = s.anchor,
              !.additional = s.additional, !.drag = NoDrag]

\* Mutant of restoreSelection: only the primary range comes back.
restorePrimarySelection(v, s) == Selecting(v, s.offset, s.length, s.anchor)

restoreSelection(v, s) ==
    [Selecting(v, s.offset, s.length, s.anchor)
        EXCEPT !.additional = s.additional]

Start ==
    [offset |-> 0, length |-> 0, anchor |-> 0, additional |-> {},
     drag |-> NoDrag, nibble |-> NoDigit, nibbleOffset |-> 0]

-----------------------------------------------------------------------------
(* Edits, as functions from an editor [text, view, undo, redo, done] to    *)
(* another; done is what the function of the code returns.                 *)

Here == [text |-> text, view |-> view, undo |-> undo, redo |-> redo,
         done |-> TRUE]

Operation(t, offset, length, bytes) ==
    [offset |-> offset, old |-> BytesAt(t, offset, length), new |-> bytes]

\* Mutant of Record: what could be redone stays.
RecordKeepingRedo(e, t, v, operations) ==
    [e EXCEPT !.text = t, !.view = v, !.done = TRUE,
              !.undo = Append(@, [before |-> captureSelection(e.view),
                                  after |-> captureSelection(v),
                                  operations |-> operations])]

\* Mutant of Record: the selection is captured after the edit.
RecordCapturingLate(e, t, v, operations) ==
    [e EXCEPT !.text = t, !.view = v, !.redo = <<>>, !.done = TRUE,
              !.undo = Append(@, [before |-> captureSelection(v),
                                  after |-> captureSelection(v),
                                  operations |-> operations])]

\* A transaction from e to the editor whose text is t and whose view is v.
Record(e, t, v, operations) ==
    [e EXCEPT !.text = t, !.view = v, !.redo = <<>>, !.done = TRUE,
              !.undo = Append(@, [before |-> captureSelection(e.view),
                                  after |-> captureSelection(v),
                                  operations |-> operations])]

Refuse(e) == [e EXCEPT !.done = FALSE]

\* With finishEditSelection.
applyReplacement(e, offset, length, bytes) ==
    LET t == Replaced(e.text, offset, length, bytes)
        caret == Least(offset + Len(bytes), Len(t))
    IN  IF InDocument(e.text, offset, length)
        THEN Record(e, t, clampView(Selecting(e.view, caret, 0, caret), Len(t)),
                    <<Operation(e.text, offset, length, bytes)>>)
        ELSE Refuse(e)

DeleteRange(d, r) ==
    IF d.done /\ InDocument(d.text, r.offset, r.length)
    THEN [d EXCEPT !.text = Replaced(@, r.offset, r.length, <<>>),
                   !.operations = Append(@,
                        Operation(d.text, r.offset, r.length, <<>>))]
    ELSE [d EXCEPT !.done = FALSE]

\* One range after the other; stops at the first one that is refused.
DeleteRanges(t, ranges) ==
    LET deleted[i \in 0 .. Len(ranges)] ==
            IF i = 0
            THEN [text |-> t, operations |-> <<>>, done |-> ranges # <<>>]
            ELSE DeleteRange(deleted[i - 1], ranges[i])
    IN  deleted[Len(ranges)]

\* Mutant of deleteSelectedRanges: the primary range is forgotten.
deleteAdditionalRanges(editor) ==
    LET e == [editor EXCEPT !.view = WithoutPendingDigit(@)]
        ranges == RangesFromEnd(e.view.additional)
        deleted == DeleteRanges(e.text, ranges)
        caret == Least(Last(ranges).offset, Len(deleted.text))
    IN  Record(e, deleted.text,
               clampView(Selecting(e.view, caret, 0, caret), Len(deleted.text)),
               deleted.operations)

\* From the last range to the first.
deleteSelectedRanges(editor) ==
    LET e == [editor EXCEPT !.view = WithoutPendingDigit(@)]
        ranges == RangesFromEnd(SelectedPositions(e.view))
        deleted == DeleteRanges(e.text, ranges)
        caret == Least(Last(ranges).offset, Len(deleted.text))
    IN  IF deleted.done
        THEN Record(e, deleted.text,
                    clampView(Selecting(e.view, caret, 0, caret),
                              Len(deleted.text)),
                    deleted.operations)
        ELSE [Refuse(e) EXCEPT !.text = deleted.text]

replaceSelection(editor, bytes) ==
    LET e == IF editor.view.additional # {}
             THEN deleteSelectedRanges(editor) ELSE editor
        length == IF e.view.length > 0 THEN e.view.length
                  ELSE IF editMode = "Overwrite" /\ e.view.offset < Len(e.text)
                  THEN 1 ELSE 0
    IN  IF e.done THEN applyReplacement(e, e.view.offset, length, bytes) ELSE e

\* What a handler leaves behind, and the start of the next frame.
Become(e) ==
    /\ Len(e.text) <= MaxLength /\ Len(e.undo) <= MaxHistory
    /\ text' = e.text
    /\ view' = clampView(e.view, Len(e.text))
    /\ undo' = e.undo
    /\ redo' = e.redo
    /\ UNCHANGED editMode

Show(v) == Become([Here EXCEPT !.view = v])

-----------------------------------------------------------------------------
Init ==
    /\ text \in Texts
    /\ view = Start
    /\ editMode = "Insert"
    /\ undo = <<>> /\ redo = <<>>

\* A click, a drag or a key that moves the caret.
selectCharacter(offset, extend) ==
    LET anchor == IF extend THEN Least(view.anchor, Len(text)) ELSE offset
        v == Selecting(view, Least(anchor, offset),
                       Greatest(anchor, offset) - Least(anchor, offset),
                       IF extend THEN view.anchor ELSE offset)
    IN  /\ offset <= Len(text)
        /\ Show(IF extend
                THEN [v EXCEPT !.additional = view.additional,
                               !.drag = view.drag]
                ELSE v)

\* The byte of a row of the template panel.
selectByte(offset) ==
    /\ offset < Len(text)
    /\ Show(Selecting(view, offset, 1, offset))

selectAll ==
    /\ text # <<>>
    /\ Show(Selecting(view, 0, Len(text), 0))

jumpToOffset(offset) ==
    /\ text # <<>> /\ offset <= Len(text)
    /\ Show(Selecting(view, offset, IF offset = Len(text) THEN 0 ELSE 1, offset))

\* The search begins next to the selection and wraps around once.
findAndSelect(pattern, forwards) ==
    LET start == IF forwards
                 THEN Least(Len(text), view.offset + Greatest(view.length, 1))
                 ELSE IF view.offset > 0 THEN view.offset ELSE Len(text)
        near == IF forwards THEN Matches(text, pattern, start, Len(text))
                ELSE Matches(text, pattern, 0, start)
        all == Matches(text, pattern, 0, Len(text))
        found == IF near # {} THEN near ELSE all
        offset == IF forwards THEN First(found) ELSE Final(found)
    IN  /\ all # {}
        /\ Show(Selecting(view, offset, Len(pattern), offset))

\* The mouse with the control key down, pressed (begin) or moved.
extendAdditionalSelection(offset, begin) ==
    LET drag == IF begin \/ view.drag = NoDrag
                THEN [anchor |-> offset, base |-> SelectedPositions(view)]
                ELSE view.drag
        from == Least(drag.anchor, offset)
        selected == drag.base
            \cup Positions(from, Greatest(drag.anchor, offset) - from)
        primary == Head(RangesFromEnd(selected))
    IN  /\ MultiSelection
        /\ offset <= Len(text)
        /\ Show([WithoutPendingDigit(view) EXCEPT
                    !.offset = IF selected = {} THEN offset ELSE primary.offset,
                    !.length = IF selected = {} THEN 0 ELSE primary.length,
                    !.anchor = IF selected = {} THEN offset ELSE drag.anchor,
                    !.additional =
                        IF selected = {} THEN {}
                        ELSE selected \ Positions(primary.offset, primary.length),
                    !.drag = drag])

releaseMouse ==
    /\ view.drag # NoDrag
    /\ Show([view EXCEPT !.drag = NoDrag])

setEditMode(mode) ==
    /\ editMode # mode
    /\ editMode' = mode
    /\ UNCHANGED <<text, view, undo, redo>>

\* A character typed in the text pane.
typeByte(byte) ==
    LET e == [Here EXCEPT !.view = WithoutPendingDigit(@)]
    IN  Become(IF editMode = "ReadOnly" THEN e
               ELSE replaceSelection(e, <<byte>>))

\* A digit typed in the hexadecimal pane, the first of a byte.
firstNibble(digit) ==
    /\ ~(view.nibble # NoDigit /\ view.nibbleOffset < Len(text))
    /\ editMode # "ReadOnly"
    /\ LET e == replaceSelection(Here, <<<<digit, 0>>>>)
           last == IF Len(e.text) = 0 THEN 0 ELSE Len(e.text) - 1
       IN  Become(IF e.done
                  THEN [e EXCEPT !.view.nibble = digit,
                                 !.view.nibbleOffset = Least(view.offset, last)]
                  ELSE e)

\* Mutant of secondNibble: the history is not told of the second digit.
secondNibbleUnrecorded(digit) ==
    /\ view.nibble # NoDigit /\ view.nibbleOffset < Len(text)
    /\ LET offset == view.nibbleOffset
           caret == Least(offset + 1, Len(text))
       IN  Become([Here EXCEPT
                    !.text = [text EXCEPT ![offset + 1] = <<view.nibble, digit>>],
                    !.view = Selecting(view, caret, 0, caret)])

\* And the second: it is written into the byte of the first one, and into
\* the operation of the history that inserted that byte.
secondNibble(digit) ==
    /\ view.nibble # NoDigit /\ view.nibbleOffset < Len(text)
    /\ LET offset == view.nibbleOffset
           byte == <<view.nibble, digit>>
           t == [text EXCEPT ![offset + 1] = byte]
           operations == Last(undo).operations
           caret == Least(offset + 1, Len(t))
           v == Selecting(view, caret, 0, caret)
           completes == /\ undo # <<>>
                        /\ operations # <<>>
                        /\ Last(operations).offset = offset
                        /\ Len(Last(operations).new) = 1
           transaction ==
               [Last(undo) EXCEPT
                    !.operations[Len(operations)].new = <<byte>>,
                    !.after = captureSelection(v)]
       IN  Become([Here EXCEPT
                    !.text = t,
                    !.view = IF completes THEN v ELSE WithoutPendingDigit(view),
                    !.undo = IF completes THEN Append(Front(undo), transaction)
                             ELSE undo])

\* pasteClipboard:
paste(bytes) ==
    /\ editMode # "ReadOnly"
    /\ Become(replaceSelection(Here, bytes))

deleteSelection(backwards) ==
    LET e == [Here EXCEPT !.view = WithoutPendingDigit(view)]
    IN  /\ text # <<>>
        /\ IF editMode = "ReadOnly" THEN Become(e)
           ELSE IF view.additional # {} THEN Become(deleteSelectedRanges(Here))
           ELSE IF view.length > 0
           THEN Become(applyReplacement(e, view.offset, view.length, <<>>))
           ELSE IF ~backwards
           THEN Become(applyReplacement(e, view.offset, 1, <<>>))
           ELSE IF view.offset > 0
           THEN Become(applyReplacement(e, view.offset - 1, 1, <<>>))
           ELSE Become(e)

cutSelection ==
    /\ editMode # "ReadOnly"
    /\ SelectedPositions(view) # {}
    /\ deleteSelection(FALSE)

\* The selected match, or the next one, is replaced and what replaces it
\* selected.
replaceCurrentMatch(pattern, replacement) ==
    LET selected == /\ view.length = Len(pattern)
                    /\ BytesAt(text, view.offset, view.length) = pattern
        found == Matches(text, pattern, view.offset, Len(text))
        offset == IF selected THEN view.offset ELSE First(found)
        e == applyReplacement(Here, offset, Len(pattern), replacement)
        v == [e.view EXCEPT !.offset = offset, !.length = Len(replacement),
                            !.anchor = offset]
    IN  /\ editMode # "ReadOnly"
        /\ selected \/ found # {}
        /\ Become([e EXCEPT !.view = v,
                            !.undo[Len(e.undo)].after = captureSelection(v)])

\* The first match from r.from on is replaced; the search goes on so many
\* bytes behind the start of it.  r is [text, operations, from].
ReplaceMatch(r, pattern, replacement, advance) ==
    LET found == Matches(r.text, pattern, r.from, Len(r.text))
        offset == First(found)
    IN  IF found = {} THEN r
        ELSE [text |-> Replaced(r.text, offset, Len(pattern), replacement),
              operations |-> Append(r.operations,
                    Operation(r.text, offset, Len(pattern), replacement)),
              from |-> offset + advance]

\* Mutant of replacingAll: the search goes on one byte further.
replacingAllAgain(pattern, replacement) ==
    LET replaced[i \in 0 .. Len(text)] ==
            IF i = 0 THEN [text |-> text, operations |-> <<>>, from |-> 0]
            ELSE ReplaceMatch(replaced[i - 1], pattern, replacement, 1)
    IN  replaced[Len(text)]

\* The matches from the start to the end; the search goes on behind what has
\* replaced a match.  There are no more matches than bytes.
replacingAll(pattern, replacement) ==
    LET replaced[i \in 0 .. Len(text)] ==
            IF i = 0 THEN [text |-> text, operations |-> <<>>, from |-> 0]
            ELSE ReplaceMatch(replaced[i - 1], pattern, replacement,
                              Greatest(Len(replacement), 1))
    IN  replaced[Len(text)]

replaceAllMatches(pattern, replacement) ==
    LET r == replacingAll(pattern, replacement)
        offset == Least(r.from, Greatest(Len(r.text), 1) - 1)
        v == [WithoutPendingDigit(view) EXCEPT
                !.offset = offset, !.length = Len(replacement),
                !.anchor = offset]
    IN  /\ editMode # "ReadOnly"
        /\ r.operations # <<>>
        /\ Become(Record(Here, r.text, v, r.operations))

\* applyHistoryTransaction: r is [text, done]; stops at the first operation
\* that is refused.
ApplyOperation(r, offset, length, bytes) ==
    IF r.done /\ InDocument(r.text, offset, length)
    THEN [text |-> Replaced(r.text, offset, length, bytes), done |-> TRUE]
    ELSE [r EXCEPT !.done = FALSE]

\* Mutant of Undone: the operations in the order in which they were made.
UndoneInOrder(t, transaction) ==
    LET o == transaction.operations
        undone[i \in 0 .. Len(o)] ==
            IF i = 0 THEN [text |-> t, done |-> TRUE]
            ELSE ApplyOperation(undone[i - 1], o[i].offset, Len(o[i].new), o[i].old)
    IN  undone[Len(o)]

\* undone[i] is what there is when the operations behind the i-th have been
\* undone.
Undone(t, transaction) ==
    LET o == transaction.operations
        undone[i \in 0 .. Len(o)] ==
            IF i = Len(o) THEN [text |-> t, done |-> TRUE]
            ELSE ApplyOperation(undone[i + 1], o[i + 1].offset,
                                Len(o[i + 1].new), o[i + 1].old)
    IN  undone[0]

Redone(t, transaction) ==
    LET o == transaction.operations
        redone[i \in 0 .. Len(o)] ==
            IF i = 0 THEN [text |-> t, done |-> TRUE]
            ELSE ApplyOperation(redone[i - 1], o[i].offset, Len(o[i].old), o[i].new)
    IN  redone[Len(o)]

undoEdit ==
    /\ undo # <<>>
    /\ LET r == Undone(text, Last(undo))
       IN  Become(IF r.done
                  THEN [Here EXCEPT !.text = r.text,
                            !.view = restoreSelection(@, Last(undo).before),
                            !.undo = Front(undo),
                            !.redo = Append(redo, Last(undo))]
                  ELSE [Here EXCEPT !.text = r.text])

redoEdit ==
    /\ redo # <<>>
    /\ LET r == Redone(text, Last(redo))
       IN  Become(IF r.done
                  THEN [Here EXCEPT !.text = r.text,
                            !.view = restoreSelection(@, Last(redo).after),
                            !.undo = Append(undo, Last(redo)),
                            !.redo = Front(redo)]
                  ELSE [Here EXCEPT !.text = r.text])

Next ==
    \/ \E offset \in Offsets, extend \in BOOLEAN :
        selectCharacter(offset, extend)
    \/ \E offset \in Offsets : selectByte(offset)
    \/ selectAll
    \/ \E offset \in Offsets : jumpToOffset(offset)
    \/ \E pattern \in Patterns, forwards \in BOOLEAN :
        findAndSelect(pattern, forwards)
    \/ \E offset \in Offsets, begin \in BOOLEAN :
        extendAdditionalSelection(offset, begin)
    \/ releaseMouse
    \/ \E mode \in EditModes : setEditMode(mode)
    \/ \E byte \in Characters : typeByte(byte)
    \/ \E digit \in TypedDigits : firstNibble(digit) \/ secondNibble(digit)
    \/ \E bytes \in Clipboards : paste(bytes)
    \/ \E backwards \in BOOLEAN : deleteSelection(backwards)
    \/ cutSelection
    \/ \E pattern \in Patterns, replacement \in Replacements :
        \/ replaceCurrentMatch(pattern, replacement)
        \/ replaceAllMatches(pattern, replacement)
    \/ undoEdit
    \/ redoEdit

Spec == Init /\ [][Next]_vars

-----------------------------------------------------------------------------
(* Properties *)

TypeOK ==
    /\ text \in Seq(Byte) /\ Len(text) <= MaxLength
    /\ view.offset + view.length <= Len(text) /\ view.anchor <= Len(text)
    /\ view.additional \subseteq 0 .. (Len(text) - 1)
    /\ view.nibble \in Digits \cup {NoDigit} /\ view.nibbleOffset \in Nat
    /\ editMode \in {"Insert", "Overwrite", "ReadOnly"}
    /\ Len(undo) <= MaxHistory
    /\ \A i \in DOMAIN undo : undo[i].operations # <<>>
    /\ \A i \in DOMAIN redo : redo[i].operations # <<>>

\* pastText[i] is the text after i of the edits that can be undone.
PastTexts(t, stack) ==
    LET before[i \in 0 .. Len(stack)] ==
            IF i = Len(stack) THEN t
            ELSE Undone(before[i + 1], stack[i + 1]).text
    IN  before

pastText == PastTexts(text, undo)

\* futureText[i] is the text after redoing i edits.
FutureTexts(t, stack) ==
    LET after[i \in 0 .. Len(stack)] ==
            IF i = 0 THEN t
            ELSE Redone(after[i - 1], stack[Len(stack) - i + 1]).text
    IN  after

futureText == FutureTexts(text, redo)

History == INSTANCE UndoableText
    WITH past <- [i \in 1 .. Len(undo) |-> pastText[i - 1]],
         present <- text,
         future <- [i \in 1 .. Len(redo) |-> futureText[i]]

\* Undoing gives back exactly the text before each edit, whatever edits,
\* selections and redos there were; redoing the text after it; only a new
\* edit makes redoing impossible.  This is History!Spec, for a step that leaves
\* the text and both stacks alone is a stutter of it.
KeepsHistory ==
    History!Init /\ [][UNCHANGED <<text, undo, redo>> \/ History!Next]_vars

\* Undoing an edit of several ranges never stops half-way: every operation of
\* either stack lies inside the text it will be applied to.
HistoryApplies ==
    /\ \A i \in DOMAIN undo : Undone(pastText[i], undo[i]).done
    /\ \A i \in DOMAIN redo :
        Redone(futureText[Len(redo) - i], redo[i]).done

\* Undoing also gives back the ranges that were selected before the edit,
\* none of them shortened by clampView.
UndoRestoresSelection ==
    [][Len(undo') < Len(undo)
        => captureSelection(view') = Last(undo).before]_vars

\* While the first digit of a byte waits for the second one, the byte it will
\* be written into is the one that the last edit typed.
PendingDigitIsLastTyped ==
    view.nibble # NoDigit =>
        /\ undo # <<>>
        /\ Last(undo).operations =
            <<[Last(undo).operations[1] EXCEPT
                !.offset = view.nibbleOffset, !.new = <<<<view.nibble, 0>>>>]>>
        /\ BytesAt(text, view.nibbleOffset, 1) = <<<<view.nibble, 0>>>>

\* The bytes of a text that are not at the positions of S.
Outside(t, S) ==
    LET outside[i \in 0 .. Len(t)] ==
            IF i = 0 THEN <<>>
            ELSE IF i - 1 \notin S THEN Append(outside[i - 1], t[i])
            ELSE outside[i - 1]
    IN  outside[Len(t)]

\* Deleting several ranges deletes the selected bytes and no others.
DeletesSelectedBytes ==
    [][\A backwards \in BOOLEAN :
        Len(undo') > Len(undo) /\ SelectedPositions(view) # {}
            /\ deleteSelection(backwards)
        => text' = Outside(text, SelectedPositions(view))]_vars

\* The byte at i is read; r is [out, from], where the bytes before from are
\* those of matches.
ReadByte(r, i, pattern, replacement) ==
    IF i < r.from THEN r
    ELSE IF i \in Matches(text, pattern, r.from, Len(text))
    THEN [out |-> r.out \o replacement, from |-> i + Len(pattern)]
    ELSE [out |-> Append(r.out, text[i + 1]), from |-> i + 1]

\* The text with every match replaced, reading it once from its start.
everyMatchReplaced(pattern, replacement) ==
    LET read[i \in 0 .. Len(text)] ==
            IF i = 0 THEN [out |-> <<>>, from |-> 0]
            ELSE ReadByte(read[i - 1], i - 1, pattern, replacement)
    IN  read[Len(text)].out

ReplacesEveryMatch(pattern, replacement) ==
    Len(undo') > Len(undo) /\ replaceAllMatches(pattern, replacement)
        => text' = everyMatchReplaced(pattern, replacement)

\* Replace All replaces the matches of the text it was called on: none is
\* missed, and none found in what has been put in.
ReplaceAllIsOnePass ==
    [][\A pattern \in Patterns, replacement \in Replacements :
        ReplacesEveryMatch(pattern, replacement)]_vars
=============================================================================
