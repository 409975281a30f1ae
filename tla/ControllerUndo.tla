--------------------------- MODULE ControllerUndo ---------------------------
(***************************************************************************)
(* HFController's selected ranges, its commands that change the bytes and  *)
(* their undo (HFController.m, HFControllerCoalescedUndo.m), with the      *)
(* hexadecimal pane's pending digit (HFHexTextRepresenter.m).              *)
(*                                                                         *)
(* An action is one event: a command and the notifications it sends at the *)
(* end of its transaction.  The undo manager is NSUndoManager, which is    *)
(* not part of the source: what one event registers is one group, which is *)
(* undone and redone as a whole, the last operation first; registering     *)
(* clears what could be redone, except while undoing and redoing.          *)
(*                                                                         *)
(* The coalescer of the code is the last operation of the last group: both *)
(* are one object.  So here a change of the coalescer changes both.        *)
(* Deleted data that is nil in the code is the empty sequence.             *)
(***************************************************************************)
EXTENDS Integers, FiniteSets, SequencesExt

CONSTANTS
    Bytes,               \* the values of a byte
    Texts,               \* what the document may contain at first
    Typed,               \* the bytes typed
    Pasted,              \* the byte arrays pasted
    Replacing,           \* the byte arrays that Replace All makes
    EditModes,           \* the modes the user switches to
    Selections,          \* the ranges the user selects
    ForgetsWhileTyping,  \* whether a save drops the history during typing
    MaxCondemned,        \* bounds the ranges that one operation deletes
    MaxLength,           \* bounds the text
    MaxHistory           \* bounds the groups that can be undone

VARIABLES
    text,       \* byteArray
    selection,  \* selectedContentsRanges
    editMode,
    coalescer,  \* undoCoalescer
    undo,       \* the groups that can be undone, the last one last
    redo,       \* the groups that can be redone, the next one last
    omitted     \* omittedNybbleLocation

vars == <<text, selection, editMode, coalescer, undo, redo, omitted>>

None == [kind |-> "none"]
NotOmitted == -1

-----------------------------------------------------------------------------
(* Ranges *)

Least(m, n) == IF m <= n THEN m ELSE n
Greatest(m, n) == IF m >= n THEN m ELSE n

RangeMake(location, length) == [location |-> location, length |-> length]
MaxRange(r) == r.location + r.length
Between(from, to) == RangeMake(from, to - from)
Positions(r) == r.location .. (MaxRange(r) - 1)
Within(r, t) == r.location >= 0 /\ r.length >= 0 /\ MaxRange(r) <= Len(t)

IntersectsRange(r, s) == Positions(r) \cap Positions(s) # {}

BytesIn(t, r) == SubSeq(t, r.location + 1, MaxRange(r))
Replaced(t, r, bytes) ==
    SubSeq(t, 1, r.location) \o bytes \o SubSeq(t, MaxRange(r) + 1, Len(t))

rangesAreInAscendingOrder(rs) ==
    \A i \in 1 .. (Len(rs) - 1) : MaxRange(rs[i]) <= rs[i + 1].location

\* What the user selects is in order, and none of several ranges is empty
\* (_ensureSelectionIsValid).
ASSUME ControllerUndoAssumption ==
    /\ Texts \cup Pasted \cup Replacing \subseteq Seq(Bytes)
    /\ Typed \subseteq Bytes
    /\ Selections \subseteq Seq([location : Nat, length : Nat]) \ {<<>>}
    /\ \A rs \in Selections :
          /\ rangesAreInAscendingOrder(rs)
          /\ Len(rs) > 1 => \A i \in DOMAIN rs : rs[i].length > 0
    /\ EditModes \subseteq {"Insert", "Overwrite", "ReadOnly"}
    /\ ForgetsWhileTyping \in BOOLEAN
    /\ MaxCondemned \in Nat /\ MaxLength \in Nat /\ MaxHistory \in Nat

\* The elements of a sequence that are at the positions of S.
Kept(s, S) ==
    LET kept[i \in 0 .. Len(s)] ==
            IF i = 0 THEN <<>>
            ELSE IF i \in S THEN Append(kept[i - 1], s[i])
            ELSE kept[i - 1]
    IN  kept[Len(s)]

\* The positions of the ranges that are not empty, and these ranges.
Filled(rs) == {i \in DOMAIN rs : rs[i].length > 0}
NotEmpty(rs) == Kept(rs, Filled(rs))

\* hfrange_compare: the n-th range has n - 1 before it.
InOrder(rs) ==
    LET Before(i, j) ==
            \/ rs[i].location < rs[j].location
            \/ rs[i].location = rs[j].location /\ rs[i].length < rs[j].length
            \/ rs[i] = rs[j] /\ i < j
    IN  [n \in DOMAIN rs |->
            rs[CHOOSE i \in DOMAIN rs :
                Cardinality({j \in DOMAIN rs : Before(j, i)}) = n - 1]]

Touch(r, s) ==
    \/ IntersectsRange(r, s)
    \/ MaxRange(r) = s.location
    \/ MaxRange(s) = r.location

UnionRange(r, s) ==
    Between(Least(r.location, s.location), Greatest(MaxRange(r), MaxRange(s)))

MergeRange(merged, r) ==
    IF merged # <<>> /\ Touch(Last(merged), r)
    THEN Append(Front(merged), UnionRange(Last(merged), r))
    ELSE Append(merged, r)

organizeAndMergeRanges(rs) ==
    LET sorted == InOrder(rs)
        merged[i \in 0 .. Len(rs)] ==
            IF i = 0 THEN <<>> ELSE MergeRange(merged[i - 1], sorted[i])
    IN  merged[Len(rs)]

\* Mutant of clipSelectedContentsRangesToLength: a range that begins at the
\* new end or behind it is kept.
clipLengths(rs, length) ==
    [i \in DOMAIN rs |->
        RangeMake(rs[i].location,
              Greatest(0, Least(rs[i].length, length - rs[i].location)))]

\* At most one of the clipped ranges, which are in order, is empty.
clipSelectedContentsRangesToLength(rs, length) ==
    LET left == Kept(rs, {i \in DOMAIN rs : rs[i].location <= length})
        clipped == [i \in DOMAIN left |->
                        Between(left[i].location,
                                Least(MaxRange(left[i]), length))]
        organized == organizeAndMergeRanges(clipped)
        kept == Kept(organized,
                     {i \in DOMAIN organized :
                        \/ organized[i].length > 0
                        \/ \A j \in 1 .. i - 1 : organized[j].length > 0})
    IN  IF kept = <<>> THEN <<RangeMake(length, 0)>> ELSE kept

\* A range without the removed one.
Remaining(r, removed) ==
    IF ~IntersectsRange(r, removed) THEN <<r>>
    ELSE (IF r.location < removed.location
          THEN <<Between(r.location, removed.location)>> ELSE <<>>)
         \o (IF MaxRange(r) > MaxRange(removed)
             THEN <<Between(MaxRange(removed), MaxRange(r))>> ELSE <<>>)

\* What is left of the ranges, or the cursor.
removeRangeFromSelection(rs, removed, cursor) ==
    LET remaining[i \in 0 .. Len(rs)] ==
            IF i = 0 THEN <<>>
            ELSE remaining[i - 1] \o Remaining(rs[i], removed)
        all == remaining[Len(rs)]
    IN  IF \/ all = <<>>
           \/ Len(all) = 1 /\ all[1].length = 0
        THEN <<RangeMake(cursor, 0)>>
        ELSE organizeAndMergeRanges(all)

-----------------------------------------------------------------------------
(* Undo operations *)

\* HFControllerCoalescedUndo: what is between the anchor and the action point
\* is to be replaced by the deleted data.
Typing(anchor, action, deleted) ==
    [kind |-> "typing", anchor |-> anchor, action |-> action,
     deleted |-> deleted]

\* HFControllerMultiRangeUndo: one range after the other is to be replaced by
\* its byte array.
Inserting(arrays, ranges, select) ==
    [kind |-> "ranges", arrays |-> arrays, ranges |-> ranges,
     select |-> select]

canCoalesceAppend(c, r) == c # None /\ r.location = c.action
canCoalesceDelete(c, r) == c # None /\ MaxRange(r) = c.action
canCoalesceOverwrite(c, r) ==
    c # None /\ (r.location = c.action \/ r.location + 1 = c.action)

overwriteData(c, r, t) ==
    [c EXCEPT !.action = MaxRange(r),
              !.deleted = IF MaxRange(r) > c.action
                          THEN @ \o BytesIn(t, Between(c.action, MaxRange(r)))
                          ELSE @]

\* Mutant of deleteData: fresh data is saved behind what was saved before.
deleteDataAtEnd(c, length, t) ==
    LET point == c.action - length
    IN  IF point >= c.anchor THEN [c EXCEPT !.action = point]
        ELSE [c EXCEPT !.anchor = point, !.action = point,
                       !.deleted = @ \o BytesIn(t, Between(point, c.anchor))]

\* Bytes of this string of typing are lost, those from before it are saved.
deleteData(c, length, t) ==
    LET point == c.action - length
    IN  IF point >= c.anchor THEN [c EXCEPT !.action = point]
        ELSE [c EXCEPT !.anchor = point, !.action = point,
                       !.deleted = BytesIn(t, Between(point, c.anchor)) \o @]

\* Mutant of invert: the inverse replaces as much as it puts back.
invertLength(c, t) ==
    Typing(c.anchor, c.action, BytesIn(t, Between(c.anchor, c.action)))

invert(c, t) ==
    Typing(c.anchor, c.anchor + Len(c.deleted),
           BytesIn(t, Between(c.anchor, c.action)))

-----------------------------------------------------------------------------
(* Commands, as functions from an editor [text, selection, coalescer, undo, *)
(* group, done] to another.  group is what the event has registered so far; *)
(* done is false once an assertion of the code has failed.                  *)

Here == [text |-> text, selection |-> selection, coalescer |-> coalescer,
         undo |-> undo, group |-> <<>>, done |-> TRUE]

Register(e, operation) == [e EXCEPT !.group = Append(@, operation)]

endTypingUndoCoalescing(e) == [e EXCEPT !.coalescer = None]

beginNewUndoCoalescing(e, c) ==
    Register([e EXCEPT !.coalescer = c], c)

\* The coalescer becomes c, wherever it is registered.
Coalesce(e, c) ==
    IF e.group # <<>>
    THEN [e EXCEPT !.coalescer = c, !.group[Len(e.group)] = c]
    ELSE IF e.undo # <<>>
    THEN [e EXCEPT !.coalescer = c,
                   !.undo[Len(e.undo)][Len(Last(e.undo))] = c]
    ELSE [e EXCEPT !.coalescer = c]

\* _activateTypingUndoCoalescingForOverwritingRange:
CoalesceOverwriting(e, r) ==
    IF canCoalesceOverwrite(e.coalescer, r)
    THEN Coalesce(e, overwriteData(e.coalescer, r, e.text))
    ELSE beginNewUndoCoalescing(e,
            Typing(r.location, MaxRange(r), BytesIn(e.text, r)))

\* _activateTypingUndoCoalescingForReplacingRange:withDataOfLength:
CoalesceReplacing(e, r, length) ==
    LET c == e.coalescer
    IN  IF length = 0 /\ r.length = 0 THEN e
        ELSE IF length > 0 /\ r.length = 0 /\ canCoalesceAppend(c, r)
        THEN Coalesce(e, [c EXCEPT !.action = @ + length])
        ELSE IF length = 0 /\ canCoalesceDelete(c, r)
        THEN Coalesce(e, deleteData(c, r.length, e.text))
        ELSE beginNewUndoCoalescing(e,
                Typing(r.location, r.location + length, BytesIn(e.text, r)))

\* _registerCondemnedRangesForUndo:selectingRangesAfterUndo: with YES
RegisterCondemnedRanges(e, rs) ==
    LET condemned == NotEmpty(rs)
    IN  IF condemned = <<>> THEN e
        ELSE Register(e, Inserting(
                [i \in DOMAIN condemned |-> BytesIn(e.text, condemned[i])],
                [i \in DOMAIN condemned |->
                    RangeMake(condemned[i].location, 0)],
                "Result"))

\* In reverse order.
DeleteRanges(t, rs) ==
    LET deleted[i \in 0 .. Len(rs)] ==
            IF i = Len(rs) THEN t
            ELSE Replaced(deleted[i + 1], rs[i + 1], <<>>)
    IN  deleted[0]

commandDeleteRanges(editor, rs) ==
    LET e == RegisterCondemnedRanges(endTypingUndoCoalescing(editor), rs)
    IN  IF NotEmpty(rs) = <<>> THEN e
        ELSE [e EXCEPT !.text = DeleteRanges(@, rs),
                       !.selection = <<RangeMake(rs[1].location, 0)>>]

\* What is in the range, the next one of s, becomes bytes.
InsertArray(s, r, bytes) ==
    IF ~s.done \/ ~Within(r, s.text) THEN [s EXCEPT !.done = FALSE]
    ELSE [text |-> Replaced(s.text, r, bytes),
          arrays |-> Append(s.arrays, BytesIn(s.text, r)),
          ranges |-> Append(s.ranges, RangeMake(r.location, Len(bytes))),
          done |-> TRUE]

\* From the first range to the last.
InsertArrays(t, operation) ==
    LET inserted[i \in 0 .. Len(operation.ranges)] ==
            IF i = 0
            THEN [text |-> t, arrays |-> <<>>, ranges |-> <<>>, done |-> TRUE]
            ELSE InsertArray(inserted[i - 1], operation.ranges[i],
                             operation.arrays[i])
    IN  inserted[Len(operation.ranges)]

\* What it registers is the operation that puts back what each array has
\* replaced.
commandInsertByteArrays(e, operation) ==
    LET s == InsertArrays(e.text, operation)
        preserved == operation.select = "Preserve"
        selected ==
            IF operation.select = "Result" THEN s.ranges
            ELSE IF preserved
            THEN clipSelectedContentsRangesToLength(e.selection, Len(s.text))
            ELSE <<RangeMake(MaxRange(Last(s.ranges)), 0)>>
    IN  IF ~s.done THEN [e EXCEPT !.done = FALSE]
        ELSE Register([endTypingUndoCoalescing(e)
                        EXCEPT !.text = s.text, !.selection = selected],
                      Inserting(s.arrays, s.ranges,
                                IF preserved THEN "Preserve"
                                ELSE "AfterResult"))

performTypingUndo(e, c, redoing) ==
    LET r == Between(c.anchor, c.action)
        end == c.anchor + Len(c.deleted)
    IN  IF ~Within(r, e.text) THEN [e EXCEPT !.done = FALSE]
        ELSE Register([e EXCEPT
                !.text = Replaced(@, r, c.deleted),
                !.selection = <<IF redoing THEN RangeMake(end, 0)
                                ELSE Between(c.anchor, end)>>],
                invert(c, e.text))

PerformOperation(e, operation, redoing) ==
    IF ~e.done THEN e
    ELSE IF operation.kind = "typing"
    THEN performTypingUndo(e, operation, redoing)
    ELSE commandInsertByteArrays(e, operation)

\* NSUndoManager: the operations of a group from the last to the first.
PerformGroup(editor, group, redoing) ==
    LET performed[i \in 0 .. Len(group)] ==
            IF i = Len(group) THEN editor
            ELSE PerformOperation(performed[i + 1], group[i + 1], redoing)
    IN  performed[0]

\* Mutant of insertionModeCore: only the first range is replaced.
insertionModeFirst(editor, bytes, previousBytes, coalescing) ==
    LET End(e) == IF coalescing THEN e ELSE endTypingUndoCoalescing(e)
        first == organizeAndMergeRanges(editor.selection)[1]
        point == first.location - previousBytes
        started == CoalesceReplacing(editor,
                        RangeMake(point, previousBytes), 0)
        coalesced == End(CoalesceReplacing(End(started),
                            RangeMake(point, first.length), Len(bytes)))
        replaced == RangeMake(point, first.length + previousBytes)
    IN  [coalesced EXCEPT !.text = Replaced(@, replaced, bytes),
                          !.selection = <<RangeMake(point + Len(bytes), 0)>>]

\* The ranges after the first one are deleted by an operation of their own.
insertionModeCore(editor, bytes, previousBytes, coalescing) ==
    LET End(e) == IF coalescing THEN e ELSE endTypingUndoCoalescing(e)
        all == organizeAndMergeRanges(editor.selection)
        others == NotEmpty(Tail(all))
        e == [RegisterCondemnedRanges(editor, others)
                EXCEPT !.text = DeleteRanges(@, others)]
        point == all[1].location - previousBytes
        started == CoalesceReplacing(e, RangeMake(point, previousBytes), 0)
        coalesced == End(CoalesceReplacing(End(started),
                            RangeMake(point, all[1].length), Len(bytes)))
        replaced == RangeMake(point, all[1].length + previousBytes)
    IN  [coalesced EXCEPT !.text = Replaced(@, replaced, bytes),
                          !.selection = <<RangeMake(point + Len(bytes), 0)>>]

\* Past the end it is refused.
overwriteModeCore(editor, bytes, previousBytes, coalescing) ==
    LET End(e) == IF coalescing THEN e ELSE endTypingUndoCoalescing(e)
        r == RangeMake(editor.selection[1].location - previousBytes,
                       Len(bytes))
    IN  IF ~Within(r, editor.text) THEN editor
        ELSE [End(CoalesceOverwriting(End(editor), r)) EXCEPT
                !.text = Replaced(@, r, bytes),
                !.selection = removeRangeFromSelection(@, r, MaxRange(r))]

insertByteArray(bytes, previousBytes, coalescing) ==
    IF editMode = "Overwrite"
    THEN overwriteModeCore(Here, bytes, previousBytes, coalescing)
    ELSE insertionModeCore(Here, bytes, previousBytes, coalescing)

\* The end of an event: the group it has registered can be undone.
Become(result) ==
  \E e \in {result} :
    /\ e.done
    /\ Len(e.text) <= MaxLength
    /\ text' = e.text
    /\ selection' = e.selection
    /\ coalescer' = e.coalescer
    /\ undo' = IF e.group = <<>> THEN e.undo ELSE Append(e.undo, e.group)
    /\ redo' = IF e.group = <<>> THEN redo ELSE <<>>
    /\ Len(undo') <= MaxHistory
    /\ UNCHANGED editMode

\* Mutant of ForgetDigit: the hexadecimal pane does not listen.
KeepDigit == UNCHANGED omitted

\* controllerDidChange: of the hexadecimal pane, when the bytes or the
\* selection have changed.
ForgetDigit == omitted' = NotOmitted

-----------------------------------------------------------------------------
Init ==
    /\ text \in Texts
    /\ selection = <<RangeMake(0, 0)>>
    /\ editMode = "Insert"
    /\ coalescer = None
    /\ undo = <<>> /\ redo = <<>>
    /\ omitted = NotOmitted

\* What a click, a drag or a key leaves selected.
setSelectedContentsRanges(rs) ==
    /\ \A i \in DOMAIN rs : Within(rs[i], text)
    /\ selection' = rs
    /\ ForgetDigit
    /\ UNCHANGED <<text, editMode, coalescer, undo, redo>>

\* Mutant of setEditMode: typing goes on in the other mode.
setEditModeGoingOn(mode) ==
    /\ mode # editMode
    /\ editMode' = mode
    /\ UNCHANGED <<text, selection, coalescer, undo, redo, omitted>>

setEditMode(mode) ==
    /\ mode # editMode
    /\ editMode' = mode
    /\ coalescer' = None
    /\ UNCHANGED <<text, selection, undo, redo, omitted>>

editable == editMode # "ReadOnly"

\* Whether so many bytes can be put in place of the selection.
Accepts(length, previousBytes) ==
    editMode = "Overwrite" =>
        Within(RangeMake(selection[1].location - previousBytes, length), text)

FewCondemned(rs) == Cardinality(Filled(rs)) <= MaxCondemned

insertionShouldDeleteLastNybble ==
    /\ omitted # NotOmitted
    /\ selection = <<RangeMake(omitted + 1, 0)>>

\* A digit typed in the hexadecimal pane.  The first digit of a byte puts in
\* a byte, the second one replaces it.
typeDigit(byte) ==
    LET second == insertionShouldDeleteLastNybble
        previousBytes == IF second THEN 1 ELSE 0
    IN  /\ editable /\ FewCondemned(Tail(selection))
        /\ Become(insertByteArray(<<byte>>, previousBytes, TRUE))
        /\ omitted' = IF ~second /\ Accepts(1, previousBytes)
                      THEN selection'[1].location - 1 ELSE NotOmitted

\* A character typed in the text pane.
typeCharacter(byte) ==
    /\ editable /\ FewCondemned(Tail(selection))
    /\ Become(insertByteArray(<<byte>>, 0, TRUE))
    /\ IF Accepts(1, 0) THEN ForgetDigit ELSE UNCHANGED omitted

\* Pasting, and replacing the selection from the find panel.
paste(bytes) ==
    /\ editable /\ FewCondemned(Tail(selection))
    /\ editMode = "Overwrite" => bytes # <<>>
    /\ Become(insertByteArray(bytes, 0, FALSE))
    /\ IF Accepts(Len(bytes), 0) THEN ForgetDigit ELSE UNCHANGED omitted

deleteSelection ==
    /\ editMode = "Insert" /\ FewCondemned(selection)
    /\ Become(commandDeleteRanges(Here, organizeAndMergeRanges(selection)))
    /\ IF Filled(selection) # {} THEN ForgetDigit ELSE UNCHANGED omitted

\* The selection, or the byte next to the caret.
deleteDirection(left) ==
    LET first == selection[1].location
        r == RangeMake(IF left THEN first - 1 ELSE first, 1)
    IN  IF selection # <<RangeMake(first, 0)>>
        THEN deleteSelection
        ELSE /\ editMode = "Insert" /\ Within(r, text)
             /\ Become([CoalesceReplacing(Here, r, 0)
                            EXCEPT !.text = Replaced(@, r, <<>>),
                                   !.selection = <<RangeMake(r.location, 0)>>])
             /\ ForgetDigit

\* When Replace All has finished.
replaceByteArray(bytes) ==
    /\ editMode = "Overwrite" => Len(bytes) = Len(text)
    /\ Become(commandInsertByteArrays(Here,
                Inserting(<<bytes>>, <<RangeMake(0, Len(text))>>,
                          "Preserve")))
    /\ ForgetDigit

\* A save could not make the history independent of the file.
removeAllUndoOperations ==
    /\ undo # <<>> \/ redo # <<>>
    /\ coalescer = None \/ ForgetsWhileTyping
    /\ undo' = <<>> /\ redo' = <<>>
    /\ coalescer' = IF coalescer = None THEN None
                    ELSE [coalescer EXCEPT !.deleted = <<>>]
    /\ UNCHANGED <<text, selection, editMode, omitted>>

\* Mutant of undoChanges: the string of typing does not end.
undoWhileTyping ==
    /\ undo # <<>>
    /\ LET e == PerformGroup(Here, Last(undo), FALSE)
       IN  /\ e.done
           /\ text' = e.text /\ selection' = e.selection
           /\ coalescer' = e.coalescer
           /\ undo' = Front(undo) /\ redo' = Append(redo, e.group)
           /\ ForgetDigit /\ UNCHANGED editMode

undoChanges ==
    /\ undo # <<>>
    /\ \E e \in {PerformGroup(endTypingUndoCoalescing(Here), Last(undo),
                              FALSE)} :
           /\ e.done
           /\ text' = e.text /\ selection' = e.selection
           /\ coalescer' = e.coalescer
           /\ undo' = Front(undo) /\ redo' = Append(redo, e.group)
           /\ ForgetDigit /\ UNCHANGED editMode

redoChanges ==
    /\ redo # <<>>
    /\ \E e \in {PerformGroup(Here, Last(redo), TRUE)} :
           /\ e.done
           /\ text' = e.text /\ selection' = e.selection
           /\ coalescer' = e.coalescer
           /\ undo' = Append(undo, e.group) /\ redo' = Front(redo)
           /\ ForgetDigit /\ UNCHANGED editMode

Next ==
    \/ \E rs \in Selections : setSelectedContentsRanges(rs)
    \/ \E mode \in EditModes : setEditMode(mode)
    \/ \E byte \in Typed : typeDigit(byte) \/ typeCharacter(byte)
    \/ \E bytes \in Pasted : paste(bytes)
    \/ deleteSelection
    \/ \E left \in BOOLEAN : deleteDirection(left)
    \/ \E bytes \in Replacing : replaceByteArray(bytes)
    \/ removeAllUndoOperations
    \/ undoChanges
    \/ redoChanges

Spec == Init /\ [][Next]_vars

-----------------------------------------------------------------------------
(* Properties *)

\* The types of the variables; the action point is never before the anchor,
\* as HFControllerCoalescedUndo.m says of its class.
TypeOK ==
    /\ text \in Seq(Bytes)
    /\ editMode \in {"Insert", "Overwrite", "ReadOnly"}
    /\ coalescer # None => /\ coalescer.kind = "typing"
                           /\ 0 <= coalescer.anchor
                           /\ coalescer.anchor <= coalescer.action
                           /\ coalescer.action <= Len(text)
    /\ \A i \in DOMAIN undo : undo[i] # <<>>
    /\ \A i \in DOMAIN redo : redo[i] # <<>>
    /\ omitted = NotOmitted \/ omitted \in 0 .. (Len(text) - 1)

\* The commands rely on a selection that is never missing, inside the text
\* and in ascending order, whatever was typed over, replaced or undone.
SelectionIsUsable ==
    /\ selection # <<>>
    /\ \A i \in DOMAIN selection : Within(selection[i], text)
    /\ rangesAreInAscendingOrder(selection)

\* The text after an operation, and after a group of them.
Performed(t, operation) ==
    IF operation.kind = "typing"
    THEN Replaced(t, Between(operation.anchor, operation.action),
                  operation.deleted)
    ELSE InsertArrays(t, operation).text

GroupPerformed(t, group) ==
    LET performed[i \in 0 .. Len(group)] ==
            IF i = Len(group) THEN t
            ELSE Performed(performed[i + 1], group[i + 1])
    IN  performed[0]

\* The texts that undoing or redoing all of a stack gives back, the nearest
\* one last.
TextsOf(stack) ==
    LET after[i \in 0 .. Len(stack)] ==
            IF i = Len(stack) THEN text
            ELSE GroupPerformed(after[i + 1], stack[i + 1])
    IN  [i \in DOMAIN stack |-> after[i - 1]]

\* Every operation that waits to be undone or redone lies inside the text it
\* will be performed on: no assertion on its ranges can fail.
OperationsApply ==
    LET Apply(stack, redoing) ==
            LET applied[i \in 0 .. Len(stack)] ==
                    IF i = Len(stack) THEN Here
                    ELSE PerformGroup(applied[i + 1], stack[i + 1], redoing)
            IN  applied[0].done
    IN  Apply(undo, FALSE) /\ Apply(redo, TRUE)

History == INSTANCE UndoableTyping
    WITH past <- TextsOf(undo),
         present <- text,
         future <- TextsOf(redo),
         open <- coalescer # None /\ undo # <<>>

\* Undoing gives back exactly the text before an edit or a whole string of
\* typing, redoing the text after it, through every interleaving of typing,
\* deleting, moving the caret, switching modes, saving, undoing and redoing.
\* This is History!Spec, for a step that leaves the text, both stacks and the
\* coalescer alone is a stutter of it.
KeepsHistory ==
    History!Init
    /\ [][UNCHANGED <<text, undo, redo, coalescer>> \/ History!Next]_vars

\* Typing never goes on into what has been undone, or into an edit that is
\* not the last one.
TypingIsLastEdit ==
    coalescer # None /\ undo # <<>> =>
        /\ redo = <<>>
        /\ Last(Last(undo)) = coalescer

\* In overwrite mode a string of typing has saved exactly the bytes it covers
\* (the assertion of overwriteDataInRange:withByteArray:).
OverwritingSavesWhatItCovers ==
    editMode = "Overwrite" /\ coalescer # None =>
        Len(coalescer.deleted) = coalescer.action - coalescer.anchor

\* The digit that would complete a byte completes the one that the last edit
\* has put in, and not one that was there before or has been undone.
SecondDigitCompletesFirst ==
    insertionShouldDeleteLastNybble /\ undo # <<>> =>
        LET operation == Last(Last(undo))
        IN  /\ operation.kind = "typing"
            /\ operation.anchor <= omitted
            /\ operation.action = omitted + 1

Selected == UNION {Positions(selection[i]) : i \in DOMAIN selection}

\* The bytes of the text from a position on that are not selected.
UnselectedFrom(n) ==
    Kept(text, {i \in DOMAIN text : i > n /\ i - 1 \notin Selected})

\* In insert mode what is pasted takes the place of all the selected bytes
\* and of no others, at the start of the first range.
PasteReplacesSelection ==
    [][\A bytes \in Pasted : editMode = "Insert" /\ paste(bytes)
        => text' = SubSeq(text, 1, selection[1].location) \o bytes
                        \o UnselectedFrom(selection[1].location)]_vars
=============================================================================
