---------------------------- MODULE DocumentSave ----------------------------
(***************************************************************************)
(* Saving documents of the macOS application onto their own files, while   *)
(* other documents, undo operations and the clipboard hold bytes of those  *)
(* files (BaseDataDocument.m, HFController.m, HFPasteboardOwner.m and the  *)
(* second half of HFByteArray_FileWriting.m).                              *)
(*                                                                         *)
(* A byte array does not hold bytes but says where to read them: in the    *)
(* file of some document or in memory.  A save works in place, on a thread *)
(* of its own, while writeSafelyToURL: goes on handling events.  So events *)
(* of all documents happen during a save, and another document's save is   *)
(* nested in it: the outer one can only return after the inner one.        *)
(*                                                                         *)
(* What the thread does to the file is what InPlaceSave says of it, which  *)
(* FileWriting implements.                                                 *)
(***************************************************************************)
EXTENDS Integers, SequencesExt

CONSTANTS
    Documents,     \* all of them open at first, each with a file of its own
    FileLength,    \* of each document's file at first
    MemoryLimit,   \* MAX_MEMORY_TO_USE_FOR_BREAKING_FILE_DEPENDENCIES_ON_SAVE
    WhileSaving,   \* what is done to a document that is being saved
    MaxLength,     \* bounds a document
    MaxEvents,     \* bounds what the user does, saves apart
    MaxSaves,      \* bounds the saves
    Memory,        \* in place of a file, for the bytes that are in memory
    Typed,         \* the value of a byte typed
    Torn,          \* the value of a byte in the middle of a save
    Missing        \* what a byte behind the end of its file reads as

ASSUME DocumentSaveAssumption ==
    /\ Memory \notin Documents
    /\ FileLength \in [Documents -> Nat]
    /\ MemoryLimit \in Nat
    /\ WhileSaving \subseteq {"copy", "undo"}
    /\ MaxLength \in Nat /\ MaxEvents \in Nat /\ MaxSaves \in Nat

VARIABLES
    closed,      \* the documents that have been closed
    array,       \* the controller's byteArray of each document
    undo,        \* its undoOperations, the last one last
    clip,        \* the byte array of the pasteboard owner
    disk,        \* the contents of each document's file
    phase,       \* how far each document's save is
    announced,   \* the positions of the file that the save will change
    goal,        \* the text that the save writes
    result,      \* saveResult
    nested,      \* the saves whose event loops are running, the inner ones last
    spoilt,      \* the documents that have had a save that did not succeed
    events, saves

held == <<closed, array, undo, clip>>
saving == <<phase, announced, goal, result, nested, spoilt>>
vars == <<held, disk, saving, events, saves>>

-----------------------------------------------------------------------------
(* Bytes and byte arrays *)

FileByte(d, i) == [file |-> d, at |-> i, value |-> Missing]
MemoryByte(value) == [file |-> Memory, at |-> 0, value |-> value]

\* A byte array of one slice, the file as long as it is.
WholeFile(d, length) == [i \in 1 .. length |-> FileByte(d, i)]

\* What a byte reads as.
Read(b) ==
    IF b.file = Memory THEN b.value
    ELSE IF b.at \in DOMAIN disk[b.file] THEN disk[b.file][b.at]
    ELSE Missing

Reads(bytes) == [i \in DOMAIN bytes |-> Read(bytes[i])]

\* Some of the bytes are read from these positions of d's file.
DependsOn(bytes, d, positions) ==
    \E i \in DOMAIN bytes : bytes[i].file = d /\ bytes[i].at \in positions

\* Mutants of rangesOfFileModifiedIfSavedToFile: positions are counted from
\* zero; the part that is cut off is not announced.
rangesModifiedFromZero(d) ==
    {i - 1 : i \in {j \in DOMAIN array[d] : array[d][j] # FileByte(d, j)}}
        \cup {i \in DOMAIN disk[d] : i > Len(array[d])}

rangesModifiedNoTail(d) ==
    {i \in DOMAIN array[d] : array[d][i] # FileByte(d, i)}

rangesOfFileModifiedIfSavedToFile(d) ==
    {i \in DOMAIN array[d] : array[d][i] # FileByte(d, i)}
        \cup {i \in DOMAIN disk[d] : i > Len(array[d])}

-----------------------------------------------------------------------------
(* Breaking dependencies *)

\* Mutant of Cleared: the bytes are not copied.
ClearedNothing(bytes, d, ranges) == bytes

\* clearDependenciesOnRanges:, when it succeeds.
Cleared(bytes, d, ranges) ==
    [i \in DOMAIN bytes |->
        IF bytes[i].file = d /\ bytes[i].at \in ranges
        THEN MemoryByte(Read(bytes[i])) ELSE bytes[i]]

\* It may fail only if there is more to copy than memory for it.  It need
\* not, since byte arrays share the copies of slices they have in common.
MayFail(bytes, d, ranges) ==
    Cardinality({i \in DOMAIN bytes :
                    bytes[i].file = d /\ bytes[i].at \in ranges}) > MemoryLimit

OperationMayFail(operations, d, ranges) ==
    \E i \in DOMAIN operations : MayFail(operations[i].bytes, d, ranges)

ClearedOperations(operations, d, ranges) ==
    [i \in DOMAIN operations |->
        [operations[i] EXCEPT !.bytes = Cleared(@, d, ranges)]]

\* prepareCommonPasteboardsForChangeInFileNotification: and
\* changeInFileNotification:
ClearedClip(d, ranges) ==
    {Cleared(clip, d, ranges)}
        \cup (IF MayFail(clip, d, ranges) THEN {<<>>} ELSE {})

-----------------------------------------------------------------------------
Init ==
    /\ closed = {}
    /\ array = [d \in Documents |-> WholeFile(d, FileLength[d])]
    /\ undo = [d \in Documents |-> <<>>]
    /\ clip = <<>>
    /\ disk = [d \in Documents |-> [i \in 1 .. FileLength[d] |-> <<d, i>>]]
    /\ phase = [d \in Documents |-> "idle"]
    /\ announced = [d \in Documents |-> {}]
    /\ goal = [d \in Documents |-> <<>>]
    /\ result = [d \in Documents |-> "none"]
    /\ nested = <<>>
    /\ spoilt = {}
    /\ events = 0 /\ saves = 0

\* changesAreLocked of the document's byte array.
Locked(d) == phase[d] \in {"writing", "written"}

-----------------------------------------------------------------------------
(* What the user does to a document *)

Event ==
    /\ events < MaxEvents
    /\ events' = events + 1
    /\ UNCHANGED <<disk, saving, saves>>

Replaced(bytes, edit) ==
    SubSeq(bytes, 1, edit.at - 1) \o edit.bytes
        \o SubSeq(bytes, edit.at + edit.length, Len(bytes))

Edit(d, edit) ==
    /\ Event
    /\ ~Locked(d)
    /\ Len(array[d]) - edit.length + Len(edit.bytes) <= MaxLength
    /\ array' = [array EXCEPT ![d] = Replaced(@, edit)]
    /\ undo' = [undo EXCEPT ![d] = Append(@,
                    [at |-> edit.at, length |-> Len(edit.bytes),
                     bytes |-> SubSeq(array[d], edit.at,
                                      edit.at + edit.length - 1)])]
    /\ UNCHANGED <<closed, clip>>

\* insertData:replacingPreviousBytes:allowUndoCoalescing:
Type(d) ==
    \E at \in 1 .. (Len(array[d]) + 1) :
        Edit(d, [at |-> at, length |-> 0, bytes |-> <<MemoryByte(Typed)>>])

\* deleteSelection
Delete(d) ==
    \E at \in DOMAIN array[d] : \E length \in 1 .. (Len(array[d]) + 1 - at) :
        Edit(d, [at |-> at, length |-> length, bytes |-> <<>>])

\* pasteBytesFromPasteboard:
Paste(d) ==
    /\ clip # <<>>
    /\ \E at \in 1 .. (Len(array[d]) + 1) :
            Edit(d, [at |-> at, length |-> 0, bytes |-> clip])

\* copySelectedBytesToPasteboard:, which does not need the lock.
Copy(d) ==
    /\ Event
    /\ Locked(d) => "copy" \in WhileSaving
    /\ \E from, to \in DOMAIN array[d] :
            from <= to /\ clip' = SubSeq(array[d], from, to)
    /\ UNCHANGED <<closed, array, undo>>

\* The assertions of subarrayWithRange: and insertByteArray:inRange:
Fits(edit, length) == edit.at + edit.length - 1 <= length

\* _performMultiRangeUndo:.  It takes the operation out before it touches the
\* byte array, which raises if it is locked.
Undo(d) ==
    /\ Event
    /\ undo[d] # <<>>
    /\ undo' = [undo EXCEPT ![d] = Front(@)]
    /\ UNCHANGED <<closed, clip>>
    /\ IF Locked(d) THEN "undo" \in WhileSaving /\ UNCHANGED array
       ELSE /\ Fits(Last(undo[d]), Len(array[d]))
            /\ array' = [array EXCEPT ![d] = Replaced(@, Last(undo[d]))]

-----------------------------------------------------------------------------
(* writeSafelyToURL: *)

Others(d) == Documents \ (closed \cup {d})

\* A locked byte array cannot be cleared: it raises if it has to replace any
\* slice of the file.
Raises(e, d) ==
    Locked(e) /\ \E i \in DOMAIN array[e] : array[e][i].file = d

\* prepareForChangeInFileByBreakingFileDependencies: has gone through the
\* documents `handled', of which the user let those in `shut' be closed.
Handled(d, ranges, handled, shut) ==
    /\ shut \subseteq handled
    /\ \A e \in shut : MayFail(array[e], d, ranges)
    /\ \A e \in handled \ shut : ~Raises(e, d)
    /\ closed' = closed \cup shut
    /\ array' = [e \in Documents |->
                    IF e \in handled \ shut
                    THEN Cleared(array[e], d, ranges) ELSE array[e]]

\* Mutant of UndoCleared: only the operations that cannot be cleared are
\* dropped.
UndoClearedSingly(d, ranges, handled) ==
    undo' = [e \in Documents |->
                IF e \in handled
                THEN ClearedOperations(
                        SelectSeq(undo[e],
                            LAMBDA o : ~MayFail(o.bytes, d, ranges)), d, ranges)
                ELSE undo[e]]

\* clearUndoManagerDependenciesOnRanges:: if one operation of a document
\* cannot be cleared, all of them are dropped.
UndoCleared(d, ranges, handled) ==
    \E dropped \in SUBSET {e \in handled : OperationMayFail(undo[e], d, ranges)} :
        undo' = [e \in Documents |->
                    IF e \in dropped THEN <<>>
                    ELSE IF e \in handled
                    THEN ClearedOperations(undo[e], d, ranges)
                    ELSE undo[e]]

\* Everybody could be cleared: the byte array is locked, and the thread
\* starts.
StartSave(d) ==
    LET ranges == rangesOfFileModifiedIfSavedToFile(d)
    IN  /\ saves < MaxSaves
        /\ d \notin closed
        /\ phase[d] = "idle"
        /\ IF ranges = {} THEN UNCHANGED held
           ELSE /\ \E shut \in SUBSET Others(d) :
                        Handled(d, ranges, Others(d), shut)
                /\ UndoCleared(d, ranges, Others(d) \cup {d})
                /\ clip' \in ClearedClip(d, ranges)
        /\ phase' = [phase EXCEPT ![d] = "writing"]
        /\ announced' = [announced EXCEPT ![d] = ranges]
        /\ goal' = [goal EXCEPT ![d] = Reads(array[d])]
        /\ nested' = Append(nested, d)
        /\ saves' = saves + 1
        /\ UNCHANGED <<disk, result, spoilt, events>>

\* The preparation ends at the document e, and does not reach some others,
\* and perhaps not the pasteboards.
Interrupted(d, e) ==
    LET ranges == rangesOfFileModifiedIfSavedToFile(d)
    IN  /\ saves < MaxSaves
        /\ d \notin closed
        /\ phase[d] = "idle"
        /\ ranges # {}
        /\ \E handled \in SUBSET (Others(d) \ {e}) :
              /\ \E shut \in SUBSET handled : Handled(d, ranges, handled, shut)
              /\ UndoCleared(d, ranges, handled)
        /\ clip' \in ClearedClip(d, ranges) \cup {clip}
        /\ saves' = saves + 1
        /\ UNCHANGED <<disk, announced, goal, result, nested, spoilt, events>>

\* e cannot be cleared, and the user does not let it be closed.
SaveRefused(d) ==
    \E e \in Others(d) :
        /\ MayFail(array[e], d, rangesOfFileModifiedIfSavedToFile(d))
        /\ Interrupted(d, e)
        /\ UNCHANGED phase

\* e is being saved itself, so that clearing it raises; nobody catches that
\* before the event loop, and saveInProgress stays set.
SaveRaises(d) ==
    \E e \in Others(d) :
        /\ Raises(e, d)
        /\ Interrupted(d, e)
        /\ phase' = [phase EXCEPT ![d] = "stuck"]

\* writeToFile:trackingProgress:error: has changed the file somewhere, and
\* made it no shorter (InPlaceSave!Touch and NeverShorterBeforeSuccess of
\* FileWriting).
Write(d) ==
    /\ phase[d] = "writing"
    /\ \E torn \in SUBSET announced[d], length \in {Len(disk[d]), Len(goal[d])} :
          /\ length >= Len(disk[d])
          /\ disk' = [disk EXCEPT ![d] =
                        [i \in 1 .. length |->
                            IF i \in torn \/ i \notin DOMAIN @
                            THEN Torn ELSE @[i]]]
    /\ UNCHANGED <<held, saving, events, saves>>

\* threadedSaveToURL:trackingProgress:error: returns.  The save counts as
\* cancelled if that was requested at any time, even if all was written.
WriteEnds(d) ==
    /\ phase[d] = "writing"
    /\ phase' = [phase EXCEPT ![d] = "written"]
    /\ \E r \in {"success", "error", "cancelled"} :
          /\ result' = [result EXCEPT ![d] = r]
          /\ \/ r # "error" /\ disk' = [disk EXCEPT ![d] = goal[d]]
             \/ r # "success" /\ UNCHANGED disk
    /\ UNCHANGED <<held, announced, goal, nested, spoilt, events, saves>>

\* Mutant of EndSave: the save that began first returns first.
EndSaveOldestFirst(d) ==
    /\ phase[d] = "written"
    /\ Head(nested) = d
    /\ array' = IF result[d] = "error" THEN array
                ELSE [array EXCEPT ![d] = WholeFile(d, Len(disk[d]))]
    /\ phase' = [phase EXCEPT ![d] = "idle"]
    /\ announced' = [announced EXCEPT ![d] = {}]
    /\ goal' = [goal EXCEPT ![d] = <<>>]
    /\ result' = [result EXCEPT ![d] = "none"]
    /\ nested' = Front(nested)
    /\ spoilt' = IF result[d] = "success" THEN spoilt ELSE spoilt \cup {d}
    /\ UNCHANGED <<closed, undo, clip, disk, events, saves>>

\* The event loop of the save ends, after those of the saves begun in it.
\* Unless there was an error, the document is reset to the file as it is.
EndSave(d) ==
    /\ phase[d] = "written"
    /\ Last(nested) = d
    /\ array' = IF result[d] = "error" THEN array
                ELSE [array EXCEPT ![d] = WholeFile(d, Len(disk[d]))]
    /\ phase' = [phase EXCEPT ![d] = "idle"]
    /\ announced' = [announced EXCEPT ![d] = {}]
    /\ goal' = [goal EXCEPT ![d] = <<>>]
    /\ result' = [result EXCEPT ![d] = "none"]
    /\ nested' = Front(nested)
    /\ spoilt' = IF result[d] = "success" THEN spoilt ELSE spoilt \cup {d}
    /\ UNCHANGED <<closed, undo, clip, disk, events, saves>>

-----------------------------------------------------------------------------
UserStep ==
    \E d \in Documents \ closed :
        \/ Type(d) \/ Delete(d) \/ Paste(d) \/ Copy(d) \/ Undo(d)
        \/ StartSave(d) \/ SaveRefused(d) \/ SaveRaises(d)

Next ==
    \/ UserStep
    \/ \E d \in Documents : Write(d) \/ WriteEnds(d) \/ EndSave(d)

Spec == Init /\ [][Next]_vars

\* The thread of a save runs, and so does the loop that waits for it.
FairSpec ==
    /\ Spec
    /\ \A d \in Documents : WF_vars(WriteEnds(d)) /\ WF_vars(EndSave(d))

-----------------------------------------------------------------------------
(* Invariants *)

\* The types of the variables.
Values == {Typed, Torn, Missing} \cup (Documents \X (Nat \ {0}))

Bytes == [file : Documents \cup {Memory}, at : Nat, value : Values]

Operations == [at : Nat \ {0}, length : Nat, bytes : Seq(Bytes)]

TypeOK ==
    /\ closed \subseteq Documents
    /\ array \in [Documents -> Seq(Bytes)]
    /\ undo \in [Documents -> Seq(Operations)]
    /\ clip \in Seq(Bytes)
    /\ disk \in [Documents -> Seq(Values)]
    /\ phase \in [Documents -> {"idle", "writing", "written", "stuck"}]
    /\ announced \in [Documents -> SUBSET (Nat \ {0})]
    /\ goal \in [Documents -> Seq(Values)]
    /\ result \in [Documents -> {"none", "success", "error", "cancelled"}]
    /\ nested \in Seq(Documents)
    /\ spoilt \subseteq Documents
    /\ events \in 0 .. MaxEvents /\ saves \in 0 .. MaxSaves

\* While a file is being rewritten, no byte of another document, of any undo
\* operation or of the clipboard is to be read from a position that changes:
\* what prepareForChangeInFile: has cleared stays clear during the event loop
\* of writeSafelyToURL:.
NobodyReadsWhatChanges ==
    \A d \in Documents : Locked(d) =>
        /\ \A e \in Documents \ (closed \cup {d}) :
              ~DependsOn(array[e], d, announced[d])
        /\ \A e \in Documents \ closed : \A i \in DOMAIN undo[e] :
              ~DependsOn(undo[e][i].bytes, d, announced[d])
        /\ ~DependsOn(clip, d, announced[d])

\* The operations of a document can be undone one after the other: each
\* replaces bytes that are there, whatever saves have done to the byte array.
UndoFits ==
    \A d \in Documents \ (closed \cup spoilt) :
        LET last == Len(undo[d])
            \* How long the document is before the operation i is undone.
            length[i \in 0 .. last] ==
                IF i = last THEN Len(array[d])
                ELSE length[i + 1] - undo[d][i + 1].length
                        + Len(undo[d][i + 1].bytes)
        IN  \A i \in 1 .. last : Fits(undo[d][i], length[i])

-----------------------------------------------------------------------------
(* Action and temporal properties *)

\* Texts, histories and the clipboard are their own: what they read as never
\* changes by another document's save, nor by a successful one of their own.
\* While a document is being saved it stands for the text that is written.
Text(d) ==
    IF d \in closed THEN <<>> ELSE IF Locked(d) THEN goal[d] ELSE Reads(array[d])

Past(d) ==
    IF d \in closed THEN <<>>
    ELSE [i \in DOMAIN undo[d] |-> [undo[d][i] EXCEPT !.bytes = Reads(@)]]

Own == INSTANCE OwnTexts WITH
    text <- [d \in Documents |-> Text(d)],
    past <- [d \in Documents |-> Past(d)],
    clip <- Reads(clip)

TextsAreOwn == Own!Spec

\* Every save that has begun comes to its end, also one in whose event loop
\* others have been begun.
SavesEnd == \A d \in Documents : Locked(d) ~> phase[d] = "idle"
=============================================================================
