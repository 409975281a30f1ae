# Hex Fiend: a TLA+ model

Specifications of the parts of Hex Fiend in which bytes can be lost: saving a
file onto itself, editing with an undo history, and replacing one document by
another. Each module is written from the source; `PROJECT.json` maps each
definition to its lines. Paths below are relative to `src/`.

The repository is a fork of the macOS hex editor that is being rewritten for
Linux (`REWRITE.md`). It has three layers:

- the portable engine in `framework/sources` (byte arrays, B+tree, file
  references, saving, searching; the list is
  `core/HexFiendCoreSources.cmake`);
- the AppKit application: `HFController` and the representers in
  `framework/sources`, the documents in `app/sources`;
- the Linux application: one ImGui program (`ui/linux/src/main.cpp`) around
  `EngineDocument` (`ui/linux/src/EngineDocument.mm`), which wraps the engine.

## Inventory

| Component | State | Operations | What is hard | What makes it correct | Module |
|---|---|---|---|---|---|
| In-place save (`HFByteArray_FileWriting.m`, `HFByteSliceFileOperation.m`, `...QueueEntry.m`, `HFFileReference.m`, `HFProgressTracker.m`) | the file; remaining ranges of each operation, queue, memory; progress tracker | `writeToFile:`, `rangesOfFileModifiedIfSavedToFile:`, `requestCancel:` | the file is read and written at once; memory limits decide what is read when; cancellation from another thread; I/O errors | no source is overwritten before it is read; YES means the file is the array; only announced positions change | `FileWriting`, `InPlaceSave`, `ByteArrays` |
| Object graph (`HFObjectGraph.m`, steps 3 to 6 of `HFByteArray_FileWriting.m`) | dependency graph | strong components, acyclic graph, topological sort | orders in which sets are enumerated | components are strong and written after what must come first | `ObjectGraph` |
| Linux editor (`main.cpp`) | `ViewState`: caret, ranges, pending digit; `EditHistory` | select, type, delete, paste, find, replace, undo, redo | long sequences of commands; several ranges; a byte typed in two steps | undo gives back the exact text and selection | `LinuxEditor`, `UndoableText` |
| Linux document (`EngineDocument.mm`, `main.cpp`) | files, document, modal dialog, pending action | open, edit, `saveAs`, dialogs, quit | a save that fails or is killed at any step; events heard behind a dialog | files are replaced whole; changes go only where the user sends them | `LinuxDocument` |
| Controller (`HFController.m`, `HFControllerCoalescedUndo.m`, `HFHexTextRepresenter.m`) | bytes, selected ranges, mode, undo coalescer, undo groups, pending digit | insert, overwrite, delete, replace all, undo, redo, dropping the history before a save | when typing may go on with the last undo operation; ranges that shift while they are worked off | as for the Linux editor | `ControllerUndo`, `UndoableTyping` |
| Byte arrays and slices (`HFByteArray.m`, `HFBTreeByteArray.m`, `HFByteSlice.m` and subclasses) | a tree of slices, memory that slices share | insert, delete, subarray, copy | splitting slices at the edges of a range; memory that grows under the slices that share it | behaves as a sequence of bytes, whoever shares its slices | `SlicedArrays`; what a save sees of them in `ByteArrays` |
| B+tree (`BTree/HFBTree.m`) | nodes | insert, remove, find | splitting and joining of nodes | balanced, sums right | planned |
| Annotated tree, byte range attributes | intervals | add, remove, shift with an edit | edges of ranges | as a set of positions per attribute | planned |
| Find and replace in byte arrays | none | search in both directions | buffers' edges | the first match | planned; `LinuxEditor` uses the specification |
| Edit scripts, `DiffDocument.m` | longest common subsequence | compare, threads | concurrency of the search, cancellation | the script turns one array into the other | planned |
| macOS documents (`BaseDataDocument.m`) | change lock, save result, operations on threads | save, find, replace all, live reload | events heard during a save, nested saves, other documents that read the file | nobody loses bytes to another's save | `DocumentSave`, `OwnTexts`; find, replace all and live reload planned |
| Pasteboard owners | a byte array each | provide data, break dependencies | a save while the pasteboard reads the file | the pasteboard keeps its bytes | `DocumentSave` |
| Linux comparison of files | two files, blocks | compare | block edges | equal bytes are paired | planned |
| Representers, views, templates, inspector, privileged helper, command line, Linux process snapshots and drives | — | drawing, I/O, conversions, interpreters | — | — | not modelled: no state of their own that outlives an event, or pure I/O |

How they interact: an edit goes from a view to the controller (macOS) or to
`main.cpp` (Linux) and from there to a byte array, which is a list of slices of
memory and of files. Undo operations, pasteboards and other documents hold byte
arrays of their own that may read from the same file. A save on macOS works in
place: it first asks `rangesOfFileModifiedIfSavedToFile:` which positions will
change, tells all holders to copy those
(`+[HFController prepareForChangeInFile:fromWritingByteArray:]`), and then
rewrites the file on a background thread, during which the array is locked. On
Linux a save writes a temporary file and renames it.

The hazards of each part, at the lines where they bite and with the properties
that would catch them, are in `PROJECT.json`.

## Modules

`ByteArrays` — pure definitions: a byte array is a length and a set of slices,
each with a position, a length and either a position in the file it reads from
or `NotInFile`. A byte is its origin (`FileByte(c)`, `MemoryByte(c)`,
`ZeroByte`), since a save moves bytes and never looks at them. An operation of
the code (`HFByteSliceFileOperation`) is its slice. `Identity`, `Internal` and
`External` are the three kinds of operation, `DependsOn` the dependency between
two internal ones, `ModifiedBySaving` the announced positions.

`FileWriting` — `writeToFile:` as a state machine, `pc` being the place in the
method. One action is one turn of its loops: `AddQueueEntry` and
`QueueUpOverlapped` read a piece into the queue, `ApplyQueueEntry` writes the
first entry once no incomplete operation of the chain overlaps it,
`WriteExternal` writes one buffer of bytes from elsewhere. `FailIO` may end the
method wherever it opens, extends, writes or truncates, and `NoticeCancel`
wherever it looks at `cancelRequested`, which `RequestCancel` sets at any
moment. The order of the chains is any one that respects the dependencies; that
the code's algorithms produce such an order is `ObjectGraph`'s subject. The
length that `malloc_good_size` rounds to is any length up to what is left.
`disk` is a function whose domain is `0 .. length - 1`.

`InPlaceSave` — the abstract save: the file may be touched at announced
positions, and the save ends with the file equal to the array, or gives up.

`ObjectGraph` — the algorithms of steps 3 to 6: Tarjan's recursive procedure
with its stack, index and low link, the graph of the components as the code
builds it (with the lookup of line 210), the recursive topological sort.
Written with RECURSIVE operators, as the code is; nothing is proved about it.

`LinuxEditor` — one action per handler of `main.cpp`, each ending with the
`clampView` with which the next frame begins. Edits are functions from an
editor (text, view, stacks, whether the function answered true) to another, as
the handlers call one another: `typeByte` calls `replaceSelection` calls
`deleteSelectedRanges` and `applyReplacement`, which record one transaction
each. A byte is a pair of digits. The vector of additional ranges is the set of
positions it covers, since `normalizedRanges` keeps it sorted, disjoint and
merged.

`UndoableText` — the abstract history: texts behind, the text, texts ahead.

`LinuxDocument` — files, the document, the steps of `saveAs`, the dialog and
the pending action. A file is a version, the number of its chunks written and
its mode. Each step of `saveAs` is an action, because the process may be killed
between any two. Events queued behind a modal dialog are heard, as SDL events
are in the main loop.

`ControllerUndo` — one action per event of `HFController`. The undo coalescer
of the code is an object that is also the last operation of the last undo
group; here it is a variable, and `Coalesce` changes both. `NSUndoManager` is
external: a group per event, performed last operation first, what is
registered while undoing can be redone, registering anything else clears that.
Operations of typing (`HFControllerCoalescedUndo`) and of several ranges
(`HFControllerMultiRangeUndo`) are inverted as the code inverts them.
An assertion of the code on the range of an operation is `done = FALSE`, and
the event does not happen. The pending digit of the hexadecimal pane is the
variable `omitted`; `ForgetDigit` is what its `controllerDidChange:` does.

`UndoableTyping` — as `UndoableText`, with a string of typing that is one edit
while it is open, and with forgetting.

`DocumentSave` — several documents with a file each, their histories and the
clipboard. A byte array is a sequence of bytes that say where to read them: a
position in the file of some document, or memory with the value. A save has
four parts. `StartSave` is everything `writeSafelyToURL:` does before its
thread: the announced positions, the clearing of the other documents, of all
undo operations and of the clipboard, and the lock; `SaveRefused` and
`SaveRaises` are the ways in which the preparation stops among the documents,
with some of them cleared. `Write` is what the thread may do to the file
meanwhile, that is what `InPlaceSave` allows, which `FileWriting` implements;
`WriteEnds` is its end, with the three results. `EndSave` is the return from the
event loop, in the order in which nested loops return. Between them any user
action of any document happens, as far as the lock lets it. `Locked` is
`changesAreLocked`; editing a locked byte array raises and changes nothing,
which is no step. `WhileSaving` says which of the two things that go wrong
during a save are done: copying from the document being saved, and undoing in
it.

`OwnTexts` — the abstract documents: a text, a history and a clipboard that are
values, with typing, deleting, copying, pasting and undoing. A save may make
others forget (`Forget`) or, if it fails, spoil its own document (`Spoil`), and
changes nothing else.

`SlicedArrays` — `HFBTreeByteArray` as a sequence of slices, and the slices of
`HFSharedMemoryByteSlice`: a piece of an `NSMutableData` that others may share,
and a tail of bytes of its own. `contents` are the data objects, the file being
one that does not grow. `byteSliceByAppendingSlice` has the answers of the
method: none, a longer tail, or shared memory that has grown. The four edits are
functions from a list of slices and the memory to others, as the methods call
one another: `insertByteArray` is a deletion and an insertion per slice,
`deleteBytesInRange` takes slices out and puts back their ends. Offsets count
from zero as in the code. A data object nobody refers to is empty again, as it
has been released.

`MCFileWriting`, `MCObjectGraph`, `MCLinuxEditor`, `MCControllerUndo`,
`MCDocumentSave` and `MCSlicedArrays` give the constants finite values;
`LinuxDocument` needs none but those of its `.cfg`. `FileWritingProofs`,
`LinuxDocumentProofs`, `DocumentSaveProofs`, `SlicedArraysProofs`,
`SlicedListProofs`, `LinuxEditorProofs` and `ControllerUndoProofs` hold the
proofs, `SequenceLemmas` what they share.

An operator preceded by "Mutant of" is not used by a specification: it is what
a plausible mistake would make of the definition, for showing that a property
notices.

## Runs

| Run | Bounds | Shows |
|---|---|---|
| `FileWriting` | all arrays of up to 5 bytes and 3 slices, files of up to 4 bytes, 3 bytes of memory for a chain, buffers of 2 | that a save is safe: `SourcesIntact`, `SavedFileIsArray`, `OnlyAnnouncedPositionsChange`, `NeverShorterBeforeSuccess`, `QueueAccounted`; that it ends (`SaveEnds`); that it implements `InPlaceSave` (`KeepsPromise`) |
| `ObjectGraph` | all graphs of three operations, all orders of enumeration | `ComponentsAreStrong`, `ChainsInDependencyOrder` |
| `Typing` | two bytes at first, up to 4; two edits to be undone; one range; offsets 0 to 2; a pattern of one byte replaced by two | history, pending digit, restored selection, Replace All |
| `Ranges` | three bytes; up to two ranges, by dragging | the same history with several ranges; `DeletesSelectedBytes` |
| `TwoDigits` | as small as shows it | a finding, see below |
| `Controller` | two bytes at first, up to 3; two groups to be undone; one range or two; insert and overwrite mode | coalesced history implements `UndoableTyping`; `SelectionIsUsable`, `OperationsApply`, `TypingIsLastEdit`, `OverwritingSavesWhatItCovers`, `SecondDigitCompletesFirst`, `PasteReplacesSelection` |
| `ControllerSeveral` | four bytes, two ranges | a finding |
| `Document` | two paths, three texts, two chunks | `FilesAreWhole`, `UnmodifiedIsOnDisk`, `ChangesAreKept` |
| `DocumentCancel` | the same | a finding |
| `DocumentSave` | two documents, files of two bytes and of one, arrays of up to 2, three user actions, two saves, no memory for copies unless slices are shared | while a save runs nobody reads what it changes (`NobodyReadsWhatChanges`), histories fit their texts (`UndoFits`), every save ends (`SavesEnd`); implements `OwnTexts` (`TextsAreOwn`) |
| `SaveCopies` | the same, with copying from the document being saved | a finding |
| `SlicedArrays` | two arrays of up to 3 bytes, a file of one byte, tails of 1 byte, shared memory of up to 2 bytes, slices of up to 3 grown by appending, one data object at a time | `TypeOK` (slices lie in their memory) and `EditsAreExact` in every state a history of edits can lead to |

Why these bounds are enough to be interesting:

- `FileWriting`: three slices make a cycle of two operations with a third one
  that hangs on it, or a cycle of three; a chain's limit of 3 and buffers of 2 make the queue hold
  pieces of several operations and force a range to be read in pieces; an
  array one byte longer than the longest file makes it grow.
- `ObjectGraph`: three vertices have all shapes of cycles that can share a
  vertex; the enumeration order matters from two on.
- `LinuxEditor` and `ControllerUndo`: two undoable edits suffice for an edit
  that builds on another and for redoing one of two; length 3 is the least in
  which two ranges do not touch. `MaxLength`, `MaxHistory` and `MaxCondemned`
  are guards; an edit beyond them does not happen.
- `Controller` sets `MaxCondemned = 1` and `ForgetsWhileTyping = FALSE`:
  beyond them `KeepsHistory` does not hold, see below. Read-only mode, in which
  the controller's commands are refused, is left out of this run.
- `LinuxDocument` has no bound: its state is finite.
- `DocumentSave`: with `MemoryLimit = 0` each copy that has something to copy
  may fail or succeed, so that both ways are taken everywhere; two saves nest,
  three actions suffice to bring a byte of one file to another document, to a
  history and to the clipboard. `MaxEvents` and `MaxSaves` only bound how long
  the user goes on.
- `SlicedArrays`: with tails of one byte (15 in the code) every third insertion
  has to move a byte into shared memory, and a slice's end soon is its memory's
  end or not, both in one array and across the two. `EditsAreExact` evaluates
  every edit in every state, also those whose result the bounds then exclude.
  The two arrays and the data objects are symmetric.

`CHECK_DEADLOCK FALSE` stands in the configurations because systems end: a save
returns, a process quits, and an editor whose bounds are reached with no
selection to change may have nothing to do.

Fairness is that of threads. `WF_vars(WriterStep)` in `FileWriting!FairSpec`:
the background thread runs. `WF_vars(WriteEnds(d))` and `WF_vars(EndSave(d))`
in `DocumentSave!FairSpec`: the thread of each save returns, which is
`FileWriting!SaveEnds`, and the loop in `writeSafelyToURL:` that waits for it
looks at the result after each event, so that the innermost loop whose save is
done returns. Nothing makes the user cancel, edit or save, and no disk has to
fail. Liveness elsewhere would be a user's patience, which the code cannot
promise.

## Proofs

`FileWritingProofs` proves of `FileWriting`, for every set of byte arrays,
every file and every memory limit: `TypeCorrect`, `SourcesStayIntact`,
`AnnouncedPositions`, `NotShorter`, `SavedIsArray`, `MemoryIsAccounted`, and
that `Spec` implements `InPlaceSave` (`Refinement`). The assumptions are `FileWritingAssumption`: the
arrays are byte arrays, lengths are natural numbers and buffers not empty.

None of these invariants is inductive. That a source is intact when an entry is
written over the file needs that no other operation still has to read there:
of its own chain, the code has just checked that; of an earlier one, nothing is
left to read; of a later one, it would depend on the one being written and
would have come first. So `IInv` says of the chains that they respect the
dependencies (`PlanLaid`) and that those behind are read (`Progress`). That the
saved file is the array needs to know where each byte is: not yet read, in an
entry of the queue, or written (`ReadIsKept`, `ExternalKept`, and `QueueHolds`,
which ties an entry to the operation it was read for). `FileLength` follows the
length of the file through the method. `SavedIsArray` then follows from
`AllWritten`: at the end each position is written by its operation, and
identities were right all along. There is one lemma per action, and
`EnqueueIInv` and `WriteFacts` hold what the two reading and the two writing
actions share. `MemoryIsAccounted` has an invariant of its own (`Accounts`): the
memory is a sum over the entries of the queue, and an entry can only be added
or removed with its length because entries are pieces of at least one byte that
meet neither each other nor what remains to be read, so that none is there
twice.

`LinuxDocumentProofs` proves of `LinuxDocument`, for any files, texts and number
of chunks: `TypesCorrect`, `UnmodifiedDocumentIsOnDisk`,
`SavesReplaceWholeFiles` and `ChangesAreNotLost`. `LinuxDocumentAssumption` only
keeps `None` apart from what is not absent and gives a new document a text. The
properties speak of the time between saves or of one step, so that none says how
far a save is: its `IInv` adds that the temporary file holds the document's text
and, before it is renamed, is whole and has the target's mode
(`TemporaryHolds`), and that after the renaming the target holds that text
(`TargetHolds`), which is why closing the document to reopen it loses nothing.
The steps that replace the document (`performPendingAction` and `open`) share
the lemmas around `Replaced`.

`DocumentSaveProofs` proves of `DocumentSave`, for any number of documents, any
files and any bounds: `TypesHold` and `WhatChangesIsNotRead`, if nobody copies
from a document that is being saved (`"copy" \notin WhileSaving`; with it the
run `SaveCopies` has a counterexample), and `TextsStayOwn`, that `Spec`
implements `OwnTexts`, if nobody undoes in one either (`WhileSaving = {}`).
That nobody reads what changes is not inductive: an edit may bring a byte from
one document to another, a save announces positions, and a file gets shorter.
The invariant is about single bytes: a byte is steady if it is in memory or at a
position that is in the file and that no running save has announced. `IInv`
says that everybody holds steady bytes, except the document being saved of its
own file (`Held`), and that the file holds what the text to be written has at
the positions that were not announced (`SavedText`). Edits, copies and undos
move steady bytes about; `StartSave` makes all bytes steady again for the new
positions (`StartSaveHolds`); steady bytes read the same after a step of a save
(`WriteKeeps`, `WriteEndsKeeps`, `EndSaveKeeps`). From the last fact each step
maps to a step of `OwnTexts` or to none: a running save to none, its start and
its interrupted start to `Forget`, its end to `Spoil` or to none, since what was
written is what the document stood for. `HistoriesFit` (`UndoFits`, for
`WhileSaving = {}`) is about lengths only: an edit adds an operation that fits
the new text and leaves the length behind it that the older ones fit, clearing
and a save that succeeds keep all lengths, a save that fails takes its document
out of the property (`spoilt`).

`SlicedArraysProofs` proves of the slices, for any memory, tails and limits:
`AppendingIsExact`, that what `byteSliceByAppendingSlice:` answers reads as the
one slice and then the other; `OthersKeepTheirBytes`, that every other slice in
the memory reads as before; and `PartsAreExact`, that `subsliceWithRange:` reads
as that part of the slice, whether it lies in the data, in the tail or in both.
They assume what `TypeOK` says of slices: their bytes are in the memory they
point to (`SlicesIn`), and a data object that is not in use is there to be
allocated. They hold because appending in shared memory only begins where that
memory ends, and no slice that shares it ends later; each theorem shows the new
slice to be in the memory too.

`SlicedListProofs` goes on to lists of slices: `SlicesHold`, that `TypeOK` is an
invariant, and `EditsHold`, that `EditsAreExact` is, for any arrays, tails and
limits. The bytes of a list are those of its slices one after the other
(`TextIn`), and the places where slices end are the lengths of the beginnings of
the list (`Ends`); a deletion splits the slices at both edges of its range and
takes out what lies between, an insertion may append to the slice on its left,
and inserting an array is an induction over its slices in which the memory goes
on growing (`GoesOn`) while what each array reads stays. Both theorems assume
`MemoryIsThere`: there is always a data object that is not in use. Memory is not
bounded in the code; the set `Data` stands for addresses, and the assumption
says that it is infinite or larger than the bounds can use. It is a hypothesis
of the theorems and not an assumption of the module because the run has three
data objects, which suffice for its smaller bounds (a call that finds none
would be an error of evaluation).

`LinuxEditorProofs` proves of `LinuxEditor`, for any documents, clipboards,
patterns and limits: `TypesHold`, `HistoryCanBeApplied`, `UndoSelectsAgain` and
`DeletionTakesSelection` (`DeletesSelectedBytes`, for any selection), and with
the hypothesis `DigitsInOneRange` also `HistoryIsKept`, that `Spec` implements
`UndoableText`, and `PendingDigitIsKnown`; and `MatchesReplacedOnce`
(`ReplaceAllIsOnePass`) if nothing is replaced by no bytes (`<<>> \notin
Replacements`), since Replace All then skips a byte after each match (see
Findings). `DigitsInOneRange` is that the user types no first digit of a byte
while several ranges are selected; it leaves out exactly the steps that the run
`TwoDigits` needs. Each edit is a list of operations that leads from one text to
the next (`Edits`): deleting several ranges from the last to the first
(`RangesDeleted`) and Replace All (`AllReplaced`) by induction over the ranges
and the matches. What leads there also leads back (`EditsUndone`, `EditsRedone`,
from `SpliceBack`: what has been replaced can be put back). `HistoryInv` says
that each stack leads from the text through all its transactions (`Histories`)
and that a pending digit is the first one of a byte that the last transaction
put in (`Waits`), which the second digit needs when it amends that transaction.
`HistoryCanBeApplied` holds without the hypothesis, since a digit in the wrong
byte changes no length: its invariant `FitsInv` only says that the operations
fit, one after the other, into texts of the right lengths.

For `DeletionTakesSelection` the ranges of a selection are shown to be all of
it, in order and apart (`RangesCover`, `RangesInOrder`, `RangesApart`), and each
one that is deleted leaves those before it in their places (`Remains`). For
`MatchesReplacedOnce` the rounds of Replace All, each on a text that the rounds
before have changed, are compared with one reading of the text: after some
rounds there is a place up to which it has been read, what has been replaced
there is what the reading has written (`Replaces`), what is found behind it is
what is found in the text (`FoundBehind`), and with each round that place moves
on by at least one byte or nothing more is found (`ReplacingReads`).

`ControllerUndoProofs` proves of `ControllerUndo`, for any texts, selections,
byte arrays and bounds: `TypeCorrect`, `SelectionStaysUsable`,
`TypingStaysLastEdit` and `DigitsPair`; and `OverwritingSaves`, if no save
forgets the history during typing (`~ForgetsWhileTyping`). The assumption of the
module is what `_ensureSelectionIsValid` leaves of a selection. Each command is
a function from an editor to an editor, and each has a lemma about what it
returns, down to the loops: merging (`OrganizedIs`), clipping (`ClipUsable`),
removing a range (`RemoveUsable`), deleting (`DeletedIs`), inserting
(`InsertedIs`), performing a group (`GroupPerformedIs`). None of the invariants
is inductive alone. `Inv` says of the selection that at most one of its ranges
is empty: clipping, and overwriting beside a caret, may leave one. It says
of an open string of typing that in overwrite mode it is not empty, since
otherwise a digit that goes back by one byte could end before it begins, and
that in the other modes none of several ranges is empty (`ModeInv`). A second
digit is then known to be typed where the string of typing ends, for the first
one leaves its caret there: in insert mode it has replaced the whole selection,
and in overwrite mode a caret that is left alone is the one
`_removeRangeFromSelection:` has been told (`PendingKeeps`).

With two hypotheses the history is proved too. `HistoryIsKept`,
`ControllerImplementsHistory` (`Spec => History!Spec`, the refinement of
`UndoableTyping`) and `OperationsStayApplicable` say that undoing gives back
exactly the text before each edit or string of typing and redoing the text after
it, and that nothing that waits can fail, for any texts, selections and lengths
of history. The first hypothesis, `MaxCondemned <= 1`, says that no operation
deletes more than one range that is not empty, so that at most two selected
ranges are replaced by one edit: with more, redoing such a deletion is wrong
(the run `ControllerSeveral`, see Findings). The second, `~ForgetsWhileTyping`,
is that no save drops the history in the middle of a string of typing, after
which the coalescer belongs to nothing that can be undone (see Findings). The
invariant that is added to `Inv` is `Chained`: from the text each stack leads,
group by group, through a sequence of texts, where each operation lies inside
the text it is performed on. The sequence is a witness (`Chain`), so that the
texts need not be computed from the stacks; that they are the ones `TextsOf`
computes is `TextsAre`. Within an event, `During` says the same of what has been
registered so far, also when the coalescer, which is an operation of the last
group, has changed in place: `AppendingGoesOn`, `DeletingGoesOn` and
`OverwritingGoesOn` show that the changed operation makes from the new text what
the old one made from the old text, and `LeadsBack` that the inverse of an
operation leads back. Pressing a second digit and typing over a selection are
two replacements in the code and one for the history (`ReplacedTwice`).
`MovedHistory` is why undoing and redoing move one text from one stack to the
other.

`PasteTakesPlace` is `PasteReplacesSelection`, without these hypotheses: what
`insertionModeCore` leaves, however many ranges are selected, is the pasted
bytes at the place of the selection and, before and behind them, the bytes that
were not selected, in their order. The deletions go from the last range to the
first; after each of them the text is described by where its bytes were before
(`Remains`), and in the end no other text keeps the same bytes (`KeptOnce`).

`SequenceLemmas` has induction over the natural numbers in a form the provers
can use (`LeastElement`, from the library's theorem on well-founded relations,
`UpTo`, `DownFrom`): a set instead of a predicate. With it what recursive
functions compute for all arguments is proved (`SameUpTo`, `Iterates`). It has
the facts about replacing a part of a sequence (`SpliceIs` and those after it,
and from `RewrittenFront` on about a sequence rewritten from its start), and
those about keeping some of its elements in their order: `KeptAt` says where
they were, `KeptLess` what becomes of it when a part is taken out, and
`KeptOnce` that only one sequence keeps the same elements.

Only model-checked: `SaveEnds` and `SavesEnd` (liveness) and everything about
`ObjectGraph` (recursive operators). `PendingActionIsAsked` does not hold.

## Findings

Each has a run that ends in a counterexample; `PROJECT.json` quotes what the
code or its documentation says.

1. `TwoDigits` — a hexadecimal digit typed over several ranges leaves its second
   digit to the wrong byte (`main.cpp:2993`).
2. `DocumentCancel` — cancelling Save As keeps the action it was to lead to
   (`main.cpp:5699`).
3. `ControllerSeveral` — redoing the deletion of several ranges deletes other
   bytes (`HFController.m:1519`).
4. `SaveCopies` — copying from a document while it is being saved gives the
   clipboard bytes of the file that the save overwrites
   (`HFHexTextRepresenter.m:117`).

Seen while modelling, without a run:

- The graph of the strong components never gets an edge
  (`HFByteArray_FileWriting.m:210`). Saves are ordered correctly all the same,
  because Tarjan's algorithm emits the components in the right order.
- A byte begun before the switch to read-only mode can be completed in it
  (`main.cpp:2963`). Replace All with an empty replacement skips a byte after
  each match (`main.cpp:3071`).
- When a save drops the history (`_removeAllUndoOperations`) while a string of
  typing is open, the typing goes on into an operation that is no longer
  registered and cannot be undone (`ControllerUndo` with
  `ForgetsWhileTyping = TRUE`).
- Clipping several ranges to a shorter text may leave an empty range beside
  others, which `_ensureSelectionIsValid` forbids.
- A cancelled save on macOS is taken for a success
  (`BaseDataDocument.m:1316`): the document then shows the torn file, unmodified
  (`spoilt` in `DocumentSave`).
- A save begun in the event loop of another one raises if the document that is
  being saved reads from its file; `saveInProgress` then stays set and the
  document can never be saved again (`BaseDataDocument.m:1257`, the phase
  `stuck`).
- Undoing in a document that is being saved takes the operation out of its set
  before the locked array raises, and loses it (`HFController.m:798`,
  `DocumentSave` with `WhileSaving = {"undo"}`).
- `constructNewSlices` subtracts unsigned numbers for a range that does not
  meet the slice (`HFByteArray_FileWriting.m:464`); what it computes is not used.

## What is left out

Drawing, scrolling, formats of text, clipboard and bookmarks, and everything in
the last row of the inventory. The JavaScript under `docs/docs` is the output of
Doxygen (its search box and menus, for the pages it generates): it is no part of
the program, and none of it is modelled. In the modelled parts: exceptions raised by a
read that fails in the middle of a save; a `pwrite` that writes less than asked;
power failures (the model's kill ends the process and not the system); other
processes that write the same files; how the mouse and the arrow keys compute a
selection in `HFController` (any ranges inside the text are taken); the
transactions that collect its property changes; arithmetic overflow of 64-bit
offsets, which needs files longer than any.

Of saving documents (`DocumentSave`): a document is saved only to its own file,
so that Save As over the file of another document is not covered; reopening the
file after a save always succeeds; the redo operations and the operation that is
still collecting typing are not holders apart from the undo operations; there is
one clipboard; the alert that asks whether another document may be closed is
answered at once. How much is copied when byte arrays share slices (the `hint`)
is left open: a copy of more than the limit may fail or not.

Of byte arrays (`SlicedArrays`): the B+tree is a sequence; data that is shared
with the thread of a save, which may read it while the main thread appends to
it, is not; slices of `HFFullMemoryByteSlice`, random and repeated bytes behave
as those of a file, which cannot be appended to, and are not listed apart.

## Plan

Built: `FileWriting`, `ObjectGraph`, `LinuxEditor`, `LinuxDocument`,
`ControllerUndo`, `DocumentSave`, `SlicedArrays`. What remains, in order:

1. `HFController`'s transactions of property changes: nested begins and ends,
   changes reported while they are being reported.
2. The B+tree under `SlicedArrays`, against the sequence of its entries.
3. Find and replace threads against the change lock; the search in buffers
   against its definition. Save As over another document's file.
4. Edit scripts and the Linux comparison against a reference definition; byte
   range attributes under edits.
