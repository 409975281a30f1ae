------------------------- MODULE LinuxDocumentProofs -------------------------
(***************************************************************************)
(* Proofs about LinuxDocument for any files, texts and number of chunks.   *)
(*                                                                         *)
(* The properties speak of the document between saves or of single steps.  *)
(* They are inductive only together with what a save has got done when it  *)
(* reaches each of its steps: the temporary file holds the document's text,*)
(* is whole and has the target's mode before it is renamed, and the target *)
(* holds the document's text after it.                                     *)
(***************************************************************************)
EXTENDS LinuxDocument, TLAPS

Files == [version : Versions, chunks : 0 .. Chunks,
          mode : {"chosen", "created"}]

Documents == [open : BOOLEAN, path : Paths \cup {None}, text : Versions,
              modified : BOOLEAN]

Savings == [step : {"create", "write", "rename", "reopen", "saved", "failed"},
            target : Paths, temporary : Files \cup {None},
            caller : {"menu", "Save As", "Unsaved Changes"}]

Shape ==
    /\ files \in [Paths -> Files \cup {None}]
    /\ document \in Documents
    /\ saving \in Savings \cup {NotSaving}
    /\ pending \in Actions \cup {NoAction}
    /\ dialog \in {None, "Save As", "Unsaved Changes"}
    /\ process \in {"running", "quit", "killed"}

\* A document that is closed has nothing to save; one that is open and not
\* modified is in its file, also while a save is going on.
DocumentHeld ==
    /\ document.modified => document.open
    /\ document.open /\ ~document.modified /\ document.path # None =>
        /\ files[document.path] # None
        /\ files[document.path].version = document.text

AllWhole == \A p \in Paths : Whole(files[p])

TemporaryHolds ==
    /\ saving.step \in {"write", "rename"} =>
        /\ saving.temporary \in Files
        /\ saving.temporary.version = document.text
    /\ saving.step = "rename" =>
        /\ saving.temporary.chunks = Chunks
        /\ files[saving.target] # None =>
            saving.temporary.mode = files[saving.target].mode

TargetHolds ==
    /\ saving.step = "reopen" =>
        /\ files[saving.target] # None
        /\ files[saving.target].version = document.text
    /\ saving.step = "saved" => ~document.modified

IInv ==
    /\ Shape /\ DocumentHeld /\ AllWhole /\ TemporaryHolds /\ TargetHolds

-----------------------------------------------------------------------------
(* The initial states *)

\* Nothing is open at the start, so that only the files matter.
LEMMA InitIInv == Init => IInv
<1> SUFFICES ASSUME Init PROVE IInv
    OBVIOUS
<1>1. files \in [Paths -> Files \cup {None}] /\ AllWhole
    BY LinuxDocumentAssumption
    DEF Init, Files, File, AllWhole, Whole
<1>2. NotSaving.step = "none"
    BY DEF NotSaving
<1> QED
    BY <1>1, <1>2, LinuxDocumentAssumption
    DEF Init, IInv, Shape, DocumentHeld, TemporaryHolds, TargetHolds,
        Documents, Closed

-----------------------------------------------------------------------------
(* Replacing the document *)

\* What performPendingAction and open leave as the document.
Replaced ==
    \/ document' = document
    \/ document' = Closed
    \/ document' = Opened(None, Blank)
    \/ \E p \in Paths : files[p] # None /\ document' = Opened(p, files[p].version)

\* open gives a closed document or the text of a file.
LEMMA OpenedReplaces ==
    ASSUME NEW p \in Paths, document' \in OpenedDocuments(p)
    PROVE  Replaced
<1>1. CASE files[p] = None
    BY <1>1 DEF OpenedDocuments, Replaced
<1>2. CASE files[p] # None
    BY <1>2 DEF OpenedDocuments, Replaced
<1> QED
    BY <1>1, <1>2

\* Each action that was waiting replaces the document or leaves it.
LEMMA PerformReplaces ==
    ASSUME IInv, NEW action \in Actions \cup {NoAction}, Perform(action)
    PROVE  /\ Replaced
           /\ pending' = NoAction
           /\ process' \in {process, "quit"}
<1>1. pending' = NoAction /\ process' \in {process, "quit"}
    BY DEF Perform
<1>2. CASE action[1] = "NewDocument"
    BY <1>2 DEF Perform, Replaced
<1>3. CASE action[1] = "CloseDocument"
    BY <1>3 DEF Perform, Replaced
<1>4. CASE action[1] = "OpenPath"
    <2>1. action[2] \in Paths
        BY <1>4 DEF Actions, NoAction
    <2>2. document' \in OpenedDocuments(action[2])
        BY <1>4 DEF Perform
    <2> QED
        BY <1>1, <2>1, <2>2, OpenedReplaces
<1>5. CASE action[1] = "RevertDocument" /\ document.open /\ document.path # None
    <2>1. document.path \in Paths
        BY <1>5 DEF IInv, Shape, Documents
    <2>2. document' \in OpenedDocuments(document.path)
        BY <1>5 DEF Perform
    <2> QED
        BY <1>1, <2>1, <2>2, OpenedReplaces
<1>6. CASE /\ action[1] \notin {"NewDocument", "CloseDocument", "OpenPath"}
           /\ ~(action[1] = "RevertDocument" /\ document.open
                /\ document.path # None)
    BY <1>6 DEF Perform, Replaced
<1> QED
    BY <1>1, <1>2, <1>3, <1>4, <1>5, <1>6

\* A document so replaced is in its file, and is not modified unless it is
\* the one there was.
LEMMA ReplacedHeld ==
    ASSUME IInv, Replaced, UNCHANGED files
    PROVE  /\ document' \in Documents
           /\ DocumentHeld'
           /\ document' = document \/ ~document'.modified
<1>1. CASE document' = document
    BY <1>1 DEF IInv, Shape, DocumentHeld
<1>2. CASE document' = Closed
    BY <1>2, LinuxDocumentAssumption DEF Documents, DocumentHeld, Closed
<1>3. CASE document' = Opened(None, Blank)
    BY <1>3, LinuxDocumentAssumption DEF Documents, DocumentHeld, Opened
<1>4. ASSUME NEW p \in Paths, files[p] # None,
             document' = Opened(p, files[p].version)
      PROVE  /\ document' \in Documents
             /\ DocumentHeld'
             /\ ~document'.modified
    <2>1. files[p].version \in Versions
        BY <1>4 DEF IInv, Shape, Files
    <2> QED
        BY <1>4, <2>1 DEF Documents, DocumentHeld, Opened
<1> QED
    BY <1>1, <1>2, <1>3, <1>4 DEF Replaced

-----------------------------------------------------------------------------
(* The invariant is inductive *)

\* Between saves, replacing the document keeps the invariant.
LEMMA ReplacedIInv ==
    ASSUME IInv, Replaced, UNCHANGED files, saving' = NotSaving,
           pending' \in Actions \cup {NoAction},
           dialog' \in {None, "Save As", "Unsaved Changes"},
           process' \in {"running", "quit", "killed"}
    PROVE  IInv'
<1>1. document' \in Documents /\ DocumentHeld'
    BY ReplacedHeld
<1>2. saving'.step = "none"
    BY DEF NotSaving
<1>3. TemporaryHolds' /\ TargetHolds'
    BY <1>2 DEF TemporaryHolds, TargetHolds
<1> QED
    BY <1>1, <1>3 DEF IInv, Shape, AllWhole, Whole

\* So does performing an action that waited or was just asked for.
LEMMA PerformIInv ==
    ASSUME IInv, NEW action \in Actions \cup {NoAction}, Perform(action),
           UNCHANGED files, saving' = NotSaving,
           dialog' \in {None, "Save As", "Unsaved Changes"}
    PROVE  IInv'
<1>1. Replaced /\ pending' = NoAction /\ process' \in {process, "quit"}
    BY PerformReplaces
<1>2. process' \in {"running", "quit", "killed"}
    BY <1>1 DEF IInv, Shape
<1> QED
    BY <1>1, <1>2, ReplacedIInv

\* And so does any step that leaves files, document and save alone.
LEMMA ControlIInv ==
    ASSUME IInv, UNCHANGED <<files, document, saving>>,
           pending' \in Actions \cup {NoAction},
           dialog' \in {None, "Save As", "Unsaved Changes"},
           process' \in {"running", "quit", "killed"}
    PROVE  IInv'
<1>1. Shape'
    BY DEF IInv, Shape
<1>2. DocumentHeld' /\ AllWhole'
    BY DEF IInv, DocumentHeld, AllWhole, Whole
<1>3. TemporaryHolds' /\ TargetHolds'
    BY DEF IInv, TemporaryHolds, TargetHolds
<1> QED
    BY <1>1, <1>2, <1>3 DEF IInv

\* A save begins with everything to be done.
LEMMA BeginSaveIInv ==
    ASSUME IInv, NEW target \in Paths,
           NEW caller \in {"menu", "Save As", "Unsaved Changes"},
           BeginSave(target, caller),
           UNCHANGED <<files, document, pending, dialog, process>>
    PROVE  IInv'
<1>1. saving' \in Savings /\ saving'.step = "create"
    BY DEF BeginSave, Savings
<1>2. TemporaryHolds' /\ TargetHolds'
    BY <1>1 DEF TemporaryHolds, TargetHolds
<1> QED
    BY <1>1, <1>2 DEF IInv, Shape, DocumentHeld, AllWhole, Whole

\* What a step of a save is taken from.
LEMMA SavingShape ==
    ASSUME IInv, NEW step, step # "none", SaveStep(step)
    PROVE  saving \in Savings /\ saving.target \in Paths
<1>1. saving # NotSaving
    BY DEF SaveStep, NotSaving
<1> QED
    BY <1>1 DEF IInv, Shape, Savings

LEMMA CreateTemporaryIInv == IInv /\ createTemporary => IInv'
<1> SUFFICES ASSUME IInv, createTemporary PROVE IInv'
    OBVIOUS
<1>1. saving \in Savings
    BY SavingShape DEF createTemporary
<1>2. File(document.text, 0, "created") \in Files
    <2>1. document.text \in Versions
        BY DEF IInv, Shape, Documents
    <2>2. 0 \in 0 .. Chunks
        BY LinuxDocumentAssumption
    <2> QED
        BY <2>1, <2>2 DEF Files, File
<1>3. File(document.text, 0, "created").version = document.text
    BY DEF File
<1>4. saving' \in Savings
    BY <1>1, <1>2 DEF createTemporary, Savings
<1>5. /\ saving'.step = "write"
      /\ saving'.temporary = File(document.text, 0, "created")
    BY <1>1 DEF createTemporary, Savings
<1>6. TemporaryHolds' /\ TargetHolds'
    BY <1>2, <1>3, <1>5 DEF createTemporary, TemporaryHolds, TargetHolds
<1> QED
    BY <1>4, <1>6
    DEF createTemporary, IInv, Shape, DocumentHeld, AllWhole, Whole

LEMMA WriteChunkIInv == IInv /\ writeChunk => IInv'
<1> SUFFICES ASSUME IInv, writeChunk PROVE IInv'
    OBVIOUS
<1>1. saving \in Savings
    BY SavingShape DEF writeChunk
<1>2. saving.temporary \in Files /\ saving.temporary.version = document.text
    BY DEF writeChunk, SaveStep, IInv, TemporaryHolds
<1>3. saving.temporary.chunks + 1 \in 0 .. Chunks
    BY <1>2, LinuxDocumentAssumption DEF writeChunk, Files
<1>4. /\ saving' \in Savings
      /\ saving'.step = "write"
      /\ saving'.temporary \in Files
      /\ saving'.temporary.version = document.text
    BY <1>1, <1>2, <1>3 DEF writeChunk, SaveStep, Savings, Files
<1>5. TemporaryHolds' /\ TargetHolds'
    BY <1>4 DEF writeChunk, TemporaryHolds, TargetHolds
<1> QED
    BY <1>4, <1>5 DEF writeChunk, IInv, Shape, DocumentHeld, AllWhole, Whole

LEMMA CloseTemporaryIInv == IInv /\ closeTemporary => IInv'
<1> SUFFICES ASSUME IInv, closeTemporary PROVE IInv'
    OBVIOUS
<1> DEFINE mode == IF files[saving.target] = None THEN saving.temporary.mode
                   ELSE files[saving.target].mode
<1>1. saving \in Savings /\ saving.target \in Paths
    BY SavingShape DEF closeTemporary
<1>2. saving.temporary \in Files /\ saving.temporary.version = document.text
    BY DEF closeTemporary, SaveStep, IInv, TemporaryHolds
<1>3. mode \in {"chosen", "created"}
    BY <1>1, <1>2 DEF IInv, Shape, Files
<1>4. saving' = [saving EXCEPT !.step = "rename", !.temporary.mode = mode]
    BY DEF closeTemporary
<1>5. saving.temporary.chunks = Chunks
    BY DEF closeTemporary
<1> HIDE DEF mode
<1>6. /\ saving' \in Savings
      /\ saving'.step = "rename"
      /\ saving'.target = saving.target
      /\ saving'.temporary \in Files
      /\ saving'.temporary.version = document.text
      /\ saving'.temporary.chunks = Chunks
      /\ saving'.temporary.mode = mode
    BY <1>1, <1>2, <1>3, <1>4, <1>5 DEF Savings, Files
<1>7. files[saving.target] # None => mode = files[saving.target].mode
    BY DEF mode
<1>8. TemporaryHolds' /\ TargetHolds'
    BY <1>6, <1>7 DEF closeTemporary, TemporaryHolds, TargetHolds
<1> QED
    BY <1>6, <1>8
    DEF closeTemporary, IInv, Shape, DocumentHeld, AllWhole, Whole

\* What the renaming puts in place of the target is whole and holds the
\* document's text, which is all the document's own file may change to.
LEMMA RenameTemporaryIInv == IInv /\ renameTemporary => IInv'
<1> SUFFICES ASSUME IInv, renameTemporary PROVE IInv'
    OBVIOUS
<1>1. saving \in Savings /\ saving.target \in Paths
    BY SavingShape DEF renameTemporary
<1>2. /\ saving.temporary \in Files
      /\ saving.temporary.version = document.text
      /\ saving.temporary.chunks = Chunks
    BY DEF renameTemporary, SaveStep, IInv, TemporaryHolds
<1>3. saving.temporary # None
    BY <1>2, LinuxDocumentAssumption DEF Files, File
<1>4. /\ saving' \in Savings
      /\ saving'.step = "reopen"
      /\ saving'.target = saving.target
    BY <1>1 DEF renameTemporary, Savings
<1>5. /\ files' \in [Paths -> Files \cup {None}]
      /\ files'[saving.target] = saving.temporary
      /\ \A p \in Paths \ {saving.target} : files'[p] = files[p]
    BY <1>1, <1>2 DEF renameTemporary, IInv, Shape
<1>6. DocumentHeld'
    BY <1>2, <1>3, <1>5
    DEF renameTemporary, IInv, Shape, Documents, DocumentHeld
<1>7. AllWhole'
    BY <1>2, <1>5 DEF IInv, AllWhole, Whole
<1>8. TemporaryHolds' /\ TargetHolds'
    BY <1>2, <1>3, <1>4, <1>5
    DEF renameTemporary, TemporaryHolds, TargetHolds
<1> QED
    BY <1>4, <1>5, <1>6, <1>7, <1>8 DEF renameTemporary, IInv, Shape

LEMMA FailSaveIInv == IInv /\ failSave => IInv'
<1> SUFFICES ASSUME IInv, failSave PROVE IInv'
    OBVIOUS
<1>1. saving \in Savings
    BY SavingShape DEF failSave
<1>2. saving' \in Savings /\ saving'.step = "failed"
    BY <1>1 DEF failSave, Savings
<1>3. TemporaryHolds' /\ TargetHolds'
    BY <1>2 DEF TemporaryHolds, TargetHolds
<1> QED
    BY <1>2, <1>3 DEF failSave, IInv, Shape, DocumentHeld, AllWhole, Whole

LEMMA ReopenIInv == IInv /\ reopen => IInv'
<1> SUFFICES ASSUME IInv, reopen PROVE IInv'
    OBVIOUS
<1>1. saving \in Savings /\ saving.target \in Paths
    BY SavingShape DEF reopen
<1>2. document' \in OpenedDocuments(saving.target)
    BY DEF reopen
<1>3. document' \in Documents /\ DocumentHeld'
    BY <1>1, <1>2, OpenedReplaces, ReplacedHeld DEF reopen
<1>4. ~document'.modified
    BY <1>2 DEF OpenedDocuments, Opened, Closed
<1>5. saving' \in Savings /\ saving'.step \in {"saved", "failed"}
    BY <1>1 DEF reopen, Savings
<1>6. TemporaryHolds' /\ TargetHolds'
    BY <1>4, <1>5 DEF TemporaryHolds, TargetHolds
<1> QED
    BY <1>3, <1>5, <1>6 DEF reopen, IInv, Shape, AllWhole, Whole

\* The dialog that called saveAs performs what waited, or leaves everything.
LEMMA AfterSaveIInv == IInv /\ afterSave => IInv'
<1> SUFFICES ASSUME IInv, afterSave PROVE IInv'
    OBVIOUS
<1>1. UNCHANGED files /\ saving' = NotSaving
    BY DEF afterSave
<1>2. /\ pending \in Actions \cup {NoAction}
      /\ dialog \in {None, "Save As", "Unsaved Changes"}
      /\ process \in {"running", "quit", "killed"}
    BY DEF IInv, Shape
<1>3. CASE Perform(pending) /\ dialog' = None
    BY <1>1, <1>2, <1>3, PerformIInv
<1>4. CASE UNCHANGED <<document, pending, process>> /\ dialog' \in {dialog, None}
    BY <1>1, <1>2, <1>4, ReplacedIInv DEF Replaced
<1> QED
    BY <1>3, <1>4 DEF afterSave

LEMMA QueueDocumentActionIInv ==
    ASSUME IInv, NEW action \in Actions, queueDocumentAction(action)
    PROVE  IInv'
<1>1. CASE document.modified
    BY <1>1, ControlIInv DEF queueDocumentAction, IInv, Shape
<1>2. CASE ~document.modified
    BY <1>2, PerformIInv DEF queueDocumentAction, Waiting, IInv, Shape
<1> QED
    BY <1>1, <1>2

LEMMA SaveUnsavedIInv == IInv /\ saveUnsaved => IInv'
<1> SUFFICES ASSUME IInv, saveUnsaved PROVE IInv'
    OBVIOUS
<1>1. CASE document.open /\ document.path # None
    <2>1. document.path \in Paths
        BY <1>1 DEF IInv, Shape, Documents
    <2> QED
        BY <1>1, <2>1, BeginSaveIInv DEF saveUnsaved
<1>2. CASE ~(document.open /\ document.path # None)
    <2>1. CASE document.modified
        BY <1>2, <2>1, ControlIInv DEF saveUnsaved, IInv, Shape
    <2>2. CASE ~document.modified
        BY <1>2, <2>2, PerformIInv DEF saveUnsaved, Waiting, IInv, Shape
    <2> QED
        BY <2>1, <2>2
<1> QED
    BY <1>1, <1>2

\* An edit changes what is in memory only.
LEMMA EditIInv == IInv /\ Edit => IInv'
<1> SUFFICES ASSUME IInv, Edit PROVE IInv'
    OBVIOUS
<1>1. PICK text \in Versions \ {document.text} :
        document' = [document EXCEPT !.text = text, !.modified = TRUE]
    BY DEF Edit
<1>2. document' \in Documents /\ document'.modified /\ document'.open
    BY <1>1 DEF Edit, IInv, Shape, Documents
<1>3. saving'.step = "none"
    BY DEF Edit, Waiting, NotSaving
<1> QED
    BY <1>2, <1>3
    DEF Edit, IInv, Shape, DocumentHeld, AllWhole, Whole, TemporaryHolds,
        TargetHolds

LEMMA NextIInv == IInv /\ [Next]_vars => IInv'
<1> SUFFICES ASSUME IInv, [Next]_vars PROVE IInv'
    OBVIOUS
<1>0. /\ pending \in Actions \cup {NoAction}
      /\ dialog \in {None, "Save As", "Unsaved Changes"}
      /\ process \in {"running", "quit", "killed"}
    BY DEF IInv, Shape
<1>1. CASE Edit
    BY <1>1, EditIInv
<1>2. ASSUME NEW action \in Actions, queueDocumentAction(action) PROVE IInv'
    BY <1>2, QueueDocumentActionIInv
<1>3. CASE saveDocument
    <2>1. CASE document.path = None
        BY <1>0, <1>3, <2>1, ControlIInv DEF saveDocument
    <2>2. CASE document.path # None
        <3>1. document.path \in Paths
            BY <2>2 DEF IInv, Shape, Documents
        <3> QED
            BY <1>3, <2>2, <3>1, BeginSaveIInv DEF saveDocument
    <2> QED
        BY <2>1, <2>2
<1>4. CASE showSaveAs
    BY <1>0, <1>4, ControlIInv DEF showSaveAs
<1>5. CASE cancelSaveAs
    BY <1>0, <1>5, ControlIInv DEF cancelSaveAs
<1>6. ASSUME NEW path \in Paths, submitSaveAs(path) PROVE IInv'
    BY <1>6, BeginSaveIInv DEF submitSaveAs
<1>7. CASE saveUnsaved
    BY <1>7, SaveUnsavedIInv
<1>8. CASE discardUnsaved
    BY <1>0, <1>8, PerformIInv DEF discardUnsaved, Waiting
<1>9. CASE cancelUnsaved
    BY <1>0, <1>9, ControlIInv DEF cancelUnsaved
<1>10. CASE createTemporary \/ writeChunk \/ closeTemporary \/ renameTemporary
    BY <1>10, CreateTemporaryIInv, WriteChunkIInv, CloseTemporaryIInv,
       RenameTemporaryIInv
<1>11. CASE failSave \/ reopen \/ afterSave
    BY <1>11, FailSaveIInv, ReopenIInv, AfterSaveIInv
<1>12. CASE kill
    BY <1>0, <1>12, ControlIInv DEF kill
<1>13. CASE UNCHANGED vars
    BY <1>0, <1>13, ControlIInv DEF vars
<1> QED
    BY <1>1, <1>2, <1>3, <1>4, <1>5, <1>6, <1>7, <1>8, <1>9, <1>10, <1>11,
       <1>12, <1>13
    DEF Next

\* The invariant holds in every behaviour.
THEOREM IInvHolds == Spec => []IInv
<1> QED
    BY InitIInv, NextIInv, PTL DEF Spec

-----------------------------------------------------------------------------
(* What follows *)

\* The types of the document, its files and its dialogs, and that a save has
\* a file to save to.
THEOREM TypesCorrect == Spec => []TypeOK
<1>1. IInv => TypeOK
    BY DEF IInv, Shape, TypeOK, Files, Documents, Savings
<1> QED
    BY <1>1, IInvHolds, PTL

\* A document that is not marked as modified shows what its file holds.
THEOREM UnmodifiedDocumentIsOnDisk == Spec => []UnmodifiedIsOnDisk
<1>1. IInv => UnmodifiedIsOnDisk
    BY DEF IInv, DocumentHeld, UnmodifiedIsOnDisk
<1> QED
    BY <1>1, IInvHolds, PTL

\* Only a renaming changes a file, and it puts a whole text with the old
\* mode in its place.
THEOREM SavesReplaceWholeFiles == Spec => FilesAreWhole
<1>1. ASSUME IInv, IInv', Next PROVE FilesStayWhole
    <2> SUFFICES ASSUME NEW p \in Paths
                 PROVE  /\ Whole(files'[p])
                        /\ files[p] # None =>
                            files'[p] # None /\ files'[p].mode = files[p].mode
        BY DEF FilesStayWhole
    <2>1. CASE UNCHANGED files
        BY <1>1, <2>1 DEF IInv, AllWhole
    <2>2. CASE renameTemporary
        <3>1. saving.target \in Paths
            BY <1>1, <2>2, SavingShape DEF renameTemporary
        <3>2. /\ saving.temporary \in Files
              /\ saving.temporary.chunks = Chunks
              /\ files[saving.target] # None =>
                    saving.temporary.mode = files[saving.target].mode
            BY <1>1, <2>2
            DEF renameTemporary, SaveStep, IInv, TemporaryHolds
        <3>3. saving.temporary # None
            BY <3>2, LinuxDocumentAssumption DEF Files, File
        <3>4. files'[p] = IF p = saving.target THEN saving.temporary
                          ELSE files[p]
            BY <1>1, <2>2, <3>1 DEF renameTemporary, IInv, Shape
        <3> QED
            BY <1>1, <3>2, <3>3, <3>4 DEF IInv, AllWhole, Whole
    <2>3. Next => UNCHANGED files \/ renameTemporary
        BY DEF Next, Edit, queueDocumentAction, saveDocument, showSaveAs,
               cancelSaveAs, submitSaveAs, saveUnsaved, discardUnsaved,
               cancelUnsaved, createTemporary, writeChunk, closeTemporary,
               failSave, reopen, afterSave, kill
    <2> QED
        BY <1>1, <2>1, <2>2, <2>3
<1>2. IInv /\ IInv' /\ [Next]_vars => [FilesStayWhole]_vars
    BY <1>1
<1> QED
    BY <1>2, IInvHolds, PTL DEF Spec, FilesAreWhole

\* A modified document is replaced by reopening the file it has just been
\* saved to, or because the user discards it.
THEOREM ChangesAreNotLost == Spec => ChangesAreKept
<1>1. ASSUME IInv, Next, document.modified
      PROVE  \/ document'.open /\ document'.modified /\ process' # "quit"
             \/ Edit
             \/ discardUnsaved
             \/ \E p \in Paths : /\ files[p] # None
                                 /\ files[p].version = document.text
                                 /\ Whole(files[p])
    <2>1. document.open
        BY <1>1 DEF IInv, DocumentHeld
    <2>2. ASSUME UNCHANGED <<document, process>>, process = "running"
          PROVE  document'.open /\ document'.modified /\ process' # "quit"
        BY <1>1, <2>1, <2>2
    <2>3. ASSUME NEW action \in Actions, queueDocumentAction(action)
          PROVE  UNCHANGED <<document, process>> /\ process = "running"
        BY <1>1, <2>3 DEF queueDocumentAction, Waiting
    <2>4. CASE \/ saveDocument \/ showSaveAs \/ cancelSaveAs \/ cancelUnsaved
               \/ saveUnsaved \/ \E path \in Paths : submitSaveAs(path)
        BY <1>1, <2>2, <2>4
        DEF saveDocument, showSaveAs, cancelSaveAs, cancelUnsaved, saveUnsaved,
            submitSaveAs, Waiting
    <2>5. CASE \/ createTemporary \/ writeChunk \/ closeTemporary
               \/ renameTemporary \/ failSave
        BY <1>1, <2>2, <2>5
        DEF createTemporary, writeChunk, closeTemporary, renameTemporary,
            failSave, SaveStep
    <2>6. CASE reopen
        <3>1. saving.target \in Paths
            BY <1>1, <2>6, SavingShape DEF reopen
        <3>2. /\ files[saving.target] # None
              /\ files[saving.target].version = document.text
            BY <1>1, <2>6 DEF reopen, SaveStep, IInv, TargetHolds
        <3> QED
            BY <1>1, <3>1, <3>2 DEF IInv, AllWhole
    <2>7. CASE afterSave
        <3>1. saving.step # "saved"
            BY <1>1 DEF IInv, TargetHolds
        <3> QED
            BY <1>1, <2>2, <2>7, <3>1 DEF afterSave, SaveStep
    <2>8. CASE kill
        BY <1>1, <2>1, <2>8 DEF kill
    <2> QED
        BY <1>1, <2>2, <2>3, <2>4, <2>5, <2>6, <2>7, <2>8 DEF Next
<1>2. IInv /\ [Next]_vars => [ChangesStayOrAreSaved]_vars
    BY <1>1 DEF ChangesStayOrAreSaved
<1> QED
    BY <1>2, IInvHolds, PTL DEF Spec, ChangesAreKept
=============================================================================
