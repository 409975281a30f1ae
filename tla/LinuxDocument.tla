---------------------------- MODULE LinuxDocument ----------------------------
(***************************************************************************)
(* The document of the Linux application: opening, saving through a        *)
(* temporary file that is renamed over the target                          *)
(* (ui/linux/src/EngineDocument.mm), and the dialogs that ask what to do   *)
(* with unsaved changes before the document is replaced                    *)
(* (ui/linux/src/main.cpp).                                                *)
(*                                                                         *)
(* A text is one of a few versions; a file holds a number of the Chunks of *)
(* a text.  Everything runs on one thread, so that a save is interrupted   *)
(* only by the end of the process, which may come after any of its steps.  *)
(***************************************************************************)
EXTENDS Naturals

CONSTANTS
    Paths,     \* the files
    Versions,  \* the texts; Blank is that of a new document
    Blank,
    Chunks,    \* how many pieces of 1 MiB a text is written in
    None       \* no path, no file, no action

\* Its mode is the one the user chose or that of a file just created.
File(version, chunks, mode) ==
    [version |-> version, chunks |-> chunks, mode |-> mode]

ASSUME LinuxDocumentAssumption ==
    /\ Blank \in Versions
    /\ Chunks \in Nat
    /\ None \notin Paths /\ None \notin Versions
    /\ \A v \in Versions, n \in 0 .. Chunks, mode \in {"chosen", "created"} :
        File(v, n, mode) # None

VARIABLES
    files,     \* the file at each path, or None
    document,  \* EngineDocument
    saving,    \* where saveAs is
    pending,   \* pendingAction and pendingOpenPath
    dialog,    \* the modal dialog shown
    process    \* "running", "quit" or "killed"

vars == <<files, document, saving, pending, dialog, process>>

Closed == [open |-> FALSE, path |-> None, text |-> Blank, modified |-> FALSE]
Opened(path, text) ==
    [open |-> TRUE, path |-> path, text |-> text, modified |-> FALSE]

\* saveAs: the next step, the target, the temporary file, and which of Save
\* in the menu, in the Save As and in the Unsaved Changes dialog called it.
NotSaving == [step |-> "none", target |-> None, temporary |-> None,
              caller |-> None]

Actions ==
    {<<"Quit", None>>, <<"NewDocument", None>>, <<"CloseDocument", None>>,
     <<"RevertDocument", None>>} \cup ({"OpenPath"} \X Paths)
NoAction == <<"None", None>>

-----------------------------------------------------------------------------
Init ==
    /\ files \in [Paths -> {None} \cup {File(v, Chunks, "chosen") :
                                           v \in Versions}]
    /\ document = Closed
    /\ saving = NotSaving
    /\ pending = NoAction
    /\ dialog = None
    /\ process = "running"

\* The events of the main loop.
Waiting == process = "running" /\ saving = NotSaving

\* replace: or erase:, called by an edit, an undo or a redo.
Edit ==
    /\ Waiting /\ document.open
    /\ \E text \in Versions \ {document.text} :
        document' = [document EXCEPT !.text = text, !.modified = TRUE]
    /\ UNCHANGED <<files, saving, pending, dialog, process>>

\* open: closes the document first, whether or not the file can be opened.
OpenedDocuments(path) ==
    {Closed} \cup
        (IF files[path] = None THEN {} ELSE {Opened(path, files[path].version)})

\* performPendingAction
Perform(action) ==
    /\ pending' = NoAction
    /\ process' = IF action[1] = "Quit" THEN "quit" ELSE process
    /\ CASE action[1] = "NewDocument" -> document' = Opened(None, Blank)
         [] action[1] = "CloseDocument" -> document' = Closed
         [] action[1] = "OpenPath" -> document' \in OpenedDocuments(action[2])
         [] action[1] = "RevertDocument" /\ document.open
                /\ document.path # None ->
                document' \in OpenedDocuments(document.path)
         [] OTHER -> UNCHANGED document

\* A menu, a shortcut, a dropped file or the closing of the window; they are
\* also heard while a dialog is shown, which Unsaved Changes then replaces.
queueDocumentAction(action) ==
    /\ Waiting
    /\ action[1] = "CloseDocument" => document.open
    /\ action[1] = "RevertDocument" => document.open /\ document.path # None
    /\ IF document.modified
       THEN /\ pending' = action
            /\ dialog' = "Unsaved Changes"
            /\ UNCHANGED <<document, process>>
       ELSE /\ Perform(action)
            /\ UNCHANGED dialog
    /\ UNCHANGED <<files, saving>>

-----------------------------------------------------------------------------
(* saveAs: *)

BeginSave(target, caller) ==
    saving' = [step |-> "create", target |-> target, temporary |-> None,
               caller |-> caller]

\* Mutant of saveDocument: a document without a path is saved as well.
saveDocumentAnywhere ==
    /\ Waiting /\ document.open
    /\ BeginSave(document.path, "menu")
    /\ UNCHANGED <<files, document, pending, dialog, process>>

\* Save and Ctrl+S; a document without a path is asked for one.
saveDocument ==
    /\ Waiting /\ document.open
    /\ IF document.path = None
       THEN dialog' = "Save As" /\ UNCHANGED saving
       ELSE BeginSave(document.path, "menu") /\ UNCHANGED dialog
    /\ UNCHANGED <<files, document, pending, process>>

showSaveAs ==
    /\ Waiting /\ document.open
    /\ dialog' = "Save As"
    /\ UNCHANGED <<files, document, saving, pending, process>>

\* Save in the Save As dialog.
submitSaveAs(path) ==
    /\ Waiting /\ dialog = "Save As"
    /\ document.open
    /\ BeginSave(path, "Save As")
    /\ UNCHANGED <<files, document, pending, dialog, process>>

\* Cancel in the Save As dialog.
cancelSaveAs ==
    /\ Waiting /\ dialog = "Save As"
    /\ dialog' = None
    /\ UNCHANGED <<files, document, saving, pending, process>>

\* Save in the Unsaved Changes dialog.
saveUnsaved ==
    /\ Waiting /\ dialog = "Unsaved Changes"
    /\ IF document.open /\ document.path # None
       THEN /\ BeginSave(document.path, "Unsaved Changes")
            /\ UNCHANGED <<document, pending, dialog, process>>
       ELSE /\ dialog' = IF document.open THEN "Save As" ELSE None
            /\ IF document.modified THEN UNCHANGED <<document, pending, process>>
               ELSE Perform(pending)
            /\ UNCHANGED saving
    /\ UNCHANGED files

discardUnsaved ==
    /\ Waiting /\ dialog = "Unsaved Changes"
    /\ dialog' = None
    /\ Perform(pending)
    /\ UNCHANGED <<files, saving>>

cancelUnsaved ==
    /\ Waiting /\ dialog = "Unsaved Changes"
    /\ dialog' = None /\ pending' = NoAction
    /\ UNCHANGED <<files, document, saving, process>>

SaveStep(step) == process = "running" /\ saving.step = step

createTemporary ==
    /\ SaveStep("create")
    /\ saving' = [saving EXCEPT !.step = "write",
                                !.temporary = File(document.text, 0, "created")]
    /\ UNCHANGED <<files, document, pending, dialog, process>>

writeChunk ==
    /\ SaveStep("write") /\ saving.temporary.chunks < Chunks
    /\ saving' = [saving EXCEPT !.temporary.chunks = @ + 1]
    /\ UNCHANGED <<files, document, pending, dialog, process>>

\* Mutant of closeTemporary: the mode is not copied.
closeTemporaryAsCreated ==
    /\ SaveStep("write") /\ saving.temporary.chunks = Chunks
    /\ saving' = [saving EXCEPT !.step = "rename"]
    /\ UNCHANGED <<files, document, pending, dialog, process>>

\* The mode of the file that will be replaced goes to the temporary one.
closeTemporary ==
    /\ SaveStep("write") /\ saving.temporary.chunks = Chunks
    /\ saving' = [saving EXCEPT
                    !.step = "rename",
                    !.temporary.mode = IF files[saving.target] = None THEN @
                                       ELSE files[saving.target].mode]
    /\ UNCHANGED <<files, document, pending, dialog, process>>

renameTemporary ==
    /\ SaveStep("rename")
    /\ files' = [files EXCEPT ![saving.target] = saving.temporary]
    /\ saving' = [saving EXCEPT !.step = "reopen", !.temporary = None]
    /\ UNCHANGED <<document, pending, dialog, process>>

\* Mutant of failSave: the document counts as saved.
failSaveQuietly ==
    /\ SaveStep("create") \/ SaveStep("write") \/ SaveStep("rename")
    /\ saving' = [saving EXCEPT !.step = "failed", !.temporary = None]
    /\ document' = [document EXCEPT !.modified = FALSE]
    /\ UNCHANGED <<files, pending, dialog, process>>

\* Something fails before the file is replaced: the temporary one is removed.
failSave ==
    /\ SaveStep("create") \/ SaveStep("write") \/ SaveStep("rename")
    /\ saving' = [saving EXCEPT !.step = "failed", !.temporary = None]
    /\ UNCHANGED <<files, document, pending, dialog, process>>

\* return open(targetPath)
reopen ==
    /\ SaveStep("reopen")
    /\ document' \in OpenedDocuments(saving.target)
    /\ saving' = [saving EXCEPT !.step = IF document'.open THEN "saved"
                                         ELSE "failed"]
    /\ UNCHANGED <<files, pending, dialog, process>>

\* Mutant of afterSave: the action waiting for the save is performed in any
\* case.
afterSaveAlways ==
    /\ SaveStep("saved") \/ SaveStep("failed")
    /\ saving' = NotSaving
    /\ IF saving.caller = "menu"
       THEN UNCHANGED <<document, pending, dialog, process>>
       ELSE dialog' = None /\ Perform(pending)
    /\ UNCHANGED files

\* saveAs has returned; the dialog that called it goes on.
afterSave ==
    /\ SaveStep("saved") \/ SaveStep("failed")
    /\ saving' = NotSaving
    /\ \/ /\ saving.caller = "menu"
          /\ UNCHANGED <<document, pending, dialog, process>>
       \/ /\ saving.caller = "Save As" /\ saving.step = "failed"
          /\ UNCHANGED <<document, pending, dialog, process>>
       \/ /\ saving.caller = "Save As" /\ saving.step = "saved"
          /\ dialog' = None
          /\ Perform(pending)
       \/ /\ saving.caller = "Unsaved Changes"
          /\ dialog' = None
          /\ IF document.modified THEN UNCHANGED <<document, pending, process>>
             ELSE Perform(pending)
    /\ UNCHANGED files

\* The process is killed.
kill ==
    /\ process = "running"
    /\ process' = "killed"
    /\ UNCHANGED <<files, document, saving, pending, dialog>>

Next ==
    \/ Edit
    \/ \E action \in Actions : queueDocumentAction(action)
    \/ saveDocument \/ showSaveAs \/ cancelSaveAs
    \/ \E path \in Paths : submitSaveAs(path)
    \/ saveUnsaved \/ discardUnsaved \/ cancelUnsaved
    \/ createTemporary \/ writeChunk \/ closeTemporary \/ renameTemporary
    \/ failSave \/ reopen \/ afterSave
    \/ kill

Spec == Init /\ [][Next]_vars

-----------------------------------------------------------------------------
(* Properties *)

Whole(f) == f = None \/ f.chunks = Chunks

TypeOK ==
    /\ \A p \in Paths : files[p] = None \/ files[p].version \in Versions
    /\ document.text \in Versions
    /\ document.path \in Paths \cup {None}
    /\ pending \in Actions \cup {NoAction}
    /\ dialog \in {None, "Save As", "Unsaved Changes"}
    /\ process \in {"running", "quit", "killed"}
    /\ saving # NotSaving => saving.target \in Paths

FilesStayWhole ==
    \A p \in Paths :
        /\ Whole(files'[p])
        /\ files[p] # None =>
            files'[p] # None /\ files'[p].mode = files[p].mode

\* Whenever the process is killed, each file holds a whole text, with the
\* permissions the user gave it: a save replaces a file at once or not at all.
FilesAreWhole == [][FilesStayWhole]_vars

\* A document that is not marked as modified shows what its file holds, after
\* any save, failed or not, of this path or another.
UnmodifiedIsOnDisk ==
    Waiting /\ document.open /\ ~document.modified /\ document.path # None
        => files[document.path].version = document.text

ChangesStayOrAreSaved ==
    document.modified =>
        \/ document'.open /\ document'.modified /\ process' # "quit"
        \/ Edit
        \/ discardUnsaved
        \/ \E p \in Paths : /\ files[p] # None
                            /\ files[p].version = document.text
                            /\ Whole(files[p])

\* Unsaved changes go away only when they are in a file, when the user
\* discards them, or when the process is killed.
ChangesAreKept == [][ChangesStayOrAreSaved]_vars

\* An action waits only while a dialog that leads to it is shown; cancelling
\* the dialog cancels it.
PendingActionIsAsked ==
    Waiting /\ pending # NoAction => dialog # None
=============================================================================
