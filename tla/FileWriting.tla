----------------------------- MODULE FileWriting -----------------------------
(***************************************************************************)
(* -[HFByteArray writeToFile:trackingProgress:error:]: a byte array is     *)
(* saved into a file that some of its slices still read from.  The writer  *)
(* runs on a background thread; the main thread may set cancelRequested at *)
(* any moment.  Internal operations are written in chains, one chain per   *)
(* strongly connected component of the dependency graph; before an entry   *)
(* is written, whatever other operations of the chain still have to read   *)
(* from the positions it covers is read into the queue.                    *)
(*                                                                         *)
(* framework/sources/HFByteArray_FileWriting.m, HFByteSliceFileOperation.m *)
(* and HFByteSliceFileOperationQueueEntry.m.                               *)
(***************************************************************************)
EXTENDS ByteArrays, Sequences

CONSTANTS
    Arrays,            \* the byte arrays that may be saved
    FileLengths,       \* the lengths the file may have before the save
    SoftMaxMemory,     \* softMaxAllocatedMemory of a chain's context
    SoftMaxPerBuffer,  \* SOFT_MAX_PER_BUFFER
    BufferLength       \* the buffer of an external operation

ASSUME FileWritingAssumption ==
    /\ \A a \in Arrays : IsByteArray(a)
    /\ FileLengths \subseteq Nat
    /\ SoftMaxMemory \in Nat /\ SoftMaxPerBuffer \in Nat
    /\ BufferLength \in Nat \ {0}

VARIABLES
    array,            \* the receiver; locked while it is being saved
    startLength,      \* [reference length] when the file is opened
    disk,             \* the file's bytes
    pc,               \* where the writer is
    cancelRequested,  \* progressTracker->cancelRequested
    chains,           \* topologicallySortedChains
    chain,            \* index in chains of the one being written
    remaining,        \* remainingTargetRanges of every internal operation
    queue,            \* context->queue, entries [at, len, bytes]
    allocated,        \* context->totalAllocatedMemory
    written,          \* how much of every external operation is written
    result            \* "none" until the method returns

vars == <<array, startLength, disk, pc, cancelRequested, chains, chain,
          remaining, queue, allocated, written, result>>

Bytes == [origin : {"file", "memory", "zero"}, at : Nat]

Least(m, n) == IF m <= n THEN m ELSE n
Greatest(m, n) == IF m >= n THEN m ELSE n

-----------------------------------------------------------------------------
(* Planning: the order in which the internal operations are written. *)

\* A chain of dependencies leads from x to y.
Reaches(a, x, y) ==
    \A S \in SUBSET Internal(a) :
        /\ x \in S
        /\ \A p \in S, q \in Internal(a) : DependsOn(p, q) => q \in S
        => y \in S

\* stronglyConnectedComponentsForObjects:
Components(a) ==
    {{y \in Internal(a) : Reaches(a, x, y) /\ Reaches(a, y, x)} :
        x \in Internal(a)}

\* Tarjan's algorithm emits a component after those it depends on; module
\* ObjectGraph evaluates the code's version of it.
DependenciesFirst(order) ==
    \A i, j \in DOMAIN order :
        (\E p \in order[i], q \in order[j] : DependsOn(p, q)) => j <= i

ChainOrders(a) ==
    {order \in [1 .. Cardinality(Components(a)) -> Components(a)] :
        /\ \A C \in Components(a) : \E i \in DOMAIN order : order[i] = C
        /\ DependenciesFirst(order)}

-----------------------------------------------------------------------------
(* Reading and writing pieces of an internal operation. *)

\* lo .. hi is one of the ranges the set of positions R consists of.
IsRange(R, lo, hi) ==
    lo <= hi /\ lo .. hi \subseteq R /\ lo - 1 \notin R /\ hi + 1 \notin R

\* suggestedAllocationLengthForMinimum:maximum:.  malloc_good_size may round
\* the length up by any amount.
SuggestedLengths(min, max) ==
    LET free == SoftMaxMemory - Least(SoftMaxMemory, allocated)
        least == Greatest(min, Least(SoftMaxPerBuffer, Least(free, max)))
    IN  least .. max

\* readBytes:length:from: the bytes op has to write to the positions T.
BytesRead(op, T) == [c \in T |-> disk[SourceOf(op, c)]]

WriteBytes(bytes) ==
    disk' = [c \in DOMAIN disk |->
                IF c \in DOMAIN bytes THEN bytes[c] ELSE disk[c]]

\* incompleteOperations of the chain being written.
Incomplete ==
    {op \in chains[chain] : remaining[op] # {}}

\* Mutant of Enqueue: the last position stays among the remaining ones.
EnqueueKeepsLast(op, lo, hi) ==
    /\ remaining' = [remaining EXCEPT ![op] = @ \ (lo .. (hi - 1))]
    /\ queue' = Append(queue, [at |-> lo, len |-> hi - lo + 1,
                               bytes |-> BytesRead(op, lo .. hi)])
    /\ allocated' = allocated + (hi - lo + 1)

\* A piece of op, the target positions lo .. hi, is read into a new entry.
Enqueue(op, lo, hi) ==
    /\ remaining' = [remaining EXCEPT ![op] = @ \ (lo .. hi)]
    /\ queue' = Append(queue, [at |-> lo, len |-> hi - lo + 1,
                               bytes |-> BytesRead(op, lo .. hi)])
    /\ allocated' = allocated + (hi - lo + 1)

\* The range lo .. hi that op has still to read shares a position of the file
\* with what writing the entry would change.
Overlaps(op, lo, hi, entry) ==
    {SourceOf(op, c) : c \in lo .. hi} \cap DOMAIN entry.bytes # {}

NothingOverlaps(entry) ==
    \A op \in Incomplete : \A c \in remaining[op] :
        SourceOf(op, c) \notin DOMAIN entry.bytes

-----------------------------------------------------------------------------
(* Steps that only move the writer on leave all of this alone. *)

Finish(answer) ==
    /\ pc' = "end"
    /\ result' = answer
    /\ UNCHANGED <<array, startLength, cancelRequested, chains, chain,
                   remaining, queue, allocated, written>>

Init ==
    /\ array \in Arrays
    /\ startLength \in FileLengths
    /\ SourcesFit(array, startLength)
    /\ disk = OriginalFile(startLength)
    /\ pc = "open"
    /\ cancelRequested = FALSE
    /\ chains = <<>> /\ chain = 1
    /\ remaining = [op \in Internal(array) |-> Target(op)]
    /\ queue = <<>> /\ allocated = 0
    /\ written = [op \in External(array) |-> 0]
    /\ result = "none"

\* requestCancel:, on the main thread, which may not know yet that the save
\* has ended.
RequestCancel ==
    /\ cancelRequested' = TRUE
    /\ UNCHANGED <<array, startLength, disk, pc, chains, chain, remaining,
                   queue, allocated, written, result>>

\* Mutant of NoticeCancel: the loop of the external operations stops without
\* the method noticing why.
NoticeCancelLate ==
    /\ pc \in {"extend", "plan", "chains", "truncate"}
    /\ cancelRequested
    /\ Finish("NO")
    /\ UNCHANGED disk

\* Mutant of NoticeCancel: a cancelled save is reported as a success.
NoticeCancelAsSuccess ==
    /\ pc \in {"extend", "plan", "chains", "external", "truncate"}
    /\ cancelRequested
    /\ Finish("YES")
    /\ UNCHANGED disk

\* CHECK_CANCEL in the method and in the operations it runs.
NoticeCancel ==
    /\ pc \in {"extend", "plan", "chains", "external", "truncate"}
    /\ cancelRequested
    /\ Finish("NO")
    /\ UNCHANGED disk

\* initWritableWithPath:, setLength: or writeBytes: fails; the file is as it
\* was.  setLength: is called at "truncate" only to shrink the file.
FailIO ==
    /\ \/ pc = "open"
       \/ pc = "extend" /\ array.length > startLength
       \/ pc = "chains" /\ queue # <<>> /\ NothingOverlaps(Head(queue))
       \/ pc = "external" /\ \E op \in External(array) : written[op] < op.len
       \/ pc = "truncate" /\ array.length < startLength
    /\ Finish("NO")
    /\ UNCHANGED disk

Open ==
    /\ pc = "open"
    /\ pc' = "extend"
    /\ UNCHANGED <<array, startLength, disk, cancelRequested, chains, chain,
                   remaining, queue, allocated, written, result>>

\* Mutant of Extend: the file is given its new length, shorter ones too.
ExtendOrTruncate ==
    /\ pc = "extend"
    /\ ~cancelRequested
    /\ pc' = "plan"
    /\ disk' = [c \in 0 .. (array.length - 1) |->
                    IF c < startLength THEN disk[c] ELSE ZeroByte]
    /\ UNCHANGED <<array, startLength, cancelRequested, chains, chain,
                   remaining, queue, allocated, written, result>>

\* A longer array: make the file longer first, to detect failure early.
Extend ==
    /\ pc = "extend"
    /\ ~cancelRequested
    /\ pc' = "plan"
    /\ disk' = IF array.length > startLength
               THEN [c \in 0 .. (array.length - 1) |->
                        IF c < startLength THEN disk[c] ELSE ZeroByte]
               ELSE disk
    /\ UNCHANGED <<array, startLength, cancelRequested, chains, chain,
                   remaining, queue, allocated, written, result>>

\* Steps 1 to 5 of the strategy.
Plan ==
    /\ pc = "plan"
    /\ ~cancelRequested
    /\ pc' = "chains"
    /\ chains' \in ChainOrders(array)
    /\ UNCHANGED <<array, startLength, disk, cancelRequested, chain,
                   remaining, queue, allocated, written, result>>

\* addQueueEntryWithContext: on an incomplete operation, the queue being
\* empty: a piece at the start of the first range it has still to read.
AddQueueEntry ==
    /\ pc = "chains" /\ chain <= Len(chains)
    /\ ~cancelRequested
    /\ queue = <<>>
    /\ \E op \in Incomplete : \E lo, hi \in remaining[op] :
        /\ IsRange(remaining[op], lo, hi)
        /\ \A c \in remaining[op] : lo <= c
        /\ \E n \in SuggestedLengths(1, hi - lo + 1) :
            Enqueue(op, lo, lo + n - 1)
    /\ UNCHANGED <<array, startLength, disk, pc, cancelRequested, chains,
                   chain, written, result>>

\* addQueueEntriesOverlappedByEntry:withContext: reads at least the part of
\* the range that the first entry of the queue would overwrite, and, memory
\* permitting, more of it to the left and then to the right.
QueueUpOverlapped ==
    /\ pc = "chains" /\ chain <= Len(chains)
    /\ ~cancelRequested
    /\ queue # <<>>
    /\ \E op \in Incomplete : \E lo, hi \in remaining[op] :
        /\ IsRange(remaining[op], lo, hi)
        /\ Overlaps(op, lo, hi, Head(queue))
        /\ LET entry == Head(queue)
               last == entry.at + entry.len - 1
               left == Greatest(entry.at, SourceOf(op, lo))
               right == Least(last, SourceOf(op, hi))
               min == right - left + 1
           IN  \E amount \in SuggestedLengths(min, hi - lo + 1) :
                LET leftExtension ==
                        Least(amount - min, left - SourceOf(op, lo))
                    rightExtension ==
                        Least(amount - min - leftExtension,
                              SourceOf(op, hi) - right)
                IN  Enqueue(op, TargetOf(op, left - leftExtension),
                                TargetOf(op, right + rightExtension))
    /\ UNCHANGED <<array, startLength, disk, pc, cancelRequested, chains,
                   chain, written, result>>

\* Mutant of ApplyQueueEntry: written before the overlapped entries are read.
ApplyQueueEntryAtOnce ==
    /\ pc = "chains" /\ chain <= Len(chains)
    /\ ~cancelRequested
    /\ queue # <<>>
    /\ WriteBytes(Head(queue).bytes)
    /\ queue' = Tail(queue)
    /\ allocated' = allocated - Head(queue).len
    /\ UNCHANGED <<array, startLength, pc, cancelRequested, chains, chain,
                   remaining, written, result>>

\* applyQueueEntry:, once nothing the entry overwrites is still to be read.
ApplyQueueEntry ==
    /\ pc = "chains" /\ chain <= Len(chains)
    /\ ~cancelRequested
    /\ queue # <<>>
    /\ NothingOverlaps(Head(queue))
    /\ WriteBytes(Head(queue).bytes)
    /\ queue' = Tail(queue)
    /\ allocated' = allocated - Head(queue).len
    /\ UNCHANGED <<array, startLength, pc, cancelRequested, chains, chain,
                   remaining, written, result>>

\* The chain is written: the next one, or the external operations.
NextChain ==
    /\ pc = "chains"
    /\ ~cancelRequested
    /\ chain <= Len(chains) => queue = <<>> /\ Incomplete = {}
    /\ IF chain <= Len(chains)
       THEN chain' = chain + 1 /\ UNCHANGED pc
       ELSE pc' = "external" /\ UNCHANGED chain
    /\ UNCHANGED <<array, startLength, disk, cancelRequested, chains,
                   remaining, queue, allocated, written, result>>

\* Mutant of WriteExternal: from the second turn on, the offset is not moved.
WriteExternalAtStart ==
    /\ pc = "external"
    /\ ~cancelRequested
    /\ \E op \in External(array) :
        /\ written[op] < op.len
        /\ LET amount == Least(BufferLength, op.len - written[op])
           IN  /\ WriteBytes([c \in op.at .. (op.at + amount - 1) |->
                                SuppliedByte(op, c)])
               /\ written' = [written EXCEPT ![op] = @ + amount]
    /\ UNCHANGED <<array, startLength, pc, cancelRequested, chains, chain,
                   remaining, queue, allocated, result>>

\* Mutant of WriteExternal: the last turn counts a whole buffer.
WriteExternalWholeBuffers ==
    /\ pc = "external"
    /\ ~cancelRequested
    /\ \E op \in External(array) :
        /\ written[op] < op.len
        /\ LET start == op.at + written[op]
           IN  WriteBytes([c \in start .. (op.at + op.len - 1) |->
                                SuppliedByte(op, c)])
        /\ written' = [written EXCEPT ![op] = @ + BufferLength]
    /\ UNCHANGED <<array, startLength, pc, cancelRequested, chains, chain,
                   remaining, queue, allocated, result>>

\* The bytes of the external operation op at written[op] .. : one turn of
\* the loop of HFByteSliceFileOperationExternal's writeToFile:.
WriteExternal ==
    /\ pc = "external"
    /\ ~cancelRequested
    /\ \E op \in External(array) :
        /\ written[op] < op.len
        /\ \A other \in External(array) :
            written[other] < other.len => op.at <= other.at
        /\ LET start == op.at + written[op]
               amount == Least(BufferLength, op.len - written[op])
           IN  /\ WriteBytes([c \in start .. (start + amount - 1) |->
                                SuppliedByte(op, c)])
               /\ written' = [written EXCEPT ![op] = @ + amount]
    /\ UNCHANGED <<array, startLength, pc, cancelRequested, chains, chain,
                   remaining, queue, allocated, result>>

ExternalWritten ==
    /\ pc = "external"
    /\ ~cancelRequested
    /\ \A op \in External(array) : written[op] = op.len
    /\ pc' = "truncate"
    /\ UNCHANGED <<array, startLength, disk, cancelRequested, chains, chain,
                   remaining, queue, allocated, written, result>>

\* A shorter array: the file is truncated last, so that no data is lost.
Truncate ==
    /\ pc = "truncate"
    /\ ~cancelRequested
    /\ disk' = IF array.length < startLength
               THEN [c \in 0 .. (array.length - 1) |-> disk[c]]
               ELSE disk
    /\ Finish("YES")

WriterStep ==
    \/ NoticeCancel \/ FailIO \/ Open \/ Extend \/ Plan \/ AddQueueEntry
    \/ QueueUpOverlapped \/ ApplyQueueEntry \/ NextChain \/ WriteExternal
    \/ ExternalWritten \/ Truncate

\* The writer's thread runs until the method returns.
Next == RequestCancel \/ WriterStep

Spec == Init /\ [][Next]_vars

\* The background thread is scheduled; nothing makes the user cancel.
FairSpec == Spec /\ WF_vars(WriterStep)

-----------------------------------------------------------------------------
(* Properties *)

TypeOK ==
    /\ IsByteArray(array)
    /\ startLength \in Nat
    /\ \E n \in {startLength, array.length} : disk \in [0 .. (n - 1) -> Bytes]
    /\ pc \in {"open", "extend", "plan", "chains", "external", "truncate",
               "end"}
    /\ cancelRequested \in BOOLEAN
    /\ chains \in Seq(SUBSET Internal(array))
    /\ chain \in 1 .. (Len(chains) + 1)
    /\ DOMAIN remaining = Internal(array)
    /\ \A op \in Internal(array) : remaining[op] \subseteq Target(op)
    /\ DOMAIN queue = 1 .. Len(queue)
    /\ allocated \in Int
    /\ written \in [External(array) -> Nat]
    /\ \A op \in External(array) : written[op] <= op.len
    /\ result \in {"none", "YES", "NO"}

\* Whatever an internal operation has still to read is in the file as it was
\* before the save: no order of the queue and of the chains lets one
\* operation overwrite the source of another (writeToFile: of the chained
\* operation, "It's safe to fire away with this entry").
SourcesIntact ==
    \A op \in Internal(array) : \A c \in remaining[op] :
        /\ SourceOf(op, c) \in DOMAIN disk
        /\ disk[SourceOf(op, c)] = FileByte(SourceOf(op, c))

\* writeToFile: answers YES only if the file now reads as the byte array did,
\* neither a byte longer nor shorter.
SavedFileIsArray == result = "YES" => disk = Contents(array)

\* Cancelled, failed or interrupted anywhere, a save changes no position that
\* rangesOfFileModifiedIfSavedToFile: did not announce; other documents, undo
\* operations and pasteboards keep reading the others.
OnlyAnnouncedPositionsChange ==
    \A c \in (0 .. (startLength - 1)) \ ModifiedBySaving(array, startLength) :
        c \in DOMAIN disk /\ disk[c] = FileByte(c)

\* The file shrinks only in the last step of a successful save: before, all
\* its positions are there ("do it now, so we don't lose any data").
NeverShorterBeforeSuccess ==
    result # "YES" => 0 .. (startLength - 1) \subseteq DOMAIN disk

\* Every chunk read is written once: what the queue holds, what is still to
\* be read and what is written never overlap, and the memory accounted for is
\* that of the queue's entries (the assertions of freeMemory:ofLength:).
QueueAccounted ==
    /\ \A i, j \in DOMAIN queue : i # j =>
        DOMAIN queue[i].bytes \cap DOMAIN queue[j].bytes = {}
    /\ \A i \in DOMAIN queue : \A op \in Internal(array) :
        DOMAIN queue[i].bytes \cap remaining[op] = {}
    /\ allocated =
        Cardinality(UNION {DOMAIN queue[i].bytes : i \in DOMAIN queue})

\* The save ends, whatever fails and whenever it is cancelled.
SaveEnds == <>(result # "none")

Promise == INSTANCE InPlaceSave

\* A save is an in-place save as module InPlaceSave promises it.
KeepsPromise == Promise!Spec
=============================================================================
