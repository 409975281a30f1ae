-------------------------- MODULE FileWritingProofs --------------------------
(***************************************************************************)
(* Proofs about FileWriting for every set of arrays, every file length and *)
(* every memory limit.                                                     *)
(*                                                                         *)
(* The inductive invariant IInv joins to the properties what they need:    *)
(* chains that respect the dependencies, chains written so far that have   *)
(* nothing left to read, and, for every position an operation writes, one  *)
(* of three places where its byte is: still in the file at its source,     *)
(* in an entry of the queue, or written.                                   *)
(***************************************************************************)
EXTENDS FileWriting, FiniteSetTheorems, TLAPS

Entry == [at : Int, len : Int, bytes : UNION {[T -> Bytes] : T \in SUBSET Nat}]

Shape ==
    /\ IsByteArray(array)
    /\ startLength \in Nat
    /\ SourcesFit(array, startLength)
    /\ pc \in {"open", "extend", "plan", "chains", "external", "truncate",
               "end"}
    /\ chains \in Seq(SUBSET Internal(array))
    /\ chain \in 1 .. (Len(chains) + 1)
    /\ remaining \in [Internal(array) -> SUBSET Nat]
    /\ \A op \in Internal(array) : remaining[op] \subseteq Target(op)
    /\ queue \in Seq(Entry)
    /\ allocated \in Int
    /\ written \in [External(array) -> Nat]
    /\ \A op \in External(array) : written[op] <= op.len
    /\ result \in {"none", "YES", "NO"}
    /\ result = "none" <=> pc # "end"

\* The lengths of the file along the way.
FileLength ==
    \E n \in Nat :
        /\ disk \in [0 .. (n - 1) -> Bytes]
        /\ n \in {startLength, array.length}
        /\ pc \in {"open", "extend"} => n = startLength
        /\ result = "YES" => n = array.length
        /\ pc \in {"plan", "chains", "external", "truncate"} =>
                n >= array.length
        /\ result # "YES" => n >= startLength

\* The chains respect the dependencies and miss no operation.
PlanLaid ==
    pc \in {"chains", "external", "truncate"} =>
        /\ DependenciesFirst(chains)
        /\ \A op \in Internal(array) :
            \E i \in 1 .. Len(chains) : op \in chains[i]

\* Which operations may have something left to read or to write.
Progress ==
    /\ pc \in {"open", "extend", "plan"} =>
        /\ chain = 1 /\ queue = <<>>
        /\ \A op \in Internal(array) : remaining[op] = Target(op)
    /\ pc = "chains" =>
        \A i \in 1 .. (chain - 1) : \A op \in chains[i] : remaining[op] = {}
    /\ pc = "chains" /\ chain > Len(chains) => queue = <<>>
    /\ pc \in {"external", "truncate"} \/ result = "YES" =>
        queue = <<>> /\ \A op \in Internal(array) : remaining[op] = {}
    /\ pc \in {"open", "extend", "plan", "chains"} =>
        \A op \in External(array) : written[op] = 0
    /\ pc = "truncate" \/ result = "YES" =>
        \A op \in External(array) : written[op] = op.len

\* An entry holds the bytes that one operation of the chain has to write.
EntryOf(entry, op) ==
    /\ DOMAIN entry.bytes \subseteq Target(op)
    /\ \A c \in DOMAIN entry.bytes : entry.bytes[c] = SuppliedByte(op, c)

QueueHolds ==
    pc = "chains" /\ chain <= Len(chains) =>
        \A i \in 1 .. Len(queue) :
            \E op \in chains[chain] : EntryOf(queue[i], op)

\* A byte an internal operation no longer has to read is queued or written.
ReadIsKept ==
    result # "NO" =>
    \A op \in Internal(array) : \A c \in Target(op) \ remaining[op] :
        \/ \E i \in 1 .. Len(queue) : c \in DOMAIN queue[i].bytes
        \/ c \in DOMAIN disk /\ disk[c] = SuppliedByte(op, c)

ExternalKept ==
    result # "NO" =>
    \A op \in External(array) : \A c \in op.at .. (op.at + written[op] - 1) :
        c \in DOMAIN disk /\ disk[c] = SuppliedByte(op, c)

IInv ==
    /\ Shape /\ FileLength /\ PlanLaid /\ Progress
    /\ QueueHolds /\ ReadIsKept /\ ExternalKept
    /\ SourcesIntact /\ OnlyAnnouncedPositionsChange

-----------------------------------------------------------------------------
(* Facts about byte arrays. *)

LEMMA SliceFacts ==
    ASSUME NEW a, IsByteArray(a), NEW s \in a.slices
    PROVE  /\ s.at \in Nat /\ s.len \in Nat /\ s.len > 0
           /\ s.from \in Nat \/ s.from = NotInFile
           /\ NotInFile \in Int
           /\ Target(s) \subseteq 0 .. (a.length - 1)
           /\ a.length \in Nat
           /\ \A t \in a.slices : s # t => Target(s) \cap Target(t) = {}
  BY DEF IsByteArray, Slice, NotInFile

\* The byte that position c of the array reads as.
LEMMA ContentsAt ==
    ASSUME NEW a, IsByteArray(a), NEW s \in a.slices, NEW c \in Target(s)
    PROVE  /\ c \in 0 .. (a.length - 1)
           /\ Contents(a)[c] = SuppliedByte(s, c)
  <1>1. c \in 0 .. (a.length - 1)
    BY SliceFacts
  <1>2. PICK t \in a.slices : t = CHOOSE u \in a.slices : c \in Target(u)
    OBVIOUS
  <1>3. c \in Target(t)
    BY <1>2
  <1>4. t = s
    BY <1>3 DEF IsByteArray
  <1>5. QED
    BY <1>1, <1>2, <1>4 DEF Contents

LEMMA SuppliedByteType ==
    ASSUME NEW a, IsByteArray(a), NEW s \in a.slices, NEW c \in Target(s)
    PROVE  SuppliedByte(s, c) \in Bytes
  BY SliceFacts DEF SuppliedByte, Bytes, FileByte, MemoryByte, SourceOf,
                    Target, NotInFile

\* The announced positions: those an internal or external operation writes,
\* and those that truncation takes away.
LEMMA Announced ==
    ASSUME NEW a, NEW n, NEW c
    PROVE  c \in ModifiedBySaving(a, n) <=>
            \/ \E s \in External(a) \cup Internal(a) : c \in Target(s)
            \/ c \in a.length .. (n - 1)
  <1> DEFINE T == {Target(s) : s \in External(a) \cup Internal(a)}
             tail == a.length .. (n - 1)
  <1>1. ModifiedBySaving(a, n) = (UNION T) \cup tail
    BY DEF ModifiedBySaving
  <1>2. c \in UNION T <=> \E s \in External(a) \cup Internal(a) : c \in Target(s)
    OBVIOUS
  <1> HIDE DEF T, tail
  <1>3. c \in (UNION T) \cup tail <=> c \in UNION T \/ c \in tail
    OBVIOUS
  <1>4. QED
    BY <1>1, <1>2, <1>3 DEF tail

LEMMA TargetsAnnounced ==
    ASSUME NEW a, NEW n, NEW s \in Internal(a) \cup External(a)
    PROVE  Target(s) \subseteq ModifiedBySaving(a, n)
  BY Announced

-----------------------------------------------------------------------------
(* The initial states. *)

LEMMA InitIInv == Init => IInv
  <1> SUFFICES ASSUME Init PROVE IInv
    OBVIOUS
  <1>1. IsByteArray(array) /\ startLength \in Nat
    BY FileWritingAssumption DEF Init
  <1>2. Shape
    <2>1. \A op \in Internal(array) : Target(op) \in SUBSET Nat
      BY <1>1, SliceFacts DEF Internal
    <2>2. \A op \in External(array) : 0 <= op.len
      BY <1>1, SliceFacts DEF External
    <2>3. /\ chains \in Seq(SUBSET Internal(array))
          /\ chain \in 1 .. (Len(chains) + 1)
          /\ queue \in Seq(Entry)
      BY DEF Init
    <2>4. remaining \in [Internal(array) -> SUBSET Nat]
      BY <2>1 DEF Init
    <2>5. /\ written \in [External(array) -> Nat]
          /\ \A op \in External(array) : written[op] <= op.len
      BY <2>2 DEF Init
    <2>6. \A op \in Internal(array) : remaining[op] \subseteq Target(op)
      BY DEF Init
    <2>7. /\ SourcesFit(array, startLength)
          /\ pc = "open" /\ result = "none" /\ allocated \in Int
      BY DEF Init
    <2>8. QED
      BY <1>1, <2>3, <2>4, <2>5, <2>6, <2>7 DEF Shape
  <1>3. FileLength
    <2>1. disk \in [0 .. (startLength - 1) -> Bytes]
      BY <1>1 DEF Init, OriginalFile, FileByte, Bytes
    <2>2. QED
      BY <1>1, <2>1 DEF Init, FileLength
  <1>4. PlanLaid /\ Progress /\ QueueHolds
    BY DEF Init, PlanLaid, Progress, QueueHolds
  <1>5. ReadIsKept
    BY DEF Init, ReadIsKept
  <1>6. ExternalKept
    BY <1>1, SliceFacts DEF Init, ExternalKept, External
  <1>7. SourcesIntact
    BY <1>1, SliceFacts DEF Init, SourcesIntact, SourcesFit, OriginalFile,
        SourceOf, Internal, Target, FileByte
  <1>8. OnlyAnnouncedPositionsChange
    BY <1>1 DEF Init, OnlyAnnouncedPositionsChange, OriginalFile
  <1>9. QED
    BY <1>2, <1>3, <1>4, <1>5, <1>6, <1>7, <1>8 DEF IInv

-----------------------------------------------------------------------------
(* The steps of the writer.  Most leave the file and the operations alone. *)

LEMMA UnchangedIInv ==
    ASSUME IInv,
           UNCHANGED <<array, startLength, disk, pc, chains, chain, remaining,
                       queue, allocated, written, result>>
    PROVE  IInv'
  <1>1. Shape' /\ FileLength' /\ PlanLaid' /\ Progress'
    BY DEF IInv, Shape, FileLength, PlanLaid, Progress, DependenciesFirst
  <1>2. QueueHolds' /\ ReadIsKept' /\ ExternalKept'
    BY DEF IInv, QueueHolds, ReadIsKept, ExternalKept, EntryOf
  <1>3. SourcesIntact' /\ OnlyAnnouncedPositionsChange'
    BY DEF IInv, SourcesIntact, OnlyAnnouncedPositionsChange
  <1>4. QED
    BY <1>1, <1>2, <1>3 DEF IInv

\* A save that is cancelled or that fails leaves the file as it is.
LEMMA GiveUpIInv ==
    ASSUME IInv, Finish("NO"), UNCHANGED disk, pc # "end"
    PROVE  IInv'
  <1> USE DEF Finish
  <1>1. Shape' /\ FileLength'
    BY DEF IInv, Shape, FileLength
  <1>2. PlanLaid' /\ Progress' /\ QueueHolds'
    BY DEF PlanLaid, Progress, QueueHolds
  <1>3. ReadIsKept' /\ ExternalKept'
    BY DEF ReadIsKept, ExternalKept
  <1>4. SourcesIntact' /\ OnlyAnnouncedPositionsChange'
    BY DEF IInv, SourcesIntact, OnlyAnnouncedPositionsChange
  <1>5. QED
    BY <1>1, <1>2, <1>3, <1>4 DEF IInv

LEMMA OpenIInv == IInv /\ Open => IInv'
  <1> SUFFICES ASSUME IInv, Open PROVE IInv'
    OBVIOUS
  <1> USE DEF Open
  <1>1. Shape' /\ FileLength'
    BY DEF IInv, Shape, FileLength
  <1>2. PlanLaid' /\ Progress' /\ QueueHolds'
    BY DEF IInv, PlanLaid, Progress, QueueHolds
  <1>3. ReadIsKept' /\ ExternalKept'
    BY DEF IInv, ReadIsKept, ExternalKept
  <1>4. SourcesIntact' /\ OnlyAnnouncedPositionsChange'
    BY DEF IInv, SourcesIntact, OnlyAnnouncedPositionsChange
  <1>5. QED
    BY <1>1, <1>2, <1>3, <1>4 DEF IInv

\* Making the file longer keeps the bytes it has.
LEMMA ExtendIInv == IInv /\ Extend => IInv'
  <1> SUFFICES ASSUME IInv, Extend PROVE IInv'
    OBVIOUS
  <1> USE DEF Extend
  <1>1. Shape'
    BY DEF IInv, Shape
  <1>2. startLength \in Nat /\ array.length \in Nat
    BY DEF IInv, Shape, IsByteArray
  <1>3. disk \in [0 .. (startLength - 1) -> Bytes]
    BY DEF IInv, FileLength
  <1>4. ZeroByte \in Bytes
    BY DEF ZeroByte, Bytes
  <1>5. FileLength'
    <2>1. CASE array.length > startLength
      <3>1. disk' \in [0 .. (array.length - 1) -> Bytes]
        BY <1>2, <1>3, <1>4, <2>1
      <3>2. pc' = "plan" /\ result' = "none"
        BY DEF IInv, Shape
      <3>3. QED
        BY <1>2, <2>1, <3>1, <3>2 DEF FileLength
    <2>2. CASE ~(array.length > startLength)
      <3>1. disk' \in [0 .. (startLength - 1) -> Bytes]
        BY <1>3, <2>2
      <3>2. pc' = "plan" /\ result' = "none" /\ startLength >= array.length
        BY <1>2, <2>2 DEF IInv, Shape
      <3> HIDE DEF Extend
      <3>3. UNCHANGED <<startLength, array>>
        BY DEF Extend
      <3>4. QED
        BY <1>2, <3>1, <3>2, <3>3 DEF FileLength
    <2>3. QED
      BY <2>1, <2>2
  <1>6. PlanLaid' /\ Progress' /\ QueueHolds'
    BY DEF IInv, PlanLaid, Progress, QueueHolds, Shape
  <1>7. \A c \in DOMAIN disk : c \in DOMAIN disk' /\ disk'[c] = disk[c]
    BY <1>2, <1>3
  <1>8. UNCHANGED <<array, remaining, queue, written, result>>
    OBVIOUS
  <1> HIDE DEF Extend
  <1>9. ReadIsKept'
    BY <1>7, <1>8 DEF IInv, ReadIsKept
  <1>10. ExternalKept'
    BY <1>7, <1>8 DEF IInv, ExternalKept
  <1>11. SourcesIntact' /\ OnlyAnnouncedPositionsChange'
    BY <1>7 DEF Extend, IInv, SourcesIntact, OnlyAnnouncedPositionsChange
  <1>12. QED
    BY <1>1, <1>5, <1>6, <1>9, <1>10, <1>11 DEF IInv

LEMMA PlanIInv == IInv /\ Plan => IInv'
  <1> SUFFICES ASSUME IInv, Plan PROVE IInv'
    OBVIOUS
  <1> USE DEF Plan
  <1>1. IsByteArray(array)
    BY DEF IInv, Shape
  <1>2. Cardinality(Components(array)) \in Nat
    <2>1. IsFiniteSet(Internal(array))
      BY <1>1, FS_Subset DEF IsByteArray, Internal
    <2>2. IsFiniteSet(SUBSET Internal(array))
      BY <2>1, FS_SUBSET
    <2>3. Components(array) \subseteq SUBSET Internal(array)
      BY DEF Components
    <2>4. QED
      BY <2>2, <2>3, FS_Subset, FS_CardinalityType
  <1>3. chains' \in Seq(SUBSET Internal(array))
    <2>1. chains' \in [1 .. Cardinality(Components(array)) ->
                            SUBSET Internal(array)]
      BY DEF ChainOrders, Components
    <2>2. QED
      BY <1>2, <2>1
  <1>4. Len(chains') = Cardinality(Components(array)) /\ Len(chains') \in Nat
    BY <1>2 DEF ChainOrders
  <1>5. Shape'
    <2>1. chain' = 1
      BY DEF IInv, Progress
    <2>2. chain' \in 1 .. (Len(chains') + 1)
      BY <1>4, <2>1
    <2>3. QED
      BY <1>3, <2>2 DEF IInv, Shape
  <1>6. FileLength'
    BY DEF IInv, FileLength
  <1>7. PlanLaid'
    <2>1. DependenciesFirst(chains')
      BY DEF ChainOrders
    <2>2. ASSUME NEW op \in Internal(array)
          PROVE  \E i \in 1 .. Len(chains') : op \in chains'[i]
      <3>1. PICK C \in Components(array) : op \in C
        <4> DEFINE D == {y \in Internal(array) :
                            Reaches(array, op, y) /\ Reaches(array, y, op)}
        <4>1. op \in D
          BY DEF Reaches
        <4>2. D \in Components(array)
          BY DEF Components
        <4>3. QED
          BY <4>1, <4>2
      <3>2. PICK i \in DOMAIN chains' : chains'[i] = C
        BY DEF ChainOrders
      <3>3. QED
        BY <1>4, <3>1, <3>2, <1>2 DEF ChainOrders
    <2>3. QED
      BY <2>1, <2>2 DEF PlanLaid, DependenciesFirst
  <1>8. Progress' /\ QueueHolds'
    <2>1. chain' = 1 /\ queue' = <<>> /\ pc' = "chains" /\ result' = "none"
      BY DEF IInv, Progress, Shape
    <2>2. Progress'
      BY <2>1 DEF IInv, Progress
    <2>3. QED
      BY <2>1, <2>2 DEF QueueHolds
  <1>9. ReadIsKept' /\ ExternalKept'
    BY DEF IInv, ReadIsKept, ExternalKept
  <1>10. SourcesIntact' /\ OnlyAnnouncedPositionsChange'
    BY DEF IInv, SourcesIntact, OnlyAnnouncedPositionsChange
  <1>11. QED
    BY <1>5, <1>6, <1>7, <1>8, <1>9, <1>10 DEF IInv

\* Reading a piece of an operation of the chain into the queue.
LEMMA EnqueueIInv ==
    ASSUME IInv, pc = "chains", chain <= Len(chains),
           NEW op \in Incomplete, NEW lo \in Int, NEW hi \in Int,
           lo .. hi \subseteq remaining[op], Enqueue(op, lo, hi),
           UNCHANGED <<array, startLength, disk, pc, chains, chain, written,
                       result>>
    PROVE  IInv'
  <1> DEFINE piece == lo .. hi
             entry == [at |-> lo, len |-> hi - lo + 1,
                       bytes |-> BytesRead(op, piece)]
  <1>1. /\ op \in Internal(array) /\ op \in chains[chain]
        /\ piece \subseteq Target(op) /\ piece \subseteq Nat
    <2>1. chain \in 1 .. Len(chains)
      BY DEF IInv, Shape
    <2>2. op \in chains[chain] /\ chains[chain] \subseteq Internal(array)
      BY <2>1 DEF Incomplete, IInv, Shape
    <2>3. QED
      BY <2>2 DEF IInv, Shape
  <1>2. /\ remaining' = [remaining EXCEPT ![op] = @ \ piece]
        /\ queue' = Append(queue, entry)
        /\ allocated' = allocated + (hi - lo + 1)
    BY DEF Enqueue
  <1>3. \A c \in piece :
            /\ disk[SourceOf(op, c)] = SuppliedByte(op, c)
            /\ disk[SourceOf(op, c)] \in Bytes
    <2> SUFFICES ASSUME NEW c \in piece
                 PROVE  /\ disk[SourceOf(op, c)] = SuppliedByte(op, c)
                        /\ disk[SourceOf(op, c)] \in Bytes
      OBVIOUS
    <2>1. /\ SourceOf(op, c) \in DOMAIN disk
          /\ disk[SourceOf(op, c)] = FileByte(SourceOf(op, c))
      BY <1>1 DEF IInv, SourcesIntact
    <2>2. disk[SourceOf(op, c)] \in Bytes
      BY <2>1 DEF IInv, FileLength
    <2>3. QED
      BY <1>1, <2>1, <2>2 DEF SuppliedByte, Internal
  <1>4. EntryOf(entry, op)
    BY <1>1, <1>3 DEF EntryOf, BytesRead
  <1>5. entry \in Entry
    <2>1. BytesRead(op, piece) \in [piece -> Bytes]
      BY <1>3 DEF BytesRead
    <2>2. BytesRead(op, piece) \in UNION {[T -> Bytes] : T \in SUBSET Nat}
      BY <1>1, <2>1
    <2>3. QED
      BY <2>2 DEF Entry
  <1>6. queue' \in Seq(Entry) /\ Len(queue') = Len(queue) + 1
    BY <1>2, <1>5 DEF IInv, Shape
  <1>7. /\ \A i \in 1 .. Len(queue) : queue'[i] = queue[i]
        /\ queue'[Len(queue) + 1] = entry
        /\ Len(queue) \in Nat
    BY <1>2, <1>5 DEF IInv, Shape
  <1>8. Shape'
    <2>1. /\ remaining' \in [Internal(array) -> SUBSET Nat]
          /\ \A o \in Internal(array) : remaining'[o] \subseteq Target(o)
      BY <1>1, <1>2 DEF IInv, Shape
    <2>2. allocated' \in Int
      BY <1>2 DEF IInv, Shape
    <2>3. QED
      BY <1>6, <2>1, <2>2 DEF IInv, Shape
  <1>9. FileLength' /\ PlanLaid'
    BY DEF IInv, FileLength, PlanLaid, DependenciesFirst
  <1>10. Progress'
    <2>1. result = "none"
      BY DEF IInv, Shape
    <2>2. ASSUME NEW i \in 1 .. (chain - 1), NEW o \in chains[i]
          PROVE  remaining'[o] = {}
      <3>1. remaining[o] = {}
        BY DEF IInv, Progress
      <3>2. o \in Internal(array)
        BY DEF IInv, Shape
      <3>3. QED
        BY <1>1, <1>2, <3>1, <3>2 DEF IInv, Shape
    <2>3. QED
      BY <2>1, <2>2 DEF IInv, Progress, Shape
  <1>11. QueueHolds'
    <2>1. ASSUME NEW i \in 1 .. Len(queue')
          PROVE  \E o \in chains[chain] : EntryOf(queue'[i], o)
      <3>1. CASE i \in 1 .. Len(queue)
        BY <1>7, <3>1 DEF IInv, QueueHolds
      <3>2. CASE i = Len(queue) + 1
        BY <1>1, <1>4, <1>7, <3>2
      <3>3. QED
        BY <1>6, <1>7, <3>1, <3>2
    <2>2. QED
      BY <2>1 DEF QueueHolds, EntryOf
  <1>12. ReadIsKept'
    <2> SUFFICES ASSUME result # "NO", NEW o \in Internal(array),
                        NEW c \in Target(o) \ remaining'[o]
                 PROVE  \/ \E i \in 1 .. Len(queue') :
                                c \in DOMAIN queue'[i].bytes
                        \/ /\ c \in DOMAIN disk
                           /\ disk[c] = SuppliedByte(o, c)
      BY DEF ReadIsKept
    <2>1. CASE c \in remaining[o]
      <3>1. o = op /\ c \in piece
        BY <1>1, <1>2, <2>1 DEF IInv, Shape
      <3>2. c \in DOMAIN queue'[Len(queue) + 1].bytes
        BY <1>7, <3>1 DEF BytesRead
      <3>3. QED
        BY <1>6, <1>7, <3>2
    <2>2. CASE c \notin remaining[o]
      <3>1. CASE \E i \in 1 .. Len(queue) : c \in DOMAIN queue[i].bytes
        BY <1>6, <1>7, <3>1
      <3>2. CASE c \in DOMAIN disk /\ disk[c] = SuppliedByte(o, c)
        BY <3>2
      <3>3. QED
        BY <2>2, <3>1, <3>2 DEF IInv, ReadIsKept
    <2>3. QED
      BY <2>1, <2>2
  <1>13. ExternalKept' /\ OnlyAnnouncedPositionsChange'
    BY DEF IInv, ExternalKept, OnlyAnnouncedPositionsChange
  <1>14. SourcesIntact'
    BY <1>1, <1>2 DEF IInv, SourcesIntact, Shape
  <1>15. QED
    BY <1>8, <1>9, <1>10, <1>11, <1>12, <1>13, <1>14 DEF IInv

LEMMA AddQueueEntryIInv == IInv /\ AddQueueEntry => IInv'
  <1> SUFFICES ASSUME IInv, AddQueueEntry PROVE IInv'
    OBVIOUS
  <1> USE DEF AddQueueEntry
  <1>1. PICK op \in Incomplete : \E lo, hi \in remaining[op] :
            /\ IsRange(remaining[op], lo, hi)
            /\ \E n \in SuggestedLengths(1, hi - lo + 1) :
                Enqueue(op, lo, lo + n - 1)
    OBVIOUS
  <1>2. PICK lo \in remaining[op], hi \in remaining[op] :
            /\ IsRange(remaining[op], lo, hi)
            /\ \E n \in SuggestedLengths(1, hi - lo + 1) :
                Enqueue(op, lo, lo + n - 1)
    BY <1>1
  <1>3. lo \in Int /\ hi \in Int /\ lo .. hi \subseteq remaining[op]
    <2>1. op \in Internal(array)
      BY DEF Incomplete, IInv, Shape
    <2>2. QED
      BY <1>2, <2>1 DEF IsRange, IInv, Shape
  <1>4. PICK n \in SuggestedLengths(1, hi - lo + 1) :
            Enqueue(op, lo, lo + n - 1)
    BY <1>2
  <1>5. n \in Int /\ n <= hi - lo + 1
    BY <1>3, FileWritingAssumption
        DEF SuggestedLengths, Least, Greatest, IInv, Shape
  <1>6. lo .. (lo + n - 1) \subseteq remaining[op] /\ lo + n - 1 \in Int
    BY <1>3, <1>5
  <1>7. QED
    BY <1>3, <1>4, <1>6, EnqueueIInv

\* Extending a piece by less than what is left of the source range keeps it
\* inside the target range lo .. hi.
LEMMA PieceInside ==
    ASSUME NEW op, op.at \in Int, op.from \in Int, NEW lo \in Int, NEW hi \in Int,
           NEW l \in Int, NEW r \in Int, NEW le \in Int, NEW re \in Int,
           le <= l - SourceOf(op, lo), re <= SourceOf(op, hi) - r
    PROVE  /\ TargetOf(op, l - le) \in Int /\ TargetOf(op, l - le) >= lo
           /\ TargetOf(op, r + re) \in Int /\ TargetOf(op, r + re) <= hi
  BY DEF SourceOf, TargetOf

\* An entry holds the bytes of one piece, and there is something in it.
Pieces ==
    \A i \in 1 .. Len(queue) :
        /\ queue[i].at \in Int /\ queue[i].len \in Nat \ {0}
        /\ DOMAIN queue[i].bytes = queue[i].at .. (queue[i].at + queue[i].len - 1)

\* What addQueueEntriesOverlappedByEntry: reads is a piece of what an operation
\* of the chain has still to read, and there is something in it.
LEMMA QueuedUpPiece ==
  ASSUME IInv, QueueUpOverlapped
  PROVE  \E op \in Incomplete : \E from, to \in Int :
            /\ from .. to \subseteq remaining[op]
            /\ Enqueue(op, from, to)
            /\ Pieces => from <= to
  <1> DEFINE head == Head(queue)
             last == head.at + head.len - 1
             left(op, lo) == Greatest(head.at, SourceOf(op, lo))
             right(op, hi) == Least(last, SourceOf(op, hi))
             min(op, lo, hi) == right(op, hi) - left(op, lo) + 1
             leftExtension(op, lo, hi, amount) ==
                Least(amount - min(op, lo, hi), left(op, lo) - SourceOf(op, lo))
             rightExtension(op, lo, hi, amount) ==
                Least(amount - min(op, lo, hi)
                        - leftExtension(op, lo, hi, amount),
                      SourceOf(op, hi) - right(op, hi))
             from(op, lo, hi, amount) ==
                TargetOf(op, left(op, lo) - leftExtension(op, lo, hi, amount))
             to(op, lo, hi, amount) ==
                TargetOf(op, right(op, hi) + rightExtension(op, lo, hi, amount))
  <1>1. PICK op \in Incomplete : \E lo, hi \in remaining[op] :
            /\ IsRange(remaining[op], lo, hi)
            /\ Overlaps(op, lo, hi, head)
            /\ \E amount \in SuggestedLengths(min(op, lo, hi), hi - lo + 1) :
                Enqueue(op, from(op, lo, hi, amount), to(op, lo, hi, amount))
    BY DEF QueueUpOverlapped
  <1>2. PICK lo \in remaining[op], hi \in remaining[op] :
            /\ IsRange(remaining[op], lo, hi)
            /\ Overlaps(op, lo, hi, head)
            /\ \E amount \in SuggestedLengths(min(op, lo, hi), hi - lo + 1) :
                Enqueue(op, from(op, lo, hi, amount), to(op, lo, hi, amount))
    BY <1>1
  <1>3. PICK amount \in SuggestedLengths(min(op, lo, hi), hi - lo + 1) :
            Enqueue(op, from(op, lo, hi, amount), to(op, lo, hi, amount))
    BY <1>2
  <1>4. op \in Internal(array) /\ op.at \in Int /\ op.from \in Int
    <2>1. op \in Internal(array)
      BY DEF Incomplete, QueueUpOverlapped, IInv, Shape
    <2>2. QED
      BY <2>1, SliceFacts DEF Internal, IInv, Shape
  <1>5. lo \in Int /\ hi \in Int /\ lo .. hi \subseteq remaining[op]
    BY <1>2, <1>4 DEF IsRange, IInv, Shape
  <1>6. /\ head.at \in Int /\ head.len \in Int /\ last \in Int /\ head = queue[1]
        /\ 1 \in 1 .. Len(queue)
    <2>1. queue \in Seq(Entry) /\ queue # <<>>
      BY DEF QueueUpOverlapped, IInv, Shape
    <2>2. head = queue[1] /\ head \in Entry /\ 1 \in 1 .. Len(queue)
      BY <2>1
    <2>3. QED
      BY <2>2 DEF Entry
  <1>7. /\ left(op, lo) \in Int /\ right(op, hi) \in Int
        /\ left(op, lo) >= SourceOf(op, lo)
        /\ right(op, hi) <= SourceOf(op, hi)
        /\ SourceOf(op, lo) \in Int /\ SourceOf(op, hi) \in Int
    <2> HIDE DEF head, last
    <2>1. SourceOf(op, lo) \in Int /\ SourceOf(op, hi) \in Int
      BY <1>4, <1>5 DEF SourceOf
    <2>2. left(op, lo) \in Int /\ left(op, lo) >= SourceOf(op, lo)
      BY <1>6, <2>1 DEF Greatest
    <2>3. right(op, hi) \in Int /\ right(op, hi) <= SourceOf(op, hi)
      BY <1>6, <2>1 DEF Least
    <2>4. QED
      BY <2>1, <2>2, <2>3
  <1>8. amount \in Int /\ amount >= min(op, lo, hi)
    <2> HIDE DEF min
    <2>1. allocated \in Int
      BY DEF IInv, Shape
    <2>2. min(op, lo, hi) \in Int
      BY <1>7 DEF min
    <2>3. hi - lo + 1 \in Int
      BY <1>5
    <2>4. QED
      BY <2>1, <2>2, <2>3, FileWritingAssumption
      DEF SuggestedLengths, Least, Greatest
  <1>9. Pieces => left(op, lo) <= right(op, hi)
    <2> HAVE Pieces
    <2>1. DOMAIN head.bytes = head.at .. last
      BY <1>6 DEF Pieces
    <2>2. PICK c \in lo .. hi : SourceOf(op, c) \in DOMAIN head.bytes
      BY <1>2 DEF Overlaps
    <2> HIDE DEF head, last
    <2>3. /\ head.at <= SourceOf(op, c) /\ SourceOf(op, c) <= last
          /\ SourceOf(op, lo) <= SourceOf(op, c) /\ SourceOf(op, c) <= SourceOf(op, hi)
          /\ SourceOf(op, c) \in Int
      BY <1>4, <1>5, <1>6, <2>1, <2>2, SMTT(60) DEF SourceOf
    <2>4. left(op, lo) <= SourceOf(op, c)
      BY <1>6, <1>7, <2>3 DEF Greatest
    <2>5. SourceOf(op, c) <= right(op, hi)
      BY <1>6, <1>7, <2>3 DEF Least
    <2> HIDE DEF left, right
    <2> QED BY <1>7, <2>3, <2>4, <2>5
  <1> HIDE DEF left, right
  <1>10. /\ leftExtension(op, lo, hi, amount) \in Nat
         /\ leftExtension(op, lo, hi, amount) <= left(op, lo) - SourceOf(op, lo)
         /\ leftExtension(op, lo, hi, amount) <= amount - min(op, lo, hi)
    BY <1>7, <1>8 DEF Least
  <1>11. /\ rightExtension(op, lo, hi, amount) \in Nat
         /\ rightExtension(op, lo, hi, amount) <= SourceOf(op, hi) - right(op, hi)
    BY <1>7, <1>8, <1>10 DEF Least
  <1>12. PICK l, r, le, re \in Int :
            /\ l = left(op, lo) /\ r = right(op, hi)
            /\ le = leftExtension(op, lo, hi, amount)
            /\ re = rightExtension(op, lo, hi, amount)
    <2> HIDE DEF leftExtension, rightExtension
    <2> QED BY <1>7, <1>10, <1>11
  <1>13. /\ from(op, lo, hi, amount) = TargetOf(op, l - le)
         /\ to(op, lo, hi, amount) = TargetOf(op, r + re)
    BY <1>12
  <1> HIDE DEF leftExtension, rightExtension, min, from, to
  <1>14. /\ le >= 0 /\ re >= 0 /\ le <= l - SourceOf(op, lo) /\ re <= SourceOf(op, hi) - r
         /\ Pieces => l <= r
    BY <1>9, <1>10, <1>11, <1>12
  <1>15. /\ TargetOf(op, l - le) \in Int /\ TargetOf(op, l - le) >= lo
         /\ TargetOf(op, r + re) \in Int /\ TargetOf(op, r + re) <= hi
    BY <1>4, <1>5, <1>12, <1>14, PieceInside
  <1>16. Pieces => TargetOf(op, l - le) <= TargetOf(op, r + re)
    BY <1>4, <1>12, <1>14 DEF TargetOf
  <1>17. TargetOf(op, l - le) .. TargetOf(op, r + re) \subseteq remaining[op]
    <2> DEFINE x == TargetOf(op, l - le)
               y == TargetOf(op, r + re)
    <2> HIDE DEF x, y
    <2>1. x .. y \subseteq remaining[op]
      BY <1>5, <1>15 DEF x, y
    <2> QED BY <2>1 DEF x, y
  <1> QED BY <1>3, <1>13, <1>15, <1>16, <1>17

LEMMA QueueUpOverlappedIInv == IInv /\ QueueUpOverlapped => IInv'
  <1> SUFFICES ASSUME IInv, QueueUpOverlapped PROVE IInv'
    OBVIOUS
  <1>1. PICK op \in Incomplete : \E from, to \in Int :
            from .. to \subseteq remaining[op] /\ Enqueue(op, from, to)
    BY QueuedUpPiece
  <1>2. /\ pc = "chains" /\ chain <= Len(chains)
        /\ UNCHANGED <<array, startLength, disk, pc, chains, chain, written,
                       result>>
    BY DEF QueueUpOverlapped
  <1> QED BY <1>1, <1>2, EnqueueIInv

-----------------------------------------------------------------------------
(* The steps that write. *)

\* Writing bytes of operation s to positions it supplies: what the file keeps
\* and what it gains.
LEMMA WriteFacts ==
    ASSUME IInv, pc \in {"chains", "external"},
           NEW s \in Internal(array) \cup External(array), NEW bytes,
           DOMAIN bytes \subseteq Target(s),
           \A c \in DOMAIN bytes : bytes[c] = SuppliedByte(s, c),
           WriteBytes(bytes), UNCHANGED <<array, startLength, pc, result>>
    PROVE  /\ FileLength'
           /\ DOMAIN disk' = DOMAIN disk
           /\ Target(s) \subseteq DOMAIN disk
           /\ \A c \in DOMAIN bytes : disk'[c] = SuppliedByte(s, c)
           /\ \A c \in DOMAIN disk \ DOMAIN bytes : disk'[c] = disk[c]
           /\ OnlyAnnouncedPositionsChange'
           /\ \A t \in array.slices : s # t =>
                \A c \in Target(t) \cap DOMAIN disk : disk'[c] = disk[c]
  <1>1. /\ IsByteArray(array) /\ startLength \in Nat /\ array.length \in Nat
        /\ s \in array.slices /\ result = "none"
    BY DEF IInv, Shape, IsByteArray, Internal, External
  <1>2. PICK n \in Nat : /\ disk \in [0 .. (n - 1) -> Bytes]
                         /\ n \in {startLength, array.length}
                         /\ n >= array.length /\ n >= startLength
    BY <1>1 DEF IInv, FileLength
  <1>3. Target(s) \subseteq 0 .. (n - 1)
    BY <1>1, <1>2, SliceFacts
  <1>4. disk' = [c \in 0 .. (n - 1) |->
                    IF c \in DOMAIN bytes THEN bytes[c] ELSE disk[c]]
    BY <1>2 DEF WriteBytes
  <1>5. \A c \in 0 .. (n - 1) :
            /\ c \in DOMAIN bytes => disk'[c] = SuppliedByte(s, c)
            /\ c \notin DOMAIN bytes => disk'[c] = disk[c]
            /\ disk'[c] \in Bytes
    BY <1>1, <1>2, <1>4, SuppliedByteType
  <1>6. disk' \in [0 .. (n - 1) -> Bytes]
    BY <1>4, <1>5
  <1>7. FileLength'
    BY <1>1, <1>2, <1>6 DEF FileLength
  <1>8. OnlyAnnouncedPositionsChange'
    BY <1>2, <1>5, <1>6, TargetsAnnounced
        DEF IInv, OnlyAnnouncedPositionsChange
  <1>9. ASSUME NEW t \in array.slices, s # t,
               NEW c \in Target(t) \cap DOMAIN disk
        PROVE  disk'[c] = disk[c]
    <2>1. c \notin Target(s)
      BY <1>1, <1>9, SliceFacts
    <2>2. QED
      BY <1>2, <1>5, <1>9, <2>1
  <1>10. QED
    BY <1>2, <1>3, <1>5, <1>6, <1>7, <1>8, <1>9

LEMMA ApplyQueueEntryIInv == IInv /\ ApplyQueueEntry => IInv'
  <1> SUFFICES ASSUME IInv, ApplyQueueEntry PROVE IInv'
    OBVIOUS
  <1> DEFINE entry == queue[1]
  <1>1. /\ pc = "chains" /\ chain \in 1 .. Len(chains) /\ result = "none"
        /\ queue # <<>> /\ entry = Head(queue)
        /\ NothingOverlaps(entry) /\ WriteBytes(entry.bytes)
        /\ queue' = Tail(queue) /\ allocated' = allocated - entry.len
        /\ UNCHANGED <<array, startLength, pc, chains, chain, remaining,
                       written, result>>
    BY DEF ApplyQueueEntry, IInv, Shape
  <1>2. /\ entry \in Entry /\ Len(queue) \in Nat /\ Len(queue) > 0
        /\ queue' \in Seq(Entry) /\ Len(queue') = Len(queue) - 1
        /\ \A i \in 1 .. Len(queue') : queue'[i] = queue[i + 1]
    BY <1>1 DEF IInv, Shape
  <1>3. PICK p \in chains[chain] : EntryOf(entry, p)
    BY <1>1, <1>2 DEF IInv, QueueHolds
  <1>4. p \in Internal(array)
    BY <1>1 DEF IInv, Shape
  <1>5. /\ FileLength'
        /\ DOMAIN disk' = DOMAIN disk
        /\ Target(p) \subseteq DOMAIN disk
        /\ \A c \in DOMAIN entry.bytes : disk'[c] = SuppliedByte(p, c)
        /\ \A c \in DOMAIN disk \ DOMAIN entry.bytes : disk'[c] = disk[c]
        /\ OnlyAnnouncedPositionsChange'
        /\ \A t \in array.slices : p # t =>
            \A c \in Target(t) \cap DOMAIN disk : disk'[c] = disk[c]
    BY <1>1, <1>3, <1>4, WriteFacts DEF EntryOf
  <1>6. Shape'
    <2>1. allocated' \in Int
      BY <1>1, <1>2 DEF Entry, IInv, Shape
    <2>2. QED
      BY <1>1, <1>2, <2>1 DEF IInv, Shape
  <1>7. PlanLaid' /\ Progress'
    BY <1>1 DEF IInv, PlanLaid, DependenciesFirst, Progress
  <1>8. QueueHolds'
    <2>1. ASSUME NEW i \in 1 .. Len(queue')
          PROVE  \E o \in chains[chain] : EntryOf(queue'[i], o)
      <3>1. i + 1 \in 1 .. Len(queue)
        BY <1>2
      <3>2. QED
        BY <1>1, <1>2, <3>1 DEF IInv, QueueHolds
    <2>2. QED
      BY <1>1, <2>1 DEF QueueHolds, EntryOf
  <1>9. ReadIsKept'
    <2> SUFFICES ASSUME NEW o \in Internal(array),
                        NEW c \in Target(o) \ remaining[o]
                 PROVE  \/ \E i \in 1 .. Len(queue') :
                                c \in DOMAIN queue'[i].bytes
                        \/ /\ c \in DOMAIN disk'
                           /\ disk'[c] = SuppliedByte(o, c)
      BY <1>1 DEF ReadIsKept
    <2>1. CASE c \in DOMAIN entry.bytes
      <3>1. c \in Target(p)
        BY <1>3, <2>1 DEF EntryOf
      <3>2. o = p
        BY <1>4, <3>1, SliceFacts DEF Internal, IInv, Shape
      <3>3. QED
        BY <1>5, <2>1, <3>1, <3>2
    <2>2. CASE \E i \in 1 .. Len(queue) :
                i # 1 /\ c \in DOMAIN queue[i].bytes
      <3>1. PICK i \in 1 .. Len(queue) : i # 1 /\ c \in DOMAIN queue[i].bytes
        BY <2>2
      <3>2. i - 1 \in 1 .. Len(queue') /\ queue'[i - 1] = queue[i]
        BY <1>2, <3>1
      <3>3. QED
        BY <3>1, <3>2
    <2>3. CASE /\ c \notin DOMAIN entry.bytes
               /\ c \in DOMAIN disk /\ disk[c] = SuppliedByte(o, c)
      BY <1>5, <2>3
    <2>4. QED
      BY <1>1, <1>2, <2>1, <2>2, <2>3 DEF IInv, ReadIsKept
  <1>10. ExternalKept'
    <2> SUFFICES ASSUME NEW o \in External(array),
                        NEW c \in o.at .. (o.at + written[o] - 1)
                 PROVE  FALSE
      BY <1>1 DEF ExternalKept
    <2>1. written[o] = 0 /\ o.at \in Nat
      BY <1>1, SliceFacts DEF External, IInv, Progress, Shape
    <2>2. QED
      BY <2>1
  <1>11. SourcesIntact'
    <2> SUFFICES ASSUME NEW o \in Internal(array), NEW c \in remaining[o]
                 PROVE  /\ SourceOf(o, c) \in DOMAIN disk'
                        /\ disk'[SourceOf(o, c)] = FileByte(SourceOf(o, c))
      BY <1>1 DEF SourcesIntact
    <2>1. /\ SourceOf(o, c) \in DOMAIN disk
          /\ disk[SourceOf(o, c)] = FileByte(SourceOf(o, c))
      BY DEF IInv, SourcesIntact
    <2>2. SourceOf(o, c) \notin DOMAIN entry.bytes
      <3> SUFFICES ASSUME SourceOf(o, c) \in DOMAIN entry.bytes PROVE FALSE
        OBVIOUS
      <3>1. DependsOn(p, o)
        <4>1. SourceOf(o, c) \in Source(o)
          <5>1. o.at \in Nat /\ o.len \in Nat /\ o.from \in Nat
            BY SliceFacts DEF Internal, IInv, Shape
          <5>2. c \in Target(o)
            BY DEF IInv, Shape
          <5>3. QED
            BY <5>1, <5>2 DEF Source, SourceOf, Target
        <4>2. QED
          BY <1>3, <4>1 DEF DependsOn, EntryOf
      <3>2. PICK j \in 1 .. Len(chains) : o \in chains[j]
        BY <1>1 DEF IInv, PlanLaid
      <3>3. j <= chain
        BY <1>1, <3>1, <3>2 DEF IInv, PlanLaid, DependenciesFirst, Shape
      <3>4. CASE j = chain
        BY <1>1, <3>2, <3>4 DEF NothingOverlaps, Incomplete
      <3>5. CASE j < chain
        BY <1>1, <3>2, <3>5 DEF IInv, Progress
      <3>6. QED
        BY <1>1, <3>3, <3>4, <3>5
    <2>3. QED
      BY <1>5, <2>1, <2>2
  <1>12. QED
    BY <1>5, <1>6, <1>7, <1>8, <1>9, <1>10, <1>11 DEF IInv

LEMMA NextChainIInv == IInv /\ NextChain => IInv'
  <1> SUFFICES ASSUME IInv, NextChain PROVE IInv'
    OBVIOUS
  <1>1. /\ pc = "chains" /\ result = "none"
        /\ chain \in 1 .. (Len(chains) + 1) /\ Len(chains) \in Nat
        /\ chain <= Len(chains) =>
                /\ queue = <<>> /\ \A op \in chains[chain] : remaining[op] = {}
                /\ chain' = chain + 1 /\ pc' = pc
        /\ ~(chain <= Len(chains)) => pc' = "external" /\ chain' = chain
        /\ UNCHANGED <<array, startLength, disk, chains, remaining, queue,
                       allocated, written, result>>
    BY DEF NextChain, Incomplete, IInv, Shape
  <1>2. Shape' /\ FileLength'
    BY <1>1 DEF IInv, Shape, FileLength
  <1>3. PlanLaid'
    BY <1>1 DEF IInv, PlanLaid, DependenciesFirst
  <1>4. Progress'
    <2>1. CASE chain <= Len(chains)
      BY <1>1, <2>1 DEF IInv, Progress
    <2>2. CASE ~(chain <= Len(chains))
      <3>1. ASSUME NEW op \in Internal(array)
            PROVE  remaining[op] = {}
        <4>1. PICK i \in 1 .. Len(chains) : op \in chains[i]
          BY <1>1 DEF IInv, PlanLaid
        <4>2. i \in 1 .. (chain - 1)
          BY <1>1, <2>2
        <4>3. QED
          BY <1>1, <4>1, <4>2 DEF IInv, Progress
      <3>2. queue = <<>>
        BY <1>1, <2>2 DEF IInv, Progress
      <3>3. QED
        BY <1>1, <2>2, <3>1, <3>2 DEF IInv, Progress
    <2>3. QED
      BY <2>1, <2>2
  <1>5. QueueHolds'
    <2>1. CASE chain <= Len(chains)
      BY <1>1, <2>1 DEF QueueHolds
    <2>2. CASE ~(chain <= Len(chains))
      BY <1>1, <2>2 DEF QueueHolds
    <2>3. QED
      BY <2>1, <2>2
  <1>6. ReadIsKept' /\ ExternalKept'
    BY <1>1 DEF IInv, ReadIsKept, ExternalKept
  <1>7. SourcesIntact' /\ OnlyAnnouncedPositionsChange'
    BY <1>1 DEF IInv, SourcesIntact, OnlyAnnouncedPositionsChange
  <1>8. QED
    BY <1>2, <1>3, <1>4, <1>5, <1>6, <1>7 DEF IInv

LEMMA WriteExternalIInv == IInv /\ WriteExternal => IInv'
  <1> SUFFICES ASSUME IInv, WriteExternal PROVE IInv'
    OBVIOUS
  <1>1. /\ pc = "external" /\ result = "none"
        /\ UNCHANGED <<array, startLength, pc, chains, chain, remaining,
                       queue, allocated, result>>
    BY DEF WriteExternal, IInv, Shape
  <1>2. PICK op \in External(array) :
            /\ written[op] < op.len
            /\ WriteBytes([c \in (op.at + written[op]) ..
                                (op.at + written[op]
                                 + Least(BufferLength, op.len - written[op])
                                 - 1) |-> SuppliedByte(op, c)])
            /\ written' = [written EXCEPT ![op] =
                            @ + Least(BufferLength, op.len - written[op])]
    BY DEF WriteExternal
  <1> DEFINE amount == Least(BufferLength, op.len - written[op])
             start == op.at + written[op]
             bytes == [c \in start .. (start + amount - 1) |->
                        SuppliedByte(op, c)]
  <1>3. /\ op.at \in Nat /\ op.len \in Nat /\ written[op] \in Nat
        /\ op \in array.slices
    BY SliceFacts DEF External, IInv, Shape
  <1>4. amount \in Nat /\ written[op] + amount <= op.len
    BY <1>2, <1>3, FileWritingAssumption DEF Least
  <1> HIDE DEF amount
  <1>5. DOMAIN bytes \subseteq Target(op)
    BY <1>3, <1>4 DEF Target
  <1>6. /\ FileLength'
        /\ DOMAIN disk' = DOMAIN disk
        /\ Target(op) \subseteq DOMAIN disk
        /\ \A c \in DOMAIN bytes : disk'[c] = SuppliedByte(op, c)
        /\ \A c \in DOMAIN disk \ DOMAIN bytes : disk'[c] = disk[c]
        /\ OnlyAnnouncedPositionsChange'
        /\ \A t \in array.slices : op # t =>
            \A c \in Target(t) \cap DOMAIN disk : disk'[c] = disk[c]
    <2>1. WriteBytes(bytes)
      BY <1>2 DEF amount
    <2> HIDE DEF bytes
    <2>2. \A c \in DOMAIN bytes : bytes[c] = SuppliedByte(op, c)
      BY DEF bytes
    <2>3. QED
      BY <1>1, <1>5, <2>1, <2>2, WriteFacts
  <1>7. written' = [written EXCEPT ![op] = @ + amount]
    BY <1>2 DEF amount
  <1>8. Shape'
    <2>1. /\ written' \in [External(array) -> Nat]
          /\ \A o \in External(array) : written'[o] <= o.len
      BY <1>3, <1>4, <1>7 DEF IInv, Shape
    <2>2. QED
      BY <1>1, <2>1 DEF IInv, Shape
  <1>9. PlanLaid' /\ Progress' /\ QueueHolds'
    BY <1>1 DEF IInv, PlanLaid, DependenciesFirst, Progress, QueueHolds
  <1>10. ReadIsKept'
    <2> SUFFICES ASSUME NEW o \in Internal(array), NEW c \in Target(o)
                 PROVE  c \in DOMAIN disk' /\ disk'[c] = SuppliedByte(o, c)
      BY <1>1 DEF ReadIsKept
    <2>1. queue = <<>> /\ remaining[o] = {}
      BY <1>1 DEF IInv, Progress
    <2>2. c \in DOMAIN disk /\ disk[c] = SuppliedByte(o, c)
      BY <1>1, <2>1 DEF IInv, ReadIsKept
    <2>3. o \in array.slices /\ o # op
      BY DEF Internal, External
    <2>4. QED
      BY <1>6, <2>2, <2>3
  <1>11. ExternalKept'
    <2> SUFFICES ASSUME NEW o \in External(array),
                        NEW c \in o.at .. (o.at + written'[o] - 1)
                 PROVE  c \in DOMAIN disk' /\ disk'[c] = SuppliedByte(o, c)
      BY <1>1 DEF ExternalKept
    <2>1. o.at \in Nat /\ o.len \in Nat /\ o \in array.slices
      BY SliceFacts DEF External, IInv, Shape
    <2>2. CASE o = op /\ c \in DOMAIN bytes
      BY <1>5, <1>6, <2>2
    <2>3. CASE o = op /\ c \notin DOMAIN bytes
      <3>1. written'[op] = written[op] + amount
        BY <1>7 DEF IInv, Shape
      <3>2. c \in o.at .. (o.at + written[o] - 1)
        BY <1>3, <1>4, <2>3, <3>1
      <3>3. c \in DOMAIN disk /\ disk[c] = SuppliedByte(o, c)
        BY <1>1, <3>2 DEF IInv, ExternalKept
      <3>4. QED
        BY <1>6, <2>3, <3>3
    <2>4. CASE o # op
      <3>1. written'[o] = written[o] /\ written[o] \in Nat
            /\ written[o] <= o.len
        BY <1>7, <2>4 DEF IInv, Shape
      <3>2. c \in DOMAIN disk /\ disk[c] = SuppliedByte(o, c)
        BY <1>1, <3>1 DEF IInv, ExternalKept
      <3>3. c \in Target(o)
        BY <2>1, <3>1 DEF Target
      <3>4. QED
        BY <1>6, <2>1, <2>4, <3>2, <3>3
    <2>5. QED
      BY <2>2, <2>3, <2>4
  <1>12. SourcesIntact'
    BY <1>1 DEF IInv, Progress, SourcesIntact
  <1>13. QED
    BY <1>6, <1>8, <1>9, <1>10, <1>11, <1>12 DEF IInv

LEMMA ExternalWrittenIInv == IInv /\ ExternalWritten => IInv'
  <1> SUFFICES ASSUME IInv, ExternalWritten PROVE IInv'
    OBVIOUS
  <1>1. /\ pc = "external" /\ pc' = "truncate" /\ result = "none"
        /\ \A op \in External(array) : written[op] = op.len
        /\ UNCHANGED <<array, startLength, disk, chains, chain, remaining,
                       queue, allocated, written, result>>
    BY DEF ExternalWritten, IInv, Shape
  <1>2. Shape' /\ FileLength'
    BY <1>1 DEF IInv, Shape, FileLength
  <1>3. PlanLaid' /\ Progress' /\ QueueHolds'
    BY <1>1 DEF IInv, PlanLaid, DependenciesFirst, Progress, QueueHolds
  <1>4. ReadIsKept' /\ ExternalKept'
    BY <1>1 DEF IInv, ReadIsKept, ExternalKept
  <1>5. SourcesIntact' /\ OnlyAnnouncedPositionsChange'
    BY <1>1 DEF IInv, SourcesIntact, OnlyAnnouncedPositionsChange
  <1>6. QED
    BY <1>2, <1>3, <1>4, <1>5 DEF IInv

\* Before the last step every position of the array is in the file.
LEMMA AllWritten ==
    ASSUME IInv, pc = "truncate", NEW c \in 0 .. (array.length - 1)
    PROVE  c \in DOMAIN disk /\ disk[c] = Contents(array)[c]
  <1>1. IsByteArray(array) /\ result = "none"
    BY DEF IInv, Shape
  <1>2. PICK s \in array.slices : c \in Target(s)
    BY <1>1 DEF IsByteArray
  <1>3. SuppliedByte(s, c) = Contents(array)[c]
    BY <1>1, <1>2, ContentsAt
  <1>4. s.at \in Nat /\ s.len \in Nat /\ c \in Nat
    BY <1>1, <1>2, SliceFacts
  <1>5. CASE s \in Internal(array)
    <2>1. remaining[s] = {} /\ queue = <<>>
      BY <1>5 DEF IInv, Progress
    <2>2. QED
      BY <1>1, <1>2, <1>3, <1>5, <2>1 DEF IInv, ReadIsKept
  <1>6. CASE s \in External(array)
    <2>1. written[s] = s.len
      BY <1>6 DEF IInv, Progress
    <2>2. c \in s.at .. (s.at + written[s] - 1)
      BY <1>2, <2>1 DEF Target
    <2>3. QED
      BY <1>1, <1>3, <1>6, <2>2 DEF IInv, ExternalKept
  <1>7. CASE s.from = s.at
    <2>1. c \in 0 .. (startLength - 1)
      <3>1. s.from + s.len <= startLength /\ startLength \in Nat
        BY <1>2, <1>4, <1>7 DEF SourcesFit, NotInFile, IInv, Shape
      <3>2. QED
        BY <1>2, <1>4, <1>7, <3>1 DEF Target
    <2>2. c \notin ModifiedBySaving(array, startLength)
      <3>1. c \notin array.length .. (startLength - 1)
        BY <1>1, <1>4 DEF IsByteArray
      <3>2. ASSUME NEW t \in External(array) \cup Internal(array)
            PROVE  c \notin Target(t)
        <4>1. t \in array.slices /\ t # s
          BY <1>4, <1>7 DEF External, Internal, NotInFile
        <4>2. QED
          BY <1>1, <1>2, <4>1, SliceFacts
      <3>3. QED
        BY <3>1, <3>2, Announced
    <2>3. c \in DOMAIN disk /\ disk[c] = FileByte(c)
      BY <2>1, <2>2 DEF IInv, OnlyAnnouncedPositionsChange
    <2>4. SuppliedByte(s, c) = FileByte(c)
      BY <1>4, <1>7 DEF SuppliedByte, SourceOf, NotInFile
    <2>5. QED
      BY <1>3, <2>3, <2>4
  <1>8. QED
    BY <1>5, <1>6, <1>7 DEF Internal, External

LEMMA TruncateFacts ==
    ASSUME IInv, Truncate
    PROVE  disk' = Contents(array)
  <1>1. /\ pc = "truncate" /\ IsByteArray(array) /\ startLength \in Nat
        /\ array.length \in Nat /\ result = "none"
    BY DEF Truncate, IInv, Shape, IsByteArray
  <1>2. PICK n \in Nat : /\ disk \in [0 .. (n - 1) -> Bytes]
                         /\ n \in {startLength, array.length}
                         /\ n >= array.length /\ n >= startLength
    BY <1>1 DEF IInv, FileLength
  <1>3. \A c \in 0 .. (array.length - 1) : disk[c] = Contents(array)[c]
    BY <1>1, AllWritten
  <1>4. disk' = [c \in 0 .. (array.length - 1) |-> disk[c]]
    <2>1. CASE array.length < startLength
      BY <2>1 DEF Truncate
    <2>2. CASE ~(array.length < startLength)
      <3>1. disk' = disk /\ n = array.length
        BY <1>1, <1>2, <2>2 DEF Truncate
      <3>2. QED
        BY <1>2, <3>1
    <2>3. QED
      BY <2>1, <2>2
  <1>5. Contents(array) = [c \in 0 .. (array.length - 1) |-> Contents(array)[c]]
    BY DEF Contents
  <1>6. QED
    BY <1>3, <1>4, <1>5

LEMMA TruncateIInv == IInv /\ Truncate => IInv'
  <1> SUFFICES ASSUME IInv, Truncate PROVE IInv'
    OBVIOUS
  <1>1. /\ pc = "truncate" /\ pc' = "end" /\ result' = "YES"
        /\ UNCHANGED <<array, startLength, chains, chain, remaining,
                       queue, allocated, written>>
        /\ IsByteArray(array) /\ array.length \in Nat /\ startLength \in Nat
    BY DEF Truncate, Finish, IInv, Shape, IsByteArray
  <1>2. disk' = Contents(array)
    BY TruncateFacts
  <1>3. \A c \in 0 .. (array.length - 1) :
            c \in DOMAIN disk /\ disk[c] = Contents(array)[c]
    BY <1>1, AllWritten
  <1>4. DOMAIN disk' = 0 .. (array.length - 1)
    BY <1>2 DEF Contents
  <1>5. Shape'
    BY <1>1 DEF IInv, Shape
  <1>6. FileLength'
    <2>1. \A c \in 0 .. (array.length - 1) : Contents(array)[c] \in Bytes
      BY <1>3 DEF IInv, FileLength
    <2>2. Contents(array) \in [0 .. (array.length - 1) -> Bytes]
      BY <2>1 DEF Contents
    <2>3. QED
      BY <1>1, <1>2, <2>2 DEF FileLength
  <1>7. PlanLaid' /\ Progress' /\ QueueHolds'
    BY <1>1 DEF IInv, PlanLaid, Progress, QueueHolds
  <1>8. ReadIsKept'
    <2> SUFFICES ASSUME NEW o \in Internal(array), NEW c \in Target(o)
                 PROVE  c \in DOMAIN disk' /\ disk'[c] = SuppliedByte(o, c)
      BY <1>1 DEF ReadIsKept
    <2>1. QED
      BY <1>1, <1>2, <1>4, ContentsAt DEF Internal
  <1>9. ExternalKept'
    <2> SUFFICES ASSUME NEW o \in External(array),
                        NEW c \in o.at .. (o.at + written[o] - 1)
                 PROVE  c \in DOMAIN disk' /\ disk'[c] = SuppliedByte(o, c)
      BY <1>1 DEF ExternalKept
    <2>1. c \in Target(o)
      BY <1>1, SliceFacts DEF Target, External, IInv, Progress
    <2>2. QED
      BY <1>1, <1>2, <1>4, <2>1, ContentsAt DEF External
  <1>10. SourcesIntact'
    BY <1>1 DEF IInv, Progress, SourcesIntact
  <1>11. OnlyAnnouncedPositionsChange'
    <2> SUFFICES ASSUME NEW c \in 0 .. (startLength - 1),
                        c \notin ModifiedBySaving(array, startLength)
                 PROVE  c \in DOMAIN disk' /\ disk'[c] = FileByte(c)
      BY <1>1 DEF OnlyAnnouncedPositionsChange
    <2>1. c \in 0 .. (array.length - 1)
      <3>1. c \notin array.length .. (startLength - 1)
        BY Announced
      <3>2. QED
        BY <1>1, <3>1
    <2>2. disk[c] = FileByte(c)
      BY DEF IInv, OnlyAnnouncedPositionsChange
    <2>3. QED
      BY <1>2, <1>3, <1>4, <2>1, <2>2
  <1>12. QED
    BY <1>5, <1>6, <1>7, <1>8, <1>9, <1>10, <1>11 DEF IInv

LEMMA NextIInv == IInv /\ [Next]_vars => IInv'
  <1> SUFFICES ASSUME IInv, [Next]_vars PROVE IInv'
    OBVIOUS
  <1>1. CASE RequestCancel
    BY <1>1, UnchangedIInv DEF RequestCancel
  <1>2. CASE NoticeCancel
    BY <1>2, GiveUpIInv DEF NoticeCancel
  <1>3. CASE FailIO
    BY <1>3, GiveUpIInv DEF FailIO
  <1>4. CASE Open
    BY <1>4, OpenIInv
  <1>5. CASE Extend
    BY <1>5, ExtendIInv
  <1>6. CASE Plan
    BY <1>6, PlanIInv
  <1>7. CASE AddQueueEntry
    BY <1>7, AddQueueEntryIInv
  <1>8. CASE QueueUpOverlapped
    BY <1>8, QueueUpOverlappedIInv
  <1>9. CASE ApplyQueueEntry
    BY <1>9, ApplyQueueEntryIInv
  <1>10. CASE NextChain
    BY <1>10, NextChainIInv
  <1>11. CASE WriteExternal
    BY <1>11, WriteExternalIInv
  <1>12. CASE ExternalWritten
    BY <1>12, ExternalWrittenIInv
  <1>13. CASE Truncate
    BY <1>13, TruncateIInv
  <1>14. CASE UNCHANGED vars
    BY <1>14, UnchangedIInv DEF vars
  <1>15. QED
    BY <1>1, <1>2, <1>3, <1>4, <1>5, <1>6, <1>7, <1>8, <1>9, <1>10, <1>11,
       <1>12, <1>13, <1>14 DEF Next, WriterStep

THEOREM Invariance == Spec => []IInv
  BY InitIInv, NextIInv, PTL DEF Spec

-----------------------------------------------------------------------------
(* What the queue holds and the memory accounted for *)

\* The positions whose bytes are in a queue.
Queued(q) == UNION {DOMAIN q[i].bytes : i \in DOMAIN q}

\* The inductive form of QueueAccounted.
Accounts == Pieces /\ IsFiniteSet(Queued(queue)) /\ QueueAccounted

\* A piece of as many bytes as its length says.
LEMMA PieceSize ==
  ASSUME NEW at \in Int, NEW len \in Nat
  PROVE  IsFiniteSet(at .. (at + len - 1)) /\ Cardinality(at .. (at + len - 1)) = len
  <1> DEFINE b == at + len - 1
  <1>1. b \in Int /\ (at > b <=> len = 0) /\ b - at + 1 = len
    OBVIOUS
  <1> HIDE DEF b
  <1>2. /\ IsFiniteSet(at .. b)
        /\ Cardinality(at .. b) = IF at > b THEN 0 ELSE b - at + 1
    BY <1>1, FS_Interval
  <1>3. IsFiniteSet(at .. b) /\ Cardinality(at .. b) = len
    BY <1>1, <1>2
  <1> QED BY <1>3 DEF b

\* At first the queue is empty.
LEMMA AccountsInit == Init => Accounts
  <1> SUFFICES ASSUME Init PROVE Accounts
    OBVIOUS
  <1>1. queue = <<>> /\ allocated = 0 /\ DOMAIN queue = {} /\ Len(queue) = 0
    BY DEF Init
  <1>2. Queued(queue) = {}
    BY <1>1 DEF Queued
  <1> QED BY <1>1, <1>2, FS_EmptySet DEF Accounts, Pieces, QueueAccounted, Queued

\* Most steps touch nothing of this.
LEMMA AccountsUnchanged ==
  ASSUME Accounts, UNCHANGED <<array, queue, remaining, allocated>>
  PROVE  Accounts'
  BY DEF Accounts, Pieces, QueueAccounted, Queued

\* Reading a piece: it goes from what is still to be read into the queue.
LEMMA AccountsEnqueue ==
  ASSUME IInv, Accounts, NEW op \in Internal(array), NEW lo \in Int, NEW hi \in Int,
         lo <= hi, lo .. hi \subseteq remaining[op], Enqueue(op, lo, hi),
         UNCHANGED array
  PROVE  Accounts'
  <1> DEFINE piece == lo .. hi
             len == hi - lo + 1
             entry == [at |-> lo, len |-> len, bytes |-> BytesRead(op, piece)]
             n == Len(queue)
  <1>1. /\ remaining' = [remaining EXCEPT ![op] = @ \ piece]
        /\ queue' = Append(queue, entry)
        /\ allocated' = allocated + len
    BY DEF Enqueue
  <1>2. len \in Nat \ {0} /\ len \in Nat /\ piece = lo .. (lo + len - 1)
    <2>1. lo + len - 1 = hi
      OBVIOUS
    <2> QED BY <2>1
  <1>3. /\ entry.at = lo /\ entry.len = len /\ DOMAIN entry.bytes = piece
    BY DEF BytesRead
  <1>4. /\ n \in Nat /\ DOMAIN queue = 1 .. n /\ DOMAIN queue' = 1 .. n + 1
        /\ Len(queue') = n + 1 /\ queue'[n + 1] = entry
        /\ \A i \in 1 .. n : queue'[i] = queue[i]
    BY <1>1 DEF IInv, Shape
  <1>5. Shape /\ piece \subseteq Target(op)
    BY DEF IInv, Shape
  <1>6. IsFiniteSet(piece) /\ Cardinality(piece) = len
    BY <1>2, PieceSize
  <1> HIDE DEF piece, len, entry, n
  <1>7. Pieces'
    <2> SUFFICES ASSUME NEW i \in 1 .. n + 1
                 PROVE  /\ queue'[i].at \in Int /\ queue'[i].len \in Nat \ {0}
                        /\ DOMAIN queue'[i].bytes
                             = queue'[i].at .. (queue'[i].at + queue'[i].len - 1)
      BY <1>4 DEF Pieces
    <2>1. CASE i = n + 1
      BY <1>2, <1>3, <1>4, <2>1
    <2>2. CASE i \in 1 .. n
      BY <1>4, <2>2 DEF Accounts, Pieces, n
    <2> QED BY <1>4, <2>1, <2>2
  <1>8. /\ \A i \in 1 .. n : DOMAIN queue[i].bytes \cap piece = {}
    BY <1>4 DEF Accounts, QueueAccounted, piece
  <1>9. ASSUME NEW i \in 1 .. n + 1, NEW j \in 1 .. n + 1, i # j
        PROVE  DOMAIN queue'[i].bytes \cap DOMAIN queue'[j].bytes = {}
    <2>1. CASE i = n + 1 /\ j \in 1 .. n
      BY <1>3, <1>4, <1>8, <2>1
    <2>2. CASE j = n + 1 /\ i \in 1 .. n
      BY <1>3, <1>4, <1>8, <2>2
    <2>3. CASE i \in 1 .. n /\ j \in 1 .. n
      BY <1>4, <1>9, <2>3 DEF Accounts, QueueAccounted
    <2> QED BY <1>4, <1>9, <2>1, <2>2, <2>3
  <1>10. ASSUME NEW i \in 1 .. n + 1, NEW o \in Internal(array)
         PROVE  DOMAIN queue'[i].bytes \cap remaining'[o] = {}
    <2>1. remaining'[o] = IF o = op THEN remaining[op] \ piece ELSE remaining[o]
      BY <1>1, <1>5 DEF Shape
    <2>2. CASE i \in 1 .. n
      <3>1. DOMAIN queue[i].bytes \cap remaining[o] = {}
        BY <1>4, <2>2 DEF Accounts, QueueAccounted
      <3>2. remaining'[o] \subseteq remaining[o]
        BY <2>1
      <3> QED BY <1>4, <2>2, <3>1, <3>2
    <2>3. CASE i = n + 1 /\ o = op
      BY <1>3, <1>4, <2>1, <2>3
    <2>4. CASE i = n + 1 /\ o # op
      <3>1. remaining'[o] \subseteq Target(o)
        BY <1>5, <2>1, <2>4 DEF Shape
      <3>2. Target(o) \cap Target(op) = {}
        BY <1>5, <2>4 DEF Shape, IsByteArray, Internal
      <3> QED BY <1>3, <1>4, <1>5, <2>4, <3>1, <3>2
    <2> QED BY <1>4, <2>2, <2>3, <2>4
  <1>11. Queued(queue') = Queued(queue) \cup piece /\ Queued(queue) \cap piece = {}
    <2>1. ASSUME NEW c PROVE c \in Queued(queue') <=> c \in Queued(queue) \/ c \in piece
      <3>1. c \in Queued(queue') <=> \E i \in 1 .. n + 1 : c \in DOMAIN queue'[i].bytes
        BY <1>4 DEF Queued
      <3>2. c \in Queued(queue) <=> \E i \in 1 .. n : c \in DOMAIN queue[i].bytes
        BY <1>4 DEF Queued
      <3>3. \A i \in 1 .. n + 1 : i \in 1 .. n \/ i = n + 1
        BY <1>4
      <3>4. n + 1 \in 1 .. n + 1 /\ \A i \in 1 .. n : i \in 1 .. n + 1
        BY <1>4
      <3> QED BY <1>3, <1>4, <3>1, <3>2, <3>3, <3>4
    <2>2. Queued(queue) \cap piece = {}
      BY <1>4, <1>8 DEF Queued
    <2> QED BY <2>1, <2>2
  <1>12. IsFiniteSet(Queued(queue'))
         /\ Cardinality(Queued(queue')) = Cardinality(Queued(queue)) + len
    <2> DEFINE Q == Queued(queue)
    <2>1. IsFiniteSet(Q)
      BY DEF Accounts
    <2>2. Q \cap piece = {} /\ Queued(queue') = Q \cup piece
      BY <1>11
    <2> HIDE DEF Q
    <2>3. /\ IsFiniteSet(Q \cup piece)
          /\ Cardinality(Q \cup piece) = Cardinality(Q) + Cardinality(piece)
                                            - Cardinality(Q \cap piece)
      BY <1>6, <2>1, FS_Union
    <2>4. Cardinality(Q) \in Nat /\ Cardinality(Q \cap piece) = 0
      BY <2>1, <2>2, FS_CardinalityType, FS_EmptySet
    <2>5. Cardinality(Q \cup piece) = Cardinality(Q) + len
      BY <1>2, <1>6, <2>3, <2>4
    <2> QED BY <2>2, <2>3, <2>5 DEF Q
  <1>13. allocated' = Cardinality(Queued(queue'))
    BY <1>1, <1>12 DEF Accounts, QueueAccounted, Queued
  <1>14. QueueAccounted'
    BY <1>4, <1>9, <1>10, <1>13 DEF QueueAccounted, Queued
  <1> QED BY <1>7, <1>12, <1>14 DEF Accounts

\* The piece read first is within a range that is still to be read.
LEMMA AccountsAddQueueEntry ==
  ASSUME IInv, Accounts, AddQueueEntry
  PROVE  Accounts'
  <1>1. PICK op \in Incomplete : \E lo, hi \in remaining[op] :
            /\ IsRange(remaining[op], lo, hi)
            /\ \E m \in SuggestedLengths(1, hi - lo + 1) :
                Enqueue(op, lo, lo + m - 1)
    BY DEF AddQueueEntry
  <1>2. PICK lo \in remaining[op], hi \in remaining[op] :
            /\ IsRange(remaining[op], lo, hi)
            /\ \E m \in SuggestedLengths(1, hi - lo + 1) :
                Enqueue(op, lo, lo + m - 1)
    BY <1>1
  <1>3. pc = "chains" /\ chain <= Len(chains) /\ UNCHANGED array
    BY DEF AddQueueEntry
  <1>4. op \in Internal(array)
    BY <1>3 DEF Incomplete, IInv, Shape
  <1>5. lo \in Int /\ hi \in Int /\ lo .. hi \subseteq remaining[op]
    BY <1>2, <1>4 DEF IsRange, IInv, Shape
  <1>6. PICK m \in SuggestedLengths(1, hi - lo + 1) : Enqueue(op, lo, lo + m - 1)
    BY <1>2
  <1>7. m \in Int /\ m <= hi - lo + 1 /\ m >= 1
    BY <1>5, FileWritingAssumption
        DEF SuggestedLengths, Least, Greatest, IInv, Shape
  <1>8. /\ lo .. (lo + m - 1) \subseteq remaining[op] /\ lo + m - 1 \in Int
        /\ lo <= lo + m - 1
    BY <1>5, <1>7
  <1> QED BY <1>3, <1>4, <1>5, <1>6, <1>8, AccountsEnqueue

\* So are the pieces read because the first entry would overwrite them.
LEMMA AccountsQueueUp ==
  ASSUME IInv, Accounts, QueueUpOverlapped
  PROVE  Accounts'
  <1>1. PICK op \in Incomplete : \E from, to \in Int :
            /\ from .. to \subseteq remaining[op] /\ Enqueue(op, from, to)
            /\ from <= to
    BY QueuedUpPiece DEF Accounts
  <1>2. op \in Internal(array) /\ UNCHANGED array
    BY DEF QueueUpOverlapped, Incomplete, IInv, Shape
  <1> QED BY <1>1, <1>2, AccountsEnqueue

\* Writing the first entry frees what it took.
LEMMA AccountsApply ==
  ASSUME IInv, Accounts, ApplyQueueEntry
  PROVE  Accounts'
  <1> DEFINE entry == queue[1]
             n == Len(queue)
             piece == DOMAIN entry.bytes
  <1>1. /\ queue # <<>> /\ entry = Head(queue)
        /\ queue' = Tail(queue) /\ allocated' = allocated - entry.len
        /\ UNCHANGED <<array, remaining>>
    BY DEF ApplyQueueEntry, IInv, Shape
  <1>2. /\ n \in Nat /\ n > 0 /\ DOMAIN queue = 1 .. n
        /\ Len(queue') = n - 1 /\ DOMAIN queue' = 1 .. n - 1
        /\ \A i \in 1 .. n - 1 : queue'[i] = queue[i + 1]
    BY <1>1 DEF IInv, Shape
  <1>3. \A i \in 1 .. n - 1 : i + 1 \in 1 .. n /\ i + 1 # 1
    BY <1>2
  <1>4. /\ entry.at \in Int /\ entry.len \in Nat
        /\ piece = entry.at .. (entry.at + entry.len - 1)
    BY <1>2 DEF Accounts, Pieces
  <1>5. IsFiniteSet(piece) /\ Cardinality(piece) = entry.len
    BY <1>4, PieceSize
  <1>6. \A i \in 1 .. n - 1 : DOMAIN queue'[i].bytes \cap piece = {}
    BY <1>2, <1>3 DEF Accounts, QueueAccounted
  <1> HIDE DEF n, piece
  <1>7. Pieces'
    BY <1>2, <1>3 DEF Accounts, Pieces, n
  <1>8. \A i, j \in 1 .. n - 1 : i # j =>
            DOMAIN queue'[i].bytes \cap DOMAIN queue'[j].bytes = {}
    <2> TAKE i, j \in 1 .. n - 1
    <2> HAVE i # j
    <2>1. i + 1 \in DOMAIN queue /\ j + 1 \in DOMAIN queue /\ i + 1 # j + 1
      BY <1>2, <1>3
    <2> QED BY <1>2, <2>1 DEF Accounts, QueueAccounted
  <1>9. \A i \in 1 .. n - 1 : \A op \in Internal(array) :
            DOMAIN queue'[i].bytes \cap remaining[op] = {}
    BY <1>2, <1>3 DEF Accounts, QueueAccounted
  <1>10. Queued(queue') = Queued(queue) \ piece /\ Queued(queue) \cap piece = piece
    <2>1. ASSUME NEW c \in Queued(queue') PROVE c \in Queued(queue) \ piece
      <3>1. PICK i \in 1 .. n - 1 : c \in DOMAIN queue'[i].bytes
        BY <1>2 DEF Queued
      <3> QED BY <1>2, <1>3, <1>6, <3>1 DEF Queued
    <2>2. ASSUME NEW c \in Queued(queue) \ piece PROVE c \in Queued(queue')
      <3>1. PICK i \in 1 .. n : c \in DOMAIN queue[i].bytes
        BY <1>2 DEF Queued
      <3>2. i # 1
        BY <2>2, <3>1 DEF piece
      <3>3. i - 1 \in 1 .. n - 1 /\ (i - 1) + 1 = i
        BY <1>2, <3>2
      <3>4. c \in DOMAIN queue'[i - 1].bytes
        BY <1>2, <3>1, <3>3
      <3> QED BY <1>2, <3>3, <3>4 DEF Queued
    <2>3. piece \subseteq Queued(queue)
      BY <1>2 DEF Queued, piece
    <2> QED BY <2>1, <2>2, <2>3
  <1>11. /\ IsFiniteSet(Queued(queue'))
         /\ Cardinality(Queued(queue')) = Cardinality(Queued(queue)) - entry.len
    <2> DEFINE Q == Queued(queue)
    <2>1. IsFiniteSet(Q) /\ Queued(queue') = Q \ piece /\ Q \cap piece = piece
      BY <1>10 DEF Accounts
    <2> HIDE DEF Q
    <2>2. /\ IsFiniteSet(Q \ piece)
          /\ Cardinality(Q \ piece) = Cardinality(Q) - Cardinality(Q \cap piece)
      BY <2>1, FS_Difference
    <2> QED BY <1>5, <2>1, <2>2 DEF Q
  <1>12. allocated' = Cardinality(Queued(queue'))
    BY <1>1, <1>11 DEF Accounts, QueueAccounted, Queued
  <1>13. QueueAccounted'
    BY <1>1, <1>2, <1>8, <1>9, <1>12 DEF QueueAccounted, Queued
  <1> QED BY <1>7, <1>11, <1>13 DEF Accounts

\* Every step keeps the accounts.
LEMMA AccountsNext == IInv /\ Accounts /\ [Next]_vars => Accounts'
  <1> SUFFICES ASSUME IInv, Accounts, [Next]_vars PROVE Accounts'
    OBVIOUS
  <1>1. CASE AddQueueEntry
    BY <1>1, AccountsAddQueueEntry
  <1>2. CASE QueueUpOverlapped
    BY <1>2, AccountsQueueUp
  <1>3. CASE ApplyQueueEntry
    BY <1>3, AccountsApply
  <1>4. CASE \/ NoticeCancel \/ FailIO \/ Open \/ Extend \/ Plan \/ NextChain
             \/ WriteExternal \/ ExternalWritten \/ Truncate \/ RequestCancel
             \/ UNCHANGED vars
    <2>1. UNCHANGED <<array, queue, remaining, allocated>>
      BY <1>4 DEF NoticeCancel, FailIO, Finish, Open, Extend, Plan, NextChain,
                  WriteExternal, ExternalWritten, Truncate, RequestCancel, vars
    <2> QED BY <2>1, AccountsUnchanged
  <1> QED BY <1>1, <1>2, <1>3, <1>4 DEF Next, WriterStep

\* Every chunk is read once and written once, and the memory accounted for is
\* that of the entries of the queue, so that the assertions of
\* freeMemory:ofLength: never fail.
THEOREM MemoryIsAccounted == Spec => []QueueAccounted
  <1>1. Init => Accounts
    BY AccountsInit
  <1>2. IInv /\ Accounts /\ [Next]_vars => Accounts'
    BY AccountsNext
  <1>3. Accounts => QueueAccounted
    BY DEF Accounts
  <1> QED BY Invariance, <1>1, <1>2, <1>3, PTL DEF Spec

-----------------------------------------------------------------------------
(* What the invariant gives. *)

\* writeToFile: loses no byte an operation has still to read: whatever the
\* chains, the queue and the memory limits, no write overtakes a read.
THEOREM SourcesStayIntact == Spec => []SourcesIntact
  <1>1. IInv => SourcesIntact
    BY DEF IInv
  <1>2. QED
    BY <1>1, Invariance, PTL

\* Nothing but the announced positions changes, in any state of the save.
THEOREM AnnouncedPositions == Spec => []OnlyAnnouncedPositionsChange
  <1>1. IInv => OnlyAnnouncedPositionsChange
    BY DEF IInv
  <1>2. QED
    BY <1>1, Invariance, PTL

\* Until the save has succeeded the file is never shorter than it was.
THEOREM NotShorter == Spec => []NeverShorterBeforeSuccess
  <1>1. IInv => NeverShorterBeforeSuccess
    BY DEF IInv, FileLength, Shape, NeverShorterBeforeSuccess
  <1>2. QED
    BY <1>1, Invariance, PTL

\* An answer of YES means that the file reads as the array did.
THEOREM SavedIsArray == Spec => []SavedFileIsArray
  <1> DEFINE Saved == result = "YES" => disk = Contents(array)
  <1>1. Init => Saved
    BY DEF Init
  <1>2. IInv /\ Saved /\ [Next]_vars => Saved'
    <2> SUFFICES ASSUME IInv, Saved, [Next]_vars PROVE Saved'
      OBVIOUS
    <2>1. CASE Truncate
      BY <2>1, TruncateFacts DEF Truncate, Finish
    <2>2. CASE NoticeCancel \/ FailIO
      BY <2>2 DEF NoticeCancel, FailIO, Finish
    <2>3. CASE result' = result /\ array' = array /\ result # "YES"
      BY <2>3
    <2>4. CASE UNCHANGED <<result, array, disk>>
      BY <2>4
    <2>5. pc # "end" => result = "none"
      BY DEF IInv, Shape
    <2>6. QED
      BY <2>1, <2>2, <2>3, <2>4, <2>5
        DEF Next, WriterStep, RequestCancel, Open, Extend, Plan, AddQueueEntry,
            QueueUpOverlapped, ApplyQueueEntry, NextChain, WriteExternal,
            ExternalWritten, vars
  <1>3. Saved => SavedFileIsArray
    BY DEF SavedFileIsArray
  <1>4. QED
    BY <1>1, <1>2, <1>3, Invariance, PTL DEF Spec

\* The type invariant.
THEOREM TypeCorrect == Spec => []TypeOK
  <1> DEFINE Cancel == cancelRequested \in BOOLEAN
  <1>1. Init => Cancel
    BY Zenon DEF Init
  <1>2. Cancel /\ [Next]_vars => Cancel'
    <2> SUFFICES ASSUME Cancel, [Next]_vars PROVE Cancel'
      OBVIOUS
    <2>1. cancelRequested' = cancelRequested \/ cancelRequested' = TRUE
      BY DEF Next, WriterStep, RequestCancel, NoticeCancel, FailIO, Open,
          Extend, Plan, AddQueueEntry, QueueUpOverlapped, ApplyQueueEntry,
          NextChain, WriteExternal, ExternalWritten, Truncate, Finish, vars
    <2>2. QED
      BY <2>1, Zenon
  <1>3. IInv /\ Cancel => TypeOK
    <2> SUFFICES ASSUME IInv, Cancel PROVE TypeOK
      OBVIOUS
    <2>1. \E n \in {startLength, array.length} : disk \in [0 .. (n - 1) -> Bytes]
      BY DEF IInv, FileLength
    <2>2. /\ IsByteArray(array) /\ startLength \in Nat
          /\ chains \in Seq(SUBSET Internal(array))
          /\ chain \in 1 .. (Len(chains) + 1)
          /\ DOMAIN remaining = Internal(array)
          /\ \A op \in Internal(array) : remaining[op] \subseteq Target(op)
          /\ DOMAIN queue = 1 .. Len(queue)
          /\ allocated \in Int
          /\ written \in [External(array) -> Nat]
          /\ \A op \in External(array) : written[op] <= op.len
          /\ result \in {"none", "YES", "NO"}
          /\ pc \in {"open", "extend", "plan", "chains", "external",
                     "truncate", "end"}
      BY DEF IInv, Shape
    <2>3. QED
      BY <2>1, <2>2, Zenon DEF TypeOK
  <1>4. QED
    BY <1>1, <1>2, <1>3, Invariance, PTL DEF Spec

\* The operators of the promise are those of the save.
LEMMA SameOperators ==
    /\ \A a : Promise!IsByteArray(a) <=> IsByteArray(a)
    /\ \A a, n : Promise!SourcesFit(a, n) <=> SourcesFit(a, n)
    /\ \A a : Promise!Contents(a) = Contents(a)
    /\ \A n : Promise!OriginalFile(n) = OriginalFile(n)
    /\ \A a, n : Promise!ModifiedBySaving(a, n) = ModifiedBySaving(a, n)
  <1> USE DEF Promise!NotInFile, NotInFile
  <1>1. \A a : Promise!IsByteArray(a) <=> IsByteArray(a)
    <2>1. Promise!Slice = Slice /\ \A s : Promise!Target(s) = Target(s)
      BY DEF Promise!Slice, Slice, Promise!Target, Target
    <2>2. QED
      BY <2>1, Zenon DEF Promise!IsByteArray, IsByteArray,
                         Promise!IsFiniteSet, IsFiniteSet
  <1>2. \A a, n : Promise!SourcesFit(a, n) <=> SourcesFit(a, n)
    BY DEF Promise!SourcesFit, SourcesFit
  <1>3. \A a : Promise!Contents(a) = Contents(a)
    BY DEF Promise!Contents, Contents, Promise!SuppliedByte, SuppliedByte,
           Promise!MemoryByte, MemoryByte, Promise!FileByte, FileByte,
           Promise!SourceOf, SourceOf, Promise!Target, Target
  <1>4. \A n : Promise!OriginalFile(n) = OriginalFile(n)
    BY DEF Promise!OriginalFile, OriginalFile, Promise!FileByte, FileByte
  <1>5. \A a, n : Promise!ModifiedBySaving(a, n) = ModifiedBySaving(a, n)
    BY DEF Promise!ModifiedBySaving, ModifiedBySaving, Promise!Internal,
           Internal, Promise!External, External, Promise!Target, Target
  <1>6. QED
    BY <1>1, <1>2, <1>3, <1>4, <1>5

\* The save implements the promise of module InPlaceSave: every step of the
\* writer is a step of the promise or changes nothing it mentions.
THEOREM Refinement == Spec => KeepsPromise
  <1>1. Init => Promise!Init
    BY FileWritingAssumption, SameOperators DEF Init, Promise!Init
  <1>2. IInv /\ IInv' /\ [Next]_vars =>
            [Promise!Next]_<<array, startLength, disk, result>>
    <2> SUFFICES ASSUME IInv, IInv', [Next]_vars
                 PROVE  [Promise!Next]_<<array, startLength, disk, result>>
      OBVIOUS
    <2> USE DEF Promise!Next, Promise!Touch, Promise!Succeed, Promise!GiveUp
    <2>1. CASE Truncate
      <3>1. /\ result = "none" /\ result' = "YES" /\ disk' = Contents(array)
            /\ UNCHANGED <<array, startLength>>
        BY <2>1, TruncateFacts DEF Truncate, Finish, IInv, Shape
      <3>2. QED
        BY <3>1, SameOperators
    <2>2. CASE NoticeCancel \/ FailIO
      <3>1. /\ result = "none" /\ result' = "NO"
            /\ UNCHANGED <<array, startLength, disk>>
        BY <2>2 DEF NoticeCancel, FailIO, Finish, IInv, Shape
      <3>2. QED
        BY <3>1
    <2>3. CASE UNCHANGED <<array, startLength, disk, result>>
      BY <2>3
    <2>4. CASE Extend \/ ApplyQueueEntry \/ WriteExternal
      <3>1. result = "none" /\ UNCHANGED <<array, startLength, result>>
        BY <2>4 DEF Extend, ApplyQueueEntry, WriteExternal, IInv, Shape
      <3>2. \A c \in Promise!Untouched : c \in DOMAIN disk' /\ disk'[c] = disk[c]
        BY <3>1, SameOperators
            DEF Promise!Untouched, IInv, OnlyAnnouncedPositionsChange
      <3>3. QED
        BY <3>1, <3>2
    <2>5. QED
      BY <2>1, <2>2, <2>3, <2>4
        DEF Next, WriterStep, RequestCancel, Open, Plan, AddQueueEntry,
            QueueUpOverlapped, NextChain, ExternalWritten, vars
  <1>3. QED
    BY <1>1, <1>2, Invariance, PTL DEF Spec, KeepsPromise, Promise!Spec
=============================================================================
