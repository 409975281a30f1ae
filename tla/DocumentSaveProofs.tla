------------------------- MODULE DocumentSaveProofs -------------------------
(***************************************************************************)
(* Proofs about DocumentSave for any documents, files, limits and bounds.  *)
(*                                                                         *)
(* A byte is steady if it is in memory or at a position of a file that is  *)
(* there and that no save in progress has announced.  The inductive        *)
(* invariant IInv says that everybody's bytes are steady, except those a   *)
(* document being saved reads from its own file, and that the positions    *)
(* not announced hold in the file what they hold in the text that is       *)
(* written.  Steady bytes read the same before and after every step.       *)
(* Histories go on fitting because clearing and saving keep lengths.       *)
(***************************************************************************)
EXTENDS DocumentSave, SequenceLemmas, TLAPS

Files == [Documents -> Seq(Values)]

\* What a byte and a byte array read as, given the files.
ReadIn(files, b) ==
    IF b.file = Memory THEN b.value
    ELSE IF b.at \in DOMAIN files[b.file] THEN files[b.file][b.at]
    ELSE Missing

ReadsIn(files, s) == [i \in DOMAIN s |-> ReadIn(files, s[i])]

-----------------------------------------------------------------------------
(* Byte arrays *)

LEMMA ReadIsIn == ASSUME NEW b PROVE Read(b) = ReadIn(disk, b)
  BY DEF Read, ReadIn

LEMMA ReadsAreIn == ASSUME NEW s PROVE Reads(s) = ReadsIn(disk, s)
  BY DEF Reads, ReadsIn, Read, ReadIn

\* Reading gives a value.
LEMMA ReadInType ==
  ASSUME NEW files \in Files, NEW b \in Bytes
  PROVE  ReadIn(files, b) \in Values
  <1>1. CASE b.file = Memory
    BY <1>1 DEF ReadIn, Bytes
  <1>2. CASE b.file # Memory
    <2>1. b.file \in Documents /\ files[b.file] \in Seq(Values)
      BY <1>2 DEF Bytes, Files
    <2>2. \A i \in DOMAIN files[b.file] : files[b.file][i] \in Values
      BY <2>1, ElementOfSeq, LenProperties
    <2> QED BY <1>2, <2>2 DEF ReadIn, Values
  <1> QED BY <1>1, <1>2

\* Reading gives a text of the same length.
LEMMA ReadsInType ==
  ASSUME NEW files \in Files, NEW s \in Seq(Bytes)
  PROVE  /\ ReadsIn(files, s) \in Seq(Values)
         /\ DOMAIN ReadsIn(files, s) = DOMAIN s
         /\ Len(ReadsIn(files, s)) = Len(s)
  <1>1. \A i \in 1 .. Len(s) : ReadIn(files, s[i]) \in Values
    BY ReadInType, ElementOfSeq
  <1>2. DOMAIN s = 1 .. Len(s) /\ Len(s) \in Nat
    BY LenProperties
  <1>3. ReadsIn(files, s) = [i \in 1 .. Len(s) |-> ReadIn(files, s[i])]
    BY <1>2 DEF ReadsIn
  <1>4. ReadsIn(files, s) \in [1 .. Len(s) -> Values]
    BY <1>1, <1>3
  <1>5. ReadsIn(files, s) \in Seq(Values)
    BY <1>4, <1>2, SeqDef
  <1>6. Len(ReadsIn(files, s)) = Len(s)
    BY <1>5, <1>4, <1>2, LenProperties
  <1> QED BY <1>2, <1>3, <1>5, <1>6

LEMMA ReadsInSubSeq ==
  ASSUME NEW files \in Files, NEW s \in Seq(Bytes),
         NEW from \in 1 .. (Len(s) + 1), NEW to \in 0 .. Len(s)
  PROVE  /\ SubSeq(s, from, to) \in Seq(Bytes)
         /\ ReadsIn(files, SubSeq(s, from, to))
                = SubSeq(ReadsIn(files, s), from, to)
  <1> DEFINE t == ReadsIn(files, s)  sub == SubSeq(s, from, to)
  <1>1. Len(s) \in Nat /\ DOMAIN s = 1 .. Len(s)
    BY LenProperties
  <1>2. t \in Seq(Values) /\ Len(t) = Len(s)
    BY ReadsInType
  <1>3. \A i \in from .. to : s[i] \in Bytes /\ t[i] \in Values
    BY <1>1, <1>2, ElementOfSeq
  <1>4. /\ sub \in Seq(Bytes)
        /\ Len(sub) = IF from <= to THEN to - from + 1 ELSE 0
        /\ \A i \in 1 .. (to - from + 1) : sub[i] = s[from + i - 1]
    BY <1>1, <1>3, SubSeqProperties
  <1>5. /\ SubSeq(t, from, to) \in Seq(Values)
        /\ Len(SubSeq(t, from, to)) = IF from <= to THEN to - from + 1 ELSE 0
        /\ \A i \in 1 .. (to - from + 1) : SubSeq(t, from, to)[i] = t[from + i - 1]
    BY <1>1, <1>3, SubSeqProperties
  <1>6. ReadsIn(files, sub) \in Seq(Values) /\ Len(ReadsIn(files, sub)) = Len(sub)
        /\ DOMAIN sub = 1 .. Len(sub)
    BY <1>4, ReadsInType, LenProperties
  <1>7. \A i \in 1 .. Len(sub) : ReadsIn(files, sub)[i] = SubSeq(t, from, to)[i]
    <2> TAKE i \in 1 .. Len(sub)
    <2>1. i \in 1 .. (to - from + 1) /\ from + i - 1 \in DOMAIN s
      BY <1>1, <1>4
    <2> QED BY <2>1, <1>4, <1>5, <1>6 DEF ReadsIn
  <1> HIDE DEF t, sub
  <1>8. ReadsIn(files, sub) = SubSeq(t, from, to)
    BY <1>4, <1>5, <1>6, <1>7, SeqEqual
  <1> QED BY <1>4, <1>8 DEF t, sub

LEMMA ReadsInConcat ==
  ASSUME NEW files \in Files, NEW s \in Seq(Bytes), NEW t \in Seq(Bytes)
  PROVE  /\ s \o t \in Seq(Bytes)
         /\ ReadsIn(files, s \o t) = ReadsIn(files, s) \o ReadsIn(files, t)
  <1> DEFINE rs == ReadsIn(files, s)  rt == ReadsIn(files, t)
  <1>1. /\ s \o t \in Seq(Bytes)
        /\ Len(s \o t) = Len(s) + Len(t)
        /\ \A i \in 1 .. (Len(s) + Len(t)) :
              (s \o t)[i] = IF i <= Len(s) THEN s[i] ELSE t[i - Len(s)]
    BY ConcatProperties
  <1>2. /\ rs \in Seq(Values) /\ Len(rs) = Len(s)
        /\ rt \in Seq(Values) /\ Len(rt) = Len(t)
    BY ReadsInType
  <1>3. /\ rs \o rt \in Seq(Values)
        /\ Len(rs \o rt) = Len(s) + Len(t)
        /\ \A i \in 1 .. (Len(s) + Len(t)) :
              (rs \o rt)[i] = IF i <= Len(s) THEN rs[i] ELSE rt[i - Len(s)]
    <2> HIDE DEF rs, rt
    <2>1. /\ rs \o rt \in Seq(Values)
          /\ Len(rs \o rt) = Len(rs) + Len(rt)
          /\ \A i \in 1 .. (Len(rs) + Len(rt)) :
                (rs \o rt)[i] = IF i <= Len(rs) THEN rs[i] ELSE rt[i - Len(rs)]
      BY <1>2, ConcatProperties
    <2> QED BY <1>2, <2>1
  <1>4. /\ ReadsIn(files, s \o t) \in Seq(Values)
        /\ Len(ReadsIn(files, s \o t)) = Len(s) + Len(t)
    BY <1>1, ReadsInType
  <1>5. /\ DOMAIN s = 1 .. Len(s) /\ DOMAIN t = 1 .. Len(t)
        /\ DOMAIN (s \o t) = 1 .. (Len(s) + Len(t))
        /\ Len(s) \in Nat /\ Len(t) \in Nat
    BY <1>1, LenProperties
  <1>6. \A i \in 1 .. (Len(s) + Len(t)) :
            ReadsIn(files, s \o t)[i] = (rs \o rt)[i]
    <2> TAKE i \in 1 .. (Len(s) + Len(t))
    <2>1. ReadsIn(files, s \o t)[i] = ReadIn(files, (s \o t)[i])
      BY <1>5 DEF ReadsIn
    <2>2. CASE i <= Len(s)
      <3>1. i \in DOMAIN s
        BY <2>2, <1>5
      <3> QED BY <2>1, <2>2, <3>1, <1>1, <1>3 DEF ReadsIn
    <2>3. CASE ~(i <= Len(s))
      <3>1. i - Len(s) \in DOMAIN t
        BY <2>3, <1>5
      <3> QED BY <2>1, <2>3, <3>1, <1>1, <1>3 DEF ReadsIn
    <2> QED BY <2>2, <2>3
  <1> HIDE DEF rs, rt
  <1>7. ReadsIn(files, s \o t) = rs \o rt
    BY <1>3, <1>4, <1>6, SeqEqual
  <1> QED BY <1>1, <1>7 DEF rs, rt

-----------------------------------------------------------------------------
(* Edits *)

\* Replacing a part of a sequence of a kind by another one.
LEMMA ReplacedType ==
  ASSUME NEW S, NEW s \in Seq(S),
         NEW edit \in [at : Nat \ {0}, length : Nat, bytes : Seq(S)],
         Fits(edit, Len(s))
  PROVE  /\ SubSeq(s, 1, edit.at - 1) \in Seq(S)
         /\ SubSeq(s, edit.at, edit.at + edit.length - 1) \in Seq(S)
         /\ SubSeq(s, edit.at + edit.length, Len(s)) \in Seq(S)
         /\ Replaced(s, edit) \in Seq(S)
  <1>1. /\ edit.at \in Nat \ {0} /\ edit.length \in Nat
        /\ edit.bytes \in Seq(S) /\ Len(s) \in Nat
        /\ edit.at + edit.length - 1 <= Len(s)
    BY LenProperties DEF Fits
  <1>2. \A i \in 1 .. Len(s) : s[i] \in S
    BY ElementOfSeq
  <1>3. SubSeq(s, 1, edit.at - 1) \in Seq(S)
    BY <1>1, <1>2, SubSeqProperties
  <1>4. SubSeq(s, edit.at, edit.at + edit.length - 1) \in Seq(S)
    BY <1>1, <1>2, SubSeqProperties
  <1>5. SubSeq(s, edit.at + edit.length, Len(s)) \in Seq(S)
    BY <1>1, <1>2, SubSeqProperties
  <1> QED BY <1>1, <1>3, <1>4, <1>5, ConcatProperties DEF Replaced

\* An operation as it reads.
ReadOperation(files, o) == [o EXCEPT !.bytes = ReadsIn(files, @)]

\* Replacing reads as replacing what is read, and so does what undoes it.
LEMMA ReadsInReplaced ==
  ASSUME NEW files \in Files, NEW s \in Seq(Bytes), NEW edit \in Operations,
         Fits(edit, Len(s))
  PROVE  /\ ReadsIn(files, Replaced(s, edit))
                = Own!Replaced(ReadsIn(files, s), ReadOperation(files, edit))
         /\ ReadsIn(files, SubSeq(s, edit.at, edit.at + edit.length - 1))
                = SubSeq(ReadsIn(files, s), edit.at, edit.at + edit.length - 1)
  <1> DEFINE before == SubSeq(s, 1, edit.at - 1)
             behind == SubSeq(s, edit.at + edit.length, Len(s))
  <1>1. /\ edit.at \in Nat \ {0} /\ edit.length \in Nat
        /\ edit.bytes \in Seq(Bytes) /\ Len(s) \in Nat
        /\ edit.at + edit.length - 1 <= Len(s)
    BY LenProperties DEF Fits, Operations
  <1>2. /\ before \in Seq(Bytes)
        /\ ReadsIn(files, before) = SubSeq(ReadsIn(files, s), 1, edit.at - 1)
    <2>1. 1 \in 1 .. (Len(s) + 1) /\ edit.at - 1 \in 0 .. Len(s)
      BY <1>1
    <2> QED BY <2>1, ReadsInSubSeq
  <1>3. /\ behind \in Seq(Bytes)
        /\ ReadsIn(files, behind)
                = SubSeq(ReadsIn(files, s), edit.at + edit.length, Len(s))
    <2>1. edit.at + edit.length \in 1 .. (Len(s) + 1) /\ Len(s) \in 0 .. Len(s)
      BY <1>1
    <2> QED BY <2>1, ReadsInSubSeq
  <1>4. ReadsIn(files, SubSeq(s, edit.at, edit.at + edit.length - 1))
            = SubSeq(ReadsIn(files, s), edit.at, edit.at + edit.length - 1)
    <2>1. /\ edit.at \in 1 .. (Len(s) + 1)
          /\ edit.at + edit.length - 1 \in 0 .. Len(s)
      BY <1>1
    <2> QED BY <2>1, ReadsInSubSeq
  <1> HIDE DEF before, behind
  <1>5. /\ before \o edit.bytes \in Seq(Bytes)
        /\ ReadsIn(files, before \o edit.bytes)
                = ReadsIn(files, before) \o ReadsIn(files, edit.bytes)
    BY <1>1, <1>2, ReadsInConcat
  <1>6. ReadsIn(files, (before \o edit.bytes) \o behind)
            = (ReadsIn(files, before) \o ReadsIn(files, edit.bytes))
                \o ReadsIn(files, behind)
    <2> DEFINE front == before \o edit.bytes
    <2> HIDE DEF front
    <2>1. front \in Seq(Bytes)
      BY <1>5 DEF front
    <2>2. ReadsIn(files, front \o behind)
            = ReadsIn(files, front) \o ReadsIn(files, behind)
      BY <1>3, <2>1, ReadsInConcat
    <2> QED BY <1>5, <2>2 DEF front
  <1>7. Replaced(s, edit) = (before \o edit.bytes) \o behind
    BY DEF Replaced, before, behind
  <1>8. /\ ReadOperation(files, edit).at = edit.at
        /\ ReadOperation(files, edit).length = edit.length
        /\ ReadOperation(files, edit).bytes = ReadsIn(files, edit.bytes)
    BY DEF ReadOperation, Operations
  <1>9. Len(ReadsIn(files, s)) = Len(s)
    BY ReadsInType
  <1> QED BY <1>2, <1>3, <1>4, <1>6, <1>7, <1>8, <1>9 DEF Own!Replaced

-----------------------------------------------------------------------------
(* Clearing *)

\* What is left of bytes of a kind: copies, and those outside the ranges.
ClearBytes(S, d, ranges) ==
    {b \in Bytes : \/ b.file = Memory
                   \/ b \in S /\ ~(b.file = d /\ b.at \in ranges)}

\* A cleared byte array reads the same, and not from the ranges.
LEMMA ClearedReads ==
  ASSUME disk \in Files, NEW S, S \subseteq Bytes, NEW s \in Seq(S),
         NEW d \in Documents, NEW ranges
  PROVE  /\ Cleared(s, d, ranges) \in Seq(ClearBytes(S, d, ranges))
         /\ ReadsIn(disk, Cleared(s, d, ranges)) = ReadsIn(disk, s)
  <1> DEFINE Kind == ClearBytes(S, d, ranges)
             clear == Cleared(s, d, ranges)
  <1>1. /\ Len(s) \in Nat /\ DOMAIN s = 1 .. Len(s)
        /\ \A i \in 1 .. Len(s) : s[i] \in S /\ s[i] \in Bytes
    BY LenProperties, ElementOfSeq
  <1>2. clear = [i \in 1 .. Len(s) |->
                    IF s[i].file = d /\ s[i].at \in ranges
                    THEN MemoryByte(Read(s[i])) ELSE s[i]]
    BY <1>1 DEF Cleared
  <1>3. \A i \in 1 .. Len(s) : /\ clear[i] \in Kind
                               /\ ReadIn(disk, clear[i]) = ReadIn(disk, s[i])
    <2> TAKE i \in 1 .. Len(s)
    <2>1. CASE s[i].file = d /\ s[i].at \in ranges
      <3>1. clear[i] = MemoryByte(ReadIn(disk, s[i]))
        BY <1>2, <2>1, ReadIsIn
      <3>2. ReadIn(disk, s[i]) \in Values
        BY <1>1, ReadInType
      <3>3. clear[i] \in Bytes /\ clear[i].file = Memory
        BY <3>1, <3>2 DEF MemoryByte, Bytes
      <3>4. ReadIn(disk, clear[i]) = ReadIn(disk, s[i])
        BY <3>1 DEF MemoryByte, ReadIn
      <3> QED BY <3>3, <3>4 DEF ClearBytes
    <2>2. CASE ~(s[i].file = d /\ s[i].at \in ranges)
      BY <1>1, <1>2, <2>2 DEF ClearBytes
    <2> QED BY <2>1, <2>2
  <1>4. clear \in Seq(Kind)
    <2>1. clear \in [1 .. Len(s) -> Kind]
      BY <1>2, <1>3
    <2> QED BY <1>1, <2>1, SeqDef
  <1>5. DOMAIN clear = 1 .. Len(s)
    BY <1>2
  <1>6. ReadsIn(disk, clear) = ReadsIn(disk, s)
    BY <1>1, <1>3, <1>5 DEF ReadsIn
  <1> QED BY <1>4, <1>6

-----------------------------------------------------------------------------
(* The inductive invariant *)

InFile(b) == b.file \in Documents => b.at \in DOMAIN disk[b.file]

SteadyBytes ==
    {b \in Bytes : /\ InFile(b)
                   /\ b.file \in Documents /\ Locked(b.file)
                        => b.at \notin announced[b.file]}

\* What a document being saved may read from its own file.  After a save
\* that did not fail the file may have become shorter.
LooseBytes(d) ==
    {b \in Bytes : /\ Locked(d) /\ b.file = d
                   /\ InFile(b) \/ (phase[d] = "written" /\ result[d] # "error")}

SteadyOperations == [at : Nat \ {0}, length : Nat, bytes : Seq(SteadyBytes)]

Held ==
    /\ \A d \in Documents \ closed : array[d] \in Seq(SteadyBytes \cup LooseBytes(d))
    /\ \A d \in Documents \ closed : undo[d] \in Seq(SteadyOperations)
    /\ clip \in Seq(SteadyBytes)

\* Positions that were not announced are right in the file from the start.
SavedText ==
    \A d \in Documents : Locked(d) =>
        /\ \A i \in (DOMAIN disk[d] \cup DOMAIN goal[d]) \ announced[d] :
              /\ i \in DOMAIN disk[d] /\ i \in DOMAIN goal[d]
              /\ disk[d][i] = goal[d][i]
        /\ phase[d] = "written" /\ result[d] = "success" => disk[d] = goal[d]

IInv == TypeOK /\ Held /\ SavedText

\* Bytes in memory are steady.
LEMMA MemoryIsSteady ==
  ASSUME NEW v \in Values
  PROVE  MemoryByte(v) \in SteadyBytes
  BY DocumentSaveAssumption DEF MemoryByte, SteadyBytes, Bytes, InFile

\* A document that is not being saved has only steady bytes.
LEMMA UnlockedIsSteady ==
  ASSUME IInv, NEW d \in Documents \ closed, ~Locked(d)
  PROVE  array[d] \in Seq(SteadyBytes)
  <1>1. SteadyBytes \cup LooseBytes(d) = SteadyBytes
    BY DEF LooseBytes
  <1> QED BY <1>1 DEF IInv, Held

LEMMA SteadyTypes ==
  /\ SteadyBytes \subseteq Bytes
  /\ \A s \in Seq(SteadyBytes) : s \in Seq(Bytes)
  /\ SteadyOperations \subseteq Operations
  <1>1. SteadyBytes \subseteq Bytes
    BY DEF SteadyBytes
  <1>2. \A s \in Seq(SteadyBytes) : s \in Seq(Bytes)
    BY <1>1, SeqMonotonic
  <1> QED BY <1>1, <1>2 DEF SteadyOperations, Operations

\* What is steady depends on the files and the saves only.
LEMMA SteadyKept ==
  ASSUME UNCHANGED <<disk, saving>>
  PROVE  /\ SteadyBytes' = SteadyBytes
         /\ SteadyOperations' = SteadyOperations
         /\ \A d : LooseBytes(d)' = LooseBytes(d)
         /\ SavedText => SavedText'
  BY DEF saving, SteadyBytes, SteadyOperations, LooseBytes, InFile, Locked, SavedText

-----------------------------------------------------------------------------
(* Steps of the user *)

LEMMA EditKeeps ==
  ASSUME IInv, NEW d \in Documents \ closed, NEW edit \in SteadyOperations,
         Fits(edit, Len(array[d])), Edit(d, edit)
  PROVE  IInv'
  <1> DEFINE taken == SubSeq(array[d], edit.at, edit.at + edit.length - 1)
             o == [at |-> edit.at, length |-> Len(edit.bytes), bytes |-> taken]
  <1>1. /\ ~Locked(d) /\ UNCHANGED <<disk, saving, saves, closed, clip>>
        /\ events < MaxEvents /\ events' = events + 1
        /\ array' = [array EXCEPT ![d] = Replaced(@, edit)]
        /\ undo' = [undo EXCEPT ![d] = Append(@, o)]
    BY DEF Edit, Event
  <1>2. TypeOK /\ Held /\ SavedText
    BY DEF IInv
  <1>3. array[d] \in Seq(SteadyBytes)
    BY <1>1, UnlockedIsSteady
  <1>4. taken \in Seq(SteadyBytes) /\ Replaced(array[d], edit) \in Seq(SteadyBytes)
    BY <1>3, ReplacedType DEF SteadyOperations
  <1>5. o \in SteadyOperations
    <2>1. edit.at \in Nat \ {0} /\ Len(edit.bytes) \in Nat
      BY LenProperties DEF SteadyOperations
    <2> HIDE DEF taken
    <2> QED BY <1>4, <2>1 DEF SteadyOperations
  <1> HIDE DEF taken, o
  <1>6. Append(undo[d], o) \in Seq(SteadyOperations)
    BY <1>2, <1>5, AppendProperties DEF Held
  <1>7. Append(undo[d], o) \in Seq(Operations)
    BY <1>6, SteadyTypes, SeqMonotonic
  <1>8. TypeOK'
    <2>1. array' \in [Documents -> Seq(Bytes)] /\ undo' \in [Documents -> Seq(Operations)]
      BY <1>1, <1>2, <1>4, <1>7, SteadyTypes DEF TypeOK
    <2>2. events' \in 0 .. MaxEvents
      BY <1>1, <1>2, DocumentSaveAssumption DEF TypeOK
    <2> QED BY <1>1, <1>2, <2>1, <2>2 DEF TypeOK, saving
  <1>9. Held'
    <2>1. /\ \A e \in Documents \ closed : array'[e] \in Seq(SteadyBytes \cup LooseBytes(e))
      <3>1. SteadyBytes \subseteq SteadyBytes \cup LooseBytes(d)
        OBVIOUS
      <3>2. Replaced(array[d], edit) \in Seq(SteadyBytes \cup LooseBytes(d))
        BY <1>4, <3>1, SeqMonotonic
      <3> QED BY <1>1, <1>2, <3>2 DEF Held, TypeOK
    <2>2. \A e \in Documents \ closed : undo'[e] \in Seq(SteadyOperations)
      BY <1>1, <1>2, <1>6 DEF Held, TypeOK
    <2> QED BY <1>1, <1>2, <2>1, <2>2, SteadyKept DEF Held
  <1> QED BY <1>1, <1>2, <1>8, <1>9, SteadyKept DEF IInv

\* The edits of the user are made of steady bytes.
LEMMA TypeIsEdit ==
  ASSUME IInv, NEW d \in Documents, NEW at \in 1 .. (Len(array[d]) + 1)
  PROVE  LET edit == [at |-> at, length |-> 0, bytes |-> <<MemoryByte(Typed)>>]
         IN  edit \in SteadyOperations /\ Fits(edit, Len(array[d]))
  <1>1. MemoryByte(Typed) \in SteadyBytes
    BY MemoryIsSteady DEF Values
  <1>2. Len(array[d]) \in Nat
    BY LenProperties DEF IInv, TypeOK
  <1> QED BY <1>1, <1>2 DEF SteadyOperations, Fits

LEMMA DeleteIsEdit ==
  ASSUME IInv, NEW d \in Documents, NEW at \in DOMAIN array[d],
         NEW length \in 1 .. (Len(array[d]) + 1 - at)
  PROVE  LET edit == [at |-> at, length |-> length, bytes |-> <<>>]
         IN  edit \in SteadyOperations /\ Fits(edit, Len(array[d]))
  <1>1. Len(array[d]) \in Nat /\ DOMAIN array[d] = 1 .. Len(array[d])
    BY LenProperties DEF IInv, TypeOK
  <1> QED BY <1>1, EmptySeq DEF SteadyOperations, Fits

LEMMA PasteIsEdit ==
  ASSUME IInv, NEW d \in Documents, NEW at \in 1 .. (Len(array[d]) + 1)
  PROVE  LET edit == [at |-> at, length |-> 0, bytes |-> clip]
         IN  edit \in SteadyOperations /\ Fits(edit, Len(array[d]))
  <1>1. Len(array[d]) \in Nat
    BY LenProperties DEF IInv, TypeOK
  <1> QED BY <1>1 DEF IInv, Held, SteadyOperations, Fits

LEMMA CopyKeeps ==
  ASSUME "copy" \notin WhileSaving, IInv, NEW d \in Documents \ closed, Copy(d)
  PROVE  IInv'
  <1>1. TypeOK /\ Held /\ SavedText
    BY DEF IInv
  <1>2. /\ ~Locked(d) /\ UNCHANGED <<disk, saving, saves, closed, array, undo>>
        /\ events < MaxEvents /\ events' = events + 1
    BY DEF Copy, Event
  <1>3. PICK from \in DOMAIN array[d], to \in DOMAIN array[d] :
            from <= to /\ clip' = SubSeq(array[d], from, to)
    BY DEF Copy
  <1>4. array[d] \in Seq(SteadyBytes)
    BY <1>2, UnlockedIsSteady
  <1>5. clip' \in Seq(SteadyBytes)
    <2>1. /\ DOMAIN array[d] = 1 .. Len(array[d]) /\ Len(array[d]) \in Nat
          /\ \A i \in 1 .. Len(array[d]) : array[d][i] \in SteadyBytes
      BY <1>4, LenProperties, ElementOfSeq
    <2> QED BY <1>3, <2>1, SubSeqProperties
  <1>6. TypeOK'
    <2>1. events' \in 0 .. MaxEvents
      BY <1>1, <1>2, DocumentSaveAssumption DEF TypeOK
    <2> QED BY <1>1, <1>2, <1>5, <2>1, SteadyTypes DEF TypeOK, saving
  <1>7. Held'
    BY <1>1, <1>2, <1>5, SteadyKept DEF Held
  <1> QED BY <1>1, <1>2, <1>6, <1>7, SteadyKept DEF IInv

LEMMA LastAndFront ==
  ASSUME NEW S, NEW s \in Seq(S), s # <<>>
  PROVE  Last(s) \in S /\ Front(s) \in Seq(S)
  <1>1. /\ Len(s) \in Nat \ {0}
        /\ \A i \in 1 .. Len(s) : s[i] \in S
    BY EmptySeq, ElementOfSeq
  <1>2. \A i \in 1 .. (Len(s) - 1) : s[i] \in S
    BY <1>1
  <1> QED BY <1>1, <1>2, SubSeqProperties DEF Last, Front

LEMMA UndoKeeps ==
  ASSUME IInv, NEW d \in Documents \ closed, Undo(d)
  PROVE  IInv'
  <1>1. TypeOK /\ Held /\ SavedText
    BY DEF IInv
  <1>2. /\ UNCHANGED <<disk, saving, saves, closed, clip>>
        /\ events < MaxEvents /\ events' = events + 1
        /\ undo[d] # <<>> /\ undo' = [undo EXCEPT ![d] = Front(@)]
        /\ \/ UNCHANGED array
           \/ /\ ~Locked(d) /\ Fits(Last(undo[d]), Len(array[d]))
              /\ array' = [array EXCEPT ![d] = Replaced(@, Last(undo[d]))]
    BY DEF Undo, Event
  <1>3. Last(undo[d]) \in SteadyOperations /\ Front(undo[d]) \in Seq(SteadyOperations)
    BY <1>1, <1>2, LastAndFront DEF Held
  <1>4. Front(undo[d]) \in Seq(Operations)
    BY <1>3, SteadyTypes, SeqMonotonic
  <1>5. /\ array' \in [Documents -> Seq(Bytes)]
        /\ \A e \in Documents \ closed :
              array'[e] \in Seq(SteadyBytes \cup LooseBytes(e))
    <2>1. CASE UNCHANGED array
      BY <1>1, <2>1 DEF TypeOK, Held
    <2>2. CASE /\ ~Locked(d) /\ Fits(Last(undo[d]), Len(array[d]))
               /\ array' = [array EXCEPT ![d] = Replaced(@, Last(undo[d]))]
      <3>1. array[d] \in Seq(SteadyBytes)
        BY <2>2, UnlockedIsSteady
      <3>2. Replaced(array[d], Last(undo[d])) \in Seq(SteadyBytes)
        BY <1>3, <2>2, <3>1, ReplacedType DEF SteadyOperations
      <3>3. SteadyBytes \subseteq SteadyBytes \cup LooseBytes(d)
        OBVIOUS
      <3>4. Replaced(array[d], Last(undo[d])) \in Seq(SteadyBytes \cup LooseBytes(d))
        BY <3>2, <3>3, SeqMonotonic
      <3> QED BY <1>1, <2>2, <3>2, <3>4, SteadyTypes DEF TypeOK, Held
    <2> QED BY <1>2, <2>1, <2>2
  <1>6. TypeOK'
    <2>1. undo' \in [Documents -> Seq(Operations)] /\ events' \in 0 .. MaxEvents
      BY <1>1, <1>2, <1>4, DocumentSaveAssumption DEF TypeOK
    <2> QED BY <1>1, <1>2, <1>5, <2>1 DEF TypeOK, saving
  <1>7. Held'
    <2>1. \A e \in Documents \ closed : undo'[e] \in Seq(SteadyOperations)
      BY <1>1, <1>2, <1>3 DEF Held, TypeOK
    <2> QED BY <1>1, <1>2, <1>5, <2>1, SteadyKept DEF Held
  <1> QED BY <1>1, <1>2, <1>6, <1>7, SteadyKept DEF IInv

-----------------------------------------------------------------------------
(* Preparing a save *)

LEMMA ClearBytesStay ==
  ASSUME NEW d \in Documents, NEW ranges, NEW S, SteadyBytes \subseteq S
  PROVE  ClearBytes(S, d, ranges) \subseteq S
  BY DocumentSaveAssumption DEF ClearBytes, SteadyBytes, InFile

\* What remains of the byte arrays of documents: kinds and readings.
LEMMA ArraysCleared ==
  ASSUME IInv, NEW d \in Documents, NEW ranges,
         NEW handled \in SUBSET Others(d), NEW shut,
         Handled(d, ranges, handled, shut)
  PROVE  /\ closed \subseteq closed' /\ closed' \subseteq Documents
         /\ array' \in [Documents -> Seq(Bytes)]
         /\ \A e \in Documents \ closed' :
              /\ array'[e] \in Seq(SteadyBytes \cup LooseBytes(e))
              /\ e \in handled => array'[e] \in
                    Seq(ClearBytes(SteadyBytes \cup LooseBytes(e), d, ranges))
              /\ e \notin handled => array'[e] = array[e]
              /\ ReadsIn(disk, array'[e]) = ReadsIn(disk, array[e])
  <1>1. TypeOK /\ Held
    BY DEF IInv
  <1>2. /\ shut \subseteq handled
        /\ closed' = closed \cup shut
        /\ array' = [e \in Documents |->
                        IF e \in handled \ shut
                        THEN Cleared(array[e], d, ranges) ELSE array[e]]
    BY DEF Handled
  <1>3. closed \subseteq closed' /\ closed' \subseteq Documents
    BY <1>1, <1>2 DEF TypeOK, Others
  <1>4. disk \in Files
    BY <1>1 DEF TypeOK, Files
  <1>5. ASSUME NEW e \in handled \ shut
        PROVE  LET S == SteadyBytes \cup LooseBytes(e)
               IN  /\ Cleared(array[e], d, ranges) \in Seq(ClearBytes(S, d, ranges))
                   /\ Cleared(array[e], d, ranges) \in Seq(S)
                   /\ Cleared(array[e], d, ranges) \in Seq(Bytes)
                   /\ ReadsIn(disk, Cleared(array[e], d, ranges))
                            = ReadsIn(disk, array[e])
    <2> DEFINE S == SteadyBytes \cup LooseBytes(e)
    <2>1. S \subseteq Bytes
      BY DEF SteadyBytes, LooseBytes
    <2>2. SteadyBytes \subseteq S
      OBVIOUS
    <2>3. array[e] \in Seq(S)
      BY <1>1, <1>5 DEF Held, Others
    <2> HIDE DEF S
    <2>4. /\ Cleared(array[e], d, ranges) \in Seq(ClearBytes(S, d, ranges))
          /\ ReadsIn(disk, Cleared(array[e], d, ranges)) = ReadsIn(disk, array[e])
      BY <1>4, <2>1, <2>3, ClearedReads
    <2>5. ClearBytes(S, d, ranges) \subseteq S
      BY <2>2, ClearBytesStay
    <2>6. Cleared(array[e], d, ranges) \in Seq(S)
      BY <2>4, <2>5, SeqMonotonic
    <2>7. Cleared(array[e], d, ranges) \in Seq(Bytes)
      BY <2>1, <2>6, SeqMonotonic
    <2> QED BY <2>4, <2>6, <2>7 DEF S
  <1>6. array' \in [Documents -> Seq(Bytes)]
    BY <1>1, <1>2, <1>5 DEF TypeOK
  <1>7. ASSUME NEW e \in Documents \ closed'
        PROVE  /\ array'[e] \in Seq(SteadyBytes \cup LooseBytes(e))
               /\ e \in handled => array'[e] \in
                    Seq(ClearBytes(SteadyBytes \cup LooseBytes(e), d, ranges))
               /\ e \notin handled => array'[e] = array[e]
               /\ ReadsIn(disk, array'[e]) = ReadsIn(disk, array[e])
    <2>1. CASE e \in handled
      <3>1. e \in handled \ shut
        BY <1>2, <2>1
      <3>2. array'[e] = Cleared(array[e], d, ranges)
        BY <1>2, <3>1
      <3> QED BY <1>5, <2>1, <3>1, <3>2
    <2>2. CASE e \notin handled
      <3>1. array'[e] = array[e]
        BY <1>2, <2>2
      <3>2. array[e] \in Seq(SteadyBytes \cup LooseBytes(e))
        BY <1>1, <1>3 DEF Held
      <3> QED BY <2>2, <3>1, <3>2
    <2> QED BY <2>1, <2>2
  <1> QED BY <1>3, <1>6, <1>7

\* What remains of their histories.
ClearOperations(d, ranges) ==
    [at : Nat \ {0}, length : Nat,
     bytes : Seq(ClearBytes(SteadyBytes, d, ranges))]

LEMMA OperationsCleared ==
  ASSUME IInv, NEW d \in Documents, NEW ranges,
         NEW operations \in Seq(SteadyOperations)
  PROVE  LET new == ClearedOperations(operations, d, ranges)
         IN  /\ new \in Seq(ClearOperations(d, ranges))
             /\ DOMAIN new = DOMAIN operations
             /\ \A i \in DOMAIN operations :
                    ReadOperation(disk, new[i]) = ReadOperation(disk, operations[i])
  <1> DEFINE new == ClearedOperations(operations, d, ranges)
  <1>1. disk \in Files
    BY DEF IInv, TypeOK, Files
  <1>2. /\ Len(operations) \in Nat /\ DOMAIN operations = 1 .. Len(operations)
        /\ \A i \in 1 .. Len(operations) : operations[i] \in SteadyOperations
    BY LenProperties, ElementOfSeq
  <1>3. new = [i \in 1 .. Len(operations) |->
                [operations[i] EXCEPT !.bytes = Cleared(@, d, ranges)]]
    BY <1>2 DEF ClearedOperations
  <1>4. ASSUME NEW i \in 1 .. Len(operations)
        PROVE  /\ new[i] \in ClearOperations(d, ranges)
               /\ ReadOperation(disk, new[i]) = ReadOperation(disk, operations[i])
    <2> DEFINE o == operations[i]
    <2>1. o \in SteadyOperations /\ new[i] = [o EXCEPT !.bytes = Cleared(@, d, ranges)]
      BY <1>2, <1>3
    <2> HIDE DEF o, new
    <2>2. /\ o.bytes \in Seq(SteadyBytes) /\ o.at \in Nat \ {0} /\ o.length \in Nat
          /\ o = [at |-> o.at, length |-> o.length, bytes |-> o.bytes]
      BY <2>1 DEF SteadyOperations
    <2>3. /\ Cleared(o.bytes, d, ranges) \in Seq(ClearBytes(SteadyBytes, d, ranges))
          /\ ReadsIn(disk, Cleared(o.bytes, d, ranges)) = ReadsIn(disk, o.bytes)
      BY <1>1, <2>2, SteadyTypes, ClearedReads
    <2>4. new[i] = [at |-> o.at, length |-> o.length,
                    bytes |-> Cleared(o.bytes, d, ranges)]
      BY <2>1, <2>2
    <2> QED BY <2>2, <2>3, <2>4 DEF ClearOperations, ReadOperation, o
  <1>5. new \in Seq(ClearOperations(d, ranges))
    <2>1. new \in [1 .. Len(operations) -> ClearOperations(d, ranges)]
      BY <1>3, <1>4
    <2> HIDE DEF new
    <2> QED BY <1>2, <2>1, SeqDef
  <1>6. DOMAIN new = DOMAIN operations
    BY <1>2, <1>3
  <1> HIDE DEF new
  <1>7. \A i \in DOMAIN operations :
            ReadOperation(disk, new[i]) = ReadOperation(disk, operations[i])
    BY <1>2, <1>4
  <1> QED BY <1>5, <1>6, <1>7 DEF new

\* Histories as they read.
ReadOperations(files, operations) ==
    [i \in DOMAIN operations |-> ReadOperation(files, operations[i])]

LEMMA UndosCleared ==
  ASSUME IInv, NEW d \in Documents, NEW ranges,
         NEW listed \in SUBSET (Documents \ closed),
         UndoCleared(d, ranges, listed)
  PROVE  /\ undo' \in [Documents -> Seq(Operations)]
         /\ \A e \in Documents \ closed :
              /\ undo'[e] \in Seq(SteadyOperations)
              /\ e \in listed => undo'[e] \in Seq(ClearOperations(d, ranges))
              /\ \/ undo'[e] = <<>>
                 \/ ReadOperations(disk, undo'[e]) = ReadOperations(disk, undo[e])
  <1>1. TypeOK /\ Held
    BY DEF IInv
  <1>2. PICK dropped \in SUBSET listed :
            undo' = [e \in Documents |->
                        IF e \in dropped THEN <<>>
                        ELSE IF e \in listed
                        THEN ClearedOperations(undo[e], d, ranges)
                        ELSE undo[e]]
    BY DEF UndoCleared
  <1>3. ClearOperations(d, ranges) \subseteq SteadyOperations
    <2>1. ClearBytes(SteadyBytes, d, ranges) \subseteq SteadyBytes
      BY ClearBytesStay
    <2>2. \A s \in Seq(ClearBytes(SteadyBytes, d, ranges)) : s \in Seq(SteadyBytes)
      BY <2>1, SeqMonotonic
    <2> QED BY <2>2 DEF ClearOperations, SteadyOperations
  <1>4. ASSUME NEW e \in Documents \ closed
        PROVE  /\ undo'[e] \in Seq(SteadyOperations)
               /\ e \in listed => undo'[e] \in Seq(ClearOperations(d, ranges))
               /\ \/ undo'[e] = <<>>
                  \/ ReadOperations(disk, undo'[e]) = ReadOperations(disk, undo[e])
    <2>1. undo[e] \in Seq(SteadyOperations)
      BY <1>1 DEF Held
    <2>2. CASE e \in dropped
      <3>1. undo'[e] = <<>>
        BY <1>2, <2>2
      <3> QED BY <3>1, EmptySeq
    <2>3. CASE e \in listed \ dropped
      <3> DEFINE new == ClearedOperations(undo[e], d, ranges)
      <3>1. undo'[e] = new
        BY <1>2, <2>3
      <3>2. /\ new \in Seq(ClearOperations(d, ranges))
            /\ DOMAIN new = DOMAIN undo[e]
            /\ \A i \in DOMAIN undo[e] :
                  ReadOperation(disk, new[i]) = ReadOperation(disk, undo[e][i])
        BY <2>1, OperationsCleared
      <3> HIDE DEF new
      <3>3. new \in Seq(SteadyOperations)
        BY <1>3, <3>2, SeqMonotonic
      <3>4. ReadOperations(disk, new) = ReadOperations(disk, undo[e])
        BY <3>2 DEF ReadOperations
      <3> QED BY <3>1, <3>2, <3>3, <3>4
    <2>4. CASE e \notin listed
      <3>1. undo'[e] = undo[e]
        BY <1>2, <2>4
      <3> QED BY <2>1, <2>4, <3>1
    <2> QED BY <2>2, <2>3, <2>4
  <1>5. undo' \in [Documents -> Seq(Operations)]
    <2>1. \A e \in Documents \ closed : undo'[e] \in Seq(Operations)
      BY <1>4, SteadyTypes, SeqMonotonic
    <2>2. \A e \in closed : e \in Documents => undo'[e] = undo[e]
      BY <1>2
    <2>3. undo' = [e \in Documents |-> undo'[e]]
      BY <1>2
    <2> QED BY <1>1, <2>1, <2>2, <2>3 DEF TypeOK
  <1> QED BY <1>4, <1>5

LEMMA ClipCleared ==
  ASSUME IInv, NEW d \in Documents, NEW ranges, clip' \in ClearedClip(d, ranges)
  PROVE  /\ clip' \in Seq(ClearBytes(SteadyBytes, d, ranges))
         /\ clip' \in Seq(SteadyBytes)
         /\ clip' = <<>> \/ ReadsIn(disk, clip') = ReadsIn(disk, clip)
  <1>1. clip \in Seq(SteadyBytes) /\ disk \in Files
    BY DEF IInv, Held, TypeOK, Files
  <1>2. /\ Cleared(clip, d, ranges) \in Seq(ClearBytes(SteadyBytes, d, ranges))
        /\ ReadsIn(disk, Cleared(clip, d, ranges)) = ReadsIn(disk, clip)
    BY <1>1, SteadyTypes, ClearedReads
  <1>3. clip' = Cleared(clip, d, ranges) \/ clip' = <<>>
    BY DEF ClearedClip
  <1>4. clip' \in Seq(ClearBytes(SteadyBytes, d, ranges))
    BY <1>2, <1>3, EmptySeq
  <1>5. ClearBytes(SteadyBytes, d, ranges) \subseteq SteadyBytes
    BY ClearBytesStay
  <1> QED BY <1>2, <1>3, <1>4, <1>5, SeqMonotonic

\* What is steady once the ranges have been announced.
LEMMA SteadyWhenStarted ==
  ASSUME TypeOK, NEW d \in Documents, NEW ranges, phase[d] = "idle",
         phase' = [phase EXCEPT ![d] = "writing"],
         announced' = [announced EXCEPT ![d] = ranges],
         UNCHANGED <<disk, result>>
  PROVE  /\ ClearBytes(SteadyBytes, d, ranges) \subseteq SteadyBytes'
         /\ \A e \in Documents \ {d} :
                ClearBytes(SteadyBytes \cup LooseBytes(e), d, ranges)
                    \subseteq (SteadyBytes \cup LooseBytes(e))'
         /\ SteadyBytes \subseteq (SteadyBytes \cup LooseBytes(d))'
         /\ ranges = {} => /\ SteadyBytes \subseteq SteadyBytes'
                           /\ \A e \in Documents : LooseBytes(e) \subseteq LooseBytes(e)'
  <1>1. /\ \A b : InFile(b)' <=> InFile(b)
        /\ \A e \in Documents \ {d} :
              /\ phase'[e] = phase[e] /\ announced'[e] = announced[e]
              /\ result'[e] = result[e]
              /\ Locked(e)' <=> Locked(e)
        /\ Locked(d)' /\ ~Locked(d) /\ announced'[d] = ranges
    BY DEF TypeOK, InFile, Locked
  <1>2. \A b \in SteadyBytes : ~(b.file = d /\ b.at \in ranges) => b \in SteadyBytes'
    BY <1>1 DEF SteadyBytes
  <1>3. \A b \in Bytes : b.file = Memory => b \in SteadyBytes'
    BY DocumentSaveAssumption DEF SteadyBytes, InFile
  <1>4. \A e \in Documents \ {d} : LooseBytes(e) \subseteq LooseBytes(e)'
    BY <1>1 DEF LooseBytes
  <1>5. \A b \in SteadyBytes : b.file = d => b \in LooseBytes(d)'
    BY <1>1 DEF SteadyBytes, LooseBytes
  <1>6. LooseBytes(d) = {}
    BY <1>1 DEF LooseBytes
  <1> QED BY <1>2, <1>3, <1>4, <1>5, <1>6 DEF ClearBytes

\* Nothing but the announced positions differs from the text to be written.
LEMMA SavedTextStarted ==
  ASSUME IInv, NEW d \in Documents \ closed, phase[d] = "idle",
         NEW i \in (DOMAIN disk[d] \cup DOMAIN array[d])
                        \ rangesOfFileModifiedIfSavedToFile(d)
  PROVE  /\ i \in DOMAIN disk[d] /\ i \in DOMAIN Reads(array[d])
         /\ disk[d][i] = Reads(array[d])[i]
  <1>1. array[d] \in Seq(SteadyBytes)
    BY UnlockedIsSteady DEF Locked
  <1>2. /\ Len(array[d]) \in Nat /\ DOMAIN array[d] = 1 .. Len(array[d])
        /\ \A j \in 1 .. Len(array[d]) : array[d][j] \in SteadyBytes
    BY <1>1, LenProperties, ElementOfSeq
  <1>3. DOMAIN disk[d] = 1 .. Len(disk[d])
    BY LenProperties DEF IInv, TypeOK
  <1>4. i \in DOMAIN array[d]
    BY <1>2, <1>3 DEF rangesOfFileModifiedIfSavedToFile
  <1>5. array[d][i] = FileByte(d, i)
    BY <1>4 DEF rangesOfFileModifiedIfSavedToFile
  <1>6. array[d][i].file = d /\ array[d][i].at = i /\ d # Memory
    BY <1>5, DocumentSaveAssumption DEF FileByte
  <1>7. i \in DOMAIN disk[d]
    BY <1>2, <1>4, <1>6 DEF SteadyBytes, InFile
  <1> QED BY <1>4, <1>6, <1>7 DEF Reads, Read

\* What everybody holds after the preparation, before the announcement.
LEMMA StartSaveHolds ==
  ASSUME IInv, NEW d \in Documents \ closed, StartSave(d)
  PROVE  LET ranges == rangesOfFileModifiedIfSavedToFile(d)
         IN  /\ closed \subseteq closed' /\ closed' \subseteq Documents
             /\ array' \in [Documents -> Seq(Bytes)]
             /\ undo' \in [Documents -> Seq(Operations)]
             /\ array'[d] = array[d] /\ d \notin closed'
             /\ \A e \in Documents \ closed' :
                  /\ array'[e] \in Seq((SteadyBytes \cup LooseBytes(e))')
                  /\ undo'[e] \in Seq(SteadyOperations')
                  /\ ReadsIn(disk, array'[e]) = ReadsIn(disk, array[e])
                  /\ \/ undo'[e] = <<>>
                     \/ ReadOperations(disk, undo'[e]) = ReadOperations(disk, undo[e])
             /\ clip' \in Seq(SteadyBytes')
             /\ clip' = <<>> \/ ReadsIn(disk, clip') = ReadsIn(disk, clip)
  <1> DEFINE ranges == rangesOfFileModifiedIfSavedToFile(d)
  <1>1. TypeOK /\ Held
    BY DEF IInv
  <1>2. /\ phase[d] = "idle"
        /\ phase' = [phase EXCEPT ![d] = "writing"]
        /\ announced' = [announced EXCEPT ![d] = ranges]
        /\ UNCHANGED <<disk, result>>
        /\ \/ ranges = {} /\ UNCHANGED held
           \/ /\ ranges # {}
              /\ \E shut \in SUBSET Others(d) : Handled(d, ranges, Others(d), shut)
              /\ UndoCleared(d, ranges, Others(d) \cup {d})
              /\ clip' \in ClearedClip(d, ranges)
    BY DEF StartSave
  <1> HIDE DEF ranges
  <1>3. /\ ClearBytes(SteadyBytes, d, ranges) \subseteq SteadyBytes'
        /\ \A e \in Documents \ {d} :
              ClearBytes(SteadyBytes \cup LooseBytes(e), d, ranges)
                  \subseteq (SteadyBytes \cup LooseBytes(e))'
        /\ SteadyBytes \subseteq (SteadyBytes \cup LooseBytes(d))'
        /\ ranges = {} => /\ SteadyBytes \subseteq SteadyBytes'
                          /\ \A e \in Documents : LooseBytes(e) \subseteq LooseBytes(e)'
    BY <1>1, <1>2, SteadyWhenStarted
  <1>4. CASE ranges = {} /\ UNCHANGED held
    <2>1. SteadyOperations \subseteq SteadyOperations'
      <3>1. \A s \in Seq(SteadyBytes) : s \in Seq(SteadyBytes')
        BY <1>3, <1>4, SeqMonotonic
      <3> QED BY <3>1 DEF SteadyOperations
    <2>2. clip \in Seq(SteadyBytes')
      BY <1>1, <1>3, <1>4, SeqMonotonic DEF Held
    <2>3. ASSUME NEW e \in Documents \ closed
          PROVE  /\ array[e] \in Seq((SteadyBytes \cup LooseBytes(e))')
                 /\ undo[e] \in Seq(SteadyOperations')
      <3>1. SteadyBytes \cup LooseBytes(e) \subseteq (SteadyBytes \cup LooseBytes(e))'
        BY <1>3, <1>4
      <3>2. array[e] \in Seq((SteadyBytes \cup LooseBytes(e))')
        BY <1>1, <3>1, SeqMonotonic DEF Held
      <3>3. undo[e] \in Seq(SteadyOperations')
        BY <1>1, <2>1, SeqMonotonic DEF Held
      <3> QED BY <3>2, <3>3
    <2> QED BY <1>1, <1>4, <2>2, <2>3 DEF held, TypeOK, ranges
  <1>5. CASE /\ ranges # {}
             /\ \E shut \in SUBSET Others(d) : Handled(d, ranges, Others(d), shut)
             /\ UndoCleared(d, ranges, Others(d) \cup {d})
             /\ clip' \in ClearedClip(d, ranges)
    <2>1. PICK shut \in SUBSET Others(d) : Handled(d, ranges, Others(d), shut)
      BY <1>5
    <2>2. /\ closed \subseteq closed' /\ closed' \subseteq Documents
          /\ array' \in [Documents -> Seq(Bytes)]
          /\ \A e \in Documents \ closed' :
              /\ e \in Others(d) => array'[e] \in
                    Seq(ClearBytes(SteadyBytes \cup LooseBytes(e), d, ranges))
              /\ ReadsIn(disk, array'[e]) = ReadsIn(disk, array[e])
      BY <2>1, ArraysCleared
    <2>3. array'[d] = array[d] /\ d \notin closed'
      BY <2>1 DEF Handled, Others
    <2>4. Others(d) \cup {d} \in SUBSET (Documents \ closed)
      BY DEF Others
    <2>5. /\ undo' \in [Documents -> Seq(Operations)]
          /\ \A e \in Documents \ closed :
              /\ e \in Others(d) \cup {d}
                    => undo'[e] \in Seq(ClearOperations(d, ranges))
              /\ \/ undo'[e] = <<>>
                 \/ ReadOperations(disk, undo'[e]) = ReadOperations(disk, undo[e])
      BY <1>5, <2>4, UndosCleared
    <2>6. /\ clip' \in Seq(ClearBytes(SteadyBytes, d, ranges))
          /\ clip' = <<>> \/ ReadsIn(disk, clip') = ReadsIn(disk, clip)
      BY <1>5, ClipCleared
    <2>7. ClearOperations(d, ranges) \subseteq SteadyOperations'
      <3>1. \A s \in Seq(ClearBytes(SteadyBytes, d, ranges)) : s \in Seq(SteadyBytes')
        BY <1>3, SeqMonotonic
      <3> QED BY <3>1 DEF ClearOperations, SteadyOperations
    <2>8. clip' \in Seq(SteadyBytes')
      BY <1>3, <2>6, SeqMonotonic
    <2>9. ASSUME NEW e \in Documents \ closed'
          PROVE  /\ array'[e] \in Seq((SteadyBytes \cup LooseBytes(e))')
                 /\ undo'[e] \in Seq(SteadyOperations')
      <3>1. e \in Others(d) \cup {d} /\ e \in Documents \ closed
        BY <2>2 DEF Others
      <3>2. undo'[e] \in Seq(SteadyOperations')
        BY <2>5, <2>7, <3>1, SeqMonotonic
      <3>3. CASE e = d
        <4>1. array[d] \in Seq(SteadyBytes)
          BY <1>2, UnlockedIsSteady DEF Locked
        <4>2. array[d] \in Seq((SteadyBytes \cup LooseBytes(d))')
          BY <1>3, <4>1, SeqMonotonic
        <4> QED BY <2>3, <3>2, <3>3, <4>2
      <3>4. CASE e # d
        <4>1. array'[e] \in Seq(ClearBytes(SteadyBytes \cup LooseBytes(e), d, ranges))
          BY <2>2, <3>1, <3>4
        <4>2. ClearBytes(SteadyBytes \cup LooseBytes(e), d, ranges)
                \subseteq (SteadyBytes \cup LooseBytes(e))'
          BY <1>3, <3>4
        <4>3. array'[e] \in Seq((SteadyBytes \cup LooseBytes(e))')
          BY <4>1, <4>2, SeqMonotonic
        <4> QED BY <3>2, <4>3
      <3> QED BY <3>3, <3>4
    <2>10. \A e \in Documents \ closed' : e \in Documents \ closed
      BY <2>2
    <2> QED BY <2>2, <2>3, <2>5, <2>6, <2>8, <2>9, <2>10 DEF ranges
  <1> QED BY <1>2, <1>4, <1>5

LEMMA StartSaveKeeps ==
  ASSUME IInv, NEW d \in Documents \ closed, StartSave(d)
  PROVE  IInv'
  <1> DEFINE ranges == rangesOfFileModifiedIfSavedToFile(d)
  <1>1. TypeOK /\ Held /\ SavedText
    BY DEF IInv
  <1>2. /\ phase[d] = "idle" /\ saves < MaxSaves /\ saves' = saves + 1
        /\ phase' = [phase EXCEPT ![d] = "writing"]
        /\ announced' = [announced EXCEPT ![d] = ranges]
        /\ goal' = [goal EXCEPT ![d] = Reads(array[d])]
        /\ nested' = Append(nested, d)
        /\ UNCHANGED <<disk, result, spoilt, events>>
    BY DEF StartSave
  <1>3. /\ closed' \subseteq Documents
        /\ array' \in [Documents -> Seq(Bytes)]
        /\ undo' \in [Documents -> Seq(Operations)]
        /\ \A e \in Documents \ closed' :
              /\ array'[e] \in Seq((SteadyBytes \cup LooseBytes(e))')
              /\ undo'[e] \in Seq(SteadyOperations')
        /\ clip' \in Seq(SteadyBytes')
    BY StartSaveHolds
  <1>4. ranges \in SUBSET (Nat \ {0})
    <2>1. DOMAIN array[d] = 1 .. Len(array[d]) /\ DOMAIN disk[d] = 1 .. Len(disk[d])
      BY <1>1, LenProperties DEF TypeOK
    <2> QED BY <2>1 DEF rangesOfFileModifiedIfSavedToFile
  <1>5. Reads(array[d]) \in Seq(Values) /\ DOMAIN Reads(array[d]) = DOMAIN array[d]
    BY <1>1, ReadsAreIn, ReadsInType DEF TypeOK, Files
  <1>6. \A i \in (DOMAIN disk[d] \cup DOMAIN array[d]) \ ranges :
            /\ i \in DOMAIN disk[d] /\ i \in DOMAIN Reads(array[d])
            /\ disk[d][i] = Reads(array[d])[i]
    BY <1>2, SavedTextStarted
  <1> HIDE DEF ranges
  <1>7. TypeOK'
    <2>1. clip' \in Seq(Bytes)
      <3>1. SteadyBytes' \subseteq Bytes
        BY DEF SteadyBytes, Bytes, Values
      <3> QED BY <1>3, <3>1, SeqMonotonic
    <2>2. /\ phase' \in [Documents -> {"idle", "writing", "written", "stuck"}]
          /\ announced' \in [Documents -> SUBSET (Nat \ {0})]
          /\ goal' \in [Documents -> Seq(Values)]
      BY <1>1, <1>2, <1>4, <1>5 DEF TypeOK
    <2>3. nested' \in Seq(Documents)
      BY <1>1, <1>2, AppendProperties DEF TypeOK
    <2>4. saves' \in 0 .. MaxSaves
      BY <1>1, <1>2, DocumentSaveAssumption DEF TypeOK
    <2> QED BY <1>1, <1>2, <1>3, <2>1, <2>2, <2>3, <2>4 DEF TypeOK, Bytes, Operations, Values
  <1>8. Held'
    BY <1>3 DEF Held
  <1>9. SavedText'
    <2> SUFFICES ASSUME NEW e \in Documents, Locked(e)'
                 PROVE  /\ \A i \in (DOMAIN disk[e] \cup DOMAIN goal'[e]) \ announced'[e] :
                              /\ i \in DOMAIN disk[e] /\ i \in DOMAIN goal'[e]
                              /\ disk[e][i] = goal'[e][i]
                        /\ phase'[e] = "written" /\ result[e] = "success"
                              => disk[e] = goal'[e]
      BY <1>2 DEF SavedText
    <2>1. CASE e = d
      <3>1. goal'[d] = Reads(array[d]) /\ announced'[d] = ranges /\ phase'[d] = "writing"
        BY <1>1, <1>2 DEF TypeOK
      <3> QED BY <1>5, <1>6, <2>1, <3>1
    <2>2. CASE e # d
      <3>1. /\ goal'[e] = goal[e] /\ announced'[e] = announced[e]
            /\ phase'[e] = phase[e]
        BY <1>1, <1>2, <2>2 DEF TypeOK
      <3>2. Locked(e)
        BY <3>1 DEF Locked
      <3> QED BY <1>1, <3>1, <3>2 DEF SavedText
    <2> QED BY <2>1, <2>2
  <1> QED BY <1>7, <1>8, <1>9 DEF IInv

\* A preparation that is interrupted, too, leaves everybody steady bytes.
LEMMA InterruptedHolds ==
  ASSUME IInv, NEW d \in Documents \ closed, NEW e, Interrupted(d, e),
         phase' = phase \/ phase' = [phase EXCEPT ![d] = "stuck"]
  PROVE  /\ UNCHANGED <<disk, announced, goal, result, nested, spoilt, events>>
         /\ closed \subseteq closed' /\ closed' \subseteq Documents
         /\ array' \in [Documents -> Seq(Bytes)]
         /\ undo' \in [Documents -> Seq(Operations)]
         /\ \A f \in Documents \ closed' :
              /\ array'[f] \in Seq(SteadyBytes \cup LooseBytes(f))
              /\ undo'[f] \in Seq(SteadyOperations)
              /\ ReadsIn(disk, array'[f]) = ReadsIn(disk, array[f])
              /\ \/ undo'[f] = <<>>
                 \/ ReadOperations(disk, undo'[f]) = ReadOperations(disk, undo[f])
         /\ clip' \in Seq(SteadyBytes)
         /\ clip' = <<>> \/ ReadsIn(disk, clip') = ReadsIn(disk, clip)
         /\ saves' \in 0 .. MaxSaves
         /\ \A f \in Documents : Locked(f)' <=> Locked(f)
         /\ SteadyBytes' = SteadyBytes
         /\ \A f \in Documents : LooseBytes(f)' = LooseBytes(f)
  <1> DEFINE ranges == rangesOfFileModifiedIfSavedToFile(d)
  <1>1. TypeOK /\ Held
    BY DEF IInv
  <1>2. /\ phase[d] = "idle" /\ saves < MaxSaves /\ saves' = saves + 1
        /\ UNCHANGED <<disk, announced, goal, result, nested, spoilt, events>>
        /\ clip' \in ClearedClip(d, ranges) \cup {clip}
    BY DEF Interrupted
  <1>3. PICK handled \in SUBSET (Others(d) \ {e}) :
            /\ \E shut \in SUBSET handled : Handled(d, ranges, handled, shut)
            /\ UndoCleared(d, ranges, handled)
    BY DEF Interrupted
  <1> HIDE DEF ranges
  <1>4. PICK shut : Handled(d, ranges, handled, shut)
    BY <1>3
  <1>5. handled \in SUBSET Others(d) /\ handled \in SUBSET (Documents \ closed)
    BY <1>3 DEF Others
  <1>6. /\ closed \subseteq closed' /\ closed' \subseteq Documents
        /\ array' \in [Documents -> Seq(Bytes)]
        /\ \A f \in Documents \ closed' :
              /\ array'[f] \in Seq(SteadyBytes \cup LooseBytes(f))
              /\ ReadsIn(disk, array'[f]) = ReadsIn(disk, array[f])
    BY <1>4, <1>5, ArraysCleared
  <1>7. /\ undo' \in [Documents -> Seq(Operations)]
        /\ \A f \in Documents \ closed :
              /\ undo'[f] \in Seq(SteadyOperations)
              /\ \/ undo'[f] = <<>>
                 \/ ReadOperations(disk, undo'[f]) = ReadOperations(disk, undo[f])
    BY <1>3, <1>5, UndosCleared
  <1>8. /\ clip' \in Seq(SteadyBytes)
        /\ clip' = <<>> \/ ReadsIn(disk, clip') = ReadsIn(disk, clip)
    <2>1. CASE clip' = clip
      BY <1>1, <2>1 DEF Held
    <2>2. CASE clip' \in ClearedClip(d, ranges)
      BY <2>2, ClipCleared
    <2> QED BY <1>2, <2>1, <2>2
  <1>9. saves' \in 0 .. MaxSaves
    BY <1>1, <1>2, DocumentSaveAssumption DEF TypeOK
  <1>10. \A f \in Documents : /\ Locked(f)' <=> Locked(f)
                              /\ phase'[f] = "written" <=> phase[f] = "written"
    BY <1>1, <1>2 DEF TypeOK, Locked
  <1>11. SteadyBytes' = SteadyBytes
    BY <1>2, <1>10 DEF SteadyBytes, InFile
  <1>12. \A f \in Documents : LooseBytes(f)' = LooseBytes(f)
    BY <1>2, <1>10 DEF LooseBytes, InFile
  <1>13. \A f \in Documents \ closed' : f \in Documents \ closed
    BY <1>6
  <1> QED BY <1>2, <1>6, <1>7, <1>8, <1>9, <1>10, <1>11, <1>12, <1>13

LEMMA InterruptedKeeps ==
  ASSUME IInv, NEW d \in Documents \ closed, NEW e, Interrupted(d, e),
         phase' = phase \/ phase' = [phase EXCEPT ![d] = "stuck"]
  PROVE  IInv'
  <1>1. TypeOK /\ Held /\ SavedText
    BY DEF IInv
  <1>2. /\ UNCHANGED <<disk, announced, goal, result, nested, spoilt, events>>
        /\ closed' \subseteq Documents
        /\ array' \in [Documents -> Seq(Bytes)]
        /\ undo' \in [Documents -> Seq(Operations)]
        /\ \A f \in Documents \ closed' :
              /\ array'[f] \in Seq(SteadyBytes \cup LooseBytes(f))
              /\ undo'[f] \in Seq(SteadyOperations)
        /\ clip' \in Seq(SteadyBytes)
        /\ saves' \in 0 .. MaxSaves
        /\ \A f \in Documents : Locked(f)' <=> Locked(f)
        /\ SteadyBytes' = SteadyBytes
        /\ \A f \in Documents : LooseBytes(f)' = LooseBytes(f)
    BY InterruptedHolds
  <1>3. phase' \in [Documents -> {"idle", "writing", "written", "stuck"}]
    BY <1>1 DEF TypeOK
  <1>4. TypeOK'
    <2>1. clip' \in Seq(Bytes)
      BY <1>2, SteadyTypes
    <2> QED BY <1>1, <1>2, <1>3, <2>1 DEF TypeOK
  <1>5. Held'
    <2>1. SteadyOperations' = SteadyOperations
      BY <1>2 DEF SteadyOperations
    <2> QED BY <1>2, <2>1 DEF Held
  <1>6. SavedText'
    <2> SUFFICES ASSUME NEW f \in Documents, Locked(f)'
                 PROVE  /\ \A i \in (DOMAIN disk[f] \cup DOMAIN goal[f]) \ announced[f] :
                              /\ i \in DOMAIN disk[f] /\ i \in DOMAIN goal[f]
                              /\ disk[f][i] = goal[f][i]
                        /\ phase'[f] = "written" /\ result[f] = "success"
                              => disk[f] = goal[f]
      BY <1>2 DEF SavedText
    <2>1. Locked(f) /\ (phase'[f] = "written" => phase[f] = "written")
      BY <1>1, <1>2 DEF TypeOK, Locked
    <2> QED BY <1>1, <2>1 DEF SavedText
  <1> QED BY <1>4, <1>5, <1>6 DEF IInv

-----------------------------------------------------------------------------
(* Steps of a save *)

\* A save has changed the file only where that was announced.  All files are
\* at least as long as before.
LEMMA WriteChanges ==
  ASSUME IInv, NEW d \in Documents, Write(d)
  PROVE  /\ disk' \in Files
         /\ \A e \in Documents \ {d} : disk'[e] = disk[e]
         /\ DOMAIN disk[d] \subseteq DOMAIN disk'[d]
         /\ DOMAIN disk'[d] \subseteq DOMAIN disk[d] \cup DOMAIN goal[d]
         /\ \A i \in DOMAIN disk[d] \ announced[d] : disk'[d][i] = disk[d][i]
  <1>1. TypeOK /\ SavedText
    BY DEF IInv
  <1>2. PICK torn \in SUBSET announced[d], length \in {Len(disk[d]), Len(goal[d])} :
          /\ length >= Len(disk[d])
          /\ disk' = [disk EXCEPT ![d] =
                        [i \in 1 .. length |->
                            IF i \in torn \/ i \notin DOMAIN @
                            THEN Torn ELSE @[i]]]
    BY DEF Write
  <1>3. /\ disk[d] \in Seq(Values) /\ goal[d] \in Seq(Values)
        /\ Len(disk[d]) \in Nat /\ DOMAIN disk[d] = 1 .. Len(disk[d])
        /\ Len(goal[d]) \in Nat /\ DOMAIN goal[d] = 1 .. Len(goal[d])
        /\ \A i \in 1 .. Len(disk[d]) : disk[d][i] \in Values
    BY <1>1, LenProperties, ElementOfSeq DEF TypeOK
  <1> DEFINE new == [i \in 1 .. length |->
                        IF i \in torn \/ i \notin DOMAIN disk[d]
                        THEN Torn ELSE disk[d][i]]
  <1>4. disk' = [disk EXCEPT ![d] = new]
    BY <1>2
  <1>5. /\ length \in Nat /\ DOMAIN new = 1 .. length
        /\ \A i \in 1 .. length : new[i] \in Values
        /\ \A i \in DOMAIN disk[d] \ announced[d] : new[i] = disk[d][i]
    BY <1>2, <1>3 DEF Values
  <1>6. new \in Seq(Values)
    <2>1. new \in [1 .. length -> Values]
      BY <1>5
    <2> HIDE DEF new
    <2> QED BY <1>5, <2>1, SeqDef
  <1> HIDE DEF new
  <1>7. disk' \in Files /\ disk'[d] = new /\ \A e \in Documents \ {d} : disk'[e] = disk[e]
    BY <1>1, <1>4, <1>6 DEF TypeOK, Files
  <1> QED BY <1>2, <1>3, <1>5, <1>7

\* Bytes stay steady while files grow.
LEMMA WriteKeeps ==
  ASSUME IInv, NEW d \in Documents, Write(d)
  PROVE  IInv'
  <1>1. TypeOK /\ Held /\ SavedText
    BY DEF IInv
  <1>2. phase[d] = "writing" /\ UNCHANGED <<held, saving, events, saves>>
    BY DEF Write
  <1>3. /\ disk' \in Files
        /\ \A e \in Documents \ {d} : disk'[e] = disk[e]
        /\ DOMAIN disk[d] \subseteq DOMAIN disk'[d]
        /\ DOMAIN disk'[d] \subseteq DOMAIN disk[d] \cup DOMAIN goal[d]
        /\ \A i \in DOMAIN disk[d] \ announced[d] : disk'[d][i] = disk[d][i]
    BY WriteChanges
  <1>4. \A b : InFile(b) => InFile(b)'
    BY <1>3 DEF InFile
  <1>5. SteadyBytes \subseteq SteadyBytes' /\ \A e : LooseBytes(e) \subseteq LooseBytes(e)'
    BY <1>2, <1>4 DEF SteadyBytes, LooseBytes, Locked, saving
  <1>6. TypeOK'
    BY <1>1, <1>2, <1>3 DEF TypeOK, held, saving, Files
  <1>7. Held'
    <2>1. SteadyOperations \subseteq SteadyOperations'
      <3>1. \A s \in Seq(SteadyBytes) : s \in Seq(SteadyBytes')
        BY <1>5, SeqMonotonic
      <3> QED BY <3>1 DEF SteadyOperations
    <2>2. clip \in Seq(SteadyBytes')
      BY <1>1, <1>5, SeqMonotonic DEF Held
    <2>3. ASSUME NEW e \in Documents \ closed
          PROVE  /\ array[e] \in Seq((SteadyBytes \cup LooseBytes(e))')
                 /\ undo[e] \in Seq(SteadyOperations')
      <3>1. SteadyBytes \cup LooseBytes(e) \subseteq (SteadyBytes \cup LooseBytes(e))'
        BY <1>5
      <3>2. array[e] \in Seq((SteadyBytes \cup LooseBytes(e))')
        BY <1>1, <3>1, SeqMonotonic DEF Held
      <3>3. undo[e] \in Seq(SteadyOperations')
        BY <1>1, <2>1, SeqMonotonic DEF Held
      <3> QED BY <3>2, <3>3
    <2> QED BY <1>2, <2>2, <2>3 DEF Held, held
  <1>8. SavedText'
    <2> SUFFICES ASSUME NEW e \in Documents, Locked(e)
                 PROVE  /\ \A i \in (DOMAIN disk'[e] \cup DOMAIN goal[e]) \ announced[e] :
                              /\ i \in DOMAIN disk'[e] /\ i \in DOMAIN goal[e]
                              /\ disk'[e][i] = goal[e][i]
                        /\ phase[e] = "written" /\ result[e] = "success"
                              => disk'[e] = goal[e]
      BY <1>2 DEF SavedText, Locked, saving
    <2>1. CASE e # d
      BY <1>1, <1>3, <2>1 DEF SavedText
    <2>2. CASE e = d
      <3>1. \A i \in (DOMAIN disk[d] \cup DOMAIN goal[d]) \ announced[d] :
              /\ i \in DOMAIN disk[d] /\ i \in DOMAIN goal[d]
              /\ disk[d][i] = goal[d][i]
        BY <1>1, <2>2 DEF SavedText
      <3> QED BY <1>2, <1>3, <2>2, <3>1
    <2> QED BY <2>1, <2>2
  <1> QED BY <1>6, <1>7, <1>8 DEF IInv

\* The end of the writing changes what is not announced no more than before.
LEMMA WriteEndsChanges ==
  ASSUME IInv, NEW d \in Documents, WriteEnds(d)
  PROVE  /\ phase[d] = "writing"
         /\ phase' = [phase EXCEPT ![d] = "written"]
         /\ disk' \in Files
         /\ \A e \in Documents \ {d} : disk'[e] = disk[e] /\ result'[e] = result[e]
         /\ \/ disk'[d] = disk[d] /\ result'[d] \in {"error", "cancelled"}
            \/ disk'[d] = goal[d] /\ result'[d] \in {"success", "cancelled"}
         /\ \A i \in DOMAIN disk[d] \ announced[d] :
                i \in DOMAIN disk'[d] /\ disk'[d][i] = disk[d][i]
         /\ result' \in [Documents -> {"none", "success", "error", "cancelled"}]
         /\ UNCHANGED <<held, announced, goal, nested, spoilt, events, saves>>
  <1>1. TypeOK /\ SavedText
    BY DEF IInv
  <1>2. /\ phase[d] = "writing"
        /\ phase' = [phase EXCEPT ![d] = "written"]
        /\ UNCHANGED <<held, announced, goal, nested, spoilt, events, saves>>
    BY DEF WriteEnds
  <1>3. PICK r \in {"success", "error", "cancelled"} :
            /\ result' = [result EXCEPT ![d] = r]
            /\ \/ r # "error" /\ disk' = [disk EXCEPT ![d] = goal[d]]
               \/ r # "success" /\ UNCHANGED disk
    BY DEF WriteEnds
  <1>4. /\ disk' \in Files
        /\ result' \in [Documents -> {"none", "success", "error", "cancelled"}]
    BY <1>1, <1>3 DEF TypeOK, Files
  <1>5. /\ \A e \in Documents \ {d} : disk'[e] = disk[e] /\ result'[e] = result[e]
        /\ \/ disk'[d] = disk[d] /\ result'[d] \in {"error", "cancelled"}
           \/ disk'[d] = goal[d] /\ result'[d] \in {"success", "cancelled"}
    BY <1>1, <1>3 DEF TypeOK
  <1>6. \A i \in DOMAIN disk[d] \ announced[d] :
            i \in DOMAIN goal[d] /\ disk[d][i] = goal[d][i]
    BY <1>1, <1>2 DEF SavedText, Locked
  <1> QED BY <1>2, <1>4, <1>5, <1>6

LEMMA WriteEndsKeeps ==
  ASSUME IInv, NEW d \in Documents, WriteEnds(d)
  PROVE  IInv'
  <1>1. TypeOK /\ Held /\ SavedText
    BY DEF IInv
  <1>2. /\ phase[d] = "writing"
        /\ phase' = [phase EXCEPT ![d] = "written"]
        /\ disk' \in Files
        /\ \A e \in Documents \ {d} : disk'[e] = disk[e] /\ result'[e] = result[e]
        /\ \/ disk'[d] = disk[d] /\ result'[d] \in {"error", "cancelled"}
           \/ disk'[d] = goal[d] /\ result'[d] \in {"success", "cancelled"}
        /\ \A i \in DOMAIN disk[d] \ announced[d] :
                i \in DOMAIN disk'[d] /\ disk'[d][i] = disk[d][i]
        /\ result' \in [Documents -> {"none", "success", "error", "cancelled"}]
        /\ UNCHANGED <<held, announced, goal, nested, spoilt, events, saves>>
    BY WriteEndsChanges
  <1>3. /\ phase' \in [Documents -> {"idle", "writing", "written", "stuck"}]
        /\ phase'[d] = "written"
        /\ \A e \in Documents \ {d} : phase'[e] = phase[e]
        /\ \A e \in Documents : Locked(e)' <=> Locked(e)
    BY <1>1, <1>2 DEF TypeOK, Locked
  <1>4. TypeOK'
    BY <1>1, <1>2, <1>3 DEF TypeOK, held, Files
  <1>5. SteadyBytes \subseteq SteadyBytes'
    <2> SUFFICES ASSUME NEW b \in SteadyBytes PROVE b \in SteadyBytes'
      OBVIOUS
    <2>1. b \in Bytes /\ InFile(b)
          /\ (b.file \in Documents /\ Locked(b.file) => b.at \notin announced[b.file])
      BY DEF SteadyBytes
    <2>2. InFile(b)'
      BY <1>2, <2>1, <1>3 DEF InFile, Locked
    <2> QED BY <1>2, <1>3, <2>1, <2>2 DEF SteadyBytes, Bytes, Values
  <1>6. \A e \in Documents : LooseBytes(e) \subseteq LooseBytes(e)'
    <2> SUFFICES ASSUME NEW e \in Documents, NEW b \in LooseBytes(e)
                 PROVE  b \in LooseBytes(e)'
      OBVIOUS
    <2>1. /\ b \in Bytes /\ Locked(e) /\ b.file = e
          /\ InFile(b) \/ (phase[e] = "written" /\ result[e] # "error")
      BY DEF LooseBytes
    <2>2. InFile(b)' \/ (phase'[e] = "written" /\ result'[e] # "error")
      BY <1>2, <1>3, <2>1 DEF InFile
    <2> QED BY <1>3, <2>1, <2>2 DEF LooseBytes, Bytes, Values
  <1>7. Held'
    <2>1. SteadyOperations \subseteq SteadyOperations'
      <3>1. \A s \in Seq(SteadyBytes) : s \in Seq(SteadyBytes')
        BY <1>5, SeqMonotonic
      <3> QED BY <3>1 DEF SteadyOperations
    <2>2. clip \in Seq(SteadyBytes')
      BY <1>1, <1>5, SeqMonotonic DEF Held
    <2>3. ASSUME NEW e \in Documents \ closed
          PROVE  /\ array[e] \in Seq((SteadyBytes \cup LooseBytes(e))')
                 /\ undo[e] \in Seq(SteadyOperations')
      <3>1. SteadyBytes \cup LooseBytes(e) \subseteq (SteadyBytes \cup LooseBytes(e))'
        BY <1>5, <1>6
      <3>2. array[e] \in Seq((SteadyBytes \cup LooseBytes(e))')
        BY <1>1, <3>1, SeqMonotonic DEF Held
      <3>3. undo[e] \in Seq(SteadyOperations')
        BY <1>1, <2>1, SeqMonotonic DEF Held
      <3> QED BY <3>2, <3>3
    <2> QED BY <1>2, <2>2, <2>3 DEF Held, held
  <1>8. SavedText'
    <2> SUFFICES ASSUME NEW e \in Documents, Locked(e)
                 PROVE  /\ \A i \in (DOMAIN disk'[e] \cup DOMAIN goal[e]) \ announced[e] :
                              /\ i \in DOMAIN disk'[e] /\ i \in DOMAIN goal[e]
                              /\ disk'[e][i] = goal[e][i]
                        /\ phase'[e] = "written" /\ result'[e] = "success"
                              => disk'[e] = goal[e]
      BY <1>2, <1>3 DEF SavedText
    <2>1. CASE e # d
      BY <1>1, <1>2, <1>3, <2>1 DEF SavedText
    <2>2. CASE e = d
      <3>1. \A i \in (DOMAIN disk[d] \cup DOMAIN goal[d]) \ announced[d] :
              /\ i \in DOMAIN disk[d] /\ i \in DOMAIN goal[d]
              /\ disk[d][i] = goal[d][i]
        BY <1>1, <2>2 DEF SavedText
      <3> QED BY <1>2, <2>2, <3>1
    <2> QED BY <2>1, <2>2
  <1> QED BY <1>4, <1>7, <1>8 DEF IInv

LEMMA EndSaveKeeps ==
  ASSUME IInv, NEW d \in Documents, EndSave(d)
  PROVE  IInv'
  <1>1. TypeOK /\ Held /\ SavedText
    BY DEF IInv
  <1>2. /\ phase[d] = "written"
        /\ array' = IF result[d] = "error" THEN array
                    ELSE [array EXCEPT ![d] = WholeFile(d, Len(disk[d]))]
        /\ phase' = [phase EXCEPT ![d] = "idle"]
        /\ announced' = [announced EXCEPT ![d] = {}]
        /\ goal' = [goal EXCEPT ![d] = <<>>]
        /\ result' = [result EXCEPT ![d] = "none"]
        /\ nested' = Front(nested)
        /\ spoilt' = IF result[d] = "success" THEN spoilt ELSE spoilt \cup {d}
        /\ UNCHANGED <<closed, undo, clip, disk, events, saves>>
    BY DEF EndSave
  <1>3. /\ ~Locked(d)' /\ Locked(d)
        /\ \A e \in Documents \ {d} :
              /\ phase'[e] = phase[e] /\ announced'[e] = announced[e]
              /\ goal'[e] = goal[e] /\ result'[e] = result[e]
              /\ Locked(e)' <=> Locked(e)
    BY <1>1, <1>2 DEF TypeOK, Locked
  <1>4. \A b : InFile(b)' <=> InFile(b)
    BY <1>2 DEF InFile
  <1>5. SteadyBytes \subseteq SteadyBytes'
    BY <1>3, <1>4 DEF SteadyBytes
  <1>6. \A e \in Documents \ {d} : LooseBytes(e) \subseteq LooseBytes(e)'
    BY <1>3, <1>4 DEF LooseBytes
  <1>7. ASSUME result[d] = "error" PROVE LooseBytes(d) \subseteq SteadyBytes'
    BY <1>3, <1>4, <1>7 DEF LooseBytes, SteadyBytes
  <1>8. WholeFile(d, Len(disk[d])) \in Seq(SteadyBytes')
    <2>1. Len(disk[d]) \in Nat /\ DOMAIN disk[d] = 1 .. Len(disk[d])
      BY <1>1, LenProperties DEF TypeOK
    <2>2. \A i \in 1 .. Len(disk[d]) : FileByte(d, i) \in SteadyBytes'
      <3> TAKE i \in 1 .. Len(disk[d])
      <3>1. FileByte(d, i) \in Bytes /\ FileByte(d, i).file = d /\ FileByte(d, i).at = i
        BY <2>1 DEF FileByte, Bytes, Values
      <3>2. InFile(FileByte(d, i))'
        BY <1>2, <2>1, <3>1 DEF InFile
      <3> QED BY <1>3, <3>1, <3>2 DEF SteadyBytes
    <2>3. WholeFile(d, Len(disk[d])) \in [1 .. Len(disk[d]) -> SteadyBytes']
      BY <2>2 DEF WholeFile
    <2> QED BY <2>1, <2>3, SeqDef
  <1>9. SteadyBytes' \subseteq Bytes
    BY DEF SteadyBytes, Bytes, Values
  <1>10. WholeFile(d, Len(disk[d])) \in Seq(Bytes)
    BY <1>8, <1>9, SeqMonotonic
  <1>11. nested' \in Seq(Documents)
    <2>1. nested \in Seq(Documents)
      BY <1>1 DEF TypeOK
    <2>2. CASE nested = <<>>
      BY <1>2, <2>2, EmptySeq, SubSeqProperties DEF Front
    <2>3. CASE nested # <<>>
      BY <1>2, <2>1, <2>3, LastAndFront
    <2> QED BY <2>2, <2>3
  <1>12. TypeOK'
    <2>1. array' \in [Documents -> Seq(Bytes)]
      BY <1>1, <1>2, <1>10 DEF TypeOK
    <2>2. /\ phase' \in [Documents -> {"idle", "writing", "written", "stuck"}]
          /\ announced' \in [Documents -> SUBSET (Nat \ {0})]
          /\ goal' \in [Documents -> Seq(Values)]
          /\ result' \in [Documents -> {"none", "success", "error", "cancelled"}]
      BY <1>1, <1>2, EmptySeq DEF TypeOK
    <2> QED BY <1>1, <1>2, <1>11, <2>1, <2>2 DEF TypeOK
  <1>13. Held'
    <2>1. SteadyOperations \subseteq SteadyOperations'
      <3>1. \A s \in Seq(SteadyBytes) : s \in Seq(SteadyBytes')
        BY <1>5, SeqMonotonic
      <3> QED BY <3>1 DEF SteadyOperations
    <2>2. clip \in Seq(SteadyBytes')
      BY <1>1, <1>5, SeqMonotonic DEF Held
    <2>3. ASSUME NEW e \in Documents \ closed
          PROVE  array'[e] \in Seq((SteadyBytes \cup LooseBytes(e))')
      <3>1. array[e] \in Seq(SteadyBytes \cup LooseBytes(e))
        BY <1>1 DEF Held
      <3>2. SteadyBytes' \subseteq (SteadyBytes \cup LooseBytes(e))'
        OBVIOUS
      <3>3. CASE e = d /\ result[d] # "error"
        <4>1. array'[e] = WholeFile(d, Len(disk[d]))
          BY <1>1, <1>2, <3>3 DEF TypeOK
        <4> QED BY <1>8, <3>2, <4>1, SeqMonotonic
      <3>4. CASE ~(e = d /\ result[d] # "error")
        <4>1. array'[e] = array[e]
          BY <1>1, <1>2, <3>4 DEF TypeOK
        <4>2. SteadyBytes \cup LooseBytes(e) \subseteq (SteadyBytes \cup LooseBytes(e))'
          BY <1>5, <1>6, <1>7, <3>2, <3>4
        <4> QED BY <3>1, <4>1, <4>2, SeqMonotonic
      <3> QED BY <3>3, <3>4
    <2>4. ASSUME NEW e \in Documents \ closed
          PROVE  undo[e] \in Seq(SteadyOperations')
      BY <1>1, <2>1, SeqMonotonic DEF Held
    <2> QED BY <1>2, <2>2, <2>3, <2>4 DEF Held
  <1>14. SavedText'
    BY <1>1, <1>2, <1>3 DEF SavedText
  <1> QED BY <1>12, <1>13, <1>14 DEF IInv

-----------------------------------------------------------------------------
(* The invariant *)

LEMMA InitIInv == Init => IInv
  <1> SUFFICES ASSUME Init PROVE IInv
    OBVIOUS
  <1>1. /\ closed = {}
        /\ array = [d \in Documents |-> WholeFile(d, FileLength[d])]
        /\ undo = [d \in Documents |-> <<>>]
        /\ clip = <<>>
        /\ disk = [d \in Documents |-> [i \in 1 .. FileLength[d] |-> <<d, i>>]]
        /\ phase = [d \in Documents |-> "idle"]
        /\ announced = [d \in Documents |-> {}]
        /\ goal = [d \in Documents |-> <<>>]
        /\ result = [d \in Documents |-> "none"]
        /\ nested = <<>> /\ spoilt = {}
        /\ events = 0 /\ saves = 0
    BY DEF Init
  <1>2. \A d \in Documents : ~Locked(d)
    BY <1>1 DEF Locked
  <1>3. ASSUME NEW d \in Documents
        PROVE  /\ array[d] \in Seq(SteadyBytes) /\ disk[d] \in Seq(Values)
    <2>1. /\ FileLength[d] \in Nat
          /\ disk[d] = [i \in 1 .. FileLength[d] |-> <<d, i>>]
          /\ array[d] = [i \in 1 .. FileLength[d] |-> FileByte(d, i)]
      BY <1>1, DocumentSaveAssumption DEF WholeFile
    <2>2. \A i \in 1 .. FileLength[d] : FileByte(d, i) \in SteadyBytes
      <3> TAKE i \in 1 .. FileLength[d]
      <3>1. FileByte(d, i) \in Bytes /\ FileByte(d, i).file = d /\ FileByte(d, i).at = i
        BY <2>1 DEF FileByte, Bytes, Values
      <3>2. i \in DOMAIN disk[d]
        BY <2>1
      <3>3. InFile(FileByte(d, i))
        BY <3>1, <3>2 DEF InFile
      <3>4. \A b \in Bytes : InFile(b) /\ ~Locked(b.file) => b \in SteadyBytes
        BY DEF SteadyBytes
      <3>5. ~Locked(FileByte(d, i).file)
        BY <1>2, <3>1
      <3> QED BY <3>1, <3>3, <3>4, <3>5
    <2>3. /\ array[d] \in [1 .. FileLength[d] -> SteadyBytes]
          /\ disk[d] \in [1 .. FileLength[d] -> Values]
      BY <2>1, <2>2 DEF Values
    <2> QED BY <2>1, <2>3, SeqDef, SMTT(60)
  <1>4. TypeOK
    <2>1. \A d \in Documents : array[d] \in Seq(Bytes)
      BY <1>3, SteadyTypes
    <2>2. array \in [Documents -> Seq(Bytes)]
      BY <1>1, <2>1
    <2>3. disk \in [Documents -> Seq(Values)]
      BY <1>1, <1>3
    <2> QED BY <1>1, <2>2, <2>3, EmptySeq, DocumentSaveAssumption DEF TypeOK
  <1>5. Held
    <2>1. ASSUME NEW d \in Documents
          PROVE  array[d] \in Seq(SteadyBytes \cup LooseBytes(d))
      <3>1. SteadyBytes \subseteq SteadyBytes \cup LooseBytes(d)
        OBVIOUS
      <3> QED BY <1>3, <3>1, SeqMonotonic
    <2> QED BY <1>1, <2>1, EmptySeq DEF Held
  <1>6. SavedText
    BY <1>2 DEF SavedText
  <1> QED BY <1>4, <1>5, <1>6 DEF IInv

LEMMA StutterIInv == ASSUME IInv, UNCHANGED vars PROVE IInv'
  <1>1. UNCHANGED <<disk, saving>> /\ UNCHANGED <<held, events, saves>>
    BY DEF vars
  <1>2. TypeOK' /\ Held'
    BY <1>1, SteadyKept DEF IInv, TypeOK, Held, held, saving
  <1> QED BY <1>1, <1>2, SteadyKept DEF IInv

LEMMA NextIInv ==
  ASSUME "copy" \notin WhileSaving, IInv, [Next]_vars
  PROVE  IInv'
  <1>1. ASSUME NEW d \in Documents \ closed, Type(d) PROVE IInv'
    <2>1. PICK at \in 1 .. (Len(array[d]) + 1) :
            Edit(d, [at |-> at, length |-> 0, bytes |-> <<MemoryByte(Typed)>>])
      BY <1>1 DEF Type
    <2> QED BY <2>1, TypeIsEdit, EditKeeps
  <1>2. ASSUME NEW d \in Documents \ closed, Delete(d) PROVE IInv'
    <2>1. PICK at \in DOMAIN array[d] :
            \E length \in 1 .. (Len(array[d]) + 1 - at) :
                Edit(d, [at |-> at, length |-> length, bytes |-> <<>>])
      BY <1>2 DEF Delete
    <2>2. PICK length \in 1 .. (Len(array[d]) + 1 - at) :
            Edit(d, [at |-> at, length |-> length, bytes |-> <<>>])
      BY <2>1
    <2> QED BY <2>2, DeleteIsEdit, EditKeeps
  <1>3. ASSUME NEW d \in Documents \ closed, Paste(d) PROVE IInv'
    <2>1. PICK at \in 1 .. (Len(array[d]) + 1) :
            Edit(d, [at |-> at, length |-> 0, bytes |-> clip])
      BY <1>3 DEF Paste
    <2> QED BY <2>1, PasteIsEdit, EditKeeps
  <1>4. ASSUME NEW d \in Documents \ closed, Copy(d) PROVE IInv'
    BY <1>4, CopyKeeps
  <1>5. ASSUME NEW d \in Documents \ closed, Undo(d) PROVE IInv'
    BY <1>5, UndoKeeps
  <1>6. ASSUME NEW d \in Documents \ closed, StartSave(d) PROVE IInv'
    BY <1>6, StartSaveKeeps
  <1>7. ASSUME NEW d \in Documents \ closed, SaveRefused(d) PROVE IInv'
    BY <1>7, InterruptedKeeps DEF SaveRefused
  <1>8. ASSUME NEW d \in Documents \ closed, SaveRaises(d) PROVE IInv'
    BY <1>8, InterruptedKeeps DEF SaveRaises
  <1>9. ASSUME NEW d \in Documents, Write(d) PROVE IInv'
    BY <1>9, WriteKeeps
  <1>10. ASSUME NEW d \in Documents, WriteEnds(d) PROVE IInv'
    BY <1>10, WriteEndsKeeps
  <1>11. ASSUME NEW d \in Documents, EndSave(d) PROVE IInv'
    BY <1>11, EndSaveKeeps
  <1>12. CASE UNCHANGED vars
    BY <1>12, StutterIInv
  <1> QED BY <1>1, <1>2, <1>3, <1>4, <1>5, <1>6, <1>7, <1>8, <1>9, <1>10,
             <1>11, <1>12 DEF Next, UserStep

LEMMA IInvImplies == IInv => NobodyReadsWhatChanges
  <1> SUFFICES ASSUME IInv, NEW d \in Documents, Locked(d)
               PROVE  /\ \A e \in Documents \ (closed \cup {d}) :
                            ~DependsOn(array[e], d, announced[d])
                      /\ \A e \in Documents \ closed : \A i \in DOMAIN undo[e] :
                            ~DependsOn(undo[e][i].bytes, d, announced[d])
                      /\ ~DependsOn(clip, d, announced[d])
    BY DEF NobodyReadsWhatChanges
  <1>1. Held
    BY DEF IInv
  <1>2. \A b \in SteadyBytes : b.file = d => b.at \notin announced[d]
    BY DEF SteadyBytes
  <1>3. ASSUME NEW s \in Seq(SteadyBytes) PROVE ~DependsOn(s, d, announced[d])
    BY <1>2, LenProperties, ElementOfSeq DEF DependsOn
  <1>4. ASSUME NEW e \in Documents \ (closed \cup {d})
        PROVE  ~DependsOn(array[e], d, announced[d])
    <2>1. array[e] \in Seq(SteadyBytes \cup LooseBytes(e))
      BY <1>1 DEF Held
    <2>2. \A b \in LooseBytes(e) : b.file # d
      BY DEF LooseBytes
    <2> QED BY <1>2, <2>1, <2>2, LenProperties, ElementOfSeq DEF DependsOn
  <1>5. ASSUME NEW e \in Documents \ closed, NEW i \in DOMAIN undo[e]
        PROVE  ~DependsOn(undo[e][i].bytes, d, announced[d])
    <2>1. undo[e][i] \in SteadyOperations
      BY <1>1, LenProperties, ElementOfSeq DEF Held
    <2> QED BY <1>3, <2>1 DEF SteadyOperations
  <1>6. ~DependsOn(clip, d, announced[d])
    BY <1>1, <1>3 DEF Held
  <1> QED BY <1>4, <1>5, <1>6

LEMMA IInvAlways == "copy" \notin WhileSaving => (Spec => []IInv)
  <1> SUFFICES ASSUME "copy" \notin WhileSaving PROVE Spec => []IInv
    OBVIOUS
  <1>1. Init => IInv
    BY InitIInv
  <1>2. IInv /\ [Next]_vars => IInv'
    BY NextIInv
  <1> QED BY <1>1, <1>2, PTL DEF Spec

\* The variables keep their types, if nobody copies from a document that is
\* being saved.
THEOREM TypesHold == "copy" \notin WhileSaving => (Spec => []TypeOK)
  <1> SUFFICES ASSUME "copy" \notin WhileSaving PROVE Spec => []TypeOK
    OBVIOUS
  <1>1. IInv => TypeOK
    BY DEF IInv
  <1> QED BY <1>1, IInvAlways, PTL

\* What prepareForChangeInFile: has cleared stays clear while
\* writeSafelyToURL: runs its event loop, whatever is typed, deleted, pasted,
\* undone or saved in it, if nobody copies from a document that is being
\* saved.
THEOREM WhatChangesIsNotRead ==
    "copy" \notin WhileSaving => (Spec => []NobodyReadsWhatChanges)
  <1> SUFFICES ASSUME "copy" \notin WhileSaving
               PROVE  Spec => []NobodyReadsWhatChanges
    OBVIOUS
  <1> QED BY IInvImplies, IInvAlways, PTL

-----------------------------------------------------------------------------
(* The refinement: what the variables of OwnTexts stand for *)

LEMMA Stands ==
  /\ \A d : Text(d) = IF d \in closed THEN <<>>
                      ELSE IF Locked(d) THEN goal[d] ELSE ReadsIn(disk, array[d])
  /\ \A d : Past(d) = IF d \in closed THEN <<>> ELSE ReadOperations(disk, undo[d])
  /\ Reads(clip) = ReadsIn(disk, clip)
  BY DEF Text, Past, Reads, Read, ReadsIn, ReadIn, ReadOperations, ReadOperation

LEMMA StandsNext ==
  /\ \A d : Text(d)' = IF d \in closed' THEN <<>>
                       ELSE IF Locked(d)' THEN goal'[d]
                       ELSE ReadsIn(disk', array'[d])
  /\ \A d : Past(d)' = IF d \in closed' THEN <<>> ELSE ReadOperations(disk', undo'[d])
  /\ Reads(clip)' = ReadsIn(disk', clip')
  BY DEF Text, Past, Reads, Read, ReadsIn, ReadIn, ReadOperations, ReadOperation

\* Histories, as they read, grow and shrink at the end.
LEMMA ReadOperationsAppend ==
  ASSUME NEW files, NEW operations \in Seq(Operations), NEW o \in Operations
  PROVE  ReadOperations(files, Append(operations, o))
            = Append(ReadOperations(files, operations), ReadOperation(files, o))
  <1> DEFINE n == Len(operations)
             S == {ReadOperation(files, x) : x \in Operations}
  <1>1. n \in Nat /\ DOMAIN operations = 1 .. n /\ \A i \in 1 .. n : operations[i] \in Operations
    BY LenProperties, ElementOfSeq
  <1>2. ReadOperations(files, operations) = [i \in 1 .. n |-> ReadOperation(files, operations[i])]
    BY <1>1 DEF ReadOperations
  <1>3. ReadOperations(files, operations) \in Seq(S)
        /\ Len(ReadOperations(files, operations)) = n
    <2>1. ReadOperations(files, operations) \in [1 .. n -> S]
      BY <1>1, <1>2
    <2> HIDE DEF S, n
    <2>2. ReadOperations(files, operations) \in Seq(S)
      BY <1>1, <2>1, SeqDef
    <2> QED BY <1>1, <2>1, <2>2, LenProperties
  <1>4. /\ Append(operations, o) \in Seq(Operations)
        /\ DOMAIN Append(operations, o) = 1 .. (n + 1)
        /\ \A i \in 1 .. n : Append(operations, o)[i] = operations[i]
        /\ Append(operations, o)[n + 1] = o
    BY <1>1, AppendProperties, LenProperties
  <1>5. ReadOperation(files, o) \in S
    OBVIOUS
  <1> DEFINE read == ReadOperations(files, operations)  r == ReadOperation(files, o)
  <1> HIDE DEF S, n, read, r
  <1>6. /\ Append(read, r) \in Seq(S) /\ Len(Append(read, r)) = n + 1
        /\ \A i \in 1 .. n : Append(read, r)[i] = read[i]
        /\ Append(read, r)[n + 1] = r
    BY <1>3, <1>5, AppendProperties DEF read, r
  <1>7. DOMAIN Append(read, r) = 1 .. (n + 1)
    BY <1>6, LenProperties
  <1>8. \A i \in 1 .. (n + 1) : ReadOperation(files, Append(operations, o)[i]) = Append(read, r)[i]
    <2> TAKE i \in 1 .. (n + 1)
    <2>1. CASE i \in 1 .. n
      <3>1. read[i] = ReadOperation(files, operations[i])
        BY <1>2, <2>1 DEF read
      <3> QED BY <1>4, <1>6, <2>1, <3>1
    <2>2. CASE i = n + 1
      BY <1>4, <1>6, <2>2 DEF r
    <2>3. n \in Nat
      BY <1>1
    <2>4. i \in 1 .. n \/ i = n + 1
      BY <2>3
    <2> QED BY <2>1, <2>2, <2>4
  <1>9. Append(read, r) = [i \in 1 .. (n + 1) |-> Append(read, r)[i]]
    <2>1. Append(read, r) \in [1 .. (n + 1) -> S]
      BY <1>6, LenProperties
    <2> QED BY <2>1
  <1>10. ReadOperations(files, Append(operations, o)) = Append(read, r)
    BY <1>4, <1>8, <1>9 DEF ReadOperations
  <1> QED BY <1>10 DEF read, r

LEMMA ReadOperationsFront ==
  ASSUME NEW files, NEW operations \in Seq(Operations), operations # <<>>
  PROVE  /\ ReadOperations(files, operations) # <<>>
         /\ Own!Last(ReadOperations(files, operations))
                = ReadOperation(files, Last(operations))
         /\ Own!Front(ReadOperations(files, operations))
                = ReadOperations(files, Front(operations))
  <1> DEFINE n == Len(operations)
             S == {ReadOperation(files, x) : x \in Operations}
             read == ReadOperations(files, operations)
  <1>1. /\ n \in Nat \ {0} /\ DOMAIN operations = 1 .. n
        /\ \A i \in 1 .. n : operations[i] \in Operations
    BY EmptySeq, LenProperties, ElementOfSeq
  <1>2. read = [i \in 1 .. n |-> ReadOperation(files, operations[i])]
    BY <1>1 DEF ReadOperations
  <1>3. \A i \in 1 .. n : ReadOperation(files, operations[i]) \in S
    BY <1>1
  <1> HIDE DEF S, read, n
  <1>4. read \in [1 .. n -> S]
    BY <1>2, <1>3
  <1>5. read \in Seq(S) /\ Len(read) = n
    BY <1>1, <1>4, SeqDef, LenProperties
  <1>6. \A i \in 1 .. (n - 1) : operations[i] \in Operations /\ read[i] \in S
    BY <1>1, <1>4
  <1>7. /\ SubSeq(operations, 1, n - 1) \in Seq(Operations)
        /\ Len(SubSeq(operations, 1, n - 1)) = n - 1
        /\ \A i \in 1 .. (n - 1) : SubSeq(operations, 1, n - 1)[i] = operations[i]
    BY <1>1, <1>6, SubSeqProperties DEF n
  <1>8. /\ SubSeq(read, 1, n - 1) \in Seq(S)
        /\ Len(SubSeq(read, 1, n - 1)) = n - 1
        /\ \A i \in 1 .. (n - 1) : SubSeq(read, 1, n - 1)[i] = read[i]
    BY <1>1, <1>5, <1>6, SubSeqProperties
  <1>9. DOMAIN SubSeq(operations, 1, n - 1) = 1 .. (n - 1)
    BY <1>7, LenProperties
  <1>10. SubSeq(read, 1, n - 1) = [i \in 1 .. (n - 1) |-> read[i]]
    <2>1. SubSeq(read, 1, n - 1) \in [1 .. (n - 1) -> S]
      BY <1>8, LenProperties
    <2> QED BY <1>8, <2>1
  <1>11. \A i \in 1 .. (n - 1) : read[i] = ReadOperation(files, operations[i])
    BY <1>1, <1>2
  <1>12. ReadOperations(files, SubSeq(operations, 1, n - 1)) = SubSeq(read, 1, n - 1)
    BY <1>7, <1>9, <1>10, <1>11 DEF ReadOperations
  <1>13. read # <<>>
    BY <1>1, <1>5, EmptySeq
  <1>14. read[n] = ReadOperation(files, operations[n])
    BY <1>1, <1>2
  <1> QED BY <1>5, <1>12, <1>13, <1>14 DEF Own!Last, Own!Front, Last, Front, read, n

\* Steady bytes read the same whatever a save does to its file.
LEMMA SteadyReads ==
  ASSUME IInv, NEW d \in Documents, Locked(d),
         \A e \in Documents \ {d} : disk'[e] = disk[e],
         \A i \in DOMAIN disk[d] \ announced[d] :
                i \in DOMAIN disk'[d] /\ disk'[d][i] = disk[d][i],
         NEW s \in Seq(SteadyBytes)
  PROVE  ReadsIn(disk', s) = ReadsIn(disk, s)
  <1>1. ASSUME NEW i \in DOMAIN s PROVE ReadIn(disk', s[i]) = ReadIn(disk, s[i])
    <2>1. s[i] \in SteadyBytes
      BY LenProperties, ElementOfSeq
    <2>2. CASE s[i].file = Memory
      BY <2>2 DEF ReadIn
    <2>3. CASE s[i].file \in Documents \ {d}
      BY <2>3 DEF ReadIn
    <2>4. CASE s[i].file = d
      <3>1. s[i].at \in DOMAIN disk[d] \ announced[d]
        BY <2>1, <2>4 DEF SteadyBytes, InFile
      <3> QED BY <2>4, <3>1 DEF ReadIn
    <2> QED BY <2>1, <2>2, <2>3, <2>4 DEF SteadyBytes, Bytes
  <1> QED BY <1>1 DEF ReadsIn

\* So the writing changes nothing of what the variables stand for.
LEMMA WritingIsStutter ==
  ASSUME IInv, NEW d \in Documents, Locked(d),
         \A e \in Documents \ {d} : disk'[e] = disk[e],
         \A i \in DOMAIN disk[d] \ announced[d] :
                i \in DOMAIN disk'[d] /\ disk'[d][i] = disk[d][i],
         \A e \in Documents : Locked(e)' <=> Locked(e),
         UNCHANGED <<held, goal, spoilt>>
  PROVE  UNCHANGED Own!vars
  <1>1. Held
    BY DEF IInv
  <1>2. ASSUME NEW e \in Documents PROVE Text(e)' = Text(e)
    <2>1. CASE e \in closed \/ Locked(e)
      BY <2>1, Stands, StandsNext DEF held
    <2>2. CASE ~(e \in closed \/ Locked(e))
      <3>1. ReadsIn(disk', array[e]) = ReadsIn(disk, array[e])
        BY <2>2, UnlockedIsSteady, SteadyReads
      <3> QED BY <2>2, <3>1, Stands, StandsNext DEF held
    <2> QED BY <2>1, <2>2
  <1>3. ASSUME NEW e \in Documents PROVE Past(e)' = Past(e)
    <2>1. CASE e \in closed
      BY <2>1, Stands, StandsNext DEF held
    <2>2. CASE e \notin closed
      <3>1. ASSUME NEW i \in DOMAIN undo[e]
            PROVE  ReadOperation(disk', undo[e][i]) = ReadOperation(disk, undo[e][i])
        <4>1. undo[e][i] \in SteadyOperations
          BY <1>1, <2>2, LenProperties, ElementOfSeq DEF Held
        <4>2. ReadsIn(disk', undo[e][i].bytes) = ReadsIn(disk, undo[e][i].bytes)
          BY <4>1, SteadyReads DEF SteadyOperations
        <4> QED BY <4>2 DEF ReadOperation
      <3>2. ReadOperations(disk', undo[e]) = ReadOperations(disk, undo[e])
        BY <3>1 DEF ReadOperations
      <3> QED BY <2>2, <3>2, Stands, StandsNext DEF held
    <2> QED BY <2>1, <2>2
  <1>4. Reads(clip)' = Reads(clip)
    <2>1. ReadsIn(disk', clip) = ReadsIn(disk, clip)
      BY <1>1, SteadyReads DEF Held
    <2> QED BY <2>1, Stands, StandsNext DEF held
  <1>5. /\ [e \in Documents |-> Text(e)]' = [e \in Documents |-> Text(e)]
        /\ [e \in Documents |-> Past(e)]' = [e \in Documents |-> Past(e)]
    BY <1>2, <1>3
  <1> QED BY <1>4, <1>5 DEF Own!vars, held

LEMMA WriteIsStutter ==
  ASSUME IInv, NEW d \in Documents, Write(d) PROVE UNCHANGED Own!vars
  <1>1. phase[d] = "writing" /\ UNCHANGED <<held, saving, events, saves>>
    BY DEF Write
  <1>2. Locked(d) /\ \A e \in Documents : Locked(e)' <=> Locked(e)
    BY <1>1 DEF Locked, saving
  <1>3. UNCHANGED <<held, goal, spoilt>>
    BY <1>1 DEF saving
  <1>4. /\ \A e \in Documents \ {d} : disk'[e] = disk[e]
        /\ \A i \in DOMAIN disk[d] \ announced[d] :
                i \in DOMAIN disk'[d] /\ disk'[d][i] = disk[d][i]
    BY WriteChanges
  <1> QED BY <1>2, <1>3, <1>4, WritingIsStutter

LEMMA WriteEndsIsStutter ==
  ASSUME IInv, NEW d \in Documents, WriteEnds(d) PROVE UNCHANGED Own!vars
  <1>1. /\ phase[d] = "writing"
        /\ phase' = [phase EXCEPT ![d] = "written"]
        /\ \A e \in Documents \ {d} : disk'[e] = disk[e]
        /\ \A i \in DOMAIN disk[d] \ announced[d] :
                i \in DOMAIN disk'[d] /\ disk'[d][i] = disk[d][i]
        /\ UNCHANGED <<held, goal, spoilt>>
    BY WriteEndsChanges
  <1>2. Locked(d) /\ \A e \in Documents : Locked(e)' <=> Locked(e)
    BY <1>1 DEF Locked, IInv, TypeOK
  <1> QED BY <1>1, <1>2, WritingIsStutter

\* The document stands for what has been written, when that has succeeded.
LEMMA EndSaveIsSpoil ==
  ASSUME IInv, NEW d \in Documents, EndSave(d)
  PROVE  Own!Spoil(d) \/ UNCHANGED Own!vars
  <1>1. TypeOK /\ Held /\ SavedText
    BY DEF IInv
  <1>2. /\ phase[d] = "written"
        /\ array' = IF result[d] = "error" THEN array
                    ELSE [array EXCEPT ![d] = WholeFile(d, Len(disk[d]))]
        /\ phase' = [phase EXCEPT ![d] = "idle"]
        /\ goal' = [goal EXCEPT ![d] = <<>>]
        /\ spoilt' = IF result[d] = "success" THEN spoilt ELSE spoilt \cup {d}
        /\ UNCHANGED <<closed, undo, clip, disk>>
    BY DEF EndSave
  <1>3. /\ Locked(d) /\ ~Locked(d)'
        /\ \A e \in Documents \ {d} :
              /\ goal'[e] = goal[e] /\ array'[e] = array[e]
              /\ Locked(e)' <=> Locked(e)
    BY <1>1, <1>2 DEF TypeOK, Locked
  <1>4. \A e \in Documents : e # d \/ e \in closed => Text(e)' = Text(e)
    BY <1>2, <1>3, Stands, StandsNext
  <1>5. \A e \in Documents : Past(e)' = Past(e)
    BY <1>2, Stands, StandsNext
  <1>6. Reads(clip)' = Reads(clip)
    BY <1>2, Stands, StandsNext
  <1>7. [e \in Documents |-> Past(e)]' = [e \in Documents |-> Past(e)]
    BY <1>5
  <1>8. CASE result[d] = "success"
    <2>1. Text(d)' = Text(d)
      <3>1. CASE d \in closed
        BY <1>4, <3>1
      <3>2. CASE d \notin closed
        <4>1. disk[d] = goal[d]
          BY <1>1, <1>2, <1>3, <1>8 DEF SavedText
        <4>2. array'[d] = WholeFile(d, Len(disk[d]))
          BY <1>1, <1>2, <1>8 DEF TypeOK
        <4>3. /\ Len(disk[d]) \in Nat /\ DOMAIN disk[d] = 1 .. Len(disk[d])
              /\ disk[d] = [i \in 1 .. Len(disk[d]) |-> disk[d][i]]
          BY <1>1, LenProperties DEF TypeOK
        <4>4. \A i \in 1 .. Len(disk[d]) : ReadIn(disk, FileByte(d, i)) = disk[d][i]
          BY <4>3, DocumentSaveAssumption DEF ReadIn, FileByte
        <4>5. ReadsIn(disk, WholeFile(d, Len(disk[d]))) = disk[d]
          BY <4>3, <4>4 DEF ReadsIn, WholeFile
        <4> QED BY <1>2, <1>3, <3>2, <4>1, <4>2, <4>5, Stands, StandsNext
      <3> QED BY <3>1, <3>2
    <2>2. [e \in Documents |-> Text(e)]' = [e \in Documents |-> Text(e)]
      BY <1>4, <2>1
    <2> QED BY <1>2, <1>6, <1>7, <1>8, <2>2 DEF Own!vars
  <1>9. CASE result[d] # "success"
    <2>1. closed \subseteq Documents
      BY <1>1 DEF TypeOK
    <2>2. \A e \in (Documents \ {d}) \cup closed :
              [f \in Documents |-> Text(f)]'[e] = [f \in Documents |-> Text(f)][e]
      BY <1>4, <2>1
    <2> QED BY <1>2, <1>6, <1>7, <1>9, <2>2 DEF Own!Spoil
  <1> QED BY <1>8, <1>9

\* A preparation makes others forget.
LEMMA PreparingIsForget ==
  ASSUME IInv, closed \subseteq closed', UNCHANGED <<disk, spoilt>>,
         \A e \in Documents \ closed' :
            /\ Text(e)' = Text(e)
            /\ \/ undo'[e] = <<>>
               \/ ReadOperations(disk, undo'[e]) = ReadOperations(disk, undo[e]),
         clip' = <<>> \/ ReadsIn(disk, clip') = ReadsIn(disk, clip)
  PROVE  Own!Forget
  <1>1. Reads(clip)' \in {Reads(clip), <<>>}
    <2>1. ReadsIn(disk, <<>>) = <<>>
      BY DEF ReadsIn
    <2> QED BY <2>1, Stands, StandsNext
  <1>2. \A e \in Documents : Text(e)' = IF e \in closed' THEN <<>> ELSE Text(e)
    BY StandsNext
  <1>3. ASSUME NEW e \in Documents
        PROVE  \/ Past(e)' = <<>>
               \/ Past(e)' = Past(e) /\ e \notin closed'
    <2>1. CASE e \in closed'
      BY <2>1, StandsNext
    <2>2. CASE e \notin closed'
      <3>1. ReadOperations(disk, <<>>) = <<>>
        BY DEF ReadOperations
      <3>2. e \notin closed
        BY <2>2
      <3>3. \/ ReadOperations(disk, undo'[e]) = <<>>
            \/ ReadOperations(disk, undo'[e]) = ReadOperations(disk, undo[e])
        BY <2>2, <3>1
      <3>4. Past(e)' = ReadOperations(disk, undo'[e]) /\ Past(e) = ReadOperations(disk, undo[e])
        BY <2>2, <3>2, Stands, StandsNext
      <3> QED BY <2>2, <3>3, <3>4
    <2> QED BY <2>1, <2>2
  <1>4. \A e \in Documents :
          /\ [f \in Documents |-> Text(f)]'[e]
                = IF e \in closed' THEN <<>> ELSE [f \in Documents |-> Text(f)][e]
          /\ \/ [f \in Documents |-> Past(f)]'[e] = <<>>
             \/ /\ [f \in Documents |-> Past(f)]'[e] = [f \in Documents |-> Past(f)][e]
                /\ e \notin closed'
    BY <1>2, <1>3
  <1> QED BY <1>1, <1>4 DEF Own!Forget

LEMMA StartSaveIsForget ==
  ASSUME IInv, NEW d \in Documents \ closed, StartSave(d) PROVE Own!Forget
  <1>1. /\ phase[d] = "idle" /\ phase' = [phase EXCEPT ![d] = "writing"]
        /\ goal' = [goal EXCEPT ![d] = Reads(array[d])]
        /\ UNCHANGED <<disk, spoilt>>
    BY DEF StartSave
  <1>2. /\ closed \subseteq closed'
        /\ array'[d] = array[d]
        /\ \A e \in Documents \ closed' :
              /\ ReadsIn(disk, array'[e]) = ReadsIn(disk, array[e])
              /\ \/ undo'[e] = <<>>
                 \/ ReadOperations(disk, undo'[e]) = ReadOperations(disk, undo[e])
        /\ clip' = <<>> \/ ReadsIn(disk, clip') = ReadsIn(disk, clip)
    BY StartSaveHolds
  <1>3. /\ ~Locked(d) /\ Locked(d)' /\ goal'[d] = ReadsIn(disk, array[d])
        /\ \A e \in Documents \ {d} : /\ Locked(e)' <=> Locked(e)
                                      /\ goal'[e] = goal[e]
    BY <1>1, ReadsAreIn DEF IInv, TypeOK, Locked
  <1>4. ASSUME NEW e \in Documents \ closed' PROVE Text(e)' = Text(e)
    <2>1. e \notin closed
      BY <1>2
    <2>2. CASE e = d
      BY <1>3, <2>1, <2>2, Stands, StandsNext
    <2>3. CASE e # d
      <3>1. ReadsIn(disk', array'[e]) = ReadsIn(disk, array[e])
        BY <1>1, <1>2
      <3> QED BY <1>3, <2>1, <2>3, <3>1, Stands, StandsNext
    <2> QED BY <2>2, <2>3
  <1> QED BY <1>1, <1>2, <1>4, PreparingIsForget

LEMMA InterruptedIsForget ==
  ASSUME IInv, NEW d \in Documents \ closed, NEW e, Interrupted(d, e),
         phase' = phase \/ phase' = [phase EXCEPT ![d] = "stuck"]
  PROVE  Own!Forget
  <1>1. /\ UNCHANGED <<disk, goal, spoilt>>
        /\ closed \subseteq closed'
        /\ \A f \in Documents \ closed' :
              /\ ReadsIn(disk, array'[f]) = ReadsIn(disk, array[f])
              /\ \/ undo'[f] = <<>>
                 \/ ReadOperations(disk, undo'[f]) = ReadOperations(disk, undo[f])
        /\ clip' = <<>> \/ ReadsIn(disk, clip') = ReadsIn(disk, clip)
        /\ \A f \in Documents : Locked(f)' <=> Locked(f)
    BY InterruptedHolds
  <1>2. ASSUME NEW f \in Documents \ closed' PROVE Text(f)' = Text(f)
    <2>1. f \notin closed /\ ReadsIn(disk', array'[f]) = ReadsIn(disk, array[f])
      BY <1>1
    <2> QED BY <1>1, <2>1, Stands, StandsNext
  <1> QED BY <1>1, <1>2, PreparingIsForget

\* An unlocked document stands for what its byte array reads as.
LEMMA OpenText ==
  ASSUME IInv, NEW d \in Documents \ closed, ~Locked(d)
  PROVE  /\ Text(d) = ReadsIn(disk, array[d])
         /\ Text(d) \in Seq(Values) /\ Len(Text(d)) = Len(array[d])
         /\ DOMAIN Text(d) = DOMAIN array[d]
         /\ Past(d) = ReadOperations(disk, undo[d])
         /\ disk \in Files /\ array[d] \in Seq(Bytes) /\ undo[d] \in Seq(Operations)
  <1>1. disk \in Files /\ array[d] \in Seq(Bytes) /\ undo[d] \in Seq(Operations)
    BY DEF IInv, TypeOK, Files
  <1> QED BY <1>1, Stands, ReadsInType

\* Edits are edits of what is read.
LEMMA EditIsOwn ==
  ASSUME IInv, NEW d \in Documents \ closed, NEW edit \in SteadyOperations,
         Fits(edit, Len(array[d])), Edit(d, edit)
  PROVE  Own!Edit(d, ReadOperation(disk, edit))
  <1> DEFINE taken == SubSeq(array[d], edit.at, edit.at + edit.length - 1)
             o == [at |-> edit.at, length |-> Len(edit.bytes), bytes |-> taken]
             r == ReadOperation(disk, edit)
  <1>1. /\ ~Locked(d) /\ UNCHANGED <<disk, saving, closed, clip>>
        /\ array' = [array EXCEPT ![d] = Replaced(@, edit)]
        /\ undo' = [undo EXCEPT ![d] = Append(@, o)]
    BY DEF Edit, Event
  <1>2. /\ Text(d) = ReadsIn(disk, array[d])
        /\ Past(d) = ReadOperations(disk, undo[d])
        /\ disk \in Files /\ array[d] \in Seq(Bytes) /\ undo[d] \in Seq(Operations)
    BY <1>1, OpenText
  <1>3. edit \in Operations
    BY SteadyTypes
  <1>4. /\ \A e \in Documents : Locked(e)' <=> Locked(e)
        /\ array'[d] = Replaced(array[d], edit)
        /\ undo'[d] = Append(undo[d], o)
        /\ \A e \in Documents \ {d} : array'[e] = array[e] /\ undo'[e] = undo[e]
    BY <1>1 DEF IInv, TypeOK, Locked, saving
  <1>5. /\ r.at = edit.at /\ r.length = edit.length
        /\ r.bytes = ReadsIn(disk, edit.bytes) /\ Len(r.bytes) = Len(edit.bytes)
    BY <1>2, <1>3, ReadsInType DEF ReadOperation, Operations
  <1>6. /\ ReadsIn(disk, Replaced(array[d], edit))
                = Own!Replaced(ReadsIn(disk, array[d]), r)
        /\ ReadsIn(disk, taken) = SubSeq(ReadsIn(disk, array[d]), edit.at,
                                         edit.at + edit.length - 1)
    BY <1>2, <1>3, ReadsInReplaced
  <1>7. o \in Operations
    <2>1. taken \in Seq(Bytes)
      BY <1>2, <1>3, ReplacedType DEF Operations
    <2>2. edit.at \in Nat \ {0} /\ Len(edit.bytes) \in Nat
      BY <1>3, LenProperties DEF Operations
    <2> HIDE DEF taken
    <2> QED BY <2>1, <2>2 DEF Operations
  <1> HIDE DEF r, taken
  <1>8. ReadOperation(disk, o) = Own!Inverse(Text(d), r)
    <2>1. ReadOperation(disk, o) = [at |-> edit.at, length |-> Len(edit.bytes),
                                    bytes |-> ReadsIn(disk, taken)]
      BY DEF ReadOperation
    <2>2. Own!Inverse(Text(d), r) =
            [at |-> edit.at, length |-> Len(edit.bytes),
             bytes |-> SubSeq(Text(d), edit.at, edit.at + edit.length - 1)]
      BY <1>5 DEF Own!Inverse
    <2> QED BY <1>2, <1>6, <2>1, <2>2
  <1> HIDE DEF o
  <1>9. Text(d)' = Own!Replaced(Text(d), r)
    BY <1>1, <1>2, <1>4, <1>6, StandsNext
  <1>10. Past(d)' = Append(Past(d), Own!Inverse(Text(d), r))
    <2>1. ReadOperations(disk, Append(undo[d], o))
            = Append(ReadOperations(disk, undo[d]), ReadOperation(disk, o))
      BY <1>2, <1>7, ReadOperationsAppend
    <2>2. Past(d)' = ReadOperations(disk, Append(undo[d], o))
      BY <1>1, <1>4, StandsNext
    <2> QED BY <1>2, <1>8, <2>1, <2>2
  <1>11. \A e \in Documents \ {d} : Text(e)' = Text(e) /\ Past(e)' = Past(e)
    BY <1>1, <1>4, Stands, StandsNext DEF saving
  <1>12. /\ [e \in Documents |-> Text(e)]'
                = [[e \in Documents |-> Text(e)] EXCEPT ![d] = Own!Replaced(@, r)]
         /\ [e \in Documents |-> Past(e)]'
                = [[e \in Documents |-> Past(e)] EXCEPT ![d] =
                        Append(@, Own!Inverse([e \in Documents |-> Text(e)][d], r))]
    BY <1>9, <1>10, <1>11
  <1>13. Reads(clip)' = Reads(clip)
    BY <1>1, Stands, StandsNext
  <1> QED BY <1>1, <1>12, <1>13 DEF Own!Edit, saving, r

LEMMA TypeIsOwn ==
  ASSUME IInv, NEW d \in Documents \ closed, Type(d) PROVE Own!Type(d)
  <1>1. PICK at \in 1 .. (Len(array[d]) + 1) :
            Edit(d, [at |-> at, length |-> 0, bytes |-> <<MemoryByte(Typed)>>])
    BY DEF Type
  <1> DEFINE edit == [at |-> at, length |-> 0, bytes |-> <<MemoryByte(Typed)>>]
  <1>2. edit \in SteadyOperations /\ Fits(edit, Len(array[d]))
    BY TypeIsEdit
  <1> HIDE DEF edit
  <1>3. Own!Edit(d, ReadOperation(disk, edit))
    BY <1>1, <1>2, EditIsOwn DEF edit
  <1>4. ReadOperation(disk, edit) = [at |-> at, length |-> 0, bytes |-> <<Typed>>]
    <2>1. ReadIn(disk, MemoryByte(Typed)) = Typed
      BY DEF ReadIn, MemoryByte
    <2>2. ReadsIn(disk, <<MemoryByte(Typed)>>) = <<Typed>>
      BY <2>1 DEF ReadsIn
    <2> QED BY <2>2 DEF ReadOperation, edit
  <1>5. Len(Text(d)) = Len(array[d])
    BY <1>1, OpenText DEF Edit
  <1>6. at \in 1 .. (Len([e \in Documents |-> Text(e)][d]) + 1)
    BY <1>5
  <1> QED BY <1>3, <1>4, <1>6 DEF Own!Type

LEMMA DeleteIsOwn ==
  ASSUME IInv, NEW d \in Documents \ closed, Delete(d) PROVE Own!Delete(d)
  <1>1. PICK at \in DOMAIN array[d] :
            \E length \in 1 .. (Len(array[d]) + 1 - at) :
                Edit(d, [at |-> at, length |-> length, bytes |-> <<>>])
    BY DEF Delete
  <1>2. PICK length \in 1 .. (Len(array[d]) + 1 - at) :
            Edit(d, [at |-> at, length |-> length, bytes |-> <<>>])
    BY <1>1
  <1> DEFINE edit == [at |-> at, length |-> length, bytes |-> <<>>]
  <1>3. edit \in SteadyOperations /\ Fits(edit, Len(array[d]))
    BY DeleteIsEdit
  <1> HIDE DEF edit
  <1>4. Own!Edit(d, ReadOperation(disk, edit))
    BY <1>2, <1>3, EditIsOwn DEF edit
  <1>5. ReadOperation(disk, edit) = [at |-> at, length |-> length, bytes |-> <<>>]
    <2>1. ReadsIn(disk, <<>>) = <<>>
      BY DEF ReadsIn
    <2> QED BY <2>1 DEF ReadOperation, edit
  <1>6. Len(Text(d)) = Len(array[d]) /\ DOMAIN Text(d) = DOMAIN array[d]
    BY <1>2, OpenText DEF Edit
  <1>7. /\ at \in DOMAIN [e \in Documents |-> Text(e)][d]
        /\ length \in 1 .. (Len([e \in Documents |-> Text(e)][d]) + 1 - at)
    BY <1>6
  <1> QED BY <1>4, <1>5, <1>7 DEF Own!Delete

LEMMA PasteIsOwn ==
  ASSUME IInv, NEW d \in Documents \ closed, Paste(d) PROVE Own!Paste(d)
  <1>1. clip # <<>>
    BY DEF Paste
  <1>2. PICK at \in 1 .. (Len(array[d]) + 1) :
            Edit(d, [at |-> at, length |-> 0, bytes |-> clip])
    BY DEF Paste
  <1> DEFINE edit == [at |-> at, length |-> 0, bytes |-> clip]
  <1>3. edit \in SteadyOperations /\ Fits(edit, Len(array[d]))
    BY PasteIsEdit
  <1> HIDE DEF edit
  <1>4. Own!Edit(d, ReadOperation(disk, edit))
    BY <1>2, <1>3, EditIsOwn DEF edit
  <1>5. ReadOperation(disk, edit) = [at |-> at, length |-> 0, bytes |-> Reads(clip)]
    BY ReadsAreIn DEF ReadOperation, edit
  <1>6. Len(Text(d)) = Len(array[d])
    BY <1>2, OpenText DEF Edit
  <1>7. at \in 1 .. (Len([e \in Documents |-> Text(e)][d]) + 1)
    BY <1>6
  <1>8. Reads(clip) # <<>>
    <2>1. clip \in Seq(Bytes) /\ disk \in Files
      BY DEF IInv, TypeOK, Files
    <2>2. Len(ReadsIn(disk, clip)) = Len(clip) /\ ReadsIn(disk, clip) \in Seq(Values)
      BY <2>1, ReadsInType
    <2> QED BY <1>1, <2>1, <2>2, ReadsAreIn, EmptySeq
  <1> QED BY <1>4, <1>5, <1>7, <1>8 DEF Own!Paste

LEMMA CopyIsOwn ==
  ASSUME "copy" \notin WhileSaving, IInv, NEW d \in Documents \ closed, Copy(d)
  PROVE  Own!Copy(d)
  <1>1. ~Locked(d) /\ UNCHANGED <<disk, saving, closed, array, undo>>
    BY DEF Copy, Event
  <1>2. PICK from \in DOMAIN array[d], to \in DOMAIN array[d] :
            from <= to /\ clip' = SubSeq(array[d], from, to)
    BY DEF Copy
  <1>3. /\ Text(d) = ReadsIn(disk, array[d]) /\ DOMAIN Text(d) = DOMAIN array[d]
        /\ disk \in Files /\ array[d] \in Seq(Bytes)
    BY <1>1, OpenText
  <1>4. from \in 1 .. (Len(array[d]) + 1) /\ to \in 0 .. Len(array[d])
    BY <1>3, LenProperties
  <1>5. Reads(clip)' = SubSeq(Text(d), from, to)
    BY <1>1, <1>2, <1>3, <1>4, ReadsInSubSeq, StandsNext
  <1>6. \A e \in Documents : Text(e)' = Text(e) /\ Past(e)' = Past(e)
    BY <1>1, Stands, StandsNext DEF saving, Locked
  <1>7. /\ [e \in Documents |-> Text(e)]' = [e \in Documents |-> Text(e)]
        /\ [e \in Documents |-> Past(e)]' = [e \in Documents |-> Past(e)]
    BY <1>6
  <1>8. /\ from \in DOMAIN [e \in Documents |-> Text(e)][d]
        /\ to \in DOMAIN [e \in Documents |-> Text(e)][d]
        /\ Reads(clip)' = SubSeq([e \in Documents |-> Text(e)][d], from, to)
    BY <1>3, <1>5
  <1> QED BY <1>1, <1>2, <1>7, <1>8 DEF Own!Copy, saving

LEMMA UndoIsOwn ==
  ASSUME "undo" \notin WhileSaving, IInv, NEW d \in Documents \ closed, Undo(d)
  PROVE  Own!Undo(d)
  <1> DEFINE edit == Last(undo[d])  r == ReadOperation(disk, edit)
  <1>1. /\ ~Locked(d) /\ UNCHANGED <<disk, saving, closed, clip>>
        /\ undo[d] # <<>> /\ undo' = [undo EXCEPT ![d] = Front(@)]
        /\ Fits(edit, Len(array[d]))
        /\ array' = [array EXCEPT ![d] = Replaced(@, edit)]
    BY DEF Undo, Event
  <1>2. /\ Text(d) = ReadsIn(disk, array[d]) /\ Len(Text(d)) = Len(array[d])
        /\ Past(d) = ReadOperations(disk, undo[d])
        /\ disk \in Files /\ array[d] \in Seq(Bytes) /\ undo[d] \in Seq(Operations)
    BY <1>1, OpenText
  <1>3. edit \in Operations
    BY <1>1, <1>2, LastAndFront
  <1> HIDE DEF edit
  <1>4. /\ \A e \in Documents : Locked(e)' <=> Locked(e)
        /\ array'[d] = Replaced(array[d], edit)
        /\ undo'[d] = Front(undo[d])
        /\ \A e \in Documents \ {d} : array'[e] = array[e] /\ undo'[e] = undo[e]
    BY <1>1 DEF IInv, TypeOK, Locked, saving
  <1>5. r.at = edit.at /\ r.length = edit.length
    BY <1>3 DEF ReadOperation, Operations
  <1>6. ReadsIn(disk, Replaced(array[d], edit)) = Own!Replaced(ReadsIn(disk, array[d]), r)
    BY <1>1, <1>2, <1>3, ReadsInReplaced
  <1>7. /\ Past(d) # <<>> /\ Own!Last(Past(d)) = r
        /\ Own!Front(Past(d)) = ReadOperations(disk, Front(undo[d]))
    BY <1>1, <1>2, ReadOperationsFront DEF edit
  <1> HIDE DEF r
  <1>8. Text(d)' = Own!Replaced(Text(d), r)
    BY <1>1, <1>2, <1>4, <1>6, StandsNext
  <1>9. Past(d)' = Own!Front(Past(d))
    BY <1>1, <1>4, <1>7, StandsNext
  <1>10. \A e \in Documents \ {d} : Text(e)' = Text(e) /\ Past(e)' = Past(e)
    BY <1>1, <1>4, Stands, StandsNext DEF saving
  <1> DEFINE text == [e \in Documents |-> Text(e)]  past == [e \in Documents |-> Past(e)]
  <1>11. /\ text' = [text EXCEPT ![d] = Own!Replaced(@, Own!Last(past[d]))]
         /\ past' = [past EXCEPT ![d] = Own!Front(@)]
    BY <1>7, <1>8, <1>9, <1>10
  <1>12. Reads(clip)' = Reads(clip)
    BY <1>1, Stands, StandsNext
  <1>13. /\ past[d] # <<>>
         /\ Own!Last(past[d]).at + Own!Last(past[d]).length - 1 <= Len(text[d])
    BY <1>1, <1>2, <1>5, <1>7 DEF Fits
  <1> QED BY <1>1, <1>11, <1>12, <1>13 DEF Own!Undo, saving

LEMMA InitIsOwn == Init => Own!Init
  <1> SUFFICES ASSUME Init PROVE Own!Init
    OBVIOUS
  <1>1. /\ closed = {} /\ spoilt = {} /\ clip = <<>>
        /\ undo = [d \in Documents |-> <<>>]
    BY DEF Init
  <1>2. ReadsIn(disk, <<>>) = <<>> /\ ReadOperations(disk, <<>>) = <<>>
    BY DEF ReadsIn, ReadOperations
  <1>3. \A d \in Documents : Past(d) = <<>>
    BY <1>1, <1>2, Stands
  <1>4. Reads(clip) = <<>>
    BY <1>1, <1>2, Stands
  <1> QED BY <1>1, <1>3, <1>4 DEF Own!Init

LEMMA NextIsOwn ==
  ASSUME WhileSaving = {}, IInv, [Next]_vars
  PROVE  [Own!Next]_Own!vars
  <1> DEFINE open == DOMAIN [e \in Documents |-> Text(e)] \ closed
  <1>1. Documents \ closed = open /\ Documents = DOMAIN [e \in Documents |-> Text(e)]
    OBVIOUS
  <1>2. ASSUME NEW d \in Documents \ closed,
               Type(d) \/ Delete(d) \/ Paste(d) \/ Copy(d) \/ Undo(d)
        PROVE  Own!Next
    <2>1. Own!Type(d) \/ Own!Delete(d) \/ Own!Paste(d) \/ Own!Copy(d) \/ Own!Undo(d)
      BY <1>2, TypeIsOwn, DeleteIsOwn, PasteIsOwn, CopyIsOwn, UndoIsOwn
    <2> QED BY <1>1, <2>1 DEF Own!Next
  <1>3. ASSUME NEW d \in Documents \ closed,
               StartSave(d) \/ SaveRefused(d) \/ SaveRaises(d)
        PROVE  Own!Next
    <2>1. CASE StartSave(d)
      BY <2>1, StartSaveIsForget DEF Own!Next
    <2>2. CASE SaveRefused(d)
      BY <2>2, InterruptedIsForget DEF SaveRefused, Own!Next
    <2>3. CASE SaveRaises(d)
      BY <2>3, InterruptedIsForget DEF SaveRaises, Own!Next
    <2> QED BY <1>3, <2>1, <2>2, <2>3
  <1>4. ASSUME NEW d \in Documents, Write(d) \/ WriteEnds(d) \/ EndSave(d)
        PROVE  Own!Next \/ UNCHANGED Own!vars
    <2>1. CASE Write(d) \/ WriteEnds(d)
      BY <2>1, WriteIsStutter, WriteEndsIsStutter
    <2>2. CASE EndSave(d)
      BY <1>1, <2>2, EndSaveIsSpoil DEF Own!Next
    <2> QED BY <1>4, <2>1, <2>2
  <1>5. CASE UNCHANGED vars
    <2>1. \A e \in Documents : Text(e)' = Text(e) /\ Past(e)' = Past(e)
      BY <1>5, Stands, StandsNext DEF vars, held, saving, Locked
    <2>2. Reads(clip)' = Reads(clip)
      BY <1>5, Stands, StandsNext DEF vars, held
    <2> QED BY <1>5, <2>1, <2>2 DEF Own!vars, vars, held, saving
  <1> QED BY <1>2, <1>3, <1>4, <1>5 DEF Next, UserStep

\* Documents, histories and the clipboard are values of their own although
\* they read from files that saves rewrite in place: DocumentSave implements
\* OwnTexts, if a document that is being saved is neither copied from nor
\* undone.
THEOREM TextsStayOwn == WhileSaving = {} => (Spec => TextsAreOwn)
  <1> SUFFICES ASSUME WhileSaving = {} PROVE Spec => TextsAreOwn
    OBVIOUS
  <1>1. "copy" \notin WhileSaving
    OBVIOUS
  <1>2. Spec => []IInv
    BY <1>1, IInvAlways
  <1>3. Init => Own!Init
    BY InitIsOwn
  <1>4. IInv /\ [Next]_vars => [Own!Next]_Own!vars
    BY NextIsOwn
  <1> QED BY <1>2, <1>3, <1>4, PTL DEF Spec, TextsAreOwn, Own!Spec

-----------------------------------------------------------------------------
(* Histories that fit *)

\* f says how long a document of n bytes is before each of its operations is
\* undone, the last one first.
Shrinks(operations, n, f) ==
    LET last == Len(operations)
    IN  f = [i \in 0 .. last |->
                IF i = last THEN n
                ELSE f[i + 1] - operations[i + 1].length
                        + Len(operations[i + 1].bytes)]

\* All the operations can be undone.
Undoable(operations, n) ==
    \E f : /\ Shrinks(operations, n, f)
           /\ \A i \in 1 .. Len(operations) : Fits(operations[i], f[i])

\* There is one such function.
LEMMA ShrinksOnce ==
  ASSUME NEW operations, Len(operations) \in Nat, NEW n, NEW f, NEW g,
         Shrinks(operations, n, f), Shrinks(operations, n, g)
  PROVE  f = g
  <1> DEFINE last == Len(operations)
             less(i) == operations[i + 1].length
             more(i) == Len(operations[i + 1].bytes)
  <1>1. /\ f = [i \in 0 .. last |-> IF i = last THEN n ELSE f[i + 1] - less(i) + more(i)]
        /\ g = [i \in 0 .. last |-> IF i = last THEN n ELSE g[i + 1] - less(i) + more(i)]
        /\ last \in Nat
    BY DEF Shrinks
  <1> HIDE DEF last, less, more
  <1>2. f[last] = g[last]
    BY <1>1
  <1>3. \A i \in 0 .. last - 1 : f[i + 1] = g[i + 1] => f[i] = g[i]
    <2> TAKE i \in 0 .. last - 1
    <2>1. i \in 0 .. last /\ i # last
      BY <1>1
    <2>2. f[i] = f[i + 1] - less(i) + more(i) /\ g[i] = g[i + 1] - less(i) + more(i)
      BY <1>1, <2>1
    <2> QED BY <2>2
  <1>4. \A i \in 0 .. last : f[i] = g[i]
    BY <1>1, <1>2, <1>3, SameDownFrom
  <1> DEFINE u(i) == IF i = last THEN n ELSE f[i + 1] - less(i) + more(i)
             v(i) == IF i = last THEN n ELSE g[i + 1] - less(i) + more(i)
  <1>5. f = [i \in 0 .. last |-> u(i)] /\ g = [i \in 0 .. last |-> v(i)]
    BY <1>1
  <1> HIDE DEF u, v
  <1>6. \A i \in 0 .. last : u(i) = f[i] /\ v(i) = g[i]
    BY <1>5
  <1> QED BY <1>4, <1>5, <1>6

\* No history fits any text.
LEMMA NothingToUndo == ASSUME NEW n PROVE Undoable(<<>>, n)
  <1> DEFINE f == [i \in 0 .. 0 |-> n]
  <1>1. Len(<<>>) = 0
    OBVIOUS
  <1>2. Shrinks(<<>>, n, f)
    BY <1>1 DEF Shrinks
  <1> QED BY <1>1, <1>2 DEF Undoable

\* An operation that can be undone, and leads to where the others can be, can
\* be added.
LEMMA UndoableAppend ==
  ASSUME NEW operations \in Seq(Operations), NEW o \in Operations,
         NEW n \in Nat, NEW m \in Nat,
         Undoable(operations, n), Fits(o, m), m - o.length + Len(o.bytes) = n
  PROVE  Undoable(Append(operations, o), m)
  <1> DEFINE k == Len(operations)
             new == Append(operations, o)
  <1>1. PICK f : /\ Shrinks(operations, n, f)
                 /\ \A i \in 1 .. k : Fits(operations[i], f[i])
    BY DEF Undoable
  <1>2. /\ k \in Nat /\ Len(new) = k + 1 /\ new[k + 1] = o
        /\ \A i \in 1 .. k : new[i] = operations[i]
    BY LenProperties, AppendProperties
  <1>3. f = [i \in 0 .. k |-> IF i = k THEN n
                ELSE f[i + 1] - operations[i + 1].length + Len(operations[i + 1].bytes)]
    BY <1>1 DEF Shrinks
  <1> DEFINE g == [i \in 0 .. k + 1 |-> IF i = k + 1 THEN m ELSE f[i]]
  <1> HIDE DEF k, new
  <1>4. g[k + 1] = m /\ \A i \in 0 .. k : g[i] = f[i]
    BY <1>2
  <1>5. f[k] = n
    BY <1>2, <1>3
  <1>6. Shrinks(new, m, g)
    <2> DEFINE h(i) == IF i = k + 1 THEN m
                       ELSE g[i + 1] - new[i + 1].length + Len(new[i + 1].bytes)
    <2>1. ASSUME NEW i \in 0 .. k + 1 PROVE g[i] = h(i)
      <3>1. CASE i = k + 1
        BY <1>4, <3>1
      <3>2. CASE i = k
        <4>1. i # k + 1 /\ g[i + 1] = m /\ new[i + 1] = o /\ g[i] = n
          BY <1>2, <1>4, <1>5, <3>2
        <4> QED BY <4>1
      <3>3. CASE i \notin {k, k + 1}
        <4>1. i \in 0 .. k /\ i # k /\ i # k + 1 /\ i + 1 \in 0 .. k /\ i + 1 \in 1 .. k
          BY <1>2, <3>3
        <4>2. f[i] = f[i + 1] - operations[i + 1].length + Len(operations[i + 1].bytes)
          BY <1>3, <4>1
        <4>3. g[i] = f[i] /\ g[i + 1] = f[i + 1] /\ new[i + 1] = operations[i + 1]
          BY <1>2, <1>4, <4>1
        <4> QED BY <4>1, <4>2, <4>3
      <3> QED BY <3>1, <3>2, <3>3
    <2>2. g = [i \in 0 .. k + 1 |-> g[i]]
      OBVIOUS
    <2> HIDE DEF g, h
    <2>3. g = [i \in 0 .. k + 1 |-> h(i)]
      BY <2>1, <2>2
    <2> QED BY <1>2, <2>3 DEF Shrinks, h
  <1>7. \A i \in 1 .. Len(new) : Fits(new[i], g[i])
    <2> TAKE i \in 1 .. Len(new)
    <2>1. CASE i = k + 1
      BY <1>2, <1>4, <2>1
    <2>2. CASE i # k + 1
      <3>1. i \in 1 .. k /\ i \in 0 .. k
        BY <1>2, <2>2
      <3> QED BY <1>1, <1>2, <1>4, <3>1 DEF k
    <2> QED BY <2>1, <2>2
  <1> HIDE DEF g
  <1>8. Undoable(new, m)
    BY <1>6, <1>7 DEF Undoable
  <1> QED BY <1>8 DEF new

\* When the last operation has been undone, the others can be.
LEMMA UndoableFront ==
  ASSUME NEW operations \in Seq(Operations), operations # <<>>,
         NEW n \in Nat, Undoable(operations, n)
  PROVE  Undoable(Front(operations),
                  n - Last(operations).length + Len(Last(operations).bytes))
  <1> DEFINE k == Len(operations)
             new == Front(operations)
             o == Last(operations)
             m == n - o.length + Len(o.bytes)
  <1>1. PICK f : /\ Shrinks(operations, n, f)
                 /\ \A i \in 1 .. k : Fits(operations[i], f[i])
    BY DEF Undoable
  <1>2. /\ k \in Nat \ {0} /\ \A i \in 1 .. k : operations[i] \in Operations
    BY EmptySeq, ElementOfSeq
  <1>3. /\ Len(new) = k - 1 /\ o = operations[k]
        /\ \A i \in 1 .. k - 1 : new[i] = operations[i]
    <2>1. \A i \in 1 .. k - 1 : operations[i] \in Operations
      BY <1>2
    <2>2. new = SubSeq(operations, 1, k - 1) /\ o = operations[k]
      BY DEF Front, Last
    <2> HIDE DEF new, o, k
    <2>3. /\ Len(SubSeq(operations, 1, k - 1)) = IF 1 <= k - 1 THEN (k - 1) - 1 + 1 ELSE 0
          /\ \A i \in 1 .. (k - 1) - 1 + 1 :
                SubSeq(operations, 1, k - 1)[i] = operations[1 + i - 1]
      BY <1>2, <2>1, SubSeqProperties
    <2>4. Len(new) = k - 1
      BY <1>2, <2>2, <2>3
    <2>5. \A i \in 1 .. k - 1 : new[i] = operations[i]
      BY <1>2, <2>2, <2>3
    <2> QED BY <2>2, <2>4, <2>5
  <1>4. f = [i \in 0 .. k |-> IF i = k THEN n
                ELSE f[i + 1] - operations[i + 1].length + Len(operations[i + 1].bytes)]
    BY <1>1 DEF Shrinks
  <1> DEFINE g == [i \in 0 .. k - 1 |-> f[i]]
  <1> HIDE DEF k, new, o
  <1>5. f[k - 1] = m
    <2>1. k - 1 \in 0 .. k /\ k - 1 # k /\ (k - 1) + 1 = k /\ k \in 0 .. k
      BY <1>2
    <2>2. f[k] = n /\ f[k - 1] = f[(k - 1) + 1] - operations[(k - 1) + 1].length
                                    + Len(operations[(k - 1) + 1].bytes)
      BY <1>4, <2>1
    <2> QED BY <1>3, <2>1, <2>2
  <1> HIDE DEF m
  <1>6. Shrinks(new, m, g)
    <2> DEFINE h(i) == IF i = k - 1 THEN m
                       ELSE g[i + 1] - new[i + 1].length + Len(new[i + 1].bytes)
    <2>1. ASSUME NEW i \in 0 .. k - 1 PROVE g[i] = h(i)
      <3>1. CASE i = k - 1
        BY <1>2, <1>5, <3>1
      <3>2. CASE i # k - 1
        <4>1. i \in 0 .. k /\ i # k /\ i + 1 \in 0 .. k - 1 /\ i + 1 \in 1 .. k - 1
          BY <1>2, <3>2
        <4>2. f[i] = f[i + 1] - operations[i + 1].length + Len(operations[i + 1].bytes)
          BY <1>4, <4>1
        <4>3. g[i] = f[i] /\ g[i + 1] = f[i + 1] /\ new[i + 1] = operations[i + 1]
          BY <1>3, <4>1
        <4> QED BY <3>2, <4>2, <4>3
      <3> QED BY <3>1, <3>2
    <2>2. g = [i \in 0 .. k - 1 |-> g[i]]
      OBVIOUS
    <2> HIDE DEF g, h
    <2>3. g = [i \in 0 .. k - 1 |-> h(i)]
      BY <2>1, <2>2
    <2> QED BY <1>3, <2>3 DEF Shrinks, h
  <1>7. \A i \in 1 .. Len(new) : Fits(new[i], g[i])
    <2> TAKE i \in 1 .. Len(new)
    <2>1. i \in 0 .. k - 1 /\ i \in 1 .. k /\ i \in 1 .. k - 1
      BY <1>2, <1>3
    <2> QED BY <1>1, <1>3, <2>1 DEF k
  <1> HIDE DEF g
  <1>8. Undoable(new, m)
    BY <1>6, <1>7 DEF Undoable
  <1> QED BY <1>8 DEF new, m, o

\* Only the lengths matter.
LEMMA UndoableAlike ==
  ASSUME NEW p \in Seq(Operations), NEW q \in Seq(Operations), NEW files \in Files,
         ReadOperations(files, p) = ReadOperations(files, q),
         NEW n, Undoable(q, n)
  PROVE  Undoable(p, n)
  <1>1. /\ DOMAIN p = 1 .. Len(p) /\ DOMAIN q = 1 .. Len(q)
        /\ Len(p) \in Nat /\ Len(q) \in Nat
        /\ \A i \in 1 .. Len(p) : p[i] \in Operations
        /\ \A i \in 1 .. Len(q) : q[i] \in Operations
    BY LenProperties, ElementOfSeq
  <1>2. DOMAIN p = DOMAIN q
    BY DEF ReadOperations
  <1>3. Len(p) = Len(q)
    <2>1. \A a, b \in Nat : 1 .. a = 1 .. b => a = b
      OBVIOUS
    <2>2. 1 .. Len(p) = 1 .. Len(q)
      BY <1>1, <1>2
    <2> QED BY <1>1, <2>1, <2>2
  <1>4. ASSUME NEW i \in 1 .. Len(q)
        PROVE  /\ p[i].at = q[i].at /\ p[i].length = q[i].length
               /\ Len(p[i].bytes) = Len(q[i].bytes)
    <2>1. ReadOperation(files, p[i]) = ReadOperation(files, q[i])
      BY <1>1, <1>2 DEF ReadOperations
    <2>2. p[i] \in Operations /\ q[i] \in Operations
      BY <1>1, <1>3
    <2>3. \A o \in Operations :
            /\ ReadOperation(files, o).at = o.at
            /\ ReadOperation(files, o).length = o.length
            /\ ReadOperation(files, o).bytes = ReadsIn(files, o.bytes)
            /\ o.bytes \in Seq(Bytes)
      BY DEF ReadOperation, Operations
    <2>4. \A o \in Operations : Len(ReadOperation(files, o).bytes) = Len(o.bytes)
      BY <2>3, ReadsInType
    <2> QED BY <2>1, <2>2, <2>3, <2>4
  <1>5. PICK f : Shrinks(q, n, f) /\ \A i \in 1 .. Len(q) : Fits(q[i], f[i])
    BY DEF Undoable
  <1>6. Shrinks(p, n, f)
    <2> DEFINE h(i) == IF i = Len(q) THEN n ELSE f[i + 1] - q[i + 1].length + Len(q[i + 1].bytes)
               g(i) == IF i = Len(q) THEN n ELSE f[i + 1] - p[i + 1].length + Len(p[i + 1].bytes)
    <2>1. f = [i \in 0 .. Len(q) |-> h(i)]
      BY <1>5 DEF Shrinks
    <2>2. ASSUME NEW i \in 0 .. Len(q) PROVE g(i) = h(i)
      <3>1. CASE i = Len(q)
        BY <3>1
      <3>2. CASE i # Len(q)
        <4>1. i + 1 \in 1 .. Len(q)
          <5> DEFINE k == Len(q)
          <5>1. k \in Nat /\ i \in 0 .. k /\ i # k
            BY <1>1, <3>2
          <5> HIDE DEF k
          <5>2. i + 1 \in 1 .. k
            BY <5>1
          <5> QED BY <5>2 DEF k
        <4> QED BY <1>4, <4>1
      <3> QED BY <3>1, <3>2
    <2> HIDE DEF g, h
    <2>3. f = [i \in 0 .. Len(q) |-> g(i)]
      BY <2>1, <2>2
    <2> QED BY <1>3, <2>3 DEF Shrinks, g
  <1>7. \A i \in 1 .. Len(p) : Fits(p[i], f[i])
    BY <1>3, <1>4, <1>5 DEF Fits
  <1> QED BY <1>6, <1>7 DEF Undoable

-----------------------------------------------------------------------------
(* Histories fit their documents *)

\* What UndoFits needs: a document that is being saved keeps its length until
\* the text written takes its place, so that the history fits that text too.
Fitting ==
    /\ \A d \in Documents \ closed : Locked(d) => Len(goal[d]) = Len(array[d])
    /\ \A d \in Documents \ (closed \cup spoilt) : Undoable(undo[d], Len(array[d]))

\* That is enough.
LEMMA FittingImplies ==
  ASSUME TypeOK, Fitting
  PROVE  UndoFits
  <1> SUFFICES ASSUME NEW d \in Documents \ (closed \cup spoilt)
      PROVE  LET last == Len(undo[d])
                 length == CHOOSE length :
                    length = [i \in 0 .. last |->
                        IF i = last THEN Len(array[d])
                        ELSE length[i + 1] - undo[d][i + 1].length
                                + Len(undo[d][i + 1].bytes)]
             IN  \A i \in 1 .. last : Fits(undo[d][i], length[i])
    BY DEF UndoFits
  <1> DEFINE g == CHOOSE f : Shrinks(undo[d], Len(array[d]), f)
  <1>1. PICK f : /\ Shrinks(undo[d], Len(array[d]), f)
                 /\ \A i \in 1 .. Len(undo[d]) : Fits(undo[d][i], f[i])
    BY DEF Fitting, Undoable
  <1>2. Shrinks(undo[d], Len(array[d]), g)
    BY <1>1
  <1>3. Len(undo[d]) \in Nat
    BY LenProperties DEF TypeOK
  <1> HIDE DEF g
  <1>4. f = g
    BY <1>1, <1>2, <1>3, ShrinksOnce
  <1>5. \A i \in 1 .. Len(undo[d]) : Fits(undo[d][i], g[i])
    BY <1>1, <1>4
  <1> QED BY <1>5 DEF g, Shrinks

\* At first there is nothing to undo.
LEMMA FittingInit == Init => Fitting
  <1> SUFFICES ASSUME Init PROVE Fitting
    OBVIOUS
  <1>1. \A d \in Documents : ~Locked(d) /\ undo[d] = <<>>
    BY DEF Init, Locked
  <1> QED BY <1>1, NothingToUndo DEF Fitting

\* The length of what is left after an edit, and of what it took away.
LEMMA LengthOfReplaced ==
  ASSUME NEW S, NEW s \in Seq(S),
         NEW edit \in [at : Nat \ {0}, length : Nat, bytes : Seq(S)],
         Fits(edit, Len(s))
  PROVE  /\ Len(Replaced(s, edit)) = Len(s) - edit.length + Len(edit.bytes)
         /\ Len(SubSeq(s, edit.at, edit.at + edit.length - 1)) = edit.length
  <1> DEFINE n == Len(s)  a == edit.at  l == edit.length  b == edit.bytes
             x == SubSeq(s, 1, a - 1)  y == SubSeq(s, a + l, n)
  <1>1. /\ a \in Nat \ {0} /\ l \in Nat /\ b \in Seq(S) /\ n \in Nat
        /\ Len(b) \in Nat /\ a + l - 1 <= n
    BY LenProperties DEF Fits
  <1>2. /\ \A i \in 1 .. a - 1 : s[i] \in S
        /\ \A i \in a + l .. n : s[i] \in S
        /\ \A i \in a .. a + l - 1 : s[i] \in S
    <2>1. \A i \in 1 .. n : s[i] \in S
      BY ElementOfSeq
    <2> HIDE DEF n, a, l
    <2> QED BY <1>1, <2>1
  <1> HIDE DEF n, a, l, b
  <1>3. x \in Seq(S) /\ Len(x) = a - 1
    <2>1. Len(x) = IF 1 <= a - 1 THEN (a - 1) - 1 + 1 ELSE 0
      BY <1>1, <1>2, SubSeqProperties
    <2>2. x \in Seq(S)
      BY <1>1, <1>2, SubSeqProperties
    <2> QED BY <1>1, <2>1, <2>2
  <1>4. y \in Seq(S) /\ Len(y) = n - (a + l) + 1
    <2>1. Len(y) = IF a + l <= n THEN n - (a + l) + 1 ELSE 0
      BY <1>1, <1>2, SubSeqProperties
    <2>2. y \in Seq(S)
      BY <1>1, <1>2, SubSeqProperties
    <2> QED BY <1>1, <2>1, <2>2
  <1>5. Len(SubSeq(s, a, a + l - 1)) = l
    <2>1. Len(SubSeq(s, a, a + l - 1))
            = IF a <= a + l - 1 THEN (a + l - 1) - a + 1 ELSE 0
      BY <1>1, <1>2, SubSeqProperties
    <2> QED BY <1>1, <2>1
  <1> HIDE DEF x, y
  <1>6. x \o b \in Seq(S) /\ Len(x \o b) = Len(x) + Len(b)
    BY <1>1, <1>3, ConcatProperties
  <1>7. Len((x \o b) \o y) = Len(x \o b) + Len(y)
    BY <1>4, <1>6, ConcatProperties
  <1>8. Len((x \o b) \o y) = n - l + Len(b)
    BY <1>1, <1>3, <1>4, <1>6, <1>7
  <1>9. Replaced(s, edit) = (x \o b) \o y
    BY DEF Replaced, x, y, n, a, l, b
  <1> QED BY <1>5, <1>8, <1>9 DEF n, a, l, b

\* An edit adds the operation that undoes it.
LEMMA EditFits ==
  ASSUME IInv, Fitting, NEW d \in Documents \ closed, NEW edit \in SteadyOperations,
         Fits(edit, Len(array[d])), Edit(d, edit)
  PROVE  Fitting'
  <1> DEFINE taken == SubSeq(array[d], edit.at, edit.at + edit.length - 1)
             o == [at |-> edit.at, length |-> Len(edit.bytes), bytes |-> taken]
             n == Len(array[d])
             m == Len(Replaced(array[d], edit))
  <1>1. /\ ~Locked(d) /\ UNCHANGED <<disk, saving, saves, closed, clip>>
        /\ array' = [array EXCEPT ![d] = Replaced(@, edit)]
        /\ undo' = [undo EXCEPT ![d] = Append(@, o)]
    BY DEF Edit, Event
  <1>2. TypeOK /\ SteadyBytes \subseteq Bytes
    BY SteadyTypes DEF IInv
  <1>3. edit \in Operations /\ edit \in [at : Nat \ {0}, length : Nat, bytes : Seq(Bytes)]
    BY SteadyTypes DEF Operations
  <1>4. array[d] \in Seq(Bytes) /\ undo[d] \in Seq(Operations)
    BY <1>2 DEF TypeOK
  <1>5. /\ m = n - edit.length + Len(edit.bytes)
        /\ Len(taken) = edit.length /\ taken \in Seq(Bytes)
        /\ Replaced(array[d], edit) \in Seq(Bytes)
    BY <1>3, <1>4, LengthOfReplaced, ReplacedType
  <1>6. /\ edit.at \in Nat \ {0} /\ edit.length \in Nat /\ edit.bytes \in Seq(Bytes)
        /\ Len(edit.bytes) \in Nat /\ n \in Nat /\ m \in Nat
        /\ edit.at + edit.length - 1 <= n
    BY <1>3, <1>4, <1>5, LenProperties DEF Operations, Fits
  <1>7. /\ o \in Operations /\ o.at = edit.at /\ o.length = Len(edit.bytes)
        /\ Len(o.bytes) = edit.length
    <2> HIDE DEF taken
    <2> QED BY <1>5, <1>6 DEF Operations
  <1> HIDE DEF taken, o, n, m
  <1>8. Fits(o, m) /\ m - o.length + Len(o.bytes) = n
    <2> DEFINE a == edit.at  l == edit.length  b == Len(edit.bytes)
    <2>1. /\ a \in Nat /\ l \in Nat /\ b \in Nat /\ n \in Nat
          /\ m = n - l + b /\ a + l - 1 <= n
      BY <1>5, <1>6
    <2>2. o.at = a /\ o.length = b /\ Len(o.bytes) = l
      BY <1>7
    <2> HIDE DEF a, l, b
    <2>3. a + b - 1 <= m /\ m - b + l = n
      BY <2>1
    <2> QED BY <2>2, <2>3 DEF Fits
  <1>9. ASSUME d \notin spoilt PROVE Undoable(Append(undo[d], o), m)
    <2>1. Undoable(undo[d], n)
      BY <1>9 DEF Fitting, n
    <2> QED BY <1>4, <1>6, <1>7, <1>8, <2>1, UndoableAppend
  <1>10. /\ undo'[d] = Append(undo[d], o) /\ Len(array'[d]) = m
         /\ \A e \in Documents \ {d} : undo'[e] = undo[e] /\ array'[e] = array[e]
    BY <1>1, <1>2 DEF TypeOK, m
  <1>11. \A e \in Documents : Locked(e)' <=> Locked(e)
    BY <1>1 DEF saving, Locked
  <1>12. goal' = goal /\ spoilt' = spoilt /\ closed' = closed
    BY <1>1 DEF saving
  <1>13. ASSUME NEW e \in Documents \ closed, Locked(e)
         PROVE  Len(goal[e]) = Len(array'[e])
    BY <1>1, <1>10, <1>13 DEF Fitting
  <1>14. ASSUME NEW e \in Documents \ (closed \cup spoilt)
         PROVE  Undoable(undo'[e], Len(array'[e]))
    <2>1. CASE e = d
      BY <1>9, <1>10, <1>14, <2>1
    <2>2. CASE e # d
      BY <1>10, <2>2 DEF Fitting
    <2> QED BY <2>1, <2>2
  <1> QED BY <1>11, <1>12, <1>13, <1>14 DEF Fitting

\* Undoing takes the last one away.
LEMMA UndoOneFits ==
  ASSUME "undo" \notin WhileSaving, IInv, Fitting,
         NEW d \in Documents \ closed, Undo(d)
  PROVE  Fitting'
  <1> DEFINE o == Last(undo[d])
             n == Len(array[d])
             m == Len(Replaced(array[d], o))
  <1>1. /\ ~Locked(d) /\ UNCHANGED <<disk, saving, saves, closed, clip>>
        /\ undo[d] # <<>> /\ undo' = [undo EXCEPT ![d] = Front(@)]
        /\ Fits(o, n) /\ array' = [array EXCEPT ![d] = Replaced(@, o)]
    BY DEF Undo, Event
  <1>2. TypeOK
    BY DEF IInv
  <1>3. array[d] \in Seq(Bytes) /\ undo[d] \in Seq(Operations)
    BY <1>2 DEF TypeOK
  <1>4. o \in Operations
    BY <1>1, <1>3, LastAndFront
  <1> HIDE DEF o
  <1>5. m = n - o.length + Len(o.bytes)
    BY <1>1, <1>3, <1>4, LengthOfReplaced DEF Operations
  <1>6. n \in Nat
    BY <1>3, LenProperties
  <1> HIDE DEF n, m
  <1>7. ASSUME d \notin spoilt PROVE Undoable(Front(undo[d]), m)
    <2>1. Undoable(undo[d], n)
      BY <1>7 DEF Fitting, n
    <2>2. Undoable(Front(undo[d]), n - o.length + Len(o.bytes))
      BY <1>1, <1>3, <1>6, <2>1, UndoableFront DEF o
    <2> QED BY <1>5, <2>2
  <1>8. /\ undo'[d] = Front(undo[d]) /\ Len(array'[d]) = m
        /\ \A e \in Documents \ {d} : undo'[e] = undo[e] /\ array'[e] = array[e]
    BY <1>1, <1>2 DEF TypeOK, m
  <1>9. \A e \in Documents : Locked(e)' <=> Locked(e)
    BY <1>1 DEF saving, Locked
  <1>10. goal' = goal /\ spoilt' = spoilt /\ closed' = closed
    BY <1>1 DEF saving
  <1>11. ASSUME NEW e \in Documents \ closed, Locked(e)
         PROVE  Len(goal[e]) = Len(array'[e])
    BY <1>1, <1>8, <1>11 DEF Fitting
  <1>12. ASSUME NEW e \in Documents \ (closed \cup spoilt)
         PROVE  Undoable(undo'[e], Len(array'[e]))
    <2>1. CASE e = d
      BY <1>7, <1>8, <1>12, <2>1
    <2>2. CASE e # d
      BY <1>8, <2>2 DEF Fitting
    <2> QED BY <2>1, <2>2
  <1> QED BY <1>9, <1>10, <1>11, <1>12 DEF Fitting

\* Clearing changes no length, and a history that is dropped fits.
LEMMA PreparingFits ==
  ASSUME TypeOK, Fitting, NEW e \in Documents \ closed,
         array' \in [Documents -> Seq(Bytes)],
         undo' \in [Documents -> Seq(Operations)],
         ReadsIn(disk, array'[e]) = ReadsIn(disk, array[e]),
         \/ undo'[e] = <<>>
         \/ ReadOperations(disk, undo'[e]) = ReadOperations(disk, undo[e])
  PROVE  /\ Len(array'[e]) = Len(array[e])
         /\ e \notin spoilt => Undoable(undo'[e], Len(array'[e]))
  <1>1. /\ disk \in Files /\ array[e] \in Seq(Bytes) /\ undo[e] \in Seq(Operations)
        /\ array'[e] \in Seq(Bytes) /\ undo'[e] \in Seq(Operations)
    BY DEF TypeOK, Files
  <1>2. Len(array'[e]) = Len(array[e])
    <2>1. /\ Len(ReadsIn(disk, array[e])) = Len(array[e])
          /\ Len(ReadsIn(disk, array'[e])) = Len(array'[e])
      BY <1>1, ReadsInType
    <2> QED BY <2>1
  <1>3. ASSUME e \notin spoilt PROVE Undoable(undo'[e], Len(array'[e]))
    <2>1. Undoable(undo[e], Len(array[e]))
      BY <1>3 DEF Fitting
    <2>2. CASE undo'[e] = <<>>
      BY <2>2, NothingToUndo
    <2>3. CASE ReadOperations(disk, undo'[e]) = ReadOperations(disk, undo[e])
      <3>1. Undoable(undo'[e], Len(array[e]))
        BY <1>1, <2>1, <2>3, UndoableAlike
      <3> QED BY <1>2, <3>1
    <2> QED BY <2>2, <2>3
  <1> QED BY <1>2, <1>3

\* The text that a save is to write is as long as the document.
LEMMA StartSaveFits ==
  ASSUME IInv, Fitting, NEW d \in Documents \ closed, StartSave(d)
  PROVE  Fitting'
  <1>1. TypeOK
    BY DEF IInv
  <1>2. /\ phase[d] = "idle"
        /\ phase' = [phase EXCEPT ![d] = "writing"]
        /\ goal' = [goal EXCEPT ![d] = Reads(array[d])]
        /\ UNCHANGED spoilt
    BY DEF StartSave
  <1>3. /\ closed \subseteq closed'
        /\ array' \in [Documents -> Seq(Bytes)]
        /\ undo' \in [Documents -> Seq(Operations)]
        /\ \A e \in Documents \ closed' :
              /\ ReadsIn(disk, array'[e]) = ReadsIn(disk, array[e])
              /\ \/ undo'[e] = <<>>
                 \/ ReadOperations(disk, undo'[e]) = ReadOperations(disk, undo[e])
    BY StartSaveHolds
  <1>4. \A e \in Documents \ closed' :
            /\ Len(array'[e]) = Len(array[e])
            /\ e \notin spoilt => Undoable(undo'[e], Len(array'[e]))
    <2> TAKE e \in Documents \ closed'
    <2>1. e \in Documents \ closed
      BY <1>3
    <2> QED BY <1>1, <1>3, <2>1, PreparingFits
  <1>5. ASSUME NEW e \in Documents \ closed', Locked(e)'
        PROVE  Len(goal'[e]) = Len(array'[e])
    <2>1. CASE e = d
      <3>1. goal'[d] = ReadsIn(disk, array[d])
        BY <1>1, <1>2, ReadsAreIn DEF TypeOK
      <3>2. Len(ReadsIn(disk, array[d])) = Len(array[d])
        BY <1>1, ReadsInType DEF TypeOK, Files
      <3> QED BY <1>4, <2>1, <3>1, <3>2
    <2>2. CASE e # d
      <3>1. Locked(e) /\ goal'[e] = goal[e] /\ e \in Documents \ closed
        BY <1>1, <1>2, <1>3, <1>5, <2>2 DEF TypeOK, Locked
      <3> QED BY <1>4, <3>1 DEF Fitting
    <2> QED BY <2>1, <2>2
  <1> QED BY <1>2, <1>4, <1>5 DEF Fitting

\* A preparation that is interrupted changes no length either.
LEMMA InterruptedFits ==
  ASSUME IInv, Fitting, NEW d \in Documents \ closed, NEW e, Interrupted(d, e),
         phase' = phase \/ phase' = [phase EXCEPT ![d] = "stuck"]
  PROVE  Fitting'
  <1>1. TypeOK
    BY DEF IInv
  <1>2. /\ UNCHANGED <<goal, spoilt>>
        /\ closed \subseteq closed'
        /\ array' \in [Documents -> Seq(Bytes)]
        /\ undo' \in [Documents -> Seq(Operations)]
        /\ \A f \in Documents \ closed' :
              /\ ReadsIn(disk, array'[f]) = ReadsIn(disk, array[f])
              /\ \/ undo'[f] = <<>>
                 \/ ReadOperations(disk, undo'[f]) = ReadOperations(disk, undo[f])
        /\ \A f \in Documents : Locked(f)' <=> Locked(f)
    BY InterruptedHolds
  <1>3. \A f \in Documents \ closed' :
            /\ Len(array'[f]) = Len(array[f])
            /\ f \notin spoilt => Undoable(undo'[f], Len(array'[f]))
    <2> TAKE f \in Documents \ closed'
    <2>1. f \in Documents \ closed
      BY <1>2
    <2> QED BY <1>1, <1>2, <2>1, PreparingFits
  <1>4. \A f \in Documents \ closed' : f \in Documents \ closed
    BY <1>2
  <1> QED BY <1>2, <1>3, <1>4 DEF Fitting

\* The text that has been written is as long as the document.
LEMMA EndSaveFits ==
  ASSUME IInv, Fitting, NEW d \in Documents, EndSave(d)
  PROVE  Fitting'
  <1>1. TypeOK /\ SavedText
    BY DEF IInv
  <1>2. /\ phase[d] = "written"
        /\ array' = IF result[d] = "error" THEN array
                    ELSE [array EXCEPT ![d] = WholeFile(d, Len(disk[d]))]
        /\ phase' = [phase EXCEPT ![d] = "idle"]
        /\ goal' = [goal EXCEPT ![d] = <<>>]
        /\ spoilt' = IF result[d] = "success" THEN spoilt ELSE spoilt \cup {d}
        /\ UNCHANGED <<closed, undo>>
    BY DEF EndSave
  <1>3. ~Locked(d)' /\ Locked(d)
    BY <1>1, <1>2 DEF TypeOK, Locked
  <1>4. \A e \in Documents \ {d} : /\ goal'[e] = goal[e] /\ array'[e] = array[e]
                                   /\ Locked(e)' <=> Locked(e)
    BY <1>1, <1>2 DEF TypeOK, Locked
  <1>5. ASSUME NEW e \in Documents \ closed, Locked(e)'
        PROVE  Len(goal'[e]) = Len(array'[e])
    BY <1>3, <1>4, <1>5 DEF Fitting
  <1>6. ASSUME NEW e \in Documents \ (closed \cup spoilt')
        PROVE  Undoable(undo[e], Len(array'[e]))
    <2>1. e \notin spoilt
      BY <1>2, <1>6
    <2>2. Undoable(undo[e], Len(array[e]))
      BY <2>1 DEF Fitting
    <2>3. CASE e = d
      <3>1. result[d] = "success"
        BY <1>2, <2>3
      <3>2. disk[d] = goal[d] /\ Len(goal[d]) = Len(array[d])
        BY <1>1, <1>2, <1>3, <2>3, <3>1 DEF SavedText, Fitting
      <3>3. array'[d] = WholeFile(d, Len(array[d]))
        BY <1>1, <1>2, <3>1, <3>2 DEF TypeOK
      <3>4. Len(array[d]) \in Nat
        BY <1>1, LenProperties DEF TypeOK
      <3>5. Len(WholeFile(d, Len(array[d]))) = Len(array[d])
        BY <3>4 DEF WholeFile
      <3> QED BY <2>2, <2>3, <3>3, <3>5
    <2>4. CASE e # d
      BY <1>4, <2>2, <2>4
    <2> QED BY <2>3, <2>4
  <1> QED BY <1>2, <1>5, <1>6 DEF Fitting

\* So histories go on fitting, whatever is done.
LEMMA FittingNext ==
  ASSUME WhileSaving = {}, IInv, Fitting, [Next]_vars
  PROVE  Fitting'
  <1>1. ASSUME NEW d \in Documents \ closed, Type(d) PROVE Fitting'
    <2>1. PICK at \in 1 .. (Len(array[d]) + 1) :
            Edit(d, [at |-> at, length |-> 0, bytes |-> <<MemoryByte(Typed)>>])
      BY <1>1 DEF Type
    <2> QED BY <2>1, TypeIsEdit, EditFits
  <1>2. ASSUME NEW d \in Documents \ closed, Delete(d) PROVE Fitting'
    <2>1. PICK at \in DOMAIN array[d] :
            \E length \in 1 .. (Len(array[d]) + 1 - at) :
                Edit(d, [at |-> at, length |-> length, bytes |-> <<>>])
      BY <1>2 DEF Delete
    <2>2. PICK length \in 1 .. (Len(array[d]) + 1 - at) :
            Edit(d, [at |-> at, length |-> length, bytes |-> <<>>])
      BY <2>1
    <2> QED BY <2>2, DeleteIsEdit, EditFits
  <1>3. ASSUME NEW d \in Documents \ closed, Paste(d) PROVE Fitting'
    <2>1. PICK at \in 1 .. (Len(array[d]) + 1) :
            Edit(d, [at |-> at, length |-> 0, bytes |-> clip])
      BY <1>3 DEF Paste
    <2> QED BY <2>1, PasteIsEdit, EditFits
  <1>4. ASSUME NEW d \in Documents \ closed, Undo(d) PROVE Fitting'
    BY <1>4, UndoOneFits
  <1>5. ASSUME NEW d \in Documents \ closed, StartSave(d) PROVE Fitting'
    BY <1>5, StartSaveFits
  <1>6. ASSUME NEW d \in Documents \ closed, SaveRefused(d) PROVE Fitting'
    BY <1>6, InterruptedFits DEF SaveRefused
  <1>7. ASSUME NEW d \in Documents \ closed, SaveRaises(d) PROVE Fitting'
    BY <1>7, InterruptedFits DEF SaveRaises
  <1>8. ASSUME UNCHANGED <<closed, array, undo, goal, spoilt>>,
               \A d \in Documents : Locked(d)' <=> Locked(d)
        PROVE  Fitting'
    BY <1>8 DEF Fitting
  <1>9. ASSUME NEW d \in Documents, Copy(d) \/ Write(d) PROVE Fitting'
    BY <1>8, <1>9 DEF Copy, Event, Write, held, saving, Locked
  <1>10. ASSUME NEW d \in Documents, WriteEnds(d) PROVE Fitting'
    <2>1. phase[d] = "writing" /\ phase' = [phase EXCEPT ![d] = "written"]
      BY <1>10 DEF WriteEnds
    <2>2. \A e \in Documents : Locked(e)' <=> Locked(e)
      BY <2>1 DEF IInv, TypeOK, Locked
    <2> QED BY <1>8, <1>10, <2>2 DEF WriteEnds, held
  <1>11. ASSUME NEW d \in Documents, EndSave(d) PROVE Fitting'
    BY <1>11, EndSaveFits
  <1>12. CASE UNCHANGED vars
    BY <1>8, <1>12 DEF vars, held, saving, Locked
  <1> QED BY <1>1, <1>2, <1>3, <1>4, <1>5, <1>6, <1>7, <1>9, <1>10, <1>11,
             <1>12 DEF Next, UserStep

\* The operations of a document can be undone one after the other, through
\* edits, clearing and saves that end well, if a document that is being saved
\* is neither copied from nor undone.
THEOREM HistoriesFit == WhileSaving = {} => (Spec => []UndoFits)
  <1> SUFFICES ASSUME WhileSaving = {} PROVE Spec => []UndoFits
    OBVIOUS
  <1>1. "copy" \notin WhileSaving
    OBVIOUS
  <1>2. Spec => []IInv
    BY <1>1, IInvAlways
  <1>3. Init => Fitting
    BY FittingInit
  <1>4. IInv /\ Fitting /\ [Next]_vars => Fitting'
    BY NextIInv, FittingNext
  <1>5. IInv /\ Fitting => UndoFits
    BY FittingImplies DEF IInv
  <1> QED BY <1>2, <1>3, <1>4, <1>5, PTL DEF Spec
=============================================================================
