---------------------------- MODULE SlicedArrays ----------------------------
(***************************************************************************)
(* Byte arrays as lists of slices (HFBTreeByteArray.m), which share the    *)
(* memory their slices are in (HFSharedMemoryByteSlice.m).                 *)
(*                                                                         *)
(* A slice never changes, but its memory may grow: appending to a slice    *)
(* that ends where its memory ends puts the bytes behind it, and whoever   *)
(* shares that memory must not notice.  The last bytes of a slice are not  *)
(* in that memory but in a tail of its own.  Subarrays, copies and the     *)
(* arrays that undo operations and pasteboards hold share slices.          *)
(*                                                                         *)
(* The B+tree that holds the slices is a sequence here.  Offsets count     *)
(* from zero, as in the code; positions in a sequence from one.            *)
(***************************************************************************)
EXTENDS Integers, SequencesExt

CONSTANTS
    Arrays,        \* byte arrays, such as a document's and a pasteboard's
    Bytes,         \* the values of a byte
    Original,      \* the bytes of the file that is opened first
    Inserted,      \* sequences of bytes that are typed
    MaxTail,       \* MAX_TAIL_LENGTH
    MaxSlice,      \* 2^24: a slice grows to less than this by appending
    Data,          \* NSMutableData objects
    File, Nil,     \* where the slices of the file and of no data are
    MaxLength,     \* bounds the arrays
    MaxData,       \* bounds the memory that slices share
    MaxObjects     \* bounds the objects that are shared at a time

ASSUME SlicedArraysAssumption ==
    /\ Original \in Seq(Bytes) \ {<<>>} /\ Inserted \subseteq Seq(Bytes) \ {<<>>}
    /\ MaxTail \in Nat \ {0} /\ MaxSlice \in Nat
    /\ File \notin Data /\ Nil \notin Data \cup {File}
    /\ MaxLength \in Nat /\ MaxObjects \in Nat
    /\ Len(Original) <= MaxLength

VARIABLES
    btree,     \* the slices of each array
    contents   \* of the file and of each data

vars == <<btree, contents>>

-----------------------------------------------------------------------------
(* Slices *)

SliceLength(s) == s.length + Len(s.tail)

\* copyBytes:range: of the whole slice.
Copied(mem, s) ==
    SubSeq(mem[s.data], s.offset + 1, s.offset + s.length) \o s.tail

subsliceWithRange(s, at, length) ==
    LET inData == IF at < s.length THEN Min({length, s.length - at}) ELSE 0
    IN  [data |-> IF inData > 0 THEN s.data ELSE Nil,
         offset |-> IF inData > 0 THEN s.offset + at ELSE 0,
         length |-> inData,
         tail |-> SubSeq(s.tail, at + inData - s.length + 1, at + length - s.length)]

\* A data object that nobody has.
NewData(mem) == CHOOSE d \in Data : mem[d] = <<>>

\* initWithUnsharedData:
Unshared(mem, bytes) ==
    LET shared == Max({0, Len(bytes) - MaxTail})
        data == IF shared > 0 THEN NewData(mem) ELSE Nil
    IN  [slice |-> [data |-> data, offset |-> 0, length |-> shared,
                    tail |-> SubSeq(bytes, shared + 1, Len(bytes))],
         contents |-> IF shared > 0
                      THEN [mem EXCEPT ![data] = SubSeq(bytes, 1, shared)]
                      ELSE mem]

\* Mutant of AppendedInTail: what the tail holds already is forgotten.
AppendedInFullTail(mem, s, t) ==
    IF s.data # File /\ SliceLength(t) <= MaxTail
    THEN {[slice |-> [s EXCEPT !.tail = @ \o Copied(mem, t)], contents |-> mem]}
    ELSE {}

\* The answers of byteSliceByAppendingSlice: that are not nil, at most one,
\* and what becomes of the memory.  Only slices in memory can be appended to.
AppendedInTail(mem, s, t) ==
    IF s.data # File /\ SliceLength(t) <= MaxTail - Len(s.tail)
    THEN {[slice |-> [s EXCEPT !.tail = @ \o Copied(mem, t)], contents |-> mem]}
    ELSE {}

\* The tail of s is moved into the data, and as much of t as does not fit
\* into the new tail.
AppendedInData(mem, s, t) ==
    LET end == s.tail \o Copied(mem, t)
        shifted == Len(end) - MaxTail
        data == IF s.data = Nil THEN NewData(mem) ELSE s.data
    IN  {[slice |-> [data |-> data, offset |-> s.offset,
                     length |-> s.length + shifted,
                     tail |-> SubSeq(end, shifted + 1, Len(end))],
          contents |-> [mem EXCEPT ![data] = @ \o SubSeq(end, 1, shifted)]]}

\* Mutant of byteSliceByAppendingSlice: the data may go on behind the slice.
AppendedAnywhere(mem, s, t) ==
    IF AppendedInTail(mem, s, t) # {} THEN AppendedInTail(mem, s, t)
    ELSE IF s.data # File /\ SliceLength(s) + SliceLength(t) < MaxSlice
    THEN AppendedInData(mem, s, t)
    ELSE {}

byteSliceByAppendingSlice(mem, s, t) ==
    IF AppendedInTail(mem, s, t) # {} THEN AppendedInTail(mem, s, t)
    ELSE IF /\ s.data # File
            /\ s.offset + s.length = Len(mem[s.data])
            /\ SliceLength(s) + SliceLength(t) < MaxSlice
    THEN AppendedInData(mem, s, t)
    ELSE {}

-----------------------------------------------------------------------------
(* Byte arrays.  An edit makes of [slices, contents] another one. *)

\* Where each slice ends.
Ends(slices) ==
    LET end[i \in 0 .. Len(slices)] ==
            IF i = 0 THEN 0 ELSE end[i - 1] + SliceLength(slices[i])
    IN  end

LengthOf(slices) == Ends(slices)[Len(slices)]

\* entryContainingOffset:, as an index.
EntryContaining(slices, offset) ==
    CHOOSE i \in DOMAIN slices : Ends(slices)[i - 1] <= offset /\ offset < Ends(slices)[i]

\* insertByteSlice:atOffset:.  The slice before the offset, or what is left
\* of the one around it, is appended to if possible.
insertByteSliceAtOffset(state, slice, offset) ==
    IF offset = 0 THEN [state EXCEPT !.slices = <<slice>> \o @]
    ELSE LET slices == state.slices
             i == EntryContaining(slices, offset - 1)
             into == offset - Ends(slices)[i - 1]
             length == SliceLength(slices[i])
             left == subsliceWithRange(slices[i], 0, into)
             right == IF into = length THEN <<>>
                      ELSE <<subsliceWithRange(slices[i], into, length - into)>>
             around(middle) == SubSeq(slices, 1, i - 1) \o middle \o right
                                  \o SubSeq(slices, i + 1, Len(slices))
             appended == byteSliceByAppendingSlice(state.contents, left, slice)
         IN  IF appended = {}
             THEN [state EXCEPT !.slices = around(<<left, slice>>)]
             ELSE LET joined == CHOOSE r \in appended : TRUE
                  IN  [slices |-> around(<<joined.slice>>),
                       contents |-> joined.contents]

\* deleteBytesInRange:.  The slices in the range are taken out; then what the
\* last one has behind the range is put back, and then what the first one has
\* before it, both where the first one began.
deleteBytesInRange(state, at, length) ==
    LET slices == state.slices
        first == EntryContaining(slices, at)
        last == EntryContaining(slices, at + length - 1)
        before == at - Ends(slices)[first - 1]
        after == Ends(slices)[last] - (at + length)
        others == SubSeq(slices, 1, first - 1) \o SubSeq(slices, last + 1, Len(slices))
        PutBack(s, i, from, n) ==
            IF n = 0 THEN s
            ELSE insertByteSliceAtOffset(s, subsliceWithRange(slices[i], from, n),
                                         Ends(slices)[first - 1])
    IN  IF length = 0 THEN state
        ELSE PutBack(PutBack([state EXCEPT !.slices = others],
                             last, SliceLength(slices[last]) - after, after),
                     first, 0, before)

\* insertByteSlice:inRange:
insertByteSliceInRange(state, slice, at, length) ==
    insertByteSliceAtOffset(deleteBytesInRange(state, at, length), slice, at)

\* insertByteArray:inRange:.  Only the first slice replaces the range.
insertByteArray(state, slices, at, length) ==
    LET inserted[i \in 0 .. Len(slices)] ==
            IF i = 0 THEN deleteBytesInRange(state, at, length)
            ELSE insertByteSliceAtOffset(inserted[i - 1], slices[i],
                                         at + Ends(slices)[i - 1])
    IN  inserted[Len(slices)]

\* subarrayWithRange:, a mutableCopy if it is the whole array.
subarrayWithRange(state, at, length) ==
    LET slices == state.slices
        first == EntryContaining(slices, at)
        last == EntryContaining(slices, at + length - 1)
        \* The part of the slice i that is in the range.
        Part(i) ==
            LET from == Max({at, Ends(slices)[i - 1]})
                to == Min({at + length, Ends(slices)[i]})
            IN  subsliceWithRange(slices[i], from - Ends(slices)[i - 1], to - from)
        parts == [k \in 1 .. (last + 1 - first) |-> Part(first + k - 1)]
    IN  IF length = LengthOf(slices) THEN state
        ELSE IF length = 0 THEN [state EXCEPT !.slices = <<>>]
        ELSE insertByteArray([state EXCEPT !.slices = <<>>], parts, 0, 0)

-----------------------------------------------------------------------------
Init ==
    /\ btree = [a \in Arrays |->
                    <<[data |-> File, offset |-> 0, length |-> Len(Original),
                       tail |-> <<>>]>>]
    /\ contents = [d \in Data \cup {File, Nil} |->
                        IF d = File THEN Original ELSE <<>>]

State(a) == [slices |-> btree[a], contents |-> contents]

\* Offsets and lengths.
Ranges(a) ==
    LET n == LengthOf(btree[a])
    IN  {r \in (0 .. n) \X (0 .. n) : r[1] + r[2] <= n}

\* Data that no array has any more is released.
Become(a, state) ==
    /\ LengthOf(state.slices) <= MaxLength
    /\ btree' = [btree EXCEPT ![a] = state.slices]
    /\ LET had == UNION {{btree'[b][i].data : i \in DOMAIN btree'[b]} : b \in Arrays}
       IN  contents' = [d \in DOMAIN contents |->
                            IF d \in Data \ had THEN <<>> ELSE state.contents[d]]
    /\ \A d \in Data : Len(contents'[d]) <= MaxData
    /\ Cardinality({d \in Data : contents'[d] # <<>>}) <= MaxObjects

\* What the calls make of an array.
Typing(a, bytes, at, length) ==
    LET new == Unshared(contents, bytes)
    IN  insertByteSliceInRange([slices |-> btree[a], contents |-> new.contents],
                               new.slice, at, length)

\* insertData: of the controller
InsertBytes(a) ==
    \E bytes \in Inserted : \E r \in Ranges(a) :
        Become(a, Typing(a, bytes, r[1], r[2]))

DeleteBytes(a) ==
    \E r \in Ranges(a) :
        Become(a, deleteBytesInRange(State(a), r[1], r[2]))

InsertArray(a, b) ==
    \E r \in Ranges(a) :
        Become(a, insertByteArray(State(a), btree[b], r[1], r[2]))

\* The other array is released for the new one.
Subarray(a, b) ==
    \E r \in Ranges(a) :
        Become(b, subarrayWithRange(State(a), r[1], r[2]))

Next ==
    \/ \E a \in Arrays : InsertBytes(a) \/ DeleteBytes(a)
    \/ \E a, b \in Arrays : InsertArray(a, b)
    \/ \E a \in Arrays : \E b \in Arrays \ {a} : Subarray(a, b)

Spec == Init /\ [][Next]_vars

-----------------------------------------------------------------------------
(* Invariants *)

\* Slices have bytes, and their memory has them: what copyBytes:range: and
\* initWithSharedData:offset:length:tail:tailLength: assert.
TypeOK ==
    /\ contents \in [Data \cup {File, Nil} -> Seq(Bytes)]
    /\ contents[File] = Original /\ contents[Nil] = <<>>
    /\ DOMAIN btree = Arrays
    /\ \A a \in Arrays : \A i \in DOMAIN btree[a] :
          LET s == btree[a][i]
          IN  /\ SliceLength(s) > 0
              /\ s.offset \in Nat /\ s.length \in Nat
              /\ s.offset + s.length <= Len(contents[s.data])
              /\ Len(s.tail) <= MaxTail
              /\ s.data = File => s.tail = <<>>

\* The bytes of an array of these slices.
TextOf(state) ==
    FlattenSeq([i \in DOMAIN state.slices |-> Copied(state.contents, state.slices[i])])

\* The edit has given the array this text, and no other array another one.
Makes(a, state, text) ==
    /\ TextOf(state) = text
    /\ \A b \in Arrays \ {a} : TextOf([state EXCEPT !.slices = btree[b]]) = TextOf(State(b))

\* Whatever slices a history of edits has left and whoever shares their
\* memory, each call does to the bytes of the array what it would do to a
\* sequence of bytes, and nothing to those of the others.
EditsAreExact ==
    \A a \in Arrays : \A r \in Ranges(a) :
        LET text == TextOf(State(a))
            Replaced(bytes) ==
                SubSeq(text, 1, r[1]) \o bytes \o SubSeq(text, r[1] + r[2] + 1, Len(text))
        IN  /\ \A bytes \in Inserted :
                  Makes(a, Typing(a, bytes, r[1], r[2]), Replaced(bytes))
            /\ Makes(a, deleteBytesInRange(State(a), r[1], r[2]), Replaced(<<>>))
            /\ \A b \in Arrays :
                  Makes(a, insertByteArray(State(a), btree[b], r[1], r[2]),
                        Replaced(TextOf(State(b))))
            /\ LET sub == subarrayWithRange(State(a), r[1], r[2])
               IN  /\ TextOf(sub) = SubSeq(text, r[1] + 1, r[1] + r[2])
                   /\ \A b \in Arrays : TextOf([sub EXCEPT !.slices = btree[b]])
                                                = TextOf(State(b))
=============================================================================
