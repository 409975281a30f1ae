------------------------- MODULE SlicedArraysProofs -------------------------
(***************************************************************************)
(* Proofs about the slices of SlicedArrays, for any memory, tails and      *)
(* limits: appending to a slice and taking a part of one do to the bytes   *)
(* what they should, and whoever shares the memory does not notice.        *)
(***************************************************************************)
EXTENDS SlicedArrays, SequenceTheorems, TLAPS

\* The contents of memory, with bytes of S.
Memories(S) ==
    {mem \in [Data \cup {File, Nil} -> Seq(S)] : mem[Nil] = <<>>}

\* The slices whose bytes are in that memory, as TypeOK says of those of the
\* arrays.
SlicesIn(mem, S) ==
    {s \in [data : Data \cup {File, Nil}, offset : Nat, length : Nat, tail : Seq(S)] :
        /\ s.offset + s.length <= Len(mem[s.data])
        /\ Len(s.tail) <= MaxTail}

-----------------------------------------------------------------------------
(* Parts of sequences *)

\* A part of a sequence is one of each longer sequence.
LEMMA PartOfLonger ==
  ASSUME NEW S, NEW e \in Seq(S), NEW x \in Seq(S),
         NEW o \in Nat, NEW n \in Nat, o + n <= Len(e)
  PROVE  SubSeq(e \o x, o + 1, o + n) = SubSeq(e, o + 1, o + n)
  <1> DEFINE p == SubSeq(e \o x, o + 1, o + n)  q == SubSeq(e, o + 1, o + n)
  <1>1. Len(e) \in Nat /\ Len(x) \in Nat
    BY LenProperties
  <1>2. /\ e \o x \in Seq(S)
        /\ Len(e \o x) = Len(e) + Len(x)
        /\ \A i \in 1 .. Len(e) + Len(x) :
              (e \o x)[i] = IF i <= Len(e) THEN e[i] ELSE x[i - Len(e)]
    BY ConcatProperties
  <1>3. \A i \in o + 1 .. o + n : (e \o x)[i] = e[i] /\ e[i] \in S
    BY <1>1, <1>2, ElementOfSeq
  <1>4. /\ p \in Seq(S)
        /\ Len(p) = IF o + 1 <= o + n THEN o + n - (o + 1) + 1 ELSE 0
        /\ \A i \in 1 .. o + n - (o + 1) + 1 : p[i] = (e \o x)[o + 1 + i - 1]
    BY <1>3, SubSeqProperties
  <1>5. /\ q \in Seq(S)
        /\ Len(q) = IF o + 1 <= o + n THEN o + n - (o + 1) + 1 ELSE 0
        /\ \A i \in 1 .. o + n - (o + 1) + 1 : q[i] = e[o + 1 + i - 1]
    BY <1>3, SubSeqProperties
  <1> HIDE DEF p, q
  <1>6. \A i \in 1 .. Len(p) : p[i] = q[i]
    BY <1>3, <1>4, <1>5
  <1>7. p = q
    BY <1>4, <1>5, <1>6, SeqEqual
  <1> QED BY <1>7 DEF p, q

\* A part as far as the end goes on with what is put behind.
LEMMA PartToTheEnd ==
  ASSUME NEW S, NEW e \in Seq(S), NEW x \in Seq(S),
         NEW o \in Nat, NEW n \in Nat, o + n = Len(e)
  PROVE  /\ SubSeq(e \o x, o + 1, o + (n + Len(x)))
                = SubSeq(e, o + 1, o + n) \o x
         /\ SubSeq(e, o + 1, o + n) \in Seq(S)
  <1> DEFINE p == SubSeq(e \o x, o + 1, o + (n + Len(x)))
             q == SubSeq(e, o + 1, o + n)
  <1>1. Len(e) \in Nat /\ Len(x) \in Nat
    BY LenProperties
  <1>2. /\ e \o x \in Seq(S)
        /\ Len(e \o x) = Len(e) + Len(x)
        /\ \A i \in 1 .. Len(e) + Len(x) :
              (e \o x)[i] = IF i <= Len(e) THEN e[i] ELSE x[i - Len(e)]
    BY ConcatProperties
  <1>3. /\ \A i \in o + 1 .. o + n : e[i] \in S
        /\ \A i \in o + 1 .. o + (n + Len(x)) : (e \o x)[i] \in S
    BY <1>1, <1>2, ElementOfSeq
  <1>4. /\ p \in Seq(S)
        /\ Len(p) = n + Len(x)
        /\ \A i \in 1 .. n + Len(x) : p[i] = (e \o x)[o + i]
    <2>1. /\ p \in Seq(S)
          /\ Len(p) = IF o + 1 <= o + (n + Len(x))
                      THEN o + (n + Len(x)) - (o + 1) + 1 ELSE 0
          /\ \A i \in 1 .. o + (n + Len(x)) - (o + 1) + 1 :
                p[i] = (e \o x)[o + 1 + i - 1]
      BY <1>1, <1>3, SubSeqProperties
    <2> HIDE DEF p
    <2>2. o + (n + Len(x)) - (o + 1) + 1 = n + Len(x)
      BY <1>1
    <2>3. Len(p) = n + Len(x)
      BY <1>1, <2>1
    <2>4. \A i \in 1 .. n + Len(x) : p[i] = (e \o x)[o + i]
      <3> TAKE i \in 1 .. n + Len(x)
      <3>1. o + 1 + i - 1 = o + i
        BY <1>1
      <3> QED BY <2>1, <2>2, <3>1
    <2> QED BY <2>1, <2>3, <2>4
  <1>5. /\ q \in Seq(S)
        /\ Len(q) = n
        /\ \A i \in 1 .. n : q[i] = e[o + i]
    <2>1. /\ q \in Seq(S)
          /\ Len(q) = IF o + 1 <= o + n THEN o + n - (o + 1) + 1 ELSE 0
          /\ \A i \in 1 .. o + n - (o + 1) + 1 : q[i] = e[o + 1 + i - 1]
      BY <1>3, SubSeqProperties
    <2> HIDE DEF q
    <2>2. o + n - (o + 1) + 1 = n
      OBVIOUS
    <2>3. Len(q) = n
      BY <2>1
    <2>4. \A i \in 1 .. n : q[i] = e[o + i]
      <3> TAKE i \in 1 .. n
      <3>1. o + 1 + i - 1 = o + i
        OBVIOUS
      <3> QED BY <2>1, <2>2, <3>1
    <2> QED BY <2>1, <2>3, <2>4
  <1> HIDE DEF p, q
  <1>6. /\ q \o x \in Seq(S)
        /\ Len(q \o x) = Len(q) + Len(x)
        /\ \A i \in 1 .. Len(q) + Len(x) :
              (q \o x)[i] = IF i <= Len(q) THEN q[i] ELSE x[i - Len(q)]
    BY <1>5, ConcatProperties
  <1>7. \A i \in 1 .. Len(p) : p[i] = (q \o x)[i]
    <2> TAKE i \in 1 .. Len(p)
    <2>1. i \in 1 .. n + Len(x) /\ o + i \in 1 .. Len(e) + Len(x)
      BY <1>1, <1>4
    <2>2. p[i] = IF o + i <= Len(e) THEN e[o + i] ELSE x[o + i - Len(e)]
      BY <1>2, <1>4, <2>1, SMTT(60)
    <2>3. (q \o x)[i] = IF i <= n THEN e[o + i] ELSE x[i - n]
      BY <1>1, <1>5, <1>6, <2>1
    <2> QED BY <1>1, <2>1, <2>2, <2>3
  <1>8. p = q \o x
    BY <1>1, <1>4, <1>5, <1>6, <1>7, SeqEqual
  <1> QED BY <1>5, <1>8 DEF p, q

\* A sequence is what it begins with and the rest.
LEMMA TwoParts ==
  ASSUME NEW S, NEW e \in Seq(S), NEW k \in 0 .. Len(e)
  PROVE  /\ SubSeq(e, 1, k) \in Seq(S) /\ Len(SubSeq(e, 1, k)) = k
         /\ SubSeq(e, k + 1, Len(e)) \in Seq(S)
         /\ Len(SubSeq(e, k + 1, Len(e))) = Len(e) - k
         /\ SubSeq(e, 1, k) \o SubSeq(e, k + 1, Len(e)) = e
  <1>1. Len(e) \in Nat /\ \A i \in 1 .. Len(e) : e[i] \in S
    BY LenProperties, ElementOfSeq
  <1>2. /\ SubSeq(e, 1, k) \in Seq(S)
        /\ Len(SubSeq(e, 1, k)) = IF 1 <= k THEN k - 1 + 1 ELSE 0
    BY <1>1, SubSeqProperties
  <1>3. /\ SubSeq(e, k + 1, Len(e)) \in Seq(S)
        /\ Len(SubSeq(e, k + 1, Len(e)))
                = IF k + 1 <= Len(e) THEN Len(e) - (k + 1) + 1 ELSE 0
    BY <1>1, SubSeqProperties
  <1>4. SubSeq(e, 1, k) \o SubSeq(e, k + 1, Len(e)) = SubSeq(e, 1, Len(e))
    <2>1. 1 \in 1 .. Len(e) + 1 /\ k \in 1 - 1 .. Len(e) /\ Len(e) \in k .. Len(e)
      BY <1>1
    <2> QED BY <2>1, ConcatAdjacentSubSeq
  <1>5. SubSeq(e, 1, Len(e)) = e
    BY SubSeqFull
  <1>6. Len(SubSeq(e, 1, k)) = k
    BY <1>1, <1>2
  <1>7. Len(SubSeq(e, k + 1, Len(e))) = Len(e) - k
    BY <1>1, <1>3
  <1> QED BY <1>2, <1>3, <1>4, <1>5, <1>6, <1>7

-----------------------------------------------------------------------------
(* Appending *)

\* What is said of a slice and of memory.
LEMMA SliceFacts ==
  ASSUME NEW S, NEW mem \in Memories(S), NEW s \in SlicesIn(mem, S)
  PROVE  /\ s.data \in Data \cup {File, Nil} /\ mem[s.data] \in Seq(S)
         /\ s.offset \in Nat /\ s.length \in Nat /\ s.tail \in Seq(S)
         /\ Len(s.tail) \in Nat /\ Len(s.tail) <= MaxTail
         /\ Len(mem[s.data]) \in Nat
         /\ s.offset + s.length <= Len(mem[s.data])
         /\ s = [data |-> s.data, offset |-> s.offset, length |-> s.length,
                 tail |-> s.tail]
  <1>1. /\ s \in [data : Data \cup {File, Nil}, offset : Nat, length : Nat,
                  tail : Seq(S)]
        /\ s.offset + s.length <= Len(mem[s.data])
        /\ Len(s.tail) <= MaxTail
    BY DEF SlicesIn
  <1>2. mem[s.data] \in Seq(S)
    BY <1>1 DEF Memories
  <1>3. Len(mem[s.data]) \in Nat /\ Len(s.tail) \in Nat
    BY <1>1, <1>2, LenProperties
  <1> QED BY <1>1, <1>2, <1>3

\* Slices are made of these fields.
LEMMA SliceMade ==
  ASSUME NEW S, NEW mem \in Memories(S),
         NEW d \in Data \cup {File, Nil}, NEW o \in Nat, NEW n \in Nat,
         NEW w \in Seq(S), o + n <= Len(mem[d]), Len(w) <= MaxTail
  PROVE  [data |-> d, offset |-> o, length |-> n, tail |-> w] \in SlicesIn(mem, S)
  BY DEF SlicesIn

\* The bytes of a slice are as many as its length.
LEMMA CopiedType ==
  ASSUME NEW S, NEW mem \in Memories(S), NEW s \in SlicesIn(mem, S)
  PROVE  /\ SubSeq(mem[s.data], s.offset + 1, s.offset + s.length) \in Seq(S)
         /\ Len(SubSeq(mem[s.data], s.offset + 1, s.offset + s.length)) = s.length
         /\ Copied(mem, s) \in Seq(S)
         /\ Len(Copied(mem, s)) = SliceLength(s)
  <1> DEFINE e == mem[s.data]  o == s.offset  n == s.length
             p == SubSeq(e, o + 1, o + n)
  <1>1. /\ e \in Seq(S) /\ o \in Nat /\ n \in Nat /\ o + n <= Len(e)
        /\ Len(e) \in Nat /\ s.tail \in Seq(S) /\ Len(s.tail) \in Nat
    BY SliceFacts
  <1> HIDE DEF e, o, n
  <1>2. \A i \in o + 1 .. o + n : e[i] \in S
    BY <1>1, ElementOfSeq
  <1>3. /\ p \in Seq(S)
        /\ Len(p) = IF o + 1 <= o + n THEN o + n - (o + 1) + 1 ELSE 0
    BY <1>1, <1>2, SubSeqProperties
  <1> HIDE DEF p
  <1>4. Len(p) = n
    BY <1>1, <1>3
  <1>5. p \o s.tail \in Seq(S) /\ Len(p \o s.tail) = n + Len(s.tail)
    BY <1>1, <1>3, <1>4, ConcatProperties
  <1> QED BY <1>3, <1>4, <1>5 DEF Copied, SliceLength, e, o, n, p

\* Sequences, where it does not matter that they are.
Text(S) == Seq(S)

\* The memory with x put behind d, and a slice with these fields.
Grown(mem, d, x) == [mem EXCEPT ![d] = @ \o x]

SliceOf(d, o, n, w) == [data |-> d, offset |-> o, length |-> n, tail |-> w]

\* Putting bytes behind one data object changes no slice.
LEMMA GrownMemory ==
  ASSUME NEW S, NEW mem \in Memories(S), NEW d \in Data, NEW x \in Text(S)
  PROVE  /\ Grown(mem, d, x) \in Memories(S)
         /\ Grown(mem, d, x)[d] = mem[d] \o x
         /\ \A u \in SlicesIn(mem, S) :
               /\ u \in SlicesIn(Grown(mem, d, x), S)
               /\ Copied(Grown(mem, d, x), u) = Copied(mem, u)
  <1> DEFINE grown == Grown(mem, d, x)
  <1>a. x \in Seq(S) /\ grown = [mem EXCEPT ![d] = @ \o x]
    BY DEF Text, Grown
  <1> HIDE DEF grown
  <1>1. mem \in [Data \cup {File, Nil} -> Seq(S)] /\ mem[Nil] = <<>> /\ mem[d] \in Seq(S)
    BY DEF Memories
  <1>2. /\ mem[d] \o x \in Seq(S)
        /\ Len(mem[d] \o x) = Len(mem[d]) + Len(x)
    BY <1>1, <1>a, ConcatProperties
  <1>3. d # Nil
    BY SlicedArraysAssumption
  <1>4. grown \in Memories(S) /\ grown[d] = mem[d] \o x
    BY <1>1, <1>2, <1>3, <1>a DEF Memories
  <1>5. \A u \in SlicesIn(mem, S) :
           u \in SlicesIn(grown, S) /\ Copied(grown, u) = Copied(mem, u)
    <2> TAKE u \in SlicesIn(mem, S)
    <2>1. CASE u.data # d
      <3>1. grown[u.data] = mem[u.data]
        BY <2>1, <1>1, <1>a, SliceFacts
      <3> QED BY <3>1 DEF SlicesIn, Copied
    <2>2. CASE u.data = d
      <3>1. /\ u.offset \in Nat /\ u.length \in Nat
            /\ u.offset + u.length <= Len(mem[d])
            /\ u \in [data : Data \cup {File, Nil}, offset : Nat, length : Nat,
                      tail : Seq(S)]
            /\ Len(u.tail) <= MaxTail
        BY <2>2, SliceFacts DEF SlicesIn
      <3>2. u.offset + u.length <= Len(grown[d])
        BY <3>1, <1>1, <1>2, <1>4, <1>a, LenProperties
      <3>3. SubSeq(grown[d], u.offset + 1, u.offset + u.length)
                = SubSeq(mem[d], u.offset + 1, u.offset + u.length)
        <4> DEFINE e == mem[d]  o == u.offset  n == u.length
        <4>1. /\ e \in Seq(S) /\ o \in Nat /\ n \in Nat /\ o + n <= Len(e)
              /\ grown[d] = e \o x
          BY <3>1, <1>1, <1>4
        <4> HIDE DEF e, o, n
        <4>2. SubSeq(e \o x, o + 1, o + n) = SubSeq(e, o + 1, o + n)
          BY <4>1, <1>a, PartOfLonger
        <4> QED BY <4>1, <4>2 DEF e, o, n
      <3> QED BY <2>2, <3>1, <3>2, <3>3 DEF SlicesIn, Copied
    <2> QED BY <2>1, <2>2
  <1> QED BY <1>4, <1>5 DEF grown

\* r is an answer of byteSliceByAppendingSlice: that is as it should be.
Exact(mem, s, t, r, S) ==
    /\ r.contents \in Memories(S)
    /\ r.slice \in SlicesIn(r.contents, S)
    /\ Copied(r.contents, r.slice) = Copied(mem, s) \o Copied(mem, t)
    /\ \A u \in SlicesIn(mem, S) :
          u \in SlicesIn(r.contents, S) /\ Copied(r.contents, u) = Copied(mem, u)

\* A slice with other fields.
LEMMA SliceWithTail ==
  ASSUME NEW S, NEW mem \in Memories(S), NEW s \in SlicesIn(mem, S), NEW w
  PROVE  [s EXCEPT !.tail = w]
            = [data |-> s.data, offset |-> s.offset, length |-> s.length, tail |-> w]
  <1>1. s \in [data : Data \cup {File, Nil}, offset : Nat, length : Nat, tail : Seq(S)]
    BY DEF SlicesIn
  <1> QED BY <1>1

\* Three texts, one behind the other.
LEMMA Concat3 ==
  ASSUME NEW S, NEW x \in Seq(S), NEW y \in Seq(S), NEW z \in Seq(S)
  PROVE  x \o (y \o z) = (x \o y) \o z
  BY ConcatAssociative, SMTT(60)

\* The same of texts that stay unexpanded.
LEMMA TextsJoin ==
  ASSUME NEW S
  PROVE  \A a, b, c \in Text(S) : a \o (b \o c) = (a \o b) \o c
  BY Concat3 DEF Text

\* What fits in the tail of s is put there.
LEMMA InTailIsExact ==
  ASSUME NEW S, NEW mem \in Memories(S),
         NEW s \in SlicesIn(mem, S), NEW t \in SlicesIn(mem, S),
         NEW r \in AppendedInTail(mem, s, t)
  PROVE  Exact(mem, s, t, r, S)
  <1> DEFINE p == SubSeq(mem[s.data], s.offset + 1, s.offset + s.length)
             w == s.tail \o Copied(mem, t)
             joined == [data |-> s.data, offset |-> s.offset, length |-> s.length,
                        tail |-> w]
  <1>1. /\ SliceLength(t) <= MaxTail - Len(s.tail)
        /\ r = [slice |-> [s EXCEPT !.tail = @ \o Copied(mem, t)], contents |-> mem]
    BY DEF AppendedInTail
  <1>2. /\ p \in Seq(S) /\ s.tail \in Seq(S) /\ Copied(mem, t) \in Seq(S)
        /\ Len(Copied(mem, t)) = SliceLength(t)
    BY SliceFacts, CopiedType
  <1>3. w \in Seq(S) /\ Len(w) = Len(s.tail) + SliceLength(t)
    BY <1>2, ConcatProperties, ZenonT(100)
  <1>4. Len(w) <= MaxTail
    BY <1>1, <1>2, <1>3, LenProperties, SlicedArraysAssumption
  <1>5. r.slice = joined /\ r.contents = mem
    BY <1>1, SliceWithTail
  <1>6. joined \in SlicesIn(mem, S)
    <2> HIDE DEF w
    <2> QED BY <1>3, <1>4, SliceFacts, SliceMade
  <1>7. Copied(mem, joined) = p \o w
    BY DEF Copied
  <1>8. p \o w = (p \o s.tail) \o Copied(mem, t)
    <2> DEFINE y == s.tail  z == Copied(mem, t)
    <2>1. p \in Seq(S) /\ y \in Seq(S) /\ z \in Seq(S)
      BY <1>2
    <2> HIDE DEF p, y, z
    <2>2. p \o (y \o z) = (p \o y) \o z
      BY <2>1, Concat3
    <2> QED BY <2>2 DEF y, z
  <1>9. p \o s.tail = Copied(mem, s)
    BY DEF Copied
  <1> HIDE DEF p, w, joined
  <1> QED BY <1>5, <1>6, <1>7, <1>8, <1>9 DEF Exact

\* The data that is appended to: it ends where the slice does.
LEMMA DataOfAppended ==
  ASSUME NEW S, NEW mem \in Memories(S), NEW s \in SlicesIn(mem, S),
         s.data # File, s.offset + s.length = Len(mem[s.data]),
         \E free \in Data : mem[free] = <<>>,
         NEW d, d = IF s.data = Nil THEN NewData(mem) ELSE s.data
  PROVE  /\ d \in Data /\ mem[d] \in Seq(S)
         /\ s.offset + s.length = Len(mem[d])
         /\ SubSeq(mem[d], s.offset + 1, s.offset + s.length)
                = SubSeq(mem[s.data], s.offset + 1, s.offset + s.length)
  <1>1. CASE s.data = Nil
    <2>1. d \in Data /\ mem[d] = <<>>
      BY <1>1 DEF NewData
    <2>2. mem[s.data] = <<>> /\ mem \in [Data \cup {File, Nil} -> Seq(S)]
      BY <1>1 DEF Memories
    <2> QED BY <2>1, <2>2
  <1>2. CASE s.data # Nil
    <2>1. d = s.data /\ d \in Data
      BY <1>2, SliceFacts
    <2> QED BY <2>1, SliceFacts
  <1> QED BY <1>1, <1>2

\* The last MaxTail bytes of a text, and those before.
LEMMA TailCut ==
  ASSUME NEW S, NEW end \in Seq(S), NEW k, k = Len(end) - MaxTail, k \in Nat
  PROVE  /\ SubSeq(end, 1, k) \in Seq(S) /\ Len(SubSeq(end, 1, k)) = k
         /\ SubSeq(end, k + 1, Len(end)) \in Seq(S)
         /\ Len(SubSeq(end, k + 1, Len(end))) = MaxTail
         /\ SubSeq(end, 1, k) \o SubSeq(end, k + 1, Len(end)) = end
  <1>1. k \in 0 .. Len(end) /\ Len(end) - k = MaxTail
    BY LenProperties, SlicedArraysAssumption
  <1> QED BY <1>1, TwoParts

\* What comes after o in e, n bytes of it, and then x and w.
Joined(e, o, n, x, w) == (SubSeq(e, o + 1, o + n) \o x) \o w

\* The slice at the end of the data d after x has been put there.
LEMMA SliceGrown ==
  ASSUME NEW S, NEW mem \in Memories(S), NEW d \in Data,
         NEW o \in Nat, NEW n \in Nat, o + n = Len(mem[d]),
         NEW x \in Text(S), NEW w \in Text(S), Len(w) = MaxTail
  PROVE  /\ SliceOf(d, o, n + Len(x), w) \in SlicesIn(Grown(mem, d, x), S)
         /\ Copied(Grown(mem, d, x), SliceOf(d, o, n + Len(x), w))
                = Joined(mem[d], o, n, x, w)
  <1> DEFINE e == mem[d]  grown == Grown(mem, d, x)
             joined == SliceOf(d, o, n + Len(x), w)
  <1>1. /\ e \in Seq(S) /\ d \in Data \cup {File, Nil}
        /\ x \in Seq(S) /\ w \in Seq(S)
    BY DEF Memories, Text
  <1>2. o + n = Len(e) /\ grown[d] = e \o x /\ grown \in Memories(S)
    BY GrownMemory
  <1> HIDE DEF e, grown
  <1>3. Len(e \o x) = Len(e) + Len(x) /\ Len(x) \in Nat /\ Len(w) <= MaxTail
    <2>1. Len(e \o x) = Len(e) + Len(x)
      BY <1>1, ConcatProperties
    <2>2. Len(x) \in Nat
      BY <1>1, LenProperties
    <2> QED BY <2>1, <2>2, SlicedArraysAssumption
  <1>4. joined \in SlicesIn(grown, S)
    <2>1. n + Len(x) \in Nat /\ o + (n + Len(x)) <= Len(grown[d])
      BY <1>2, <1>3
    <2> QED BY <1>1, <1>2, <1>3, <2>1, SliceMade DEF SliceOf
  <1>5. SubSeq(e \o x, o + 1, o + (n + Len(x))) = SubSeq(e, o + 1, o + n) \o x
    BY <1>1, <1>2, PartToTheEnd, SMTT(60)
  <1>6. Copied(grown, joined) = SubSeq(grown[d], o + 1, o + (n + Len(x))) \o w
    BY DEF Copied, SliceOf
  <1> QED BY <1>2, <1>4, <1>5, <1>6 DEF e, grown, Joined

\* What does not fit goes to shared memory: that of s, if s ends where it ends,
\* or memory of its own; only the end of it stays in the tail.
LEMMA InDataIsExact ==
  ASSUME NEW S, NEW mem \in Memories(S),
         NEW s \in SlicesIn(mem, S), NEW t \in SlicesIn(mem, S),
         s.data # File, AppendedInTail(mem, s, t) = {},
         s.offset + s.length = Len(mem[s.data]),
         \E free \in Data : mem[free] = <<>>,
         NEW r \in AppendedInData(mem, s, t)
  PROVE  Exact(mem, s, t, r, S)
  <1> DEFINE end == s.tail \o Copied(mem, t)
             k == Len(end) - MaxTail
             d == IF s.data = Nil THEN NewData(mem) ELSE s.data
             x == SubSeq(end, 1, k)
             w == SubSeq(end, k + 1, Len(end))
             grown == Grown(mem, d, x)
             joined == SliceOf(d, s.offset, s.length + k, w)
             p == SubSeq(mem[d], s.offset + 1, s.offset + s.length)
  <1>1. r = [slice |-> joined, contents |-> grown]
    BY Zenon DEF AppendedInData, Grown, SliceOf
  <1>2. /\ d \in Data /\ mem[d] \in Seq(S)
        /\ s.offset + s.length = Len(mem[d])
        /\ p = SubSeq(mem[s.data], s.offset + 1, s.offset + s.length)
    <2> DEFINE dd == d
    <2>1. dd = IF s.data = Nil THEN NewData(mem) ELSE s.data
      OBVIOUS
    <2> HIDE DEF dd
    <2>2. /\ dd \in Data /\ mem[dd] \in Seq(S)
          /\ s.offset + s.length = Len(mem[dd])
          /\ SubSeq(mem[dd], s.offset + 1, s.offset + s.length)
                = SubSeq(mem[s.data], s.offset + 1, s.offset + s.length)
      BY <2>1, DataOfAppended, ZenonT(100)
    <2> QED BY <2>2 DEF dd
  <1>3. /\ s.offset \in Nat /\ s.length \in Nat
        /\ s.tail \in Seq(S) /\ Len(s.tail) \in Nat
        /\ Copied(mem, t) \in Seq(S) /\ SliceLength(t) = Len(Copied(mem, t))
        /\ SliceLength(t) \in Nat
        /\ SubSeq(mem[s.data], s.offset + 1, s.offset + s.length) \in Seq(S)
    BY SliceFacts, CopiedType, LenProperties
  <1>4. end \in Seq(S) /\ Len(end) = Len(s.tail) + SliceLength(t) /\ Len(end) \in Nat
    <2>1. end \in Seq(S) /\ Len(end) = Len(s.tail) + Len(Copied(mem, t))
      BY <1>3, ConcatProperties
    <2> HIDE DEF end
    <2> QED BY <1>3, <2>1
  <1>5. k \in Nat
    <2>1. ~(SliceLength(t) <= MaxTail - Len(s.tail))
      BY DEF AppendedInTail
    <2> HIDE DEF end
    <2> QED BY <1>3, <1>4, <2>1, SlicedArraysAssumption
  <1> HIDE DEF end, d, p
  <1>6. /\ x \in Seq(S) /\ Len(x) = k
        /\ w \in Seq(S) /\ Len(w) = MaxTail
        /\ x \o w = end
    <2> DEFINE kk == k
    <2>1. kk = Len(end) - MaxTail /\ kk \in Nat
      BY <1>5
    <2> HIDE DEF kk
    <2>2. /\ SubSeq(end, 1, kk) \in Seq(S) /\ Len(SubSeq(end, 1, kk)) = kk
          /\ SubSeq(end, kk + 1, Len(end)) \in Seq(S)
          /\ Len(SubSeq(end, kk + 1, Len(end))) = MaxTail
          /\ SubSeq(end, 1, kk) \o SubSeq(end, kk + 1, Len(end)) = end
      BY <1>4, <2>1, TailCut, ZenonT(100)
    <2> QED BY <2>2 DEF kk
  <1> HIDE DEF k, x, w
  <1>7. x \in Text(S) /\ w \in Text(S) /\ p \in Text(S)
        /\ s.tail \in Text(S) /\ Copied(mem, t) \in Text(S)
    BY <1>2, <1>3, <1>6 DEF Text
  <1>8. /\ grown \in Memories(S)
        /\ \A u \in SlicesIn(mem, S) :
              u \in SlicesIn(grown, S) /\ Copied(grown, u) = Copied(mem, u)
    BY <1>2, <1>7, GrownMemory
  <1>9. /\ joined \in SlicesIn(grown, S)
        /\ Copied(grown, joined) = (p \o x) \o w
    <2> DEFINE o == s.offset  n == s.length
    <2>1. o \in Nat /\ n \in Nat /\ o + n = Len(mem[d]) /\ k = Len(x)
          /\ d \in Data /\ x \in Text(S) /\ w \in Text(S) /\ Len(w) = MaxTail
      BY <1>2, <1>3, <1>6, <1>7
    <2> HIDE DEF o, n, joined, grown
    <2>2. /\ SliceOf(d, o, n + Len(x), w) \in SlicesIn(Grown(mem, d, x), S)
          /\ Copied(Grown(mem, d, x), SliceOf(d, o, n + Len(x), w))
                = Joined(mem[d], o, n, x, w)
      BY <2>1, SliceGrown
    <2>3. joined = SliceOf(d, o, n + Len(x), w) /\ grown = Grown(mem, d, x)
      BY <2>1 DEF joined, grown, o, n
    <2>4. (p \o x) \o w = Joined(mem[d], o, n, x, w)
      BY DEF p, o, n, Joined
    <2> QED BY <2>2, <2>3, <2>4
  <1> HIDE DEF joined, grown
  <1>10. (p \o x) \o w = (p \o s.tail) \o Copied(mem, t)
    <2>1. \A a, b, c \in Text(S) : a \o (b \o c) = (a \o b) \o c
      BY TextsJoin
    <2>2. (p \o x) \o w = p \o end
      BY <1>6, <1>7, <2>1, ZenonT(100)
    <2>3. (p \o s.tail) \o Copied(mem, t) = p \o end
      BY <1>7, <2>1, ZenonT(100) DEF end
    <2> QED BY <2>2, <2>3
  <1>11. p \o s.tail = Copied(mem, s)
    BY <1>2 DEF Copied
  <1>12. r.slice = joined /\ r.contents = grown
    BY <1>1
  <1> QED BY <1>8, <1>9, <1>10, <1>11, <1>12 DEF Exact

-----------------------------------------------------------------------------
\* What byteSliceByAppendingSlice: answers, if it does not answer nil, is a
\* slice of the memory as it is then, and reads as the one slice and then the
\* other, whether they share memory or not.
THEOREM AppendingIsExact ==
  ASSUME NEW S, NEW mem \in Memories(S), \E free \in Data : mem[free] = <<>>,
         NEW s \in SlicesIn(mem, S), NEW t \in SlicesIn(mem, S),
         NEW r \in byteSliceByAppendingSlice(mem, s, t)
  PROVE  Exact(mem, s, t, r, S)
  <1>1. CASE AppendedInTail(mem, s, t) # {}
    <2>1. r \in AppendedInTail(mem, s, t)
      BY <1>1 DEF byteSliceByAppendingSlice
    <2> QED BY <2>1, InTailIsExact
  <1>2. CASE AppendedInTail(mem, s, t) = {}
    <2>1. /\ s.data # File
          /\ s.offset + s.length = Len(mem[s.data])
          /\ r \in AppendedInData(mem, s, t)
      BY <1>2 DEF byteSliceByAppendingSlice
    <2> QED BY <1>2, <2>1, InDataIsExact
  <1> QED BY <1>1, <1>2

\* Whoever else has slices in that memory, of whatever array, subarray, undo
\* operation or pasteboard, reads the same bytes as before.
THEOREM OthersKeepTheirBytes ==
  ASSUME NEW S, NEW mem \in Memories(S), \E free \in Data : mem[free] = <<>>,
         NEW s \in SlicesIn(mem, S), NEW t \in SlicesIn(mem, S),
         NEW r \in byteSliceByAppendingSlice(mem, s, t),
         NEW u \in SlicesIn(mem, S)
  PROVE  u \in SlicesIn(r.contents, S) /\ Copied(r.contents, u) = Copied(mem, u)
  BY AppendingIsExact DEF Exact

-----------------------------------------------------------------------------
(* Taking a part *)

\* The lesser of two lengths.
LEMMA LesserOfTwo ==
  ASSUME NEW a \in Nat, NEW b \in Nat
  PROVE  Min({a, b}) = IF a <= b THEN a ELSE b
  <1>1. \E x \in {a, b} : \A z \in {a, b} : x =< z
    OBVIOUS
  <1>2. Min({a, b}) \in {a, b} /\ \A z \in {a, b} : Min({a, b}) =< z
    BY <1>1 DEF Min
  <1> QED BY <1>2

\* How many bytes of the part are in the data.
InData(at, n, l) == IF at < l THEN Min({n, l - at}) ELSE 0

\* Which bytes of a part of a slice are in its data: those before the tail.
LEMMA PartInData ==
  ASSUME NEW at \in Nat, NEW n \in Nat, NEW l \in Nat
  PROVE  /\ InData(at, n, l) \in 0 .. n
         /\ InData(at, n, l) > 0 => at + InData(at, n, l) <= l
         /\ \A i \in 1 .. n : i <= InData(at, n, l) <=> at + i <= l
         /\ InData(at, n, l) < n => at + InData(at, n, l) >= l
  <1>1. CASE at < l
    <2>1. InData(at, n, l) = IF n <= l - at THEN n ELSE l - at
      BY <1>1, LesserOfTwo DEF InData
    <2> QED BY <1>1, <2>1
  <1>2. CASE ~(at < l)
    BY <1>2 DEF InData
  <1> QED BY <1>1, <1>2

\* A part of a sequence, as its bytes.
BytesOf(e, o, n) == SubSeq(e, o + 1, o + n)

\* The bytes of a part of a sequence, one by one.
LEMMA PartBytes ==
  ASSUME NEW S, NEW e \in Seq(S), NEW o \in Int, NEW n \in Nat,
         n > 0 => o \in Nat /\ o + n <= Len(e)
  PROVE  /\ BytesOf(e, o, n) \in Seq(S)
         /\ Len(BytesOf(e, o, n)) = n
         /\ \A i \in 1 .. n : BytesOf(e, o, n)[i] = e[o + i]
  <1> DEFINE p == SubSeq(e, o + 1, o + n)
  <1>1. \A i \in o + 1 .. o + n : e[i] \in S
    BY ElementOfSeq, LenProperties
  <1>2. /\ p \in Seq(S)
        /\ Len(p) = IF o + 1 <= o + n THEN o + n - (o + 1) + 1 ELSE 0
        /\ \A i \in 1 .. o + n - (o + 1) + 1 : p[i] = e[o + 1 + i - 1]
    BY <1>1, SubSeqProperties
  <1> HIDE DEF p
  <1>3. Len(p) = n
    BY <1>2
  <1>4. o + n - (o + 1) + 1 = n
    OBVIOUS
  <1>5. \A i \in 1 .. n : p[i] = e[o + i]
    <2> TAKE i \in 1 .. n
    <2>1. o + 1 + i - 1 = o + i
      OBVIOUS
    <2> QED BY <1>2, <1>4, <2>1
  <1> QED BY <1>2, <1>3, <1>5 DEF p, BytesOf

\* subsliceWithRange: reads as that part of the slice, whether it ends in the
\* data, begins in the tail or has bytes of both.
THEOREM PartsAreExact ==
  ASSUME NEW S, NEW mem \in Memories(S), NEW s \in SlicesIn(mem, S),
         NEW at \in Nat, NEW n \in Nat, at + n <= SliceLength(s)
  PROVE  /\ subsliceWithRange(s, at, n) \in SlicesIn(mem, S)
         /\ Copied(mem, subsliceWithRange(s, at, n))
                = SubSeq(Copied(mem, s), at + 1, at + n)
  <1> DEFINE e == mem[s.data]
             o == s.offset
             l == s.length
             y == s.tail
             m == InData(at, n, l)
             d == IF m > 0 THEN s.data ELSE Nil
             b == IF m > 0 THEN o + at ELSE 0
             v == SubSeq(y, at + m - l + 1, at + n - l)
             q == BytesOf(mem[d], b, m)
             p == BytesOf(e, o, l)
             c == Copied(mem, s)
             part == BytesOf(c, at, n)
  <1>1. subsliceWithRange(s, at, n) = SliceOf(d, b, m, v)
    BY Zenon DEF subsliceWithRange, SliceOf, InData
  <1>2. Copied(mem, SliceOf(d, b, m, v)) = q \o v
    BY Zenon DEF Copied, SliceOf, BytesOf
  <1>3. /\ e \in Seq(S) /\ s.data \in Data \cup {File, Nil}
        /\ o \in Nat /\ l \in Nat /\ o + l <= Len(e) /\ Len(e) \in Nat
        /\ y \in Seq(S) /\ Len(y) \in Nat /\ Len(y) <= MaxTail
        /\ at + n <= l + Len(y)
    BY SliceFacts DEF SliceLength
  <1>4. c \in Seq(S) /\ Len(c) = l + Len(y) /\ c = p \o y /\ mem[Nil] = <<>>
    BY CopiedType DEF SliceLength, Copied, Memories, BytesOf
  <1> HIDE DEF e, o, l, y, c
  <1>5. /\ m \in 0 .. n
        /\ m > 0 => at + m <= l
        /\ \A i \in 1 .. n : i <= m <=> at + i <= l
        /\ m < n => at + m >= l
    <2> HIDE DEF m
    <2>1. l \in Nat
      BY <1>3
    <2> QED BY <2>1, PartInData DEF m
  <1> HIDE DEF m
  <1>6. /\ p \in Seq(S) /\ Len(p) = l
        /\ \A i \in 1 .. l : p[i] = e[o + i]
    <2> HIDE DEF p
    <2> QED BY <1>3, PartBytes DEF p
  <1>7. /\ part \in Seq(S) /\ Len(part) = n
        /\ \A i \in 1 .. n : part[i] = c[at + i]
    <2>1. at + n <= Len(c)
      BY <1>3, <1>4
    <2>2. c \in Seq(S)
      BY <1>4
    <2> HIDE DEF part
    <2> QED BY <2>1, <2>2, PartBytes DEF part
  <1>8. /\ v \in Seq(S) /\ Len(v) = n - m
        /\ \A i \in 1 .. n - m : v[i] = y[at + m - l + i]
    <2> DEFINE from == at + m - l  r == n - m
    <2>1. /\ from \in Int /\ r \in Nat /\ from + r = at + n - l
          /\ r > 0 => from \in Nat /\ from + r <= Len(y)
      BY <1>3, <1>5
    <2>2. v = BytesOf(y, from, r)
      BY <2>1 DEF BytesOf
    <2> HIDE DEF v, from, r
    <2>3. /\ v \in Seq(S) /\ Len(v) = r
          /\ \A i \in 1 .. r : v[i] = y[from + i]
      <3>1. y \in Seq(S)
        BY <1>3
      <3> QED BY <2>1, <2>2, <3>1, PartBytes
    <2> QED BY <2>3 DEF from, r
  <1>9. /\ d \in Data \cup {File, Nil} /\ mem[d] \in Seq(S)
        /\ b \in Nat /\ b + m <= Len(mem[d])
        /\ m > 0 => mem[d] = e /\ b = o + at
    <2>1. CASE m > 0
      BY <1>3, <1>5, <2>1, SMTT(60) DEF e
    <2>2. CASE m = 0
      BY <1>4, <1>5, <2>2 DEF Memories
    <2> QED BY <1>5, <2>1, <2>2
  <1>10. /\ q \in Seq(S) /\ Len(q) = m
         /\ \A i \in 1 .. m : q[i] = mem[d][b + i]
    <2> DEFINE f == mem[d]
    <2>1. f \in Seq(S) /\ b \in Nat /\ m \in Nat /\ b + m <= Len(f)
      BY <1>5, <1>9
    <2> HIDE DEF q, d, b, f
    <2>2. /\ BytesOf(f, b, m) \in Seq(S) /\ Len(BytesOf(f, b, m)) = m
          /\ \A i \in 1 .. m : BytesOf(f, b, m)[i] = f[b + i]
      BY <2>1, PartBytes
    <2> QED BY <2>2 DEF q, f
  <1> HIDE DEF d, b, v, q, p, part
  <1>11. SliceOf(d, b, m, v) \in SlicesIn(mem, S)
    <2>1. m \in Nat /\ Len(v) <= MaxTail
      BY <1>3, <1>5, <1>8, SlicedArraysAssumption
    <2> QED BY <1>8, <1>9, <2>1, SliceMade DEF SliceOf
  <1>12. /\ q \o v \in Seq(S) /\ Len(q \o v) = n
         /\ \A i \in 1 .. n : (q \o v)[i] = IF i <= m THEN q[i] ELSE v[i - m]
    <2>1. /\ q \o v \in Seq(S)
          /\ Len(q \o v) = Len(q) + Len(v)
          /\ \A i \in 1 .. Len(q) + Len(v) :
                (q \o v)[i] = IF i <= Len(q) THEN q[i] ELSE v[i - Len(q)]
      BY <1>8, <1>10, ConcatProperties, ZenonT(100)
    <2>2. Len(q) + Len(v) = n /\ Len(q) = m
      BY <1>5, <1>8, <1>10
    <2> QED BY <2>1, <2>2
  <1>13. \A i \in 1 .. l + Len(y) :
            /\ i <= l => c[i] = e[o + i]
            /\ ~(i <= l) => c[i] = y[i - l]
    <2>1. \A i \in 1 .. Len(p) + Len(y) :
             c[i] = IF i <= Len(p) THEN p[i] ELSE y[i - Len(p)]
      BY <1>3, <1>4, <1>6, ConcatProperties
    <2> QED BY <1>3, <1>6, <2>1
  <1>14. \A i \in 1 .. n : (q \o v)[i] = part[i]
    <2> TAKE i \in 1 .. n
    <2>1. at + i \in 1 .. l + Len(y)
      BY <1>3
    <2>2. part[i] = c[at + i]
      BY <1>7
    <2>a. /\ at + i <= l => c[at + i] = e[o + (at + i)]
          /\ ~(at + i <= l) => c[at + i] = y[(at + i) - l]
      <3> DEFINE j == at + i
      <3>1. j \in 1 .. l + Len(y)
        BY <2>1
      <3> HIDE DEF j
      <3>2. /\ j <= l => c[j] = e[o + j]
            /\ ~(j <= l) => c[j] = y[j - l]
        BY <1>13, <3>1
      <3> QED BY <3>2, Zenon DEF j
    <2>3. CASE i <= m
      <3>1. (q \o v)[i] = q[i] /\ q[i] = e[b + i] /\ b + i = o + (at + i)
        <4>1. (q \o v)[i] = q[i]
          BY <1>12, <2>3
        <4>2. i \in 1 .. m /\ m > 0
          BY <1>5, <2>3
        <4>3. q[i] = e[b + i]
          BY <1>9, <1>10, <4>2
        <4> QED BY <1>3, <1>9, <4>1, <4>2, <4>3
      <3> QED BY <1>5, <2>2, <2>a, <2>3, <3>1
    <2>4. CASE ~(i <= m)
      <3>1. i - m \in 1 .. n - m /\ at + m - l + (i - m) = (at + i) - l
        BY <1>3, <1>5, <2>4
      <3>2. (q \o v)[i] = y[(at + i) - l]
        BY <1>8, <1>12, <2>4, <3>1
      <3>3. ~(at + i <= l)
        BY <1>5, <2>4
      <3>4. c[at + i] = y[(at + i) - l]
        BY <2>a, <3>3
      <3> QED BY <2>2, <3>2, <3>4, Zenon
    <2> QED BY <2>3, <2>4
  <1>15. q \o v = part
    BY <1>7, <1>12, <1>14, SeqEqual
  <1> QED BY <1>1, <1>2, <1>11, <1>15 DEF part, c, BytesOf
=============================================================================
