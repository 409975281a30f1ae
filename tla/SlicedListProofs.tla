------------------------- MODULE SlicedListProofs -------------------------
(***************************************************************************)
(* Proofs about the byte arrays of SlicedArrays, for any bytes, any number *)
(* of arrays, and any tails and limits: in all reachable states the bytes  *)
(* of every slice are in its memory, and each call does to the text of an  *)
(* array what it would do to a sequence of bytes, and to those who share   *)
(* its memory nothing.                                                     *)
(*                                                                         *)
(* The argument goes from a slice to a list of them to a sequence of       *)
(* calls.  TextIn is what a list reads as; Ends, which finds the slice of  *)
(* an offset, are the lengths of the beginnings of the text.  GoesOn says  *)
(* what an edit may do to memory: whatever could be read before reads the  *)
(* same afterwards.  Edited says that an edit has made a text so, and      *)
(* that it has taken at most k new data objects.                           *)
(***************************************************************************)
EXTENDS SlicedArraysProofs, SequenceLemmas, FiniteSetTheorems

-----------------------------------------------------------------------------
(* Sequences put one behind the other *)

\* f are the sequences that the first of ss make, one behind the other.
Flattened(f, ss, S) ==
    /\ f \in [0 .. Len(ss) -> Seq(S)] /\ f[0] = <<>>
    /\ \A i \in 1 .. Len(ss) : f[i] = f[i - 1] \o ss[i]

\* There are such sequences, and the last of them is the whole.
LEMMA Flattens ==
  ASSUME NEW S, NEW ss \in Seq(Seq(S))
  PROVE  \E f : Flattened(f, ss, S)
  <1> DEFINE n == Len(ss)
             step == [i \in 1 .. n |-> [t \in Seq(S) |-> t \o ss[i]]]
  <1>1. n \in Nat /\ \A i \in 1 .. n : ss[i] \in Seq(S)
    BY LenProperties, ElementOfSeq
  <1>2. step \in [1 .. n -> [Seq(S) -> Seq(S)]]
    <2>1. \A i \in 1 .. n : \A t \in Seq(S) : t \o ss[i] \in Seq(S)
      BY <1>1, ConcatProperties
    <2> HIDE DEF n
    <2> QED BY <2>1
  <1>3. \A i \in 1 .. n : \A t \in Seq(S) : step[i][t] = t \o ss[i]
    OBVIOUS
  <1> HIDE DEF step
  <1>4. PICK f : Iterated(f, n, Seq(S), <<>>, step)
    <2> HIDE DEF n
    <2> QED BY <1>1, <1>2, EmptySeq, Iterates
  <1>5. Flattened(f, ss, S)
    <2>1. /\ f \in [0 .. n -> Seq(S)] /\ f[0] = <<>>
          /\ \A i \in 1 .. n : f[i] = step[i][f[i - 1]]
      BY <1>4 DEF Iterated
    <2>2. \A i \in 1 .. n : f[i] = f[i - 1] \o ss[i]
      <3> TAKE i \in 1 .. n
      <3>1. i - 1 \in 0 .. n
        BY <1>1
      <3>2. f[i - 1] \in Seq(S)
        BY <2>1, <3>1
      <3> QED BY <1>3, <2>1, <3>2
    <2> QED BY <2>1, <2>2 DEF Flattened
  <1> QED BY <1>5

\* They are what FlattenSeq makes.
LEMMA FlattenIs ==
  ASSUME NEW S, NEW ss \in Seq(Seq(S)), NEW f, Flattened(f, ss, S)
  PROVE  /\ FlattenSeq(ss) = f[Len(ss)]
         /\ FlattenSeq(ss) \in Seq(S)
  <1> DEFINE n == Len(ss)
             flatten[i \in 1 .. n] == IF i = 1 THEN ss[i] ELSE flatten[i - 1] \o ss[i]
             Equation(g) == g = [i \in 1 .. n |-> IF i = 1 THEN ss[i] ELSE g[i - 1] \o ss[i]]
  <1>1. n \in Nat /\ \A i \in 1 .. n : ss[i] \in Seq(S)
    BY LenProperties, ElementOfSeq
  <1>2. /\ f \in [0 .. n -> Seq(S)] /\ f[0] = <<>>
        /\ \A i \in 1 .. n : f[i] = f[i - 1] \o ss[i]
    BY DEF Flattened
  <1>3. f[n] \in Seq(S)
    BY <1>1, <1>2
  <1>4. CASE n = 0
    <2>1. ss = <<>>
      BY <1>4, EmptySeq
    <2> QED BY <1>2, <1>3, <1>4, <2>1 DEF FlattenSeq
  <1>5. CASE n # 0
    <2>1. FlattenSeq(ss) = flatten[n]
      BY <1>5 DEF FlattenSeq
    <2>2. flatten = CHOOSE g : Equation(g)
      OBVIOUS
    <2> HIDE DEF flatten
    <2>3. \E g : Equation(g)
      <3> DEFINE g == [i \in 1 .. n |-> f[i]]
      <3>1. \A i \in 1 .. n : f[i] = IF i = 1 THEN ss[i] ELSE g[i - 1] \o ss[i]
        <4> TAKE i \in 1 .. n
        <4>1. CASE i = 1
          <5>1. f[1] = <<>> \o ss[1] /\ ss[1] \in Seq(S)
            <6>1. 1 \in 1 .. n /\ 1 - 1 = 0
              BY <4>1
            <6>2. f[1] = f[1 - 1] \o ss[1]
              BY <1>2, <6>1
            <6> QED BY <1>1, <1>2, <6>1, <6>2
          <5>2. <<>> \o ss[1] = ss[1]
            BY <5>1, ConcatEmptySeq
          <5> QED BY <4>1, <5>1, <5>2
        <4>2. CASE i # 1
          <5>1. i - 1 \in 1 .. n
            BY <1>1, <4>2
          <5> QED BY <1>2, <4>2, <5>1
        <4> QED BY <4>1, <4>2
      <3>2. Equation(g)
        <4> HIDE DEF n
        <4> QED BY <3>1
      <3> QED BY <3>2
    <2>4. Equation(flatten)
      <3> HIDE DEF Equation
      <3> QED BY <2>2, <2>3
    <2>5. \A i \in 1 .. n : flatten[i] = IF i = 1 THEN ss[i] ELSE flatten[i - 1] \o ss[i]
      <3> HIDE DEF n
      <3> QED BY <2>4
    <2> HIDE DEF Equation
    <2> DEFINE h == [i \in 0 .. n |-> IF i = 0 THEN <<>> ELSE flatten[i]]
    <2>6. h[0] = f[0]
      BY <1>1, <1>2
    <2>7. \A i \in 1 .. n : h[i - 1] = f[i - 1] => h[i] = f[i]
      <3> TAKE i \in 1 .. n
      <3> HAVE h[i - 1] = f[i - 1]
      <3>1. h[i] = flatten[i]
        BY <1>1
      <3>2. CASE i = 1
        <4>1. f[1] = <<>> \o ss[1] /\ ss[1] \in Seq(S) /\ flatten[1] = ss[1]
          <5>1. 1 \in 1 .. n /\ 1 - 1 = 0
            BY <3>2
          <5>2. f[1] = f[1 - 1] \o ss[1]
            BY <1>2, <5>1
          <5> QED BY <1>1, <1>2, <2>5, <5>1, <5>2
        <4>2. <<>> \o ss[1] = ss[1]
          BY <4>1, ConcatEmptySeq
        <4> QED BY <3>1, <3>2, <4>1, <4>2
      <3>3. CASE i # 1
        <4>1. h[i - 1] = flatten[i - 1]
          BY <1>1, <3>3
        <4>2. flatten[i] = flatten[i - 1] \o ss[i]
          BY <2>5, <3>3
        <4> QED BY <1>2, <3>1, <4>1, <4>2
      <3> QED BY <3>2, <3>3
    <2> HIDE DEF h
    <2>8. h[n] = f[n]
      <3>1. n \in 0 .. n
        BY <1>1
      <3> HIDE DEF n
      <3> QED BY <1>1, <2>6, <2>7, <3>1, SameUpTo
    <2>9. h[n] = flatten[n]
      BY <1>1, <1>5 DEF h
    <2> QED BY <1>3, <2>1, <2>8, <2>9
  <1> QED BY <1>4, <1>5

\* What sequences make that are made of two lists of them.
LEMMA FlattenConcat ==
  ASSUME NEW S, NEW ss \in Seq(Seq(S)), NEW ts \in Seq(Seq(S))
  PROVE  /\ FlattenSeq(ss \o ts) = FlattenSeq(ss) \o FlattenSeq(ts)
         /\ FlattenSeq(ss) \in Seq(S) /\ FlattenSeq(ts) \in Seq(S)
  <1> DEFINE m == Len(ss)
             n == Len(ts)
             us == ss \o ts
  <1>1. PICK f : Flattened(f, ss, S)
    BY Flattens
  <1>2. PICK g : Flattened(g, ts, S)
    BY Flattens
  <1>3. m \in Nat /\ n \in Nat
    BY LenProperties
  <1>4. /\ us \in Seq(Seq(S)) /\ Len(us) = m + n
        /\ \A i \in 1 .. m + n : us[i] = IF i <= m THEN ss[i] ELSE ts[i - m]
    BY ConcatProperties
  <1> HIDE DEF us
  <1>5. /\ f \in [0 .. m -> Seq(S)] /\ f[0] = <<>>
        /\ \A i \in 1 .. m : f[i] = f[i - 1] \o ss[i]
    BY <1>1 DEF Flattened
  <1>6. /\ g \in [0 .. n -> Seq(S)] /\ g[0] = <<>>
        /\ \A i \in 1 .. n : g[i] = g[i - 1] \o ts[i]
    BY <1>2 DEF Flattened
  <1>7. \A i \in 1 .. n : ts[i] \in Seq(S)
    BY ElementOfSeq
  <1>8. FlattenSeq(ss) = f[m] /\ FlattenSeq(ts) = g[n] /\ f[m] \in Seq(S) /\ g[n] \in Seq(S)
    BY <1>1, <1>2, FlattenIs
  <1> HIDE DEF m, n
  <1> DEFINE h == [i \in 0 .. m + n |-> IF i <= m THEN f[i] ELSE f[m] \o g[i - m]]
  <1>9. h \in [0 .. m + n -> Seq(S)]
    <2>1. \A i \in 0 .. m + n : (IF i <= m THEN f[i] ELSE f[m] \o g[i - m]) \in Seq(S)
      <3> TAKE i \in 0 .. m + n
      <3>1. CASE i <= m
        BY <1>3, <1>5, <3>1
      <3>2. CASE ~(i <= m)
        <4>1. g[i - m] \in Seq(S)
          BY <1>3, <1>6, <3>2
        <4> QED BY <1>8, <3>2, <4>1, ConcatProperties
      <3> QED BY <3>1, <3>2
    <2> QED BY <2>1
  <1>10. /\ \A i \in 0 .. m : h[i] = f[i]
        /\ \A j \in 1 .. n : h[m + j] = f[m] \o g[j]
    <2>1. \A i \in 0 .. m : i \in 0 .. m + n /\ i <= m
      BY <1>3
    <2>2. \A j \in 1 .. n : m + j \in 0 .. m + n /\ ~(m + j <= m) /\ (m + j) - m = j
      BY <1>3
    <2> QED BY <2>1, <2>2
  <1> HIDE DEF h
  <1>11. \A i \in 1 .. m + n : h[i] = h[i - 1] \o us[i]
    <2> TAKE i \in 1 .. m + n
    <2>1. CASE i <= m
      <3>1. i \in 1 .. m /\ i \in 0 .. m /\ i - 1 \in 0 .. m /\ us[i] = ss[i]
        BY <1>3, <1>4, <2>1
      <3> QED BY <1>5, <1>10, <3>1
    <2>2. CASE ~(i <= m)
      <3>1. PICK j \in 1 .. n : i = m + j
        <4>1. i - m \in 1 .. n /\ i = m + (i - m)
          BY <1>3, <2>2
        <4> QED BY <4>1
      <3>2. us[i] = ts[j] /\ h[i] = f[m] \o g[j]
        <4>1. i - m = j
          BY <1>3, <3>1
        <4> QED BY <1>4, <1>10, <2>2, <3>1, <4>1
      <3>3. g[j] = g[j - 1] \o ts[j] /\ g[j - 1] \in Seq(S) /\ ts[j] \in Seq(S)
        <4>1. j - 1 \in 0 .. n
          BY <1>3, <3>1
        <4> QED BY <1>6, <1>7, <3>1, <4>1
      <3>4. h[i - 1] = f[m] \o g[j - 1]
        <4>1. CASE j = 1
          <5>1. i - 1 = m /\ m \in 0 .. m /\ j - 1 = 0
            BY <1>3, <3>1, <4>1
          <5>2. h[i - 1] = f[m] /\ g[j - 1] = <<>>
            BY <1>6, <1>10, <5>1
          <5>3. f[m] \o <<>> = f[m]
            BY <1>8, ConcatEmptySeq
          <5> QED BY <5>2, <5>3
        <4>2. CASE j # 1
          <5>1. j - 1 \in 1 .. n /\ i - 1 = m + (j - 1)
            BY <1>3, <3>1, <4>2
          <5> QED BY <1>10, <5>1
        <4> QED BY <4>1, <4>2
      <3> DEFINE x == f[m]  y == g[j - 1]  z == ts[j]
      <3>5. x \in Seq(S) /\ y \in Seq(S) /\ z \in Seq(S)
        BY <1>8, <3>3
      <3> HIDE DEF x, y, z
      <3>6. (x \o y) \o z = x \o (y \o z)
        BY <3>5, ConcatAssociative, SMTT(60)
      <3> QED BY <3>2, <3>3, <3>4, <3>6 DEF x, y, z
    <2> QED BY <2>1, <2>2
  <1>12. h[0] = <<>>
    BY <1>3, <1>5, <1>10
  <1>13. Flattened(h, us, S)
    BY <1>4, <1>5, <1>9, <1>12, <1>11 DEF Flattened
  <1>14. FlattenSeq(us) = h[m + n]
    BY <1>4, <1>13, FlattenIs
  <1>15. h[m + n] = f[m] \o g[n]
    <2>1. CASE n = 0
      <3>1. h[m + n] = f[m] /\ g[n] = <<>>
        <4>1. m + n = m /\ m \in 0 .. m
          BY <1>3, <2>1
        <4> QED BY <1>6, <1>10, <2>1, <4>1
      <3> QED BY <1>8, <3>1, ConcatEmptySeq
    <2>2. CASE n # 0
      <3>1. n \in 1 .. n
        BY <1>3, <2>2
      <3> QED BY <1>10, <3>1
    <2> QED BY <2>1, <2>2
  <1> QED BY <1>8, <1>14, <1>15 DEF us

\* What no sequence makes, and one.
LEMMA FlattenOne ==
  ASSUME NEW S
  PROVE  /\ FlattenSeq(<<>>) = <<>>
         /\ \A x \in Seq(S) : FlattenSeq(<<x>>) = x
  <1>1. FlattenSeq(<<>>) = <<>>
    BY DEF FlattenSeq
  <1>2. ASSUME NEW x \in Seq(S) PROVE FlattenSeq(<<x>>) = x
    <2> DEFINE ss == <<x>>
               f == [i \in 0 .. 1 |-> IF i = 0 THEN <<>> ELSE x]
    <2>1. ss \in Seq(Seq(S)) /\ Len(ss) = 1 /\ ss[1] = x
      OBVIOUS
    <2>2. f \in [0 .. 1 -> Seq(S)] /\ f[0] = <<>> /\ f[1] = x
      <3>1. <<>> \in Seq(S)
        BY EmptySeq
      <3> QED BY <3>1
    <2> HIDE DEF ss, f
    <2>3. <<>> \o x = x
      BY ConcatEmptySeq
    <2>4. Flattened(f, ss, S)
      <3>1. \A i \in 1 .. 1 : f[i] = f[i - 1] \o ss[i]
        <4> TAKE i \in 1 .. 1
        <4>1. i = 1
          OBVIOUS
        <4> QED BY <2>1, <2>2, <2>3, <4>1
      <3> QED BY <2>1, <2>2, <3>1 DEF Flattened
    <2> QED BY <2>1, <2>2, <2>4, FlattenIs DEF ss
  <1> QED BY <1>1, <1>2

\* A sequence that is cut in two, and what is before and behind the cut.
LEMMA Cut ==
  ASSUME NEW S, NEW p \in Seq(S), NEW q \in Seq(S), NEW t, t = p \o q,
         NEW k, k = Len(p)
  PROVE  /\ t \in Seq(S) /\ Len(t) = Len(p) + Len(q)
         /\ SubSeq(t, 1, k) = p /\ SubSeq(t, k + 1, Len(t)) = q
  <1>1. Len(p) \in Nat /\ Len(q) \in Nat
    BY LenProperties
  <1>2. /\ t \in Seq(S) /\ Len(t) = Len(p) + Len(q)
        /\ \A i \in 1 .. Len(p) + Len(q) :
              t[i] = IF i <= Len(p) THEN p[i] ELSE q[i - Len(p)]
    BY ConcatProperties
  <1>3. k \in 0 .. Len(t)
    BY <1>1, <1>2
  <1>4. /\ SubSeq(t, 1, k) \in Seq(S) /\ Len(SubSeq(t, 1, k)) = k
        /\ SubSeq(t, k + 1, Len(t)) \in Seq(S)
        /\ Len(SubSeq(t, k + 1, Len(t))) = Len(t) - k
    BY <1>2, <1>3, TwoParts
  <1> DEFINE u == BytesOf(t, 0, k)  v == BytesOf(t, k, Len(q))
  <1>5. SubSeq(t, 1, k) = u /\ SubSeq(t, k + 1, Len(t)) = v
    <2>1. 0 + 1 = 1 /\ 0 + k = k /\ k + Len(q) = Len(t)
      BY <1>1, <1>2
    <2> QED BY <2>1 DEF BytesOf
  <1>6. /\ u \in Seq(S) /\ Len(u) = k /\ \A i \in 1 .. k : u[i] = t[0 + i]
    <2>1. k \in Nat /\ 0 \in Int /\ 0 \in Nat /\ 0 + k <= Len(t)
      BY <1>1, <1>2
    <2>2. /\ BytesOf(t, 0, k) \in Seq(S) /\ Len(BytesOf(t, 0, k)) = k
          /\ \A i \in 1 .. k : BytesOf(t, 0, k)[i] = t[0 + i]
      BY <1>2, <2>1, PartBytes
    <2> QED BY <2>2
  <1>7. /\ v \in Seq(S) /\ Len(v) = Len(q) /\ \A i \in 1 .. Len(q) : v[i] = t[k + i]
    <2>1. k \in Int /\ k + Len(q) <= Len(t)
      BY <1>1, <1>2
    <2> DEFINE l == Len(q)
    <2>2. k \in Int /\ k \in Nat /\ l \in Nat /\ k + l <= Len(t) /\ t \in Seq(S)
      BY <1>1, <1>2, <2>1
    <2> HIDE DEF l
    <2>3. /\ BytesOf(t, k, l) \in Seq(S) /\ Len(BytesOf(t, k, l)) = l
          /\ \A i \in 1 .. l : BytesOf(t, k, l)[i] = t[k + i]
      BY <2>2, PartBytes
    <2> QED BY <2>3 DEF l
  <1> HIDE DEF u, v
  <1>8. u = p
    <2>1. \A i \in 1 .. Len(u) : u[i] = p[i]
      BY <1>1, <1>2, <1>6
    <2> QED BY <1>6, <2>1, SeqEqual
  <1>9. v = q
    <2>1. \A i \in 1 .. Len(v) : v[i] = q[i]
      <3> TAKE i \in 1 .. Len(v)
      <3>1. k + i \in 1 .. Len(p) + Len(q) /\ ~(k + i <= Len(p)) /\ (k + i) - Len(p) = i
        BY <1>1, <1>7
      <3> QED BY <1>2, <1>7, <3>1
    <2> QED BY <1>7, <2>1, SeqEqual
  <1> QED BY <1>2, <1>5, <1>8, <1>9

\* A part of a sequence is replaced.
LEMMA CutOut ==
  ASSUME NEW S
  PROVE  \A p, m, q, b \in Text(S) :
            Splice(p \o (m \o q), Len(p), Len(m), b) = (p \o b) \o q
  <1> TAKE p, m, q, b \in Text(S)
  <1> DEFINE t == p \o (m \o q)
             at == Len(p)
             n == Len(m)
  <1>1. p \in Seq(S) /\ m \in Seq(S) /\ q \in Seq(S)
    BY DEF Text
  <1>2. p \o m \in Seq(S) /\ Len(p \o m) = Len(p) + Len(m) /\ m \o q \in Seq(S)
    BY <1>1, ConcatProperties
  <1>3. t = (p \o m) \o q
    BY TextsJoin
  <1>4. SubSeq(t, 1, at) = p
    BY <1>1, <1>2, Cut
  <1>5. SubSeq(t, at + n + 1, Len(t)) = q
    <2> DEFINE k == at + n  pm == p \o m
    <2>1. pm \in Seq(S) /\ k = Len(pm) /\ t = pm \o q
      BY <1>2, <1>3
    <2> HIDE DEF k, pm
    <2>2. SubSeq(t, k + 1, Len(t)) = q
      BY <1>1, <2>1, Cut
    <2> QED BY <2>2 DEF k
  <1> HIDE DEF t, at, n
  <1>6. Splice(t, at, n, b) = (p \o b) \o q
    BY <1>4, <1>5 DEF Splice
  <1> QED BY <1>6 DEF t, at, n

\* Something is put between two sequences.
LEMMA PutBetween ==
  ASSUME NEW S
  PROVE  \A p, q, b \in Text(S) : Splice(p \o q, Len(p), 0, b) = (p \o b) \o q
  <1> TAKE p, q, b \in Text(S)
  <1> DEFINE none == <<>>
  <1>1. none \in Text(S) /\ Len(none) = 0
    BY EmptySeq DEF Text
  <1>2. none \o q = q
    BY ConcatEmptySeq DEF Text
  <1> HIDE DEF none
  <1>3. Splice(p \o (none \o q), Len(p), Len(none), b) = (p \o b) \o q
    <2>1. none \in Text(S)
      BY <1>1
    <2> QED BY <2>1, CutOut, SMTT(90)
  <1> QED BY <1>1, <1>2, <1>3

\* A sequence is what is before a part, the part, and what is behind.
LEMMA ThreeParts ==
  ASSUME NEW S, NEW t \in Seq(S), NEW at \in Nat, NEW n \in Nat, at + n <= Len(t)
  PROVE  \E p, m, q \in Seq(S) :
            /\ t = p \o (m \o q) /\ Len(p) = at /\ Len(m) = n
            /\ p = SubSeq(t, 1, at) /\ m = SubSeq(t, at + 1, at + n)
            /\ q = SubSeq(t, at + n + 1, Len(t))
  <1> DEFINE p == SubSeq(t, 1, at)
             r == SubSeq(t, at + 1, Len(t))
             k == at + n
             pm == SubSeq(t, 1, k)
             q == SubSeq(t, k + 1, Len(t))
             m == SubSeq(pm, at + 1, Len(pm))
  <1>1. at \in 0 .. Len(t) /\ k \in 0 .. Len(t)
    BY LenProperties
  <1> HIDE DEF k
  <1>2. pm \in Seq(S) /\ Len(pm) = k /\ q \in Seq(S) /\ pm \o q = t
    BY <1>1, TwoParts
  <1>3. at \in 0 .. Len(pm)
    BY <1>2 DEF k
  <1>4. SubSeq(pm, 1, at) = p
    <2> HIDE DEF p
    <2>1. SubSeq(pm, 1, at) \in Seq(S) /\ Len(SubSeq(pm, 1, at)) = at
      BY <1>2, <1>3, TwoParts
    <2>2. p \in Seq(S) /\ Len(p) = at
      BY <1>1, TwoParts DEF p
    <2>3. SubSeq(pm, 1, at) = BytesOf(pm, 0, at) /\ p = BytesOf(t, 0, at) /\ pm = BytesOf(t, 0, k)
      <3>1. 0 + 1 = 1 /\ 0 + at = at /\ 0 + k = k
        BY <1>1
      <3> QED BY <3>1 DEF BytesOf, p
    <2>4. /\ 0 \in Int /\ 0 \in Nat /\ k \in Nat /\ at <= k
          /\ 0 + at <= Len(pm) /\ 0 + at <= Len(t) /\ 0 + k <= Len(t)
      BY <1>1, <1>2 DEF k
    <2> HIDE DEF pm
    <2>5. \A i \in 1 .. at : BytesOf(pm, 0, at)[i] = pm[0 + i]
      BY <1>2, <2>4, PartBytes
    <2>6. \A i \in 1 .. at : BytesOf(t, 0, at)[i] = t[0 + i]
      BY <2>4, PartBytes
    <2>7. \A i \in 1 .. k : BytesOf(t, 0, k)[i] = t[0 + i]
      BY <2>4, PartBytes
    <2>8. \A i \in 1 .. at : SubSeq(pm, 1, at)[i] = p[i]
      <3> TAKE i \in 1 .. at
      <3>1. i \in 1 .. k /\ 0 + i = i
        BY <2>4
      <3>2. SubSeq(pm, 1, at)[i] = pm[i]
        BY <2>3, <2>5, <3>1, Zenon
      <3>3. p[i] = t[i]
        BY <2>3, <2>6, <3>1, Zenon
      <3>4. pm[i] = t[i]
        BY <2>3, <2>7, <3>1, Zenon
      <3> QED BY <3>2, <3>3, <3>4, Zenon
    <2> QED BY <2>1, <2>2, <2>8, SeqEqual
  <1>5. m \in Seq(S) /\ Len(m) = Len(pm) - at /\ p \in Seq(S) /\ Len(p) = at /\ p \o m = pm
    BY <1>1, <1>2, <1>3, <1>4, TwoParts
  <1>6. Len(m) = n
    BY <1>2, <1>5 DEF k
  <1>7. m = SubSeq(t, at + 1, k)
    <2> HIDE DEF p, q, pm
    <2>1. m = BytesOf(pm, at, n) /\ SubSeq(t, at + 1, k) = BytesOf(t, at, n)
      BY <1>2 DEF BytesOf, k
    <2>2. at \in Int /\ at + n <= Len(pm)
      BY <1>2 DEF k
    <2> HIDE DEF m
    <2>3. \A i \in 1 .. n : BytesOf(pm, at, n)[i] = pm[at + i]
      BY <1>2, <2>2, PartBytes
    <2>4. /\ BytesOf(t, at, n) \in Seq(S) /\ Len(BytesOf(t, at, n)) = n
          /\ \A i \in 1 .. n : BytesOf(t, at, n)[i] = t[at + i]
      BY <2>2, PartBytes
    <2>5. \A i \in 1 .. k : pm[i] = t[i]
      <3>1. pm = BytesOf(t, 0, k)
        <4>1. 0 + 1 = 1 /\ 0 + k = k
          BY <1>1
        <4> QED BY <4>1 DEF BytesOf, pm
      <3>2. \A i \in 1 .. k : BytesOf(t, 0, k)[i] = t[0 + i]
        <4>1. k \in Nat /\ 0 + k <= Len(t)
          BY <1>1
        <4> QED BY <4>1, PartBytes
      <3> QED BY <3>1, <3>2
    <2>6. \A i \in 1 .. n : m[i] = BytesOf(t, at, n)[i]
      <3> TAKE i \in 1 .. n
      <3>1. at + i \in 1 .. k
        BY DEF k
      <3> QED BY <2>1, <2>3, <2>4, <2>5, <3>1
    <2> QED BY <1>5, <1>6, <2>1, <2>4, <2>6, SeqEqual
  <1>8. t = p \o (m \o q)
    <2> HIDE DEF p, m, q, pm
    <2>1. p \in Seq(S) /\ m \in Seq(S) /\ q \in Seq(S)
      BY <1>2, <1>5
    <2>2. (p \o m) \o q = p \o (m \o q)
      BY <2>1, ConcatAssociative
    <2> QED BY <1>2, <1>5, <2>2
  <1> HIDE DEF p, m, q, pm
  <1> QED BY <1>2, <1>5, <1>6, <1>7, <1>8 DEF p, q, k

-----------------------------------------------------------------------------
(* Lists of slices *)

\* The slices of an array whose bytes are in that memory.
Entries(mem) ==
    {s \in SlicesIn(mem, Bytes) :
        SliceLength(s) > 0 /\ (s.data = File => s.tail = <<>>)}

\* The bytes of these slices, one behind the other.
TextIn(mem, slices) == FlattenSeq([i \in DOMAIN slices |-> Copied(mem, slices[i])])

\* What each slice of a list reads as.
Copies(mem, slices) == [i \in DOMAIN slices |-> Copied(mem, slices[i])]

\* Lists of them.
Lists(mem) == Seq(Entries(mem))

\* What the slices of a list read as are sequences of bytes.
LEMMA CopiesAre ==
  ASSUME NEW mem \in Memories(Bytes), NEW slices \in Seq(SlicesIn(mem, Bytes))
  PROVE  /\ Copies(mem, slices) \in Seq(Seq(Bytes))
         /\ Len(Copies(mem, slices)) = Len(slices) /\ Len(slices) \in Nat
         /\ \A i \in 1 .. Len(slices) :
               /\ slices[i] \in SlicesIn(mem, Bytes)
               /\ Copies(mem, slices)[i] = Copied(mem, slices[i])
               /\ Copied(mem, slices[i]) \in Seq(Bytes)
               /\ Len(Copied(mem, slices[i])) = SliceLength(slices[i])
               /\ SliceLength(slices[i]) \in Nat
         /\ TextIn(mem, slices) = FlattenSeq(Copies(mem, slices))
  <1> DEFINE cs == Copies(mem, slices)
             n == Len(slices)
  <1>1. n \in Nat /\ DOMAIN slices = 1 .. n
    BY LenProperties
  <1>2. \A i \in 1 .. n : slices[i] \in SlicesIn(mem, Bytes)
    BY ElementOfSeq
  <1>3. \A i \in 1 .. n : /\ Copied(mem, slices[i]) \in Seq(Bytes)
                          /\ Len(Copied(mem, slices[i])) = SliceLength(slices[i])
                          /\ SliceLength(slices[i]) \in Nat
    <2> TAKE i \in 1 .. n
    <2>1. /\ Copied(mem, slices[i]) \in Seq(Bytes)
          /\ Len(Copied(mem, slices[i])) = SliceLength(slices[i])
      BY <1>2, CopiedType
    <2> QED BY <2>1, LenProperties
  <1>4. cs = [i \in 1 .. n |-> Copied(mem, slices[i])]
    BY <1>1 DEF Copies
  <1> HIDE DEF cs, n
  <1>5. cs \in Seq(Seq(Bytes)) /\ Len(cs) = n
    <2>1. cs \in [1 .. n -> Seq(Bytes)]
      BY <1>3, <1>4
    <2> QED BY <1>1, <2>1
  <1>6. \A i \in 1 .. n : cs[i] = Copied(mem, slices[i])
    BY <1>4
  <1>7. TextIn(mem, slices) = FlattenSeq(cs)
    BY DEF TextIn, cs, Copies
  <1> QED BY <1>1, <1>2, <1>3, <1>5, <1>6, <1>7 DEF cs, n

\* A list of two lists, and of one slice.
LEMMA TextConcat ==
  ASSUME NEW mem \in Memories(Bytes), NEW u \in Seq(SlicesIn(mem, Bytes)),
         NEW v \in Seq(SlicesIn(mem, Bytes))
  PROVE  /\ TextIn(mem, u) \in Seq(Bytes) /\ TextIn(mem, v) \in Seq(Bytes)
         /\ TextIn(mem, u \o v) = TextIn(mem, u) \o TextIn(mem, v)
  <1> DEFINE T == SlicesIn(mem, Bytes)
             uv == u \o v
             a == Copies(mem, u)
             b == Copies(mem, v)
             c == Copies(mem, uv)
             m == Len(u)
             n == Len(v)
  <1>1. /\ uv \in Seq(T) /\ Len(uv) = m + n
        /\ \A i \in 1 .. m + n : uv[i] = IF i <= m THEN u[i] ELSE v[i - m]
    <2> HIDE DEF T
    <2>1. u \in Seq(T) /\ v \in Seq(T)
      BY DEF T
    <2> QED BY <2>1, ConcatProperties
  <1> HIDE DEF uv
  <1>2. /\ a \in Seq(Seq(Bytes)) /\ Len(a) = m /\ m \in Nat
        /\ \A i \in 1 .. m : a[i] = Copied(mem, u[i])
        /\ TextIn(mem, u) = FlattenSeq(a)
    BY CopiesAre
  <1>3. /\ b \in Seq(Seq(Bytes)) /\ Len(b) = n /\ n \in Nat
        /\ \A i \in 1 .. n : b[i] = Copied(mem, v[i])
        /\ TextIn(mem, v) = FlattenSeq(b)
    BY CopiesAre
  <1>4. /\ c \in Seq(Seq(Bytes)) /\ Len(c) = m + n
        /\ \A i \in 1 .. m + n : c[i] = Copied(mem, uv[i])
        /\ TextIn(mem, uv) = FlattenSeq(c)
    BY <1>1, CopiesAre
  <1> HIDE DEF a, b, c, m, n, T
  <1>5. /\ a \o b \in Seq(Seq(Bytes)) /\ Len(a \o b) = m + n
        /\ \A i \in 1 .. m + n : (a \o b)[i] = IF i <= m THEN a[i] ELSE b[i - m]
    BY <1>2, <1>3, ConcatProperties
  <1>6. c = a \o b
    <2>1. \A i \in 1 .. m + n : c[i] = (a \o b)[i]
      <3> TAKE i \in 1 .. m + n
      <3>1. CASE i <= m
        <4>1. i \in 1 .. m
          BY <1>2, <3>1
        <4>2. c[i] = Copied(mem, u[i]) /\ (a \o b)[i] = a[i]
          BY <1>1, <1>4, <1>5, <3>1
        <4> QED BY <1>2, <4>1, <4>2
      <3>2. CASE ~(i <= m)
        <4>1. i - m \in 1 .. n
          BY <1>2, <1>3, <3>2
        <4>2. c[i] = Copied(mem, v[i - m]) /\ (a \o b)[i] = b[i - m]
          BY <1>1, <1>4, <1>5, <3>2
        <4> QED BY <1>3, <4>1, <4>2
      <3> QED BY <3>1, <3>2
    <2> DEFINE ab == a \o b
    <2>2. ab \in Seq(Seq(Bytes)) /\ Len(ab) = m + n
      BY <1>5
    <2> HIDE DEF ab
    <2>3. \A i \in 1 .. Len(c) : c[i] = ab[i]
      BY <1>4, <2>1 DEF ab
    <2>4. c = ab
      BY <1>4, <2>2, <2>3, SeqEqual
    <2> QED BY <2>4 DEF ab
  <1> QED BY <1>2, <1>3, <1>4, <1>6, FlattenConcat DEF uv

\* No slice, and one.
LEMMA TextOne ==
  ASSUME NEW mem
  PROVE  /\ TextIn(mem, <<>>) = <<>>
         /\ \A s : Copied(mem, s) \in Seq(Bytes) =>
                      TextIn(mem, <<s>>) = Copied(mem, s)
  <1>1. TextIn(mem, <<>>) = <<>>
    BY FlattenOne DEF TextIn
  <1>2. ASSUME NEW s, Copied(mem, s) \in Seq(Bytes)
        PROVE  TextIn(mem, <<s>>) = Copied(mem, s)
    <2> DEFINE c == Copied(mem, s)
    <2>1. [i \in DOMAIN <<s>> |-> Copied(mem, <<s>>[i])] = <<c>>
      <3> HIDE DEF c
      <3>1. DOMAIN <<s>> = 1 .. 1 /\ <<s>>[1] = s
        OBVIOUS
      <3>2. \A i \in 1 .. 1 : <<s>>[i] = s
        OBVIOUS
      <3>3. [i \in DOMAIN <<s>> |-> Copied(mem, <<s>>[i])] = [i \in 1 .. 1 |-> Copied(mem, s)]
        BY <3>1, <3>2
      <3> QED BY <3>3 DEF c
    <2> HIDE DEF c
    <2>2. c \in Seq(Bytes)
      BY <1>2 DEF c
    <2> QED BY <2>1, <2>2, FlattenOne DEF TextIn, c
  <1> QED BY <1>1, <1>2

\* The text does not change if what each slice reads as does not.
LEMMA TextSame ==
  ASSUME NEW old, NEW new, NEW slices,
         \A i \in DOMAIN slices : Copied(new, slices[i]) = Copied(old, slices[i])
  PROVE  TextIn(new, slices) = TextIn(old, slices)
  BY DEF TextIn

\* Two slices, one behind the other.
LEMMA TwoSlices ==
  ASSUME NEW a, NEW b
  PROVE  <<a>> \o <<b>> = <<a, b>>
  <1> DEFINE u == <<a>>  v == <<b>>  w == <<a, b>>
             S == {a, b}
  <1>1. /\ u \in Seq(S) /\ v \in Seq(S) /\ w \in Seq(S)
        /\ Len(u) = 1 /\ Len(v) = 1 /\ Len(w) = 2
        /\ u[1] = a /\ v[1] = b /\ w[1] = a /\ w[2] = b
    OBVIOUS
  <1> HIDE DEF u, v, w, S
  <1>2. /\ u \o v \in Seq(S) /\ Len(u \o v) = 2
        /\ \A i \in 1 .. 2 : (u \o v)[i] = IF i <= 1 THEN u[i] ELSE v[i - 1]
    <2>1. 1 + 1 = 2
      OBVIOUS
    <2> QED BY <1>1, <2>1, ConcatProperties
  <1> DEFINE x == u \o v
  <1>3. \A i \in 1 .. 2 : x[i] = w[i]
    <2>1. 1 \in 1 .. 2 /\ 2 \in 1 .. 2 /\ 1 <= 1 /\ ~(2 <= 1) /\ 2 - 1 = 1
      OBVIOUS
    <2>2. x[1] = u[1] /\ x[2] = v[1]
      BY <1>2, <2>1
    <2>3. \A i \in 1 .. 2 : i = 1 \/ i = 2
      OBVIOUS
    <2> QED BY <1>1, <2>2, <2>3
  <1>4. x \in Seq(S) /\ Len(x) = 2
    BY <1>2
  <1> HIDE DEF x
  <1>5. x = w
    BY <1>1, <1>3, <1>4, SeqEqual
  <1> QED BY <1>5 DEF x, u, v, w

\* A list of slices is one of the slices that a list is cut into.
LEMMA ListCut ==
  ASSUME NEW T, NEW ss \in Seq(T), NEW i \in 1 .. Len(ss)
  PROVE  /\ SubSeq(ss, 1, i - 1) \in Seq(T) /\ Len(SubSeq(ss, 1, i - 1)) = i - 1
         /\ SubSeq(ss, i + 1, Len(ss)) \in Seq(T)
         /\ Len(SubSeq(ss, i + 1, Len(ss))) = Len(ss) - i
         /\ SubSeq(ss, 1, i) \in Seq(T) /\ SubSeq(ss, i, Len(ss)) \in Seq(T)
         /\ ss[i] \in T
         /\ SubSeq(ss, 1, i) = SubSeq(ss, 1, i - 1) \o <<ss[i]>>
         /\ SubSeq(ss, i, Len(ss)) = <<ss[i]>> \o SubSeq(ss, i + 1, Len(ss))
         /\ ss = SubSeq(ss, 1, i) \o SubSeq(ss, i + 1, Len(ss))
         /\ ss = SubSeq(ss, 1, i - 1) \o SubSeq(ss, i, Len(ss))
  <1> DEFINE n == Len(ss)
  <1>1. n \in Nat /\ i \in 1 .. n /\ i - 1 \in 0 .. n /\ i \in 0 .. n /\ 1 \in 1 .. n
        /\ i \in 1 .. n /\ n \in i .. n /\ n \in 1 .. n
    BY LenProperties
  <1>2. ss[i] \in T
    BY ElementOfSeq
  <1> DEFINE k == i - 1
  <1>3. k \in 0 .. n /\ k + 1 = i /\ n - (i - 1) = n - k
    BY <1>1
  <1> HIDE DEF n
  <1>4. /\ SubSeq(ss, 1, i) \in Seq(T)
        /\ SubSeq(ss, i + 1, n) \in Seq(T) /\ Len(SubSeq(ss, i + 1, n)) = n - i
        /\ SubSeq(ss, 1, i) \o SubSeq(ss, i + 1, n) = ss
    BY <1>1, TwoParts DEF n
  <1>5. /\ SubSeq(ss, 1, k) \in Seq(T) /\ Len(SubSeq(ss, 1, k)) = k
        /\ SubSeq(ss, k + 1, n) \in Seq(T)
        /\ SubSeq(ss, 1, k) \o SubSeq(ss, k + 1, n) = ss
    <2> HIDE DEF k
    <2> QED BY <1>3, TwoParts DEF n
  <1>6. SubSeq(ss, 1, i) = SubSeq(ss, 1, i - 1) \o <<ss[i]>>
    <2>1. i \in 1 .. Len(ss) /\ 1 \in 1 .. Len(ss)
      BY <1>1 DEF n
    <2> QED BY <1>1, <2>1, SubSeqRecursiveSecond
  <1>7. SubSeq(ss, i, n) = <<ss[i]>> \o SubSeq(ss, i + 1, n)
    BY <1>1, SubSeqRecursiveFirst DEF n
  <1> QED BY <1>2, <1>3, <1>4, <1>5, <1>6, <1>7 DEF n

\* Ends are the lengths of the texts of the first slices.
LEMMA EndsAre ==
  ASSUME NEW mem \in Memories(Bytes), NEW slices \in Seq(Entries(mem))
  PROVE  LET E == Ends(slices)  n == Len(slices)
         IN  /\ n \in Nat /\ E \in [0 .. n -> Nat] /\ E[0] = 0
             /\ \A i \in 1 .. n : E[i] = E[i - 1] + SliceLength(slices[i])
  <1> DEFINE n == Len(slices)
             end[i \in 0 .. n] == IF i = 0 THEN 0 ELSE end[i - 1] + SliceLength(slices[i])
             Equation(f) ==
                f = [i \in 0 .. n |-> IF i = 0 THEN 0 ELSE f[i - 1] + SliceLength(slices[i])]
             step == [i \in 1 .. n |-> [k \in Nat |-> k + SliceLength(slices[i])]]
  <1>1. n \in Nat /\ \A i \in 1 .. n : SliceLength(slices[i]) \in Nat
    <2>1. n \in Nat
      BY LenProperties
    <2>2. \A i \in 1 .. n : SliceLength(slices[i]) \in Nat
      <3> TAKE i \in 1 .. n
      <3>1. slices[i] \in SlicesIn(mem, Bytes)
        BY ElementOfSeq DEF Entries
      <3> QED BY <3>1, CopiedType, LenProperties
    <2> QED BY <2>1, <2>2
  <1>2. Ends(slices) = end
    BY DEF Ends
  <1>3. end = CHOOSE f : Equation(f)
    OBVIOUS
  <1>4. step \in [1 .. n -> [Nat -> Nat]]
    <2> HIDE DEF n
    <2>1. \A i \in 1 .. n : \A k \in Nat : k + SliceLength(slices[i]) \in Nat
      BY <1>1
    <2> QED BY <2>1
  <1>5. \A i \in 1 .. n : \A k \in Nat : step[i][k] = k + SliceLength(slices[i])
    OBVIOUS
  <1> HIDE DEF end, step, Equation
  <1>6. PICK f : Iterated(f, n, Nat, 0, step)
    <2> HIDE DEF n
    <2> QED BY <1>1, <1>4, Iterates
  <1>7. /\ f \in [0 .. n -> Nat] /\ f[0] = 0
        /\ \A i \in 1 .. n : f[i] = step[i][f[i - 1]]
    BY <1>6 DEF Iterated
  <1>8. \A i \in 1 .. n : f[i] = f[i - 1] + SliceLength(slices[i])
    <2> TAKE i \in 1 .. n
    <2>1. i - 1 \in 0 .. n
      BY <1>1
    <2>2. f[i - 1] \in Nat
      <3> HIDE DEF n
      <3> QED BY <1>7, <2>1
    <2> QED BY <1>5, <1>7, <2>2
  <1>9. Equation(f)
    <2>1. \A i \in 0 .. n : f[i] = IF i = 0 THEN 0 ELSE f[i - 1] + SliceLength(slices[i])
      <3> TAKE i \in 0 .. n
      <3>1. i = 0 \/ i \in 1 .. n
        BY <1>1
      <3> QED BY <1>7, <1>8, <3>1
    <2> HIDE DEF n
    <2> QED BY <1>7, <2>1 DEF Equation
  <1>10. Equation(end)
    BY <1>3, <1>9
  <1>11. end[0] = 0 /\ \A i \in 1 .. n : end[i] = end[i - 1] + SliceLength(slices[i])
    <2>1. \A i \in 1 .. n : i \in 0 .. n /\ i # 0
      BY <1>1
    <2>2. 0 \in 0 .. n
      BY <1>1
    <2> HIDE DEF n
    <2> QED BY <1>10, <2>1, <2>2 DEF Equation
  <1>12. \A i \in 0 .. n : end[i] = f[i]
    <2>1. \A i \in 1 .. n : end[i - 1] = f[i - 1] => end[i] = f[i]
      BY <1>8, <1>11
    <2>2. end[0] = f[0] /\ n \in Nat
      BY <1>1, <1>7, <1>11
    <2> HIDE DEF n
    <2> QED BY <2>1, <2>2, SameUpTo, SMTT(60)
  <1>13. end \in [0 .. n -> Nat]
    <2>1. DOMAIN end = 0 .. n /\ end = [i \in 0 .. n |-> end[i]]
      <3> HIDE DEF n
      <3> QED BY <1>10 DEF Equation
    <2>2. \A i \in 0 .. n : end[i] \in Nat
      BY <1>7, <1>12
    <2> HIDE DEF n
    <2> QED BY <2>1, <2>2
  <1> QED BY <1>1, <1>2, <1>11, <1>13

\* Each slice ends behind the one before.
LEMMA EndsIncrease ==
  ASSUME NEW mem \in Memories(Bytes), NEW slices \in Seq(Entries(mem))
  PROVE  LET E == Ends(slices)  n == Len(slices)
         IN  /\ \A i \in 1 .. n : E[i - 1] < E[i]
             /\ \A i, j \in 0 .. n : i <= j => E[i] <= E[j]
             /\ n <= E[n]
  <1> DEFINE E == Ends(slices)
             n == Len(slices)
  <1>1. /\ n \in Nat /\ E \in [0 .. n -> Nat] /\ E[0] = 0
        /\ \A i \in 1 .. n : E[i] = E[i - 1] + SliceLength(slices[i])
    BY EndsAre
  <1>2. \A i \in 1 .. n : SliceLength(slices[i]) \in Nat /\ SliceLength(slices[i]) > 0
    <2> TAKE i \in 1 .. n
    <2>1. slices[i] \in Entries(mem)
      BY ElementOfSeq
    <2>2. slices[i] \in SlicesIn(mem, Bytes) /\ SliceLength(slices[i]) > 0
      BY <2>1 DEF Entries
    <2> QED BY <2>2, CopiedType, LenProperties
  <1> HIDE DEF E, n
  <1>3. \A i \in 1 .. n : i - 1 \in 0 .. n /\ E[i - 1] \in Nat /\ E[i] \in Nat /\ E[i - 1] < E[i]
    <2> TAKE i \in 1 .. n
    <2>1. i - 1 \in 0 .. n /\ i \in 0 .. n
      BY <1>1
    <2>2. E[i - 1] \in Nat /\ E[i] \in Nat
      BY <1>1, <2>1
    <2> QED BY <1>1, <1>2, <2>1, <2>2
  <1>4. \A i, j \in 0 .. n : i <= j => E[i] <= E[j]
    <2> TAKE i \in 0 .. n
    <2> DEFINE T == {j \in 0 .. n : i <= j => E[i] <= E[j]}
    <2>1. 0 \in T
      BY <1>1
    <2>2. \A j \in 1 .. n : j - 1 \in T => j \in T
      <3> TAKE j \in 1 .. n
      <3> HAVE j - 1 \in T
      <3>1. CASE i <= j - 1
        <4>1. E[i] <= E[j - 1] /\ E[i] \in Nat
          BY <1>1, <3>1
        <4>2. E[i] <= E[j] /\ j \in 0 .. n
          BY <1>1, <1>3, <4>1
        <4> QED BY <4>2
      <3>2. CASE ~(i <= j - 1)
        <4>1. i = j \/ ~(i <= j)
          BY <3>2
        <4> QED BY <1>1, <4>1
      <3> QED BY <3>1, <3>2
    <2> HIDE DEF T
    <2>3. \A j \in 0 .. n : j \in T
      BY <1>1, <2>1, <2>2, UpTo
    <2> QED BY <2>3 DEF T
  <1>5. n <= E[n]
    <2> DEFINE T == {j \in 0 .. n : j <= E[j]}
    <2>1. 0 \in T
      BY <1>1
    <2>2. \A j \in 1 .. n : j - 1 \in T => j \in T
      BY <1>1, <1>3
    <2> HIDE DEF T
    <2>3. \A j \in 0 .. n : j \in T
      BY <1>1, <2>1, <2>2, UpTo
    <2>4. n \in T
      BY <1>1, <2>3
    <2> QED BY <2>4 DEF T
  <1> QED BY <1>3, <1>4, <1>5 DEF E, n

\* entryContainingOffset: finds the slice with that byte.
LEMMA EntryIs ==
  ASSUME NEW mem \in Memories(Bytes), NEW slices \in Seq(Entries(mem)),
         NEW offset \in Nat, offset < LengthOf(slices)
  PROVE  LET i == EntryContaining(slices, offset)
         IN  /\ i \in 1 .. Len(slices)
             /\ Ends(slices)[i - 1] <= offset /\ offset < Ends(slices)[i]
  <1> DEFINE E == Ends(slices)
             n == Len(slices)
             T == {i \in 1 .. n : offset < E[i]}
  <1>1. /\ n \in Nat /\ E \in [0 .. n -> Nat] /\ E[0] = 0
    BY EndsAre
  <1>2. DOMAIN slices = 1 .. n /\ LengthOf(slices) = E[n]
    BY LenProperties DEF LengthOf
  <1> HIDE DEF E, n
  <1>3. n \in T
    <2>1. n # 0
      BY <1>1, <1>2
    <2> QED BY <1>1, <1>2, <2>1
  <1>4. PICK m \in T : \A k \in T : m <= k
    <2>1. T \in SUBSET Nat /\ T # {}
      BY <1>3
    <2> HIDE DEF T
    <2> QED BY <2>1, LeastElement
  <1>5. E[m - 1] <= offset
    <2>1. CASE m = 1
      <3>1. m - 1 = 0
        BY <2>1
      <3> QED BY <1>1, <3>1
    <2>2. CASE m # 1
      <3>1. m - 1 \in 1 .. n /\ ~(m <= m - 1)
        <4>1. m \in 1 .. n
          OBVIOUS
        <4> QED BY <1>1, <2>2, <4>1
      <3>2. m - 1 \notin T
        BY <1>4, <3>1
      <3>3. m - 1 \in 0 .. n
        BY <3>1
      <3> QED BY <1>1, <3>1, <3>2, <3>3
    <2> QED BY <2>1, <2>2
  <1>6. \E i \in DOMAIN slices : E[i - 1] <= offset /\ offset < E[i]
    BY <1>2, <1>4, <1>5
  <1>7. EntryContaining(slices, offset)
            = CHOOSE i \in DOMAIN slices : E[i - 1] <= offset /\ offset < E[i]
    BY DEF EntryContaining, E
  <1> HIDE DEF T
  <1>8. LET i == EntryContaining(slices, offset)
        IN  i \in DOMAIN slices /\ E[i - 1] <= offset /\ offset < E[i]
    BY <1>6, <1>7
  <1> QED BY <1>2, <1>8 DEF E, n

\* The text of the first slices is as long as their end says.
LEMMA EndsAreLengths ==
  ASSUME NEW mem \in Memories(Bytes), NEW slices \in Seq(Entries(mem))
  PROVE  /\ \A i \in 0 .. Len(slices) :
               Len(TextIn(mem, SubSeq(slices, 1, i))) = Ends(slices)[i]
         /\ LengthOf(slices) = Len(TextIn(mem, slices))
         /\ TextIn(mem, slices) \in Seq(Bytes)
  <1> DEFINE E == Ends(slices)
             n == Len(slices)
             T == {i \in 0 .. n : Len(TextIn(mem, SubSeq(slices, 1, i))) = E[i]}
             U == SlicesIn(mem, Bytes)
  <1>1. /\ n \in Nat /\ E \in [0 .. n -> Nat] /\ E[0] = 0
        /\ \A i \in 1 .. n : E[i] = E[i - 1] + SliceLength(slices[i])
    BY EndsAre
  <1>2. slices \in Seq(U)
    <2>1. Entries(mem) \subseteq U
      BY DEF Entries
    <2> HIDE DEF U
    <2> QED BY <2>1, SeqMonotonic
  <1> HIDE DEF E
  <1>3. 0 \in T
    <2>1. SubSeq(slices, 1, 0) = <<>>
      OBVIOUS
    <2>2. TextIn(mem, <<>>) = <<>> /\ Len(<<>>) = 0
      BY TextOne
    <2>3. 0 \in 0 .. n /\ Len(TextIn(mem, SubSeq(slices, 1, 0))) = E[0]
      BY <1>1, <2>1, <2>2
    <2> HIDE DEF n
    <2> QED BY <2>3
  <1>4. ASSUME NEW i \in 1 .. n, i - 1 \in T PROVE i \in T
    <2> DEFINE front == SubSeq(slices, 1, i - 1)
               one == <<slices[i]>>
    <2>1. /\ front \in Seq(U) /\ slices[i] \in U
          /\ SubSeq(slices, 1, i) = front \o one
      <3> HIDE DEF U
      <3> QED BY <1>2, ListCut
    <2>2. one \in Seq(U)
      BY <2>1
    <2> HIDE DEF front, one, U
    <2>3. /\ TextIn(mem, front) \in Seq(Bytes) /\ TextIn(mem, one) \in Seq(Bytes)
          /\ TextIn(mem, SubSeq(slices, 1, i)) = TextIn(mem, front) \o TextIn(mem, one)
      BY <2>1, <2>2, TextConcat DEF U
    <2>4. Len(TextIn(mem, SubSeq(slices, 1, i)))
            = Len(TextIn(mem, front)) + Len(TextIn(mem, one))
      BY <2>3, ConcatProperties
    <2>5. Len(TextIn(mem, one)) = SliceLength(slices[i])
      <3>1. /\ Copied(mem, slices[i]) \in Seq(Bytes)
            /\ Len(Copied(mem, slices[i])) = SliceLength(slices[i])
        BY <2>1, CopiedType DEF U
      <3> QED BY <3>1, TextOne DEF one
    <2>6. Len(TextIn(mem, front)) = E[i - 1]
      BY <1>4 DEF front
    <2>7. i \in 0 .. n /\ i \in 1 .. n
      BY <1>1
    <2>8. Len(TextIn(mem, SubSeq(slices, 1, i))) = E[i]
      BY <1>1, <2>4, <2>5, <2>6, <2>7
    <2> QED BY <2>7, <2>8
  <1>5. \A i \in 0 .. n : i \in T
    <2> HIDE DEF T, n
    <2> QED BY <1>1, <1>3, <1>4, UpTo
  <1>6. SubSeq(slices, 1, n) = slices
    BY <1>2, SubSeqFull
  <1>7. LengthOf(slices) = Len(TextIn(mem, slices))
    <2>1. n \in T
      BY <1>1, <1>5
    <2> QED BY <1>6, <2>1 DEF LengthOf, E
  <1>8. TextIn(mem, slices) \in Seq(Bytes)
    BY <1>2, TextConcat
  <1> QED BY <1>5, <1>7, <1>8 DEF E

\* The text around a slice.
LEMMA TextAround ==
  ASSUME NEW mem \in Memories(Bytes), NEW slices \in Seq(Entries(mem)),
         NEW i \in 1 .. Len(slices)
  PROVE  LET E == Ends(slices)
             p == TextIn(mem, SubSeq(slices, 1, i - 1))
             c == Copied(mem, slices[i])
             q == TextIn(mem, SubSeq(slices, i + 1, Len(slices)))
         IN  /\ TextIn(mem, slices) = p \o (c \o q)
             /\ p \in Seq(Bytes) /\ c \in Seq(Bytes) /\ q \in Seq(Bytes)
             /\ Len(p) = E[i - 1] /\ Len(c) = SliceLength(slices[i])
             /\ E[i] = E[i - 1] + SliceLength(slices[i])
             /\ E[i - 1] \in Nat /\ E[i] \in Nat
             /\ Len(TextIn(mem, slices)) = E[i] + Len(q)
             /\ slices[i] \in Entries(mem)
             /\ SubSeq(slices, 1, i - 1) \in Seq(Entries(mem))
             /\ SubSeq(slices, i + 1, Len(slices)) \in Seq(Entries(mem))
  <1> DEFINE E == Ends(slices)
             n == Len(slices)
             U == SlicesIn(mem, Bytes)
             V == Entries(mem)
             front == SubSeq(slices, 1, i - 1)
             back == SubSeq(slices, i + 1, n)
             rest == SubSeq(slices, i, n)
             one == <<slices[i]>>
             p == TextIn(mem, front)
             c == Copied(mem, slices[i])
             q == TextIn(mem, back)
  <1>1. /\ n \in Nat /\ E \in [0 .. n -> Nat]
        /\ E[i] = E[i - 1] + SliceLength(slices[i])
    BY EndsAre
  <1>2. i - 1 \in 0 .. n /\ i \in 0 .. n /\ E[i - 1] \in Nat /\ E[i] \in Nat
    <2>1. i - 1 \in 0 .. n /\ i \in 0 .. n
      BY <1>1
    <2> HIDE DEF n, E
    <2> QED BY <1>1, <2>1
  <1>3. Len(p) = E[i - 1]
    BY <1>2, EndsAreLengths
  <1>4. /\ front \in Seq(V) /\ back \in Seq(V) /\ rest \in Seq(V) /\ slices[i] \in V
        /\ rest = one \o back /\ slices = front \o rest
    <2> HIDE DEF V
    <2>1. slices \in Seq(V)
      BY DEF V
    <2> QED BY <2>1, ListCut
  <1> HIDE DEF E, n, front, back, rest
  <1>5. one \in Seq(V)
    BY <1>4
  <1>6. V \subseteq U
    BY DEF Entries
  <1> HIDE DEF U, V, one
  <1>7. front \in Seq(U) /\ back \in Seq(U) /\ rest \in Seq(U) /\ one \in Seq(U) /\ slices[i] \in U
    BY <1>4, <1>5, <1>6, SeqMonotonic
  <1>8. p \in Seq(Bytes) /\ q \in Seq(Bytes) /\ TextIn(mem, slices) = p \o TextIn(mem, rest)
    BY <1>4, <1>7, TextConcat DEF U
  <1>9. TextIn(mem, rest) = TextIn(mem, one) \o q
    BY <1>4, <1>7, TextConcat DEF U
  <1>10. c \in Seq(Bytes) /\ Len(c) = SliceLength(slices[i])
    BY <1>7, CopiedType DEF U
  <1>11. TextIn(mem, one) = c
    BY <1>10, TextOne DEF one
  <1> HIDE DEF p, c, q
  <1>12. TextIn(mem, slices) = p \o (c \o q)
    BY <1>8, <1>9, <1>11
  <1>13. Len(TextIn(mem, slices)) = E[i] + Len(q)
    <2>1. Len(p) \in Nat /\ Len(c) \in Nat /\ Len(q) \in Nat
      BY <1>8, <1>10, LenProperties
    <2>2. c \o q \in Seq(Bytes) /\ Len(c \o q) = Len(c) + Len(q)
      BY <1>8, <1>10, ConcatProperties
    <2>3. Len(p \o (c \o q)) = Len(p) + Len(c \o q)
      BY <1>8, <2>2, ConcatProperties
    <2> QED BY <1>1, <1>2, <1>3, <1>10, <1>12, <2>1, <2>2, <2>3
  <1> QED BY <1>1, <1>2, <1>3, <1>4, <1>8, <1>10, <1>12, <1>13 DEF E, n, p, c, q, front, back, V

-----------------------------------------------------------------------------
(* Memory that grows *)

\* The contents of memory while files are not written.
Memory == {mem \in Memories(Bytes) : mem[File] = Original}

Used(mem) == {d \in Data : mem[d] # <<>>}

\* How many objects an edit may find and make at most.
Enough == MaxObjects + (MaxLength + 4)

\* Data are the objects there may ever be.  The program makes a new one
\* whenever it needs one, so that Data is infinite or, where it is finite, not
\* smaller than what the arrays have and one call may take.
MemoryIsThere == IsFiniteSet(Data) => Cardinality(Data) >= Enough

\* So many objects can still be made.
Room(mem, k) == IsFiniteSet(Used(mem)) /\ Cardinality(Used(mem)) + k <= Enough

\* After an edit that makes at most k objects everybody reads what he read.
GoesOn(old, new, k) ==
    /\ new \in Memory
    /\ \A u \in SlicesIn(old, Bytes) :
          u \in SlicesIn(new, Bytes) /\ Copied(new, u) = Copied(old, u)
    /\ \A j \in Nat : Room(old, k + j) => Room(new, j)

\* Where there is room there is data that nobody has.
LEMMA FreeData ==
  ASSUME MemoryIsThere, NEW mem, NEW k \in Nat \ {0}, Room(mem, k)
  PROVE  \E free \in Data : mem[free] = <<>>
  <1> SUFFICES ASSUME \A d \in Data : mem[d] # <<>> PROVE FALSE
    OBVIOUS
  <1>1. Used(mem) = Data
    BY DEF Used
  <1>2. IsFiniteSet(Data) /\ Cardinality(Data) + k <= Enough
    BY <1>1 DEF Room
  <1>3. Cardinality(Data) \in Nat /\ Enough \in Nat
    BY <1>2, FS_CardinalityType, SlicedArraysAssumption DEF Enough
  <1>4. Cardinality(Data) >= Enough
    BY <1>2 DEF MemoryIsThere
  <1> QED BY <1>2, <1>3, <1>4

\* Memory that has not changed, and two edits one after the other.
LEMMA GoesOnSame ==
  ASSUME NEW mem \in Memory
  PROVE  GoesOn(mem, mem, 0)
  <1>1. \A j \in Nat : 0 + j = j
    OBVIOUS
  <1> QED BY <1>1 DEF GoesOn

\* Two edits, one after the other.
LEMMA GoesOnTwice ==
  ASSUME NEW a, NEW b, NEW c, NEW k \in Nat, NEW l \in Nat, NEW n, n = k + l,
         GoesOn(a, b, k), GoesOn(b, c, l)
  PROVE  GoesOn(a, c, n)
  <1>1. c \in Memory
    BY DEF GoesOn
  <1>2. \A u \in SlicesIn(a, Bytes) :
            u \in SlicesIn(c, Bytes) /\ Copied(c, u) = Copied(a, u)
    BY DEF GoesOn
  <1>3. \A j \in Nat : Room(a, n + j) => Room(c, j)
    <2> TAKE j \in Nat
    <2> HAVE Room(a, n + j)
    <2>1. l + j \in Nat /\ n + j = k + (l + j)
      OBVIOUS
    <2>2. Room(b, l + j)
      BY <2>1 DEF GoesOn
    <2> QED BY <2>2 DEF GoesOn
  <1> QED BY <1>1, <1>2, <1>3 DEF GoesOn

\* An edit that has made fewer objects.
LEMMA GoesOnLess ==
  ASSUME NEW a, NEW b, NEW k \in Nat, NEW l \in Nat, k <= l, GoesOn(a, b, k)
  PROVE  GoesOn(a, b, l)
  <1>1. \A j \in Nat : Room(a, l + j) => Room(b, j)
    <2> TAKE j \in Nat
    <2> HAVE Room(a, l + j)
    <2>1. Room(a, k + j)
      <3>1. IsFiniteSet(Used(a)) /\ Cardinality(Used(a)) + (l + j) <= Enough
        BY DEF Room
      <3>2. Cardinality(Used(a)) \in Nat /\ Enough \in Nat
        BY <3>1, FS_CardinalityType, SlicedArraysAssumption DEF Enough
      <3>3. Cardinality(Used(a)) + (k + j) <= Enough
        BY <3>1, <3>2
      <3> QED BY <3>1, <3>3 DEF Room
    <2> QED BY <2>1 DEF GoesOn
  <1> QED BY <1>1 DEF GoesOn

\* One object more.
LEMMA RoomLeft ==
  ASSUME NEW old, NEW new, NEW d, Used(new) \subseteq Used(old) \cup {d}
  PROVE  \A j \in Nat : Room(old, 1 + j) => Room(new, j)
  <1> TAKE j \in Nat
  <1> HAVE Room(old, 1 + j)
  <1> DEFINE A == Used(old)  B == A \cup {d}  C == Used(new)
  <1>1. IsFiniteSet(A) /\ Cardinality(A) + (1 + j) <= Enough
    BY DEF Room
  <1> HIDE DEF A
  <1>2. Cardinality(A) \in Nat /\ Enough \in Nat
    BY <1>1, FS_CardinalityType, SlicedArraysAssumption DEF Enough
  <1>3. IsFiniteSet(B) /\ Cardinality(B) = IF d \in A THEN Cardinality(A) ELSE Cardinality(A) + 1
    BY <1>1, FS_AddElement
  <1>4. C \in SUBSET B
    BY DEF A
  <1> HIDE DEF B, C
  <1>5. IsFiniteSet(C) /\ Cardinality(C) <= Cardinality(B)
    BY <1>3, <1>4, FS_Subset
  <1>6. Cardinality(C) \in Nat
    BY <1>5, FS_CardinalityType
  <1>7. Cardinality(C) + j <= Enough
    <2>1. Cardinality(B) <= Cardinality(A) + 1 /\ Cardinality(B) \in Nat
      BY <1>2, <1>3
    <2> QED BY <1>1, <1>2, <1>5, <1>6, <2>1
  <1> QED BY <1>5, <1>7 DEF Room, C

\* Lists of slices go on with their memory.
LEMMA ListGoesOn ==
  ASSUME NEW old \in Memory, NEW new, NEW k, GoesOn(old, new, k)
  PROVE  /\ Entries(old) \subseteq Entries(new)
         /\ \A slices \in Seq(Entries(old)) :
               /\ slices \in Seq(Entries(new))
               /\ TextIn(new, slices) = TextIn(old, slices)
  <1>1. Entries(old) \subseteq Entries(new)
    BY DEF GoesOn, Entries
  <1>2. ASSUME NEW slices \in Seq(Entries(old))
        PROVE  slices \in Seq(Entries(new)) /\ TextIn(new, slices) = TextIn(old, slices)
    <2>1. slices \in Seq(Entries(new))
      BY <1>1, SeqMonotonic
    <2>2. \A i \in DOMAIN slices : slices[i] \in SlicesIn(old, Bytes)
      <3>1. DOMAIN slices = 1 .. Len(slices)
        BY LenProperties
      <3>2. \A i \in 1 .. Len(slices) : slices[i] \in Entries(old)
        BY ElementOfSeq
      <3> QED BY <3>1, <3>2 DEF Entries
    <2>3. \A i \in DOMAIN slices : Copied(new, slices[i]) = Copied(old, slices[i])
      BY <2>2 DEF GoesOn
    <2> QED BY <2>1, <2>3, TextSame
  <1> QED BY <1>1, <1>2

\* An entry, and its bytes.
LEMMA EntryFacts ==
  ASSUME NEW mem \in Memories(Bytes), NEW s \in Entries(mem)
  PROVE  /\ s \in SlicesIn(mem, Bytes) /\ SliceLength(s) \in Nat /\ SliceLength(s) > 0
         /\ Copied(mem, s) \in Seq(Bytes) /\ Len(Copied(mem, s)) = SliceLength(s)
  <1>1. s \in SlicesIn(mem, Bytes) /\ SliceLength(s) > 0
    BY DEF Entries
  <1> QED BY <1>1, CopiedType, LenProperties

\* A part of an entry is one.
LEMMA PartOfEntry ==
  ASSUME NEW mem \in Memories(Bytes), NEW s \in Entries(mem),
         NEW at \in Nat, NEW n \in Nat \ {0}, at + n <= SliceLength(s)
  PROVE  /\ subsliceWithRange(s, at, n) \in Entries(mem)
         /\ Copied(mem, subsliceWithRange(s, at, n))
                = SubSeq(Copied(mem, s), at + 1, at + n)
  <1> DEFINE u == subsliceWithRange(s, at, n)
  <1>1. s \in SlicesIn(mem, Bytes) /\ Copied(mem, s) \in Seq(Bytes)
        /\ Len(Copied(mem, s)) = SliceLength(s)
    BY EntryFacts
  <1>2. u \in SlicesIn(mem, Bytes) /\ Copied(mem, u) = BytesOf(Copied(mem, s), at, n)
    BY <1>1, PartsAreExact, SMTT(60) DEF BytesOf
  <1>3. Len(BytesOf(Copied(mem, s), at, n)) = n
    <2> DEFINE c == Copied(mem, s)
    <2>1. c \in Seq(Bytes) /\ at \in Int /\ at + n <= Len(c)
      BY <1>1
    <2> HIDE DEF c
    <2>2. Len(BytesOf(c, at, n)) = n
      BY <2>1, PartBytes
    <2> QED BY <2>2 DEF c
  <1>4. SliceLength(u) = n
    <2> HIDE DEF u
    <2> QED BY <1>2, <1>3, CopiedType
  <1>5. ASSUME u.data = File PROVE u.tail = <<>>
    <2> DEFINE l == s.length
               m == InData(at, n, l)
    <2>1. /\ u.data = IF m > 0 THEN s.data ELSE Nil
          /\ u.tail = SubSeq(s.tail, at + m - l + 1, at + n - l)
      BY DEF subsliceWithRange, InData
    <2>2. l \in Nat /\ s.tail \in Seq(Bytes)
      BY <1>1, SliceFacts
    <2> HIDE DEF m, l, u
    <2>3. s.data = File
      BY <1>5, <2>1, SlicedArraysAssumption
    <2>4. s.tail = <<>>
      BY <2>3 DEF Entries
    <2>5. at + n <= l
      BY <2>2, <2>4 DEF SliceLength, l
    <2>6. m = n
      BY <2>2, <2>5, LesserOfTwo DEF m, InData
    <2>7. at + n - l < at + m - l + 1 /\ at + n - l \in Int /\ at + m - l + 1 \in Int
      BY <2>2, <2>6
    <2> QED BY <2>1, <2>7, SubSeqEmpty
  <1> HIDE DEF u
  <1>6. u \in Entries(mem)
    BY <1>2, <1>4, <1>5 DEF Entries
  <1> QED BY <1>2, <1>6 DEF u, BytesOf

\* Appending one entry to another: the answer is an entry, and everybody else
\* goes on.
LEMMA AppendedEntry ==
  ASSUME MemoryIsThere, NEW mem \in Memory, Room(mem, 1),
         NEW s \in Entries(mem), NEW t \in Entries(mem),
         NEW r \in byteSliceByAppendingSlice(mem, s, t)
  PROVE  /\ GoesOn(mem, r.contents, 1)
         /\ r.slice \in Entries(r.contents)
         /\ Copied(r.contents, r.slice) = Copied(mem, s) \o Copied(mem, t)
  <1>1. mem \in Memories(Bytes) /\ mem[File] = Original /\ DOMAIN mem = Data \cup {File, Nil}
    BY DEF Memory, Memories
  <1>2. \E free \in Data : mem[free] = <<>>
    BY FreeData
  <1>3. s \in SlicesIn(mem, Bytes) /\ t \in SlicesIn(mem, Bytes)
    BY <1>1, EntryFacts
  <1>4. Exact(mem, s, t, r, Bytes)
    BY <1>1, <1>2, <1>3, AppendingIsExact
  <1>5. s.data # File
    BY DEF byteSliceByAppendingSlice, AppendedInTail
  <1>6. \E d \in Data : /\ r.contents[File] = mem[File] /\ r.slice.data # File
                        /\ Used(r.contents) \subseteq Used(mem) \cup {d}
    <2>1. CASE r \in AppendedInTail(mem, s, t)
      <3>1. r.contents = mem /\ r.slice.data = s.data
        BY <1>3, <2>1, SliceWithTail, SliceFacts, <1>1 DEF AppendedInTail
      <3> QED BY <1>2, <1>5, <3>1
    <2>2. CASE /\ r \in AppendedInData(mem, s, t)
               /\ s.offset + s.length = Len(mem[s.data])
      <3> DEFINE d == IF s.data = Nil THEN NewData(mem) ELSE s.data
                 end == s.tail \o Copied(mem, t)
                 k == Len(end) - MaxTail
                 x == SubSeq(end, 1, k)
                 joined == SliceOf(d, s.offset, s.length + k, SubSeq(end, k + 1, Len(end)))
      <3>1. d \in Data
        BY <1>1, <1>2, <1>3, <1>5, <2>2, DataOfAppended
      <3>2. r = [slice |-> joined, contents |-> Grown(mem, d, x)]
        BY <2>2, Zenon DEF AppendedInData, Grown, SliceOf
      <3> HIDE DEF d, x, k, end
      <3>3. r.contents = Grown(mem, d, x) /\ r.slice.data = d
        BY <3>2 DEF SliceOf
      <3>4. \A y \in Data \cup {File, Nil} : y # d => r.contents[y] = mem[y]
        BY <1>1, <3>3 DEF Grown
      <3>5. d # File
        BY <3>1, SlicedArraysAssumption
      <3>6. Used(r.contents) \subseteq Used(mem) \cup {d}
        BY <3>4 DEF Used
      <3> QED BY <3>1, <3>3, <3>4, <3>5, <3>6
    <2> QED BY <2>1, <2>2 DEF byteSliceByAppendingSlice
  <1>7. PICK d \in Data : /\ r.contents[File] = mem[File] /\ r.slice.data # File
                          /\ Used(r.contents) \subseteq Used(mem) \cup {d}
    BY <1>6
  <1>8. r.contents \in Memory
    BY <1>1, <1>4, <1>7 DEF Memory, Exact
  <1>9. \A j \in Nat : Room(mem, 1 + j) => Room(r.contents, j)
    BY <1>7, RoomLeft
  <1>10. GoesOn(mem, r.contents, 1)
    BY <1>4, <1>8, <1>9 DEF GoesOn, Exact
  <1>11. SliceLength(r.slice) > 0
    <2> DEFINE c == Copied(mem, s)  e == Copied(mem, t)
    <2>1. /\ c \in Seq(Bytes) /\ e \in Seq(Bytes)
          /\ Len(c) \in Nat /\ Len(c) > 0 /\ Len(e) \in Nat
      BY <1>1, EntryFacts
    <2>2. Len(c \o e) = Len(c) + Len(e)
      <3> HIDE DEF c, e
      <3> QED BY <2>1, ConcatProperties
    <2>3. Copied(r.contents, r.slice) = c \o e
      BY <1>4 DEF Exact
    <2>4. Len(Copied(r.contents, r.slice)) = SliceLength(r.slice)
      BY <1>4, CopiedType DEF Exact
    <2> HIDE DEF c, e
    <2> QED BY <2>1, <2>2, <2>3, <2>4
  <1>12. r.slice \in Entries(r.contents)
    BY <1>4, <1>7, <1>11 DEF Exact, Entries
  <1> QED BY <1>4, <1>10, <1>12 DEF Exact

-----------------------------------------------------------------------------
(* The edits of a byte array *)

\* A list of slices and the memory they are in.
Good(st) ==
    /\ st = [slices |-> st.slices, contents |-> st.contents]
    /\ st.contents \in Memory
    /\ st.slices \in Seq(Entries(st.contents))

\* r is st with that text, and nobody else reads anything else; at most k
\* objects have been made.
Edited(st, r, text, k) ==
    Good(r) /\ GoesOn(st.contents, r.contents, k) /\ TextOf(r) = text

\* The text of a list of slices is as long as the slices together.
LEMMA GoodText ==
  ASSUME NEW st, Good(st)
  PROVE  /\ st.contents \in Memory /\ st.contents \in Memories(Bytes)
         /\ st.slices \in Seq(Entries(st.contents))
         /\ TextOf(st) = TextIn(st.contents, st.slices)
         /\ TextOf(st) \in Seq(Bytes)
         /\ LengthOf(st.slices) = Len(TextOf(st)) /\ LengthOf(st.slices) \in Nat
  <1>1. /\ st.contents \in Memory /\ st.contents \in Memories(Bytes)
        /\ st.slices \in Seq(Entries(st.contents))
    BY DEF Good, Memory
  <1>2. TextOf(st) = TextIn(st.contents, st.slices)
    BY DEF TextOf, TextIn
  <1>3. /\ LengthOf(st.slices) = Len(TextIn(st.contents, st.slices))
        /\ TextIn(st.contents, st.slices) \in Seq(Bytes)
    BY <1>1, EndsAreLengths
  <1> QED BY <1>1, <1>2, <1>3, LenProperties

\* A state is good if its parts are.
LEMMA GoodState ==
  ASSUME NEW mem \in Memory, NEW slices \in Seq(Entries(mem))
  PROVE  /\ Good([slices |-> slices, contents |-> mem])
         /\ TextOf([slices |-> slices, contents |-> mem]) = TextIn(mem, slices)
  <1> DEFINE st == [slices |-> slices, contents |-> mem]
  <1>1. st.slices = slices /\ st.contents = mem
    OBVIOUS
  <1> HIDE DEF st
  <1>2. st = [slices |-> st.slices, contents |-> st.contents]
    BY <1>1 DEF st
  <1>3. Good(st)
    BY <1>1, <1>2 DEF Good
  <1>4. TextOf(st) = TextIn(mem, slices)
    BY <1>1 DEF TextOf, TextIn
  <1> QED BY <1>3, <1>4 DEF st

\* Brackets.
LEMMA TextsClosed ==
  ASSUME NEW S
  PROVE  \A a, b \in Text(S) : a \o b \in Text(S)
  BY ConcatProperties DEF Text

\* The list of slices in which middle and right take the place of one.
Around(front, middle, right, back) == ((front \o middle) \o right) \o back

\* A list of four parts has the bytes of the four.
LEMMA AroundText ==
  ASSUME NEW mem \in Memories(Bytes)
  PROVE  \A front, middle, right, back \in Lists(mem) :
            /\ Around(front, middle, right, back) \in Lists(mem)
            /\ TextIn(mem, Around(front, middle, right, back))
                   = Around(TextIn(mem, front), TextIn(mem, middle),
                            TextIn(mem, right), TextIn(mem, back))
  <1> TAKE front, middle, right, back \in Lists(mem)
  <1> DEFINE T == Entries(mem)
             U == SlicesIn(mem, Bytes)
             a == front \o middle
             b == a \o right
             c == b \o back
  <1>1. T \subseteq U
    BY DEF Entries
  <1> HIDE DEF T, U
  <1>2. front \in Seq(T) /\ middle \in Seq(T) /\ right \in Seq(T) /\ back \in Seq(T)
    BY DEF T, Lists
  <1>3. a \in Seq(T)
    BY <1>2, ConcatProperties
  <1> HIDE DEF a
  <1>4. b \in Seq(T)
    BY <1>2, <1>3, ConcatProperties
  <1> HIDE DEF b
  <1>5. c \in Seq(T)
    BY <1>2, <1>4, ConcatProperties
  <1>6. /\ front \in Seq(U) /\ middle \in Seq(U) /\ right \in Seq(U) /\ back \in Seq(U)
        /\ a \in Seq(U) /\ b \in Seq(U)
    BY <1>1, <1>2, <1>3, <1>4, SeqMonotonic
  <1>7. TextIn(mem, a) = TextIn(mem, front) \o TextIn(mem, middle)
    BY <1>6, TextConcat DEF U, a
  <1>8. TextIn(mem, b) = TextIn(mem, a) \o TextIn(mem, right)
    BY <1>6, TextConcat DEF U, b
  <1>9. TextIn(mem, c) = TextIn(mem, b) \o TextIn(mem, back)
    BY <1>6, TextConcat DEF U
  <1> HIDE DEF c
  <1>10. c \in Seq(T) /\ TextIn(mem, c)
            = ((TextIn(mem, front) \o TextIn(mem, middle)) \o TextIn(mem, right)) \o TextIn(mem, back)
    BY <1>5, <1>7, <1>8, <1>9
  <1> QED BY <1>10 DEF a, b, c, T, Lists, Around

\* An insertion at the start.
LEMMA InsertedAtStart ==
  ASSUME NEW st, Good(st), NEW slice \in Entries(st.contents)
  PROVE  Edited(st, insertByteSliceAtOffset(st, slice, 0),
                Splice(TextOf(st), 0, 0, Copied(st.contents, slice)), 1)
  <1> DEFINE mem == st.contents
             slices == st.slices
             more == <<slice>> \o slices
             c == Copied(mem, slice)
             t == TextOf(st)
             r == [slices |-> more, contents |-> mem]
             U == SlicesIn(mem, Bytes)
             T == Entries(mem)
  <1>1. /\ mem \in Memory /\ mem \in Memories(Bytes) /\ slices \in Seq(T)
        /\ t = TextIn(mem, slices) /\ t \in Seq(Bytes)
    BY GoodText
  <1>2. insertByteSliceAtOffset(st, slice, 0) = r
    <2>1. st = [slices |-> slices, contents |-> mem]
      BY DEF Good
    <2>2. [st EXCEPT !.slices = more] = [slices |-> more, contents |-> mem]
      <3> DEFINE s == st.slices  m == st.contents
      <3>1. st = [slices |-> s, contents |-> m]
        BY <2>1
      <3> HIDE DEF s, m
      <3>2. [st EXCEPT !.slices = <<slice>> \o s] = [slices |-> <<slice>> \o s, contents |-> m]
        BY <3>1, SMTT(60)
      <3> QED BY <3>2 DEF s, m
    <2>3. insertByteSliceAtOffset(st, slice, 0) = [st EXCEPT !.slices = more]
      BY DEF insertByteSliceAtOffset
    <2> QED BY <2>2, <2>3
  <1>3. slice \in U /\ c \in Seq(Bytes)
    BY <1>1, EntryFacts
  <1>4. T \subseteq U /\ slice \in T
    BY DEF Entries
  <1> HIDE DEF mem, slices, U, T, c, t
  <1>5. <<slice>> \in Seq(T) /\ <<slice>> \in Seq(U) /\ slices \in Seq(U)
    BY <1>1, <1>3, <1>4, SeqMonotonic
  <1>6. more \in Seq(T)
    BY <1>1, <1>5, ConcatProperties
  <1>7. TextIn(mem, more) = c \o t
    <2>1. TextIn(mem, more) = TextIn(mem, <<slice>>) \o TextIn(mem, slices)
      BY <1>1, <1>5, TextConcat DEF U
    <2>2. TextIn(mem, <<slice>>) = c
      BY <1>3, TextOne DEF c
    <2> QED BY <1>1, <2>1, <2>2
  <1>8. Splice(t, 0, 0, c) = c \o t
    <2> DEFINE none == <<>>
    <2>1. none \in Text(Bytes) /\ Len(none) = 0
      BY EmptySeq DEF Text
    <2>2. none \o t = t /\ none \o c = c
      BY <1>1, <1>3, ConcatEmptySeq DEF mem, slices, t, c
    <2> HIDE DEF none
    <2>3. t \in Text(Bytes) /\ c \in Text(Bytes)
      BY <1>1, <1>3 DEF Text
    <2>4. Splice(none \o t, Len(none), 0, c) = (none \o c) \o t
      BY <2>1, <2>3, PutBetween
    <2> QED BY <2>1, <2>2, <2>4
  <1>9. Good(r) /\ TextOf(r) = c \o t
    <2> HIDE DEF more
    <2> QED BY <1>1, <1>6, <1>7, GoodState DEF T
  <1>10. GoesOn(mem, mem, 1)
    BY <1>1, GoesOnSame, GoesOnLess
  <1>11. r.contents = mem
    OBVIOUS
  <1> HIDE DEF r
  <1>12. Edited(st, r, Splice(t, 0, 0, c), 1)
    BY <1>8, <1>9, <1>10, <1>11 DEF Edited, mem
  <1> QED BY <1>2, <1>12 DEF c, t, mem

\* The slice around an offset and what it is split into.
Left(slices, i, into) == subsliceWithRange(slices[i], 0, into)

Right(slices, i, into, length) ==
    IF into = length THEN <<>> ELSE <<subsliceWithRange(slices[i], into, length - into)>>

\* The two parts of a slice around an offset in it.
LEMMA SplitEntry ==
  ASSUME NEW mem \in Memories(Bytes), NEW slices \in Seq(Entries(mem)),
         NEW i \in 1 .. Len(slices),
         NEW into \in Nat \ {0}, into <= SliceLength(slices[i])
  PROVE  LET left == Left(slices, i, into)
             right == Right(slices, i, into, SliceLength(slices[i]))
         IN  /\ left \in Entries(mem) /\ right \in Seq(Entries(mem))
             /\ Copied(mem, left) \in Text(Bytes) /\ Len(Copied(mem, left)) = into
             /\ TextIn(mem, right) \in Text(Bytes)
             /\ Copied(mem, slices[i]) = Copied(mem, left) \o TextIn(mem, right)
  <1> DEFINE s == slices[i]
             length == SliceLength(s)
             left == Left(slices, i, into)
             right == Right(slices, i, into, length)
             c == Copied(mem, s)
             T == Entries(mem)
             m == length - into
             u == subsliceWithRange(s, into, m)
  <1>1. length \in Nat /\ c \in Seq(Bytes) /\ Len(c) = length /\ s \in Entries(mem)
    <2>1. s \in Entries(mem)
      BY ElementOfSeq
    <2> QED BY <2>1, EntryFacts
  <1>2. into <= length
    OBVIOUS
  <1>3. left \in T /\ Copied(mem, left) = SubSeq(c, 1, into)
    <2>1. 0 + into <= SliceLength(s) /\ 0 + 1 = 1 /\ 0 + into = into /\ 0 \in Nat
      BY <1>1
    <2>2. /\ subsliceWithRange(s, 0, into) \in Entries(mem)
          /\ Copied(mem, subsliceWithRange(s, 0, into)) = SubSeq(c, 0 + 1, 0 + into)
      BY <2>1, PartOfEntry
    <2> QED BY <2>1, <2>2 DEF Left
  <1>4. /\ SubSeq(c, 1, into) \in Seq(Bytes) /\ Len(SubSeq(c, 1, into)) = into
        /\ SubSeq(c, into + 1, length) \in Seq(Bytes)
        /\ Len(SubSeq(c, into + 1, length)) = m
        /\ SubSeq(c, 1, into) \o SubSeq(c, into + 1, length) = c
    <2>1. into \in 0 .. Len(c)
      BY <1>1
    <2> HIDE DEF c, length
    <2> QED BY <1>1, <2>1, TwoParts
  <1>5. right \in Seq(T) /\ TextIn(mem, right) = SubSeq(c, into + 1, length)
    <2>1. CASE into = length
      <3>1. right = <<>> /\ right \in Seq(T)
        BY <2>1, EmptySeq DEF Right
      <3>2. Len(SubSeq(c, into + 1, length)) = 0
        BY <1>4, <2>1
      <3>3. SubSeq(c, into + 1, length) = <<>>
        BY <1>4, <3>2, EmptySeq
      <3> QED BY <3>1, <3>3, TextOne
    <2>2. CASE into # length
      <3>1. m \in Nat \ {0} /\ into + m = length /\ into \in Nat
        BY <1>1, <2>2
      <3> HIDE DEF m
      <3>2. u \in T /\ Copied(mem, u) = SubSeq(c, into + 1, into + m)
        BY <3>1, PartOfEntry
      <3> HIDE DEF T, u
      <3>3. right = <<u>>
        BY <2>2 DEF Right, u, m
      <3>4. <<u>> \in Seq(T)
        BY <3>2
      <3>5. Copied(mem, u) \in Seq(Bytes)
        BY <1>4, <3>1, <3>2
      <3> QED BY <3>1, <3>2, <3>3, <3>4, <3>5, TextOne
    <2> QED BY <2>1, <2>2
  <1> HIDE DEF left, right, c, T, m
  <1>6. Copied(mem, left) \in Text(Bytes) /\ TextIn(mem, right) \in Text(Bytes)
    BY <1>3, <1>4, <1>5 DEF Text
  <1> QED BY <1>3, <1>4, <1>5, <1>6 DEF left, right, c, T

\* What an offset cuts a list into.
EntryAt(slices, offset) == EntryContaining(slices, offset - 1)

Into(slices, offset) == offset - Ends(slices)[EntryAt(slices, offset) - 1]

FrontAt(slices, offset) == SubSeq(slices, 1, EntryAt(slices, offset) - 1)

LeftAt(slices, offset) ==
    Left(slices, EntryAt(slices, offset), Into(slices, offset))

RightAt(slices, offset) ==
    Right(slices, EntryAt(slices, offset), Into(slices, offset),
          SliceLength(slices[EntryAt(slices, offset)]))

BackAt(slices, offset) ==
    SubSeq(slices, EntryAt(slices, offset) + 1, Len(slices))

\* These are the parts of a list with that text.
IsCut(mem, text, offset, front, left, right, back) ==
    /\ front \in Lists(mem) /\ left \in Entries(mem)
    /\ right \in Lists(mem) /\ back \in Lists(mem)
    /\ TextIn(mem, front) \in Text(Bytes) /\ Copied(mem, left) \in Text(Bytes)
    /\ TextIn(mem, right) \in Text(Bytes) /\ TextIn(mem, back) \in Text(Bytes)
    /\ text = (TextIn(mem, front) \o Copied(mem, left))
                  \o (TextIn(mem, right) \o TextIn(mem, back))
    /\ Len(TextIn(mem, front) \o Copied(mem, left)) = offset

\* The text of a list, cut at an offset.
LEMMA CutAtOffset ==
  ASSUME NEW mem \in Memories(Bytes), NEW slices \in Lists(mem),
         NEW offset \in Nat \ {0}, offset <= LengthOf(slices)
  PROVE  IsCut(mem, TextIn(mem, slices), offset, FrontAt(slices, offset),
               LeftAt(slices, offset), RightAt(slices, offset), BackAt(slices, offset))
  <1> DEFINE E == Ends(slices)
             i == EntryContaining(slices, offset - 1)
             s == slices[i]
             into == offset - E[i - 1]
             length == SliceLength(s)
             front == SubSeq(slices, 1, i - 1)
             left == Left(slices, i, into)
             right == Right(slices, i, into, length)
             back == SubSeq(slices, i + 1, Len(slices))
             p == TextIn(mem, front)
             l == Copied(mem, left)
             r == TextIn(mem, right)
             q == TextIn(mem, back)
             c == Copied(mem, s)
             T == Entries(mem)
  <1>1. slices \in Seq(T)
    BY DEF Lists
  <1>2. offset - 1 \in Nat /\ offset - 1 < LengthOf(slices)
    <2>1. LengthOf(slices) \in Nat
      BY <1>1, EndsAreLengths, LenProperties
    <2> QED BY <2>1
  <1>3. i \in 1 .. Len(slices) /\ E[i - 1] <= offset - 1 /\ offset - 1 < E[i]
    BY <1>1, <1>2, EntryIs
  <1> HIDE DEF i
  <1>4. /\ TextIn(mem, slices) = p \o (c \o q)
        /\ p \in Seq(Bytes) /\ c \in Seq(Bytes) /\ q \in Seq(Bytes)
        /\ Len(p) = E[i - 1] /\ Len(c) = length
        /\ E[i] = E[i - 1] + length /\ E[i - 1] \in Nat /\ E[i] \in Nat
        /\ s \in T /\ front \in Seq(T) /\ back \in Seq(T)
    BY <1>1, <1>3, TextAround
  <1>5. length \in Nat
    BY <1>4, LenProperties
  <1> HIDE DEF E, s, front, back, p, q, c, T, length
  <1>6. into \in Nat \ {0} /\ into <= length
    BY <1>3, <1>4, <1>5, SMTT(60)
  <1> HIDE DEF into
  <1>7. /\ left \in T /\ right \in Seq(T) /\ l \in Text(Bytes) /\ Len(l) = into
        /\ r \in Text(Bytes) /\ c = l \o r
    <2>1. slices[i] \in Entries(mem) /\ length = SliceLength(slices[i])
      BY <1>4 DEF length, T, s
    <2>2. T = Entries(mem) /\ c = Copied(mem, slices[i])
      BY DEF T, c, s
    <2>3. into <= SliceLength(slices[i])
      BY <1>6, <2>1
    <2> HIDE DEF left, right, l, r
    <2>4. /\ Left(slices, i, into) \in T /\ Right(slices, i, into, length) \in Seq(T)
          /\ Copied(mem, Left(slices, i, into)) \in Text(Bytes)
          /\ Len(Copied(mem, Left(slices, i, into))) = into
          /\ TextIn(mem, Right(slices, i, into, length)) \in Text(Bytes)
          /\ c = Copied(mem, Left(slices, i, into)) \o TextIn(mem, Right(slices, i, into, length))
      <3>1. mem \in Memories(Bytes) /\ slices \in Seq(Entries(mem)) /\ i \in 1 .. Len(slices)
            /\ into \in Nat \ {0} /\ into <= SliceLength(slices[i])
        BY <1>1, <1>3, <1>6, <2>2, <2>3
      <3>2. LET a == Left(slices, i, into)
                b == Right(slices, i, into, SliceLength(slices[i]))
            IN  /\ a \in Entries(mem) /\ b \in Seq(Entries(mem))
                /\ Copied(mem, a) \in Text(Bytes) /\ Len(Copied(mem, a)) = into
                /\ TextIn(mem, b) \in Text(Bytes)
                /\ Copied(mem, slices[i]) = Copied(mem, a) \o TextIn(mem, b)
        BY <3>1, SplitEntry, SMTT(60)
      <3> QED BY <2>1, <2>2, <3>2
    <2> QED BY <2>4 DEF left, right, l, r
  <1> HIDE DEF left, right, l, r
  <1>8. p \in Text(Bytes) /\ q \in Text(Bytes)
    BY <1>4 DEF Text
  <1>9. TextIn(mem, slices) = (p \o l) \o (r \o q)
    <2>1. l \in Text(Bytes) /\ r \in Text(Bytes)
      BY <1>7
    <2>2. p \o ((l \o r) \o q) = (p \o l) \o (r \o q)
      BY <1>8, <2>1, TextsJoin, TextsClosed, SMTT(60)
    <2> QED BY <1>4, <1>7, <2>2
  <1>10. Len(p \o l) = offset
    <2>1. p \in Seq(Bytes) /\ l \in Seq(Bytes)
      BY <1>4, <1>7 DEF Text
    <2>2. Len(p \o l) = Len(p) + Len(l)
      BY <2>1, ConcatProperties
    <2> QED BY <1>4, <1>7, <2>2 DEF into
  <1>11. IsCut(mem, TextIn(mem, slices), offset, front, left, right, back)
    BY <1>4, <1>7, <1>8, <1>9, <1>10 DEF IsCut, Lists, T, p, l, r, q
  <1>12. /\ front = FrontAt(slices, offset) /\ left = LeftAt(slices, offset)
         /\ right = RightAt(slices, offset) /\ back = BackAt(slices, offset)
    BY DEF FrontAt, LeftAt, RightAt, BackAt, EntryAt, Into,
           front, left, right, back, i, into, s, length, E
  <1> QED BY <1>11, <1>12

\* Other slices in the same memory.
LEMMA WithSlices ==
  ASSUME NEW st, Good(st), NEW x
  PROVE  [st EXCEPT !.slices = x] = [slices |-> x, contents |-> st.contents]
  <1> DEFINE s == st.slices  m == st.contents
  <1>1. st = [slices |-> s, contents |-> m]
    BY DEF Good
  <1> HIDE DEF s, m
  <1>2. [st EXCEPT !.slices = x] = [slices |-> x, contents |-> m]
    BY <1>1
  <1> QED BY <1>2 DEF m

\* An insertion behind other bytes: the slice before the offset may be
\* appended to, or the new one is put between the two parts.
LEMMA InsertedBehind ==
  ASSUME MemoryIsThere, NEW st, Good(st), Room(st.contents, 1),
         NEW slice \in Entries(st.contents),
         NEW offset \in Nat \ {0}, offset <= LengthOf(st.slices)
  PROVE  Edited(st, insertByteSliceAtOffset(st, slice, offset),
                Splice(TextOf(st), offset, 0, Copied(st.contents, slice)), 1)
  <1> DEFINE mem == st.contents
             slices == st.slices
             front == FrontAt(slices, offset)
             left == LeftAt(slices, offset)
             right == RightAt(slices, offset)
             back == BackAt(slices, offset)
             p == TextIn(mem, front)
             l == Copied(mem, left)
             r == TextIn(mem, right)
             q == TextIn(mem, back)
             x == Copied(mem, slice)
             t == TextOf(st)
             appended == byteSliceByAppendingSlice(mem, left, slice)
             joined == CHOOSE a \in appended : TRUE
             new == insertByteSliceAtOffset(st, slice, offset)
             two == <<left, slice>>
             one == <<joined.slice>>
  <1>1. /\ mem \in Memory /\ mem \in Memories(Bytes) /\ slices \in Lists(mem)
        /\ t = TextIn(mem, slices) /\ offset <= LengthOf(slices)
    BY GoodText DEF Lists
  <1>2. slice \in Entries(mem)
    OBVIOUS
  <1>3. x \in Text(Bytes)
    BY <1>1, EntryFacts DEF Text
  <1>4. new = IF appended = {} THEN [st EXCEPT !.slices = Around(front, two, right, back)]
              ELSE [slices |-> Around(front, one, right, back), contents |-> joined.contents]
    BY DEF insertByteSliceAtOffset, Left, Right, FrontAt, LeftAt, RightAt, BackAt,
           EntryAt, Into, Around
  <1> HIDE DEF mem, slices, front, left, right, back, p, l, r, q, x, t, appended, joined, new
  <1>5. IsCut(mem, t, offset, front, left, right, back)
    BY <1>1, CutAtOffset DEF front, left, right, back
  <1>6. /\ p \in Text(Bytes) /\ l \in Text(Bytes) /\ r \in Text(Bytes) /\ q \in Text(Bytes)
    BY <1>5 DEF IsCut, p, l, r, q
  <1>7. t = (p \o l) \o (r \o q) /\ Len(p \o l) = offset
    BY <1>5 DEF IsCut, p, l, r, q
  <1>8. /\ front \in Lists(mem) /\ left \in Entries(mem)
        /\ right \in Lists(mem) /\ back \in Lists(mem)
    BY <1>5 DEF IsCut
  <1>9. Splice(t, offset, 0, x) = Around(p, l \o x, r, q)
    <2> DEFINE a == p \o l  b == r \o q
    <2>1. a \in Text(Bytes) /\ b \in Text(Bytes)
      BY <1>6, TextsClosed
    <2>2. t = a \o b /\ offset = Len(a)
      BY <1>7
    <2> HIDE DEF a, b
    <2>3. Splice(a \o b, Len(a), 0, x) = (a \o x) \o b
      BY <1>3, <2>1, PutBetween
    <2>4. ((p \o (l \o x)) \o r) \o q = ((p \o l) \o x) \o (r \o q)
      BY <1>3, <1>6, TextsJoin, TextsClosed
    <2> QED BY <2>2, <2>3, <2>4 DEF a, b, Around
  <1>10. CASE appended = {}
    <2> DEFINE list == Around(front, two, right, back)
    <2>1. new = [slices |-> list, contents |-> mem]
      BY <1>4, <1>10, WithSlices DEF mem
    <2>2. two \in Lists(mem) /\ TextIn(mem, two) = l \o x
      <3> DEFINE u == <<left>>  v == <<slice>>  U == SlicesIn(mem, Bytes)  T == Entries(mem)
      <3>1. u \o v = two
        BY TwoSlices
      <3>2. T \subseteq U
        BY DEF Entries
      <3> HIDE DEF T, U
      <3>3. two \in Seq(T) /\ u \in Seq(U) /\ v \in Seq(U)
        BY <1>2, <1>8, <3>2 DEF T
      <3>4. TextIn(mem, u) = l /\ TextIn(mem, v) = x
        BY <1>3, <1>6, TextOne DEF l, x, Text
      <3> HIDE DEF u, v, two
      <3>5. TextIn(mem, u \o v) = TextIn(mem, u) \o TextIn(mem, v)
        BY <1>1, <3>3, TextConcat DEF U
      <3> QED BY <3>1, <3>3, <3>4, <3>5 DEF Lists, T
    <2> HIDE DEF two
    <2>3. list \in Lists(mem) /\ TextIn(mem, list) = Around(p, l \o x, r, q)
      <3> DEFINE a == mem  b == front  c == two  d == right  e == back
      <3>1. a \in Memories(Bytes) /\ b \in Lists(a) /\ c \in Lists(a) /\ d \in Lists(a) /\ e \in Lists(a)
        BY <1>1, <1>8, <2>2
      <3> HIDE DEF a, b, c, d, e
      <3>2. Around(b, c, d, e) \in Lists(a)
        BY <3>1, AroundText
      <3>3. TextIn(a, Around(b, c, d, e)) = Around(TextIn(a, b), TextIn(a, c), TextIn(a, d), TextIn(a, e))
        BY <3>1, AroundText
      <3> QED BY <2>2, <3>2, <3>3 DEF p, r, q, a, b, c, d, e
    <2> HIDE DEF list
    <2>4. Good(new) /\ TextOf(new) = Splice(t, offset, 0, x)
      BY <1>1, <1>9, <2>1, <2>3, GoodState DEF Lists
    <2>5. GoesOn(mem, mem, 1) /\ new.contents = mem
      BY <1>1, <2>1, GoesOnSame, GoesOnLess
    <2> QED BY <2>4, <2>5 DEF Edited, new, t, x, mem
  <1>11. CASE appended # {}
    <2> DEFINE m2 == joined.contents
               list == Around(front, one, right, back)
    <2>1. joined \in appended
      BY <1>11 DEF joined
    <2>2. new = [slices |-> list, contents |-> m2]
      BY <1>4, <1>11
    <2>3. /\ GoesOn(mem, m2, 1) /\ joined.slice \in Entries(m2)
          /\ Copied(m2, joined.slice) = l \o x
      BY <1>1, <1>2, <1>8, <2>1, AppendedEntry DEF appended, l, x, mem
    <2> HIDE DEF m2
    <2>4. m2 \in Memory /\ m2 \in Memories(Bytes)
      BY <2>3 DEF GoesOn, Memory
    <2>5. one \in Lists(m2) /\ TextIn(m2, one) = l \o x
      <3> DEFINE s == joined.slice  c == Copied(m2, s)  T == Entries(m2)
      <3>1. l \o x \in Text(Bytes)
        BY <1>3, <1>6, TextsClosed
      <3>2. s \in T /\ c = l \o x
        BY <2>3
      <3>3. c \in Seq(Bytes)
        BY <3>1, <3>2 DEF Text
      <3>4. TextIn(m2, <<s>>) = c
        BY <3>3, TextOne
      <3> HIDE DEF s, T
      <3>5. <<s>> \in Seq(T)
        BY <3>2
      <3> QED BY <3>2, <3>4, <3>5 DEF s, T, Lists
    <2> HIDE DEF one
    <2>6. /\ front \in Lists(m2) /\ TextIn(m2, front) = p
          /\ right \in Lists(m2) /\ TextIn(m2, right) = r
          /\ back \in Lists(m2) /\ TextIn(m2, back) = q
      BY <1>1, <1>8, <2>3, ListGoesOn DEF Lists, p, r, q
    <2>7. list \in Lists(m2) /\ TextIn(m2, list) = Around(p, l \o x, r, q)
      <3> DEFINE a == m2  b == front  c == one  d == right  e == back
      <3>1. a \in Memories(Bytes) /\ b \in Lists(a) /\ c \in Lists(a) /\ d \in Lists(a) /\ e \in Lists(a)
        BY <2>4, <2>5, <2>6
      <3> HIDE DEF a, b, c, d, e
      <3>2. Around(b, c, d, e) \in Lists(a)
        BY <3>1, AroundText
      <3>3. TextIn(a, Around(b, c, d, e)) = Around(TextIn(a, b), TextIn(a, c), TextIn(a, d), TextIn(a, e))
        BY <3>1, AroundText
      <3> QED BY <2>5, <2>6, <3>2, <3>3 DEF a, b, c, d, e
    <2> HIDE DEF list
    <2>8. Good(new) /\ TextOf(new) = Splice(t, offset, 0, x)
      BY <1>9, <2>2, <2>4, <2>7, GoodState DEF Lists
    <2>9. new.contents = m2
      BY <2>2
    <2> QED BY <2>3, <2>8, <2>9 DEF Edited, new, t, x, mem
  <1> QED BY <1>10, <1>11

\* insertByteSlice:atOffset: puts the bytes of the slice there.
LEMMA InsertedSlice ==
  ASSUME MemoryIsThere, NEW st, Good(st), Room(st.contents, 1),
         NEW slice \in Entries(st.contents),
         NEW offset \in Nat, offset <= LengthOf(st.slices)
  PROVE  Edited(st, insertByteSliceAtOffset(st, slice, offset),
                Splice(TextOf(st), offset, 0, Copied(st.contents, slice)), 1)
  <1>1. CASE offset = 0
    BY <1>1, InsertedAtStart
  <1>2. CASE offset # 0
    <2>1. offset \in Nat \ {0}
      BY <1>2
    <2> QED BY <2>1, InsertedBehind
  <1> QED BY <1>1, <1>2

\* A part of a slice is put in unless it is empty.
PutIn(st, s, from, n, offset) ==
    IF n = 0 THEN st
    ELSE insertByteSliceAtOffset(st, subsliceWithRange(s, from, n), offset)

\* A part of a slice is put between two texts.
LEMMA PutInIs ==
  ASSUME MemoryIsThere, NEW st, Good(st), Room(st.contents, 1),
         NEW s \in Entries(st.contents), NEW from \in Nat, NEW n \in Nat,
         from + n <= SliceLength(s),
         NEW p \in Text(Bytes), NEW q \in Text(Bytes), TextOf(st) = p \o q,
         NEW offset, offset = Len(p),
         NEW b, b = BytesOf(Copied(st.contents, s), from, n)
  PROVE  Edited(st, PutIn(st, s, from, n, offset), (p \o b) \o q, 1)
  <1> DEFINE mem == st.contents
             u == subsliceWithRange(s, from, n)
             t == TextOf(st)
  <1>1. /\ mem \in Memory /\ mem \in Memories(Bytes) /\ LengthOf(st.slices) = Len(t)
        /\ t \in Seq(Bytes)
    BY GoodText
  <1>2. CASE n = 0
    <2>1. b = <<>>
      <3>1. Copied(mem, s) \in Seq(Bytes)
        BY <1>1, EntryFacts
      <3>2. from + n < from + 1 /\ from + n \in Int /\ from + 1 \in Int
        BY <1>2
      <3> QED BY <3>1, <3>2, SubSeqEmpty DEF BytesOf
    <2>2. p \o b = p
      BY <2>1, ConcatEmptySeq DEF Text
    <2>3. PutIn(st, s, from, n, offset) = st
      BY <1>2 DEF PutIn
    <2>4. GoesOn(mem, mem, 1)
      BY <1>1, GoesOnSame, GoesOnLess
    <2> QED BY <2>2, <2>3, <2>4 DEF Edited
  <1>3. CASE n # 0
    <2>1. n \in Nat \ {0}
      BY <1>3
    <2>2. u \in Entries(mem) /\ Copied(mem, u) = b
      BY <1>1, <2>1, PartOfEntry DEF BytesOf
    <2>3. b \in Text(Bytes)
      BY <1>1, <2>2, EntryFacts DEF Text
    <2>4. offset \in Nat /\ offset <= LengthOf(st.slices)
      <3>1. p \in Seq(Bytes) /\ q \in Seq(Bytes) /\ t = p \o q
        BY DEF Text
      <3> HIDE DEF t
      <3>2. Len(t) = Len(p) + Len(q) /\ Len(p) \in Nat /\ Len(q) \in Nat
        BY <3>1, ConcatProperties, LenProperties
      <3> QED BY <1>1, <3>2
    <2> HIDE DEF mem, u, t
    <2>5. Edited(st, insertByteSliceAtOffset(st, u, offset), Splice(t, offset, 0, b), 1)
      BY <2>2, <2>4, InsertedSlice DEF mem, t
    <2>6. Splice(p \o q, Len(p), 0, b) = (p \o b) \o q
      BY <2>3, PutBetween
    <2>7. PutIn(st, s, from, n, offset) = insertByteSliceAtOffset(st, u, offset)
      BY <1>3 DEF PutIn, u
    <2> QED BY <2>5, <2>6, <2>7 DEF t
  <1> QED BY <1>2, <1>3

\* A text is cut k bytes behind the start of a slice.
LEMMA CutInEntry ==
  ASSUME NEW mem \in Memories(Bytes), NEW slices \in Seq(Entries(mem)),
         NEW i \in 1 .. Len(slices), NEW k \in 0 .. SliceLength(slices[i])
  PROVE  LET t == TextIn(mem, slices)
             c == Copied(mem, slices[i])
             at == Ends(slices)[i - 1] + k
             n == SliceLength(slices[i]) - k
             p == TextIn(mem, SubSeq(slices, 1, i - 1))
             q == TextIn(mem, SubSeq(slices, i + 1, Len(slices)))
         IN  /\ SubSeq(t, 1, at) = p \o BytesOf(c, 0, k)
             /\ SubSeq(t, at + 1, Len(t)) = BytesOf(c, k, n) \o q
             /\ p \in Text(Bytes) /\ q \in Text(Bytes)
             /\ BytesOf(c, 0, k) \in Text(Bytes) /\ BytesOf(c, k, n) \in Text(Bytes)
  <1> DEFINE E == Ends(slices)
             t == TextIn(mem, slices)
             s == slices[i]
             c == Copied(mem, s)
             length == SliceLength(s)
             at == E[i - 1] + k
             n == length - k
             p == TextIn(mem, SubSeq(slices, 1, i - 1))
             q == TextIn(mem, SubSeq(slices, i + 1, Len(slices)))
             a == BytesOf(c, 0, k)
             b == BytesOf(c, k, n)
             pa == p \o a
             bq == b \o q
  <1>1. /\ t = p \o (c \o q)
        /\ p \in Seq(Bytes) /\ c \in Seq(Bytes) /\ q \in Seq(Bytes)
        /\ Len(p) = E[i - 1] /\ Len(c) = length /\ E[i - 1] \in Nat
    BY TextAround
  <1>2. k \in 0 .. length
    OBVIOUS
  <1> HIDE DEF E, t, s, c, p, q, length
  <1>3. length \in Nat
    BY <1>1, LenProperties
  <1>4. a \in Seq(Bytes) /\ Len(a) = k /\ b \in Seq(Bytes) /\ a \o b = c
    <2>1. a = SubSeq(c, 1, k)
      <3>1. 0 + 1 = 1 /\ 0 + k = k
        BY <1>2, <1>3
      <3> QED BY <3>1 DEF BytesOf
    <2>2. b = SubSeq(c, k + 1, Len(c))
      <3>1. k + n = Len(c)
        BY <1>1, <1>2, <1>3
      <3> QED BY <3>1 DEF BytesOf
    <2>3. k \in 0 .. Len(c)
      BY <1>1, <1>2
    <2> HIDE DEF a, b
    <2> QED BY <1>1, <2>1, <2>2, <2>3, TwoParts
  <1> HIDE DEF a, b
  <1>5. /\ p \in Text(Bytes) /\ q \in Text(Bytes) /\ a \in Text(Bytes) /\ b \in Text(Bytes)
    BY <1>1, <1>4 DEF Text
  <1>6. t = pa \o bq /\ pa \in Text(Bytes) /\ bq \in Text(Bytes)
    <2>1. p \o ((a \o b) \o q) = (p \o a) \o (b \o q)
      BY <1>5, TextsJoin, TextsClosed, SMTT(60)
    <2>2. p \o a \in Text(Bytes) /\ b \o q \in Text(Bytes)
      BY <1>5, TextsClosed
    <2> QED BY <1>1, <1>4, <2>1, <2>2
  <1>7. Len(pa) = at
    <2>1. Len(p \o a) = Len(p) + Len(a)
      BY <1>1, <1>4, ConcatProperties
    <2> QED BY <1>1, <1>4, <2>1
  <1> HIDE DEF pa, bq, at
  <1>8. SubSeq(t, 1, at) = pa /\ SubSeq(t, at + 1, Len(t)) = bq
    <2>1. pa \in Seq(Bytes) /\ bq \in Seq(Bytes) /\ at = Len(pa)
      BY <1>6, <1>7 DEF Text
    <2> QED BY <1>6, <2>1, Cut
  <1> QED BY <1>5, <1>8 DEF E, t, s, c, p, q, length, at, n, a, b, pa, bq

\* deleteBytesInRange: takes the bytes out.
LEMMA DeletedRange ==
  ASSUME MemoryIsThere, NEW st, Good(st), Room(st.contents, 2),
         NEW at \in Nat, NEW n \in Nat, at + n <= LengthOf(st.slices)
  PROVE  Edited(st, deleteBytesInRange(st, at, n), Splice(TextOf(st), at, n, <<>>), 2)
  <1> DEFINE mem == st.contents
             slices == st.slices
             E == Ends(slices)
             m == Len(slices)
             t == TextOf(st)
             new == deleteBytesInRange(st, at, n)
  <1>1. /\ mem \in Memory /\ mem \in Memories(Bytes) /\ slices \in Seq(Entries(mem))
        /\ t = TextIn(mem, slices) /\ t \in Seq(Bytes)
        /\ LengthOf(slices) = Len(t) /\ at + n <= LengthOf(slices)
    BY GoodText
  <1>2. CASE n = 0
    <2>1. new = st
      BY <1>2 DEF deleteBytesInRange
    <2>2. GoesOn(mem, mem, 2)
      BY <1>1, GoesOnSame, GoesOnLess
    <2>3. Splice(t, at, n, <<>>) = t
      <3> HIDE DEF t
      <3>1. at \in 0 .. Len(t) /\ at + n = at
        BY <1>1, <1>2
      <3>2. /\ SubSeq(t, 1, at) \in Seq(Bytes)
            /\ SubSeq(t, 1, at) \o SubSeq(t, at + 1, Len(t)) = t
        BY <1>1, <3>1, TwoParts
      <3>3. SubSeq(t, 1, at) \o <<>> = SubSeq(t, 1, at)
        BY <3>2, ConcatEmptySeq
      <3> QED BY <3>1, <3>2, <3>3 DEF Splice
    <2> QED BY <2>1, <2>2, <2>3 DEF Edited
  <1>3. CASE n # 0
    <2> DEFINE first == EntryContaining(slices, at)
               last == EntryContaining(slices, at + n - 1)
               base == E[first - 1]
               f == slices[first]
               l == slices[last]
               before == at - base
               after == E[last] - (at + n)
               length == SliceLength(l)
               others == SubSeq(slices, 1, first - 1) \o SubSeq(slices, last + 1, m)
               s0 == [st EXCEPT !.slices = others]
               s1 == PutIn(s0, l, length - after, after, base)
               s2 == PutIn(s1, f, 0, before, base)
    <2>1. new = s2
      BY <1>3 DEF deleteBytesInRange, PutIn
    <2> DEFINE p == TextIn(mem, SubSeq(slices, 1, first - 1))
               q == TextIn(mem, SubSeq(slices, last + 1, m))
               a == BytesOf(Copied(mem, f), 0, before)
               b == BytesOf(Copied(mem, l), length - after, after)
    <2>2. /\ first \in 1 .. m /\ E[first - 1] <= at /\ at < E[first]
      <3>1. at < LengthOf(slices)
        BY <1>1, <1>3, LenProperties
      <3> HIDE DEF slices
      <3> QED BY <1>1, <3>1, EntryIs
    <2>3. /\ last \in 1 .. m /\ E[last - 1] <= at + n - 1 /\ at + n - 1 < E[last]
      <3>1. at + n - 1 < LengthOf(slices) /\ at + n - 1 \in Nat
        BY <1>1, <1>3, LenProperties
      <3> HIDE DEF slices
      <3> QED BY <1>1, <3>1, EntryIs
    <2> HIDE DEF mem, slices, first, last, t, new
    <2>4. /\ Len(p) = base /\ base \in Nat
          /\ E[first] = base + SliceLength(f) /\ f \in Entries(mem)
          /\ SubSeq(slices, 1, first - 1) \in Seq(Entries(mem))
      BY <1>1, <2>2, TextAround
    <2>5. /\ E[last] = E[last - 1] + length /\ E[last - 1] \in Nat /\ l \in Entries(mem)
          /\ SubSeq(slices, last + 1, m) \in Seq(Entries(mem))
      BY <1>1, <2>3, TextAround
    <2>6. length \in Nat /\ SliceLength(f) \in Nat
      BY <1>1, <2>4, <2>5, EntryFacts
    <2> HIDE DEF E, f, l, length, m
    <2>7. before \in 0 .. SliceLength(f) /\ after \in Nat /\ length - after \in 0 .. length
          /\ length - after \in Nat /\ before \in Nat
      <3>1. base \in Nat /\ base <= at /\ at < base + SliceLength(f)
        BY <2>2, <2>4
      <3>2. /\ E[last - 1] \in Nat /\ E[last - 1] <= at + n - 1
            /\ at + n - 1 < E[last - 1] + length /\ E[last] = E[last - 1] + length
        BY <2>3, <2>5
      <3>3. before \in 0 .. SliceLength(f) /\ before \in Nat
        <4> HIDE DEF base
        <4> QED BY <2>6, <3>1
      <3>4. after \in Nat /\ length - after \in 0 .. length /\ length - after \in Nat
        BY <2>6, <3>2
      <3> QED BY <3>3, <3>4
    <2> DEFINE k == length - after
    <2>8. E[last - 1] + k = at + n /\ base + before = at /\ length - k = after
      BY <2>2, <2>3, <2>4, <2>5, <2>6, SMTT(60)
    <2> HIDE DEF before, after, k, base
    <2>9. SubSeq(t, 1, at) = p \o a /\ p \in Text(Bytes) /\ a \in Text(Bytes)
      <3>1. before \in 0 .. SliceLength(slices[first])
        BY <2>7 DEF f
      <3>2. at = Ends(slices)[first - 1] + before
        BY <2>8 DEF base, E
      <3> QED BY <1>1, <2>2, <3>1, <3>2, CutInEntry DEF f, m
    <2>10. SubSeq(t, at + n + 1, Len(t)) = b \o q /\ q \in Text(Bytes) /\ b \in Text(Bytes)
      <3>1. k \in 0 .. SliceLength(slices[last])
        BY <2>7 DEF k, length, l
      <3>2. at + n = Ends(slices)[last - 1] + k /\ after = SliceLength(slices[last]) - k
        BY <2>8 DEF E, length, l
      <3> QED BY <1>1, <2>3, <3>1, <3>2, CutInEntry DEF l, m, k
    <2> HIDE DEF p, q, a, b
    <2>11. Good(s0) /\ s0.contents = mem /\ TextOf(s0) = p \o q
      <3> DEFINE u == SubSeq(slices, 1, first - 1)  v == SubSeq(slices, last + 1, m)
                 U == SlicesIn(mem, Bytes)
      <3>1. s0 = [slices |-> others, contents |-> mem]
        BY WithSlices DEF mem
      <3>2. u \in Seq(Entries(mem)) /\ v \in Seq(Entries(mem)) /\ Entries(mem) \subseteq U
        BY <2>4, <2>5 DEF Entries
      <3>3. others \in Seq(Entries(mem))
        <4> DEFINE T == Entries(mem)
        <4>1. u \in Seq(T) /\ v \in Seq(T)
          BY <3>2
        <4> HIDE DEF T, u, v
        <4>2. u \o v \in Seq(T)
          BY <4>1, ConcatProperties
        <4> QED BY <4>2 DEF T, u, v
      <3>4. TextIn(mem, others) = p \o q
        <4>1. u \in Seq(U) /\ v \in Seq(U)
          <5> HIDE DEF u, v, U
          <5> QED BY <3>2, SeqMonotonic
        <4> HIDE DEF u, v
        <4>2. TextIn(mem, u \o v) = TextIn(mem, u) \o TextIn(mem, v)
          BY <1>1, <4>1, TextConcat
        <4> QED BY <4>2 DEF u, v, p, q
      <3> HIDE DEF others, s0
      <3>5. Good(s0) /\ TextOf(s0) = p \o q
        BY <1>1, <3>1, <3>3, <3>4, GoodState
      <3> QED BY <3>1, <3>5
    <2> HIDE DEF s0
    <2>12. Edited(s0, s1, (p \o b) \o q, 1)
      <3>1. Room(mem, 1)
        <4>1. GoesOn(mem, mem, 1)
          BY <1>1, GoesOnSame, GoesOnLess
        <4>2. Room(mem, 1 + 1)
          BY DEF mem
        <4> QED BY <4>1, <4>2 DEF GoesOn
      <3>2. k + after <= SliceLength(l) /\ base = Len(p)
        BY <2>4, <2>6, <2>7 DEF k, length
      <3> HIDE DEF s1
      <3>3. Edited(s0, PutIn(s0, l, k, after, base), (p \o b) \o q, 1)
        BY <2>5, <2>7, <2>9, <2>10, <2>11, <3>1, <3>2, PutInIs DEF b, k
      <3> QED BY <3>3 DEF s1, k
    <2> HIDE DEF s1
    <2>13. /\ Good(s1) /\ TextOf(s1) = p \o (b \o q) /\ GoesOn(mem, s1.contents, 1)
           /\ p \in Text(Bytes) /\ b \o q \in Text(Bytes)
      <3>1. (p \o b) \o q = p \o (b \o q)
        BY <2>9, <2>10, TextsJoin, SMTT(60)
      <3> QED BY <2>9, <2>10, <2>11, <2>12, <3>1, TextsClosed DEF Edited
    <2>14. Edited(s1, s2, (p \o a) \o (b \o q), 1)
      <3> DEFINE m1 == s1.contents
                 bq == b \o q
                 c == Copied(mem, f)
      <3>1. Room(m1, 1)
        <4>1. Room(mem, 1 + 1)
          BY DEF mem
        <4> QED BY <2>13, <4>1 DEF GoesOn
      <3>2. f \in Entries(m1) /\ Copied(m1, f) = c
        <4>1. f \in SlicesIn(mem, Bytes)
          BY <2>4 DEF Entries
        <4> QED BY <1>1, <2>4, <2>13, <4>1, ListGoesOn DEF GoesOn
      <3>3. 0 + before <= SliceLength(f) /\ base = Len(p) /\ 0 \in Nat
        BY <2>4, <2>6, <2>7
      <3>4. a = BytesOf(Copied(m1, f), 0, before)
        BY <3>2 DEF a
      <3>5. bq \in Text(Bytes) /\ TextOf(s1) = p \o bq
        BY <2>13
      <3> HIDE DEF m1, bq, s2
      <3>6. Edited(s1, PutIn(s1, f, 0, before, base), (p \o a) \o bq, 1)
        BY <2>7, <2>9, <2>13, <3>1, <3>2, <3>3, <3>4, <3>5, PutInIs DEF m1
      <3> QED BY <3>6 DEF s2, bq
    <2> HIDE DEF s2
    <2>15. Splice(t, at, n, <<>>) = (p \o a) \o (b \o q)
      <3> DEFINE pa == p \o a
      <3>1. pa \in Seq(Bytes)
        BY <2>9, TextsClosed DEF Text
      <3>2. pa \o <<>> = pa
        <4> HIDE DEF pa
        <4> QED BY <3>1, ConcatEmptySeq
      <3> QED BY <2>9, <2>10, <3>2 DEF Splice
    <2>16. GoesOn(mem, s2.contents, 2)
      <3>1. GoesOn(s1.contents, s2.contents, 1) /\ 2 = 1 + 1 /\ 1 \in Nat
        BY <2>14 DEF Edited
      <3> QED BY <2>13, <3>1, GoesOnTwice
    <2> QED BY <2>1, <2>14, <2>15, <2>16 DEF Edited, mem, t, new
  <1> QED BY <1>2, <1>3

\* A slice is put between two texts.
LEMMA PutAt ==
  ASSUME MemoryIsThere, NEW st, Good(st), Room(st.contents, 1),
         NEW slice \in Entries(st.contents),
         NEW p \in Text(Bytes), NEW q \in Text(Bytes), TextOf(st) = p \o q,
         NEW offset, offset = Len(p)
  PROVE  Edited(st, insertByteSliceAtOffset(st, slice, offset),
                (p \o Copied(st.contents, slice)) \o q, 1)
  <1> DEFINE mem == st.contents
             t == TextOf(st)
             x == Copied(mem, slice)
  <1>1. /\ mem \in Memories(Bytes) /\ LengthOf(st.slices) = Len(t)
    BY GoodText
  <1>2. x \in Text(Bytes)
    BY <1>1, EntryFacts DEF Text
  <1>3. offset \in Nat /\ offset <= LengthOf(st.slices)
    <2>1. p \in Seq(Bytes) /\ q \in Seq(Bytes) /\ t = p \o q
      BY DEF Text
    <2> HIDE DEF t
    <2>2. Len(t) = Len(p) + Len(q) /\ Len(p) \in Nat /\ Len(q) \in Nat
      BY <2>1, ConcatProperties, LenProperties
    <2> QED BY <1>1, <2>2
  <1> HIDE DEF mem, t, x
  <1>4. Edited(st, insertByteSliceAtOffset(st, slice, offset), Splice(t, offset, 0, x), 1)
    BY <1>3, InsertedSlice DEF mem, t, x
  <1>5. Splice(p \o q, Len(p), 0, x) = (p \o x) \o q
    BY <1>2, PutBetween
  <1> QED BY <1>4, <1>5 DEF t, x, mem

\* Edits one after the other.
LEMMA EditedTwice ==
  ASSUME NEW st, NEW a, NEW b, NEW t, NEW u, NEW k \in Nat, NEW l \in Nat, NEW n, n = k + l,
         Edited(st, a, t, k), Edited(a, b, u, l)
  PROVE  Edited(st, b, u, n)
  BY GoesOnTwice DEF Edited

\* What an edit leaves to the next.
LEMMA AfterEdit ==
  ASSUME NEW st, Good(st), NEW r, NEW text, NEW k \in Nat, Edited(st, r, text, k)
  PROVE  /\ Good(r) /\ TextOf(r) = text
         /\ \A j \in Nat : Room(st.contents, k + j) => Room(r.contents, j)
         /\ \A s \in Entries(st.contents) :
               s \in Entries(r.contents) /\ Copied(r.contents, s) = Copied(st.contents, s)
  <1>1. /\ Good(r) /\ TextOf(r) = text
        /\ \A j \in Nat : Room(st.contents, k + j) => Room(r.contents, j)
    BY DEF Edited, GoesOn
  <1>2. ASSUME NEW s \in Entries(st.contents)
        PROVE  s \in Entries(r.contents) /\ Copied(r.contents, s) = Copied(st.contents, s)
    <2>1. s \in SlicesIn(st.contents, Bytes)
      BY DEF Entries
    <2>2. GoesOn(st.contents, r.contents, k) /\ st.contents \in Memory
      BY DEF Edited, Good
    <2>3. Entries(st.contents) \subseteq Entries(r.contents)
      BY <2>2, ListGoesOn
    <2> QED BY <2>1, <2>2, <2>3 DEF GoesOn
  <1> QED BY <1>1, <1>2

\* insertByteSlice:inRange: replaces the range by the bytes of the slice.
LEMMA InsertedInRange ==
  ASSUME MemoryIsThere, NEW st, Good(st), Room(st.contents, 3),
         NEW slice \in Entries(st.contents),
         NEW at \in Nat, NEW n \in Nat, at + n <= LengthOf(st.slices)
  PROVE  Edited(st, insertByteSliceInRange(st, slice, at, n),
                Splice(TextOf(st), at, n, Copied(st.contents, slice)), 3)
  <1> DEFINE mem == st.contents
             t == TextOf(st)
             d == deleteBytesInRange(st, at, n)
             r == insertByteSliceAtOffset(d, slice, at)
             p == SubSeq(t, 1, at)
             q == SubSeq(t, at + n + 1, Len(t))
             x == Copied(mem, slice)
  <1>1. /\ mem \in Memory /\ t \in Seq(Bytes) /\ at + n <= Len(t)
    BY GoodText
  <1>2. Room(mem, 2)
    <2>1. GoesOn(mem, mem, 1)
      BY <1>1, GoesOnSame, GoesOnLess
    <2>2. Room(mem, 1 + 2)
      OBVIOUS
    <2> QED BY <2>1, <2>2 DEF GoesOn
  <1>3. Edited(st, d, Splice(t, at, n, <<>>), 2)
    BY <1>2, DeletedRange
  <1> HIDE DEF d, t, mem
  <1>4. p \in Text(Bytes) /\ q \in Text(Bytes) /\ Len(p) = at
    <2>1. /\ at \in 0 .. Len(t) /\ at + n \in 0 .. Len(t)
      BY <1>1, LenProperties
    <2>2. p \in Seq(Bytes) /\ Len(p) = at
      BY <1>1, <2>1, TwoParts
    <2>3. q \in Seq(Bytes)
      <3> DEFINE k == at + n
      <3>1. k \in 0 .. Len(t)
        BY <2>1
      <3> HIDE DEF k
      <3>2. SubSeq(t, k + 1, Len(t)) \in Seq(Bytes)
        BY <1>1, <3>1, TwoParts
      <3> QED BY <3>2 DEF k
    <2> QED BY <2>2, <2>3 DEF Text
  <1>5. Splice(t, at, n, <<>>) = p \o q
    <2>1. p \o <<>> = p
      BY <1>4, ConcatEmptySeq DEF Text
    <2> QED BY <2>1 DEF Splice
  <1> HIDE DEF p, q, r, x
  <1>6. /\ Good(d) /\ TextOf(d) = p \o q /\ Room(d.contents, 1)
        /\ slice \in Entries(d.contents) /\ Copied(d.contents, slice) = x
    <2>1. Room(st.contents, 2 + 1) /\ 1 \in Nat /\ 2 \in Nat
      OBVIOUS
    <2>2. /\ Good(d) /\ TextOf(d) = Splice(t, at, n, <<>>)
          /\ \A j \in Nat : Room(st.contents, 2 + j) => Room(d.contents, j)
          /\ \A s \in Entries(st.contents) :
                s \in Entries(d.contents) /\ Copied(d.contents, s) = Copied(st.contents, s)
      BY <1>3, <2>1, AfterEdit
    <2> QED BY <1>5, <2>1, <2>2 DEF mem, x
  <1>7. Edited(d, r, (p \o x) \o q, 1)
    BY <1>4, <1>6, PutAt DEF r
  <1>8. Splice(t, at, n, x) = (p \o x) \o q
    BY DEF Splice, p, q
  <1>9. Edited(st, r, (p \o x) \o q, 3)
    BY <1>3, <1>7, EditedTwice
  <1> QED BY <1>8, <1>9 DEF insertByteSliceInRange, r, d, t, x, mem

\* The texts of the first slices of a list.
LEMMA FirstTexts ==
  ASSUME NEW mem \in Memories(Bytes), NEW slices \in Seq(Entries(mem)),
         NEW i \in 1 .. Len(slices)
  PROVE  LET p == TextIn(mem, SubSeq(slices, 1, i - 1))
             c == Copied(mem, slices[i])
         IN  /\ TextIn(mem, SubSeq(slices, 1, i)) = p \o c
             /\ p \in Text(Bytes) /\ c \in Text(Bytes) /\ Len(p) = Ends(slices)[i - 1]
             /\ slices[i] \in Entries(mem)
  <1> DEFINE front == SubSeq(slices, 1, i - 1)
             s == slices[i]
             one == <<s>>
             p == TextIn(mem, front)
             c == Copied(mem, s)
             U == SlicesIn(mem, Bytes)
             T == Entries(mem)
             now == SubSeq(slices, 1, i)
  <1>1. /\ p \in Seq(Bytes) /\ c \in Seq(Bytes) /\ Len(p) = Ends(slices)[i - 1]
        /\ s \in T /\ front \in Seq(T)
    BY TextAround
  <1>2. now = front \o one
    <2> HIDE DEF T
    <2>1. slices \in Seq(T)
      BY DEF T
    <2> QED BY <2>1, ListCut
  <1>3. T \subseteq U
    BY DEF Entries
  <1> HIDE DEF front, s, p, c, T, U, now
  <1>4. front \in Seq(U) /\ one \in Seq(U)
    BY <1>1, <1>3, SeqMonotonic
  <1> HIDE DEF one
  <1>5. TextIn(mem, front \o one) = TextIn(mem, front) \o TextIn(mem, one)
    BY <1>4, TextConcat DEF U
  <1>6. TextIn(mem, one) = c
    BY <1>1, TextOne DEF one, c
  <1> QED BY <1>1, <1>2, <1>5, <1>6 DEF front, s, p, c, T, now, Text

\* Room for more is room for less.
LEMMA RoomForLess ==
  ASSUME NEW mem, NEW k \in Nat, NEW j \in Nat, j <= k, Room(mem, k)
  PROVE  Room(mem, j)
  <1>1. IsFiniteSet(Used(mem)) /\ Cardinality(Used(mem)) + k <= Enough
    BY DEF Room
  <1>2. Cardinality(Used(mem)) \in Nat /\ Enough \in Nat
    BY <1>1, FS_CardinalityType, SlicedArraysAssumption DEF Enough
  <1>3. Cardinality(Used(mem)) + j <= Enough
    BY <1>1, <1>2
  <1> QED BY <1>1, <1>3 DEF Room

\* The states that are good.
GoodStates ==
    {s \in [slices : UNION {Seq(Entries(c)) : c \in Memory}, contents : Memory] : Good(s)}

\* All the states that are good are in this set.
LEMMA GoodIsState ==
  ASSUME NEW st, Good(st)
  PROVE  st \in GoodStates
  <1> DEFINE s == st.slices  m == st.contents  L == UNION {Seq(Entries(c)) : c \in Memory}
  <1>1. st = [slices |-> s, contents |-> m] /\ m \in Memory /\ s \in Seq(Entries(m))
    BY DEF Good
  <1>2. s \in L
    BY <1>1
  <1> HIDE DEF s, m, L
  <1>3. st \in [slices : L, contents : Memory]
    BY <1>1, <1>2
  <1> QED BY <1>3 DEF GoodStates, L

\* insertByteArray:inRange: replaces the range by the bytes of all the slices.
LEMMA InsertedArray ==
  ASSUME MemoryIsThere, NEW st, Good(st),
         NEW more \in Seq(Entries(st.contents)), Room(st.contents, 2 + Len(more)),
         NEW at \in Nat, NEW n \in Nat, at + n <= LengthOf(st.slices)
  PROVE  Edited(st, insertByteArray(st, more, at, n),
                Splice(TextOf(st), at, n, TextIn(st.contents, more)), 2 + Len(more))
  <1> DEFINE mem == st.contents
             t == TextOf(st)
             p == SubSeq(t, 1, at)
             q == SubSeq(t, at + n + 1, Len(t))
             E == Ends(more)
             m == Len(more)
             w(i) == TextIn(mem, SubSeq(more, 1, i))
             X(i) == (p \o w(i)) \o q
             Ins(s, i) == insertByteSliceAtOffset(s, more[i], at + E[i - 1])
             d == deleteBytesInRange(st, at, n)
  <1>1. /\ mem \in Memory /\ mem \in Memories(Bytes)
        /\ t \in Seq(Bytes) /\ at + n <= Len(t)
    BY GoodText
  <1>2. m \in Nat /\ more \in Seq(Entries(mem)) /\ Room(mem, 2 + m)
    BY LenProperties
  <1> HIDE DEF t, d
  <1>3. p \in Text(Bytes) /\ q \in Text(Bytes) /\ Len(p) = at
    <2>1. at \in 0 .. Len(t) /\ at + n \in 0 .. Len(t)
      BY <1>1, LenProperties
    <2>2. p \in Seq(Bytes) /\ Len(p) = at
      BY <1>1, <2>1, TwoParts
    <2>3. q \in Seq(Bytes)
      <3> DEFINE k == at + n
      <3>1. k \in 0 .. Len(t)
        BY <2>1
      <3> HIDE DEF k
      <3>2. SubSeq(t, k + 1, Len(t)) \in Seq(Bytes)
        BY <1>1, <3>1, TwoParts
      <3> QED BY <3>2 DEF k
    <2> QED BY <2>2, <2>3 DEF Text
  <1>4. Splice(t, at, n, <<>>) = X(0)
    <2>1. w(0) = <<>>
      <3>1. SubSeq(more, 1, 0) = <<>>
        OBVIOUS
      <3> QED BY <3>1, TextOne
    <2> QED BY <2>1 DEF Splice
  <1> HIDE DEF p, q
  <1>5. Edited(st, d, X(0), 2 + 0)
    <2>1. Room(mem, 2)
      <3>1. 2 \in Nat /\ 2 + m \in Nat /\ 2 <= 2 + m
        BY <1>2
      <3> HIDE DEF mem, m
      <3> QED BY <1>2, <3>1, RoomForLess
    <2> HIDE DEF X
    <2>2. Edited(st, d, X(0), 2)
      BY <1>4, <2>1, DeletedRange DEF d, t
    <2>3. 2 + 0 = 2
      OBVIOUS
    <2> QED BY <2>2, <2>3
  <1>6. ASSUME NEW i \in 1 .. m, NEW s, Edited(st, s, X(i - 1), 2 + (i - 1))
        PROVE  Edited(st, Ins(s, i), X(i), 2 + i)
    <2> DEFINE y == w(i - 1)  c == Copied(mem, more[i])  py == p \o y  k == 2 + (i - 1)
               z == w(i)
    <2>1. /\ z = y \o c
          /\ y \in Text(Bytes) /\ c \in Text(Bytes) /\ Len(y) = E[i - 1]
          /\ more[i] \in Entries(mem)
      BY <1>1, FirstTexts
    <2> HIDE DEF w, y, c, z, mem, E, m
    <2>2. py \in Text(Bytes) /\ Len(py) = at + E[i - 1]
      <3>1. Len(p \o y) = Len(p) + Len(y)
        BY <1>3, <2>1, ConcatProperties DEF Text
      <3> QED BY <1>3, <2>1, <3>1, TextsClosed
    <2>3. k \in Nat /\ k + 1 <= 2 + m /\ k + 1 \in Nat /\ 2 + m \in Nat /\ 2 + i = k + 1
      BY <1>2
    <2>4. /\ Good(s) /\ TextOf(s) = py \o q
          /\ \A j \in Nat : Room(mem, k + j) => Room(s.contents, j)
          /\ more[i] \in Entries(s.contents) /\ Copied(s.contents, more[i]) = c
      <3>1. Edited(st, s, py \o q, k)
        BY <1>6 DEF y
      <3> HIDE DEF py, k
      <3>2. /\ Good(s) /\ TextOf(s) = py \o q
            /\ \A j \in Nat : Room(st.contents, k + j) => Room(s.contents, j)
            /\ \A u \in Entries(st.contents) :
                  u \in Entries(s.contents) /\ Copied(s.contents, u) = Copied(st.contents, u)
        BY <2>3, <3>1, AfterEdit
      <3> QED BY <2>1, <3>2 DEF mem, c
    <2>5. Room(s.contents, 1)
      <3>1. Room(mem, k + 1)
        BY <1>2, <2>3, RoomForLess
      <3> QED BY <2>4, <3>1
    <2> HIDE DEF py
    <2>6. Edited(s, Ins(s, i), (py \o c) \o q, 1)
      BY <1>3, <2>1, <2>2, <2>4, <2>5, PutAt
    <2>7. (py \o c) \o q = (p \o z) \o q
      <3>1. (p \o y) \o c = p \o (y \o c)
        <4>1. p \in Text(Bytes) /\ y \in Text(Bytes) /\ c \in Text(Bytes)
          BY <1>3, <2>1
        <4> QED BY <4>1, TextsJoin
      <3> QED BY <2>1, <3>1 DEF py
    <2>8. Edited(st, s, py \o q, k)
      BY <1>6 DEF y, py
    <2> HIDE DEF k, Ins
    <2>9. Edited(st, Ins(s, i), (p \o z) \o q, 2 + i)
      BY <2>3, <2>6, <2>7, <2>8, EditedTwice
    <2> QED BY <2>9 DEF z
  <1> HIDE DEF X, w
  <1> DEFINE S == GoodStates
             step == [i \in 1 .. m |-> [s \in S |-> IF Ins(s, i) \in S THEN Ins(s, i) ELSE s]]
  <1>7. d \in S
    BY <1>5, GoodIsState DEF Edited
  <1> HIDE DEF m, mem, E
  <1>8. \E f : Iterated(f, m, S, d, step)
    <2>1. \A i \in 1 .. m : \A s \in S : (IF Ins(s, i) \in S THEN Ins(s, i) ELSE s) \in S
      OBVIOUS
    <2> HIDE DEF S, Ins
    <2>2. step \in [1 .. m -> [S -> S]]
      BY <2>1
    <2> HIDE DEF step
    <2> QED BY <1>2, <1>7, <2>2, Iterates
  <1>9. PICK f : Iterated(f, m, S, d, step)
    BY <1>8
  <1>10. \A i \in 1 .. m : \A s \in S : step[i][s] = IF Ins(s, i) \in S THEN Ins(s, i) ELSE s
    <2> HIDE DEF S, Ins
    <2> QED OBVIOUS
  <1> HIDE DEF S, step, Ins, d
  <1>11. /\ f \in [0 .. m -> S] /\ f[0] = d
         /\ \A i \in 1 .. m : f[i] = step[i][f[i - 1]]
    BY <1>9 DEF Iterated
  <1>12. ASSUME NEW i \in 1 .. m, Edited(st, f[i - 1], X(i - 1), 2 + (i - 1))
         PROVE  f[i] = Ins(f[i - 1], i) /\ Edited(st, f[i], X(i), 2 + i)
    <2>1. Edited(st, Ins(f[i - 1], i), X(i), 2 + i)
      BY <1>6, <1>12
    <2>2. Ins(f[i - 1], i) \in S
      BY <2>1, GoodIsState DEF Edited, S
    <2>3. f[i - 1] \in S
      <3>1. i - 1 \in 0 .. m
        BY <1>2
      <3> QED BY <1>11, <3>1
    <2>4. f[i] = Ins(f[i - 1], i)
      BY <1>10, <1>11, <2>2, <2>3
    <2> QED BY <2>1, <2>4
  <1>13. \A i \in 0 .. m : Edited(st, f[i], X(i), 2 + i)
    <2> DEFINE T == {i \in 0 .. m : Edited(st, f[i], X(i), 2 + i)}
    <2>1. 0 \in T
      BY <1>2, <1>5, <1>11
    <2>2. \A i \in 1 .. m : i - 1 \in T => i \in T
      <3> TAKE i \in 1 .. m
      <3> HAVE i - 1 \in T
      <3>1. Edited(st, f[i], X(i), 2 + i)
        BY <1>12
      <3>2. i \in 0 .. m
        BY <1>2
      <3> QED BY <3>1, <3>2
    <2> HIDE DEF T
    <2>3. \A i \in 0 .. m : i \in T
      BY <1>2, <2>1, <2>2, UpTo
    <2> QED BY <2>3 DEF T
  <1>14. \A i \in 1 .. m : f[i] = Ins(f[i - 1], i)
    <2> TAKE i \in 1 .. m
    <2>1. i - 1 \in 0 .. m
      BY <1>2
    <2> QED BY <1>12, <1>13, <2>1
  <1> DEFINE inserted[i \in 0 .. m] == IF i = 0 THEN d ELSE Ins(inserted[i - 1], i)
             Equation(g) == g = [i \in 0 .. m |-> IF i = 0 THEN d ELSE Ins(g[i - 1], i)]
  <1>15. insertByteArray(st, more, at, n) = inserted[m]
    BY DEF insertByteArray, Ins, E, d, m
  <1>16. inserted = CHOOSE g : Equation(g)
    OBVIOUS
  <1> HIDE DEF inserted
  <1>17. Equation(f)
    <2>1. \A i \in 0 .. m : f[i] = IF i = 0 THEN d ELSE Ins(f[i - 1], i)
      <3> TAKE i \in 0 .. m
      <3>1. i = 0 \/ i \in 1 .. m
        BY <1>2
      <3> QED BY <1>11, <1>14, <3>1
    <2> QED BY <1>11, <2>1
  <1>18. Equation(inserted)
    <2> HIDE DEF Equation
    <2> QED BY <1>16, <1>17
  <1>19. \A i \in 0 .. m : inserted[i] = IF i = 0 THEN d ELSE Ins(inserted[i - 1], i)
    BY <1>18
  <1>20. inserted[m] = f[m]
    <2>1. inserted[0] = f[0]
      BY <1>2, <1>11, <1>19
    <2>2. \A i \in 1 .. m : inserted[i - 1] = f[i - 1] => inserted[i] = f[i]
      <3> TAKE i \in 1 .. m
      <3>1. i \in 0 .. m /\ i # 0
        BY <1>2
      <3> QED BY <1>14, <1>19, <3>1
    <2>3. m \in 0 .. m
      BY <1>2
    <2> HIDE DEF Equation
    <2>4. \A i \in 0 .. m : inserted[i] = f[i]
      <3> DEFINE g == inserted
      <3>1. m \in Nat
        BY <1>2
      <3>2. g[0] = f[0] /\ \A i \in 1 .. m : g[i - 1] = f[i - 1] => g[i] = f[i]
        BY <2>1, <2>2
      <3> HIDE DEF g
      <3>3. \A i \in 0 .. m : g[i] = f[i]
        <4> DEFINE T == {i \in 0 .. m : g[i] = f[i]}
        <4>1. 0 \in T
          BY <3>1, <3>2
        <4>2. \A i \in 1 .. m : i - 1 \in T => i \in T
          <5> TAKE i \in 1 .. m
          <5>1. i \in 0 .. m
            BY <3>1
          <5>2. g[i - 1] = f[i - 1] => g[i] = f[i]
            BY <3>2
          <5> QED BY <5>1, <5>2
        <4> HIDE DEF T
        <4>3. \A i \in 0 .. m : i \in T
          BY <3>1, <4>1, <4>2, UpTo
        <4> QED BY <4>3 DEF T
      <3> QED BY <3>3 DEF g
    <2> QED BY <2>3, <2>4
  <1>21. X(m) = Splice(t, at, n, TextIn(mem, more))
    <2>1. SubSeq(more, 1, m) = more
      BY <1>2, SubSeqFull DEF m
    <2> QED BY <2>1 DEF X, w, Splice, p, q
  <1>22. Edited(st, f[m], X(m), 2 + m)
    BY <1>2, <1>13
  <1> QED BY <1>15, <1>20, <1>21, <1>22 DEF mem, t, m

-----------------------------------------------------------------------------
(* New slices *)

\* The greater of two numbers.
LEMMA GreaterOfTwo ==
  ASSUME NEW a \in Int, NEW b \in Int
  PROVE  Max({a, b}) = IF a >= b THEN a ELSE b
  <1> DEFINE c == IF a >= b THEN a ELSE b
  <1>1. c \in {a, b} /\ \A y \in {a, b} : c >= y
    OBVIOUS
  <1>2. \A x \in {a, b} : (\A y \in {a, b} : x >= y) => x = c
    OBVIOUS
  <1> QED BY <1>1, <1>2 DEF Max

\* A slice for bytes that nobody has yet reads as them.
LEMMA UnsharedIs ==
  ASSUME MemoryIsThere, NEW mem \in Memory, Room(mem, 1),
         NEW bytes \in Seq(Bytes), bytes # <<>>
  PROVE  LET new == Unshared(mem, bytes)
         IN  /\ GoesOn(mem, new.contents, 1)
             /\ new.slice \in Entries(new.contents)
             /\ Copied(new.contents, new.slice) = bytes
  <1> DEFINE n == Len(bytes)
             k == n - MaxTail
             shared == Max({0, k})
             new == Unshared(mem, bytes)
             x == SubSeq(bytes, 1, shared)
             w == SubSeq(bytes, shared + 1, n)
             d == NewData(mem)
  <1>1. /\ mem \in Memories(Bytes) /\ mem[Nil] = <<>> /\ DOMAIN mem = Data \cup {File, Nil}
        /\ mem[File] = Original
    BY DEF Memory, Memories
  <1>2. n \in Nat /\ n > 0 /\ MaxTail \in Nat /\ MaxTail > 0
    BY LenProperties, EmptySeq, SlicedArraysAssumption
  <1>3. shared = IF 0 >= k THEN 0 ELSE k
    <2>1. k \in Int /\ 0 \in Int
      BY <1>2
    <2> HIDE DEF k
    <2> QED BY <2>1, GreaterOfTwo
  <1>4. new = [slice |-> SliceOf(IF shared > 0 THEN d ELSE Nil, 0, shared, w),
               contents |-> IF shared > 0 THEN [mem EXCEPT ![d] = x] ELSE mem]
    BY DEF Unshared, SliceOf
  <1> HIDE DEF shared, new, d, n
  <1>5. shared \in Nat /\ shared \in 0 .. n /\ shared < n /\ n - shared <= MaxTail
        /\ (shared > 0 => n - shared = MaxTail)
    BY <1>2, <1>3
  <1>6. /\ x \in Seq(Bytes) /\ Len(x) = shared /\ w \in Seq(Bytes) /\ Len(w) = n - shared
        /\ x \o w = bytes
    BY <1>5, TwoParts DEF n
  <1> HIDE DEF x, w
  <1>7. CASE shared = 0
    <2> DEFINE s == SliceOf(Nil, 0, 0, w)
    <2>1. new.slice = s /\ new.contents = mem
      BY <1>4, <1>7
    <2>2. s.data = Nil /\ s.offset = 0 /\ s.length = 0 /\ s.tail = w
      BY DEF SliceOf
    <2>3. s \in SlicesIn(mem, Bytes)
      <3>1. Len(mem[Nil]) = 0 /\ Len(w) <= MaxTail /\ Nil \in Data \cup {File, Nil} /\ 0 \in Nat
        BY <1>1, <1>2, <1>5, <1>6, EmptySeq
      <3>2. 0 + 0 <= Len(mem[Nil])
        BY <3>1
      <3> QED BY <1>1, <1>6, <3>1, <3>2, SliceMade DEF SliceOf
    <2>4. SliceLength(s) > 0
      BY <1>2, <1>6, <1>7, <2>2 DEF SliceLength
    <2> HIDE DEF s
    <2>5. s \in Entries(mem)
      BY <2>2, <2>3, <2>4, SlicedArraysAssumption DEF Entries
    <2>6. Copied(mem, s) = bytes
      <3>1. w = bytes
        <4>1. x = <<>>
          BY <1>6, <1>7, EmptySeq
        <4> QED BY <1>6, <4>1, ConcatEmptySeq
      <3>2. SubSeq(mem[Nil], 0 + 1, 0 + 0) = <<>>
        <4>1. 0 + 0 < 0 + 1 /\ mem[Nil] \in Seq(Bytes)
          BY <1>1, EmptySeq
        <4> QED BY <4>1, SubSeqEmpty
      <3>3. <<>> \o w = w
        BY <1>6, ConcatEmptySeq
      <3> QED BY <2>2, <3>1, <3>2, <3>3 DEF Copied
    <2>7. GoesOn(mem, mem, 1)
      BY GoesOnSame, GoesOnLess
    <2> QED BY <2>1, <2>5, <2>6, <2>7 DEF new
  <1>8. CASE shared # 0
    <2>1. d \in Data /\ mem[d] = <<>>
      <3>1. \E free \in Data : mem[free] = <<>>
        BY FreeData
      <3> QED BY <3>1 DEF d, NewData
    <2> DEFINE m2 == Grown(mem, d, x)
               s == SliceOf(d, 0, shared, w)
    <2>2. new.slice = s /\ new.contents = m2
      <3>1. <<>> \o x = x
        BY <1>6, ConcatEmptySeq
      <3>2. [mem EXCEPT ![d] = x] = m2
        BY <2>1, <3>1 DEF Grown
      <3>3. shared > 0
        BY <1>5, <1>8
      <3> QED BY <1>4, <3>2, <3>3
    <2>3. x \in Text(Bytes) /\ w \in Text(Bytes) /\ Len(w) = MaxTail
      BY <1>5, <1>6, <1>8 DEF Text
    <2>4. /\ s \in SlicesIn(m2, Bytes)
          /\ Copied(m2, s) = Joined(mem[d], 0, 0, x, w)
      <3>1. Len(mem[d]) = 0 /\ 0 + 0 = Len(mem[d]) /\ 0 \in Nat /\ 0 + Len(x) = shared
        BY <1>5, <1>6, <2>1, EmptySeq
      <3>2. /\ SliceOf(d, 0, 0 + Len(x), w) \in SlicesIn(Grown(mem, d, x), Bytes)
            /\ Copied(Grown(mem, d, x), SliceOf(d, 0, 0 + Len(x), w))
                  = Joined(mem[d], 0, 0, x, w)
        BY <1>1, <2>1, <2>3, <3>1, SliceGrown
      <3> QED BY <3>1, <3>2
    <2>5. Joined(mem[d], 0, 0, x, w) = bytes
      <3>1. SubSeq(mem[d], 0 + 1, 0 + 0) = <<>>
        <4>1. 0 + 0 < 0 + 1 /\ mem[d] \in Seq(Bytes)
          BY <2>1, EmptySeq
        <4> QED BY <4>1, SubSeqEmpty
      <3>2. <<>> \o x = x
        BY <1>6, ConcatEmptySeq
      <3> QED BY <1>6, <3>1, <3>2 DEF Joined
    <2>6. s.data = d /\ s.length = shared /\ s.tail = w
      BY DEF SliceOf
    <2>7. /\ m2 \in Memories(Bytes) /\ m2[File] = Original
          /\ \A u \in SlicesIn(mem, Bytes) :
                u \in SlicesIn(m2, Bytes) /\ Copied(m2, u) = Copied(mem, u)
      <3>1. m2[File] = Original
        BY <1>1, <2>1, SlicedArraysAssumption DEF Grown
      <3> QED BY <1>1, <2>1, <2>3, <3>1, GrownMemory
    <2>8. Used(m2) \subseteq Used(mem) \cup {d}
      BY <1>1 DEF Used, Grown
    <2> HIDE DEF m2, s
    <2>9. SliceLength(s) > 0 /\ d # File
      BY <1>2, <1>5, <1>6, <2>1, <2>6, SlicedArraysAssumption DEF SliceLength
    <2>10. s \in Entries(m2)
      BY <2>4, <2>6, <2>9 DEF Entries
    <2>11. GoesOn(mem, m2, 1)
      BY <2>7, <2>8, RoomLeft DEF GoesOn, Memory
    <2> QED BY <2>2, <2>4, <2>5, <2>10, <2>11 DEF new
  <1> QED BY <1>7, <1>8

-----------------------------------------------------------------------------
(* Subarrays *)

\* Bytes of a part of a text are bytes of the text.
LEMMA BytesInside ==
  ASSUME NEW S, NEW p \in Seq(S), NEW c \in Seq(S), NEW q \in Seq(S),
         NEW o \in Nat, NEW n \in Nat, o + n <= Len(c)
  PROVE  BytesOf(c, o, n) = BytesOf(p \o (c \o q), Len(p) + o, n)
  <1> DEFINE cq == c \o q
             t == p \o cq
             at == Len(p) + o
             u == BytesOf(c, o, n)
             v == BytesOf(t, at, n)
  <1>1. Len(p) \in Nat /\ Len(c) \in Nat /\ Len(q) \in Nat
    BY LenProperties
  <1>2. /\ cq \in Seq(S) /\ Len(cq) = Len(c) + Len(q)
        /\ \A i \in 1 .. Len(c) + Len(q) : cq[i] = IF i <= Len(c) THEN c[i] ELSE q[i - Len(c)]
    BY ConcatProperties
  <1> HIDE DEF cq
  <1>3. /\ t \in Seq(S) /\ Len(t) = Len(p) + Len(cq)
        /\ \A i \in 1 .. Len(p) + Len(cq) :
              t[i] = IF i <= Len(p) THEN p[i] ELSE cq[i - Len(p)]
    <2> DEFINE w == p \o cq
    <2>1. cq \in Seq(S)
      BY <1>2
    <2>2. /\ w \in Seq(S) /\ Len(w) = Len(p) + Len(cq)
          /\ \A i \in 1 .. Len(p) + Len(cq) :
                w[i] = IF i <= Len(p) THEN p[i] ELSE cq[i - Len(p)]
      BY <2>1, ConcatProperties
    <2>3. t = w
      OBVIOUS
    <2> HIDE DEF w
    <2> QED BY <2>2, <2>3
  <1> HIDE DEF t
  <1>4. at \in Nat /\ at \in Int /\ o \in Int /\ at + n <= Len(t)
    BY <1>1, <1>2, <1>3
  <1>5. u \in Seq(S) /\ Len(u) = n /\ \A i \in 1 .. n : u[i] = c[o + i]
    BY <1>4, PartBytes
  <1> HIDE DEF at
  <1>6. v \in Seq(S) /\ Len(v) = n /\ \A i \in 1 .. n : v[i] = t[at + i]
    BY <1>3, <1>4, PartBytes
  <1> HIDE DEF u, v
  <1>7. \A i \in 1 .. n : u[i] = v[i]
    <2> TAKE i \in 1 .. n
    <2>1. /\ at + i \in 1 .. Len(p) + Len(cq) /\ ~(at + i <= Len(p))
          /\ (at + i) - Len(p) = o + i
          /\ o + i \in 1 .. Len(c) + Len(q) /\ o + i <= Len(c)
      BY <1>1, <1>2 DEF at
    <2>2. t[at + i] = cq[o + i]
      BY <1>3, <2>1
    <2>3. cq[o + i] = c[o + i]
      BY <1>2, <2>1
    <2> QED BY <1>5, <1>6, <2>2, <2>3
  <1>8. u = v
    BY <1>5, <1>6, <1>7, SeqEqual
  <1> QED BY <1>8 DEF u, v, t, cq, at

\* Neighbouring parts of a text.
LEMMA BytesJoin ==
  ASSUME NEW S, NEW t \in Seq(S), NEW at \in Nat, NEW m \in Nat, NEW n \in Nat,
         at + (m + n) <= Len(t)
  PROVE  BytesOf(t, at, m) \o BytesOf(t, at + m, n) = BytesOf(t, at, m + n)
  <1> DEFINE u == BytesOf(t, at, m)
             k == at + m
             v == BytesOf(t, k, n)
             l == m + n
             w == BytesOf(t, at, l)
             x == u \o v
  <1>1. /\ at \in Int /\ k \in Nat /\ k \in Int /\ l \in Nat
        /\ at + m <= Len(t) /\ k + n <= Len(t) /\ at + l <= Len(t)
    BY LenProperties
  <1>2. u \in Seq(S) /\ Len(u) = m /\ \A i \in 1 .. m : u[i] = t[at + i]
    BY <1>1, PartBytes
  <1> HIDE DEF k, l
  <1>3. v \in Seq(S) /\ Len(v) = n /\ \A i \in 1 .. n : v[i] = t[k + i]
    BY <1>1, PartBytes
  <1>4. w \in Seq(S) /\ Len(w) = l /\ \A i \in 1 .. l : w[i] = t[at + i]
    BY <1>1, PartBytes
  <1> HIDE DEF u, v, w
  <1>5. /\ x \in Seq(S) /\ Len(x) = m + n
        /\ \A i \in 1 .. m + n : x[i] = IF i <= m THEN u[i] ELSE v[i - m]
    BY <1>2, <1>3, ConcatProperties
  <1> HIDE DEF x
  <1>6. \A i \in 1 .. l : x[i] = w[i]
    <2> TAKE i \in 1 .. l
    <2>1. i \in 1 .. m + n
      BY DEF l
    <2>2. CASE i <= m
      <3>1. i \in 1 .. m
        BY <2>2, <2>1
      <3> QED BY <1>2, <1>4, <1>5, <2>1, <2>2, <3>1
    <2>3. CASE ~(i <= m)
      <3>1. i - m \in 1 .. n /\ k + (i - m) = at + i
        BY <2>1, <2>3 DEF k
      <3>2. v[i - m] = t[at + i]
        BY <1>3, <3>1
      <3> QED BY <1>4, <1>5, <2>1, <2>3, <3>2
    <2> QED BY <2>2, <2>3
  <1>7. x = w
    BY <1>4, <1>5, <1>6, SeqEqual DEF l
  <1> QED BY <1>7 DEF x, u, v, w, k, l

\* The part of the slice i that is in a range.
PartIn(slices, at, n, i) ==
    LET from == Max({at, Ends(slices)[i - 1]})
        to == Min({at + n, Ends(slices)[i]})
    IN  subsliceWithRange(slices[i], from - Ends(slices)[i - 1], to - from)

\* Where the first k parts of a range end.
UpToPart(slices, at, n, first, k) ==
    IF k = 0 THEN at ELSE Min({at + n, Ends(slices)[first + k - 1]})

\* Each part goes on where the one before it ends.
LEMMA PartInIs ==
  ASSUME NEW mem \in Memories(Bytes), NEW slices \in Seq(Entries(mem)),
         NEW at \in Nat, NEW n \in Nat \ {0}, at + n <= LengthOf(slices),
         NEW first, first = EntryContaining(slices, at),
         NEW last, last = EntryContaining(slices, at + n - 1),
         NEW k \in 1 .. last + 1 - first
  PROVE  LET u == PartIn(slices, at, n, first + k - 1)
             a == UpToPart(slices, at, n, first, k - 1)
             b == UpToPart(slices, at, n, first, k)
         IN  /\ u \in Entries(mem)
             /\ a \in Nat /\ b \in Nat /\ at <= a /\ a < b /\ b <= at + n
             /\ Copied(mem, u) = BytesOf(TextIn(mem, slices), a, b - a)
             /\ k = last + 1 - first => b = at + n
  <1> DEFINE E == Ends(slices)
             m == Len(slices)
             i == first + k - 1
             s == slices[i]
             c == Copied(mem, s)
             a == UpToPart(slices, at, n, first, k - 1)
             b == UpToPart(slices, at, n, first, k)
             from == Max({at, E[i - 1]})
             to == Min({at + n, E[i]})
             o == from - E[i - 1]
             l == to - from
             u == subsliceWithRange(s, o, l)
             t == TextIn(mem, slices)
  <1>1. /\ m \in Nat /\ E \in [0 .. m -> Nat] /\ LengthOf(slices) = E[m]
    BY EndsAre DEF LengthOf
  <1>2. /\ \A j \in 1 .. m : E[j - 1] < E[j]
        /\ \A j, h \in 0 .. m : j <= h => E[j] <= E[h]
    BY EndsIncrease
  <1>3. first \in 1 .. m /\ E[first - 1] <= at /\ at < E[first]
    <2>1. LengthOf(slices) \in Nat
      BY EndsAreLengths, LenProperties
    <2>2. at < LengthOf(slices)
      BY <2>1
    <2> QED BY <2>2, EntryIs
  <1>4. last \in 1 .. m /\ E[last - 1] <= at + n - 1 /\ at + n - 1 < E[last]
    <2>1. LengthOf(slices) \in Nat
      BY EndsAreLengths, LenProperties
    <2> DEFINE j == at + n - 1
    <2>2. j < LengthOf(slices) /\ j \in Nat
      BY <2>1
    <2>3. last = EntryContaining(slices, j)
      OBVIOUS
    <2> HIDE DEF j
    <2>4. last \in 1 .. m /\ E[last - 1] <= j /\ j < E[last]
      BY <2>2, <2>3, EntryIs
    <2> QED BY <2>4 DEF j
  <1> HIDE DEF E, m
  <1>5. /\ i \in 1 .. m /\ first <= i /\ i <= last
        /\ i - 1 \in 0 .. m /\ i \in 0 .. m /\ last - 1 \in 0 .. m
        /\ first \in 0 .. m /\ last \in 0 .. m
    <2>1. first \in Int /\ last \in Int /\ 1 <= first /\ last <= m /\ first <= m /\ 1 <= last
      BY <1>1, <1>3, <1>4
    <2>2. k \in Int /\ 1 <= k /\ k <= last + 1 - first
      BY <2>1
    <2>3. i \in Int /\ first <= i /\ i <= last
      BY <2>1, <2>2
    <2> HIDE DEF i
    <2> QED BY <1>1, <2>1, <2>3, SMTT(60)
  <1> HIDE DEF i
  <1>6. /\ E[i - 1] \in Nat /\ E[i] \in Nat /\ E[i - 1] < at + n /\ at < E[i]
        /\ E[i - 1] < E[i] /\ E[last] \in Nat /\ E[first] \in Nat
    <2>1. /\ E[i - 1] \in Nat /\ E[i] \in Nat /\ E[last - 1] \in Nat
          /\ E[last] \in Nat /\ E[first] \in Nat
      BY <1>1, <1>5
    <2>2. E[i - 1] <= E[last - 1]
      <3>1. i - 1 <= last - 1
        BY <1>1, <1>5
      <3> QED BY <1>2, <1>5, <3>1
    <2>3. E[first] <= E[i]
      BY <1>2, <1>5
    <2>4. E[i - 1] < E[i]
      BY <1>2, <1>5
    <2>5. E[i - 1] < at + n
      <3> DEFINE e == E[i - 1]
                 g == E[last - 1]
      <3>1. e \in Nat /\ g \in Nat /\ e <= g /\ g <= at + n - 1
        BY <1>4, <2>1, <2>2
      <3> HIDE DEF e, g
      <3>2. e < at + n
        BY <3>1
      <3> QED BY <3>2 DEF e
    <2>6. at < E[i]
      <3> DEFINE e == E[first]
                 g == E[i]
      <3>1. e \in Nat /\ g \in Nat /\ e <= g /\ at < e
        BY <1>3, <2>1, <2>3
      <3> HIDE DEF e, g
      <3>2. at < g
        BY <3>1
      <3> QED BY <3>2 DEF g
    <2> QED BY <2>1, <2>4, <2>5, <2>6
  <1>7. from = IF at >= E[i - 1] THEN at ELSE E[i - 1]
    <2> DEFINE e == E[i - 1]
    <2>1. e \in Int /\ at \in Int
      BY <1>6
    <2> HIDE DEF e
    <2>2. Max({at, e}) = IF at >= e THEN at ELSE e
      BY <2>1, GreaterOfTwo
    <2> QED BY <2>2 DEF e
  <1>8. to = IF at + n <= E[i] THEN at + n ELSE E[i]
    <2> DEFINE e == E[i]  h == at + n
    <2>1. e \in Nat /\ h \in Nat
      BY <1>6
    <2> HIDE DEF e, h
    <2>2. Min({h, e}) = IF h <= e THEN h ELSE e
      BY <2>1, LesserOfTwo
    <2> QED BY <2>2 DEF e, h
  <1> HIDE DEF from, to
  <1>9. /\ from \in Nat /\ to \in Nat /\ from < to /\ at <= from /\ to <= at + n
        /\ E[i - 1] <= from /\ to <= E[i]
    BY <1>6, <1>7, <1>8
  <1>10. b = to
    <2>1. k # 0
      BY <1>3, <1>4
    <2> QED BY <2>1 DEF UpToPart, to, E, i
  <1>11. a = from
    <2>1. CASE k = 1
      <3>1. k - 1 = 0 /\ i = first
        BY <1>3, <2>1 DEF i
      <3>2. from = at
        BY <1>3, <1>6, <1>7, <3>1
      <3> QED BY <3>1, <3>2 DEF UpToPart
    <2>2. CASE k # 1
      <3>1. /\ k - 1 # 0 /\ first + (k - 1) - 1 = i - 1 /\ first <= i - 1
        BY <1>3, <1>4, <2>2 DEF i
      <3>2. a = Min({at + n, E[i - 1]})
        BY <3>1 DEF UpToPart, E
      <3>3. E[first] <= E[i - 1]
        BY <1>2, <1>5, <3>1
      <3>4. Min({at + n, E[i - 1]}) = E[i - 1]
        <4> DEFINE e == E[i - 1]  h == at + n
        <4>1. e \in Nat /\ h \in Nat /\ ~(h <= e)
          BY <1>6
        <4> HIDE DEF e, h
        <4>2. Min({h, e}) = e
          BY <4>1, LesserOfTwo
        <4> QED BY <4>2 DEF e, h
      <3>5. from = E[i - 1]
        BY <1>3, <1>6, <1>7, <3>3
      <3> QED BY <3>2, <3>4, <3>5
    <2> QED BY <2>1, <2>2
  <1>12. k = last + 1 - first => b = at + n
    <2> SUFFICES ASSUME k = last + 1 - first PROVE to = at + n
      BY <1>10
    <2>1. i = last
      BY <1>3, <1>4, SMTT(60) DEF i
    <2> QED BY <1>4, <1>6, <1>8, <2>1
  <1> DEFINE p == TextIn(mem, SubSeq(slices, 1, i - 1))
             q == TextIn(mem, SubSeq(slices, i + 1, m))
  <1>13. /\ t = p \o (c \o q)
         /\ p \in Seq(Bytes) /\ c \in Seq(Bytes) /\ q \in Seq(Bytes)
         /\ Len(p) = E[i - 1] /\ Len(c) = SliceLength(s)
         /\ E[i] = E[i - 1] + SliceLength(s) /\ s \in Entries(mem)
    BY <1>5, TextAround DEF E, m
  <1>14. SliceLength(s) \in Nat
    BY <1>13, LenProperties
  <1>15. o \in Nat /\ l \in Nat \ {0} /\ l \in Nat /\ o + l <= SliceLength(s)
         /\ E[i - 1] + o = from
    <2> DEFINE e == E[i - 1]
               g == E[i]
               w == SliceLength(s)
    <2>1. /\ e \in Nat /\ g \in Nat /\ w \in Nat /\ g = e + w
          /\ from \in Nat /\ to \in Nat /\ from < to /\ e <= from /\ to <= g
          /\ o = from - e /\ l = to - from
      BY <1>6, <1>9, <1>13, <1>14
    <2> HIDE DEF e, g, w, o, l
    <2>2. o \in Nat /\ l \in Nat \ {0} /\ l \in Nat /\ o + l <= w /\ e + o = from
      BY <2>1
    <2> QED BY <2>2 DEF e, w
  <1>16. PartIn(slices, at, n, i) = u
    BY DEF PartIn, u, from, to, E
  <1> HIDE DEF s, c, t, o, l, p, q
  <1>17. u \in Entries(mem) /\ Copied(mem, u) = BytesOf(c, o, l)
    BY <1>13, <1>15, PartOfEntry DEF BytesOf, c
  <1>18. BytesOf(c, o, l) = BytesOf(t, from, l)
    <2>1. from = Len(p) + o /\ o + l <= Len(c)
      BY <1>13, <1>15
    <2>2. o \in Nat /\ l \in Nat
      BY <1>15
    <2>3. t = p \o (c \o q) /\ p \in Seq(Bytes) /\ c \in Seq(Bytes) /\ q \in Seq(Bytes)
      BY <1>13
    <2>4. p \in Seq(Bytes) /\ c \in Seq(Bytes) /\ q \in Seq(Bytes) /\ o + l <= Len(c)
      BY <2>1, <2>3
    <2>5. BytesOf(c, o, l) = BytesOf(p \o (c \o q), Len(p) + o, l)
      BY <2>2, <2>4, BytesInside
    <2> QED BY <2>1, <2>3, <2>5
  <1>19. l = b - a
    BY <1>10, <1>11 DEF l
  <1> HIDE DEF u, a, b
  <1> QED BY <1>9, <1>10, <1>11, <1>12, <1>16, <1>17, <1>18, <1>19 DEF a, b, t, i

\* The parts of a range have its bytes.
LEMMA PartsAre ==
  ASSUME NEW mem \in Memories(Bytes), NEW slices \in Seq(Entries(mem)),
         NEW at \in Nat, NEW n \in Nat \ {0}, at + n <= LengthOf(slices)
  PROVE  LET first == EntryContaining(slices, at)
             last == EntryContaining(slices, at + n - 1)
             K == last + 1 - first
             parts == [k \in 1 .. K |-> PartIn(slices, at, n, first + k - 1)]
         IN  /\ parts \in Seq(Entries(mem)) /\ Len(parts) = K /\ K <= Len(slices)
             /\ TextIn(mem, parts) = BytesOf(TextIn(mem, slices), at, n)
  <1> DEFINE first == EntryContaining(slices, at)
             last == EntryContaining(slices, at + n - 1)
             m == Len(slices)
             E == Ends(slices)
             K == last + 1 - first
             t == TextIn(mem, slices)
             a(k) == UpToPart(slices, at, n, first, k)
             P(k) == PartIn(slices, at, n, first + k - 1)
             parts == [k \in 1 .. K |-> P(k)]
             w(k) == TextIn(mem, SubSeq(parts, 1, k))
  <1>1. m \in Nat /\ E \in [0 .. m -> Nat] /\ LengthOf(slices) = E[m]
    BY EndsAre DEF LengthOf
  <1>2. \A j, h \in 0 .. m : j <= h => E[j] <= E[h]
    BY EndsIncrease
  <1>3. first \in 1 .. m /\ E[first - 1] <= at /\ at < E[first]
    <2>1. LengthOf(slices) \in Nat
      BY EndsAreLengths, LenProperties
    <2>2. at < LengthOf(slices)
      BY <2>1
    <2> QED BY <2>2, EntryIs
  <1>4. last \in 1 .. m /\ E[last - 1] <= at + n - 1 /\ at + n - 1 < E[last]
    <2>1. LengthOf(slices) \in Nat
      BY EndsAreLengths, LenProperties
    <2> DEFINE j == at + n - 1
    <2>2. j < LengthOf(slices) /\ j \in Nat
      BY <2>1
    <2>3. last = EntryContaining(slices, j)
      OBVIOUS
    <2> HIDE DEF j
    <2>4. last \in 1 .. m /\ E[last - 1] <= j /\ j < E[last]
      BY <2>2, <2>3, EntryIs
    <2> QED BY <2>4 DEF j
  <1> HIDE DEF E, m
  <1>5. first = EntryContaining(slices, at) /\ last = EntryContaining(slices, at + n - 1)
    OBVIOUS
  <1> HIDE DEF first, last
  <1>6. K \in 1 .. m
    <2>1. /\ first - 1 \in 0 .. m /\ last \in 0 .. m /\ first \in Nat /\ last \in Nat
          /\ 1 <= first /\ last <= m
      BY <1>1, <1>3, <1>4
    <2>2. ~(last <= first - 1)
      <3> SUFFICES ASSUME last <= first - 1 PROVE FALSE
        OBVIOUS
      <3>1. E[last] <= E[first - 1] /\ E[last] \in Nat /\ E[first - 1] \in Nat
        BY <1>1, <1>2, <2>1
      <3> DEFINE x == E[last]  y == E[first - 1]
      <3>2. x <= y /\ x \in Nat /\ y \in Nat /\ y <= at /\ at + n - 1 < x
        BY <1>3, <1>4, <3>1
      <3> HIDE DEF x, y
      <3> QED BY <3>2
    <2> QED BY <1>1, <2>1, <2>2
  <1>7. t \in Seq(Bytes) /\ at + n <= Len(t)
    BY EndsAreLengths
  <1> HIDE DEF t
  <1>8. ASSUME NEW k \in 1 .. K
        PROVE  /\ P(k) \in Entries(mem)
               /\ a(k - 1) \in Nat /\ a(k) \in Nat
               /\ at <= a(k - 1) /\ a(k - 1) < a(k) /\ a(k) <= at + n
               /\ Copied(mem, P(k)) = BytesOf(t, a(k - 1), a(k) - a(k - 1))
               /\ k = K => a(k) = at + n
    BY <1>5, PartInIs DEF t
  <1>9. a(0) = at
    BY DEF UpToPart
  <1> HIDE DEF P, a, K
  <1>10. parts \in Seq(Entries(mem)) /\ Len(parts) = K /\ \A k \in 1 .. K : parts[k] = P(k)
    <2>1. K \in Nat
      BY <1>1, <1>6
    <2> QED BY <1>8, <2>1
  <1> HIDE DEF parts
  <1> DEFINE T == {k \in 0 .. K : w(k) = BytesOf(t, at, a(k) - at)}
  <1>11. 0 \in T
    <2>1. w(0) = <<>>
      <3>1. SubSeq(parts, 1, 0) = <<>>
        OBVIOUS
      <3> QED BY <3>1, TextOne
    <2>2. BytesOf(t, at, 0) = <<>>
      <3>1. at \in Int /\ 0 \in Nat
        OBVIOUS
      <3>2. BytesOf(t, at, 0) \in Seq(Bytes) /\ Len(BytesOf(t, at, 0)) = 0
        BY <1>7, <3>1, PartBytes
      <3> QED BY <3>2, EmptySeq
    <2>3. a(0) - at = 0
      BY <1>9
    <2>4. 0 \in 0 .. K
      BY <1>1, <1>6
    <2> QED BY <2>1, <2>2, <2>3, <2>4
  <1>12. \A k \in 1 .. K : k - 1 \in T => k \in T
    <2> TAKE k \in 1 .. K
    <2> HAVE k - 1 \in T
    <2> DEFINE x == w(k - 1)  c == Copied(mem, parts[k])
               y == a(k - 1) - at  z == a(k) - a(k - 1)
    <2>1. w(k) = x \o c
      BY <1>10, FirstTexts
    <2>2. x = BytesOf(t, at, y)
      OBVIOUS
    <2>3. c = BytesOf(t, a(k - 1), z)
      BY <1>8, <1>10
    <2>4. /\ y \in Nat /\ z \in Nat /\ at + y = a(k - 1) /\ y + z = a(k) - at
          /\ at + (y + z) <= Len(t)
      <3> DEFINE f == a(k - 1)  g == a(k)  l == Len(t)
      <3>1. f \in Nat /\ g \in Nat /\ l \in Nat /\ at <= f /\ f < g /\ g <= at + n /\ at + n <= l
        BY <1>7, <1>8, LenProperties
      <3> HIDE DEF f, g, l
      <3>2. /\ f - at \in Nat /\ g - f \in Nat /\ at + (f - at) = f
            /\ (f - at) + (g - f) = g - at /\ at + ((f - at) + (g - f)) <= l
        BY <3>1
      <3> QED BY <3>2 DEF f, g, l
    <2> HIDE DEF y, z, x, c
    <2>5. BytesOf(t, at, y) \o BytesOf(t, at + y, z) = BytesOf(t, at, y + z)
      <3>1. t \in Seq(Bytes) /\ y \in Nat /\ z \in Nat /\ at + (y + z) <= Len(t)
        BY <1>7, <2>4
      <3> QED BY <3>1, BytesJoin
    <2>6. w(k) = BytesOf(t, at, a(k) - at)
      BY <2>1, <2>2, <2>3, <2>4, <2>5
    <2>7. k \in 0 .. K
      BY <1>1, <1>6
    <2> QED BY <2>6, <2>7
  <1> HIDE DEF T
  <1>13. \A k \in 0 .. K : k \in T
    <2>1. K \in Nat
      BY <1>1, <1>6
    <2> QED BY <1>11, <1>12, <2>1, UpTo
  <1>14. w(K) = BytesOf(t, at, n)
    <2>1. K \in 0 .. K /\ K \in 1 .. K
      BY <1>1, <1>6
    <2>2. w(K) = BytesOf(t, at, a(K) - at)
      BY <1>13, <2>1 DEF T
    <2>3. a(K) = at + n
      BY <1>8, <2>1
    <2>4. (at + n) - at = n
      OBVIOUS
    <2> QED BY <2>2, <2>3, <2>4
  <1>15. SubSeq(parts, 1, K) = parts
    BY <1>10, SubSeqFull
  <1>16. K <= m
    BY <1>1, <1>6
  <1> QED BY <1>10, <1>14, <1>15, <1>16 DEF parts, P, K, t, m, first, last

\* An edit that makes fewer objects.
LEMMA EditedLess ==
  ASSUME NEW st, NEW r, NEW t, NEW k \in Nat, NEW l \in Nat, k <= l, Edited(st, r, t, k)
  PROVE  Edited(st, r, t, l)
  <1>1. GoesOn(st.contents, r.contents, k)
    BY DEF Edited
  <1>2. ASSUME NEW j \in Nat, Room(st.contents, l + j)
        PROVE  Room(r.contents, j)
    <2>1. k + j <= l + j /\ k + j \in Nat /\ l + j \in Nat
      OBVIOUS
    <2>2. Room(st.contents, k + j)
      BY <1>2, <2>1, RoomForLess
    <2> QED BY <1>1, <2>2 DEF GoesOn
  <1>3. GoesOn(st.contents, r.contents, l)
    BY <1>1, <1>2 DEF GoesOn
  <1> QED BY <1>3 DEF Edited

\* subarrayWithRange: has the bytes of the range.
LEMMA SubarrayIs ==
  ASSUME MemoryIsThere, NEW st, Good(st), Room(st.contents, 2 + Len(st.slices)),
         NEW at \in Nat, NEW n \in Nat, at + n <= LengthOf(st.slices)
  PROVE  Edited(st, subarrayWithRange(st, at, n), BytesOf(TextOf(st), at, n),
                2 + Len(st.slices))
  <1> DEFINE mem == st.contents
             slices == st.slices
             t == TextOf(st)
             k == 2 + Len(slices)
             l == LengthOf(slices)
             r == subarrayWithRange(st, at, n)
             none == [slices |-> <<>>, contents |-> mem]
             x == BytesOf(t, at, n)
  <1>1. /\ mem \in Memory /\ mem \in Memories(Bytes) /\ slices \in Seq(Entries(mem))
        /\ t = TextIn(mem, slices) /\ t \in Seq(Bytes) /\ l = Len(t) /\ l \in Nat
    BY GoodText
  <1>2. k \in Nat /\ Len(slices) \in Nat
    BY <1>1, LenProperties
  <1>3. [st EXCEPT !.slices = <<>>] = none
    BY WithSlices
  <1>4. Good(none) /\ TextOf(none) = <<>>
    <2>1. <<>> \in Seq(Entries(mem))
      OBVIOUS
    <2> QED BY <1>1, <2>1, GoodState, TextOne
  <1>5. GoesOn(mem, mem, 0)
    BY <1>1 DEF GoesOn
  <1>6. CASE n = l
    <2>1. r = st
      BY <1>6 DEF subarrayWithRange
    <2>2. at = 0
      BY <1>1, <1>6
    <2>3. x = t
      <3>1. x = SubSeq(t, 0 + 1, 0 + l)
        BY <1>6, <2>2 DEF BytesOf
      <3>2. 0 + 1 = 1 /\ 0 + l = l
        BY <1>1
      <3>3. SubSeq(t, 1, Len(t)) = t
        BY <1>1, SubSeqFull
      <3> QED BY <1>1, <3>1, <3>2, <3>3
    <2>4. Edited(st, st, t, 0)
      BY <1>5 DEF Edited
    <2>5. 0 \in Nat /\ 0 <= k
      BY <1>2
    <2> HIDE DEF t, k, r, x
    <2>6. Edited(st, r, x, k)
      BY <1>2, <2>1, <2>3, <2>4, <2>5, EditedLess
    <2> QED BY <2>6 DEF r, x, k, t
  <1>7. CASE n # l /\ n = 0
    <2>1. r = none
      BY <1>3, <1>7 DEF subarrayWithRange
    <2>2. x = <<>>
      <3>1. at \in Int /\ 0 \in Nat
        OBVIOUS
      <3>2. BytesOf(t, at, 0) \in Seq(Bytes) /\ Len(BytesOf(t, at, 0)) = 0
        BY <1>1, <3>1, PartBytes
      <3> QED BY <1>7, <3>2, EmptySeq
    <2>3. Edited(st, none, <<>>, 0)
      BY <1>4, <1>5 DEF Edited
    <2>4. 0 \in Nat /\ 0 <= k
      BY <1>2
    <2> HIDE DEF t, k, r, x, none
    <2>5. Edited(st, r, x, k)
      BY <1>2, <2>1, <2>2, <2>3, <2>4, EditedLess
    <2> QED BY <2>5 DEF r, x, k, t
  <1>8. CASE n # l /\ n # 0
    <2> DEFINE first == EntryContaining(slices, at)
               last == EntryContaining(slices, at + n - 1)
               K == last + 1 - first
               parts == [i \in 1 .. K |-> PartIn(slices, at, n, first + i - 1)]
    <2>1. r = insertByteArray(none, parts, 0, 0)
      BY <1>3, <1>8 DEF subarrayWithRange, PartIn
    <2>2. /\ parts \in Seq(Entries(mem)) /\ Len(parts) = K /\ K <= Len(slices)
          /\ TextIn(mem, parts) = BytesOf(TextIn(mem, slices), at, n)
      <3>1. n \in Nat \ {0} /\ at + n <= LengthOf(slices)
        BY <1>8
      <3> HIDE DEF slices, mem
      <3> QED BY <1>1, <3>1, PartsAre
    <2> HIDE DEF parts, first, last
    <2> DEFINE j == 2 + Len(parts)
    <2>3. j \in Nat /\ j <= k
      <3>1. Len(parts) \in Nat /\ Len(parts) <= Len(slices)
        BY <2>2, LenProperties
      <3> QED BY <1>2, <3>1
    <2>4. Room(mem, j)
      <3> HIDE DEF j, k, mem
      <3>1. Room(mem, k)
        BY DEF mem, k
      <3> QED BY <1>2, <2>3, <3>1, RoomForLess
    <2>5. /\ none.slices = <<>> /\ none.contents = mem /\ 0 + 0 <= LengthOf(none.slices)
      <3>1. LengthOf(<<>>) = 0
        <4>1. LengthOf(none.slices) = Len(TextOf(none))
          BY <1>4, GoodText
        <4> QED BY <1>4, <4>1
      <3> QED BY <3>1
    <2>6. Splice(<<>>, 0, 0, TextIn(mem, parts)) = x
      <3> DEFINE y == TextIn(mem, parts)
      <3>1. y = x
        BY <1>1, <2>2
      <3>2. y \in Seq(Bytes)
        BY <1>1, <2>2, EndsAreLengths
      <3>3. SubSeq(<<>>, 1, 0) = <<>> /\ SubSeq(<<>>, 0 + 0 + 1, Len(<<>>)) = <<>>
        OBVIOUS
      <3> HIDE DEF y
      <3>4. <<>> \o y \o <<>> = y
        BY <3>2, ConcatEmptySeq
      <3> QED BY <3>1, <3>3, <3>4 DEF Splice, y
    <2> HIDE DEF none, mem, t, x, k, r, slices
    <2>7. Edited(none, insertByteArray(none, parts, 0, 0),
                 Splice(TextOf(none), 0, 0, TextIn(none.contents, parts)), 2 + Len(parts))
      <3>1. Good(none) /\ Room(none.contents, 2 + Len(parts))
            /\ parts \in Seq(Entries(none.contents)) /\ 0 \in Nat
            /\ 0 + 0 <= LengthOf(none.slices)
        BY <1>4, <2>2, <2>4, <2>5
      <3> QED BY <3>1, InsertedArray
    <2>8. Edited(none, r, x, j)
      BY <1>4, <2>1, <2>5, <2>6, <2>7
    <2>9. Edited(st, r, x, j)
      BY <2>5, <2>8 DEF Edited, mem
    <2> HIDE DEF j
    <2>10. Edited(st, r, x, k)
      BY <1>2, <2>3, <2>9, EditedLess
    <2> QED BY <2>10 DEF r, x, k, t, slices
  <1> QED BY <1>6, <1>7, <1>8

\* What insertData: of the controller makes of an array.
LEMMA TypingIs ==
  ASSUME MemoryIsThere, NEW mem \in Memory, NEW slices \in Seq(Entries(mem)), Room(mem, 4),
         NEW bytes \in Seq(Bytes), bytes # <<>>,
         NEW at \in Nat, NEW n \in Nat, at + n <= LengthOf(slices)
  PROVE  LET new == Unshared(mem, bytes)
         IN  Edited([slices |-> slices, contents |-> mem],
                    insertByteSliceInRange([slices |-> slices, contents |-> new.contents],
                                           new.slice, at, n),
                    Splice(TextIn(mem, slices), at, n, bytes), 4)
  <1> DEFINE new == Unshared(mem, bytes)
             c == new.contents
             slice == new.slice
             st == [slices |-> slices, contents |-> c]
             old == [slices |-> slices, contents |-> mem]
             t == TextIn(mem, slices)
             r == insertByteSliceInRange(st, slice, at, n)
  <1>1. Room(mem, 1)
    <2>1. 1 \in Nat /\ 4 \in Nat /\ 1 <= 4
      OBVIOUS
    <2> QED BY <2>1, RoomForLess
  <1>2. GoesOn(mem, c, 1) /\ slice \in Entries(c) /\ Copied(c, slice) = bytes
    BY <1>1, UnsharedIs
  <1> HIDE DEF new
  <1>3. slices \in Seq(Entries(c)) /\ TextIn(c, slices) = t
    BY <1>2, ListGoesOn
  <1>4. c \in Memory
    BY <1>2 DEF GoesOn
  <1>5. Good(st) /\ TextOf(st) = t /\ st.slices = slices /\ st.contents = c
    BY <1>3, <1>4, GoodState
  <1>6. Room(c, 3)
    <2>1. 1 + 3 = 4 /\ 3 \in Nat
      OBVIOUS
    <2> QED BY <1>2, <2>1 DEF GoesOn
  <1> HIDE DEF c, slice, t
  <1>7. Edited(st, r, Splice(t, at, n, bytes), 3)
    <2>1. /\ Good(st) /\ Room(st.contents, 3) /\ slice \in Entries(st.contents)
          /\ at + n <= LengthOf(st.slices)
      BY <1>2, <1>5, <1>6
    <2> HIDE DEF st
    <2>2. Edited(st, insertByteSliceInRange(st, slice, at, n),
                 Splice(TextOf(st), at, n, Copied(st.contents, slice)), 3)
      BY <2>1, InsertedInRange
    <2> QED BY <1>2, <1>5, <2>2
  <1>8. Edited(old, st, t, 1)
    <2>1. old.contents = mem
      OBVIOUS
    <2> QED BY <1>2, <1>5, <2>1 DEF Edited
  <1> DEFINE k == 1  l == 3  m == 4  x == Splice(t, at, n, bytes)
  <1>9. /\ m = k + l /\ k \in Nat /\ l \in Nat
        /\ Edited(old, st, t, k) /\ Edited(st, r, x, l)
    BY <1>7, <1>8
  <1> HIDE DEF r, st, old, k, l, m, x
  <1>10. Edited(old, r, x, m)
    BY <1>9, EditedTwice
  <1> USE DEF m, x
  <1> QED BY <1>10 DEF old, r, st, t, c, slice, new

-----------------------------------------------------------------------------
(* Any sequence of calls *)

\* The slices of all arrays are in the memory, where there is room for the
\* next call.
TypeInv ==
    /\ contents \in Memory
    /\ btree \in [Arrays -> Seq(Entries(contents))]
    /\ \A a \in Arrays : LengthOf(btree[a]) <= MaxLength
    /\ IsFiniteSet(Used(contents)) /\ Cardinality(Used(contents)) <= MaxObjects

\* What the bounds leave to a call.
LEMMA RoomThere ==
  ASSUME TypeInv
  PROVE  /\ \A k \in 0 .. MaxLength + 4 : Room(contents, k)
         /\ \A a \in Arrays : Room(contents, 2 + Len(btree[a])) /\ 2 + Len(btree[a]) \in Nat
  <1> DEFINE u == Cardinality(Used(contents))
  <1>1. u \in Nat /\ u <= MaxObjects /\ MaxObjects \in Nat /\ MaxLength \in Nat
        /\ IsFiniteSet(Used(contents))
    BY FS_CardinalityType, SlicedArraysAssumption DEF TypeInv
  <1>2. \A k \in 0 .. MaxLength + 4 : Room(contents, k)
    <2> TAKE k \in 0 .. MaxLength + 4
    <2> HIDE DEF u
    <2>1. u + k <= Enough
      BY <1>1 DEF Enough
    <2> USE DEF u
    <2> QED BY <1>1, <2>1 DEF Room
  <1>3. ASSUME NEW a \in Arrays
        PROVE  2 + Len(btree[a]) \in 0 .. MaxLength + 4
    <2> DEFINE s == btree[a]
               m == Len(s)
               l == LengthOf(s)
    <2>1. s \in Seq(Entries(contents)) /\ contents \in Memories(Bytes) /\ l <= MaxLength
      BY DEF TypeInv, Memory
    <2> HIDE DEF s
    <2>2. m \in Nat /\ m <= l /\ l \in Nat
      BY <2>1, EndsIncrease, EndsAreLengths, LenProperties DEF LengthOf
    <2> HIDE DEF m, l
    <2>3. 2 + m \in 0 .. MaxLength + 4
      BY <1>1, <2>1, <2>2
    <2> QED BY <2>3 DEF m, s
  <1>4. ASSUME NEW a \in Arrays
        PROVE  Room(contents, 2 + Len(btree[a])) /\ 2 + Len(btree[a]) \in Nat
    BY <1>1, <1>2, <1>3
  <1> QED BY <1>2, <1>4

\* Offsets and lengths are inside the array.
LEMMA RangeIs ==
  ASSUME TypeInv, NEW a \in Arrays, NEW r \in Ranges(a)
  PROVE  r[1] \in Nat /\ r[2] \in Nat /\ r[1] + r[2] <= LengthOf(btree[a])
  <1> DEFINE n == LengthOf(btree[a])
  <1>1. n \in Nat
    <2>1. btree[a] \in Seq(Entries(contents)) /\ contents \in Memories(Bytes)
      BY DEF TypeInv, Memory
    <2> QED BY <2>1, EndsAreLengths, LenProperties
  <1>2. r \in (0 .. n) \X (0 .. n) /\ r[1] + r[2] <= n
    BY DEF Ranges
  <1> HIDE DEF n
  <1>3. r[1] \in 0 .. n /\ r[2] \in 0 .. n
    BY <1>2
  <1> QED BY <1>1, <1>2, <1>3 DEF n

\* The array itself.
LEMMA StateIs ==
  ASSUME TypeInv, NEW a \in Arrays
  PROVE  /\ State(a) = [slices |-> btree[a], contents |-> contents]
         /\ State(a).slices = btree[a] /\ State(a).contents = contents
         /\ Good(State(a)) /\ TextOf(State(a)) = TextIn(contents, btree[a])
         /\ contents \in Memory /\ btree[a] \in Seq(Entries(contents))
  <1>1. contents \in Memory /\ btree[a] \in Seq(Entries(contents))
    BY DEF TypeInv
  <1> QED BY <1>1, GoodState DEF State

\* What the calls make of an array.
LEMMA CallsAreExact ==
  ASSUME MemoryIsThere, TypeInv, NEW a \in Arrays, NEW r \in Ranges(a)
  PROVE  LET text == TextOf(State(a))
             at == r[1]
             n == r[2]
         IN  /\ \A bytes \in Inserted :
                   Edited(State(a), Typing(a, bytes, at, n), Splice(text, at, n, bytes), 4)
             /\ Edited(State(a), deleteBytesInRange(State(a), at, n),
                       Splice(text, at, n, <<>>), 2)
             /\ \A b \in Arrays :
                   Edited(State(a), insertByteArray(State(a), btree[b], at, n),
                          Splice(text, at, n, TextOf(State(b))), 2 + Len(btree[b]))
             /\ Edited(State(a), subarrayWithRange(State(a), at, n), BytesOf(text, at, n),
                       2 + Len(btree[a]))
  <1> DEFINE text == TextOf(State(a))
             at == r[1]
             n == r[2]
             st == State(a)
             mem == contents
             slices == btree[a]
  <1>1. at \in Nat /\ n \in Nat /\ at + n <= LengthOf(slices)
    BY RangeIs
  <1>2. /\ st = [slices |-> slices, contents |-> mem]
        /\ st.slices = slices /\ st.contents = mem
        /\ Good(st) /\ text = TextIn(mem, slices)
        /\ mem \in Memory /\ slices \in Seq(Entries(mem))
    BY StateIs
  <1>3. Room(mem, 4) /\ Room(mem, 2) /\ \A b \in Arrays : Room(mem, 2 + Len(btree[b]))
    <2>1. 4 \in 0 .. MaxLength + 4 /\ 2 \in 0 .. MaxLength + 4
      BY SlicedArraysAssumption
    <2> QED BY <2>1, RoomThere
  <1>4. \A b \in Arrays :
           btree[b] \in Seq(Entries(mem)) /\ TextOf(State(b)) = TextIn(mem, btree[b])
    BY StateIs
  <1>5. ASSUME NEW bytes \in Inserted
        PROVE  Edited(st, Typing(a, bytes, at, n), Splice(text, at, n, bytes), 4)
    <2>1. bytes \in Seq(Bytes) /\ bytes # <<>>
      BY SlicedArraysAssumption
    <2> DEFINE new == Unshared(mem, bytes)
    <2>2. Typing(a, bytes, at, n)
            = insertByteSliceInRange([slices |-> slices, contents |-> new.contents],
                                     new.slice, at, n)
      BY DEF Typing
    <2> HIDE DEF at, n, slices, mem, st, text, new
    <2>3. Edited([slices |-> slices, contents |-> mem],
                 insertByteSliceInRange([slices |-> slices, contents |-> new.contents],
                                        new.slice, at, n),
                 Splice(TextIn(mem, slices), at, n, bytes), 4)
      BY <1>1, <1>2, <1>3, <2>1, TypingIs DEF new
    <2> QED BY <1>2, <2>2, <2>3
  <1> HIDE DEF at, n, slices, mem, st, text
  <1>6. Edited(st, deleteBytesInRange(st, at, n), Splice(text, at, n, <<>>), 2)
    BY <1>1, <1>2, <1>3, DeletedRange DEF text, st
  <1>7. ASSUME NEW b \in Arrays
        PROVE  Edited(st, insertByteArray(st, btree[b], at, n),
                      Splice(text, at, n, TextOf(State(b))), 2 + Len(btree[b]))
    <2> DEFINE more == btree[b]
    <2>1. /\ more \in Seq(Entries(st.contents)) /\ Room(st.contents, 2 + Len(more))
          /\ at + n <= LengthOf(st.slices) /\ TextOf(State(b)) = TextIn(st.contents, more)
      BY <1>1, <1>2, <1>3, <1>4
    <2> HIDE DEF more
    <2>2. Edited(st, insertByteArray(st, more, at, n),
                 Splice(TextOf(st), at, n, TextIn(st.contents, more)), 2 + Len(more))
      BY <1>1, <1>2, <2>1, InsertedArray
    <2> QED BY <2>1, <2>2 DEF more, text, st
  <1>8. Edited(st, subarrayWithRange(st, at, n), BytesOf(text, at, n), 2 + Len(slices))
    <2>1. Room(st.contents, 2 + Len(st.slices)) /\ at + n <= LengthOf(st.slices)
      BY <1>1, <1>2, <1>3 DEF slices
    <2>2. Edited(st, subarrayWithRange(st, at, n), BytesOf(TextOf(st), at, n),
                 2 + Len(st.slices))
      BY <1>1, <1>2, <2>1, SubarrayIs
    <2> QED BY <1>2, <2>2 DEF text, st
  <1> QED BY <1>5, <1>6, <1>7, <1>8 DEF at, n, st, text, slices

\* Slices in memory of which only data that none of them is in is released.
LEMMA ListKept ==
  ASSUME NEW old \in Memory, NEW new \in Memory, NEW slices \in Seq(Entries(old)),
         \A i \in DOMAIN slices : new[slices[i].data] = old[slices[i].data]
  PROVE  slices \in Seq(Entries(new))
  <1>1. slices \in [1 .. Len(slices) -> Entries(old)] /\ DOMAIN slices = 1 .. Len(slices)
    BY LenProperties, SeqDef
  <1>2. \A i \in 1 .. Len(slices) : slices[i] \in Entries(new)
    <2> TAKE i \in 1 .. Len(slices)
    <2> DEFINE s == slices[i]
    <2>1. s \in Entries(old) /\ new[s.data] = old[s.data]
      BY <1>1
    <2> HIDE DEF s
    <2>2. s \in Entries(new)
      BY <2>1 DEF Entries, SlicesIn
    <2> QED BY <2>2 DEF s
  <1>3. Len(slices) \in Nat
    BY LenProperties
  <1> QED BY <1>1, <1>2, <1>3, SeqDef

\* An edit whose array is kept.
LEMMA BecomeIs ==
  ASSUME TypeInv, NEW a \in Arrays, NEW r, NEW k \in Nat, Room(contents, k),
         Good(r), GoesOn(contents, r.contents, k), Become(a, r)
  PROVE  TypeInv'
  <1> DEFINE c == r.contents
             new == contents'
             bt == btree'
             had == UNION {{bt[b][i].data : i \in DOMAIN bt[b]} : b \in Arrays}
  <1>1. /\ contents \in Memory /\ btree \in [Arrays -> Seq(Entries(contents))]
        /\ \A b \in Arrays : LengthOf(btree[b]) <= MaxLength
    BY DEF TypeInv
  <1>2. c \in Memory /\ r.slices \in Seq(Entries(c)) /\ GoesOn(contents, c, k)
    BY DEF Good
  <1>3. /\ LengthOf(r.slices) <= MaxLength
        /\ bt = [btree EXCEPT ![a] = r.slices]
        /\ new = [d \in DOMAIN contents |-> IF d \in Data \ had THEN <<>> ELSE c[d]]
        /\ Cardinality({d \in Data : new[d] # <<>>}) <= MaxObjects
    BY DEF Become
  <1>4. /\ contents \in [Data \cup {File, Nil} -> Seq(Bytes)]
        /\ c \in [Data \cup {File, Nil} -> Seq(Bytes)] /\ c[File] = Original /\ c[Nil] = <<>>
    BY <1>1, <1>2 DEF Memory, Memories
  <1>5. \A b \in Arrays : bt[b] = IF b = a THEN r.slices ELSE btree[b]
    BY <1>1, <1>3
  <1> HIDE DEF c
  <1>6. \A b \in Arrays : bt[b] \in Seq(Entries(c)) /\ LengthOf(bt[b]) <= MaxLength
    <2> TAKE b \in Arrays
    <2>1. btree[b] \in Seq(Entries(contents))
      BY <1>1
    <2>2. btree[b] \in Seq(Entries(c))
      BY <1>1, <1>2, <2>1, ListGoesOn
    <2> QED BY <1>1, <1>2, <1>3, <1>5, <2>2
  <1>7. bt \in [Arrays -> Seq(Entries(c))]
    <2>1. DOMAIN bt = Arrays /\ bt = [b \in Arrays |-> bt[b]]
      BY <1>1, <1>3
    <2> QED BY <1>6, <2>1
  <1> HIDE DEF had
  <1>8. /\ DOMAIN new = Data \cup {File, Nil}
        /\ \A d \in Data \cup {File, Nil} :
              new[d] = IF d \in Data \ had THEN <<>> ELSE c[d]
    BY <1>3, <1>4
  <1>9. new \in Memory
    <2>1. \A d \in Data \cup {File, Nil} : new[d] \in Seq(Bytes)
      BY <1>4, <1>8
    <2>2. new = [d \in Data \cup {File, Nil} |-> new[d]]
      BY <1>3, <1>4
    <2> HIDE DEF new
    <2>3. new \in [Data \cup {File, Nil} -> Seq(Bytes)]
      BY <2>1, <2>2
    <2>4. new[File] = Original /\ new[Nil] = <<>>
      BY <1>4, <1>8, SlicedArraysAssumption
    <2> QED BY <2>3, <2>4 DEF Memory, Memories
  <1>10. \A b \in Arrays : bt[b] \in Seq(Entries(new))
    <2> TAKE b \in Arrays
    <2> DEFINE s == bt[b]
    <2>1. \A i \in DOMAIN s : new[s[i].data] = c[s[i].data]
      <3> TAKE i \in DOMAIN s
      <3>1. s[i].data \in had
        BY DEF had
      <3>2. s[i].data \in Data \cup {File, Nil}
        <4>1. s \in Seq(Entries(c))
          BY <1>6
        <4>2. s[i] \in Entries(c)
          <5> HIDE DEF s
          <5> QED BY <4>1, ElementOfSeq, LenProperties
        <4> QED BY <4>2 DEF Entries, SlicesIn
      <3> HIDE DEF s, new
      <3> QED BY <1>8, <3>1, <3>2
    <2>2. s \in Seq(Entries(c))
      BY <1>6
    <2> HIDE DEF s, new
    <2>3. s \in Seq(Entries(new))
      BY <1>2, <1>9, <2>1, <2>2, ListKept
    <2> QED BY <2>3 DEF s
  <1>11. bt \in [Arrays -> Seq(Entries(new))]
    <2>1. bt = [b \in Arrays |-> bt[b]]
      BY <1>7
    <2> QED BY <1>10, <2>1
  <1>12. IsFiniteSet(Used(new))
    <2>1. Room(c, 0)
      <3>1. k + 0 = k /\ 0 \in Nat
        OBVIOUS
      <3> QED BY <1>2, <3>1 DEF GoesOn
    <2>2. IsFiniteSet(Used(c))
      BY <2>1 DEF Room
    <2>3. Used(new) \subseteq Used(c)
      BY <1>8 DEF Used
    <2> QED BY <2>2, <2>3, FS_Subset
  <1>13. Cardinality(Used(new)) <= MaxObjects
    BY <1>3 DEF Used
  <1>14. \A b \in Arrays : LengthOf(bt[b]) <= MaxLength
    BY <1>6
  <1> QED BY <1>9, <1>11, <1>12, <1>13, <1>14 DEF TypeInv

\* At the beginning each array is the whole file.
LEMMA AtFirst ==
  ASSUME Init
  PROVE  TypeInv
  <1> DEFINE s == [data |-> File, offset |-> 0, length |-> Len(Original), tail |-> <<>>]
             one == <<s>>
  <1>1. /\ Original \in Seq(Bytes) /\ Original # <<>> /\ MaxTail \in Nat \ {0}
        /\ MaxObjects \in Nat /\ Len(Original) <= MaxLength
        /\ File \notin Data /\ Nil \notin Data /\ Nil # File
    BY SlicedArraysAssumption
  <1>2. Len(Original) \in Nat \ {0}
    BY <1>1, EmptySeq, LenProperties
  <1>3. /\ contents = [d \in Data \cup {File, Nil} |-> IF d = File THEN Original ELSE <<>>]
        /\ btree = [a \in Arrays |-> one]
    BY DEF Init
  <1>4. contents \in Memory
    <2>1. \A d \in Data \cup {File, Nil} : (IF d = File THEN Original ELSE <<>>) \in Seq(Bytes)
      BY <1>1
    <2>2. contents \in [Data \cup {File, Nil} -> Seq(Bytes)]
      BY <1>3, <2>1
    <2>3. contents[File] = Original /\ contents[Nil] = <<>>
      BY <1>1, <1>3
    <2> QED BY <2>2, <2>3 DEF Memory, Memories
  <1>5. s \in Entries(contents) /\ SliceLength(s) = Len(Original)
    <2>1. Len(<<>>) = 0 /\ <<>> \in Seq(Bytes)
      OBVIOUS
    <2>2. SliceLength(s) = Len(Original)
      BY <1>2, <2>1 DEF SliceLength
    <2>3. contents[File] = Original
      BY <1>3
    <2>4. s \in SlicesIn(contents, Bytes)
      BY <1>1, <1>2, <2>1, <2>3 DEF SlicesIn
    <2> QED BY <1>2, <2>2, <2>4 DEF Entries
  <1> HIDE DEF s
  <1>6. one \in Seq(Entries(contents))
    BY <1>5
  <1>7. LengthOf(one) <= MaxLength
    <2>1. LengthOf(one) = Len(TextIn(contents, one))
      BY <1>4, <1>6, EndsAreLengths DEF Memory
    <2>2. Copied(contents, s) \in Seq(Bytes) /\ Len(Copied(contents, s)) = SliceLength(s)
      BY <1>4, <1>5, EntryFacts DEF Memory
    <2>3. TextIn(contents, one) = Copied(contents, s)
      BY <2>2, TextOne
    <2> QED BY <1>1, <1>5, <2>1, <2>2, <2>3
  <1> HIDE DEF one
  <1>8. btree \in [Arrays -> Seq(Entries(contents))]
    BY <1>3, <1>6
  <1>9. \A a \in Arrays : LengthOf(btree[a]) <= MaxLength
    BY <1>3, <1>7
  <1>10. Used(contents) = {}
    BY <1>1, <1>3 DEF Used
  <1>11. IsFiniteSet({}) /\ Cardinality({}) = 0
    BY FS_EmptySet
  <1> QED BY <1>1, <1>4, <1>8, <1>9, <1>10, <1>11 DEF TypeInv

\* Every call keeps the slices of all arrays in the memory.
LEMMA NextKeeps ==
  ASSUME MemoryIsThere, TypeInv, [Next]_vars
  PROVE  TypeInv'
  <1>1. ASSUME NEW a \in Arrays, InsertBytes(a)
        PROVE  TypeInv'
    <2>1. PICK bytes \in Inserted, r \in Ranges(a) : Become(a, Typing(a, bytes, r[1], r[2]))
      BY <1>1 DEF InsertBytes
    <2> DEFINE s == Typing(a, bytes, r[1], r[2])
               k == 4
    <2>2. Edited(State(a), s, Splice(TextOf(State(a)), r[1], r[2], bytes), k)
      BY CallsAreExact
    <2>3. k \in Nat /\ Room(contents, k)
      BY RoomThere, SlicedArraysAssumption
    <2>4. Become(a, s)
      BY <2>1
    <2> HIDE DEF s, k
    <2>5. Good(s) /\ GoesOn(contents, s.contents, k)
      BY <2>2, StateIs DEF Edited
    <2> QED BY <2>3, <2>4, <2>5, BecomeIs
  <1>2. ASSUME NEW a \in Arrays, DeleteBytes(a)
        PROVE  TypeInv'
    <2>1. PICK r \in Ranges(a) : Become(a, deleteBytesInRange(State(a), r[1], r[2]))
      BY <1>2 DEF DeleteBytes
    <2> DEFINE s == deleteBytesInRange(State(a), r[1], r[2])
               k == 2
    <2>2. Edited(State(a), s, Splice(TextOf(State(a)), r[1], r[2], <<>>), k)
      BY CallsAreExact
    <2>3. k \in Nat /\ Room(contents, k)
      BY RoomThere, SlicedArraysAssumption
    <2>4. Become(a, s)
      BY <2>1
    <2> HIDE DEF s, k
    <2>5. Good(s) /\ GoesOn(contents, s.contents, k)
      BY <2>2, StateIs DEF Edited
    <2> QED BY <2>3, <2>4, <2>5, BecomeIs
  <1>3. ASSUME NEW a \in Arrays, NEW b \in Arrays, InsertArray(a, b)
        PROVE  TypeInv'
    <2>1. PICK r \in Ranges(a) : Become(a, insertByteArray(State(a), btree[b], r[1], r[2]))
      BY <1>3 DEF InsertArray
    <2> DEFINE s == insertByteArray(State(a), btree[b], r[1], r[2])
               k == 2 + Len(btree[b])
    <2>2. Edited(State(a), s,
                 Splice(TextOf(State(a)), r[1], r[2], TextOf(State(b))), k)
      BY CallsAreExact
    <2>3. k \in Nat /\ Room(contents, k)
      BY RoomThere
    <2>4. Become(a, s)
      BY <2>1
    <2> HIDE DEF s, k
    <2>5. Good(s) /\ GoesOn(contents, s.contents, k)
      BY <2>2, StateIs DEF Edited
    <2> QED BY <2>3, <2>4, <2>5, BecomeIs
  <1>4. ASSUME NEW a \in Arrays, NEW b \in Arrays \ {a}, Subarray(a, b)
        PROVE  TypeInv'
    <2>1. PICK r \in Ranges(a) : Become(b, subarrayWithRange(State(a), r[1], r[2]))
      BY <1>4 DEF Subarray
    <2> DEFINE s == subarrayWithRange(State(a), r[1], r[2])
               k == 2 + Len(btree[a])
    <2>2. Edited(State(a), s, BytesOf(TextOf(State(a)), r[1], r[2]), k)
      BY CallsAreExact
    <2>3. k \in Nat /\ Room(contents, k)
      BY RoomThere
    <2>4. Become(b, s)
      BY <2>1
    <2> HIDE DEF s, k
    <2>5. Good(s) /\ GoesOn(contents, s.contents, k)
      BY <2>2, StateIs DEF Edited
    <2> QED BY <2>3, <2>4, <2>5, BecomeIs
  <1>5. ASSUME UNCHANGED vars
        PROVE  TypeInv'
    BY <1>5 DEF TypeInv, vars
  <1> QED BY <1>1, <1>2, <1>3, <1>4, <1>5 DEF Next

\* The invariant implies what the code asserts of its slices.
LEMMA TypesInside ==
  ASSUME TypeInv
  PROVE  TypeOK
  <1>1. contents \in [Data \cup {File, Nil} -> Seq(Bytes)]
        /\ contents[File] = Original /\ contents[Nil] = <<>>
    BY DEF TypeInv, Memory, Memories
  <1>2. DOMAIN btree = Arrays
    BY DEF TypeInv
  <1>3. ASSUME NEW a \in Arrays, NEW i \in DOMAIN btree[a]
        PROVE  LET s == btree[a][i]
               IN  /\ SliceLength(s) > 0
                   /\ s.offset \in Nat /\ s.length \in Nat
                   /\ s.offset + s.length <= Len(contents[s.data])
                   /\ Len(s.tail) <= MaxTail
                   /\ s.data = File => s.tail = <<>>
    <2> DEFINE t == btree[a]
    <2>1. t \in Seq(Entries(contents)) /\ i \in DOMAIN t
      BY <1>3 DEF TypeInv
    <2> HIDE DEF t
    <2>2. t[i] \in Entries(contents)
      BY <2>1, ElementOfSeq, LenProperties
    <2> DEFINE s == t[i]
    <2>3. s \in Entries(contents)
      BY <2>2
    <2> HIDE DEF s
    <2>4. /\ SliceLength(s) > 0
          /\ s.offset \in Nat /\ s.length \in Nat
          /\ s.offset + s.length <= Len(contents[s.data])
          /\ Len(s.tail) <= MaxTail
          /\ s.data = File => s.tail = <<>>
      BY <2>3 DEF Entries, SlicesIn
    <2> QED BY <2>4 DEF s, t
  <1> QED BY <1>1, <1>2, <1>3 DEF TypeOK

\* No other array reads anything else after an edit.
LEMMA OthersRead ==
  ASSUME TypeInv, NEW a \in Arrays, NEW r, NEW t, NEW k \in Nat, Edited(State(a), r, t, k)
  PROVE  /\ TextOf(r) = t
         /\ \A b \in Arrays : TextOf([r EXCEPT !.slices = btree[b]]) = TextOf(State(b))
  <1>1. TextOf(r) = t /\ Good(r) /\ GoesOn(contents, r.contents, k)
    BY StateIs DEF Edited
  <1>2. ASSUME NEW b \in Arrays
        PROVE  TextOf([r EXCEPT !.slices = btree[b]]) = TextOf(State(b))
    <2> DEFINE s == btree[b]
               m == r.contents
    <2>1. /\ contents \in Memory /\ s \in Seq(Entries(contents))
          /\ TextOf(State(b)) = TextIn(contents, s)
      BY StateIs
    <2>2. [r EXCEPT !.slices = s] = [slices |-> s, contents |-> m]
      BY <1>1, WithSlices
    <2>3. m \in Memory
      BY <1>1 DEF Good
    <2> HIDE DEF s, m
    <2>4. s \in Seq(Entries(m)) /\ TextIn(m, s) = TextIn(contents, s)
      BY <1>1, <2>1, ListGoesOn DEF m
    <2>5. TextOf([slices |-> s, contents |-> m]) = TextIn(m, s)
      BY <2>3, <2>4, GoodState
    <2> QED BY <2>1, <2>2, <2>4, <2>5 DEF s
  <1> QED BY <1>1, <1>2

\* Each call does what it should wherever the slices are in the memory.
LEMMA EditsInside ==
  ASSUME MemoryIsThere, TypeInv
  PROVE  EditsAreExact
  <1> SUFFICES ASSUME NEW a \in Arrays, NEW r \in Ranges(a)
               PROVE  LET text == TextOf(State(a))
                          Replaced(bytes) ==
                              SubSeq(text, 1, r[1]) \o bytes
                                \o SubSeq(text, r[1] + r[2] + 1, Len(text))
                      IN  /\ \A bytes \in Inserted :
                                Makes(a, Typing(a, bytes, r[1], r[2]), Replaced(bytes))
                          /\ Makes(a, deleteBytesInRange(State(a), r[1], r[2]),
                                   Replaced(<<>>))
                          /\ \A b \in Arrays :
                                Makes(a, insertByteArray(State(a), btree[b], r[1], r[2]),
                                      Replaced(TextOf(State(b))))
                          /\ LET sub == subarrayWithRange(State(a), r[1], r[2])
                             IN  /\ TextOf(sub) = SubSeq(text, r[1] + 1, r[1] + r[2])
                                 /\ \A b \in Arrays :
                                       TextOf([sub EXCEPT !.slices = btree[b]])
                                          = TextOf(State(b))
    BY DEF EditsAreExact
  <1> DEFINE text == TextOf(State(a))
             Replaced(bytes) ==
                 SubSeq(text, 1, r[1]) \o bytes \o SubSeq(text, r[1] + r[2] + 1, Len(text))
             sub == subarrayWithRange(State(a), r[1], r[2])
  <1>1. \A x : Replaced(x) = Splice(text, r[1], r[2], x)
    BY DEF Splice
  <1> HIDE DEF Replaced
  <1>2. ASSUME NEW s, NEW t, NEW k \in Nat, Edited(State(a), s, t, k)
        PROVE  Makes(a, s, t)
    BY <1>2, OthersRead DEF Makes
  <1>3. \A bytes \in Inserted :
           Edited(State(a), Typing(a, bytes, r[1], r[2]), Splice(text, r[1], r[2], bytes), 4)
    BY CallsAreExact
  <1>4. Edited(State(a), deleteBytesInRange(State(a), r[1], r[2]),
               Splice(text, r[1], r[2], <<>>), 2)
    BY CallsAreExact
  <1>5. \A b \in Arrays :
           Edited(State(a), insertByteArray(State(a), btree[b], r[1], r[2]),
                  Splice(text, r[1], r[2], TextOf(State(b))), 2 + Len(btree[b]))
    BY CallsAreExact
  <1>6. Edited(State(a), sub, BytesOf(text, r[1], r[2]), 2 + Len(btree[a]))
    BY CallsAreExact
  <1> HIDE DEF text, sub
  <1>7. ASSUME NEW bytes \in Inserted
        PROVE  Makes(a, Typing(a, bytes, r[1], r[2]), Replaced(bytes))
    <2>1. 4 \in Nat
      OBVIOUS
    <2>2. Makes(a, Typing(a, bytes, r[1], r[2]), Splice(text, r[1], r[2], bytes))
      BY <1>2, <1>3, <2>1
    <2> QED BY <1>1, <2>2
  <1>8. Makes(a, deleteBytesInRange(State(a), r[1], r[2]), Replaced(<<>>))
    <2>1. 2 \in Nat
      OBVIOUS
    <2>2. Makes(a, deleteBytesInRange(State(a), r[1], r[2]),
                Splice(text, r[1], r[2], <<>>))
      BY <1>2, <1>4, <2>1
    <2> QED BY <1>1, <2>2
  <1>9. ASSUME NEW b \in Arrays
        PROVE  Makes(a, insertByteArray(State(a), btree[b], r[1], r[2]),
                     Replaced(TextOf(State(b))))
    <2>1. 2 + Len(btree[b]) \in Nat
      BY RoomThere
    <2>2. Makes(a, insertByteArray(State(a), btree[b], r[1], r[2]),
                Splice(text, r[1], r[2], TextOf(State(b))))
      BY <1>2, <1>5, <2>1
    <2> QED BY <1>1, <2>2
  <1>10. /\ TextOf(sub) = SubSeq(text, r[1] + 1, r[1] + r[2])
         /\ \A b \in Arrays : TextOf([sub EXCEPT !.slices = btree[b]]) = TextOf(State(b))
    <2>1. 2 + Len(btree[a]) \in Nat
      BY RoomThere
    <2> QED BY <1>6, <2>1, OthersRead DEF BytesOf
  <1> QED BY <1>7, <1>8, <1>9, <1>10 DEF Replaced, text, sub

\* Whatever calls come, in whatever order, the bytes of every slice are in its
\* memory and the bounds of the slices hold: what copyBytes:range: and
\* initWithSharedData:offset:length:tail:tailLength: assert.
THEOREM SlicesHold == ASSUME MemoryIsThere PROVE Spec => []TypeOK
  <1>1. Init => TypeInv
    BY AtFirst
  <1>2. TypeInv /\ [Next]_vars => TypeInv'
    BY NextKeeps
  <1>3. TypeInv => TypeOK
    BY TypesInside
  <1> QED BY <1>1, <1>2, <1>3, PTL DEF Spec

\* insertByteSlice:inRange:, deleteBytesInRange:, insertByteArray:inRange: and
\* subarrayWithRange: do to the bytes of an array what they would do to a
\* sequence of bytes, and to the other arrays nothing, for any number of
\* arrays, any slices a history of calls has left and any sharing of memory.
THEOREM EditsHold == ASSUME MemoryIsThere PROVE Spec => []EditsAreExact
  <1>1. Init => TypeInv
    BY AtFirst
  <1>2. TypeInv /\ [Next]_vars => TypeInv'
    BY NextKeeps
  <1>3. TypeInv => EditsAreExact
    BY EditsInside
  <1> QED BY <1>1, <1>2, <1>3, PTL DEF Spec
=============================================================================
